------------------------------- MODULE QpuUse -------------------------------
(***************************************************************************)
(* What the vc4 QPU power management promises its users: the QPUs are     *)
(* powered while, and only while, some user holds them.  A user acquires  *)
(* them when it starts and releases them when it ends; acquiring powers   *)
(* them on, and the last release powers them off.                         *)
(***************************************************************************)
CONSTANT Users

VARIABLES holders, powered

vars == <<holders, powered>>

Init == holders = {} /\ powered = FALSE

Acquire(u) ==
    /\ u \notin holders
    /\ holders' = holders \cup {u}
    /\ powered' = TRUE

Release(u) ==
    /\ u \in holders
    /\ holders' = holders \ {u}
    /\ powered' = (holders' # {})

Next == \E u \in Users : Acquire(u) \/ Release(u)

Spec == Init /\ [][Next]_vars

\* The QPUs are on exactly when someone holds them.
PoweredIffHeld == powered = (holders # {})
=============================================================================
