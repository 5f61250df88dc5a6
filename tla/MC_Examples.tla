----------------------------- MODULE MC_Examples -----------------------------
(***************************************************************************)
(* Two example programs in one model.  A behaviour is one run of either   *)
(* Rot3D on vc4 (6 vectors, kernels 0 and "cpu", 2 or 3 QPUs, counts    *)
(* that divide the vectors) or Tri on v3d                                 *)
(* (integer and float kernels, on 1 or 8 QPUs, the two counts add_init    *)
(* handles).  The variables of the program not chosen stay at a fixed    *)
(* value and are not looked at.                                           *)
(***************************************************************************)
EXTENDS Integers

VARIABLES target,
          host, settings, x, y, pc, ptr, it, xOld, yOld, fifo,
          triHost, triSettings, triArr, triPc

rotVars == <<host, settings, x, y, pc, ptr, it, xOld, yOld, fifo>>
triVars == <<triHost, triSettings, triArr, triPc>>
vars == <<target, rotVars, triVars>>

Rot == INSTANCE Rot3D WITH NB <- 6, Kernels <- {0, 3}, QpuCounts <- {2, 3}

\* -n = 1 or 8; the array then sits at device address 4096.
Tri == INSTANCE Tri
           WITH Kernels <- {0, 1}, QpuCounts <- {1, 8}, Base <- 4096,
                host <- triHost, settings <- triSettings, arr <- triArr, pc <- triPc

IdleRot ==
    /\ host = "done"
    /\ settings = [kernel |-> 3, numQPUs |-> 2, compileOnly |-> TRUE]
    /\ x = [b \in Rot!Addr |-> Rot!Junk] /\ y = [b \in Rot!Addr |-> Rot!Junk]
    /\ pc = [q \in Rot!QPUs |-> "idle"]
    /\ ptr = [q \in Rot!QPUs |-> 0] /\ it = [q \in Rot!QPUs |-> 0]
    /\ xOld = [q \in Rot!QPUs |-> Rot!Junk] /\ yOld = [q \in Rot!QPUs |-> Rot!Junk]
    /\ fifo = [q \in Rot!QPUs |-> <<>>]

IdleTri ==
    /\ triHost = "done"
    /\ triSettings = [kernel |-> 0, numQPUs |-> 1, compileOnly |-> TRUE]
    /\ triArr = <<>>
    /\ triPc = [q \in Tri!QPUs |-> "idle"]

Init ==
    \/ target = "rot3d" /\ Rot!Init /\ IdleTri
    \/ target = "tri" /\ Tri!Init /\ IdleRot

Next ==
    \/ target = "rot3d" /\ Rot!Next /\ UNCHANGED <<target, triVars>>
    \/ target = "tri" /\ Tri!Next /\ UNCHANGED <<target, rotVars>>

\* Rot3D's fairness: its QPUs and TMUs run in hardware and the host waits.
Spec == Init /\ [][Next]_vars /\ Rot!Fairness

-----------------------------------------------------------------------------
(* Properties: those of Rot3D and Tri, each on its own program.           *)

\* Type invariant of the program that runs.
TypeOK ==
    /\ target \in {"rot3d", "tri"}
    /\ target = "rot3d" => Rot!TypeOK
    /\ target = "tri" => Tri!TypeOK

\* rot3D_3 rotates every element exactly once, from the two halves of its
\* own pair, across the prefetch (Rot3D!ResultIsRotation).
ResultIsRotation == target = "rot3d" => Rot!ResultIsRotation

\* No QPU running rot3D_3 stores past the end of x or y
\* (Rot3D!StoresInBounds).
StoresInBounds == target = "rot3d" => Rot!StoresInBounds

\* Every run of Rot3D ends: the receives are answered and the invocation
\* returns (Rot3D!Terminates).
Terminates == target = "rot3d" => Rot!Terminates

\* Tri leaves the i-th triangular number in element i, each lane of each
\* QPU working on the element add_init's offsets give it
\* (Tri!TriResult).
TriResult == target = "tri" => Tri!TriResult
=============================================================================
