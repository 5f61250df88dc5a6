-------------------------- MODULE MC_RegAllocTargets --------------------------
(***************************************************************************)
(* The register-allocation pipeline on both targets in one model: a       *)
(* behaviour compiles one kernel, either for vc4 over the straight-line   *)
(* alphabet of MC_RegAlloc (three variables, two register files) or for  *)
(* v3d over its loop alphabet (two variables, one label).  The target is  *)
(* fixed by the build (Platform.h), so it is chosen once, in Init.        *)
(***************************************************************************)
EXTENDS Integers, Sequences

VARIABLES target, passes, phase, source, instrs, cfg, live, prefA, prefB, liveWith,
          alloc, prevFile, next

vars == <<target, passes, phase, source, instrs, cfg, live, prefA, prefB, liveWith,
          alloc, prevFile, next>>

\* The alphabets and variable sets, read from MC_RegAlloc; they use no
\* constant, so the values given here do not matter.
Defs == INSTANCE MC_RegAlloc
            WITH Vars <- {}, Labels <- {}, ValueBound <- 1, Target <- "vc4",
                 NumRegs <- 1, Alphabet <- {}, MaxLen <- 0, Fuel <- 0

Vc4 == INSTANCE MC_RegAlloc
           WITH Vars <- Defs!MCVars, Labels <- Defs!MCLabels, ValueBound <- 4,
                Target <- "vc4", NumRegs <- 1, Alphabet <- Defs!StraightAlphabet,
                MaxLen <- 4, Fuel <- 8

V3d == INSTANCE MC_RegAlloc
           WITH Vars <- Defs!MCLoopVars, Labels <- Defs!MCLabels, ValueBound <- 4,
                Target <- "v3d", NumRegs <- 1, Alphabet <- Defs!LoopAlphabet,
                MaxLen <- 4, Fuel <- 12

\* passes is a history variable: the number of reverse passes
\* Liveness::compute() has made.  It is not state of the program.
Init ==
    /\ passes = 0
    /\ \/ target = "vc4" /\ Vc4!Init
       \/ target = "v3d" /\ V3d!Init

Next ==
    /\ \/ target = "vc4" /\ Vc4!Next
       \/ target = "v3d" /\ V3d!Next
    /\ passes' = IF phase = "liveness" THEN passes + 1 ELSE passes
    /\ UNCHANGED target

Spec == Init /\ [][Next]_vars

-----------------------------------------------------------------------------
(* Properties: those of RegAlloc, on the target built.                    *)

On(P, Q) == (target = "vc4" => P) /\ (target = "v3d" => Q)

\* Type invariant of the pipeline for the target built.
TypeOK == target \in {"vc4", "v3d"} /\ On(Vc4!TypeOK, V3d!TypeOK)

\* The live sets regAlloc computes are those of the reference definition
\* (RegAlloc!LivenessIsLeastFixpoint).
LivenessIsLeastFixpoint ==
    On(Vc4!LivenessIsLeastFixpoint, V3d!LivenessIsLeastFixpoint)

\* No allocated instruction writes the register of a variable live after
\* it (RegAlloc!NoLiveValueClobbered).
NoLiveValueClobbered ==
    On(Vc4!NoLiveValueClobbered, V3d!NoLiveValueClobbered)

\* The allocated code prints what the lowered code prints
\* (RegAlloc!SemanticsPreserved).
SemanticsPreserved == On(Vc4!SemanticsPreserved, V3d!SemanticsPreserved)

\* Termination of Liveness::compute(), stated as a safety property so that
\* it is checked on both targets: the iteration stops within the height of
\* its lattice.
\* An instruction gains a live variable in every pass but the last, so
\* Liveness::compute() makes at most Len(instrs) * numVars + 1 passes.
NumVarsBuilt == IF target = "vc4" THEN Vc4!NumVars ELSE V3d!NumVars

LivenessPassesBounded == passes <= Len(instrs) * NumVarsBuilt + 1
=============================================================================
