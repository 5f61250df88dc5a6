--------------------------- MODULE MC_CompileStages ---------------------------
(***************************************************************************)
(* Three stages of the compile pipeline in one model.  A behaviour is one *)
(* of: a kernel function building its source statements (DSLBuilder, on   *)
(* the shapes of MC_DSLBuilder), the vc4 encoder (Vc4Encode) or the v3d  *)
(* encoder (V3dEncode) on the instructions of MC_Vc4Encode and            *)
(* MC_V3dEncode.  Which encoder runs is the platform the library is built *)
(* for (Platform.h).  The variables of the stages not chosen stay at a    *)
(* fixed value and are not looked at.                                     *)
(***************************************************************************)
CONSTANTS a, b

VARIABLES target, instr4, status4, code4, instr3, status3, out3,
          prog, objVar, nextVar, stack, control, status, calls, val, uniformsRead, stored

dslVars == <<prog, objVar, nextVar, stack, control, status, calls, val, uniformsRead, stored>>
vars == <<target, instr4, status4, code4, instr3, status3, out3, dslVars>>

\* The instruction sets, taken from the model modules; their definitions
\* read no constant of the encoder, so any value serves here.
Vc4Defs == INSTANCE MC_Vc4Encode WITH Inputs <- {}, instr <- instr4, status <- status4, code <- code4
V3dDefs == INSTANCE MC_V3dEncode WITH Inputs <- {}, Uninit <- {}, instr <- instr3, status <- status3, out <- out3

Vc4 == INSTANCE MC_Vc4Encode
           WITH Inputs <- Vc4Defs!CompilerInputs, instr <- instr4, status <- status4, code <- code4
V3d == INSTANCE MC_V3dEncode
           WITH Inputs <- V3dDefs!CompilerInputs, Uninit <- V3dDefs!UninitBytes,
                instr <- instr3, status <- status3, out <- out3

DslDefs == INSTANCE MC_DSLBuilder
               WITH Objects <- {}, Consts <- {}, Ops <- {}, CmpOps <- {}, ValueBound <- 1, Programs <- {}
Dsl == INSTANCE MC_DSLBuilder
           WITH Objects <- DslDefs!MCObjects, Consts <- {1}, Ops <- DslDefs!MCOps,
                CmpOps <- DslDefs!MCCmpOps, ValueBound <- 3, Programs <- DslDefs!MCPrograms

ObjectSymmetry == Dsl!ObjectSymmetry

IdleDsl ==
    /\ prog = <<>> /\ objVar = <<>> /\ nextVar = 0 /\ stack = <<>> /\ control = <<>>
    /\ status = "idle" /\ calls = 0 /\ val = <<>> /\ uniformsRead = 0 /\ stored = <<>>

Idle4 == instr4 = "idle" /\ status4 = "none" /\ code4 = <<>>
Idle3 == instr3 = "idle" /\ status3 = "none" /\ out3 = "idle"

Init ==
    \/ target = "dsl" /\ Dsl!Init /\ Idle4 /\ Idle3
    \/ target = "vc4" /\ Vc4!Init /\ Idle3 /\ IdleDsl
    \/ target = "v3d" /\ V3d!Init /\ Idle4 /\ IdleDsl

Next ==
    \/ target = "dsl" /\ Dsl!Next /\ UNCHANGED <<target, instr4, status4, code4, instr3, status3, out3>>
    \/ target = "vc4" /\ Vc4!Next /\ UNCHANGED <<target, instr3, status3, out3, dslVars>>
    \/ target = "v3d" /\ V3d!Next /\ UNCHANGED <<target, instr4, status4, code4, dslVars>>

Spec == Init /\ [][Next]_vars

-----------------------------------------------------------------------------
(* Properties: those of DSLBuilder, Vc4Encode and V3dEncode, each on its  *)
(* own stage.                                                             *)

\* Type invariant of the stage that runs.
TypeOK ==
    /\ target \in {"dsl", "vc4", "v3d"}
    /\ target = "dsl" => Dsl!TypeOK
    /\ target = "vc4" => Vc4!TypeOK
    /\ target = "v3d" => V3d!TypeOK

\* vc4 encodeInstr writes words that an independent decoder maps back to
\* the instruction it was given (Vc4Encode!RoundTrip).
RoundTrip == target = "vc4" => Vc4!RoundTrip

\* vc4 encodeInstr stops exactly on the instructions the QPU cannot
\* execute (Vc4Encode!AcceptedIffEncodable).
AcceptedIffEncodable == target = "vc4" => Vc4!AcceptedIffEncodable

\* The v3d encoder writes an instruction's destination and nothing else,
\* by the ALU that runs its op (V3dEncode!DestPreserved).
DestPreserved == target = "v3d" => V3d!DestPreserved

\* The statements a kernel function builds mean what its Float code says
\* read as float code (DSLBuilder!BuiltKernelMeansSource).
BuiltKernelMeansSource == target = "dsl" => Dsl!BuiltKernelMeansSource
=============================================================================
