---------------------------- MODULE MC_V3dEncode ----------------------------
(***************************************************************************)
(* Instructions for the v3d encoder: ALUs over the registers each slot    *)
(* can hold on v3d after allocation (REG_A, and REG_B as the lowering's   *)
(* fixed registers use it), the accumulators, the special registers and   *)
(* small immediates, with ops that have a v3d counterpart and ops that do *)
(* not; uniform loads; and the other instruction kinds.                   *)
(***************************************************************************)
EXTENDS V3dEncode

DestRegs ==
    {Reg("REG_A", 0), Reg("REG_A", 31), Reg("REG_B", 1), Reg("ACC", 1), Reg("ACC", 5),
     NoneReg, Special("TMU0_S"), Special("VPM_WRITE")}

SrcOperands ==
    {RegOp(Reg("REG_A", 1)), RegOp(Reg("REG_B", 2)), RegOp(Reg("ACC", 1)),
     RegOp(Reg("ACC", 5)), RegOp(Uniform), RegOp(Special("ELEM_NUM")),
     RegOp(Special("VPM_READ")), RegOp(NoneReg), ImmOp(3)}

\* Add and mul ops with and without a v3d op, shl, the uniform-load move
\* (A_BOR) and rotate.
Ops == {"A_ADD", "A_SHL", "A_BOR", "A_V8ADDS", "M_FMUL", "M_V8MIN", "M_ROTATE"}

\* shl reads srcA's register whatever srcA is; the lowering gives it one.
ALUs ==
    {i \in {ALU(op, "always", FALSE, d, a, b) :
                op \in Ops, d \in DestRegs, a \in SrcOperands, b \in SrcOperands} :
        ~(i.op = "A_SHL" /\ i.srcA.tag = "IMM")}

Others ==
    {LI("always", FALSE, Reg("REG_A", 0), 1), BR("always", TRUE, 5), Simple("END"),
     Simple("IRQ"), Simple("DMA_LOAD_WAIT"), Simple("NO_OP"), Sema("SINC", 0)}

CompilerInputs == ALUs \cup Others

\* Two values an unassigned byte can hold.
UninitBytes == {0, 39}
=============================================================================
