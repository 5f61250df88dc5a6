---------------------------- MODULE MC_Vc4Encode ----------------------------
(***************************************************************************)
(* Instructions for the vc4 encoder: the shapes the lowering and the       *)
(* register allocator hand it, over the registers each operand slot can    *)
(* hold after allocation (both files, the accumulators, the special        *)
(* registers the lowering reads and writes, small immediates).            *)
(***************************************************************************)
EXTENDS Vc4Encode

DestRegs ==
    {Reg("REG_A", 0), Reg("REG_B", 31), Reg("ACC", 0), Reg("ACC", 4), Reg("ACC", 5), NoneReg,
     Special("TMU0_S"), Special("VPM_WRITE"), Special("SFU_RECIP"), Special("DMA_ST_ADDR"),
     Special("WR_SETUP"), Special("HOST_INT")}

\* Two registers of file A, so that a same-file pair occurs.
SrcOperands ==
    {RegOp(Reg("REG_A", 1)), RegOp(Reg("REG_A", 2)), RegOp(Reg("REG_B", 2)), RegOp(Reg("ACC", 1)),
     RegOp(Special("UNIFORM")), RegOp(Special("ELEM_NUM")), RegOp(Special("QPU_NUM")),
     RegOp(Special("VPM_READ")), RegOp(NoneReg), ImmOp(3)}

Conds == {<<"always", FALSE>>, <<"zs", TRUE>>}

ALUs ==
    {i \in {ALU(op, c[1], c[2], d, a, b) :
                op \in {"A_ADD", "M_FMUL"}, c \in Conds, d \in DestRegs,
                a \in SrcOperands, b \in SrcOperands} :
        ~(i.srcA.tag = "IMM" /\ i.srcB.tag = "IMM")}

Rotates ==
    {ALU("M_ROTATE", "always", FALSE, d, a, b) :
        d \in {Reg("ACC", 1), Reg("REG_A", 0)},
        a \in {RegOp(Reg("ACC", 0)), RegOp(Reg("REG_A", 1))},
        b \in {RegOp(Reg("ACC", 5)), ImmOp(1), ImmOp(15)}}

LIs ==
    {LI(c, sf, d, k) :
        c \in {"always", "zs", "never"}, sf \in BOOLEAN, d \in DestRegs,
        k \in {0, -1, 2147483647, -2147483647 - 1}}

BRs == {BR(c, rel, off) : c \in {"always", "all_zs", "any_nc", "never"}, rel \in BOOLEAN, off \in {-4, 0, 5}}

Others ==
    {Simple(t) : t \in {"END", "TMU0_TO_ACC4", "NO_OP", "PRI", "IRQ", "DMA_LOAD_WAIT",
                         "DMA_STORE_WAIT", "LAB"}}
      \cup {Sema("SINC", 0), Sema("SDEC", 15)}

CompilerInputs == ALUs \cup Rotates \cup LIs \cup BRs \cup Others

\* Rotations by 0 and by 16, which the DSL's rotate(x, n) can request.
RotateRangeInputs ==
    {ALU("M_ROTATE", "always", FALSE, Reg("ACC", 1), RegOp(Reg("ACC", 0)), ImmOp(n)) : n \in {1, 0, 16}}
=============================================================================
