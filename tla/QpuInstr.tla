------------------------------ MODULE QpuInstr ------------------------------
(***************************************************************************)
(* The target instructions the two encoders take (spec section 3), as     *)
(* records: a register is a tag and an id, an operand a register or a     *)
(* small immediate.  Shared by Vc4Encode and V3dEncode.                   *)
(***************************************************************************)
Reg(t, i)  == [tag |-> t, regId |-> i]
Special(s) == Reg("SPECIAL", s)
RegOp(r)   == [tag |-> "REG", reg |-> r]
ImmOp(k)   == [tag |-> "IMM", val |-> k]
NoneReg    == Reg("NONE", 0)

ALU(op, c, sf, d, a, b) ==
    [tag |-> "ALU", op |-> op, cond |-> c, setFlags |-> sf, dest |-> d, srcA |-> a, srcB |-> b]
LI(c, sf, d, k) == [tag |-> "LI", cond |-> c, setFlags |-> sf, dest |-> d, imm |-> k]
BR(c, rel, off) == [tag |-> "BR", cond |-> c, relative |-> rel, immOffset |-> off]
Simple(t)       == [tag |-> t]
Sema(t, id)     == [tag |-> t, semaId |-> id]

\* The operations of the mul ALU.
MulOps == {"M_FMUL", "M_MUL24", "M_V8MUL", "M_V8MIN", "M_V8MAX", "M_V8ADDS", "M_V8SUBS"}

\* isMulOp() / Instr::isMul() (Target/Syntax.cpp, not under src/): the op
\* runs on the mul ALU; a rotate is a mul-ALU op.
IsMulOp(op) == op \in MulOps \cup {"M_ROTATE"}
=============================================================================
