------------------------------- MODULE V3dInit -------------------------------
(***************************************************************************)
(* The v3d init code (src/Lib/v3d/SourceTranslate.cpp): after lowering,   *)
(* add_init() inserts, just after the INIT_BEGIN marker, code that        *)
(* computes the QPU's id and adds a per-lane byte offset to every uniform *)
(* that is a pointer, so that lane e of QPU id addresses element          *)
(* 16 * id + e of each array.  The inserted code is built here as target  *)
(* instructions, the way add_init() builds it, and run by a 16-lane       *)
(* emulator of the few operations it uses.                                 *)
(*                                                                         *)
(* Before register allocation a variable v is the register rf(v) =        *)
(* REG_A v, and the lowering emits the uniform loads first, the i-th into *)
(* variable i: variable 0 is the QPU id, 1 the QPU count, 2 on the kernel *)
(* parameters (spec 4.2, 5).  The branch is taken as soon as it is         *)
(* reached: the NOPs for its delay slots are added downstream.            *)
(***************************************************************************)
EXTENDS Integers, Sequences, FiniteSetsExt, Bitwise, TLC, QpuInstr

\* Reserved variables (Int.h).
RSV_QPU_ID   == 0
RSV_NUM_QPUS == 1

Lanes == 0..15

\* The Target::instr helpers add_init() uses (outside src/).
rf(i)          == Reg("REG_A", i)
Acc(i)         == Reg("ACC", i)
UniformReg(p)  == [tag |-> "SPECIAL", regId |-> "UNIFORM", isUniformPtr |-> p]
Mov(d, a)      == ALU("A_BOR", "always", FALSE, d, a, a)
Op(op, d, a, b) == ALU(op, "always", FALSE, d, a, b)
Pushz(i)       == [i EXCEPT !.setFlags = TRUE]
BranchAllZC(l) == [tag |-> "BRL", cond |-> "allzc", label |-> l]
Label(l)       == [tag |-> "LAB", label |-> l]
InitBegin      == Simple("INIT_BEGIN")

\* The lowering of a kernel's parameters: one uniform load per variable,
\* flagged when the parameter is a pointer, then INIT_BEGIN.
UniformLoad(v, isPtr) ==
    Mov(rf(v), RegOp(UniformReg(isPtr)))

IsSpecial(r, s) == r.tag = "SPECIAL" /\ r.regId = s

IsUniformReg(r) == IsSpecial(r, "UNIFORM")

\* Instr::isUniformLoad(), with its two asserts.
IsUniformLoad(i) ==
    IF i.tag # "ALU" \/ i.srcA.tag # "REG" \/ i.srcB.tag # "REG" THEN FALSE
    ELSE IF IsUniformReg(i.srcA.reg)
         THEN Assert(i.srcA.reg = i.srcB.reg, "isUniformLoad: srcA # srcB")
         ELSE /\ Assert(~IsUniformReg(i.srcB.reg), "isUniformLoad: UNIFORM in srcB")
              /\ FALSE

\* add_uniform_pointer_offset(): walk the uniform loads at the top of the
\* code (0-based index) and, for each one flagged as a pointer, add ACC0 to
\* rf(index).
RECURSIVE PointerOffsets(_, _)
PointerOffsets(code, index) ==
    IF index >= Len(code) \/ ~IsUniformLoad(code[index + 1]) THEN <<>>
    ELSE (IF code[index + 1].srcA.tag = "REG" /\ code[index + 1].srcA.reg.isUniformPtr
          THEN <<Op("A_ADD", rf(index), RegOp(rf(index)), RegOp(Acc(0)))>>
          ELSE <<>>)
         \o PointerOffsets(code, index + 1)

AddUniformPointerOffset(code) == PointerOffsets(code, 0)

\* get_init_begin_marker(): the 0-based index of INIT_BEGIN.
GetInitBeginMarker(code) ==
    LET found == {i \in 1..Len(code) : code[i].tag = "INIT_BEGIN"}
        index == IF found = {} THEN Len(code) ELSE Min(found) - 1
    IN IF /\ Assert(index < Len(code), "Expecting INIT_BEGIN marker.")
          /\ Assert(index >= 2, "Expecting at least two uniform loads.")
       THEN index ELSE index

\* Faulty variant: the offset is 8 * (thread_num + 8 * qpu_num).
InitCodeStride8(code, l) ==
    << Mov(rf(RSV_QPU_ID), ImmOp(0)),
       Pushz(Op("A_SUB", Acc(0), RegOp(rf(RSV_NUM_QPUS)), ImmOp(8))),
       BranchAllZC(l),
       Mov(Acc(0), RegOp(Special("QPU_ID"))),
       Op("A_SHR", Acc(0), RegOp(Acc(0)), ImmOp(2)),
       Op("A_BAND", rf(RSV_QPU_ID), RegOp(Acc(0)), ImmOp(15)),
       Label(l),
       Op("A_SHL", Acc(1), RegOp(rf(RSV_QPU_ID)), ImmOp(3)),
       Mov(Acc(0), RegOp(Special("ELEM_ID"))),
       Op("A_ADD", Acc(1), RegOp(Acc(1)), RegOp(Acc(0))),
       Op("A_SHL", Acc(0), RegOp(Acc(1)), ImmOp(3)) >>
    \o AddUniformPointerOffset(code)

\* The code add_init() inserts: the QPU id, (thread_index >> 2) & 15 when
\* there are 8 QPUs and 0 otherwise, then offset = 4 * (elem + 16 * id) in
\* ACC0, then the pointer offsets.
InitCode(code, l) ==
    << Mov(rf(RSV_QPU_ID), ImmOp(0)),
       Pushz(Op("A_SUB", Acc(0), RegOp(rf(RSV_NUM_QPUS)), ImmOp(8))),
       BranchAllZC(l),
       Mov(Acc(0), RegOp(Special("QPU_ID"))),
       Op("A_SHR", Acc(0), RegOp(Acc(0)), ImmOp(2)),
       Op("A_BAND", rf(RSV_QPU_ID), RegOp(Acc(0)), ImmOp(15)),
       Label(l),
       Op("A_SHL", Acc(1), RegOp(rf(RSV_QPU_ID)), ImmOp(4)),
       Mov(Acc(0), RegOp(Special("ELEM_ID"))),
       Op("A_ADD", Acc(1), RegOp(Acc(1)), RegOp(Acc(0))),
       Op("A_SHL", Acc(0), RegOp(Acc(1)), ImmOp(2)) >>
    \o AddUniformPointerOffset(code)

\* add_init(): the init code goes in just after INIT_BEGIN.
AddInit(code, l) ==
    LET i == GetInitBeginMarker(code)
    IN SubSeq(code, 1, i + 1) \o InitCode(code, l) \o SubSeq(code, i + 2, Len(code))

-----------------------------------------------------------------------------
(* A 16-lane emulator of the prologue on one QPU: registers hold a value  *)
(* per lane; reading UNIFORM takes the next uniform; QPU_ID *)
(* reads the QPU's thread index and ELEM_ID the lane; pushz sets each     *)
(* lane's Z flag to "result is zero"; a branch with allzc is taken when   *)
(* Z is clear on every lane.                                               *)
(* The values are kept as integers: the prologue's values (ids, lanes,   *)
(* byte offsets, small addresses) stay far below 2^31, and the one that   *)
(* can be negative, numQPUs - 8, is only tested for zero, which 32-bit    *)
(* wrap-around does not change.                                            *)

RegKey(r) == [tag |-> r.tag, regId |-> r.regId]

LaneVal(st, o, e, thread, unifs) ==
    CASE o.tag = "IMM"                -> o.val
      [] IsUniformReg(o.reg)          -> unifs[st.u + 1]
      [] IsSpecial(o.reg, "QPU_ID")   -> thread
      [] IsSpecial(o.reg, "ELEM_ID")  -> e
      [] RegKey(o.reg) \in DOMAIN st.reg -> st.reg[RegKey(o.reg)][e]
      [] OTHER                        -> 0

AluVal(op, x, y) ==
    CASE op = "A_BOR"  -> x | y
      [] op = "A_ADD"  -> x + y
      [] op = "A_SUB"  -> x - y
      [] op = "A_SHL"  -> x * 2^y
      [] op = "A_SHR"  -> shiftR(x, y)
      [] op = "A_BAND" -> x & y

ReadsUniform(i) == i.srcA.tag = "REG" /\ IsUniformReg(i.srcA.reg)

RECURSIVE Run(_, _, _, _, _)
Run(code, pc, st, thread, unifs) ==
    IF pc > Len(code) THEN st
    ELSE LET i == code[pc] IN
      CASE i.tag = "ALU" ->
             LET v    == [e \in Lanes |-> AluVal(i.op, LaneVal(st, i.srcA, e, thread, unifs),
                                                       LaneVal(st, i.srcB, e, thread, unifs))]
                 next == [reg |-> (RegKey(i.dest) :> v) @@ st.reg,
                          z   |-> IF i.setFlags THEN [e \in Lanes |-> v[e] = 0] ELSE st.z,
                          u   |-> IF ReadsUniform(i) THEN st.u + 1 ELSE st.u]
             \* next = next makes TLC compute the state before the next step.
             IN IF next = next THEN Run(code, pc + 1, next, thread, unifs) ELSE next
        [] i.tag = "BRL" ->
             LET target == CHOOSE k \in 1..Len(code) : code[k].tag = "LAB" /\ code[k].label = i.label
             IN Run(code, IF \A e \in Lanes : ~st.z[e] THEN target ELSE pc + 1,
                    st, thread, unifs)
        [] OTHER -> Run(code, pc + 1, st, thread, unifs)

\* The value of variable v on every lane once the prologue has run on the
\* QPU with the given thread index and uniforms.
Prologue(code, thread, unifs, v) ==
    Run(code, 1, [reg |-> <<>>, z |-> [e \in Lanes |-> FALSE], u |-> 0], thread, unifs).reg[RegKey(rf(v))]
=============================================================================
