------------------------------ MODULE TargetIR ------------------------------
(***************************************************************************)
(* The target IR of the compiler (spec section 3, src/Lib/Target/Instr.cpp)*)
(* and the operators over it that the register-allocation pipeline uses:  *)
(* use/def sets, the CFG of src/Lib/Target/CFG.cpp, one pass of the       *)
(* backward liveness dataflow, and a one-lane emulator of the IR that     *)
(* serves as the reference semantics (spec 4.6, component C9).            *)
(*                                                                         *)
(* Instruction indices are 1-based (the code's are 0-based).  Before      *)
(* allocation a variable v is the register REG_A v; its value domain is   *)
(* abstracted to 0..ValueBound-1.                                          *)
(***************************************************************************)
EXTENDS Integers, Sequences, FiniteSets, TLC, Bitwise

CONSTANTS
    Vars,        \* the variable ids 0..numVars-1 handed out by freshVar()
    Labels,      \* the labels handed out by freshLabel()
    ValueBound   \* lane values are taken modulo ValueBound

Reg(t, i)  == [tag |-> t, regId |-> i]
VarReg(v)  == Reg("REG_A", v)
RegOp(r)   == [tag |-> "REG", reg |-> r]
ImmOp(k)   == [tag |-> "IMM", val |-> k]

ALU(op, c, sf, d, a, b) ==
    [tag |-> "ALU", op |-> op, cond |-> c, setFlags |-> sf,
     dest |-> d, srcA |-> a, srcB |-> b]
LI(c, d, k) == [tag |-> "LI", cond |-> c, dest |-> d, imm |-> k]
BRL(c, l)   == [tag |-> "BRL", cond |-> c, label |-> l]
LAB(l)      == [tag |-> "LAB", label |-> l]
PRI(r)      == [tag |-> "PRI", reg |-> r]
EndInstr    == [tag |-> "END"]

HasDest(ins) == ins.tag \in {"ALU", "LI"}

\* Faulty variant: only a conditional LI counts as a conditional assignment.
isCondAssignLIOnly(ins) == ins.tag = "LI" /\ ins.cond # "always"

\* Instr::isCondAssign(): an LI or ALU whose assign condition is not ALWAYS.
isCondAssign(ins) == HasDest(ins) /\ ins.cond # "always"

\* useDef(): the variables (REG_A registers before allocation) an
\* instruction defines and uses.  A conditional assignment keeps the old
\* value in the lanes it does not write, so its destination is also a use.
Def(ins) == IF HasDest(ins) /\ ins.dest.tag = "REG_A" THEN {ins.dest.regId} ELSE {}
Use(ins) ==
    LET srcRegs == CASE ins.tag = "ALU" ->
                          {o.reg : o \in {x \in {ins.srcA, ins.srcB} : x.tag = "REG"}}
                     [] ins.tag = "PRI" -> {ins.reg}
                     [] OTHER           -> {}
    IN {r.regId : r \in {x \in srcRegs : x.tag = "REG_A"}}
         \cup (IF isCondAssign(ins) THEN Def(ins) ELSE {})

\* getTwoUses(): an ALU whose two operands are both registers.
TwoUses(ins) == ins.tag = "ALU" /\ ins.srcA.tag = "REG" /\ ins.srcB.tag = "REG"

-----------------------------------------------------------------------------
(* buildCFG(): first pass, each instruction falls through to the next      *)
(* unless it is an unconditional BRL, an END or the last instruction, and  *)
(* labelMap records the index of every LAB (a later LAB of the same label  *)
(* overwrites an earlier one); second pass, every BRL gets its label's     *)
(* index as a successor.                                                    *)
LabelMap(instrs) ==
    [l \in Labels |->
        LET at == {i \in DOMAIN instrs : instrs[i] = LAB(l)}
        IN IF at = {} THEN -1 ELSE CHOOSE i \in at : \A j \in at : j <= i]

\* Faulty variant: every branch, conditional or not, is treated as a jump
\* without a fall-through successor.
BuildCFGCondNoFallThrough(instrs) ==
    LET n == Len(instrs)
        lm == LabelMap(instrs)
    IN [i \in 1..n |->
          (IF instrs[i].tag \in {"BRL", "END"} \/ i = n THEN {} ELSE {i + 1})
          \cup (IF instrs[i].tag = "BRL" THEN {lm[instrs[i].label]} ELSE {})]

BuildCFG(instrs) ==
    LET n == Len(instrs)
        lm == LabelMap(instrs)
        uncond(i) == instrs[i].tag = "BRL" /\ instrs[i].cond = "always"
        end(i) == instrs[i].tag = "END" \/ i = n
    IN [i \in 1..n |->
          (IF uncond(i) \/ end(i) THEN {} ELSE {i + 1})
          \cup (IF instrs[i].tag = "BRL" THEN {lm[instrs[i].label]} ELSE {})]

\* Every BRL names a label that has a LAB (the assert of the second pass).
LabelsResolve(instrs) ==
    \A i \in DOMAIN instrs :
        instrs[i].tag = "BRL" => LabelMap(instrs)[instrs[i].label] # -1

-----------------------------------------------------------------------------
(* Liveness (spec 4.3): live_out(i) is the union of live_in over succ(i),  *)
(* live_in(i) = use(i) \cup (live_out(i) \ def(i)).  One pass updates the  *)
(* sets in place in reverse instruction order.                             *)
LiveOut(instrs, succ, live, i) == UNION {live[s] : s \in succ[i]}

\* Faulty variant: the definition does not kill liveness.
LiveInKeepsDefs(instrs, succ, live, i) ==
    Use(instrs[i]) \cup LiveOut(instrs, succ, live, i)

LiveIn(instrs, succ, live, i) ==
    Use(instrs[i]) \cup (LiveOut(instrs, succ, live, i) \ Def(instrs[i]))

RECURSIVE ReversePass(_, _, _, _)
ReversePass(instrs, succ, live, i) ==
    IF i = 0 THEN live
    ELSE ReversePass(instrs, succ,
                     [live EXCEPT ![i] = LiveIn(instrs, succ, live, i)], i - 1)

LivenessPass(instrs, succ, live) == ReversePass(instrs, succ, live, Len(instrs))

-----------------------------------------------------------------------------
(* One-lane emulator: the reference semantics of a target program.  All   *)
(* registers start at 0 and the Z flag clear; LI loads its immediate, ALU  *)
(* A_ADD adds and A_BOR ors modulo ValueBound, setFlags sets Z to          *)
(* "result is zero", a conditional assignment writes only when its flag   *)
(* condition holds, BRL jumps to its label when its condition holds (the  *)
(* label form, before branch delays are introduced), PRI appends the      *)
(* register's value to the output.  It runs for at most fuel steps.       *)
Val(env, r)    == IF r \in DOMAIN env THEN env[r] ELSE 0
OpVal(env, o)  == IF o.tag = "IMM" THEN o.val ELSE Val(env, o.reg)
Holds(c, z)    == c = "always" \/ (c = "zs" /\ z) \/ (c = "zc" /\ ~z)
AluVal(op, x, y) == IF op = "A_ADD" THEN (x + y) % ValueBound ELSE (x | y) % ValueBound

RECURSIVE Exec(_, _, _, _, _, _)
Exec(instrs, pc, env, z, fuel, out) ==
    IF fuel = 0 \/ pc > Len(instrs) \/ instrs[pc].tag = "END" THEN out
    ELSE LET ins == instrs[pc] IN
      CASE ins.tag = "ALU" ->
             LET v == AluVal(ins.op, OpVal(env, ins.srcA), OpVal(env, ins.srcB))
             IN Exec(instrs, pc + 1,
                     IF Holds(ins.cond, z) THEN (ins.dest :> v) @@ env ELSE env,
                     IF ins.setFlags THEN v = 0 ELSE z, fuel - 1, out)
        [] ins.tag = "LI" ->
             Exec(instrs, pc + 1,
                  IF Holds(ins.cond, z) THEN (ins.dest :> ins.imm) @@ env ELSE env,
                  z, fuel - 1, out)
        [] ins.tag = "BRL" ->
             Exec(instrs,
                  IF Holds(ins.cond, z) THEN LabelMap(instrs)[ins.label] ELSE pc + 1,
                  env, z, fuel - 1, out)
        [] ins.tag = "PRI" ->
             Exec(instrs, pc + 1, env, z, fuel - 1, Append(out, Val(env, ins.reg)))
        [] OTHER -> Exec(instrs, pc + 1, env, z, fuel - 1, out)

Output(instrs, fuel) == Exec(instrs, 1, <<>>, FALSE, fuel, <<>>)

\* The instructions Exec can run right after instruction i, for some value
\* of the Z flag.
ExecSucc(instrs, i) ==
    LET ins == instrs[i] IN
    {j \in DOMAIN instrs :
        CASE ins.tag = "END" -> FALSE
          [] ins.tag = "BRL" -> \/ j = LabelMap(instrs)[ins.label]
                                \/ ins.cond # "always" /\ j = i + 1
          [] OTHER -> j = i + 1}

\* The instructions reachable from S in at most k steps of succ that leave
\* only instructions outside blocked.
RECURSIVE ReachableAvoiding(_, _, _, _)
ReachableAvoiding(succ, blocked, S, k) ==
    IF k = 0 THEN S
    ELSE ReachableAvoiding(succ, blocked,
                           S \cup UNION {succ[j] : j \in S \ blocked}, k - 1)

\* Reference definition of liveness, independent of the CFG and of the
\* iteration: v is live into i iff a path the emulator can take from i
\* reaches a use of v, and no instruction the path leaves before that use
\* defines v.
LiveRef(instrs) ==
    LET n == Len(instrs)
        succ == [i \in 1..n |-> ExecSucc(instrs, i)]
        defsOf(v) == {i \in 1..n : v \in Def(instrs[i])}
        usesOf(v) == {i \in 1..n : v \in Use(instrs[i])}
    IN [i \in 1..n |->
          {v \in Vars : \/ i \in usesOf(v)
                        \/ /\ i \notin defsOf(v)
                           /\ ReachableAvoiding(succ, defsOf(v) \cup usesOf(v), {i}, n)
                                \cap usesOf(v) # {}}]

=============================================================================
