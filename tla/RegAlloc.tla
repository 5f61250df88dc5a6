------------------------------ MODULE RegAlloc ------------------------------
(***************************************************************************)
(* Register allocation of a lowered kernel: CFG construction              *)
(* (src/Lib/Target/CFG.cpp), liveness, and the allocators of              *)
(* src/Lib/vc4/RegAlloc.cpp (two register files A and B, preference pass) *)
(* and src/Lib/v3d/SourceTranslate.cpp (one register file).               *)
(*                                                                         *)
(* The lowering (C4) is abstracted to Emit, which appends any instruction *)
(* of Alphabet, and Finish, which appends the END of kernelFinish().      *)
(* Every later step is one step of regAlloc(): a liveness pass, the       *)
(* preference pass, the interference sets, the allocation of one          *)
(* variable, and the rewrite of the code.                                 *)
(***************************************************************************)
EXTENDS TargetIR, SequencesExt

CONSTANTS
    Target,      \* "vc4" or "v3d"
    NumRegs,     \* registers per register file
    Alphabet,    \* the instructions the lowering may emit
    MaxLen,      \* bound on the length of the emitted code (END excluded)
    Fuel         \* bound on the steps the emulator runs

ASSUME Target \in {"vc4", "v3d"}
ASSUME Vars = 0..(Cardinality(Vars) - 1)

VARIABLES
    phase,     \* "emit", "cfg", "liveness", "prefs", "livewith", "alloc",
               \* "rewrite", "done", "failed"
    source,    \* the code as lowered
    instrs,    \* the code regAlloc works on and rewrites in place
    cfg,       \* successor sets
    live,      \* live_in set of every instruction
    prefA,     \* regalloc_determine_regfileAB() preference counters
    prefB,
    liveWith,  \* liveWith[x]: the variables x interferes with
    alloc,     \* alloc[v]: the register allocated to v
    prevFile,  \* prevChosenRegFile
    next       \* the variable the allocation loop is at

vars == <<phase, source, instrs, cfg, live, prefA, prefB, liveWith, alloc,
          prevFile, next>>

NoReg == Reg("NONE", 0)
Files == IF Target = "vc4" THEN {"REG_A", "REG_B"} ELSE {"REG_A"}
NumVars == Cardinality(Vars)

-----------------------------------------------------------------------------
(* regalloc_determine_regfileAB(): an instruction reading two variables    *)
(* pushes them towards opposite files, one reading a variable and a small *)
(* immediate pushes the variable towards A.                                *)
PrefStep(p, ins) ==
    IF TwoUses(ins) /\ ins.srcA.reg.tag = "REG_A" /\ ins.srcB.reg.tag = "REG_A"
    THEN LET x == ins.srcA.reg.regId
             y == ins.srcB.reg.regId
         IN IF p.a[x] > p.a[y] \/ p.b[y] > p.b[x]
            THEN [a |-> [p.a EXCEPT ![x] = @ + 1], b |-> [p.b EXCEPT ![y] = @ + 1]]
            ELSE [a |-> [p.a EXCEPT ![y] = @ + 1], b |-> [p.b EXCEPT ![x] = @ + 1]]
    ELSE IF ins.tag = "ALU" /\ ins.srcA.tag = "REG" /\ ins.srcA.reg.tag = "REG_A"
            /\ ins.srcB.tag = "IMM"
    THEN [p EXCEPT !.a[ins.srcA.reg.regId] = @ + 1]
    ELSE IF ins.tag = "ALU" /\ ins.srcB.tag = "REG" /\ ins.srcB.reg.tag = "REG_A"
            /\ ins.srcA.tag = "IMM"
    THEN [p EXCEPT !.a[ins.srcB.reg.regId] = @ + 1]
    ELSE p

DeterminePrefs(code) ==
    FoldLeft(PrefStep, [a |-> [v \in Vars |-> 0], b |-> [v \in Vars |-> 0]], code)

\* LiveSets::init(): x and y interfere if y is live into an instruction
\* that defines x, or the other way round.
Interference(code, lv) ==
    [x \in Vars |->
        {y \in Vars \ {x} :
            \E i \in DOMAIN code :
                \/ x \in Def(code[i]) /\ y \in lv[i]
                \/ y \in Def(code[i]) /\ x \in lv[i]}]

\* LiveSets::possible_registers(): the registers of a file not held by an
\* already allocated variable that interferes with v.
PossibleRegisters(v, file) ==
    (0..(NumRegs - 1)) \ {alloc[w].regId : w \in {u \in liveWith[v] : alloc[u].tag = file}}

\* LiveSets::choose_register(): the lowest one, -1 if there is none.
ChooseRegister(S) == IF S = {} THEN -1 ELSE CHOOSE r \in S : \A q \in S : r <= q

-----------------------------------------------------------------------------
(* Step 4 of regAlloc(): every variable r defined, then used, by an        *)
(* instruction is renamed to its register under a temporary tag, and the  *)
(* temporary tags are then turned into REG_A / REG_B, so that a renamed   *)
(* operand can never match a later rename.                                 *)
RenameDest(ins, t, r, nt, nid) ==
    IF HasDest(ins) /\ ins.dest = Reg(t, r) THEN [ins EXCEPT !.dest = Reg(nt, nid)] ELSE ins

RenameUses(ins, t, r, nt, nid) ==
    LET renameOp(o) == IF o.tag = "REG" /\ o.reg = Reg(t, r) THEN RegOp(Reg(nt, nid)) ELSE o
    IN CASE ins.tag = "ALU" -> [ins EXCEPT !.srcA = renameOp(@), !.srcB = renameOp(@)]
         [] ins.tag = "PRI" /\ ins.reg = Reg(t, r) -> [ins EXCEPT !.reg = Reg(nt, nid)]
         [] OTHER -> ins

\* substRegTag(): every register tagged t is retagged nt.
SubstRegTag(ins, t, nt) ==
    LET subst(x) == IF x.tag = t THEN Reg(nt, x.regId) ELSE x
        substOp(o) == IF o.tag = "REG" THEN RegOp(subst(o.reg)) ELSE o
    IN CASE ins.tag = "ALU" -> [ins EXCEPT !.dest = subst(@), !.srcA = substOp(@),
                                           !.srcB = substOp(@)]
         [] ins.tag = "LI"  -> [ins EXCEPT !.dest = subst(@)]
         [] ins.tag = "PRI" -> [ins EXCEPT !.reg = subst(@)]
         [] OTHER -> ins

TmpOf(file) == IF file = "REG_A" THEN "TMP_A" ELSE "TMP_B"

\* Faulty variant: the operands an instruction reads are not renamed.
ApplyAllocInstrDefsOnly(ins) ==
    LET ascending(S) == SetToSortSeq(S, LAMBDA p, q : p < q)
        renDef(i, r) == RenameDest(i, "REG_A", r, TmpOf(alloc[r].tag), alloc[r].regId)
    IN SubstRegTag(SubstRegTag(FoldLeft(renDef, ins, ascending(Def(ins))),
                               "TMP_A", "REG_A"), "TMP_B", "REG_B")

ApplyAllocInstr(ins) ==
    LET ascending(S) == SetToSortSeq(S, LAMBDA p, q : p < q)
        renDef(i, r) == RenameDest(i, "REG_A", r, TmpOf(alloc[r].tag), alloc[r].regId)
        renUse(i, r) == RenameUses(i, "REG_A", r, TmpOf(alloc[r].tag), alloc[r].regId)
        renamed == FoldLeft(renUse, FoldLeft(renDef, ins, ascending(Def(ins))),
                            ascending(Use(ins)))
    IN SubstRegTag(SubstRegTag(renamed, "TMP_A", "REG_A"), "TMP_B", "REG_B")

-----------------------------------------------------------------------------
Init ==
    /\ phase = "emit"
    /\ source = <<>>
    /\ instrs = <<>>
    /\ cfg = <<>>
    /\ live = <<>>
    /\ prefA = [v \in Vars |-> 0]
    /\ prefB = [v \in Vars |-> 0]
    /\ liveWith = [v \in Vars |-> {}]
    /\ alloc = [v \in Vars |-> NoReg]
    /\ prevFile = "REG_B"
    /\ next = 0

\* Labels the code branches to but does not define yet.
Pending(code) ==
    {l \in Labels : /\ \E i \in DOMAIN code : code[i].tag = "BRL" /\ code[i].label = l
                    /\ ~\E i \in DOMAIN code : code[i] = LAB(l)}

\* The lowering emits one instruction.  Each label gets one LAB, and a
\* branch is emitted only while there is room left for its LAB.
Emit(ins) ==
    /\ phase = "emit"
    /\ Len(instrs) < MaxLen
    /\ ins.tag = "LAB" => ~\E i \in DOMAIN instrs : instrs[i] = ins
    /\ Cardinality(Pending(Append(instrs, ins))) <= MaxLen - Len(instrs) - 1
    /\ instrs' = Append(instrs, ins)
    /\ source' = instrs'
    /\ UNCHANGED <<phase, cfg, live, prefA, prefB, liveWith, alloc, prevFile, next>>

\* kernelFinish(): the code ends with END once every branch has its label.
Finish ==
    /\ phase = "emit"
    /\ Pending(instrs) = {}
    /\ instrs' = Append(instrs, EndInstr)
    /\ source' = instrs'
    /\ phase' = "cfg"
    /\ UNCHANGED <<cfg, live, prefA, prefB, liveWith, alloc, prevFile, next>>

\* buildCFG(), run by the compiler just before regAlloc().
MakeCFG ==
    /\ phase = "cfg"
    /\ cfg' = BuildCFG(instrs)
    /\ live' = [i \in DOMAIN instrs |-> {}]
    /\ phase' = "liveness"
    /\ UNCHANGED <<source, instrs, prefA, prefB, liveWith, alloc, prevFile, next>>

\* Faulty variant: "changed" is judged against the initial empty sets, so
\* the iteration never stops once a set is non-empty.
LivenessStepNoFixpoint ==
    /\ phase = "liveness"
    /\ LET nl == LivenessPass(instrs, cfg, live) IN
         /\ live' = nl
         /\ phase' = IF nl # [i \in DOMAIN instrs |-> {}] THEN "liveness"
                     ELSE IF Target = "vc4" THEN "prefs" ELSE "livewith"
    /\ UNCHANGED <<source, instrs, cfg, prefA, prefB, liveWith, alloc, prevFile, next>>

\* Liveness::compute(): reverse passes until a pass changes no set.
LivenessStep ==
    /\ phase = "liveness"
    /\ LET nl == LivenessPass(instrs, cfg, live) IN
         /\ live' = nl
         /\ phase' = IF nl # live THEN "liveness"
                     ELSE IF Target = "vc4" THEN "prefs" ELSE "livewith"
    /\ UNCHANGED <<source, instrs, cfg, prefA, prefB, liveWith, alloc, prevFile, next>>

\* vc4 step 1: regalloc_determine_regfileAB().
Prefs ==
    /\ phase = "prefs"
    /\ LET p == DeterminePrefs(instrs) IN prefA' = p.a /\ prefB' = p.b
    /\ phase' = "livewith"
    /\ UNCHANGED <<source, instrs, cfg, live, liveWith, alloc, prevFile, next>>

\* Faulty variant: x only records the variables live where x is defined,
\* not the variables defined where x is live.
LiveWithOneWay ==
    /\ phase = "livewith"
    /\ liveWith' = [x \in Vars |->
                      {y \in Vars \ {x} :
                          \E i \in DOMAIN instrs : x \in Def(instrs[i]) /\ y \in live[i]}]
    /\ alloc' = [v \in Vars |-> NoReg]
    /\ prevFile' = "REG_B"
    /\ next' = 0
    /\ phase' = "alloc"
    /\ UNCHANGED <<source, instrs, cfg, live, prefA, prefB>>

\* Step 2: liveWith.init(); then alloc[] is cleared to NONE and the loop
\* starts at variable 0 with prevChosenRegFile = REG_B.
LiveWith ==
    /\ phase = "livewith"
    /\ liveWith' = Interference(instrs, live)
    /\ alloc' = [v \in Vars |-> NoReg]
    /\ prevFile' = "REG_B"
    /\ next' = 0
    /\ phase' = "alloc"
    /\ UNCHANGED <<source, instrs, cfg, live, prefA, prefB>>

\* vc4 step 3, one variable: the lowest free register of each file; the
\* file is the only one with a free register, else the preferred one, else
\* the one not chosen last time.
ChosenFile(cA, cB) ==
    CASE cA < 0 -> "REG_B"
      [] cB < 0 -> "REG_A"
      [] prefA[next] > prefB[next] -> "REG_A"
      [] prefA[next] < prefB[next] -> "REG_B"
      [] OTHER -> IF prevFile = "REG_A" THEN "REG_B" ELSE "REG_A"

\* Faulty variant: no error() when both files are exhausted.
AllocVc4NoCapacityCheck ==
    /\ Target = "vc4"
    /\ phase = "alloc"
    /\ LET cA == ChooseRegister(PossibleRegisters(next, "REG_A"))
           cB == ChooseRegister(PossibleRegisters(next, "REG_B"))
           f  == ChosenFile(cA, cB)
       IN /\ alloc' = [alloc EXCEPT ![next] = Reg(f, IF f = "REG_A" THEN cA ELSE cB)]
          /\ prevFile' = f
    /\ next' = next + 1
    /\ phase' = IF next + 1 = NumVars THEN "rewrite" ELSE "alloc"
    /\ UNCHANGED <<source, instrs, cfg, live, prefA, prefB, liveWith>>

AllocVc4 ==
    /\ Target = "vc4"
    /\ phase = "alloc"
    /\ LET cA == ChooseRegister(PossibleRegisters(next, "REG_A"))
           cB == ChooseRegister(PossibleRegisters(next, "REG_B"))
           f  == ChosenFile(cA, cB)
       IN /\ cA >= 0 \/ cB >= 0
          /\ alloc' = [alloc EXCEPT ![next] = Reg(f, IF f = "REG_A" THEN cA ELSE cB)]
          /\ prevFile' = f
    /\ next' = next + 1
    /\ phase' = IF next + 1 = NumVars THEN "rewrite" ELSE "alloc"
    /\ UNCHANGED <<source, instrs, cfg, live, prefA, prefB, liveWith>>

\* Faulty variant: the regId < 0 check is missing.
AllocV3dNoCapacityCheck ==
    /\ Target = "v3d"
    /\ phase = "alloc"
    /\ alloc' = [alloc EXCEPT ![next] = Reg("REG_A", ChooseRegister(PossibleRegisters(next, "REG_A")))]
    /\ next' = next + 1
    /\ phase' = IF next + 1 = NumVars THEN "rewrite" ELSE "alloc"
    /\ UNCHANGED <<source, instrs, cfg, live, prefA, prefB, liveWith, prevFile>>

\* v3d, one variable: the lowest free register of the single file.
AllocV3d ==
    /\ Target = "v3d"
    /\ phase = "alloc"
    /\ LET r == ChooseRegister(PossibleRegisters(next, "REG_A")) IN
         /\ r >= 0
         /\ alloc' = [alloc EXCEPT ![next] = Reg("REG_A", r)]
    /\ next' = next + 1
    /\ phase' = IF next + 1 = NumVars THEN "rewrite" ELSE "alloc"
    /\ UNCHANGED <<source, instrs, cfg, live, prefA, prefB, liveWith, prevFile>>

\* The instruction whose mnemonic the v3d failure message names:
\* (*instrs)[i] with i the variable being allocated (1-based here).
FailMessageInstr == next + 1

\* No file has a free register: error(), a fatal compile error.
AllocFail ==
    /\ phase = "alloc"
    /\ \A f \in Files : ChooseRegister(PossibleRegisters(next, f)) < 0
    /\ phase' = "failed"
    /\ UNCHANGED <<source, instrs, cfg, live, prefA, prefB, liveWith, alloc, prevFile, next>>

\* Step 4: the allocation is applied to every instruction.
Rewrite ==
    /\ phase = "rewrite"
    /\ instrs' = [i \in DOMAIN instrs |-> ApplyAllocInstr(instrs[i])]
    /\ phase' = "done"
    /\ UNCHANGED <<source, cfg, live, prefA, prefB, liveWith, alloc, prevFile, next>>

Next ==
    \/ \E ins \in Alphabet : Emit(ins)
    \/ Finish
    \/ MakeCFG
    \/ LivenessStep
    \/ Prefs
    \/ LiveWith
    \/ AllocVc4
    \/ AllocV3d
    \/ AllocFail
    \/ Rewrite

Spec == Init /\ [][Next]_vars /\ WF_vars(Next)

-----------------------------------------------------------------------------
TypeOK ==
    /\ phase \in {"emit", "cfg", "liveness", "prefs", "livewith", "alloc",
                  "rewrite", "done", "failed"}
    /\ Len(source) <= MaxLen + 1
    /\ live \in [DOMAIN live -> SUBSET Vars]
    /\ prefA \in [Vars -> Nat] /\ prefB \in [Vars -> Nat]
    /\ liveWith \in [Vars -> SUBSET Vars]
    /\ \A v \in Vars : alloc[v] = NoReg
                       \/ (alloc[v].tag \in Files /\ alloc[v].regId \in 0..(NumRegs - 1))
    /\ prevFile \in {"REG_A", "REG_B"}
    /\ next \in 0..NumVars

\* The sets Liveness::compute() stops at, over the CFG buildCFG() built,
\* are the live-in sets of the reference definition (reachability of a use
\* along the emulator's control flow without an intervening definition),
\* also around loops and skipped blocks.
LivenessIsLeastFixpoint ==
    phase = "livewith" => live = LiveRef(source)

\* After allocation no instruction writes the register of a variable
\* other than its destination that is still live after it.
NoLiveValueClobbered ==
    phase = "done" =>
        LET lr == LiveRef(source) IN
        \A i \in DOMAIN source : \A x \in Def(source[i]) :
            \A s \in cfg[i] : \A y \in lr[s] \ {x} : alloc[x] # alloc[y]

\* The allocated code prints what the code as lowered prints: the law the
\* interpreter/emulator differential test checks, for the allocation pass.
SemanticsPreserved ==
    phase = "done" => Output(instrs, Fuel) = Output(source, Fuel)

\* The v3d allocation failure names an instruction of the kernel that
\* mentions the variable that could not be allocated (spec 4.4: the
\* fatal error names the failing instruction's mnemonic).
ErrorNamesFailingInstruction ==
    phase = "failed" /\ Target = "v3d" =>
        /\ FailMessageInstr \in DOMAIN instrs
        /\ next \in Def(instrs[FailMessageInstr]) \cup Use(instrs[FailMessageInstr])

=============================================================================
