----------------------------- MODULE MC_RegAlloc -----------------------------
(***************************************************************************)
(* Model-checking instances of RegAlloc: three variables, small register  *)
(* files so that variables must share registers and allocation can fail,  *)
(* and instruction alphabets that cover the shapes the lowering emits.    *)
(***************************************************************************)
EXTENDS RegAlloc

MCVars == 0..2
MCLabels == {0}

\* LI of variable d loads d + 1, so that the variables hold distinct values.
LoadImm == {LI("always", VarReg(d), d + 1) : d \in MCVars}

\* Adds of two other variables (the case the file preference is about)
\* and increments by the small immediate 1 (pushes the variable to A).
Adds ==
    {ALU("A_ADD", "always", TRUE, VarReg(d), RegOp(VarReg((d + 1) % 3)),
         RegOp(VarReg((d + 2) % 3))) : d \in MCVars}
      \cup {ALU("A_ADD", "always", TRUE, VarReg(d), RegOp(VarReg(d)), ImmOp(1)) : d \in MCVars}

\* A move under the Z flag, as Where emits for its body.
CondMoves ==
    {ALU("A_BOR", "zs", FALSE, VarReg(d), RegOp(VarReg((d + 1) % 3)),
         RegOp(VarReg((d + 1) % 3))) : d \in MCVars}

Prints == {PRI(VarReg(a)) : a \in MCVars}

StraightAlphabet == LoadImm \cup Adds \cup CondMoves \cup Prints

\* For code with a loop or a skipped block: two variables, one label, an
\* increment that sets Z when it wraps, a move under Z, and both branches.
MCLoopVars == 0..1
LoopAlphabet ==
    {LI("always", VarReg(0), 1), LI("always", VarReg(1), 2),
     ALU("A_ADD", "always", TRUE, VarReg(0), RegOp(VarReg(0)), ImmOp(1)),
     ALU("A_BOR", "zs", FALSE, VarReg(1), RegOp(VarReg(0)), RegOp(VarReg(0))),
     PRI(VarReg(0)), PRI(VarReg(1)),
     LAB(0), BRL("always", 0), BRL("zs", 0)}
=============================================================================
