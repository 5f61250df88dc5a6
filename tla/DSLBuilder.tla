----------------------------- MODULE DSLBuilder -----------------------------
(***************************************************************************)
(* The DSL builder (spec 4.1): a kernel function runs on the host, and    *)
(* each Float it declares, copies or assigns adds a statement to the      *)
(* statement stack instead of computing a value.                           *)
(*                                                                         *)
(* The host program is one C++ call per step, over a few Float objects:   *)
(* the constructors and assignments of src/Lib/Source/Float.cpp, and      *)
(* store and receive of src/Lib/Source/gather.cpp.  Statements are the    *)
(* records Stmt::create and the mk* functions of                           *)
(* src/Lib/Source/Syntax.cpp build.  Beside the built statements the      *)
(* model keeps what the same C++ code would mean if Float were float: the *)
(* value of every object, the uniforms read and the values stored.  A     *)
(* one-lane interpreter of the statements (the source interpreter,        *)
(* spec 4.6) relates the two.  Floats are abstracted to 0..ValueBound-1.  *)
(***************************************************************************)
EXTENDS Integers, SequencesExt

CONSTANTS
    Objects,     \* the Float objects of the host program
    Consts,      \* float literals
    Ops,         \* binary Float operators, as Op names
    CmpOps,      \* comparison operators
    ValueBound,  \* values are taken modulo ValueBound
    Programs     \* the shapes of the kernel functions: sequences of call kinds

VARIABLES
    prog,          \* the shape of the kernel function being run
    objVar,        \* objVar[o]: the variable of o's m_expr, or NoVar before construction
    nextVar,       \* the fresh-variable counter
    stack,         \* the statement stack: the body of every open block
    control,       \* the open If and Where blocks, innermost last
    status,        \* "building", or "fatal" once fatal() or an assert stopped the program
    calls,         \* DSL calls made so far
    val,           \* reference: the value o would hold as a C++ float
    uniformsRead,  \* reference: the uniforms the kernel has read
    stored         \* reference: the values the kernel has stored

vars == <<prog, objVar, nextVar, stack, control, status, calls, val, uniformsRead, stored>>

\* Reserved variable ids (Int.h) and the kernel's one Ptr<Float> parameter,
\* the first variable freshVar() hands out after them.
RSV_QPU_ID   == 0
RSV_NUM_QPUS == 1
PtrVar       == 2
FirstVar     == 3

NoVar == -1
Undef == -1
Null  == [tag |-> "NULL"]

-----------------------------------------------------------------------------
(* Source expressions (Expr.h, outside src/): variable, float literal and *)
(* binary apply.  A Var is a STANDARD variable with an id, or the special *)
(* variable UNIFORM, whose every read yields the next uniform.            *)
VarExpr(v)          == [tag |-> "VAR", var |-> "STANDARD", id |-> v]
FloatLit(k)         == [tag |-> "FLOAT", val |-> k]
ApplyExpr(a, op, b) == [tag |-> "APPLY", lhs |-> a, op |-> op, rhs |-> b]
UniformExpr         == [tag |-> "VAR", var |-> "UNIFORM", id |-> 0]

\* freshVar() (outside src/): the next variable id.
FreshVar == nextVar

-----------------------------------------------------------------------------
(* Statements of Syntax.cpp.                                              *)
Fatal == [tag |-> "FATAL"]

\* Stmt::create(SKIP) and mkSkip().
MkSkip == [tag |-> "SKIP"]

\* Stmt::create(tag, e0, e1): the tags it handles, with the assertq on
\* which operands are null; any other tag is fatal().
CreateExprStmt(tag, e0, e1) ==
    CASE tag \in {"ASSIGN", "STORE_REQUEST"} ->
           IF e0 # Null /\ e1 # Null THEN [tag |-> tag, e0 |-> e0, e1 |-> e1] ELSE Fatal
      [] tag \in {"PRINT", "DMA_START_READ", "DMA_START_WRITE"} ->
           IF e0 # Null /\ e1 = Null THEN [tag |-> tag, e0 |-> e0] ELSE Fatal
      [] OTHER -> Fatal

\* mkAssign(lhs, rhs).
MkAssign(lhs, rhs) == CreateExprStmt("ASSIGN", lhs, rhs)

\* Stmt::create(tag, s0, s1): the asserts on which operands are null; the
\* condition is left null for the mk* function to set.
CreateStmtStmt(tag, s0, s1) ==
    CASE tag = "SEQ" /\ s0 # Null /\ s1 # Null -> [tag |-> tag, s0 |-> s0, s1 |-> s1]
      [] tag \in {"WHERE", "IF"} /\ s0 # Null /\ s1 # Null ->
           [tag |-> tag, cond |-> Null, thenStmt |-> s0, elseStmt |-> s1]
      [] tag = "WHILE" /\ s0 # Null /\ s1 = Null -> [tag |-> tag, cond |-> Null, body |-> s0]
      [] tag = "FOR" /\ s0 # Null /\ s1 # Null ->
           [tag |-> tag, cond |-> Null, inc |-> s0, body |-> s1]
      [] OTHER -> Fatal

\* mkSeq().
MkSeq(s0, s1) == CreateStmtStmt("SEQ", s0, s1)

\* Faulty variant: mkWhere() passes its branches the wrong way round.
MkWhereSwapped(c, t, e) == [CreateStmtStmt("WHERE", e, t) EXCEPT !.cond = c]

\* mkWhere(), mkIf(): the condition is set after create().
MkWhere(c, t, e) == [CreateStmtStmt("WHERE", t, e) EXCEPT !.cond = c]

MkIf(c, t, e) == [CreateStmtStmt("IF", t, e) EXCEPT !.cond = c]

\* Boolean expressions: the BExpr(lhs, op, rhs) constructor, mkNot(),
\* mkAnd(), mkOr(); conditions: mkAll(), mkAny().
MkCmp(lhs, op, rhs) == [tag |-> "CMP", lhs |-> lhs, op |-> op, rhs |-> rhs]
MkNot(b)            == [tag |-> "NOT", neg |-> b]
MkAnd(l, r)         == [tag |-> "AND", lhs |-> l, rhs |-> r]
MkOr(l, r)          == [tag |-> "OR", lhs |-> l, rhs |-> r]
MkAll(b)            == [tag |-> "ALL", bexpr |-> b]
MkAny(b)            == [tag |-> "ANY", bexpr |-> b]

\* stmtStack() << s (outside src/): the top of the stack becomes
\* mkSeq(top, s).  A fatal() or failed assert ends the program instead.
AppendTop(st, s) == [st EXCEPT ![Len(st)] = MkSeq(@, s)]

Append2Stack(s) ==
    IF s = Fatal THEN status' = "fatal" /\ UNCHANGED stack
    ELSE stack' = AppendTop(stack, s) /\ UNCHANGED status

-----------------------------------------------------------------------------
(* The host program's operands: a term is what one C++ argument denotes, *)
(* a Float object, a literal, a binary operator over two objects, or      *)
(* getUniformFloat().                                                      *)
ObjTerm(o)          == [kind |-> "obj", o |-> o]
LitTerm(k)          == [kind |-> "lit", k |-> k]
OpTerm(a, op, b)    == [kind |-> "op", a |-> a, op |-> op, b |-> b]
UniformTerm         == [kind |-> "uniform"]

Constructed(o) == objVar[o] # NoVar
Defined(o)     == Constructed(o) /\ val[o] # Undef
DefinedObjs    == {o \in Objects : Defined(o)}

\* The terms a call can pass: reading an uninitialised float is undefined
\* behaviour in the C++ the DSL stands for, so only defined objects.
Terms ==
    {ObjTerm(o) : o \in DefinedObjs} \cup {LitTerm(k) : k \in Consts}
      \cup {OpTerm(x, op, y) : x \in DefinedObjs, op \in Ops, y \in DefinedObjs}
      \cup {UniformTerm}

\* Conditions: a comparison of an object with an object or a literal, its
\* negation, and the conjunction and disjunction of a comparison with its
\* negation.
CmpTerm(x, op, t) == [kind |-> "cmp", a |-> x, op |-> op, t |-> t]
Cmps ==
    {CmpTerm(x, op, t) : x \in DefinedObjs, op \in CmpOps,
                         t \in {ObjTerm(y) : y \in DefinedObjs} \cup {LitTerm(k) : k \in Consts}}
Conds ==
    Cmps \cup {[kind |-> "not", c |-> c] : c \in Cmps}
         \cup {[kind |-> j, l |-> c, r |-> [kind |-> "not", c |-> c]] : j \in {"and", "or"}, c \in Cmps}

\* The FloatExpr a term builds: operator FloatExpr(), FloatExpr(float),
\* mkFloatApply() with operator+ - * min max, and getUniformFloat().
ToExpr(t) ==
    CASE t.kind = "obj"     -> VarExpr(objVar[t.o])
      [] t.kind = "lit"     -> FloatLit(t.k)
      [] t.kind = "op"      -> ApplyExpr(VarExpr(objVar[t.a]), t.op, VarExpr(objVar[t.b]))
      [] t.kind = "uniform" -> UniformExpr

\* The BExpr a condition builds: comparison operators, !, && and ||.
RECURSIVE ToBExpr(_)
ToBExpr(c) ==
    CASE c.kind = "cmp" -> MkCmp(VarExpr(objVar[c.a]), c.op, ToExpr(c.t))
      [] c.kind = "not" -> MkNot(ToBExpr(c.c))
      [] c.kind = "and" -> MkAnd(ToBExpr(c.l), ToBExpr(c.r))
      [] c.kind = "or"  -> MkOr(ToBExpr(c.l), ToBExpr(c.r))

\* Reference: float operations on the abstract values.
OpVal(op, x, y) ==
    CASE op = "ADD" -> (x + y) % ValueBound
      [] op = "SUB" -> (x - y) % ValueBound
      [] op = "MUL" -> (x * y) % ValueBound
      [] op = "MIN" -> IF x < y THEN x ELSE y
      [] op = "MAX" -> IF x < y THEN y ELSE x
CmpVal(op, x, y) ==
    CASE op = "EQ" -> x = y  [] op = "NEQ" -> x # y
      [] op = "LT" -> x < y  [] op = "LE"  -> x <= y
      [] op = "GT" -> x > y  [] op = "GE"  -> x >= y

\* The i-th uniform handed to the kernel.
UniformVal(i) == (i + 1) % ValueBound

\* Reference: the value a term or a condition has in C++, and the
\* uniforms a term reads.
RefVal(t) ==
    CASE t.kind = "obj"     -> val[t.o]
      [] t.kind = "lit"     -> t.k
      [] t.kind = "op"      -> OpVal(t.op, val[t.a], val[t.b])
      [] t.kind = "uniform" -> UniformVal(uniformsRead)
Reads(t) == IF t.kind = "uniform" THEN 1 ELSE 0

RECURSIVE RefCond(_)
RefCond(c) ==
    CASE c.kind = "cmp" -> CmpVal(c.op, val[c.a], RefVal(c.t))
      [] c.kind = "not" -> ~RefCond(c.c)
      [] c.kind = "and" -> RefCond(c.l) /\ RefCond(c.r)
      [] c.kind = "or"  -> RefCond(c.l) \/ RefCond(c.r)

\* Reference: a call takes effect when every open block's branch is the
\* one the program would run.
Active == \A i \in DOMAIN control : control[i].taken # control[i].inElse

SetVal(o, v) == val' = [val EXCEPT ![o] = IF Active THEN v ELSE @]
ReadUniforms(t) == uniformsRead' = IF Active THEN uniformsRead + Reads(t) ELSE uniformsRead

-----------------------------------------------------------------------------
Init ==
    /\ prog \in Programs
    /\ objVar = [o \in Objects |-> NoVar]
    /\ nextVar = FirstVar
    /\ stack = <<MkSkip>>
    /\ control = <<>>
    /\ status = "building"
    /\ calls = 0
    /\ val = [o \in Objects |-> Undef]
    /\ uniformsRead = 0
    /\ stored = <<>>

\* The next call of the kernel function is of kind k ("any" admits every
\* call that is not a block).  Objects are declared at the outer level, as
\* a Float declared inside a block goes out of scope at its End.
Call(k) ==
    /\ status = "building"
    /\ calls < Len(prog)
    /\ prog[calls + 1] \in {k, "any"}
    /\ calls' = calls + 1
    /\ UNCHANGED prog

BlockCall(k) ==
    /\ status = "building"
    /\ calls < Len(prog)
    /\ prog[calls + 1] = k
    /\ calls' = calls + 1
    /\ UNCHANGED <<prog, objVar, nextVar, val, uniformsRead, stored>>

\* Faulty variant: freshVar() does not advance its counter.
NewVarNoIncrement(o) ==
    /\ ~Constructed(o)
    /\ objVar' = [objVar EXCEPT ![o] = FreshVar]
    /\ nextVar' = nextVar

\* m_expr = mkVar(freshVar()) for an object not constructed yet.
NewVar(o) ==
    /\ ~Constructed(o)
    /\ objVar' = [objVar EXCEPT ![o] = FreshVar]
    /\ nextVar' = nextVar + 1

\* Float::Float(): a fresh variable and no statement.
FloatDefault(o) ==
    /\ Call("new") /\ control = <<>> /\ NewVar(o)
    /\ UNCHANGED <<stack, control, status, val, uniformsRead, stored>>

\* Float::Float(float x) and Float::Float(FloatExpr e): a fresh variable,
\* then assign(m_expr, e).  A Float argument takes the copy constructor.
FloatFromTerm(o, t) ==
    /\ Call("new") /\ control = <<>> /\ NewVar(o) /\ t.kind # "obj"
    /\ Append2Stack(MkAssign(VarExpr(FreshVar), ToExpr(t)))
    /\ SetVal(o, RefVal(t)) /\ ReadUniforms(t)
    /\ UNCHANGED <<control, stored>>

\* Faulty variant: the copy shares the source's variable.
FloatCopyShared(o, p) ==
    /\ Call("new") /\ control = <<>> /\ ~Constructed(o) /\ Defined(p)
    /\ objVar' = [objVar EXCEPT ![o] = objVar[p]]
    /\ SetVal(o, val[p])
    /\ UNCHANGED <<nextVar, stack, control, status, uniformsRead, stored>>

\* Float::Float(Float &x), Float::Float(Float const &x): a fresh variable,
\* then assign(m_expr, x.expr()).
FloatCopy(o, p) ==
    /\ Call("new") /\ control = <<>> /\ NewVar(o) /\ Defined(p)
    /\ Append2Stack(MkAssign(VarExpr(FreshVar), VarExpr(objVar[p])))
    /\ SetVal(o, val[p])
    /\ UNCHANGED <<control, uniformsRead, stored>>

\* Float::operator=(Float &rhs) and operator=(FloatExpr rhs):
\* assign(m_expr, rhs.expr()).
AssignTerm(o, t) ==
    /\ Call("assign") /\ Constructed(o)
    /\ Append2Stack(MkAssign(VarExpr(objVar[o]), ToExpr(t)))
    /\ SetVal(o, RefVal(t)) /\ ReadUniforms(t)
    /\ UNCHANGED <<objVar, nextVar, control, stored>>

\* Float::operator+=(FloatExpr rhs): *this = *this + rhs, that is
\* assign(m_expr, mkApply(m_expr, ADD, rhs)).
AddAssign(o, t) ==
    /\ Call("add") /\ Defined(o)
    /\ Append2Stack(MkAssign(VarExpr(objVar[o]),
                             ApplyExpr(VarExpr(objVar[o]), "ADD", ToExpr(t))))
    /\ SetVal(o, OpVal("ADD", val[o], RefVal(t))) /\ ReadUniforms(t)
    /\ UNCHANGED <<objVar, nextVar, control, stored>>

\* store(FloatExpr data, Ptr<Float> &addr): storeExpr() pushes
\* Stmt::create(STORE_REQUEST, data, addr).
Store(t) ==
    /\ Call("store")
    /\ Append2Stack(CreateExprStmt("STORE_REQUEST", ToExpr(t), VarExpr(PtrVar)))
    /\ stored' = IF Active THEN Append(stored, RefVal(t)) ELSE stored
    /\ ReadUniforms(t)
    /\ UNCHANGED <<objVar, nextVar, control, val>>

\* receive(Float &dest): receiveExpr() pushes
\* Stmt::create(LOAD_RECEIVE, dest, nullptr).  The received value is not
\* tracked by the reference.
Receive(o) ==
    /\ Call("receive") /\ Constructed(o)
    /\ Append2Stack(CreateExprStmt("LOAD_RECEIVE", VarExpr(objVar[o]), Null))
    /\ SetVal(o, Undef)
    /\ UNCHANGED <<objVar, nextVar, control, uniformsRead, stored>>

\* If(c), Where(b) (outside src/): the block and its condition go on the
\* control stack and a placeholder SKIP on the statement stack.
OpenBlock(kind, cond, c) ==
    /\ control' = Append(control, [kind |-> kind, cond |-> cond, inElse |-> FALSE,
                                   thenStmt |-> Null, taken |-> RefCond(c)])
    /\ stack' = Append(stack, MkSkip)
    /\ UNCHANGED status

If(q, c) ==
    /\ BlockCall("if")
    /\ OpenBlock("IF", IF q = "ANY" THEN MkAny(ToBExpr(c)) ELSE MkAll(ToBExpr(c)), c)

Where(c) ==
    /\ BlockCall("where")
    /\ OpenBlock("WHERE", ToBExpr(c), c)

\* Else (outside src/): the body so far becomes the then-branch and a new
\* SKIP collects the else-branch.
Else ==
    /\ BlockCall("else")
    /\ control # <<>> /\ ~Last(control).inElse
    /\ control' = [control EXCEPT ![Len(control)].inElse = TRUE,
                                  ![Len(control)].thenStmt = Last(stack)]
    /\ stack' = Append(Front(stack), MkSkip)
    /\ UNCHANGED status

\* End (outside src/): the block's statement is built from its condition
\* and its branches (SKIP for a missing else) and appended to the
\* enclosing body.
End ==
    /\ BlockCall("end")
    /\ control # <<>>
    /\ LET f == Last(control)
           thenS == IF f.inElse THEN f.thenStmt ELSE Last(stack)
           elseS == IF f.inElse THEN Last(stack) ELSE MkSkip
       IN /\ stack' = AppendTop(Front(stack),
                                IF f.kind = "IF" THEN MkIf(f.cond, thenS, elseS)
                                ELSE MkWhere(f.cond, thenS, elseS))
          /\ control' = Front(control)
    /\ UNCHANGED status

Next ==
    \/ \E o \in Objects :
         \/ FloatDefault(o)
         \/ \E t \in Terms : FloatFromTerm(o, t) \/ AssignTerm(o, t) \/ AddAssign(o, t)
         \/ \E p \in Objects : FloatCopy(o, p)
         \/ Receive(o)
    \/ \E t \in Terms : Store(t)
    \/ \E c \in Conds : Where(c) \/ \E q \in {"ANY", "ALL"} : If(q, c)
    \/ Else
    \/ End

Spec == Init /\ [][Next]_vars

-----------------------------------------------------------------------------
(* The source interpreter on one lane: variables start at 0, the i-th    *)
(* read of UNIFORM yields UniformVal(i), a STORE_REQUEST outputs its data.*)
Lookup(env, v) == IF v \in DOMAIN env THEN env[v] ELSE 0

RECURSIVE EvalExpr(_, _, _)
EvalExpr(e, env, u) ==
    CASE e = UniformExpr  -> UniformVal(u)
      [] e.tag = "VAR"    -> Lookup(env, e.id)
      [] e.tag = "FLOAT"  -> e.val
      [] e.tag = "APPLY"  -> OpVal(e.op, EvalExpr(e.lhs, env, u), EvalExpr(e.rhs, env, u))

RECURSIVE UniformReads(_)
UniformReads(e) ==
    CASE e = UniformExpr -> 1
      [] e.tag = "APPLY" -> UniformReads(e.lhs) + UniformReads(e.rhs)
      [] OTHER           -> 0

\* A condition on one lane: any() and all() of one lane are the lane's
\* own truth value.
RECURSIVE EvalB(_, _, _)
EvalB(b, env, u) ==
    CASE b.tag = "CMP" -> CmpVal(b.op, EvalExpr(b.lhs, env, u), EvalExpr(b.rhs, env, u))
      [] b.tag = "NOT" -> ~EvalB(b.neg, env, u)
      [] b.tag = "AND" -> EvalB(b.lhs, env, u) /\ EvalB(b.rhs, env, u)
      [] b.tag = "OR"  -> EvalB(b.lhs, env, u) \/ EvalB(b.rhs, env, u)
      [] b.tag \in {"ANY", "ALL"} -> EvalB(b.bexpr, env, u)

RECURSIVE Run(_, _)
Run(s, st) ==
    CASE s.tag = "SKIP" -> st
      [] s.tag = "SEQ"  -> Run(s.s1, Run(s.s0, st))
      [] s.tag = "ASSIGN" ->
           [st EXCEPT !.env = (s.e0.id :> EvalExpr(s.e1, st.env, st.u)) @@ st.env,
                      !.u = st.u + UniformReads(s.e1)]
      [] s.tag = "STORE_REQUEST" ->
           [st EXCEPT !.out = Append(st.out, EvalExpr(s.e0, st.env, st.u)),
                      !.u = st.u + UniformReads(s.e0)]
      [] s.tag \in {"IF", "WHERE"} ->
           IF EvalB(s.cond, st.env, st.u) THEN Run(s.thenStmt, st) ELSE Run(s.elseStmt, st)
      [] OTHER -> st

Interpret(s) == Run(s, [env |-> <<>>, u |-> 0, out |-> <<>>])

-----------------------------------------------------------------------------
(* Properties                                                              *)

\* Type invariant: every constructed object holds a variable freshVar()
\* has handed out.
TypeOK ==
    /\ objVar \in [Objects -> {NoVar} \cup (FirstVar..(nextVar - 1))]
    /\ status \in {"building", "fatal"}
    /\ calls \in 0..Len(prog)
    /\ Len(stack) = Len(control) + 1

\* The statements built so far mean what the host code says with Float
\* read as float: interpreted, they leave every defined object's variable
\* at the object's C++ value, read the same uniforms and store the same
\* values in the same order.  This needs fresh variables that are really
\* distinct, copies that do not alias, assignments to the right variable
\* and statements kept in call order, and blocks whose condition and
\* branches are the ones the host code opened.
BuiltKernelMeansSource ==
    status = "building" /\ control = <<>> =>
        LET r == Interpret(stack[1]) IN
        /\ \A o \in Objects : Defined(o) => Lookup(r.env, objVar[o]) = val[o]
        /\ r.u = uniformsRead
        /\ r.out = stored

\* Every call the DSL offers builds its statement: the program is never
\* stopped by fatal() or an assert while the kernel function runs.
EveryCallBuilds == status # "fatal"
=============================================================================
