--------------------------------- MODULE Tri ---------------------------------
(***************************************************************************)
(* The Tri example (src/Examples/Tri.cpp) on v3d: main() runs the integer *)
(* or the float kernel on numQPUs QPUs over an array of 16 * numQPUs      *)
(* elements, element i holding i, and each lane replaces its element n by *)
(* the triangular number n + (n-1) + ... + 1.                              *)
(*                                                                         *)
(* Which element a lane works on is decided by the code add_init()        *)
(* inserts (V3dInit): the kernel's pointer parameter p is a uniform, and  *)
(* the inserted code adds 4 * (lane + 16 * qpu id) to it.  The model      *)
(* compiles the kernel's prologue with AddInit and runs it, per QPU, on   *)
(* the 16-lane emulator; the rest of the kernel is modelled at the level  *)
(* of the source: the load *p, the masked loop, the store *p = sum.       *)
(*                                                                         *)
(* A float is a record [float |-> v]; the values are integers below 2^24, *)
(* which toFloat() represents exactly and toInt() gives back unchanged.   *)
(***************************************************************************)
EXTENDS Integers, FiniteSetsExt, V3dInit

CONSTANTS
    Kernels,     \* the values -k= selects: 0 "integer", 1 "float"
    QpuCounts,   \* the values -n= gives num_qpus
    Base         \* the device address of the shared array

VARIABLES
    host,        \* "start", "running" (the invocation blocks) or "done"
    settings,    \* the parsed settings: kernel, numQPUs, compileOnly
    arr,         \* the shared array, by element index
    pc           \* per QPU: "idle", "start" or "done"

vars == <<host, settings, arr, pc>>

QPUs == 0..Max(QpuCounts) - 1

Index(n) == 0..16 * n - 1

\* More turns than the loop can take: n is at most 16 * numQPUs - 1.
LoopBound == 16 * Max(QpuCounts)

SettingsSet == [kernel : Kernels, numQPUs : QpuCounts, compileOnly : BOOLEAN]

\* An element of the array the kernel takes: int or float.
Elem(kernel, v) == IF kernel = 0 THEN v ELSE [float |-> v]

ToInt(kernel, x) == IF kernel = 0 THEN x ELSE x.float

ToFloat(kernel, v) ==
    IF kernel = 0 THEN v
    ELSE IF Assert(v < 2^24, "toFloat rounds") THEN [float |-> v] ELSE [float |-> v]

\* The lowered kernel up to INIT_BEGIN: the uniform loads of the QPU id,
\* the QPU count and p, the only one that is a pointer.
Lowered == <<UniformLoad(0, FALSE), UniformLoad(1, FALSE), UniformLoad(2, TRUE), InitBegin>>

\* compile(tri_int) / compile(tri_float): on v3d, with the init code.
Compiled == AddInit(Lowered, "endif")

\* The uniforms of QPU q: the id placeholder, numQPUs, then p.
Uniforms(n) == <<0, n, Base>>

\* The thread index v3d gives QPU q: its four threads are consecutive.
ThreadIndex(q) == 4 * q

-----------------------------------------------------------------------------
(* The host                                                                *)

Init ==
    /\ host = "start"
    /\ settings \in SettingsSet
    /\ arr = <<>>
    /\ pc = [q \in QPUs |-> "idle"]

\* settings.process(k): with compile_only the kernel is not invoked;
\* otherwise QPUs 0..numQPUs-1 start and the call blocks until they end.
Process ==
    IF settings.compileOnly
    THEN host' = "done" /\ UNCHANGED pc
    ELSE /\ host' = "running"
         /\ pc' = [q \in QPUs |-> IF q < settings.numQPUs THEN "start" ELSE "idle"]

\* run_int() / run_float(): compile, setNumQPUs(num_qpus), allocate the
\* array of num_qpus * 16 elements with array[i] = i, load it, process.
RunKernel ==
    /\ host = "start"
    /\ arr' = [i \in Index(settings.numQPUs) |-> Elem(settings.kernel, i)]
    /\ Process
    /\ UNCHANGED settings

\* The invocation returns when every QPU has ended.
Finish ==
    /\ host = "running"
    /\ \A q \in 0..settings.numQPUs - 1 : pc[q] = "done"
    /\ host' = "done"
    /\ UNCHANGED <<settings, arr, pc>>

-----------------------------------------------------------------------------
(* tri_int / tri_float on QPU q                                            *)

\* The element an address names; the array holds 4-byte elements.
Slot(a) == (a - Base) \div 4

\* n = *p: the TMU load of the element a lane's address names.
ReadElem(a) == IF a >= Base /\ Slot(a) \in DOMAIN arr THEN arr[Slot(a)] ELSE Elem(settings.kernel, -1)

AnyPositive(x) == \E e \in Lanes : x.n[e] > 0

\* Faulty variant: the loop body runs on every lane, not only where n > 0.
LoopStepUnmasked(x) ==
    IF AnyPositive(x)
    THEN [n |-> [e \in Lanes |-> x.n[e] - 1],
          s |-> [e \in Lanes |-> x.s[e] + x.n[e]]]
    ELSE x

\* One turn of While (any(n > 0)) Where (n > 0) sum = sum + n; n = n - 1;
\* End End, and nothing once the loop has exited.
LoopStep(x) ==
    IF AnyPositive(x)
    THEN [n |-> [e \in Lanes |-> IF x.n[e] > 0 THEN x.n[e] - 1 ELSE x.n[e]],
          s |-> [e \in Lanes |-> IF x.n[e] > 0 THEN x.s[e] + x.n[e] ELSE x.s[e]]]
    ELSE x

\* k turns of LoopStep, split in halves so that TLC's recursion stays
\* shallow; the test y = y makes TLC compute the first half before it
\* starts the second.
RECURSIVE Turns(_, _)
Turns(x, k) ==
    CASE k = 0 -> x
      [] k = 1 -> LoopStep(x)
      [] OTHER -> LET y == Turns(x, k \div 2)
                  IN IF y = y THEN Turns(y, k - k \div 2) ELSE y

\* The loop, run for LoopBound turns; it must have exited by then.
TriLoop(n, s) ==
    LET x == Turns([n |-> n, s |-> s], LoopBound)
    IN IF Assert(~AnyPositive(x), "LoopBound too small") THEN x.s ELSE x.s

\* *p = v: each lane writes its element (TMUD, TMUA, tmuwt).
StoreElems(p, v) ==
    LET written == {e \in Lanes : p[e] >= Base /\ Slot(p[e]) \in DOMAIN arr}
    IN [i \in {Slot(p[e]) : e \in written} |->
          ToFloat(settings.kernel, v[CHOOSE e \in written : Slot(p[e]) = i])]
       @@ arr

\* tri_int / tri_float on QPU q, from start to END.  The prologue with the
\* init code sets p on each lane; then n = *p (a TMU load,
\* varassign_deref_var), sum = 0, the loop, and *p = sum (TMUD, TMUA,
\* tmuwt, deref_var_var).  The QPU's loads and stores touch only the
\* elements its lanes' p select, so the step is atomic: other QPUs see
\* its reads and writes apart only if two QPUs' elements overlap, and
\* then some element is never written and TriResult fails anyway.  Each
\* \E v \in {e} names the value of e, which TLC then computes once.
Kernel(q) ==
    /\ pc[q] = "start"
    /\ \E p \in {Prologue(Compiled, ThreadIndex(q), Uniforms(settings.numQPUs), 2)} :
       \E n \in {[e \in Lanes |-> ToInt(settings.kernel, ReadElem(p[e]))]} :
       \E sum \in {TriLoop(n, [e \in Lanes |-> 0])} :
          arr' = StoreElems(p, sum)
    /\ pc' = [pc EXCEPT ![q] = "done"]
    /\ UNCHANGED <<host, settings>>

Next ==
    \/ RunKernel
    \/ Finish
    \/ \E q \in QPUs : Kernel(q)

Spec == Init /\ [][Next]_vars

-----------------------------------------------------------------------------
(* Properties                                                              *)

TypeOK ==
    /\ host \in {"start", "running", "done"}
    /\ settings \in SettingsSet
    /\ DOMAIN arr \in {Index(n) : n \in QpuCounts} \cup {{}}
    /\ \A i \in DOMAIN arr : arr[i] = Elem(settings.kernel, ToInt(settings.kernel, arr[i]))
    /\ pc \in [QPUs -> {"idle", "start", "done"}]

\* The i-th triangular number, by Gauss's formula.
TriNum(i) == (i * (i + 1)) \div 2

\* The Tri program's result: once the run returns, element i of the array
\* holds the i-th triangular number for every i < 16 * num_qpus, and
\* while the QPUs run each element holds i or that number.  This relies
\* on add_init's offsets giving every lane of every QPU its own element,
\* and on the Where mask stopping lanes whose n reached 0.
TriResult ==
    /\ host # "start" /\ ~settings.compileOnly =>
         \A i \in DOMAIN arr :
            arr[i] \in {Elem(settings.kernel, i), Elem(settings.kernel, TriNum(i))}
    /\ host = "done" /\ ~settings.compileOnly =>
         \A i \in DOMAIN arr : arr[i] = Elem(settings.kernel, TriNum(i))
=============================================================================
