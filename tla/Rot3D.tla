-------------------------------- MODULE Rot3D --------------------------------
(***************************************************************************)
(* The Rot3D example (src/Examples/Rot3D.cpp) on vc4: main() reads the     *)
(* settings and runs the kernel they select, either the multi-QPU kernel  *)
(* rot3D_3 on numQPUs QPUs or the scalar rot3D on the host.                *)
(*                                                                         *)
(* rot3D_3 runs on every QPU at once.  QPU me starts at vector me of the  *)
(* arrays x and y and strides by numQPUs vectors.  Its loads are TMU      *)
(* gathers: gather(p) queues a request on the QPU's TMU, the TMU serves   *)
(* its requests in order at a time of its own, and receive() takes the    *)
(* oldest answer.  The loop prefetches the next vectors before it         *)
(* receives the current ones.                                             *)
(*                                                                         *)
(* Abstractions.  N = 16 * NB.  The 16 lanes of a QPU act together on the *)
(* 16 consecutive elements of one vector (index() adds the lane, me() << 4 *)
(* and inc are multiples of 16), so memory is a function of vector        *)
(* indices; indices NB and above are the GPU memory after an array.  A    *)
(* float is abstracted to its provenance: [v |-> i, r |-> k] is the value *)
(* element i has after k rotations, and rotating a pair whose two parts   *)
(* come from different elements or rotation counts gives Mixed.  Pointer  *)
(* arithmetic is in elements.                                              *)
(***************************************************************************)
EXTENDS Integers, Sequences, SequencesExt

CONSTANTS
    NB,          \* N \div 16, the number of 16-element vectors of x and y
    Kernels,     \* the values -k= selects: 0..2 the QPU kernels, 3 "cpu"
    QpuCounts    \* the values -n= gives num_qpus

VARIABLES
    host,        \* "start", "running" (the invocation blocks) or "done"
    settings,    \* the parsed settings: kernel, numQPUs, compileOnly
    x, y,        \* the arrays, by vector index, and the memory after them
    pc,          \* per QPU: the statement of rot3D_3 it is at
    ptr,         \* per QPU: the vector p and q point to
    it,          \* per QPU: the loop counter i, in vectors
    xOld, yOld,  \* per QPU: the last values received
    fifo         \* per QPU: its TMU requests, oldest first

vars == <<host, settings, x, y, pc, ptr, it, xOld, yOld, fifo>>

QpuLimit == Max(QpuCounts)

QPUs == 0..QpuLimit - 1

\* The vectors a run can touch: the arrays and the strides past their end.
Addr == 0..NB + 2 * QpuLimit - 1

Orig(i) == [v |-> i, r |-> 0]

\* What GPU memory past the arrays holds.
Junk == [v |-> -1, r |-> 0]

Mixed == [v |-> -2, r |-> 0]

\* The value slot of a request the TMU has not served yet.
NoVal == [v |-> -3, r |-> -1]

Values == [v : Int, r : Nat]

SettingsSet == [kernel : Kernels, numQPUs : QpuCounts, compileOnly : BOOLEAN]

\* xOld * cosTheta - yOld * sinTheta and yOld * cosTheta + xOld * sinTheta:
\* the rotation of a pair, correct when both parts belong together.
Rotate(xo, yo) ==
    IF xo.v = yo.v /\ xo.r = yo.r /\ xo.v >= 0 THEN [v |-> xo.v, r |-> xo.r + 1] ELSE Mixed

\* x[i] = (float) i; y[i] = (float) i; for every i < N.
InitArrays(a) == [b \in Addr |-> IF b < NB THEN Orig(b) ELSE a[b]]

-----------------------------------------------------------------------------
(* The host                                                                *)

Init ==
    /\ host = "start"
    /\ settings \in SettingsSet
    /\ x = [b \in Addr |-> Junk]
    /\ y = [b \in Addr |-> Junk]
    /\ pc = [q \in QPUs |-> "idle"]
    /\ ptr = [q \in QPUs |-> 0]
    /\ it = [q \in QPUs |-> 0]
    /\ xOld = [q \in QPUs |-> Junk]
    /\ yOld = [q \in QPUs |-> Junk]
    /\ fifo = [q \in QPUs |-> <<>>]

\* rot3D: the scalar loop over all N elements.
Rot3DScalar(xs, ys) ==
    [b \in Addr |-> IF b < NB THEN Rotate(xs[b], ys[b]) ELSE xs[b]]

\* run_scalar_kernel(): initialise the arrays, then rot3D only when
\* compile_only is set.
RunScalarKernel ==
    LET xs == InitArrays(x)
        ys == InitArrays(y)
    IN /\ x' = IF settings.compileOnly THEN Rot3DScalar(xs, ys) ELSE xs
       /\ y' = IF settings.compileOnly THEN Rot3DScalar(ys, xs) ELSE ys
       /\ host' = "done"
       /\ UNCHANGED <<pc, ptr, it, xOld, yOld, fifo>>

\* settings.process(k, N, cos, sin, &x, &y): with compile_only the kernel
\* is not invoked; otherwise QPUs 0..numQPUs-1 start rot3D_3 and the call
\* blocks until they end.
Process ==
    IF settings.compileOnly
    THEN host' = "done" /\ UNCHANGED pc
    ELSE /\ host' = "running"
         /\ pc' = [q \in QPUs |-> IF q < settings.numQPUs THEN "start" ELSE "idle"]

\* run_qpu_kernel(kernel): compiles rot3D_3 whatever kernel it is given,
\* sets numQPUs, initialises x and y, and hands them to process().
RunQpuKernel ==
    /\ x' = InitArrays(x)
    /\ y' = InitArrays(y)
    /\ Process
    /\ UNCHANGED <<ptr, it, xOld, yOld, fifo>>

\* main(): settings.init(), then run_kernel(settings.kernel), whose switch
\* sends 0, 1 and 2 to run_qpu_kernel and 3 to run_scalar_kernel.
RunKernel ==
    /\ host = "start"
    /\ \/ settings.kernel \in {0, 1, 2} /\ RunQpuKernel
       \/ settings.kernel = 3 /\ RunScalarKernel
    /\ UNCHANGED settings

\* Faulty variant: the host waits for every QPU there is.
FinishAllQpus ==
    /\ host = "running"
    /\ \A q \in QPUs : pc[q] = "done"
    /\ host' = "done"
    /\ UNCHANGED <<settings, x, y, pc, ptr, it, xOld, yOld, fifo>>

\* The invocation returns when every QPU has run END.
Finish ==
    /\ host = "running"
    /\ \A q \in 0..settings.numQPUs - 1 : pc[q] = "done"
    /\ host' = "done"
    /\ UNCHANGED <<settings, x, y, pc, ptr, it, xOld, yOld, fifo>>

-----------------------------------------------------------------------------
(* rot3D_3 on QPU q, and its TMU                                            *)

Req(arr, b) == [arr |-> arr, addr |-> b, val |-> NoVal]

\* gather(p); gather(q): two requests for vector b of x and of y.
Gathers(q, b) == fifo' = [fifo EXCEPT ![q] = @ \o <<Req("x", b), Req("y", b)>>]

Served(e) == e.val # NoVal

\* inc = numQPUs() << 4; p = x + index() + (me() << 4); likewise q; then
\* gather(p); gather(q).  On vc4 me() is the id the invocation gives QPU q.
Start(q) ==
    /\ pc[q] = "start"
    /\ ptr' = [ptr EXCEPT ![q] = q]
    /\ it' = [it EXCEPT ![q] = 0]
    /\ Gathers(q, q)
    /\ pc' = [pc EXCEPT ![q] = "test"]
    /\ UNCHANGED <<host, settings, x, y, xOld, yOld>>

\* Faulty variant: the loop runs while i <= n.
TestInclusive(q) ==
    /\ pc[q] = "test"
    /\ pc' = [pc EXCEPT ![q] = IF it[q] <= NB THEN "prefetch" ELSE "drain"]
    /\ UNCHANGED <<host, settings, x, y, ptr, it, xOld, yOld, fifo>>

\* For (Int i = 0, i < n, i = i+inc): the loop test, n = N.
Test(q) ==
    /\ pc[q] = "test"
    /\ pc' = [pc EXCEPT ![q] = IF it[q] < NB THEN "prefetch" ELSE "drain"]
    /\ UNCHANGED <<host, settings, x, y, ptr, it, xOld, yOld, fifo>>

\* Faulty variant: the loop gathers p and q instead of p+inc and q+inc.
PrefetchCurrent(q) ==
    /\ pc[q] = "prefetch"
    /\ Gathers(q, ptr[q])
    /\ pc' = [pc EXCEPT ![q] = "receive"]
    /\ UNCHANGED <<host, settings, x, y, ptr, it, xOld, yOld>>

\* gather(p+inc); gather(q+inc).
Prefetch(q) ==
    /\ pc[q] = "prefetch"
    /\ Gathers(q, ptr[q] + settings.numQPUs)
    /\ pc' = [pc EXCEPT ![q] = "receive"]
    /\ UNCHANGED <<host, settings, x, y, ptr, it, xOld, yOld>>

\* Faulty variant: receive does not wait for the TMU's answer.
ReceiveBothUnserved(q, next) ==
    /\ Len(fifo[q]) >= 2
    /\ xOld' = [xOld EXCEPT ![q] = fifo[q][1].val]
    /\ yOld' = [yOld EXCEPT ![q] = fifo[q][2].val]
    /\ fifo' = [fifo EXCEPT ![q] = Tail(Tail(@))]
    /\ pc' = [pc EXCEPT ![q] = next]

\* receive(xOld); receive(yOld): wait for the two oldest answers.
ReceiveBoth(q, next) ==
    /\ Len(fifo[q]) >= 2 /\ Served(fifo[q][1]) /\ Served(fifo[q][2])
    /\ xOld' = [xOld EXCEPT ![q] = fifo[q][1].val]
    /\ yOld' = [yOld EXCEPT ![q] = fifo[q][2].val]
    /\ fifo' = [fifo EXCEPT ![q] = Tail(Tail(@))]
    /\ pc' = [pc EXCEPT ![q] = next]

Receive(q) ==
    /\ pc[q] = "receive"
    /\ ReceiveBoth(q, "storex")
    /\ UNCHANGED <<host, settings, x, y, ptr, it>>

\* store(xOld * cosTheta - yOld * sinTheta, p).
StoreX(q) ==
    /\ pc[q] = "storex"
    /\ x' = [x EXCEPT ![ptr[q]] = Rotate(xOld[q], yOld[q])]
    /\ pc' = [pc EXCEPT ![q] = "storey"]
    /\ UNCHANGED <<host, settings, y, ptr, it, xOld, yOld, fifo>>

\* store(yOld * cosTheta + xOld * sinTheta, q); p = p+inc; q = q+inc; and
\* the loop's i = i+inc.
StoreY(q) ==
    /\ pc[q] = "storey"
    /\ y' = [y EXCEPT ![ptr[q]] = Rotate(yOld[q], xOld[q])]
    /\ ptr' = [ptr EXCEPT ![q] = @ + settings.numQPUs]
    /\ it' = [it EXCEPT ![q] = @ + settings.numQPUs]
    /\ pc' = [pc EXCEPT ![q] = "test"]
    /\ UNCHANGED <<host, settings, x, xOld, yOld, fifo>>

\* receive(xOld); receive(yOld) after the loop, for the last prefetch.
Drain(q) ==
    /\ pc[q] = "drain"
    /\ ReceiveBoth(q, "done")
    /\ UNCHANGED <<host, settings, x, y, ptr, it>>

\* The TMU of QPU q serves its oldest waiting request: it reads memory.
Fetch(q) ==
    LET j == SelectInSeq(fifo[q], LAMBDA e : ~Served(e))
        e == fifo[q][j]
    IN /\ j # 0
       /\ fifo' = [fifo EXCEPT ![q][j].val = IF e.arr = "x" THEN x[e.addr] ELSE y[e.addr]]
       /\ UNCHANGED <<host, settings, x, y, pc, ptr, it, xOld, yOld>>

Step(q) ==
    Start(q) \/ Test(q) \/ Prefetch(q) \/ Receive(q) \/ StoreX(q) \/ StoreY(q) \/ Drain(q)

Next ==
    \/ RunKernel \/ Finish
    \/ \E q \in QPUs : Step(q) \/ Fetch(q)

\* The QPUs run in hardware and the TMUs always serve; the host's
\* invocation waits for them.
Fairness ==
    /\ WF_vars(RunKernel) /\ WF_vars(Finish)
    /\ \A q \in QPUs : WF_vars(Step(q)) /\ WF_vars(Fetch(q))

Spec == Init /\ [][Next]_vars /\ Fairness

-----------------------------------------------------------------------------
(* Properties                                                              *)

TypeOK ==
    /\ host \in {"start", "running", "done"}
    /\ settings \in SettingsSet
    /\ x \in [Addr -> Values] /\ y \in [Addr -> Values]
    /\ pc \in [QPUs -> {"idle", "start", "test", "prefetch", "receive",
                        "storex", "storey", "drain", "done"}]
    /\ ptr \in [QPUs -> Nat] /\ it \in [QPUs -> Nat]
    /\ xOld \in [QPUs -> Values] /\ yOld \in [QPUs -> Values]
    /\ fifo \in [QPUs -> Seq([arr : {"x", "y"}, addr : Addr, val : Values \cup {NoVal}])]

Rotated(i) == [v |-> i, r |-> 1]

\* The run computed rot3D_3 on the QPUs.
QpuRun == settings.kernel \in {0, 1, 2} /\ ~settings.compileOnly

\* Once the arrays exist, every element of x and y holds its initial value
\* or that value rotated once, from the two halves of its own pair: the
\* QPUs' strides never overlap, and each receive pairs with the gather of
\* the vector the following stores write, across the prefetch.  When an
\* invocation of rot3D_3 returns, every element has been rotated.
ResultIsRotation ==
    /\ host # "start" =>
          \A b \in 0..NB - 1 : x[b] \in {Orig(b), Rotated(b)} /\ y[b] \in {Orig(b), Rotated(b)}
    /\ host = "done" /\ QpuRun =>
          \A b \in 0..NB - 1 : x[b] = Rotated(b) /\ y[b] = Rotated(b)

\* No QPU stores past the end of x or y: the memory after them keeps what
\* it held.  rot3D_3's loop runs while i < n and strides by numQPUs << 4.
StoresInBounds == \A b \in Addr : b >= NB => x[b] = Junk /\ y[b] = Junk

\* Every run of the program ends: the QPUs' receives are all answered and
\* the invocation returns.
Terminates == <>(host = "done")
=============================================================================
