--------------------------- MODULE KernelLifecycle ---------------------------
(***************************************************************************)
(* The life of Kernel objects in QPU mode (src/Lib/Kernel.h): compile()    *)
(* constructs a kernel, whose constructor enables the QPUs on vc4          *)
(* (src/Lib/vc4/vc4.cpp) and allocates a SharedArray of GPU memory for the *)
(* code (src/Lib/VideoCore/SharedArray.h); setNumQPUs, invocation, and the *)
(* destructor, which frees the code memory and disables the QPUs.         *)
(*                                                                         *)
(* Each Kernel object is a model value of Kernels, each SharedArray object *)
(* one of Arrays.  A SharedArray is abstracted to whether it exists, its   *)
(* mem_alloc handle, whether arm_base is mapped, its size in words and    *)
(* the number of pages of its mapping that are still mapped.  The program *)
(* is single-threaded: each action is one whole call.  A fatal exit or an *)
(* abort ends the process (proc); no action is enabled after it.          *)
(***************************************************************************)
EXTENDS Integers, Sequences, FiniteSets, Bitwise, Functions

CONSTANTS
    Kernels,          \* Kernel objects (named locals, temporaries)
    Arrays,           \* SharedArray objects created by new
    NoArray,          \* the value of an unset qpuCodeMem pointer
    Platforms,        \* the values Platform::instance().has_vc4 can have
    Elide,            \* whether the build elides the copy in compile()'s return
    QPUCounts,        \* the values the program passes to setNumQPUs
    CodeWords,        \* code.numElems, the encoded code length in words
    MaxKernelParams,  \* MAX_KERNEL_PARAMS
    PageSize          \* the page size mapmem/unmapmem round to

VARIABLES
    proc,       \* "running", "exited" (exit(EXIT_FAILURE)) or "aborted"
    vc4,        \* the globals of vc4.cpp: mailbox opened, numQPUUsers, QPU power
    kState,     \* per Kernel object: "unborn", "constructing", "alive" or "gone"
    kMem,       \* per Kernel object: its qpuCodeMem pointer
    kNumQPUs,   \* per Kernel object: numQPUs
    arr,        \* per SharedArray object
    qpuIds,     \* the QPU ids the last invocation gave its QPUs, by QPU
    hasVc4      \* Platform::instance().has_vc4, fixed for the process

vars == <<proc, vc4, kState, kMem, kNumQPUs, arr, qpuIds, hasVc4>>

\* int numWords = code.numElems + 12*MAX_KERNEL_PARAMS + 12*2;
NumWords == CodeWords + 12 * MaxKernelParams + 12 * 2

\* Pages a mapping of the given number of bytes occupies.
Pages(bytes) == (bytes + PageSize - 1) \div PageSize

Unused == [st |-> "unused", handle |-> FALSE, armBase |-> FALSE, size |-> 0, pages |-> 0]

-----------------------------------------------------------------------------
(* vc4.cpp.  The QPU state is a record [mailbox, users, power].            *)

\* getMailbox(): opens the mailbox the first time.
GetMailbox(s) == [s EXCEPT !.mailbox = TRUE]

\* Faulty variant: numQPUUsers is incremented only inside the if, when the
\* QPUs are switched on.
EnableQPUsCountFirstOnly(s) ==
    [GetMailbox(s) EXCEPT !.power = IF s.users = 0 THEN TRUE ELSE @,
                          !.users = IF s.users = 0 THEN 1 ELSE @]

\* enableQPUs(), when qpu_enable succeeds or is not needed.
EnableQPUs(s) ==
    [GetMailbox(s) EXCEPT !.power = IF s.users = 0 THEN TRUE ELSE @,
                          !.users = @ + 1]

\* Faulty variant: the QPUs always power off on a disable.
DisableQPUsAlwaysOff(s) == [GetMailbox(s) EXCEPT !.users = @ - 1, !.power = FALSE]

\* disableQPUs(), after its assert(numQPUUsers > 0) has passed.
DisableQPUs(s) ==
    [GetMailbox(s) EXCEPT !.users = @ - 1,
                          !.power = IF s.users - 1 = 0 THEN FALSE ELSE @]

-----------------------------------------------------------------------------
(* SharedArray.h                                                           *)

\* Faulty variant: size recorded in bytes.
AllocSizeBytes(n) ==
    [st |-> "live", handle |-> TRUE, armBase |-> TRUE, size |-> 4 * n, pages |-> Pages(4 * n)]

\* new SharedArray<uint32_t> followed by a successful alloc(n): mem_alloc
\* of n*4 bytes, size = n, mem_lock, mapmem of n*4 bytes.
Alloc(n) ==
    [st |-> "live", handle |-> TRUE, armBase |-> TRUE, size |-> n, pages |-> Pages(4 * n)]

\* dealloc(): unmapmem(arm_base, size) passes the size in words as the
\* length in bytes; then the handle is unlocked and freed and all reset.
Dealloc(a) ==
    [a EXCEPT !.pages = IF a.armBase /\ @ > Pages(a.size) THEN @ - Pages(a.size)
                        ELSE IF a.armBase THEN 0 ELSE @,
              !.handle = FALSE, !.armBase = FALSE, !.size = 0]

\* delete of a SharedArray: the destructor deallocates if arm_base is set.
DeleteArray(a) == [(IF a.armBase THEN Dealloc(a) ELSE a) EXCEPT !.st = "deleted"]

-----------------------------------------------------------------------------
(* Kernel.h and compile().                                                 *)

Running == proc = "running"

Init ==
    /\ proc = "running"
    /\ vc4 = [mailbox |-> FALSE, users |-> 0, power |-> FALSE]
    /\ kState = [k \in Kernels |-> "unborn"]
    /\ kMem = [k \in Kernels |-> NoArray]
    /\ kNumQPUs = [k \in Kernels |-> 1]
    /\ arr = [o \in Arrays |-> Unused]
    /\ qpuIds = <<>>
    /\ hasVc4 \in Platforms

\* The constructor's enableQPUs() finds the QPUs off and qpu_enable fails:
\* the process exits.
CompileEnableFails(k) ==
    /\ Running /\ hasVc4
    /\ kState[k] = "unborn"
    /\ vc4.users = 0
    /\ proc' = "exited"
    /\ vc4' = GetMailbox(vc4)
    /\ UNCHANGED <<hasVc4, kState, kMem, kNumQPUs, arr, qpuIds>>

\* Faulty variant: the result of mem_alloc is not checked, and the
\* constructor goes on with an unallocated array.
CompileAllocFailsNoExit(k, o) ==
    /\ Running
    /\ kState[k] = "unborn" /\ arr[o].st = "unused"
    /\ vc4' = IF hasVc4 THEN EnableQPUs(vc4) ELSE GetMailbox(vc4)
    /\ arr' = [arr EXCEPT ![o] = [Unused EXCEPT !.st = "live"]]
    /\ kState' = [kState EXCEPT ![k] = "alive"]
    /\ kMem' = [kMem EXCEPT ![k] = o]
    /\ kNumQPUs' = [kNumQPUs EXCEPT ![k] = 1]
    /\ UNCHANGED <<hasVc4, proc, qpuIds>>

\* The constructor gets the QPUs (vc4), creates the SharedArray, and its
\* alloc() finds mem_alloc failing: the process exits mid-constructor.
CompileAllocFails(k, o) ==
    /\ Running
    /\ kState[k] = "unborn" /\ arr[o].st = "unused"
    /\ vc4' = IF hasVc4 THEN EnableQPUs(vc4) ELSE GetMailbox(vc4)
    /\ arr' = [arr EXCEPT ![o] = [Unused EXCEPT !.st = "live"]]
    /\ kState' = [kState EXCEPT ![k] = "constructing"]
    /\ kMem' = [kMem EXCEPT ![k] = o]
    /\ proc' = "exited"
    /\ UNCHANGED <<hasVc4, kNumQPUs, qpuIds>>

\* compile(f): the constructor of the local k (numQPUs = 1, enableQPUs()
\* on vc4, a new SharedArray o allocated for NumWords words), then the
\* return.  When the build elides the copy, k is the caller's kernel r.
\* Otherwise the implicit copy constructor copies k into r, pointer
\* included, and k's destructor deletes o and disables the QPUs.
Compile(k, r, o) ==
    /\ Running
    /\ kState[k] = "unborn" /\ kState[r] = "unborn" /\ arr[o].st = "unused"
    /\ IF Elide THEN r = k ELSE r # k
    /\ LET built == IF hasVc4 THEN EnableQPUs(vc4) ELSE GetMailbox(vc4)
           mem   == Alloc(NumWords)
       IN IF Elide
          THEN /\ vc4' = built
               /\ arr' = [arr EXCEPT ![o] = mem]
               /\ kState' = [kState EXCEPT ![r] = "alive"]
          ELSE /\ vc4' = IF hasVc4 THEN DisableQPUs(built) ELSE built
               /\ arr' = [arr EXCEPT ![o] = DeleteArray(mem)]
               /\ kState' = [kState EXCEPT ![k] = "gone", ![r] = "alive"]
    /\ kMem' = [kMem EXCEPT ![k] = o, ![r] = o]
    /\ kNumQPUs' = [kNumQPUs EXCEPT ![k] = 1, ![r] = 1]
    /\ UNCHANGED <<hasVc4, proc, qpuIds>>

\* setNumQPUs(n): numQPUs = n, with no check of n.
SetNumQPUs(k, n) ==
    /\ Running
    /\ kState[k] = "alive"
    /\ kNumQPUs' = [kNumQPUs EXCEPT ![k] = n]
    /\ UNCHANGED <<hasVc4, proc, vc4, kState, kMem, arr, qpuIds>>

(* The QPU id add_init computes on v3d for a QPU whose QPU_ID register     *)
(* reads tid: RSV_QPU_ID = 0; if numQPUs - 8 is zero, RSV_QPU_ID =          *)
(* (tid >> 2) & 15.                                                         *)

\* Faulty variant: the shift by 2 is missing.
QpuIdInitNoShift(n, tid) == IF n - 8 = 0 THEN tid & 15 ELSE 0

QpuIdInit(n, tid) == IF n - 8 = 0 THEN shiftR(tid, 2) & 15 ELSE 0

\* The thread index QPU q reads: its four reserved threads are consecutive.
ThreadIndex(q) == 4 * q

\* The ids the QPUs of an invocation on n QPUs get: on vc4 the invoke
\* writes QPU q's id into its qpu_id uniform; on v3d add_init computes it.
IdsOf(n) ==
    [q \in 1..n |-> IF hasVc4 THEN q - 1 ELSE QpuIdInit(n, ThreadIndex(q - 1))]

\* call(): qpu() on vc4, v3d() otherwise, invoking numQPUs QPUs on the code
\* in *qpuCodeMem.  Code memory that was already deleted is read as
\* whatever the freed memory holds: the run may crash.
Invoke(k) ==
    /\ Running
    /\ kState[k] = "alive"
    /\ qpuIds' = IdsOf(kNumQPUs[k])
    /\ \/ proc' = "running"
       \/ arr[kMem[k]].st = "deleted" /\ proc' = "aborted"
    /\ UNCHANGED <<hasVc4, vc4, kState, kMem, kNumQPUs, arr>>

\* ~Kernel(): delete qpuCodeMem, then disableQPUs() on vc4.  Deleting code
\* memory that was already deleted is a double free, which aborts; so does
\* disableQPUs()'s assert when no user is counted.
Destroy(k) ==
    /\ Running
    /\ kState[k] = "alive"
    /\ kState' = [kState EXCEPT ![k] = "gone"]
    /\ LET o == kMem[k] IN
       IF arr[o].st = "deleted"
       THEN /\ proc' = "aborted"
            /\ UNCHANGED <<hasVc4, vc4, arr>>
       ELSE /\ arr' = [arr EXCEPT ![o] = DeleteArray(arr[o])]
            /\ IF hasVc4 /\ vc4.users = 0
               THEN proc' = "aborted" /\ vc4' = GetMailbox(vc4)
               ELSE /\ proc' = "running"
                    /\ vc4' = IF hasVc4 THEN DisableQPUs(vc4) ELSE vc4
    /\ UNCHANGED <<hasVc4, kMem, kNumQPUs, qpuIds>>

Next ==
    \/ \E k \in Kernels : CompileEnableFails(k) \/ Invoke(k) \/ Destroy(k)
    \/ \E k \in Kernels, o \in Arrays : CompileAllocFails(k, o)
    \/ \E k, r \in Kernels, o \in Arrays : Compile(k, r, o)
    \/ \E k \in Kernels, n \in QPUCounts : SetNumQPUs(k, n)

Spec == Init /\ [][Next]_vars

-----------------------------------------------------------------------------
(* Properties                                                              *)

\* The kernels that hold the QPUs: the live ones, and one whose constructor
\* enabled them and then exited.
Holders == {k \in Kernels : kState[k] \in {"alive", "constructing"}}

\* Type invariant.  A SharedArray's size is 0 or the number of words alloc
\* was given.
TypeOK ==
    /\ proc \in {"running", "exited", "aborted"}
    /\ vc4.mailbox \in BOOLEAN /\ vc4.users \in Nat /\ vc4.power \in BOOLEAN
    /\ kState \in [Kernels -> {"unborn", "constructing", "alive", "gone"}]
    /\ kMem \in [Kernels -> Arrays \cup {NoArray}]
    /\ kNumQPUs \in [Kernels -> QPUCounts \cup {1}]
    /\ \A o \in Arrays : /\ arr[o].st \in {"unused", "live", "deleted"}
                         /\ arr[o].size \in {0, NumWords}
    /\ qpuIds \in Seq(Nat)
    /\ hasVc4 \in BOOLEAN

\* Every kernel the program can still call owns code memory that exists,
\* is allocated and mapped (no use after free through qpuCodeMem), and no
\* two kernels share code memory (no double delete by their destructors).
CodeMemValid ==
    /\ \A k \in Kernels : kState[k] = "alive" =>
           arr[kMem[k]].st = "live" /\ arr[kMem[k]].handle /\ arr[kMem[k]].armBase
    /\ \A k, j \in Kernels : k # j /\ kState[k] = "alive" /\ kState[j] = "alive"
           => kMem[k] # kMem[j]

\* numQPUUsers counts the kernels that called enableQPUs() and have not yet
\* called disableQPUs(): the reference count pairs the constructors with
\* the destructors across interleaved kernel lifetimes.  Only vc4 counts.
QPUUsersCountKernels == Running /\ hasVc4 => vc4.users = Cardinality(Holders)

\* Every invocation gives its numQPUs QPUs distinct ids in [0, numQPUs)
\* (spec 5: "each QPU has a unique lane-0 index in [0, numQPUs)"); the
\* per-QPU pointer offsets add_init derives from them are then disjoint.
DistinctQpuIds ==
    /\ IsInjective(qpuIds)
    /\ \A q \in DOMAIN qpuIds : qpuIds[q] \in 0..Len(qpuIds) - 1

\* A deleted SharedArray leaves none of its mapping behind: dealloc()
\* unmaps every page alloc() mapped.
MappingsReleased == \A o \in Arrays : arr[o].st = "deleted" => arr[o].pages = 0

\* Refinement: on vc4 the Kernel objects use the QPUs as QpuUse says, with
\* the holders the kernels holding them and powered the QPU power.  On v3d
\* no kernel holds them.
QU == INSTANCE QpuUse WITH Users <- Kernels,
                           holders <- IF hasVc4 THEN Holders ELSE {},
                           powered <- vc4.power

QpuUseRefined == QU!Spec
=============================================================================
