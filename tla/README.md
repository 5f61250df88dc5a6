# TLA+ models of the V3DLib compiler back end

This directory holds TLA+ models of the V3DLib code under `src/`, with the TLC
configurations that check them. `PROJECT.json` lists the components, the
runs, the mutants, the line map and the hazards.

## The system

V3DLib compiles a kernel written in a C++ DSL into code for the VideoCore QPUs.
The kernel is run on a vc4 chip (Raspberry Pi 1-3) or a v3d chip (Pi 4). The
pipeline is:

1. **DSL builder and source IR** (`Source/*`). The kernel function runs
   on the host. Each `Int`, `Float` or `Ptr` declaration, assignment,
   `store` or `receive` builds an expression and appends a statement to
   the statement stack, and `If`/`Where`/`Else`/`End` open and close
   blocks on it. The constructors of the nodes are in `Source/Syntax.cpp`.
2. **Lowering** (`v3d/SourceTranslate.cpp`, plus target-independent code
   that is not under `src/`). It produces a flat list of target instructions
   (`Target/Instr.cpp`) over variables, which are `REG_A` registers numbered
   by variable id, accumulators and special registers. Labels are marked by
   `LAB`, branches by `BRL`, and the code ends with `END`. `add_init` inserts
   the per-QPU id and pointer-offset code after `INIT_BEGIN`.
3. **CFG** (`Target/CFG.cpp`). A successor set per instruction.
4. **Liveness**. `Liveness::compute` is not under `src/`; spec 4.3 describes
   it. It runs backward dataflow in reverse instruction order until nothing
   changes.
5. **Register allocation.**
   - vc4 (`vc4/RegAlloc.cpp`) has two register files, A and B. A preference
     pre-pass runs first. Variables are then taken in id order, each getting
     the lowest free register in the chosen file; ties alternate between
     files. Exhaustion is a fatal error.
   - v3d (`SourceTranslate::regAlloc`) has one file.
   - Both then rewrite the code in place, using the temporary tags
     `TMP_A`/`TMP_B`.
6. **Encoding.** vc4 uses `Target/Encode.cpp`; v3d uses the encoder in
   `KernelDrivers.cpp`.
7. **Kernel lifecycle** (`Kernel.h`, `KernelDrivers.cpp`, `vc4/vc4.cpp`,
   `VideoCore/SharedArray.h`). The kernel object compiles in its
   constructor, enables the QPUs, allocates GPU memory for the code, invokes
   the code and frees everything in its destructor.

Steps 2-5 run one after another on a single thread. Nothing runs
concurrently. What makes this code hard is the data flow:

- the order in which the rewrite renames registers;
- conditional assignments that keep a variable's old value;
- back edges that make liveness iterate;
- running out of register capacity.

The lifecycle part adds resource pairing: the QPU-user count and the GPU
memory.

8. **A client: the Rot3D example** (`src/Examples/Rot3D.cpp`). `main`
   parses `-k=`, `-n=` and `--compile-only`, and runs either the kernel
   `rot3D_3` on `num_qpus` QPUs or the scalar `rot3D` on the host. This is
   the one place in the tree where code runs concurrently. All the QPUs
   execute `rot3D_3` at once, on disjoint strides of the arrays x and y.
   Each QPU's loads go through its TMU. `gather` queues a request, the
   TMU answers it later, and `receive` takes the oldest answer. The loop
   prefetches the next vectors before it receives the current ones.
9. **A second client: the Tri example** (`src/Examples/Tri.cpp`). `main`
   runs the integer or the float kernel on `num_qpus` QPUs of a v3d chip,
   over an array of `16 * num_qpus` elements. Each lane replaces its
   element n by the triangular number n + ... + 1, in a `While`/`Where`
   loop. The kernel never computes its own index: the code `add_init`
   inserts gives every lane of every QPU its element. Tri is therefore
   the end-to-end check of that init code.

## Modules

| module | models | state / operators |
|---|---|---|
| `TargetIR` | `Target/Instr.cpp`, `Target/CFG.cpp`, liveness (spec 4.3) | Operators only. `Reg`/`ALU`/`LI`/`BRL`/`LAB`/`PRI`/`EndInstr` build instructions. `isCondAssign`, `Def`, `Use` and `TwoUses` are the use/def helpers. `LabelMap` and `BuildCFG` are `buildCFG`. `LiveIn`, `ReversePass` and `LivenessPass` make one reverse pass of `Liveness::compute`. `LiveRef` is a reference definition of liveness: the path-reachability of a use. `Exec`/`Output` is a one-lane emulator, the reference semantics. |
| `RegAlloc` | `vc4/RegAlloc.cpp`, `SourceTranslate::regAlloc` | A state machine for one compilation, described below. |
| `MC_RegAlloc` | — | Model values for TLC: three variables (two in the loop model), one label, and instruction alphabets. |
| `MC_RegAllocTargets` | — | The pipeline on both targets in one model. `target` picks vc4 with the straight-line alphabet or v3d with the loop alphabet, once, as the build does. `passes` is a history variable that counts the reverse passes of `Liveness::compute`. |
| `QpuUse` | what vc4 QPU power management promises | Abstract: a set of `holders` and `powered`. `Acquire` powers the QPUs on; the last `Release` powers them off. |
| `KernelLifecycle` | `Kernel.h`, `vc4/vc4.cpp`, `VideoCore/SharedArray.h`, `add_init`'s QPU id | Kernel and SharedArray objects over their lifetimes, described below. Refines `QpuUse`. |
| `MC_KernelLifecycle` | — | QPU-count sets for TLC. |
| `QpuInstr` | target instructions (spec 3) | Operators only: the instruction and operand records both encoders take, and `IsMulOp`. |
| `Vc4Encode` | `Target/Encode.cpp` | `encodeInstr` and its tables as operators. The `Encode` step is one iteration of `encode()`: it takes `instr` to `status` "ok" with `code` = <<low, high>>, or to "error" where the code asserts or exits. An independent decoder (`Decode`), the meaning of each instruction (`Meaning`) and a port-assignment definition of encodability (`Encodable`) are the references. |
| `Rot3D` | `Examples/Rot3D.cpp`; the run-time `receive` from spec 4.2 (the TMU's answer, not under `src/`) | The host's `run_kernel` path and `rot3D_3` on each QPU with its TMU, described below. |
| `MC_Rot3D` | — | QPU counts that do not divide the array (the violation run). |
| `V3dInit` | `v3d/SourceTranslate.cpp` (`add_init`, `add_uniform_pointer_offset`, `get_init_begin_marker`), `Instr::isUniformLoad`, `Int.h`'s reserved variables | Operators only. `InitCode` and `AddInit` build the inserted code as target instructions. `PointerOffsets` is the recursive walk over the leading uniform loads. `Run`/`Prologue` is a 16-lane emulator of the operations the prologue uses, described below. |
| `Tri` | `Examples/Tri.cpp` | The host (`RunKernel`, `Finish`) and one atomic `Kernel(q)` step per QPU, described below. |
| `MC_Examples` | — | Rot3D (6 vectors, 2 or 3 QPUs) and Tri (1 or 8 QPUs, both kernels) in one model. `target` picks one program per behaviour; the other program's variables stay fixed. |
| `MC_Vc4Encode` | — | The instructions the lowering and the allocator hand the encoder, plus the rotate amounts and destinations of the two violation runs. |

### KernelLifecycle in detail

Variables:

- `proc`: running, exited (`exit(EXIT_FAILURE)`) or aborted (assert, double free);
- `vc4`: the globals of `vc4.cpp`, namely mailbox opened, `numQPUUsers` and the QPU power;
- per Kernel object: `kState`, `kMem` (the `qpuCodeMem` pointer) and `kNumQPUs`;
- per SharedArray object `arr`: whether it exists, its handle, whether `arm_base` is mapped, `size` in words, and the pages still mapped;
- `qpuIds`: the ids the last invocation gave its QPUs.

Actions, one per whole call:

- `Compile(k, r, o)` is `compile(f)`: the constructor (`enableQPUs` on vc4, `new SharedArray`, `alloc(numWords)`) and the return. With `Elide`, the local is the caller's kernel. Without it, the implicit copy constructor copies the pointer into `r` and the local's destructor runs.
- `CompileEnableFails` and `CompileAllocFails` are the two `exit(EXIT_FAILURE)` paths of the constructor.
- `SetNumQPUs` stores any count.
- `Invoke` is `call()`: `qpu()` on vc4, `v3d()` otherwise. On v3d the QPU ids come from `add_init` (`QpuIdInit`, with QPU q reading thread index 4q). On vc4 the invoke writes q into QPU q's id uniform.
- `Destroy` is `~Kernel`: `delete qpuCodeMem` (a double free aborts), then `disableQPUs` (its assert aborts at 0).

Data: sizes are the real ones: 8 code words, `MAX_KERNEL_PARAMS` = 128 and 4 KiB pages, so the code memory is 8 + 12 * 128 + 24 = 1568 words and spans 2 pages. Objects are model values: 3 kernels and 3 arrays.

### Rot3D in detail

Variables:

- `host`: "start", "running" (blocked in the invocation) or "done";
- `settings`: the kernel index, `num_qpus` and `compile_only`;
- `x`, `y`: the arrays by vector index, followed by the memory after them;
- per QPU: `pc` (its statement of `rot3D_3`), `ptr` (the vector `p` and `q` point to), `it` (the loop counter), `xOld`, `yOld`;
- per QPU: `fifo`, its TMU requests, each with the value once the TMU has served it.

Actions:

- `RunKernel` is `run_kernel`'s switch, with `RunQpuKernel` and
  `RunScalarKernel` as its two branches.
  - `RunQpuKernel` initialises the arrays and then does what
    `settings.process` does: it starts `numQPUs` QPUs, unless
    `compile_only` is set.
  - `RunScalarKernel` applies `rot3D` only when `compile_only` is set, as
    the code does.
- `Finish` is the return of the blocking invocation once every QPU has
  ended.
- The kernel has one action per statement group: `Start` (pointer set-up
  and the first two gathers), `Test` (the `For` test), `Prefetch`,
  `Receive`, `StoreX`, `StoreY` (with `p = p+inc`) and `Drain` (the final
  two receives).
- `Fetch(q)` is QPU q's TMU serving its oldest request: it reads memory
  when it serves, not when the request is made.

Data: the 16 lanes of a QPU always act on the 16 elements of one vector,
so memory is indexed by vector. A float is abstracted to its provenance:
the element it came from and how often it was rotated. A rotation of two
halves that do not belong together is `Mixed`. Only vc4 is modelled,
where `me()` is the id the invocation gives each QPU. On v3d, `add_init`
also adds a per-QPU offset to every pointer uniform (modelled in
`V3dInit` and checked through Tri), and `rot3D_3` adds its own offset on
top of that. Whether the lowering flags Rot3D's pointers as such depends
on code that is not under `src/`, so Rot3D is checked on vc4 only.

### V3dInit and Tri in detail

`V3dInit` builds what `add_init` inserts after `INIT_BEGIN`:

1. `rf(RSV_QPU_ID) = 0`;
2. `pushz` of `numQPUs - 8`, and a branch taken when Z is clear on every
   lane (`allzc`), that is when there are not 8 QPUs;
3. otherwise the QPU id `(thread_index >> 2) & 15`;
4. `ACC0 = 4 * (elem + 16 * id)`;
5. for each leading uniform load flagged as a pointer, `rf(index) += ACC0`
   (`add_uniform_pointer_offset`, the recursive `PointerOffsets`).

`GetInitBeginMarker` keeps both of the code's asserts. Before register
allocation variable v is `rf(v)`, and the lowering loads the i-th uniform
into variable i (spec 4.2, 5); `Lowered` in `Tri` is that prefix of
Tri's kernel, with p, the third uniform, the only pointer. The emulator
(`Run`) executes the prologue on 16 lanes: `UNIFORM` reads the next
uniform, `QPU_ID` the thread index, `ELEM_ID` the lane. A branch is
taken as soon as it is reached; the delay-slot NOPs are added later in
the pipeline.

`Tri` has the variables `host`, `settings`, `arr` (the shared array by
element) and per-QPU `pc`. `RunKernel` allocates and fills the array and
does what `process` does; `Finish` returns once the QPUs are done. A
QPU's whole run of `tri_int`/`tri_float` is one step, `Kernel(q)`: it
runs the prologue from the compiled code, loads `*p` per lane, runs the
masked loop (`LoopStep`, bounded by `LoopBound`, with an `Assert` that
the loop has exited), and stores the sums. Making the step atomic is
sound because a QPU's loads and stores touch only the elements its own
lanes' p select. If two QPUs' elements overlapped, some element would
never be written, and `TriResult` fails on that anyway.

A float is `[float |-> v]`; every value stays below 2^24, where
`toFloat` is exact (checked by an `Assert`). The model values of 8 QPUs
need some care for TLC: long recursions are split in halves (`Turns`), a
value is bound once with `\E v \in {e}`, and `IF y = y` forces a value
before a recursive call, so that TLC neither re-evaluates nor overflows
its stack.

### RegAlloc in detail

Variables:

- `phase`: where the compilation is;
- `source`: the lowered code;
- `instrs`: the code being rewritten;
- `cfg` and `live`;
- `prefA`/`prefB`: the preference counters;
- `liveWith`: interference;
- `alloc`, `prevFile` (`prevChosenRegFile`) and `next` (the loop index `i`).

Actions, in pipeline order:

- `Emit(ins)` and `Finish` stand for the lowering. They append any
  instruction of the alphabet, then `END` from `kernelFinish`. Every branch
  gets its label.
- `MakeCFG` is `buildCFG`.
- `LivenessStep` is one reverse pass. It stops once a pass changes nothing.
- `Prefs` is `regalloc_determine_regfileAB` (vc4 only).
- `LiveWith` is `liveWith.init` together with the reset of `alloc` to `NONE`
  and of `prevChosenRegFile` to `REG_B`.
- `AllocVc4`/`AllocV3d` each allocate one variable, as one iteration of the
  allocation loop.
- `AllocFail` is the `error(..., true)` branch.
- `Rewrite` is step 4, the renaming applied to every instruction.

Each action is one whole step of the code. The rewrite of all instructions is
a single action because the code does it in one loop and nothing can observe
the middle of it.

Data is abstracted:

- Values are taken modulo 4.
- `LI` of variable `d` loads `d+1`, so a clobbered register shows up in the
  printed output.
- The instruction alphabets cover the operand shapes the allocator
  distinguishes:
  - two variable operands, which drive the file preference;
  - a variable and a small immediate, which pushes the variable toward A;
  - a conditional move under `ZS`, which keeps its destination live;
  - `PRI`, the observable output;
  - conditional and unconditional branches to one label.
| `V3dEncode` | `KernelDrivers.cpp` (`v3d::encodeInstr` and helpers), `Instr::isUniformLoad` | One `Encode` step, like `Vc4Encode`. The result is a v3d instruction kept as its fields (`NopNop` filled in). Packing is in `v3d/instr`, which is not under `src/`. |
| `MC_V3dEncode` | — | ALUs over registers, specials, immediates and ops with and without a v3d op; other kinds; the set `UninitBytes`. |
| `DSLBuilder` | `Source/Float.cpp`, `Source/Syntax.cpp`, `Source/gather.cpp`; the block calls and statement stack from spec 4.1 | A host kernel function, one DSL call per step, described below. |
| `MC_DSLBuilder` | — | Two Float objects (a symmetry set), the literal 1, `+`, `<`, values mod 3, and three kernel shapes. |
| `MC_CompileStages` | — | Three compile stages in one model: the DSL builder, the vc4 encoder and the v3d encoder. `target` picks the stage. For the encoders this is the back end that `Platform.h` picks at build time. A behaviour is a kernel function being built, on the shapes of `MC_DSLBuilder`, or one encoding step of a back end, on the instruction sets of `MC_Vc4Encode` or `MC_V3dEncode`. Each property applies to its own stage. |

### DSLBuilder in detail

The state is the host program's view:
- `objVar`: the variable each Float's `m_expr` names;
- `nextVar`: the `freshVar()` counter;
- `stack`: the statement stack, one body per open block;
- `control`: the open blocks, each with its condition and, after `Else`,
  its then-branch;
- `status`: becomes `fatal` when `fatal()` or an `assertq` stops the
  program.

A constant `Programs` gives the shapes of the kernel functions, as
sequences of call kinds. Each step is one call of the next kind, with its
operands chosen freely:
- `FloatDefault`, `FloatFromTerm` and `FloatCopy` are the constructors;
- `AssignTerm` is `operator=`;
- `AddAssign` is `+=`;
- `Store` and `Receive` are from gather.cpp;
- `If`, `Where`, `Else` and `End` are the block calls.

Statements are records built by translations of `Stmt::create` (with its
asserts), `mkSeq`, `mkWhere`, `mkIf`, `mkNot`, `mkAnd`, `mkOr`, `mkAll` and
`mkAny`. An unknown tag or a null operand yields `Fatal`.

Beside this, the model keeps a reference: what the same host code would
compute if `Float` were `float`. That is each object's value (`val`), the
uniforms read and the values stored. A call changes the reference only
while every open block is in the branch its condition selects (`Active`).
`Interpret` is a one-lane source interpreter. Variables start at 0, the
i-th read of `UNIFORM` gives a fixed value, and IF and WHERE on one lane
both pick a branch by the condition.

### V3dEncode in detail

`v3d::encodeInstr` is unfinished: every kind but ALU asserts. For an ALU,
`EncodeInstr` follows the code's order:
- `SetDestReg`, unless the instruction is a uniform load;
- `TranslateOpcode`, which turns a shift by an immediate into `shl`;
- a rotate, which asserts;
- the uniform load, which becomes `ldunifrf(to_waddr(dest))`;
- the general case, `EncodeOperands`.

The general case reads locals that no path assigns: `raddrb`, `muxa` and
`muxb`, plus `raddra` when both operands are registers. Reading an
uninitialized value is undefined behaviour. The model takes each of them
from the constant set `Uninit`, so TLC tries every outcome in it.
`UninitBytes` = {0, 39} is enough, because no property depends on which
byte it is.

### Vc4Encode in detail

A vc4 instruction is two 32-bit words. TLC's integers are signed 32-bit, so
a word is a pair <<bits 24..31, bits 0..23>>. `Shl` shifts a field into place
and truncates to 32 bits, `U32` is the `(uint32_t)` cast of a signed value,
and `WOr` ors two words part by part. `EncodeALU` follows the code's order:
- the high word: signal, condition, write-swap (`WriteSwap`: the add ALU
  writes file A unless ws is set, the mul ALU file B), set-flags and write
  addresses;
- a rotate, checked by the asserts on r0 and r5, with `raddr_b = 48 + n`;
- otherwise `EncodeOperands`:
  - the same register twice on one port;
  - two registers, swapped when srcA cannot go to port A;
  - an immediate second operand;
  - an immediate first operand.

`EncodeSrcReg` returns `Fail` where the code's asserts fail, which includes
a read of a register on the wrong port and a read of ACC5. The expansion of
IRQ and the DMA waits into the instructions they stand for is `Expand`.

## Properties

Each property is stated in a comment above its definition in `RegAlloc.tla`.

- `TypeOK`: the type invariant. Every allocated register is in its file's
  range.
- `LivenessIsLeastFixpoint`: the sets at which `Liveness::compute` stops,
  over the CFG that `buildCFG` built, equal the reference liveness. The
  reference says v is live into i iff some path the emulator can take from
  i reaches a use of v without leaving a definition of v. The reference does
  not use `buildCFG`, so it catches a missing fall-through or branch edge, a
  wrong kill, or a stop before the fixpoint, around loops too.
- `NoLiveValueClobbered`: after allocation, no instruction writes the
  register of a variable that is live after it. This is the property graph
  colouring exists for.
- `SemanticsPreserved`: the allocated code prints exactly what the lowered
  code prints, under the same step bound. This is the interpreter/emulator
  differential law of spec 8, restricted to the allocator.
- `LivenessPassesBounded` (in `MC_RegAllocTargets`): `Liveness::compute`
  makes at most `Len(instrs) * numVars + 1` passes. Every pass but the
  last adds a variable to some live set, so that is the height of the
  lattice. A wrong "changed" test loops for ever and exceeds the bound.
  It is a safety property, so it is checked on both targets.
- `ErrorNamesFailingInstruction`: the v3d failure message names an
  instruction that mentions the failing variable. It is checked as a
  violation; see Findings.

In `KernelLifecycle.tla`:

- `CodeMemValid`: every kernel the program can still call owns code memory that exists and is allocated and mapped, and no two live kernels share it.
- `QPUUsersCountKernels`: `numQPUUsers` equals the number of kernels holding the QPUs, across interleaved lifetimes.
- `QpuUseRefined`: the kernels use the QPUs as `QpuUse` specifies. The refinement mapping sends `holders` to the kernels alive or stopped mid-constructor, and `powered` to the QPU power.
- `DistinctQpuIds`: an invocation gives its QPUs distinct ids in [0, numQPUs) (spec 5).
- `MappingsReleased`: a deleted SharedArray has no pages left mapped. It is checked as a violation.

In `Vc4Encode.tla`:

- `RoundTrip`: an instruction the encoder accepts decodes back to what it
  means. A misplaced field, a wrong write-swap or port choice, or an
  immediate that spills into the next field changes the decoded instruction.
- `AcceptedIffEncodable`: the encoder rejects an instruction exactly when
  the hardware cannot express it. The reference asks whether its operands
  have an assignment to the two read ports and its destination has a write
  address. It does not use the code's swap rule. It is also violated by writes
  to read-only registers, which the compiler does not emit; see the
  observations below the findings.

In `V3dEncode.tla`:

- `DestPreserved`: an accepted instruction writes its destination and
  nothing else. The write is made by the ALU that runs its op, or by the
  uniform load. REG_B goes at offset 32 of the single register file
  (spec 4.5).
- `ImmediateEncoded`: a small immediate sets `small_imm` and lands in
  `raddr_b` (spec 4.5). It is checked as a violation.

In `Rot3D.tla`:

- `ResultIsRotation`: while the kernel runs, every element of x and y holds
  its initial value or that value rotated once, from the two halves of its
  own pair. When an invocation returns, every element has been rotated.
  This fails if the QPUs' strides overlap, if the prefetch pairs a receive
  with the wrong gather, or if a store goes to the wrong vector.
- `StoresInBounds`: no QPU stores past the end of x or y.
- `Terminates`: every run of the program ends. Every gather is received,
  and the invocation returns.

In `Tri.tla` (checked through `MC_Examples`):

- `TriResult`: while the QPUs run, element i holds i or the i-th
  triangular number; once the invocation returns, it holds the triangular
  number, for every i < 16 * num_qpus. It needs `add_init`'s offsets to
  give every lane of every QPU its own element, and the `Where` mask to
  stop lanes whose n reached 0. It fails with a wrong stride or shift in
  the init code, a pointer offset added to the wrong register, or an
  unmasked loop body.

In `DSLBuilder.tla` (checked through `MC_CompileStages`):

- `BuiltKernelMeansSource`: once every block is closed, interpreting the
  built statements gives each defined object's variable the object's
  reference value. It also reads the same uniforms and stores the same
  values in the same order. It fails if:
  - a copy aliases its source;
  - a fresh variable is reused;
  - an assignment goes to the wrong variable;
  - the branches of a block are swapped;
  - a statement lands in the wrong block.
- `EveryCallBuilds`: no DSL call stops the program. It is checked as a
  violation; see Findings.

## Runs

| run | cfg | bounds | shows |
|---|---|---|---|
| regalloc | `RegAllocTargets.cfg` | vc4: 3 variables, 1 register per file, ≤ 4 instructions + END, 15-shape alphabet, 8 emulator steps. v3d: 2 variables, 1 register, 1 label, ≤ 4 instructions, 12 emulator steps | About 595k states, 2.5 minutes. vc4: every straight-line kernel, with preference, alternation and failure cases. v3d: back edges and skipped blocks, where liveness needs two or more passes. |
| v3d_error_message | `RegAllocV3dErrorMessage.cfg` | 3 variables, 1 register, ≤ 3 straight-line instructions | Violation of `ErrorNamesFailingInstruction`. |
| kernel | `Kernel.cfg` | vc4 and v3d, 3 kernels, 3 arrays, counts {1, 8}, copy elided | About 7.1k states: every order of compile, failure, resize, invoke and destroy of up to three kernels, on either platform. The `add_init` QPU ids for 1 and 8 QPUs on v3d. |
| kernel_no_elision | `KernelNoElision.cfg` | vc4, otherwise as kernel, copy not elided | Violation of `CodeMemValid`. |
| kernel_unmap_size | `KernelUnmapSize.cfg` | vc4, otherwise as kernel | Violation of `MappingsReleased`. |
| kernel_qpu_ids | `KernelQpuIds.cfg` | v3d, counts 1..8 | Violation of `DistinctQpuIds`. |
| compile_stages | `CompileStages.cfg` | DSL: 2 objects, 3 shapes (3 straight-line calls of any kind; `Where`/`Else`/`End` with 7 calls; a `Where` nested in an `If` with an `Else`, 9 calls). vc4: about 5k instructions. v3d: about 4.5k instructions, 2 uninitialized bytes | About 64k states. DSL: every call on every defined operand, conditions `<` with their negation, conjunction and disjunction, both branches of every block taken. vc4: every ALU over 12 destinations × 10 source operands × 2 ops × 2 conditions, plus rotates, LIs with the extreme 32-bit immediates, branches and the other kinds. v3d: every path of `encodeInstr`, namely shl, uniform loads, the general case with mul and add ops, unsupported ops, specials and immediates. |
| dsl_receive | `DSLBuilderReceive.cfg` | as compile_stages, DSL only | Violation of `EveryCallBuilds`. |
| v3d_encode_immediate | `V3dEncodeImmediate.cfg` | the v3d instructions of compile_stages | Violation of `ImmediateEncoded`. |
| rot3d | `Examples.cfg` | Rot3D: N = 96 (6 vectors), 2 or 3 QPUs, kernels 0 and 3, with and without `--compile-only`. Tri: 1 or 8 QPUs, integer and float kernels, array at 4096 | About 78k states, 1 minute. Rot3D: 2 QPUs of 3 iterations and 3 QPUs of 2, with every interleaving of QPU steps and TMU answers; kernels 1 and 2 take kernel 0's path. Tri: every order of the QPUs' runs, on the only two counts `add_init` handles, so both the branch and the id computation run; 8 QPUs give 128 elements whose loops take up to 127 turns. |
| rot3d_uneven | `Rot3DUneven.cfg` | N = 64, 3 QPUs | Violation of `StoresInBounds`. |
| vc4_encode_rotate_range | `Vc4EncodeRotateRange.cfg` | rotate by 0, 1, 16 | Violation of `RoundTrip`. |

The bounds are chosen so that the interesting cases happen:

- With 3 variables and 2 registers in total, three mutually live variables
  make allocation fail.
- Two variables can share a register, and the emulator output then tells a
  wrong sharing apart, since the loaded values differ.
- Four instructions are enough for a loop whose back edge carries a live
  variable (`LAB; PRI v1; LI v0; BRL always`).
- Four instructions are also enough for a conditional move whose destination
  must survive an earlier definition.

The encoder inputs are chosen to reach each branch of `encodeInstr`:
- two registers of file A, so that a same-file pair occurs;
- specials that are fixed to a file (ELEM_NUM, QPU_NUM) and specials that
  can go in either file (UNIFORM, VPM_READ), so the swap is needed;
- NONE, and an immediate on either side.

With three kernels the lifecycle runs cover:

- two kernels whose lifetimes overlap, in both destruction orders;
- a third kernel created after the QPUs have gone off.

The DSL shapes give:
- a copy followed by an update of either side;
- two reads of the uniform stream;
- a receive;
- blocks with and without an else-branch, nested;
- a condition that is true and one that is false, so both branches of
  every block are built while the reference follows only one.

Values mod 3 are enough to tell a swapped branch or an aliased copy from
the right one.

`CHECK_DEADLOCK FALSE` is set because a compilation really stops, in `done`
or `failed`, a program stops once its kernels are destroyed or it has
exited, and a kernel function returns after its last call.

**Fairness.** `KernelLifecycle` checks safety and refinement only, so it
assumes no fairness. `Tri` assumes no fairness and checks safety only: its kernel step is
one long computation, and TLC's liveness check over it is out of reach.
`Rot3D` has weak fairness on each QPU's steps, on each
TMU's `Fetch`, and on the host's two actions. The QPUs and TMUs are hardware
that keeps running once started, and the host blocks in the invocation
until they end. `DSLBuilder` checks safety only and assumes no fairness.
`RegAlloc`'s `Spec` has weak fairness on `Next`. Compilation is a
sequential computation that never waits for anything, so once a step is
enabled it is taken. The regalloc run needs no fairness: it proves
termination of the liveness iteration as a bounded loop.

## Mutants

Each property of each passing run has a mutant in `PROJECT.json`: a faulty
variant of a mapped definition, defined just before it, that TLC shows
violates the property.

| mutant (of) | plausible bug | breaks |
|---|---|---|
| `AllocVc4NoCapacityCheck` (`AllocVc4`), `AllocV3dNoCapacityCheck` (`AllocV3d`) | the `error()` on exhaustion is missing, -1 becomes a register id | `TypeOK` |
| `LiveInKeepsDefs` (`LiveIn`) | a definition does not kill liveness | `LivenessIsLeastFixpoint` (vc4) |
| `BuildCFGCondNoFallThrough` (`BuildCFG`) | a conditional branch gets no fall-through edge | `LivenessIsLeastFixpoint` (v3d loops) |
| `LiveWithOneWay` (`LiveWith`) | interference recorded in one direction only | `NoLiveValueClobbered` |
| `isCondAssignLIOnly` (`isCondAssign`) | ALU conditions ignored | `SemanticsPreserved` (vc4) |
| `ApplyAllocInstrDefsOnly` (`ApplyAllocInstr`) | uses not renamed | `SemanticsPreserved` (v3d loops) |
| `LivenessStepNoFixpoint` (`LivenessStep`) | "changed" judged against the initial sets | `LivenessPassesBounded` |
| `AllocSizeBytes` (`Alloc`) | `size` recorded in bytes | `TypeOK` (kernel) |
| `CompileAllocFailsNoExit` (`CompileAllocFails`) | the `!handle` check dropped | `CodeMemValid` |
| `EnableQPUsCountFirstOnly` (`EnableQPUs`) | `numQPUUsers++` inside the `if` | `QPUUsersCountKernels` |
| `DisableQPUsAlwaysOff` (`DisableQPUs`) | the `== 0` test dropped | `QpuUseRefined` |
| `QpuIdInitNoShift` (`QpuIdInit`) | the `>> 2` dropped | `DistinctQpuIds` |
| `U32NoWrap` (`U32`) | a negative value is not wrapped to 32 bits | `TypeOK` (compile_stages, vc4) |
| `WriteSwapAddRule` (`WriteSwap`) | the add ALU's ws rule used for mul | `RoundTrip` |
| `RegFileOfNoSpecials` (`RegFileOf`) | specials fixed to a file treated as free | `AcceptedIffEncodable` |
| `EncodeAddOpUnchecked` (`EncodeAddOp`, v3d) | the assert on an unknown op is missing | `TypeOK` (compile_stages, v3d) |
| `ToWaddrNoOffset` (`ToWaddr`) | REG_B not offset by 32 | `DestPreserved` |
| `FloatCopyShared` (`FloatCopy`) | the copy constructor shares the source's variable | `BuiltKernelMeansSource` |
| `NewVarNoIncrement` (`NewVar`) | `freshVar()` does not advance its counter | `TypeOK` (compile_stages, DSL) |
| `MkWhereSwapped` (`MkWhere`) | `mkWhere` passes its branches to `create` the wrong way round | `BuiltKernelMeansSource` |
| `ReceiveBothUnserved` (`ReceiveBoth`) | receive does not wait for the TMU | `TypeOK` (rot3d) |
| `PrefetchCurrent` (`Prefetch`) | the loop gathers `p`, not `p+inc` | `ResultIsRotation` |
| `TestInclusive` (`Test`) | the loop runs while `i <= n` | `StoresInBounds` |
| `FinishAllQpus` (`Finish`) | the host waits for every QPU, not `numQPUs` | `Terminates` |
| `InitCodeStride8` (`InitCode`, V3dInit) | the offset computed as 8 * (elem + 8 * id), the shifts of another element size | `TriResult` |

## Findings

- **v3d allocation error message** (`SourceTranslate.cpp:157`, run
  `v3d_error_message`). When variable i cannot be allocated, the message
  prints `(*instrs)[i].mnemonic()`, so it indexes the instruction list with
  a variable id. TLC's trace: the code `v0 := v1 under ZS; END` with one
  register. Variable 1 fails, and the message names instruction 1, which is
  `END`. When the variable id is at least the code length, the read is out
  of bounds. Spec 4.4 and 7 say the error names the failing instruction.

- **compile() relies on copy elision** (`Kernel.h:415`, run
  `kernel_no_elision`). `Kernel` owns `qpuCodeMem` and a QPU user count, but
  it has only the implicit copy constructor. If the return copy is not
  elided, the local's destructor deletes the code memory and powers the QPUs
  off. The caller's kernel keeps a dangling pointer, and its destructor
  deletes the array a second time.
- **unmap length** (`SharedArray.h:78`, run `kernel_unmap_size`). `alloc`
  maps `n*4` bytes, and `dealloc` unmaps `size`, a count of words. For a
  1568-word code memory, 2 pages are mapped and 1 is unmapped.
- **QPU counts** (`Kernel.h:345`, `SourceTranslate.cpp:217`, run
  `kernel_qpu_ids`). `setNumQPUs` accepts any count. With 2 QPUs on v3d,
  `add_init` leaves both with id 0. Spec 5 and 7 require distinct ids and
  the rejection of other counts.
- **rotate amount** (`Encode.cpp:368`, run `vc4_encode_rotate_range`). The
  assert reads `n >= 1 || n <= 15`, which always holds. `rotate(x, 0)`
  encodes `raddr_b` 48, the rotate-by-r5 form. `rotate(x, 16)` gives 64,
  which spills into `raddr_a`. Spec 4.5 requires 1..15.
- **v3d small immediates are lost** (`KernelDrivers.cpp:632`, run
  `v3d_encode_immediate`).
  - The code stores the immediate in `raddr_b`, then overwrites `raddr_b`
    with the local `raddrb`, which no path assigns.
  - The operand muxes are also unassigned.
  - The muxes are stored on the add ALU even for a mul op.
- **Rot3D stores past the end of its arrays** (`Rot3D.cpp:159`, run
  `rot3d_uneven`). QPU `me` starts at vector `me` and strides by
  `numQPUs` vectors while `i < n`. When N is not a multiple of
  `16 * numQPUs`, every QPU runs `ceil(N / (16 * numQPUs))` iterations. The
  QPUs with larger ids then store whole vectors past the end of x and y.
  The trace uses N = 64 and 3 QPUs: QPU 2 stores vector 5 of a 4-vector
  array. With the program's N = 192000, the same happens for `-n=7`, 9 and
  11. The help text of `-n=` allows 1 to 12 and says the range is not
  enforced.

- **receive() is always fatal** (`gather.cpp:15`, run `dsl_receive`).
  `receiveExpr` builds `Stmt::create(LOAD_RECEIVE, e, nullptr)`. The
  switch of that `create` (`Syntax.cpp:159-187`) has no `LOAD_RECEIVE`
  case and ends in `fatal()`. TLC's trace is `Float a; receive(a)`. Spec
  3 and 4.2 list LOAD_RECEIVE and give its translation. `rot3D_3`, the
  kernel Rot3D compiles, calls `receive` (`Rot3D.cpp:161`). So in this
  tree the Rot3D program stops while building its kernel. `Rot3D.tla`
  models the kernel as the spec describes it, with `receive` working.

Three more slips in Rot3D are modelled as the code has them but
are not checked by a property:

- `run_qpu_kernel` ignores its argument and always compiles `rot3D_3`, so
  `-k=2` and `-k=1` also run `rot3D_3`.
- `run_scalar_kernel` runs `rot3D` only when `compile_only` is set. A
  plain `-k=cpu` run prints the unrotated arrays.
- On its last iteration, every QPU's prefetch gathers one vector of x and
  one of y past the end of the arrays. The final receives discard them.

Two more disagreements showed up while modelling. They concern inputs that
the compiler does not produce, so no run keeps them:

- **read-only destinations** (`Encode.cpp:178`). A SPECIAL destination
  with no write address breaks out of the inner switch into `case NONE`.
  So it is encoded as a write to nowhere, where the code's `missing case`
  exit was meant for it. `AcceptedIffEncodable` fails on an LI to
  UNIFORM.
- **v3d register operands are not examined** (`KernelDrivers.cpp:565`).
  - An ALU with two register operands is accepted, with unassigned read
    addresses.
  - A special next to an immediate gets its vc4 address from
    `encodeSrcReg_old`.
  - So an instruction that reads VPM, which exists only on vc4, is
    accepted.

One more, in the DSL, which the model's inputs do not reach:

- `Float::operator=(Float &rhs)` returns `rhs`, not `*this`
  (`Float.cpp:76`). So `(a = b) += c` updates `b`.

## What is not modelled yet, and the plan

The work is ordered by the hazards in `PROJECT.json`:

1. **v3d init code after allocation.** `add_init` runs before register
   allocation, where the index-th uniform is in `rf(index)`. `V3dInit`
   checks it there. Whether the allocator keeps that mapping is not
   checked; it would need Tri's kernel through `RegAlloc`.
2. **Branch fix-up** (`Instr::label_to_target`). The code stores
   `offset - 4` for the branch delay. Its caller, which computes `offset`,
   is not under `src/`, so a check needs an emulator with the branch delay
   of spec 4.6.
3. The `KernelDriver` classes of `KernelDrivers.cpp`. They are not
   constructed in this tree. Their `v3d::encodeInstr` is modelled.
4. **DSL builder.** Loops (`While`, `For`), `Int` (`Int.h`, the same
   pattern as `Float`), pointers and `Deref`, `vpmGetFloat`, the SFU
   functions and `print` are not modelled. Loops need a bound on the
   interpreter's steps, as `TargetIR`'s emulator has.

Left out on purpose:

- Printing, pretty-printing and mnemonics, except the one index a finding
  is about.
- The mailbox and memory-mapping system calls: pure I/O.
- The `Hello` example and the tests. `Hello.cpp` uses `QPULib.h` and
  `QPULib::Settings`, while the example `Settings` is `V3DLib::Settings`,
  so it does not build in this tree. Its kernel, `*p = 1` on 8 QPUs,
  would only exercise the `add_init` offsets Tri already checks. The tests drive the interpreter and emulator, which are not
  under `src/`. Tri's DSL calls (`While`, `Where`, `*p`) are modelled at
  the level of their meaning, since their lowering is not under `src/`. Rot3D's rot3D_1 and rot3D_2 are never compiled by the
  program.
- Rot3D's timing, result printing and vc4 performance counters: output only.
- `Target/Satisfy`, the emulator and the interpreter: not under `src/`.
