# hotc-il2cpp in TLA+

hotc-il2cpp is a C++ library that runs IL methods inside an IL2CPP game so that
code can be replaced at run time. It has four interpreters, two memory managers,
a metadata loader with generic sharing, an exception table, a JIT emitter and a
mock of the Unity scene. This directory holds a specification of the parts whose
behaviour is hard to see from a test: TLA+ modules translated from the code,
TLC configurations that check them on small instances, and TLAPS proofs.

Source paths below are relative to the repository; `core/` is `src/src/core/`.

## 1. Inventory

### What the build contains

`src/src/CMakeLists.txt` builds `complete_interpreter`, `il_parser`,
`type_system`, `memory`, `il2cpp_metadata`, `exception_handling`,
`generic_sharing`, `method_bridge` and `logger`; `src/tests/CMakeLists.txt` builds
`test_complete.cpp` only. `interpreter`, `threaded`, `hp_interpreter`,
`jit_compiler` and `unity_bridge` are in the tree, not in the build.
`hp_memory.h` and `runtime.h` are headers of `hp_interpreter`. At this commit
`complete_interpreter.cpp` names types and opcodes its headers do not declare
(`GenericKey`, `OpCode::STarg`, `OpCode::Ldnull`) and `generic_sharing.h:42` has a
syntax error; the modules model what the statements say, with those names taken
to mean what their spelling says.

### Components

| Component | State | Operations | What is hard | What makes it correct |
|---|---|---|---|---|
| **LockFreePool** (`core/hp_memory.h:69-118`) | `head_`, the links of `free_list_` | `Allocate`, `Free`, from any thread | compare-exchange on an address that may come back (ABA); reading the link of a node that is somebody's by now; the size of a block | no block handed out twice or lost; `Allocate` ends |
| **WorkStealingDeque** (`core/runtime.h:54-106`) | `top_`, `bottom_`, `buffer_` | `Push`, `Pop` (owner), `Steal` (thieves) | the last item; unsigned indices at 0; a slot reused while a thief reads it | each item taken once, oldest first |
| **CompleteInterpreter** (`core/complete_interpreter.cpp`) | `pc_`, `current_method_`, `running_`, `frames_[64]`, five typed stacks, `locals_`, method table | `Execute`, `ExecuteLoop`, `CallMethod`, frames, the compiler to register code | one set of stacks and locals for caller and callee; `running_` shared by nested loops; a full `frames_` | returns resume the caller; no underflow for well-typed code; `Execute` ends |
| **MemoryManager** (`core/memory.cpp`) | `blocks_`, counters, threshold | `AllocateObject`, `AllocateArray`, `Free`, `CollectGarbage` | merging while blocks are held; whole blocks reused for smaller requests; `malloc` refusing | held ranges disjoint and backed; counters agree |
| ArenaAllocator, HighPerformanceMemoryManager (`core/hp_memory.h:16-66, 121-184`) | blocks, cursor, two pools | allocate, reset, free by address | oversize requests; `base + 4` returned and freed | ranges disjoint; what is freed goes where it came from |
| Interpreter, ThreadedInterpreter, HighPerformanceInterpreter (`core/interpreter.cpp`, `threaded.cpp`, `hp_interpreter.cpp`) | `pc_`, three stacks, locals, return values | `Execute`, a handler per opcode | three tellings of one instruction set: a switch, a table indexed by the low byte, a table of slots | a method means the same in each; a second `Execute` starts clean |
| InlineCache (`core/runtime.h:15-52`) | four entries, counters | `Check`, `RecordHit`, `RecordMiss`, `Reset` | 0 marks a free entry; a full cache never learns | a hit is a type that was recorded |
| IL2CPPMetadataLoader (`core/il2cpp_metadata.cpp`) | raw data, tables, name and generic caches | load, lookup, instantiate | a rejected or repeated load; caches that outlive their tables | an index found in a cache names the right row |
| GenericSharingManager (`core/generic_sharing.cpp`) | four parallel tables, maps from keys | register, share, look up | tables that must grow together; a 64-bit key over several arguments | an index means the same row in all tables |
| TypeSystem (`core/type_system.cpp`) | types by name, members by the name of their type | register, look up along the base chain | replacing a type others point to | lookups end and see live types |
| ExceptionHandler (`core/exception_handling.cpp`) | stack of try regions, the current exception | push, pop, throw, find | one stack for all methods, and frames that do not say whose they are | the handler found is the innermost that covers the pc |
| JITCompiler, InlineCacheManager (`core/jit_compiler.cpp`) | one emitter buffer, compiled code by method; the entries of a call site | compile, invalidate; look up, update | a buffer that is reused and grows in the middle of an instruction; entries replaced while full | the bytes depend on the body alone and read as the comments say; a hit is the last target of that type |
| UnityBridge (`src/src/bridge/unity_bridge.cpp`) | three maps of a mock scene, the next id | create, destroy, components, transforms, raycast | `go` is read after it was moved from (line 252); look-ups that insert null entries | objects and components name each other |
| ILParser (`core/il_parser.cpp`) | the offset | `Parse`, `DecodeInstruction` | operands that look like opcodes, prefixes, files cut short | instructions are found where they were written |
| MethodBridgeManager, ILReader, Logger | little or none across calls | register, read, print | none across calls | - |
| `core/bridge.h`, `core/metadata.h` | declared, never defined | - | - | - |

### Who uses whom

`CompleteInterpreter` takes instructions from the caller (the tests build vectors
of `Instruction`) or from `ILParser`, and types from `TypeSystem`. The older
interpreters take objects and arrays from `MemoryManager`,
`HighPerformanceInterpreter` from `HighPerformanceMemoryManager`, which sits on two
`LockFreePool`s and an arena. `WorkStealingDeque` and the per-thread
`ThreadContext` come with `HighPerformanceInterpreter`; nothing starts a second
thread yet, so the threads of the models are those the two classes are written
for. No interpreter calls `ExceptionHandler` or `JITCompiler`.

## 2. Plan

Ordered by what carries the system and by how far it is from a test's reach.

1. `LockFreePool` with `BlockPool`: the concurrent allocator. *Done, proved.*
2. `WorkStealingDeque` with `WorkQueue`: the concurrent queue. *Done, proved.*
3. `CompleteInterpreter`: calls over shared stacks. *Done, proved.*
4. `MemoryManager` with `Heap`. *Done, proved.*
5. The interpreters with values: `StackMachine`, one module per interpreter, and
   `Interpreters`, which runs the three and a fresh one in lockstep over a sequence
   of `Execute` calls. *Done, proved*, agreement included.
6. `MetadataLoader` and `GenericSharing` with `InstanceTable`: caches against
   tables, reloads. *Done, proved.*
7. `HPMemory`: `ArenaAllocator` and `HighPerformanceMemoryManager` over the pools.
   *Done, proved.*
8. `TypeSystem`, `InlineCaches`, `ExceptionHandler`, `ILParser`, `UnityBridge`,
   composed in `Services` with 6 and 7. *Done, proved*, the composition included.
9. `JITCompiler`, in `Services` too. *Done, proved*; what its comments promise is
   refuted.

## 3. Modules

| Module | Models | Correspondence |
|---|---|---|
| `LockFreePool` | `core/hp_memory.h:69-118` | `head` is `head_`, `next[n]` the link of node `n`; `pc, old, nxt, arg` are a thread's place and locals in `Allocate` and `Free`; one action per load, store, compare-exchange, with spurious failure (`AllocRetry`, `FreeRetry`); `Write` is a caller storing in its block; `handouts` records who holds what |
| `BlockPool` | the promise | a block is taken only when free, and comes back only from its holder |
| `WorkStealingDeque` | `core/runtime.h:54-106` | indices modulo `SizeMod`; one action per atomic access of `Push`, `Pop`, `Steal` |
| `WorkQueue` | the promise | a bounded FIFO queue |
| `CompleteInterpreter` | `core/complete_interpreter.cpp:20-146, 150-748` | stacks are depths; `loops` is the recursion of `ExecuteLoop` on the C++ stack; `frames` is `frames_` up to `frame_depth_` |
| `MemoryManager` | `core/memory.cpp` | `blocks` is `blocks_` entry by entry; `held` records what callers hold |
| `Heap` | the promise | a range handed out overlaps no held range |
| `StackMachine` | what `core/interpreter.*`, `threaded.*` and `hp_interpreter.*` share | the record of `pc_`, `running_`, the stacks by type, `locals_`, the result; opcode numbers of `core/il_parser.h`; a `fault` where the process stops or C++ leaves the outcome open |
| `Interpreter` | `core/interpreter.cpp` | `ExecuteInstruction` is the switch |
| `ThreadedInterpreter` | `core/threaded.cpp` | `DispatchTable` is `dispatch_table_`, indexed by the low byte; `Exec` the handlers |
| `HighPerformanceInterpreter` | `core/hp_interpreter.cpp`, the stacks of `core/runtime.h` | `HandlerTable` is its `dispatch_table_`; `Needs` and `Capacity` are the bounds nobody checks |
| `Interpreters` | all three, side by side | `ExecuteAll` starts the next method in each, `StepAll` is one round of every loop that runs |
| `GenericSharing` | `core/generic_sharing.*` | the four tables and three maps under their own names; `registered` records what was registered |
| `InstanceTable` | the promise of its two caches | rows only grow, and no key has two |
| `MetadataLoader` | `core/il2cpp_metadata.*` | the tables, rows and caches under their own names; a metadata file is a record of its tables; `given` records the instances handed out since the last load |
| `GenericHash` | `core/il2cpp_metadata.cpp:197-201` | the key of an instance; a module of its own because the proofs hold for every hash |
| `HPMemory` | `core/hp_memory.h:16-66, 81-109, 121-184` | an address is an area and an offset in words; `freeNodes` is the list of a pool from `head_`, `arena` the blocks; `torn` marks a list over which a caller wrote; `owned` has, for every call that was served and not undone, the range it gave; `clean` records that every call so far was one the code can serve |
| `TypeSystem` | `core/type_system.*` | `types`, `methods`, `fields` are the maps; a `TypeInfo` is an address in `infos`, `live` while it is not destroyed; addresses are given out again |
| `UnityBridge` | `src/src/bridge/unity_bridge.*` | the three maps and `next_id_` under their own names; a null `unique_ptr` is `NullEntry` |
| `ILParser` | `core/il_parser.cpp:7-17, 34-143` | one `DecodeInstruction` per step over `data`; `method` is what a compiler wrote, `Whole` its bytes as ECMA-335 encodes them, instruction by instruction |
| `ExceptionHandler` | `core/exception_handling.*` | `frame_stack_` newest first, with the activation that pushed each frame; `Enter` and `Leave` are the interpreter's |
| `InlineCaches` | `core/jit_compiler.cpp:338-361`, `core/runtime.h:15-52` | `entries` and `count` are what a call site passes; `checked` the entries of a type check |
| `JITCompiler` | `core/jit_compiler.cpp:13-38, 154-281` | `code_`, `offset_` are the emitter's buffer, byte by byte; one operator per emitter function `Compile` calls; `AsCommented` is the list of instructions its comments name, and `ReadsAs` a processor that meets them |
| `Services` | `UnityBridge`, `InlineCaches`, `ExceptionHandler`, `HPMemory`, `TypeSystem`, `ILParser`, `JITCompiler`, `MetadataLoader` and `GenericSharing` together | `subject` names the part that a behaviour uses; the others stay as they start |
| `LockFreePoolProofs`, `WorkStealingDequeProofs`, `CompleteInterpreterProofs`, `MemoryManagerProofs`, `InterpretersProofs`, `MetadataLoaderProofs`, `GenericSharingProofs` | | theorems about the module named, and their lemmas |
| `ServicesProofs` | | theorems about the other parts of `Services` and about the composition |
| `MC*` | | small instances |

## 4. Runs

| Run | Question | Bounds and why they are enough |
|---|---|---|
| `pool` | one allocating thread, three that free: is a block lost or handed out twice, does the list implement the abstract pool, does `Allocate` end | 3 nodes: the list passes through empty, one, several; a stalled `Allocate` can meet any change of the two nodes it looks at |
| `pool_two_allocators` | the same with two allocating threads | fails: ABA |
| `pool_32_byte_blocks` | one thread that uses all words of its block | fails: blocks are one pointer long |
| `deque_push_steal` | an owner that pushes, two thieves | 2 slots, 4 items: every slot is used twice, both thieves contend |
| `deque_pop` | the owner pops too | fails at the first `Pop` of an empty deque |
| `interpreter` | calls over shared stacks, locals, frames | every pair of a three-instruction `main` and a two-instruction callee over small alphabets; recursion, loops, operands held across calls, floats, a field; `frames_` of length 2 so that a chain of 3 overflows it |
| `interpreter_tests` | two methods of the repository's tests | fails: they pop an empty stack |
| `memory` | allocation, freeing, merging in any order, `malloc` refusing | chunks of 4 words, 4 entries of `blocks_`, addresses chosen so that some chunks touch and some do not; `SizeMod` is above every size, as a 64-bit `size_t` is |
| `interpreters` | do the three read a method alike, does one `Execute` see the one before | words of 3 bits (signs, wrap-around and division by zero occur); every method that pushes a value, executes one instruction and returns, with all opcodes; two-operand instructions between constants; a countdown loop, and loops that fill a stack. Two methods in a row, with and without an argument, so each method meets every state another leaves. Stacks of `Capacity` 3, `MaxDepth` 4: both ends are reached |
| `aot_keys` | are the methods that `IsAOTGeneric` recognises those that were registered | fails: two type arguments shift the token out of the key |
| `services` | nine parts that share nothing, each through every sequence of its calls: a behaviour uses one | memory: two nodes of two words per pool, blocks of 16 words, `size_t` of 6 bits, five calls, so that pools run dry, the arena changes block and is reset, sizes wrap, `malloc` refuses and a list is torn and used. Types: one built-in and two others, four addresses, so that a destroyed one is given out again. Scene: six ids, which make three objects, or fewer with components, stray ids that hit an object's and nobody's. Parser: every method of up to three of twelve instructions, whole and cut short, with two kinds of memory behind it. Handler: every nesting of three regions over four program counters in two activations. Caches: five types for four entries. JIT: a buffer of 8 bytes that doubles three times, three compilations of three bodies for two methods. Loader: two loads out of five files (one that has grown in front, one with two types of a name, a short one, one that is refused) and three cached instances, in every order: caches meet tables that moved, shrank and grew back; index 0 with argument 63 and index 1 with argument 0 collide, in words of 16 bits as in 64. Sharing: four operations over two tokens and three argument lists, words of 2 bits. 1.9 million states, some two minutes |
| `jit_comments` | are the instructions a processor reads in a compiled method those that the comments of `Compile` name | fails at the first method compiled |

`HPAgrees` and `ThreadedAgrees` name, opcode by opcode, where the interpreters do
*not* agree: the sets in `AlikeThreaded` and `AlikeHP` are as large as TLC allows.
The threaded one ignores short forms, locals, `Ldc_R8` and comparing branches,
reads `Break`, `LDarg_0` and `LDarg_2` as comparisons, and duplicates objects only;
the high-performance one has neither locals nor an unsigned stack, gives
unsigned branches signed handlers, pushes the operand where the switch pushes
the constant of a short form, and skips the instruction after a `Call`.
`src/tests/test_interpreter.cpp:95-106` stores a constant in a local and loads it
back; it passes because the constant never leaves the int stack.

What `services` found on the way is written into the models and named where a
property has to step around it: blocks of the pools are a pointer long and freed
pointers with a header come back misaligned (`clean`); a replaced type leaves
pointers behind (`stranded`); a caller's handler is found by the numbers of its
region; the parser's opcodes from 0x0F on are not those of ECMA-335, so `ldstr`,
`throw` or `ldc.i4.s` put it out of step (`InStep`); a full call site replaces its
first entry, not its oldest as `core/jit_compiler.cpp:348` says.

`jit_comments` compares what `Compile` emits with what it says of it: "push rbp, mov
rbp, rsp" (`core/jit_compiler.cpp:170`), "pop rbx, add rax, rbx" (211), "mov rsp, rbp;
pop rbp; ret" (234). `MovRegImm64` lacks a `REX.W`, so a processor reads `mov ebp, 0`
and two stores to `[rax]`; the addition is 32-bit; and `mov esp, [rbp]` is emitted
for `mov rsp, rbp`. Each of the three alone violates `CodeAsCommented`. `CodeIsOfBody`,
in `services`, leaves that aside: it says that the bytes are a function of the body,
whatever a reused and growing buffer held before.

The six failing runs are the six findings of `PROJECT.json`; each quotes the line
of the repository that says otherwise.

Each property of a passing run has a mutant: a definition changed as a plausible
slip would change the code (a plain store for a compare-exchange, an off-by-one,
a frame not dropped), under which TLC finds the property violated.

### Assumptions of the models

* Memory is sequentially consistent. The code uses acquire and release orders;
  reorderings below that are not explored. The links of `LockFreePool` are plain
  fields that `Allocate` reads while an owner may write them, which C++ leaves
  undefined; the model gives the read any value that was stored there, owners'
  data included.
* Thieves read `buffer_` slots without atomics in the same way.
* `malloc` returns memory that overlaps nothing it gave out before, or null.
* Callers free what they hold, once.
* In `StackMachine` what the host computes is a constant, `Arith`, about which
  nothing is assumed but its range; `Trap` is a division the host refuses (by
  zero, or `INT_MIN / -1`). Callers of `Execute` pass at most `max_locals`
  arguments. A word read from an array may differ between the interpreters; the
  memory manager never returns null to them.
* The tables of a metadata file lie inside it (the code checks no offset), and
  strings of its string table have different hashes. Nothing is assumed of the
  hashes of instances. Names stand for whole strings, so a type's namespace is
  part of its name.
* Where a load through null does not trap (WebAssembly), line 252 of
  `unity_bridge.cpp` reads some number, which `StrayIds` bounds; elsewhere the
  process ends there. Both are followed.
* Callers of `TypeSystem` pass a pointer `GetType` has just returned; a call site
  stores a target only after `GetCachedTarget` found none, and counts its entries
  in one of two ways; an interpreter enters try regions as IL nests them and
  leaves those of a method before the method. The repository has no caller for
  the last two, so these are the usages their interfaces are made for.
* `HPMemory` is used by one thread: what two threads do to a pool is the subject of
  `LockFreePool`.
* Values on the stacks of `CompleteInterpreter` are not kept, so conditional
  branches go either way and a null field access may happen or not: every
  behaviour of the code is among those explored. What is checked is control and
  depth. A local's slot may hold any object.

### Fairness

* `LockFreePool!FairSpec`: a thread inside `Allocate` keeps running (weak
  fairness), and a compare-exchange that can succeed again and again does not
  fail spuriously for ever (strong fairness). Threads that free get no fairness.
  `AllocateEnds` holds because the blocks they can push are finitely many: they
  were handed out before.
* `CompleteInterpreter!FairSpec`: `Execute`, once called, runs its loop; nobody is
  obliged to call it. `LoopFreeEnds` claims an end only for programs without
  backward jumps or recursion. The reason why it holds needs no fairness:
  `AlwaysMovesOn` says that each step of such a program leads to a later position,
  the sites in `frames_` and the next instruction compared from the outermost
  inwards, or ends an activation where it stands.

Deadlock is checked in every run but these: `interpreter` and `interpreters`, where
the machine stops in the states that model undefined behaviour, or, in the
second, when `MaxRuns` methods are through; `services`, `aot_keys` and
`jit_comments`, which stop at the bounds on calls, when the bytes are parsed, or when the process
has ended on a null pointer.

## 5. What is proved

For every value of the constants, by induction over steps. A conjunct that the
property does not have is there because the property alone is not inductive.

* **LockFreePoolProofs.** `IInv` is inductive provided `NoABA` (one thread
  allocates, or nobody frees) and `WriteSpan = 1`: `PoolInvariant`,
  `NoBlockTwice`, `HeadStaysInPool`, `PoolRefinement`. A list is awkward to induct
  on, so the invariant never speaks of paths: the links of the free blocks stay
  among the free blocks, no two meet, and none leads back to the head
  (`ListShape`); every block has one owner (`Ownership`); and a thread whose
  compare-exchange can still succeed has read a link that is still right
  (`Views`). The last conjunct of `Views` is where the usage comes in: with one
  allocator the node it looks at cannot leave the list. `ListHoldsFreeBlocks`
  draws the conclusion about paths: a free block that the walk from the head
  misses would have a predecessor it misses too, and so on without end.
* **WorkStealingDequeProofs.** `DequeInv` is inductive under `Push` and `Steal`, for
  every capacity and number of thieves below the wrap of `size_t`:
  `DequeInvariant`, `EachItemOnce`, `DequeRefinement`. Without `Pop` the indices
  count: `top` items taken, `bottom` pushed, slot `k % Capacity` holds item `k+1`
  while it waits. The proof needs that `k % Capacity` separates the indices of a
  window no longer than the capacity.
* **CompleteInterpreterProofs.** For every program, `TypesAreKept`,
  `FramesFollowCalls` and `ActivationsEnteredAtCalls`; for every well-typed one,
  `WellTypedRunsStayInBounds` and `DepthsFollowTypes`. The stacks are shared, so
  the depth at an instruction is the depth the activation was entered with plus
  its annotation; the induction needs the same of every activation below on the
  C++ stack (`Activations`), and that `locals_` only grows during an `Execute`.
  `WellTyped` is what a compiler for this interpreter would have to establish;
  the repository has no verifier. The theorems about frames stop at the first
  call that finds `frames_` full, where the code resumes the wrong caller.
  `LoopFreeMovesOn` does not: whatever frame a `Return` takes, its site was left
  behind a call. `LoopFreeDescends` turns that into termination. `Left(B)` lists,
  frame by frame, how many methods and instructions are behind the site, and last
  the number of activations; each step lessens it in the lexicographic order
  (`FurtherDescends`, `FewerDescends`), which is well founded because `frames_` has a
  length (`DescentEnds`). `B` is any bound on the size of the program; a method body
  is a vector, so there is one. What is left to TLC of `LoopFreeEnds` is that a
  running machine can make a step and, by fairness, does.
* **MemoryManagerProofs.** `MemoryTypes` and `FreesMerge` always; `RangesAreBacked`,
  `AccountsKept` and `HeapRefinement` under `NoWrap`: no size wraps around when its
  header is added. The count of an array is a `uint32_t`, so where `size_t` has 64
  bits element sizes below 2^31 satisfy it; nothing in the code enforces it, and
  with a wrapped size a caller holds more than its block. `Sound` says that blocks
  do not overlap and that an unused one has nothing allocated; `HeldInv` that each
  held range has a block in use that knows its size, and that what is in use is
  held or was refused. Merging is a recursion over `blocks_`: what it has read so
  far and what it has written so far keep the same sums and cover the same words
  (`MergedTo`, `MergeGrows`). The sums are `SumFunction` of the community modules;
  `SumWith`, `SumChanged` and `SameSum` are all the proofs know about it.
* **InterpretersProofs.** All five properties of the run, for every width of a
  word, every arithmetic and every method. `MachinesStay` and `UnsignedStaysZero`
  come from `Sane(U, m)`, once with all words and once with zero as the values of
  the unsigned stack: nothing but the length of an array ever puts another there,
  and zero and zero compute zero. `ThreadedFollows` is `alikeTh => th = sw`: an
  opcode the table answers alike has a slot nobody else registered
  (`SlotsOfItsOwn`). For `HPFollows` the machines agree on control, result and the
  stacks both have (`HPAlike`); that no handler pushes more than one value
  (`HandlersGrow`) is what makes the capacity checked before a step hold after it.
  `NothingLeftOver` compares the used interpreter with a new one by `Forgot`: the
  same stacks and control, and the same value in every local the method has set.
* **GenericSharingProofs.** `TablesAligned`, `EachInstanceFits`,
  `EveryInstanceListed`, `RegisteredAreFound`, `TablesKeepPromise`, for every token and
  argument list. Row
  `i` of `generic_methods_` names row `i` of `shared_methods_`, which names row `i`
  of `rgctx_table_`, and the cache sends the key of row `i` to `i` (`AllAligned`); with
  that each instance is found, and a step of the manager appends one new key to a
  table or changes none. `RegisteredAreFound` follows the shifts of the key: with
  one argument or none the token is still in it.
* **MetadataLoaderProofs.** `InstancesInvariant`, `RowsAreOwn`, `DefinitionsInvariant`
  and `EveryMethodFound`, for all files and every hash function. Each table is taken
  by itself (`TableOK`): whoever was given an index has its hash in the cache with
  that index; and while the table is sound the cached indices are distinct, lie
  above the definitions, and name copies of what they are instances of. A load
  that meets a cached instance, or an instance of an index without a row, ends that
  for good: `sound` records it, because from then on two instances may share a row.
  `DefinitionsInv` says that a name of the current file leads to a definition that
  has it, and that the first rows are those of the definitions, in order.
* **ServicesProofs.** One theorem for each other property of `services`, and one for
  each part's types; `PartsBehave`, that a behaviour of `Services` is one of each of
  its parts, and with it `ServicesTypes` and `ServicesKeepPromises`, the same of what
  the run checks.
  * `SceneStaysConsistent`: ids of objects, of the transforms next to them and of
    listed components are below `next_id_` and never shared, whatever null entries
    there are (`ObjectFits`).
  * `HitsStayLatest`: no two used entries of a call site have one type, and each has
    the last target stored for its type (`SiteInv`).
  * `HandlerIsInnermost`: of two frames of one activation the newer lies inside
    the older, and activations on the stack do not decrease (`Stacked`).
  * `HPBlocksStayDisjoint`: a node is on its pool's list once and held by nobody, or
    held once (`PoolInv`), and what is held of the arena's current block lies before
    its offset (`ArenaInv`). It assumes that two blocks and an alignment are below the wrap.
  * `LookupsFollowBases`: the base pointers of live types have depths (`Ranks`), so
    a climb ends, and within as many steps as there are addresses, by counting;
    on the way it passes the names that `Lineage` lists.
  * `ParserStaysInStep`: `data` is a beginning of `Whole`; as long as the parser has
    read every operand at its width, the position is where the next instruction
    starts (`PositionRight`). A place in a method is a length, so the lemmas speak
    of positions of `Whole`, never of concatenations.
  * `CodeStaysOfBody`: two emitters with the same bytes before their offsets
    (`Alike`) still have that after every emitter function, wherever one of them
    grows and whatever lies behind the offset (`EmitAlike`, `CallsAlike`); the loop of
    `Compile` carries it through a body (`CompiledAlike`). So what is compiled in the
    reused buffer is what is compiled in a fresh one that never grows. `JITInv` has
    to know of the old buffer only that it is not empty.

Induction over data needs no theorem with an operator as its parameter:
`HasLeast`, from the well-foundedness of the natural numbers, gives every set of
numbers a least element, and lemmas like `UpTo` and `SubsetsUpTo` turn that into induction over
numbers and finite sets, with the property as a *set*. A recursive function (the
walk along a list, a merge, a sum, a climb along bases, the bytes of a method,
the code compiled from it) is then handled by showing that a function with its
defining equation exists (`Iterated`, `Recursion`), so that the one the definition
chooses has it too.

The assumptions the proofs rest on are the `ASSUME`s of the modules; TLC evaluates
each in the runs. They say that constants are of their kind and, where it matters:
`Addresses` of `TypeSystem` and its names are finitely many; words computed from
zeros by the host are zero (`MachineAssumption`); methods given to the parser are
encoded as ECMA-335 says; `SizeMod` and `WordMod` are not zero.

Only model-checked: `AllocateEnds` and `LoopFreeEnds`, which are liveness properties
and rest on fairness. Every other property of a passing run is a theorem, under the
conditions given above.

## 6. Not modelled

`PROJECT.json` lists every component with its status and every hazard with the
properties that guard it. Not worth a model: file input (`ILReader`, `ParseFile`),
logging, `MethodBridgeManager` (maps nothing relates to each other), headers that
declare classes nobody defines, the creation of exception objects, the emitter
functions `Compile` never calls. `CompileToRegister`
(`core/complete_interpreter.cpp:752-891`) replaces opcodes one for one, and drops
to `Nop` those it has no case for (unsigned and float arithmetic, unsigned
branches, conversions); no code runs its result, so it has no meaning to compare
with. `IsInstanceOf` and `IsSubclass` (895-910) read a map nothing fills. Contents
of memory (field and array values, the length word `AllocateArray` never writes)
are left out throughout, and so are the assembly images of the metadata loader,
which nothing reads, its fields and assemblies.
