# A TLA+ development for wrenc

wrenc compiles Wren ahead of time to native code and links the result with a
runtime library.  This directory holds TLA+ models of that code, the TLC runs
that check them on small instances, and TLAPS proofs.  `PROJECT.json` maps each
definition to the lines it stands for.

## 1. The system

### Components

| Component | State it keeps | Operations | Talks to |
|---|---|---|---|
| Fibres (`rtsrc/ObjFibre`) | per fibre: state, parent, stack, saved stack pointer and unwind context, function, exception; the global `currentFibre` | `Fiber.new`, `call`, `try`, `transfer`, `transferError`, `yield`, `abort`, return and failure of the fibre's function | the collector walks suspended stacks; a failing fibre ends in the process entry |
| Process entry and errors (`standalone_main_stub`, `Errors`) | exit status | start of the main module, last-fibre handler, `wrenAbort` | fibres |
| Object allocator (`SlabObjectAllocator`, `LinkedList.h`) | size categories; per category its slabs, list of slabs with space, and inside each slab a list of free "shims" | allocate, sweep after marking, choose a category | called by every allocation and by the collector |
| Garbage collector (`GCTracingScanner`, `WrenRuntime::RunGC`) | white number, grey list; one GC word in each object | begin cycle, mark roots, mark the heap, sweep | fibres, modules, API roots, allocator |
| Classes and dispatch (`ObjClass`, `ObjManaged`, `CoreClasses`, `GenEntry`) | per class: a 256-entry function table or a map, the functions it defines, its parent | class setup, `FinaliseSetup`, virtual and super lookup | every method call |
| Runtime and modules (`WrenRuntime`, `RtModule`) | modules by globals table and by name, the scanner | import, initialise, look up | generated code, collector |
| Embedding API (`WrenAPI`) | slots, handles, the stack of foreign calls | `wrenCall`, `wrenMakeHandle`, slot access | collector roots |
| Closures (`ObjFn`, `UpvalueStorage`) | reference-counted blocks of variables | allocate, capture, release | generated code, collector |
| Core values (`ObjList`, `ObjMap`, `ObjRange`, `ObjString`, `ObjNum`, ...) | contents | the methods of the core classes | dispatch |
| Stack maps (`StackMapDescription`, `StackWalker`) | statepoints per function | parse, look up, walk | collector |
| Compiler front end (`src/wren_compiler.cpp`, scopes) | parser, scopes, upvalues | one pass over the source | IR |
| Passes (`src/passes`) | IR of a function | basic blocks, SSA, type inference, clean-up | front end, back ends |
| Back ends, driver, tinylink, IDE support | - | translation, process control, linking, completion | files |

### What is hard about it

* Control moves between stacks by hand-written switches.  The fibre operations
  can be applied to any fibre in any order, because fibres can be kept in
  variables; tests only exercise short scripts of them.  `m_parent` outlives the
  call that set it.
* Errors travel from stack to stack: caught on each one, stored, thrown again.
* A collection depends on what earlier collections left in the objects' GC words.
* The allocator keeps its book-keeping inside the memory it hands out, and relies
  on null pointers in elements that are off a list.
* A method table changes representation while classes are being set up, and
  inheritance works in two different ways.
* Compiler passes are fixed points over cyclic graphs.
* Host and Wren code nest on one stack while other stacks are suspended half-way;
  the collector's list of host frames has to follow.
* Module initialisers run on demand: they import one another, yield, and fail.
* Variables captured by closures live in counted blocks; the parser decides where
  they are released, in one pass, before it has seen who captures them.
* Iterators are plain values, and the body of a loop may change what it runs over.
* Stack maps are written by the compiler, read by the runtime and searched by the
  collector, each with its own idea of sizes and order.

There are no threads: everything runs on one thread of control, so there are no
interleavings other than those of fibres and of the loop bodies of a collection.
Nothing is persisted.

### What makes each part correct

* Fibres: control is always on the stack of the fibre that is marked as running;
  what is resumed is resumable; stacks live exactly as long as they are needed;
  a terminated fibre stays so; a waiting fibre is woken by a child; errors reach
  the caller; an abort lands somewhere.
* Allocator: memory is never handed out twice, slabs stay walkable, free space is
  found again, lists stay linked, sweeps end.
* Collector: frees everything unreachable and nothing else.
* Dispatch: finds the method the language's inheritance rule says.
* Host interface: the collector sees every foreign call in progress and no other;
  host calls that are suspended on one fibre survive whatever the others do.
* Modules: an initialiser runs once, and every start is accounted for.
* Closures: a name means the innermost declaration around it, a closure sees the
  environment it was made in, and storage lives exactly as long as its users.
* Core values: a loop visits each element once; a slice selects what the Wren
  interpreter selects; a map has no two equal keys.
* Stack maps: in every frame exactly the spilled values are found.

## 2. Modules

| Module | Models | Notes |
|---|---|---|
| `Fibres` | `ObjFibre.cpp`, `main` and the exit handler of a standalone program | one action per method of `Fiber`, per way a fibre's function ends, and per hop of the unwinder |
| `Coroutines` | abstract: one thread of control among coroutines | implemented by `Fibres` |
| `FibresProofs` | TLAPS proofs about `Fibres` | |
| `MCFibres` | symmetry for TLC | |
| `ForeignCalls` | `WrenAPI.cpp`: VMs, foreign calls, `wrenCall`, `wrenAbortFiber` | extends `Fibres` with the C++ frames of the host |
| `ForeignCallsProofs` | TLAPS proofs about `ForeignCalls` | extends `FibresProofs` |
| `IntrusiveList` | `LinkedList.h`, pointer by pointer | operators on records, used by the next module |
| `IntrusiveListProofs` | what its operations do to the sequence a list stands for | lemmas |
| `SlabAllocator` | `AllocateRaw`, `CreateSlab`, the sweep, for one size category | the sweep is one step per loop iteration |
| `ObjectHeap` | abstract: a set of addresses that are allocated and swept | implemented by `SlabAllocator` |
| `SlabProofs` | TLAPS proofs about `SlabAllocator` and `SizeCategories` | extends `IntrusiveListProofs` |
| `SizeCategories` | `GetOrCreateBestCategory` | sizes in bytes |
| `GarbageCollector` | `RunGC`, the scanner and the sweep, next to a program that changes the object graph and switches fibres | |
| `GCProofs` | TLAPS proofs about `GarbageCollector` | |
| `StackMaps` | `WrenGCMetadataPrinter`, `StackMapDescription` and the lookup of a frame in `GCTracingScanner` | writer, reader and search in one module |
| `ModuleRegistry` | `GetOrInitModule`, imports, `wrencInitModule` | |
| `ModuleRegistryProofs` | TLAPS proofs about it | |
| `MethodDispatch` | function tables, class setup, `FinaliseSetup`, lookup | |
| `Values`, `ObjRange`, `ObjList`, `ObjMap`, `ObjString` | tagged values; subscripts, iteration and changes of the core classes | operators |
| `ForLoop` | the compiled for loop, over the four classes, with a body that may change the sequence | |
| `ForLoopProofs` | TLAPS proofs about slices and loops | |
| `Closures` | scopes and upvalues of `wren_compiler.cpp`, storage in `LLVMBackend.cpp` and `GenEntry.cpp`, `ObjFn` | compiles a source token by token and runs the result |
| `ClosuresProofs` | TLAPS proofs about `Closures` | |
| `MCClosures` | the sources of the two closure runs | |
| `IRPasses` | the statements of the IR, `IRCleanup`, `BasicBlockPass` | operators |
| `FrontEnd` | what `wren_compiler.cpp` emits for the statements of a function | one action per statement it begins or ends |
| `SSAPass` | `SSAPass.cpp` | recursive operators, as the code is recursive |
| `TypeInference` | `TypeInferencePass.cpp` | one operator per turn of the work list |
| `Compiler` | composes the four in the order of `main.cpp`, and executes the result | |
| `MCComponents` | `ForLoop`, `StackMaps`, `SizeCategories`, `MethodDispatch` and `ModuleRegistry`, which share no state | each behaviour chooses one |

### Fibres

`state`, `parent`, `stack`, `resumeAddress`, `suspendedContext`, `function` and
`exception` are the members of `ObjFibre` with the `m_` removed; `currentFibre` is
the static.  `sp` says whose stack the processor is on, `frame[s]` which fibre
call the innermost frames of stack `s` are blocked in (this is what the C++ stack
itself remembers: whether it is inside `Call`, which rethrows its callee's
exception, or inside `Try`, which returns it), `thrown` is the
`FibreAbortException` being unwound.  A step runs from one moment at which Wren
code executes to the next one, which includes everything `HandleResumed` does on
the stack that is woken.  `process = "abort"` is the `abort()` in
`ResumeSuspended`.  Return values are not tracked.  Transferring to oneself only
returns the argument and is not a step.

Invalid uses that the code turns into a Wren error (`Fiber has already been
called.`, an arity over one, ...) are steps that throw `RuntimeError`.  The Windows
thread environment block is left out.

### Host calls

`native[s]` is the list of C++ frames on stack `s`: `"foreign"` (a foreign function,
whose frame holds a `WrenVM`), `"wrenCall"` (inside its try), `"toString"` and
`"errorFn"` (a `wrenCall` that has gone on to its catch block).  `currentVMs` is the set
of the code, an element being the stack and the depth a `WrenVM` is at; the VM that
`wrenNewVM` returns is `HostVM`.  The fibre operations are those of `Fibres`, taken only
where Wren code runs.  `FramesOfMappedStacks` says what they do to C++ frames: nothing,
except that the frames of a stack that is unmapped are gone.

An exception is taken by the innermost `wrenCall` of its stack (`CaughtByWrenCall`),
which destructs the VMs on the way, or leaves the stack (`CaughtByFibre`).  The catch
block first makes the message a string (`WrenAPI.cpp:541`, `:611` in
`wrencInitModule`).  If the message is in `WithToString`, that is Wren code, which
can call the host, switch fibres and abort (also because its result is no string or the
class has no `toString`); otherwise, or when it returns, the host's `errorFn` runs
(`ErrorFnReturns` at once is a host that has none).  The try is over by then: what
either of them throws goes to the next `wrenCall` further out, or past all of them; on
the main stack nothing is left that catches it (`EscapesToHost`, `std::terminate`).
The list of caught exceptions that the C++ runtime keeps is one per thread, so that a
fibre switched to in the middle of a catch block may end the wrong catch; that is left
out.

`FailsInForeignCall` says whether programs call `transferError` on a fibre suspended
inside a host call; with it the code goes wrong (section 5).  The contents of slots,
handles, and the text of converted values are left out.

### Allocator

Memory is counted in slots of the category's size.  `cell` is what the first word
of a slot looks like to the sweep (a shim's magic number, an object's vtable, or
null), `length` the shim's length, and the two kinds of list are records of
`IntrusiveList` with the `next`/`prev` pointers of every element, on the list or
not, since the code depends on those of elements that are not.  A failed assert or
check sets `checkFailed`.  `MaxSlabs` stands for the memory the OS gives out;
what happens when it runs out is not modelled.

`Slab::totalObjects`, which nothing writes or reads, is left out.

### Collector

The GC word keeps the code's numbers: grey is an even number (a pointer; only the
set of grey objects matters, not the order of the list), `INITIAL_GC_WORD` is 1,
white numbers start at 0xabcd01 and advance by 2.  Only `System.gc()` starts a
cycle, so it never interleaves with Wren code.  Stack maps are abstracted to the
set of values a stack refers to, `refs[f]` of a fibre `f` (see `StackMaps`).  Two constants describe
the *programs* considered: `ImportsAfterGC` (modules are imported after a
collection too) and `HoldsRunningFibre` (the program calls `System.gc()` only while
something it holds refers to the running fibre).  Both describe restrictions under
which the collector is correct; `gc_import` lifts the first, and section 5 says what
happens when the second is lifted.
`transferError` is left to `Fibres`.

### Stack maps

The writer goes through LLVM's call sites and keeps a queue of functions not yet
written; an object of the map has what its header says (`sectionSize`) and what is
really written (`bytes`, padded).  The reader only sees headers: where it lands on
no object it is `"lost"`.  Offsets are packed in a byte as in the code, and what
cannot be packed makes the compiler give up (`"rejected"`).  `ScanFrame` is the
lookup in `MarkThreadRoots`: the function table says which module's map to search.
Finding the frames on the stack is libunwind's work.

### Modules

A module is the table its `get_globals` function returns.  `initialising[f]` is the
initialisers on the stack of fibre `f`; what an initialiser does (import, assign its
variable, start a fibre, yield, abort, return) is chosen step by step.  `depends`
records which initialiser needed which other to return, `early` the imports that
found no value; `EarlyOnlyInCycle` compares the two.  Fibres here are called by
`try` only, the other ways being the subject of `Fibres`.

### Core values and loops

A value is a number or an address; `null` is 0 and `false` and `true` are objects, as
in `common.h`.  Numbers that are not integers are one value, `NotInteger`.  A map is
the sequence in which its table is traversed: adding a key may reorder it in any way
(a rehash), removing one never does.  Strings are sequences of bytes, made of code
points and of stray bytes; encoding and decoding are modelled bit by bit with
arithmetic.  `disturbed` says that the body of the loop made a change that upsets
iteration by design: at or before the current index of a list, or a new key in a
map.

### Closures

The source is a sequence of tokens (`var`, uses, `Fn.new { }`, blocks, loops, exits),
one action per token.  A compiler's `frames` are those of its `ScopeStack`; the
containers with captured variables become storage blocks when the function runs.
`DiscardLocals` is evaluated when an exit is compiled, so it knows only the captures
seen so far, as in the code.  The second half executes: `packs` is what an activation
knows of storage blocks, a closure keeps pointers, and `Collect` takes any closure
that is not running, at any time, as the program may drop its last reference to it
whenever it likes.  What the source means is recorded next to it: every entry of a
block makes new variables.

An upvalue is recorded by how many functions lie between it and its variable (`depth`) and
the variable itself, instead of by a chain of parents.  The recursion of `findUpvalue`
over the functions around is `FindUpvalue`: it ends at the innermost function that knows
the name (`UpvalueBase`), and all functions from there on get an upvalue.  The guards
`AtBodyEnd` and `AtLoopEnd` say which token may come next at a brace: the recursive
descent of `statement` and `finishBlock` closes what it opened last.

### Dispatch

`hash` is the signature's home slot, chosen in `Init` from `Hashes`: the instance has
any number of signatures colliding at the first slot and the others at the last.  A function is identified by the class
that declares it.  A metaclass is a class that copies the table of `Class`, as a
class written in Wren copies its parent's, and needs no action of its own; the
static methods that wren_core adds to a C++ class are left out.  Two signatures
with the same 64-bit hash are not considered.

### Compiler

The front end writes every function with the given locals within the bounds, one
statement per step; an `if` or a loop that is open is an element of `open` with the
jumps that still need a target.  A nested block is not kept apart: `IRCleanup`
flattens it before it does anything else.  Expressions are a number, a string, a
load, `v + 1`, and a call of a method of `this` whose result is unknown; the value of
a condition is such a call.  An assignment goes through a temporary, as in
`bareName`; the temporaries of returned values, which nothing else reads, are left
out, and so are upvalues (see `Closures`), for loops (see `ForLoop`), `&&`, `||` and
`?:`, fields and globals.

`MakeBlocks` runs `IRCleanup` and `BasicBlockPass` on the function, `ConstructSSA` runs
`SSAPass`; type inference is one step per turn of its outer loop.  The state of `SSAPass` is a record that its operators pass on:
`exports`, `offers`, `phiUsers`, `replacement` and `prepend` are the members of
`BlockInfo` and `SSAInfo`; `uses` is `ExprLoad::var`.  A failed assert is recorded in
`failed` and ends the pass (phase `aborted`); a null `current` in `BasicBlockPass` is
phase `crashed`.

The compiled function is then executed as the LLVM back end writes it (Phi nodes
take their values on the edge, an intrinsic adds bits) next to one cell per local,
`local`, which is what the source means.  A value records the statement that made
it and whether that was an odd or an even execution of it, so that values of
neighbouring iterations differ.

## 3. Runs

| Run | Bounds | Shows |
|---|---|---|
| `fibres_safety` | main and three fibres, one user message and one runtime error | for an arbitrary program, the invariants and action properties below, and that `Fibres` implements `Coroutines` |
| `foreign_calls` | main and two fibres, three C++ frames per stack, one message with a `toString` | `VMsExact`, `HostCallsKept`, `AbortLands` |
| `slab_allocator` | two slabs of three slots | layout, lists, counts, `ObjectHeap`, and the end of sweeps |
| `gc_safety` | main fibre, one fibre, one other object, two references each, two cycles, one import before the first | the collector is exact |
| `compiler` | one local, all kinds of statement, four statements, nesting of two | unless an assert of theirs fails (section 5), the passes keep the meaning of the function, and they end |
| `closures` | the sources of `MCClosures`, two rounds of a loop, two activations, three closures | names, environments and storage are right |
| `components` | loops: up to three elements and two changes, code points at the edges of the four forms and three stray bytes; stack maps: three functions in one or two modules, two call sites each; sizes: every size from 20 to 300, any two requests; dispatch: Object, one C++ class, one Wren class, four signatures, three entries, probes of two; modules: three, one of which the host asks for twice, and one fibre | the parts that share no state |
| `fibres_parent`, `foreign_fail`, `gc_import`, `closures_while`, `compiler_intrinsic` | as above, or smaller | the code does not do what a comment says (section 5) |

Why the bounds are enough:

* Four fibres allow two chains of callers, a fibre outside both of them and a
  stale parent at the same time; no operation names more than three fibres.  The
  invariants are proved for any number anyway.
* Three C++ frames are a `wrenCall` in a foreign function in a `wrenCall`: an error can
  be caught by the inner one, be thrown again by the `toString` or `errorFn` of its
  catch block, pass the foreign function and stop at the outer one, on a stack that was
  left and resumed.
* Three slots hold a shim, an object and a shim, every merge of neighbours and
  every position of a freed object; two slabs suffice for a list in which one is
  unlinked before, after or without the other.
* The size computation has a period of one octave above the preferred sizes; 300
  passes the last preferred size (152) and an octave boundary.
* A fibre, a parent and an object make a chain and, with stores, cycles; the second
  cycle meets the words of the first.  Faults that need more cycles need the white
  number to come back, which is the `gc_import` run.
* Entries, probe length and the number of signatures are scaled down together:
  tables collide, wrap round, overflow to a map, and fill up completely.
* SSA form is computed for each local by itself; a second one only changes the order
  in which blocks are scanned.  Four statements make every shape of two nested
  constructs with an assignment, a use, a break or a continue in them.
* Sources of closures have two nested scopes of each kind, two levels of functions,
  shadowing at each level, and every exit before and after the closure; two rounds
  and two activations are what it takes to confuse environments.
* Three elements and two changes let a body change the sequence before, at and behind
  the current element, and then again.  Slices, and loops over ranges, lists and maps,
  are proved for every length.
* Four and five live values are on both sides of the eight-byte boundary of a
  statepoint; 2040 and 2048 on both sides of the packed byte.
* Three modules make an import cycle with a module outside it.

### Properties

Fibres: `RunsOnCurrentStack`, `SuspendedIsResumable`, `StackLifetime` and
`StateMatchesFrame` tie control, saved contexts, memory and states together.
`TerminalIsForever`, `WaitingWokenByChild` and `ErrorReachesCaller` say what a step may
never do.  `ImplementsCoroutines` is the refinement: phase is read off `m_state`,
control is `sp`.

Host calls: `VMsExact` says that the collector marks the slots of every foreign call
in progress, on suspended stacks too, and reads nothing else.  `HostCallsKept`: a call
from or to the host, a catch block that reports an error included, begins and ends on
the stack that executes; whatever other fibres start, wake, leave, fail or unwind, the
calls that a suspended fibre is in the middle of are still there when it is resumed, and
a fibre that is over is in none.  `AbortLands`: a thrown exception is caught, or the
process ends, also when catch blocks throw again.  That a `wrenCall` always answers its
host is not a property of this code (section 5).

Allocator: `ChecksHold` (no assert fails, the walk never oversteps), `SlabIsTiled`,
`FreeSlabsExact`, `SweepEnds`; `ImplementsHeap` with the objects and those among them
that the running sweep has yet to free.  `CategorySuitable` for the size categories.

Collector: `InUseIsLive`, `CollectionIsExact`, the tri-colour invariant `TriColour`, and
`ScannedOnce`, from which the marking loop ends.

Stack maps: `FrameSlotsExact`, end to end, for every address of the program.

Modules: `RegistryExact` accounts for every start of an initialiser; `EarlyOnlyInCycle`
says when an import may find a variable without its value.

Dispatch: `MethodResolution` compares the table lookup with the language rule,
which mentions no table.

Core values: `CountedLoopExact`, `MapLoopExact`, `MapKeysDistinct`, `StringLoopExact`,
`StringSliceWhole`, and `SliceAsInterpreter`, whose reference is `calculateRange` of the
interpreter in `lib/wren-main`, as the comment in `ToSubscriptUtil` asks.

Closures: `ResolvesLexically`, `PointsIntoOwnEnvironment`, `StorageOutlivesUsers` and
`StorageReleased`.

Compiler: `LoadsSeeLastAssignment` compares what a load of the compiled function
reads with what the source says, on every path and in every iteration;
`TypesAccurate` is the promise in the head comment of `TypeInferencePass.cpp`;
`InferenceConverges` says that the work list neither runs dry too early nor for ever;
`BlocksWellFormed` is what `BasicBlockPass` relies on.

### Fairness

`ForeignSpec` has weak fairness of the three ends of an unwinding only (two catches and
`std::terminate`): once an exception is thrown the C++ runtime unwinds, and no Wren code
runs in between.  Wren code, foreign
functions and the host may loop for ever.  `FairSlabSpec` is weak fairness of the
sweep's loop body: the sweep is one C++ call that nothing interrupts.

### Deadlock

Checked everywhere except in `components` and the closure runs, whose behaviours end
when a loop has ended, a map is read, the bound on requests is used up, all classes
are declared or the program has returned.  `Fibres`, `ForeignCalls` and `Compiler`
stutter explicitly once the process has ended or the function has returned.

## 4. Proofs

`FibresProofs` proves, for every set of fibres and messages that satisfies
`FibresAssumption`:

* `Spec => []TypeOK`, `[]RunsOnCurrentStack`, `[]SuspendedIsResumable`,
  `[]StackLifetime`, `[]StateMatchesFrame`, `[]ExceptionIffFailed`;
* `Spec => TerminalIsForever`, `WaitingWokenByChild`, `ErrorReachesCaller`;
* `Spec => ImplementsCoroutines`.

None of the five invariants is inductive by itself.  A woken fibre lands on its own
stack because its resume address points there, which holds because the fibre that
was suspended was running on its own stack then, which is the first invariant
again; that the stack it lands on is still mapped needs the agreement of stack and
state.  `IInv` is their conjunction with two small facts: no fibre is its own
parent (`NotOwnParent`: a fibre that yields would otherwise resume itself after
having been marked suspended) and the main fibre is never unstarted (`MainStarted`:
it would be given a stack).

The argument follows the code.  Lemmas `ResumeIInv` and `StartIInv` treat the two
ways of switching stacks once, for any states `st` that the operation has set up
(`Leaves` says what those may be); each operation's lemma establishes their
hypotheses.  `transferError` is the delicate one: it switches away in the name of a
fibre that is not the one running, whose stack it then unmaps.  `TerminalIsForever`
follows from `IInv` and the observation that every operation writes the state or
exception of a fibre only if it is current, or is suspended or unstarted.

The last three rest on a classification of the steps.  `Shape` says that a step leaves
control where it is, lets one fibre leave and another continue or start, or ends the
process; who may leave, and who continues, is what `m_parent` and the states allow.
Every operation has one of these shapes (`ResumeShape`, `StartShape`, then one lemma per
operation), and every shape is a step of `Coroutines` or a stutter.

`ForeignCallsProofs` proves, from `IInv` again and for any number of frames,
`ForeignSpec => []VMsExact`, `[]VMsOnMappedStacks` and `HostCallsKept`, assuming
`~FailsInForeignCall`: no fibre is failed by `transferError` while suspended inside a
foreign call.  Without the assumption `VMsOnMappedStacks` is false, which is the run
`foreign_fail`.  `ForeignInv` adds to `IInv` that C++ frames are on mapped stacks only
(`NativeOnStacks`) and `VMsExact` address by address; the `Keeps` lemmas say which
fibres each operation takes off their stacks.  `HostCallsKept` is the same argument the
other way round: an operation takes only fibres off their stacks that are in no host
call (`FibreOperationTakes`), so by `StackLifetime` the stack of every other one stays
mapped and its frames stay (`FramesKept`, `CaughtByFibreFrames`).

`GCProofs` proves, for every set of objects and every graph:

* `GCSpec => ScannedOnce`;
* `GCSpec => []TriColour` and `CollectionIsExact`, assuming `~ImportsAfterGC`;
* `GCSpec => []InUseIsLive`, assuming in addition `HoldsRunningFibre`.

The first assumption excludes what the run `gc_import` shows to go wrong.  The second
says that a reachable object refers to the running fibre when a collection starts; the
code does not mark the running fibre itself.  `ScannerInv` says that no GC word is ahead
of the cycle, that scanned objects refer to grey or scanned ones and that roots are grey
or scanned, that nothing is grey or scanned but what the roots reach, and that nothing is
grey between cycles.  Reachability is the least set closed under what objects report, so
that exactness needs no induction: when nothing is grey, the scanned objects are
themselves a closed set.  For `InUseIsLive` one also needs that memory that holds no
fibre has no parent in it (`FreeHasNoParent`).

`IntrusiveListProofs` states what `InsertAtStart`, `InsertAtEnd`, `InsertAfter` and
`Remove` do to the sequence that a list represents, pointer by pointer, for every set of
nodes.  From these, `SlabProofs` proves, for slabs of any number of slots and any number
of slabs:

* `SlabSpec => []ChecksHold`, `[]SlabIsTiled`, `[]FreeSlabsExact`;
* `SlabSpec => ImplementsHeap`;
* `SizesSpec => []CategorySuitable`, for every set of sizes up to 64 KiB (an object lies in
  one slab) and every order of requests: `RoundToAlignment`, `BitCeil` and the step between
  two powers of two are bounded first, one power of two at a time.

`Layout(c, ln, S, L)` says that the shims in `S` and the objects tile a slab and that no
two shims touch, except that shim `L`, which the sweep is still extending, may touch the
next one.  `Walked(ln, S, L, p)` says that the sweep can be at slot `p`: no shim reaches
over it, and `L` is the one that ends there.  Allocation takes the first slot of a shim;
each turn of the sweep's loop merges a shim, passes an object, or turns one into a shim
or an extension of `L`.  One lemma for each says that the layout survives.  `SlabInv`
puts them together: every slab is `AtRest`, the one being swept is `UnderSweep`, the
lists are linked, and slabs not yet mapped are empty.  `SlabIsTiled` alone is not
inductive, as it says nothing in the middle of a sweep.

`ModuleRegistryProofs` proves, for any number of modules and fibres,

* `RegistrySpec => []RegistryExact`.  `RegistryInv` adds that `starts` is 1 exactly for the
  registered modules: this is why a module that failed, and stays registered, is not
  started again;
* `RegistrySpec => []EarlyOnlyInCycle`.  What an initialiser waits for is recorded in
  `depends`; `CycleInv` says that each initialiser on a stack needs the one above it, that
  a fibre is waited for by the innermost importer around it, and that a module whose
  variable was taken early was on a stack then.  A set closed under `depends` that holds
  what the module needs therefore holds every initialiser above it on the stacks, and the
  one on top needs the module itself.

`ForLoopProofs` proves, for every length, all integer ends (and ends
that are not integers), inclusive or not:

* `RangeSelects`: `ToSubscriptUtil` aborts exactly when the interpreter's
  `calculateRange` does, and otherwise selects the same positions in the same order,
  all within the sequence;
* `LoopSpec => []SliceAsInterpreter`, the property of the `components` run, for lists of
  any length.

Both functions are first reduced to the same three cases (the range right behind the
last element, an empty range, and the rest, which runs forwards, backwards or has one
element), in which the results are compared.  `UntouchedList`, the inductive
invariant of the second theorem, says that a list has its initial type until the first
body has run.

`ForLoopProofs` also proves `LoopSpec => []CountedLoopExact`, `[]MapKeysDistinct` and
`[]MapLoopExact`, for sequences of any length and any number of changes.  `CountedInv`
and `MapInv` say, for each phase of the loop, how far it has come.  For maps this is a
place `p` (`MapPosition`): the keys seen that are still in the map are its first `p`, and
the current key, if it is still there, is the `p`-th.  Taking keys out moves `p` but never
splits seen from unseen keys (`Harmless`).  That wrapped keys are never null or false
needs `KeysAssumption`: objects are at multiples of eight.

`ClosuresProofs` proves, for every set of sources and any bounds:

* `ClosuresSpec => []ResolvesLexically`;
* `ClosuresSpec => []PointsIntoOwnEnvironment`;
* `ClosuresSpec /\ [][LeavesForLoop]_closureVars => []StorageOutlivesUsers`;
* `ClosuresSpec /\ [][LeavesForLoop]_closureVars => []StorageReleased`.

`LeavesForLoop` says that each `break` and `continue` that is compiled leaves a `for`
loop.  For such exits of a `while` loop the code is wrong, and the properties are false:
that is the run `closures_while`.  Loops of either kind that are left only by their
condition or by `return` are covered, and so is every exit of a `for` loop.

`CompileInv` is the invariant of the compiler.  Its parts: open functions are different
ones (`OpenFunctions`); the frames of an open function are blocks of its own
(`FramesOK`); open loops nest within the frames, and what is in scope where a loop starts
is what was in scope when `startLoop` was called (`LoopsOK`); a loop that is closed ends
where no more is in scope than at its start (`LabelsOK`); what is in scope at a statement
was in scope, or begun, at the one before (`FlowOK`); an upvalue's target belongs to
another function and was marked captured (`UpvaluesOK`); while the function around it is
open, an upvalue's parent is either what a lookup of its name finds there or an upvalue
of that function (`ParentsOK`); and the statements say what the property asks
(`CodeOK`).  `ParentsOK` is what makes `upvaluesByName` right: the upvalue found by name
stands for what the name still means, because the scopes of the functions around do not
change while a function is compiled.

All actions but three append statements to one function and change its compiler:
`TopKeeps` proves each part of the invariant for such a step from what is appended, and
the actions only supply that.  `PopKeeps` does the same for the ends of functions.
`RunInv` then says that every activation has storage for what is in scope at its next
statement, allocated by the entry that its environment names, and that the pointers of a
closure lead to the blocks of the environment it was created in; the flow of control
between statements is taken from `CompileInv`.

The two theorems about storage rest on two more invariants (`Counts`).  `ReleaseInv` is
about what the compiler emits: from one statement to the next nothing leaves the scope
but what a cleanup lists, and what it lists is out of scope for good (`Leaves`); a jump
out of a loop drops every block that it leaves, except where the variable was not yet
captured (`ReleaseOK`), which is an early exit; a loop that is closed ends where exactly
as much is in scope as at its start (`EndsWhole`), so that jumping back or out neither
loses nor gains a block; and the hidden frame of a `for` loop declares nothing of its own
(`HiddenFrames`).  `CountInv` is about the program that runs: the count of a block is at
least the number of activations that have it in scope plus the number of live closures
over it, exactly that if the source has no early exit, and a block that was overwritten
has no user; different containers of an activation have different blocks.  So whatever a
statement releases or takes, the count of a block changes by at most one, together with
one user (`OneLess`, `OneMore`, `LeaveBlocks`).  A closure takes blocks that are in scope
where it is created or belong to the running closure, which is alive (`ClosureBlocks`):
it never revives a block.

Each inductive invariant was an invariant of a TLC run before it was proved.

Only model-checked, and why:

* liveness (`AbortLands`, `SweepEnds`) is out of the prover's reach;
* `StringLoopExact` and `StringSliceWhole` speak of concatenations, which are recursive
  functions; their values cannot be unfolded for all inputs.  A smallest counterexample
  can be had from the well-foundedness of the naturals (`IndexOfFound` and
  `MaxOfPositions` do so), but not for a formula with a parameter;
* `SSAPass`, and with it `Compiler`, uses recursive operators;
* `MethodResolution` follows the inheritance of classes with folds over sequences, and the
  ancestors of a class with a recursive function: it needs induction over data;
* `FrameSlotsExact` reads back what was written from filtered, flattened and summed-up
  sequences, which are recursive functions too.

## 5. Where the code and its comments disagree

* `fibres_parent`: main calls `f`, `f` yields, main calls `f.transferError(..)`.
  `f.m_parent` is still main, which is running: `ResumeSuspended` calls `abort()`.
* `gc_import`: importing a module destroys the scanner, and its white number with
  it.  Two collections around an import use the same number; objects that survived
  the first are taken for scanned in the second and what they refer to is freed.
* `foreign_fail`: a fibre that is suspended inside a foreign call is failed by
  `transferError`.  Its stack is unmapped without being unwound, although a comment
  says that an abort is simulated; the `WrenVM` on it stays in `currentVMs`, and the
  next collection reads unmapped memory.
* `closures_while`: `var x; Fn.new { x }; while (c) { if (d) continue }; x`.  `startLoop` is
  called before the body of a while loop has its scope, so `break` and `continue` release
  the blocks of the scope around the loop, which are still in use.
* `compiler_intrinsic`: `var x = 1; if (c) { x = m(x) }; x = x + 1`.  In the first
  rounds `x` is a number where the branches meet, and `+` becomes a floating-point
  addition.  When the type turns out to be unknown, `ProcessExprFuncCall` returns
  before it takes that back; if `m` returns a string the sum is computed from the
  bits of a pointer instead of failing with an error.

Two consequences of `m_parent` and `transferError` are visible in the model without
a run of their own: a fibre that calls `transferError` stays `RUNNING` on a stack
that nothing executes or scans (the `"transferError"` frames of
`StateMatchesFrame`), and the callee of a `WAITING` fibre can be given another
parent by a third fibre.  `Call` looks at the exception of the fibre it was called
on only, so that a fibre woken by the failure of another one goes on without an
error; `ErrorReachesCaller` is about the fibre that was called.

Two more things are visible in the compiler's model.  With one more statement
than the `compiler` run has, `while (a) { while (b) { use(x); if (c) break } }` leaves a
Phi node with an input that was replaced, because `RemoveTrivialPhi` does not hand
the users of a variable over to its replacement; type inference then takes one
kind of data for another (phase `undefined`).  A block that nothing reaches makes
`IsPhiTrivial` assert, or type inference end without a type for its variables
(phase `aborted`): `IRCleanup` counts a label as used when only dead jumps go to it.
`InferenceConverges` excludes such functions.

The following disagreements have no run of their own.

* The running fibre's values are roots, the fibre object is not
  (`GCTracingScanner.cpp:115`): with `HoldsRunningFibre = FALSE` in `GC_safety.cfg`
  `InUseIsLive` fails.
* `while (a) { use(x); if (c) continue }`: the Phi node at the head of the loop has the
  variable of the body as two of its inputs and is twice among that variable's
  `phiUsers`; `RemoveTrivialPhi` removes it twice, and its own assert fails
  (`SSAPass.cpp:313`; asserts are on in a default build).  The model goes to phase
  `aborted`.
* An error of the catch block escapes `wrenCall` and `wrencInitModule`: both make the
  message a string before they look at `errorFn`, and its `toString` may abort.  A
  comment says that without an `errorFn` "we silently swallow the error"
  (`WrenAPI.cpp:539`), and `wren.h:587` that `wrencInitModule` returns false after
  printing it.  In the model the `"toString"` frame is unwound (`CaughtByWrenCall` further
  out, `CaughtByFibre`, which fails the fibre, or `EscapesToHost`).
* Where the process is about to end with an error (`ObjFibre.cpp:261`, `:448`,
  `WrenRuntime.cpp:117`) the `toString` of the message runs as well, with the fibre
  FAILED already or outside any try.  One that aborts or switches fibres there is left
  out of `Fibres`, which ends the process.
* `wrencInitModule` "returns true if it was successful" (`wren.h:587`); asked again
  about a module whose initialiser failed, it returns true, since the module stays
  registered.
* An exit that is compiled before the first closure over a variable of its scope does
  not release that variable's block (`wren_compiler.cpp:1287`), which is then never
  freed; `StorageReleased` is stated for functions without such an exit.  The memory of
  a block whose count is 0 is overwritten and not freed in any case.
* Captured variables are marked through the closures over them; while none is alive,
  their values are not reported to the collector, although the function that declared
  them may go on using them (`ObjFn.cpp:83`).
* An upvalue of an upvalue `x` is entered under the name `x_UPVALUE`, which is also a
  legal name of a variable (`Scope.cpp:85`).
* A range that lies inside a single code point of a string yields its last bytes by
  themselves; `StringSliceWhole` is about ranges that hold a first byte.
* The ends of a subscript range are cast from double to int before they are checked
  (`ObjRange.cpp:80`), which is undefined outside the range of int.
* For an object larger than a slab the usable size of a slab is 0: `AllocateRaw` aborts
  and the slab stays first on the list (`SlabObjectAllocator.cpp:421`).

## 6. Not modelled

Most of the C and C++ in the repository is not wrenc's: `lib/` holds the Wren
interpreter (used as a reference for tests), tree-sitter, fmt and others, and
`tree-sitter-wren` is generated.  They are used through their interfaces and are not
modelled, so the share of all lines that the map covers is small; wrenc's own code is
about twenty-three thousand lines.  Of that:

* The text the back ends write is another language's and is checked by the
  repository's end-to-end tests.  The QBE back end does what the LLVM back end does.
* The lexer and the expression parser are upstream Wren's, adapted.
* tinylink edits PE files; the driver runs other programs; `ClassDescription`, hashing
  and the platform wrappers have no state.
* IDE support looks up names in tree-sitter's trees.
* Formatting, parsing and arithmetic of doubles are out of a model checker's reach, and
  searching in strings is left to the C++ library.
* Slots and handles of the embedding API are arrays with checked indices.
* The collector's model has no stacks, so the stack that a collected suspended fibre
  leaves mapped (`~ObjFibre` is empty) is not seen; nor is the wrap of the 32-bit white
  number after two thousand million cycles.

## 7. Plan

Done, in this order: fibres and their proofs, lists and allocator, collector,
dispatch, the passes of the compiler; then host calls, modules, closures, the core
values, stack maps, and the proofs about slices; then the proofs of section 4.  Left:

1. The collector and closures in one model, for the values of blocks without a live
   closure.
2. Field layout of classes, foreign classes and attributes, with `MethodDispatch`.
3. Short-circuit operators in `FrontEnd`, and the conversions between doubles and values
   that type inference leads to.

Proofs: the parts of `MethodResolution` that need no induction over the ancestors of a
class, from an invariant on the probe sequences of a function table; the reader of stack
maps against the writer.
