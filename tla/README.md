# Verification of the Lama byte code interpreter and its companions

This directory holds TLA+ models of the programs in this repository, TLC
configurations that check them on small instances, and proofs checked by TLAPS.
It follows the code, not its documentation: where the two disagree a run shows
it (see *Disagreements found*).

All paths below are relative to `src/`.

## 1. The system

### 1.1 Components

| Component | Code | State | Operations |
|---|---|---|---|
| Stack machine | `iterative-interpreter/src/iterative_interpreter.cpp` | `ip`, `fp`, the stack, `bf->global_ptr` | one `eval_*` per instruction, dispatched by `eval` |
| Stack block, boxing | `iterative-interpreter/include/stack.h`, `box.h` | `__gc_stack_top`, `__gc_stack_bottom`, 2^25 words | `push`, `pop`, `peek`, `drop`, `reserve`, `reverse`; `box`, `unbox` |
| Pattern tests | `iterative_interpreter.cpp` 344-394, `runtime.c` 1259-1330 | none of their own | `eval_tag`, `eval_array`, `eval_patt` over `Btag`, `Barray_patt`, `B..._patt` |
| Byte code file | `iterative-interpreter/src/byterun.c`, `static-analyzer/src/byterun.c` | the `bytefile` struct | `read_file`, `disassemble` |
| Root scan | `iterative-interpreter/src/gc_runtime.s` | `eax`, the stack's words | `__gc_root_scan_stack`, `__pre_gc`, `__post_gc` |
| Allocator and collector | `runtime.c` 1707-2227 | `from_space`, `to_space`, `current`, `SPACE_SIZE` | `alloc`, `gc`, `gc_copy`, `copy_elements`, `extend_spaces`, `gc_swap_spaces` |
| Extra roots | `runtime.c` 73-125, `gc_runtime.s` 28-52 | a pool of 32 addresses, `__gc_stack_top` | `push_extra_root`, `pop_extra_root`, `__pre_gc`, `__post_gc`, and every function that calls them |
| Constructors | `runtime.c` 900-1346 | heap objects | `Barray_arr`, `Bsexp_arr`, `Bclosure_arr`, `Bstring`, `Belem`, `Bsta`, ... |
| Runtime library | the rest of `runtime.c` | `stringBuf` | comparison, hash, clone, printing, regular expressions, files |
| Static analyzer | `static-analyzer/src/main.cpp` | a map from instructions to counts | one walk over the code |
| Cache probe | `L1-memory/main.cpp` | an array threaded by indices, maps of measurements | build a ring, measure, choose |
| Truffle language | `lama-in-graal-truffle` | concurrent maps of call targets, a counter | context creation, look-ups (does not compile) |
| Tests, build | `iterative-interpreter/regression`, makefiles | | |

### 1.2 How they interact

`main` reads a byte code file and runs `eval`, which fetches an instruction,
changes the stack and sometimes calls the runtime.  A constructor of the runtime
calls `alloc`; when the from-space is full `alloc` maps a to-space and calls
`gc`, which calls the assembly routine `__gc_root_scan_stack`; that one calls
back `gc_test_and_copy_root` with the address of each word of the interpreter's
stack that passes its filters, and `gc_copy` and `copy_elements` call each other
down the graph of objects.  Afterwards `gc` visits the extra roots, makes room
for the request, and returns a block in the new space, which the constructor
fills.  The interpreter's stack is the collector's root set: both sides share
`__gc_stack_top` and `__gc_stack_bottom`, and every instruction that allocates
must leave its live pointers where the scan finds them.

A program compiled to machine code calls the same runtime from its own C stack.
There `__gc_stack_top` is 0 while the program runs; the outermost function of
the runtime sets it to its frame, so that the frames of the program are scanned,
and functions of the runtime put the addresses of their own variables into the
pool of extra roots, which the collector also visits.

The static analyzer shares the byte code format with the interpreter, with its
own copies of `read_file` and the disassembler.  The cache probe stands alone.

### 1.3 What is hard here

The system is sequential but for the Truffle skeleton.  Its hard parts are:

* **Protocol on a flat stack.** Arguments, saved registers, locals and operands
  are untyped words; only the calling convention separates them, and a mistake
  shows up several calls later.
* **A moving collector.** Any allocation may move every object.  A pointer in a
  place the collector does not scan is stale from then on.
* **Boundaries.** End of the stack block, end of a space, an empty object at the
  end of a space, a string whose NUL starts a new word, a word that looks like a
  pointer, 31-bit integers in 32-bit arithmetic.
* **Partial failure.** `mremap` may fail when the survivors are already copied;
  the collection starts again from the half-finished copy.

### 1.4 What makes each component correct

* *Stack machine*: a call leaves exactly its result in place of its arguments;
  a callee never touches its caller's words; addresses that `LDA` took are live
  when `STA` uses them; the flat
  stack behaves like separate activations.
* *Root scan*: every pointer is replaced by its copy's address, once; nothing
  else is touched; the loop ends at the bottom.
* *Collector*: invisible to the program (the same graph before and after), no
  dangling pointer, always room for the survivors, always an answer.
* *Extra roots*: what is pushed is popped, the top is reset, and no function
  reads a variable that a collection has left behind.
* *Pattern tests*: a test answers for the whole value.
* *Byte code file*: the pointers lead to the parts of the file.
* *Runtime library*: comparison is an order whose equality is equality, equal
  values have equal hashes, printed text is complete.
* *Static analyzer*: the walk stays in step with the instructions, and the
  report names each of them once with its number of occurrences.
* *Cache probe*: a ring is one cycle, its time depends on its places only, and
  the answer is the machine's geometry.

## 2. The modules

| Module | Models | Extends |
|---|---|---|
| `Boxing` | 31-bit integers in machine words, `eval_binop` | |
| `StackMachine` | `eval` and `stack.h` | `Boxing` |
| `StackFrames` | the properties of the stack, as predicates on frames | `StackMachine` |
| `LamaCalls` | what calls promise: a list of separate activations | |
| `StackRefinement` | the refinement mapping from `StackMachine` to `LamaCalls` | `StackFrames`, instance of `LamaCalls` |
| `MCStackMachine` | programs and what they compute | `StackRefinement` |
| `StackProofs` | type correctness, the calling convention, live addresses, with the lemmas they rest on | `StackFrames` |
| `StackRefinementProofs` | the proof that `StackMachine` implements `LamaCalls` | `StackRefinement`, `StackProofs` |
| `Patterns` | the pattern instructions and tests | |
| `Bytefile`, `MCBytefile` | `read_file`, for both structs; files | |
| `RootScan`, `MCRootScan` | `__gc_root_scan_stack` | |
| `RootScanProofs` | the scan's loop invariant and its consequences | `RootScan` |
| `ObjectWords` | the words of the heap, and the graph they lead to | |
| `ObjectGraph` | what the heap promises: a graph that only the program changes | `ObjectWords` |
| `MarkCopy` | `alloc`, `gc`, `gc_copy`, `copy_elements`, the pools | `ObjectWords` |
| `HeapClient` | the constructors and the instructions around them | `MarkCopy` |
| `HeapSafety`, `MCHeap` | what the collector owes its client; programs | `HeapClient`, instance of `ObjectGraph` |
| `HeapProofs` | the invariant of collector and client, in and outside a collection | `HeapSafety` |
| `RuntimeCalls` | calls of the runtime: frames, extra roots, `__gc_stack_top` | |
| `RuntimeLibrary` | what each allocating function of `runtime.c` does to them | |
| `MCRuntimeCalls`, `RuntimeCallsProofs` | the two together; the invariants of the pool, the top and what is stale | `RuntimeCalls` |
| `ValueComparison` | `Lcompare`, `Lhash` | |
| `LamaValues` | `printValue`, `stringcat` | `ValueComparison` |
| `ConstructorTags` | the hashes of constructor names | |
| `StringBuffer` | the block text is printed into | |
| `LibraryValues`, `MCLibrary` | calls of all of these; values | `LamaValues`, `StringBuffer`, `ConstructorTags` |
| `LibraryProofs` | the pattern tests are right, the buffer loses nothing, which names have a hash, equality, order and hashes of values | `Patterns`, `StringBuffer`, `ConstructorTags`, `ValueComparison` |
| `StaticAnalyzer` | walk, map, sort and report | |
| `MCAnalyzer` | programs, or files to read | `MCBytefile`, `StaticAnalyzer` |
| `BytefileProofs` | the analyzer's invariant, its report, the interpreter's pointers | `Bytefile`, `StaticAnalyzer` |
| `L1Cache` | the cache that is measured (not part of the code) | |
| `PointerChase` | the rings and the loops that follow them | `L1Cache` |
| `L1Probe` | search and choice | `L1Cache` |
| `MCL1Probe` | machines, rings and their orders | `PointerChase`, `L1Probe` |
| `ChaseProofs` | the rings, their misses, the answer of the search | `PointerChase`, `L1Probe` |

### 2.1 StackMachine

`stack` is the sequence of words from `__gc_stack_bottom` (first) to
`__gc_stack_top` (last).  The code's addresses grow the other way: `fp - i - 1`
(local *i*) is position `fp + i + 1` here, `fp + i + 3` (argument *i*) is
`fp - i - 3`.  `ip = 0` is the null pointer with which the loop of `eval` ends;
the byte length of instructions is abstracted, an instruction is at one address
and the next at the following one.  Each `eval_*` function is one action, with
the stack checks of every `push`, `pop` and `reserve` it makes.

*The ways to end.*  `Overflow` (a check of `stack.h`), `DivideByZero`, `Abort`
(`FAIL`, an instruction that does not exist, a `CLOSURE` of more variables than
`MAX_CLOSURE_ARGC`, a constructor whose name `LtagHash` rejects), `Rejected` (the
runtime's `ASSERT_BOXED`, `ASSERT_UNBOXED` and `ASSERT_STRING`) and
`NullDereference` (a raw 0, such as `Lwrite` leaves, is even and so passes
`ASSERT_BOXED`) end the process.  Which names have a hash is in `ConstructorTags`;
here it is a flag of the instruction.  `Astray` is where no check stops an
instruction and it leaves what the model describes: an index outside its object, a
store through a word that is no address of a variable, an uninitialised word that
is dereferenced, a call of what is no closure or of one with another number of
arguments.  The model says exactly when this may happen and ends there with status
"astray": what is then in memory is not followed, and the invariants speak of the
states before.

`eval_sta` takes any even second operand for an address and pops only two words.
`StaAddress` is the store through one that `LDA` pushed; `StaObject` that through
the address of an array or an S-expression, which is the address of its first
element; through a string, a closure or an empty object it is `Astray`, and
through 0 a `NullDereference`.

*Tags are ghosts.*  A word here carries a tag the code does not have.  No guard
that stands for code reads it, except where C looks at the low bit or at an
object's header.  A word nothing was stored in (`reserve` does not write) is
"junk", and unboxing it gives any integer.

*What the compiler guarantees* is stated as `WellFormed` and as the operand
guards (`Avail`, `Takes`): jumps stay in the function, an expression does not
pop below its own operands, `CALL` passes as many arguments as its callee
declares, only `STA` consumes an address.  The types of operands are not among
the guarantees: the programs of `stack_any` use any plain word anywhere.

*Programs.*  `Prog` gives the **set** of instructions that may be met at an
address.  In the "any" programs one address of each body may hold any
instruction of a list and the next jumps back, so that the run covers every
straight-line and every branching sequence of these instructions.

### 2.2 LamaCalls and the refinement

`LamaCalls` keeps a list of activations, each with its own variables and
operands; a call takes exactly as many operands as its callee declares
(`Arity`), and adds an activation; a return removes it and hands the result
over.  The mapping in `StackRefinement` reads the activations off the flat stack:
`Framed` cuts one activation out of the words above a frame and the arguments
below it, `Caller` is the one that waits for a frame, with the address saved there
as its `pc`, and `CallersOf` follows the saved frame pointers down to main.  Before
`BEGIN` has pushed the frame pointer, the frame to come is read off the stack with
that word added (`Entered`); when `ip` is 0 no activation is left and the stack is
the result.  `ImplementsCalls` says that every step of
the machine is a step of `LamaCalls` or leaves the activations alone; a missing
`reverse`, a wrong `drop` or an offset wrong by one breaks it.

### 2.3 RootScan

Addresses are numbers, four to a word, as the routine compares them.  The labels
of the assembly are the control states: `Advance` is `next`, `Skip` is the three
filters, `Test` the call of `gc_test_and_copy_root`.  The entry jumps to `next`,
so that `eax` moves before the first word is read: the word at `__gc_stack_top`
is not scanned.  `CopyOf` stands for `gc_copy`.  `DisjointAssumption` says that
code, stack and heap do not overlap; without it a heap pointer would be filtered
out as a code address.

### 2.4 MarkCopy and HeapClient

Memory is counted in words; a pointer is the number of a mapping (arena) and a
position in it, and leads to the first component, behind the header, as
`TO_DATA` has it.  The recursion of `gc_copy` and `copy_elements` is a stack of
frames; each component is one step.  `alloc` starts a collection; `ScanRoot`,
`CopyElement`, `CopyDone`, `RootsDone`, `Extend`, `Restart`, `Finish` are the
steps of `gc`.  Arenas are numbered in the order of mapping and never reused:
`free_pool` passes a number of words to `munmap`, which takes bytes, so most of
a freed space stays mapped.  `mmap` fails when `MaxArenas` regions are mapped;
`mremap` may fail at any time (`Restart` is enabled whenever `Extend` is).

`HeapClient` executes instructions in any order.  A constructor waits in
`making` while the collector runs and reads its operands from the stack
afterwards, as `Barray_arr` does.  With `Careful = TRUE` it allocates only when
no pointer is in one of the two places the collector does not see: the top word,
and the array `args[]` in which `eval_closure` keeps captured values.  With
`Careful = FALSE` it does what the interpreter does (run `heap_top`).
`ProgsAssumption` says what the byte code guarantees of the operands: counts are
numbers, and variables, captured ones included, are counted from one.

`HeapSafety` reads the from-space as the collector would: `Begins` walks from
one header to the next with the collector's sizes, `Objects` are the positions
it finds.  `NoDangling` is about every pointer of the stack and of *every* one
of these objects, garbage included; a pointer must be the first component of one
of them, not merely point into the space.

`GraphOf` gives what a sequence of roots leads to in a form independent of
addresses (objects numbered in breadth-first order).  `ObjectGraph` is the
abstract heap: a stack and a graph in that form, no spaces, no addresses, no
collections.  `ImplementsGraph` says that the collector with its client
implements it: `LD`, `ST`, `ELEM`, `STA` and the constructors do to the graph
what they are for, and between the call of `alloc` and the filling of the block,
collections, growth and restarts included, nothing changes.  The mapping takes
the program's graph from a history variable, which is recomputed from the heap
at every step but those in the middle of moving objects.

### 2.5 RuntimeCalls and RuntimeLibrary

A function is a sequence of the steps that matter to the collector: `pre`,
`post`, `push`, `pop`, `alloc`, `call`, and the reading of a variable.
`RuntimeLibrary` lists them for every function of `runtime.c` that allocates, in
the order of the code; `RuntimeCalls` runs them on a stack of frames.  A
collection (each `alloc` may make one) leaves every variable *stale* that is
neither between `__gc_stack_top` and the bottom nor in the pool; `misread` is
set when a stale variable is read.  Which variables are scanned follows the
frame layout: the parameters of the function that set the top are above its
`%ebp`, its locals below.  The starting states are those of the two kinds of
program: compiled code, which begins with `set_args` (in either order in which C
may evaluate its assignment), and the interpreter's `eval`.

`Offenders` are the calls for which the code does read a stale variable; they
are hazards of the list, named in the module, and `ReadsFresh` says there are no
others.  A `Lclone` of an unboxed value leaves the top set for good (`left`
remembers it), so that everything after it is excused.

What the proofs know of the tables is said by assumptions, which TLC evaluates
for those of `RuntimeLibrary`: `HeldAssumption`, that each body pops what it
pushed; `BracketsAssumption`, that each but the unboxed `Lclone` calls
`__post_gc` behind its `__pre_gc`; `BeforeAssumption`, that `Before[f]` bounds
the number of roots in the pool when `f` is called, and that a push beyond the
pool's limit happens only in a body that makes `MaxRoots` pushes by itself.
`RootsSuffice` says just that of every reachable state: the exit of
`push_extra_root` is taken only in such a function (`Bclosure` of many
variables), never because of what the callers hold.

`StaleAt` and `StaleAbove` are tables of the same kind: the variables that may be
stale before each step of a body, when the body is called with the top not set and
when it is called with the top set below it.  `RuntimeLibrary` computes them from
each body alone, and `StaleAssumption` says that they are right of one body (what a
collection may expose is covered at the next step, what is assigned is fresh), that
arguments fit the callee's tables, and that no body reads what its table lists but
those of `Offenders`.  `WorkAssumption` says that a body allocates only between its
`__pre_gc` and `__post_gc` and does no more work behind a call in which it might be
the first to have set the top.

### 2.6 ValueComparison, LamaValues, StringBuffer, ConstructorTags and LibraryValues

Values are records; a string may hold a NUL, where C's functions stop.
Arithmetic is in words of `HalfWord * HalfWord` numbers (2^32 in the code).  What
is recursive in the code is a function on values (`compare` on pairs of them,
`inner_hash`): the result for a value is put together by an operator (`Compared`,
`Hashed`) from the results for its elements.  `Data` is any set of values, with
their elements, that are nested to a finite depth (`DataAssumption`): the program's
memory is finite, and on a value that contains itself the code does not return.
`Lcompare`'s short cut for one and the same object is the result it computes for
equal ones anyway.  `Lcompare` boxes the boxed result of a component again, as the
code does; `Small` says which numbers may occur at which depth for the order to
hold, and is tight: with `Words \div 8 + 1` for its bound the run finds
`CompareOrders` violated.  Of `strcmp` C promises only the sign (`CharOrder`); its
distance from 0 is the constant `Apart`, any number up to `MaxApart`, which must
be below half a word for the box of it to tell equal from unequal, and belongs to
the numbers that `Small` bounds.  Printing is the sequence of texts passed to
`printStringBuf`; `StringBuffer` puts them into a block one call at a time, with
`vsnprintf`'s cut and the second attempt behind `realloc`.  It knows nothing of
values: `BufferNext` prints any texts of `Printable` characters, and every step of
`LibraryValues` that changes the buffer is one of its steps, since a value's texts
are made of such characters (`PrintedAssumption`, which TLC evaluates for every
value of the run).  `LibraryValues` makes one call and stops (the bound `Ready`):
none of these functions leaves anything behind for the next.  Each of its steps is one
of `CompareSpec`, of `BufferSpec` or of `TagSpec` and leaves the variables of the other
two alone.  In `ConstructorTags` a name is a sequence of positions in the
table `chars`, with one more for all characters that are not in it; the failures of
`LtagHash`, which end the process, are the result -1.

### 2.7 StaticAnalyzer

The file's code is a sequence of signed bytes; `program` is the history of which
instructions they were.  Keys of the map are pairs of an index and a length, as
in the code, compared by the bytes they denote.  What a compiled file looks like is
`ProgramsAssumption`.  `std::sort` may leave equal
elements in any order.  The walk starts at the first byte of the code, as `main`
means it to; it is not composed with the analyzer's `read_file`, whose `code_ptr`
leads elsewhere because its struct does not fit the file's header (`Bytefile`, run
`bytefile_analyzer`, section 5).  What is checked and proved of the walk and the
report is therefore about a loader that finds the code, not about what the program
prints of a file today.  In `MCAnalyzer` either the analyzer walks over code or
the interpreter's `read_file` reads a file.

### 2.8 PointerChase and L1Probe

`L1Cache` is the machine: sets of lines, the least recently used replaced.
`PointerChase` builds a ring in any of several orders and follows it twice, as
`measure` does; array and cache keep what earlier rings left.  Its property
`MissesByPlace` is what `L1Probe` takes a measurement to be (`Time`), so that the
search needs no ring; it is about rings with one index in each line, as the runs'
`Rings` and the larger steps of the program are.  `L1Probe` then makes the measurements one by one, with the
code's maps and its order of evaluation; one measurement of a run may be
disturbed.  Times for the line size are arbitrary.

`get_cache_size_and_associativity` compares a ring with the array before it builds
it, and so does `generate_test_array` here.  `get_cache_line` compares nothing: its
rings take `cache_size` bytes for each line guessed in a way (`Reach`), which with
the first guess of 8 bytes is 16 MiB for a cache of 32 KiB and 8 ways and 24 MiB for
the 48 KiB and 12 ways of the measurements in `main.cpp`, inside the array of 32 MiB,
but 64 MiB for 64 KiB and 8 ways and 128 MiB for 4.  `PointerChase` builds such rings
too, and follows nothing after a write beyond the end (`Overrun`); `ArrayBounds` says
that it happens in exactly the rings of which `Reach` says so.  In `L1Probe` the
search ends there in the phase "outside" (`Outside`), and `OverrunForeseen` says
that whether it does is decided by the machine at the first guess: on a measurable
machine no later ring and no disturbance makes the difference.  `RingsAssumption`
says only that the rings for a line are of whole words, and a way of whole lines.
`ShufflesAssumption` says that `std::shuffle` rearranges.

`ProbeAssumption` is what the search relies on and the program's constants satisfy:
associativities below `MAX_ASSOC` (32) are less than three doublings of
`MIN_ASSOC` (4), as the threshold of 1.2 demands; the smallest way (1024 bytes) is a
number of lines; a miss takes at least twice the time of a hit; fewer than half of
the epochs are disturbed.

### 2.9 Patterns, Bytefile

`Patterns` pushes arbitrary values and runs the tests on them; the values are
distinguished by what the tests look at; `AnswersAssumption` says only that 0 and 1
are integers.  `Bytefile` gives the struct's fields
as a constant; the file's words land behind the pointers in order, and the four
pointers are computed from the fields as each program declares them.

## 3. Runs

| Run | Question | Properties | Bounds |
|---|---|---|---|
| `stack_any` | do calls, closures, variables, addresses, objects and built-ins keep to the convention, for every program? | `TypeOK`, `CallingConvention`, `AddressesLive`, `CallerUntouched`, `ImplementsCalls` | 14 words, two objects, one global, integers -1 .. 0, one captured variable where the code has 32 |
| `stack_programs` | does the compiled recursive factorial compute it, does a closure keep its variable between two calls, and does every run end? | `FactorialResult`, `CounterResult`, `Terminates` | 16 integers, a stack that some inputs overflow |
| `root_scan` | are all and only the roots replaced, and does the loop end? | `TypeOK`, `RootsMoved`, `ScanEnds` | 4 words of 9 kinds |
| `pattern_tests` | does each test answer for the whole value? | `KindsTested`, `StringsOnly` | two operands, lengths 0 .. 2 |
| `heap` | does the heap implement a graph that only the program changes, and does `alloc` return? | `TypeOK`, `NoDangling`, `NoInternalError`, `HeapTiled`, `ImplementsGraph`, `AllocReturns` | 5 words growing to 10, three arenas, four or three roots |
| `runtime_calls` | are pool and top restored by every nesting of calls, and are stale variables left alone? | `TypeOK`, `PoolMatched`, `RootsSuffice`, `TopReset`, `ReadsFresh` | pool of 4, six frames, closures of 0, 2, 4 variables |
| `library` | are comparison, hash, names and printing what they should be? | `CompareEqual`, `CompareOrders`, `HashAgrees`, `TagNames`, `TextComplete`, `BufferRoom`, `TextPrinted` | words of 8 bits, nesting up to 5, `strcmp` up to 3 away from 0, a buffer of 2 bytes |
| `analyzer` | does the walk keep in step, is the report complete and in order; does the interpreter find the parts of its file? | `InStep`, `ReportComplete`, `ReportOrdered`, `PointersRight` | every opcode, up to four instructions before STOP; two public symbols |
| `l1_probe` | are rings one cycle, timed by place, which of them leave the array; is the answer the machine's? | `WholeRing`, `ArrayBounds`, `MissesByPlace`, `SizeRight`, `OverrunForeseen` | 24 machines, an array of 400 words, 3 epochs, ways of 16 .. 128 bytes, associativities 4 .. 14 |
| `pattern_names`, `bytefile_analyzer`, `heap_top` | disagreements, section 5 | `NamesRight`, `PointersRight`, `StackScanned` | |

*Why the bounds are enough.*  The hazards of the stack machine need a caller, a
callee and one call more: the stacks hold a function called from a function.
Those of the collector need two objects that refer to each other, a third to
fill the space, one collection that fits, one that needs a larger space and one
that starts again: five words hold an array of two and one of none, and the
third arena is the one `Restart` maps.  Lengths of strings are on both sides of
a word boundary.  The four words of the scan include the top, the bottom and two
between; its nine kinds of word cover each filter from both sides.  Six frames
hold the deepest chain of the library (`set_args` or code, `Lclone`, `Bstring`,
`LmakeString`) and two of the program's own; a pool of four overflows in a
closure of four variables and nowhere else, as 32 does in one of 32.  Words of
8 bits wrap within the nesting the values have.  A buffer of two bytes is
doubled several times within one value.  The array of 400 words holds the rings for
the line of some machines and not of others.  The machines have ways smaller, equal
and larger than the sizes tried, so that the jump is seen at one, two or three
of them; four machines with an associativity out of reach divide by zero, which
`SizeRight` leaves out by its condition `Measurable`.  With three epochs and
one disturbed measurement two are right.

*Deadlock* is not checked: every one of these programs may stop (main returns,
the process fails, the file is loaded, the scan is over).

*Fairness.*  Weak fairness of the scan's steps (`ScanEnds`), of the collector's
steps and of the constructor behind it (`AllocReturns`), of the machine's next
instruction (`Terminates`), of the printing of a value (`TextPrinted`): each is
a sequential program that goes on as long as it can.  Nothing is assumed of the client that decides what to execute.

Every property is also run against a mutant of the code, listed in
`PROJECT.json` and kept in the module beside the definition it changes: a
missing `drop`, an offset wrong by one, operands not reversed, a strict
comparison made weak, a forward pointer to the header, and so on.

## 4. Theorems

All proofs are checked by TLAPS to the last leaf.  They assume only the named
assumptions on the constants, which TLC evaluates in the runs.

* `StackProofs`.  The inductive invariant is `TypeOK /\ CallingConvention`.
  Neither half is inductive alone: that `fp` stays inside the stack after `END`
  follows from the saved frame pointer being linked, and the linking of frames
  needs the positions to be in range.  `CallingConvention` is a conjunction of
  predicates on one frame each (`Linked`, `ActivationOK`), so that an
  instruction disturbs only the frame at `fp`; it is proved once that a
  change above a frame, or of one variable cell, keeps the predicates of the
  frames below, and there is then one lemma per instruction.  From it follow
  `TypeCorrect` (no word outside the block), `CallingConventionHolds` (which
  includes that `eval` ends with main's result alone) and `CallersKept` (the action
  property that no callee touches its caller).  `AddressesStayLive` (an address
  that `LDA` pushed leads to a variable of an activation that has not returned)
  needs no other invariant: by the calling convention an address leads to a cell
  of the activation it lies in, and the proof is that frames are nested, so that
  such a cell is above every frame below and none is between.  All hold for every
  well-formed program, capacity, word width and number of objects.
* `StackRefinementProofs`.  `FlatStackImplementsCalls`: every step of the machine is
  a step of `LamaCalls`, or changes no activation.  The proof of `StackProofs`
  concludes of every instruction that it computes inside a frame, invokes, enters,
  returns, or leaves `stack`, `fp` and `ip` alone (`NextPreserves`), and there is one
  lemma for each.  They rest on the calling convention and on `CallersStay`:
  the callers of a frame are the same in two stacks that agree on the frame's saved
  words and below its arguments.  It holds by choosing the lowest frame at which it
  would not, since `CallersOf` is a recursive function.  `CallShape` is then that
  `reverse` and the two words pushed after it make, of the caller's last
  operands, arguments in the order they were pushed, the closure last; and
  `CallerResumes` that `END` cuts the stack so that the caller has its operands
  again, with one more.
* `RootScanProofs`.  The invariant says that the slots strictly between the top
  word and `eax` hold what they must after the scan, and all others what they
  held before; that a word already replaced is not tested again is what makes
  "once" true.  `ScanStaysOnStack` and `RootsAreMoved` follow for every depth,
  layout and contents.

* `RuntimeCallsProofs`.  It holds for any library: the tables of functions are
  constants, of which `HeldAssumption` says that each body pushes and pops its
  own variables in matching order (TLC evaluates it for the tables of
  `RuntimeLibrary`).  The invariant says that the pool is made of one segment per
  frame, that a frame's segment begins at its `base`, and that it holds what the
  body has pushed and not yet popped at that step, or nothing for the program's
  own frames; the first segment holds the global variables.  `TypeOK` and
  `PoolMatched` are not inductive without it: that `pop_extra_root` finds its
  root on top needs to know what the callee left, and the callee's balance needs
  its caller's segment below.  `TypeCorrect` and `PoolStaysMatched` follow for
  every depth of calls and every limit of the pool.

  `TopIsReset` adds to it that the frame `__gc_stack_top` was set by is between
  its `__pre_gc` and its `__post_gc` and that frames of the program lie below it
  (so that the program never runs while it is set); `RootsAreEnough` that each
  frame's base in the pool is at most `Before` of its function.

  `OnlyOffendersMisread` is the soundness of that local reckoning: for every
  library whose bodies satisfy the assumptions one by one, `ReadsFresh` holds of
  every nesting of calls, with a collection in any allocation.  Its invariant
  `StaleInv` divides the frames by `__gc_stack_top`: those at it and below are
  *outer* and are bounded by `StaleAt`, those above by `StaleAbove`, each with what
  a collection in the call the frame stands at may add; the program's own frames
  have nothing stale.  That needs to be known together with three more facts:
  whoever is between `__pre_gc` and `__post_gc` and may still allocate has the top
  at its frame or below (`AllWorking`, so that a collection never runs with no top),
  each frame is one its caller's step calls (`AllCalled`, from which the callee's
  parameters are bounded), and a top left behind, or the interpreter's own, has the
  program at the bottom (`Beginning`).  After a `Lclone` of an unboxed value only
  the outer frames are bounded, since the rest reads with `left` to blame; the next
  `__post_gc` in a frame at that depth resets the top, and the bounds must hold
  again from there on.

* `HeapProofs`.  `HeapInvariant` holds in every state, in the middle of a
  collection too.  It says that there are two maps, `B` from the positions of the
  objects of the from-space to their headers, and `C` likewise for the copies made
  so far, such that: the blocks of `B` tile the words in use and those of `C` the
  words copied (`Layout`); an object not yet copied still has its header, and a
  copied one the address of its copy in the header's place, each copy being of one
  object with the same header (the map is injective); every word of an object or
  a copy is what its kind allows; what a frame of `copy_elements` has
  passed leads to copies and what is before it to objects of the from-space, and
  the same for the words of the stack and the extra roots before and behind
  `root`.  From this, by volume: the words copied are at most those of the
  forwarded objects, which are disjoint blocks of the words in use, so that the
  next copy fits.  `NoInternalError` is not inductive without all of it.
  `CopiesFit` follows, for spaces of any size, any number of restarts, objects of
  any size and any graph; `TypeCorrect` and `HeapIsTiled` follow without any
  hypothesis on the client, `NothingDangles` under `Careful`, which the run
  `heap_top` shows to be necessary.  The objects a walk finds (`Begins`, a
  recursive function) are those of `B`: this is an induction over the steps of the
  walk, made by choosing the least step at which the two would differ.

* `LibraryProofs`.  *Patterns.*  The invariant says that the operands are values and that the
  last answer is right for the value it was asked about, whatever the next
  instruction makes of the stack.  `KindsAreTested` and `StringsOnlyAnswered`
  follow for all sets of integers, contents and constructors and all lengths.
  *The buffer.*  `BufferInv` says that the texts still to be printed are the last of
  those of the call, that the block begins with all the others one behind the other,
  shorter than the block, and that a 0 follows when none is left; not when a text
  has just been cut off, for `extendStringBuf` leaves its beginning there.  That the
  text is printed from its start again, over that beginning, is what the induction
  turns on.  `TextIsComplete` and `BufferHasRoom` follow for texts of any number
  and length and a block of any first size.
  *The names.*  The hash of a name's first characters is a sum of the characters by
  their weights.  What is left of it when the last `d` are divided off is the hash of
  those before (`HashBehind`), so `de_hash` finds each of them, and it stops too early
  exactly if the first one is worth 0 (`HashOfFirst`).  `TagsAreNames` follows for
  names of any length.  `HashWithin` is a function on the characters counted, of which
  there are five, so that it exists is shown by building it.
  *Values.*  All that is defined over the parts of values exists because values are
  finite (`CompareDefined` and four more: of the nestings up to which there is no such
  function, there would be a least one), and what is said of all values is proved by
  the least nesting of one that it would be false of.  *Equality*: every result of
  `Lcompare` is odd, and it is the box of 0 exactly for values that are equal up to the
  first 0 of their strings (`Decided`).  A difference of two numbers of a header is
  smaller than half a word, and boxing a number gives the box of 0 only for a multiple
  of half a word, which no odd number is (`BoxNotZero`): this is why equality survives
  any number of boxes, and `ComparesEqual` follows without any bound on the numbers
  but that of `strcmp`'s result, half a word (`StrcmpIs`).  *Hashes*: values that
  are equal in this sense, and whose strings are as long, are hashed from the same
  numbers at every depth and from every start (`HashedAlike`; `HashesAgree`).
  *Order*: with the numbers within `b`, and those of the elements within half of it,
  no result leaves the range `-4b .. 4b - 1` (`Kept`), so that boxing loses
  nothing and the sign of a result is that of the first difference.  Headings, strings
  and elements are then each compared by a first difference (`Leads`), and what holds
  of the sequences' members, that an order is reversed by exchanging the values and
  followed through a third, holds of the first difference (`LeadsNegated`,
  `LeadsFollow`); from this, by nesting, `Reversed`, `Chained` and `ComparesInOrder`.

* `ChaseProofs`.  The indices of both kinds of rings are pairwise different and
  below `MAX_SIZE` (arithmetic with products and remainders, for all sizes);
  shuffling all but the first keeps that.  The invariant of the loops says for
  some such order `b` that `array` leads along `b`, and that the loop that fills
  the cache has read exactly the first `Len(b) - left` of its indices and stands
  at the next: a ring that closed early, as one made of two cycles would, has no
  such `b`.  `RingsAreWhole` follows, whatever earlier rings left in the array.

  `RingsThatOverrun` is about the array's end, with no assumption on how long a ring
  is.  A ring of the size phase lies below `size * step` bytes, which the code has
  compared; the last index of a ring for the line is the last word below `Reach`
  (`ReachesTo`), so that one with a longer `Reach` writes outside and any other stays
  inside.  That nothing is built behind a write outside is what makes the array's
  contents tell of the last ring alone.  `OverrunIsForeseen` joins this to the search:
  by `SizeIsRight`'s invariant the rings for the line are those of the machine's own
  size and ways, and a longer guess of the line never reaches further than the first
  (`ShorterReach`), so that an epoch whose first ring fits has no ring that does not.

  `MissesAreByPlace` adds the cache, of any number of sets, ways and bytes
  (`Geometry`).  `TimedInv` says of each set what the reads so far make certain
  (`Lru`), with `Order` the order in which the positions of the ring were read last:
  behind a line of the ring there are only such as were read later, and if a line
  that has been read is missing, the set is full of such.  Nothing is said of the
  lines in front, which an earlier measurement left.  That is kept by taking a line
  out, dropping the first and putting one at the end; and where the whole ring has
  been read it says that the line read longest ago is there just if the set can hold
  all its lines (`LruHit`), so that each read of the timed loop misses by its place.
  `misses` is then the number of crowded indices times the rounds, and those among
  the first indices of the present one.

  `SizeIsRight` is about the search.  A ring whose step is the r-th part of a way
  has no misses up to `r * ways` indices and more than `ways` of them with two more
  (`TimeWithin`, `TimeBeyond`), so there is a jump exactly there, at the machine's
  size; beyond it others may follow.  A ring whose step is r ways misses never or
  always (`TimeOfWays`).  The invariant of an undisturbed epoch, `EpochInv`, says
  that no size has more jumps than the right one (`Ahead`), at any moment of the
  search: at a step shorter than a way the right size is told before any other,
  once each is; the step of one way tells it alone, which puts it in front; of the
  longer steps each tells one size, once.  At a step of one way
  `min_assoc_for_cache` gets its last and right value.  `EpochsInv` counts the
  epochs: as many answers as there were disturbances may be wrong, so the right
  one has most.  That the last choice is well defined needs that of the answers with
  most epochs there is a first, the least-number principle (`Least`).

* `BytefileProofs`.  What the compiler writes is the assumption
  `ProgramsAssumption`: an opcode with one, two or no ints, a `CLOSURE` whose
  length its own operand tells, bytes that are no opcode, and STOP at the end.
  The first lemmas are about `FlattenSeq`, a fold: where in the file the n-th
  instruction lies and which bytes are there (each by choosing the least n at
  which it would not be so).  With them `disassemble_instruction` at the n-th
  boundary leads to the next one.  `AnalyzerInv` says of every state how many
  instructions are behind `ip`, that each key of the map names one of them, that
  no two keys name the same bytes, and that each count is the number of
  occurrences so far; behind the loop the same of the whole file, and that
  sorted and printed together are one arrangement of the map's statistics.  That
  two keys with the same bytes never both stand in the map is the content of
  `operator<`: neither of two byte strings is less exactly when they are equal.
  `WalkInStep`, `ReportIsComplete` and
  `ReportIsOrdered` follow for files of any length.  `PointersLead` is about
  files with any number of public symbols, under the hypothesis that the struct is
  the interpreter's; `bytefile_analyzer` shows it false of the other one.

*Only model-checked.*  `ImplementsGraph` (its mapping numbers the objects of the
heap breadth first); the results of the two compiled programs, which are about those
programs.  That a value's texts are printable (`PrintedAssumption`), since `printValue`
is declared `RECURSIVE`, which the prover does not reach.  Liveness (`Terminates`,
`ScanEnds`, `AllocReturns`, `TextPrinted`) is out of the prover's reach.

## 5. Disagreements found

1. `gc_runtime.s:63`: the scan leaves the top word out, against the comment at
   54-56.  The interpreter's `__gc_stack_top` is the address of its top operand,
   so an object that is the top operand during a collection is lost: two
   constructors in a row suffice (`heap_top`).
2. `iterative_interpreter.cpp:378-383`: 0x63 runs the boxed test and 0x64 the
   S-expression test; `byterun.c:85` names them `#sexp` and `#ref`
   (`pattern_names`).
3. `static-analyzer/include/byterun.h:18`: `bytecode_size` stands between two
   header fields, so the file is read out of step with the struct
   (`bytefile_analyzer`).

The README of the interpreter and the regression programs exercise none of
these: spaces are 2^28 words and never collected there, programs do not match on
boxed values that are no S-expressions, and the analyzer's output is not tested.

## 6. Not modelled, and why

* The text of disassembled instructions, and the interpreter's own copy of the
  disassembler, which only its debugging prints use.
* Globals as roots: `gc_root_scan_data` walks an empty section, the globals are
  in a `malloc` block, so nothing refers to them in the heap model.  An object
  held only by a global is lost at a collection by the same argument as in
  `heap_top`.
* The values of the C stack's words that `Bclosure_arr` takes for extra roots:
  which words they are is modelled, what a collection does to them is not.
* `strcpy` in `gc_copy`, which cuts a string at an embedded NUL.
* `enable_GC`, which `gc` asks first: it is 1 from the start, and only a call of
  `LdisableGC` changes it, which no byte code instruction and no function of the
  runtime makes.
* What an ill-typed program does after it has left its objects (`Astray`).
* Collection of interior pointers that `LDA` of a captured variable pushes: the
  address is even and inside the from-space, and `gc_copy` would take the word
  before it for a header.  `StackMachine` and `MarkCopy` are not composed.
* Substrings, regular expressions, files, environment, time, random numbers:
  the C library's work.  What their functions do to the collector's roots is in
  `RuntimeLibrary`.
* Lists whose tail is boxed and no cell (which `printValue` reads as if it were one),
  cells without components, and values that are neither integers
  nor heap objects, in printing, comparing and hashing.
* Whether the probe's line size is the machine's: on a cache that replaces the
  line least recently used the time falls by degrees, and where it first falls
  by a fifth depends on the cost of a miss.
* The Truffle language: `LamaLanguage.kt` names classes that no file declares,
  assigns to `val`s and calls `putIfAbsent` of a read-only `Map`; what it would
  do is not determined by its source.
* Makefiles and the Lama programs under `regression` and `performance`, read as
  evidence of what the code is for.

## 7. What could follow

A composition of `StackMachine` and `MarkCopy`, with globals, captured addresses
and uninitialised locals as the collector sees them; a proof that the heap
implements `ObjectGraph`.
