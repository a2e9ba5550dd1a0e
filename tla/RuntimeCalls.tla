------------------------------- MODULE RuntimeCalls -------------------------------
(***********************************************************************************)
(* Calls of the runtime's functions, and how they keep the collector informed      *)
(* (runtime.c, gc_runtime.s).  A function that allocates brackets its work by      *)
(* __pre_gc and __post_gc, which set __gc_stack_top to the frame of the outermost  *)
(* such function, and pushes the addresses of its variables on the pool of extra   *)
(* roots.  A collection moves every object and corrects the words it finds: those  *)
(* between __gc_stack_top and the stack's bottom and those in the pool.  Any other *)
(* variable is left with a stale address.                                          *)
(*                                                                                 *)
(* The C stack is a sequence of frames.  What a function does is a sequence of     *)
(* steps, of which only those that matter here are listed (module RuntimeLibrary). *)
(***********************************************************************************)
EXTENDS Integers, Sequences, SequencesExt, FiniteSets

CONSTANTS
  Functions,    \* the functions of the runtime
  Starters,     \* those of them the program starts with
  Mutators,     \* functions of the program itself: compiled code, the loop of eval
  Body,         \* function -> its steps
  Params,       \* function -> the variables that are its parameters, in order
  Variables,    \* function -> all its variables that hold pointers
  Calls,        \* mutator -> the functions it calls, with any of its values
  Held,         \* function -> before each step, the variables it has in the pool
  Before,       \* function -> a number of roots the pool never exceeds when it is called
  Offenders,    \* calls known to read stale variables: <<caller, function>>
  StaleAt,      \* function -> before each step, its variables that may be stale,
  StaleAbove,   \*   called with top not set; called with top already set
  MaxRoots,     \* MAX_EXTRA_ROOTS_NUMBER
  MaxDepth      \* bound: frames on the C stack

VARIABLES
  frames,    \* activations, innermost last: [fn, at, base, stale]
  roots,     \* extra_roots: the owner's frame and variable of each root, first pushed first
  top,       \* __gc_stack_top: a frame, None, or VM (the interpreter's own stack)
  left,      \* history: the function that returned without resetting top, or ""
  misread,   \* history: the stale variable the last step has read: [by, fn, v]
  status     \* "run", or why the process ended

vars == <<frames, roots, top, left, misread, status>>

NoMisread == [by |-> "", fn |-> "", v |-> ""]

None == 0
VM   == -1

(* Steps: op, the variable it is about, the function called and its arguments.     *)
Step(op, v, f, args) == [op |-> op, v |-> v, f |-> f, args |-> args]
StepNames == {"pre", "post", "push", "pop", "alloc", "call", "read", "let", "global"}

Var   == UNION {Variables[f] : f \in Functions \cup Mutators}
Steps == [op : StepNames, v : Var \cup {""}, f : Functions \cup {""}, args : Seq(Var \cup {""})]

ASSUME TablesAssumption ==
  /\ Functions \cap Mutators = {} /\ {"code", "eval"} \subseteq Mutators
  /\ "" \notin Functions \cup Mutators
  /\ Starters \subseteq Functions
  /\ Body \in [Functions -> Seq(Steps)]
  /\ Params \in [Functions \cup Mutators -> Seq(Var)]
  /\ Calls \in [Mutators -> SUBSET ((Functions \ Starters) \cup Mutators)]
  /\ MaxRoots \in Nat

(* Each body pushes and pops its roots in matching order, and only what the program*)
(* starts with adds a global root, which it does when it holds none of its own.    *)
ASSUME HeldAssumption ==
  \A f \in Functions :
    /\ Held[f] \in [1 .. Len(Body[f]) + 1 -> Seq(Var)]
    /\ Held[f][1] = <<>> /\ Held[f][Len(Body[f]) + 1] = <<>>
    /\ \A i \in 1 .. Len(Body[f]) :
         LET step == Body[f][i] IN
         /\ step.op \in {"push", "pop", "alloc", "read", "let", "global"} => step.v # "" /\ step.v \in Var
         /\ step.op = "call" => step.f \in Functions \ Starters
         /\ step.op = "global" => f \in Starters /\ Held[f][i] = <<>>
         /\ step.op = "push" => Held[f][i + 1] = Append(Held[f][i], step.v)
         /\ step.op = "pop"  => Held[f][i] = Append(Held[f][i + 1], step.v)
         /\ step.op \notin {"push", "pop"} => Held[f][i + 1] = Held[f][i]

(* The work of every body but one is closed by a __post_gc.                        *)
ASSUME BracketsAssumption ==
  \A f \in Functions \ {"Lclone_unboxed"} : \A i \in 1 .. Len(Body[f]) :
    Body[f][i].op = "pre" => \E j \in i + 1 .. Len(Body[f]) : Body[f][j].op = "post"

(* Each body pushes more roots than are left, counting from Before, only if it     *)
(* would do so with an empty pool; the program calls functions with no more than   *)
(* the one global root, which is pushed last.                                      *)
Pushes(f) == Cardinality({i \in 1 .. Len(Body[f]) : Body[f][i].op = "push"})

ASSUME BeforeAssumption ==
  /\ Before \in [Functions -> Nat]
  /\ \A m \in Mutators : \A f \in Calls[m] \cap Functions : Before[f] >= 1
  /\ \A f \in Functions : \A i \in 1 .. Len(Body[f]) :
       LET step == Body[f][i]  held == Before[f] + Len(Held[f][i]) IN
       /\ step.op = "call" => held <= Before[step.f]
       /\ step.op \in {"push", "global"} /\ held >= MaxRoots => Pushes(f) >= MaxRoots
       /\ step.op = "global" => i = Len(Body[f])

(* Where a body is between its __pre_gc and the next __post_gc.  It allocates only *)
(* there, and not behind a call, but for what the program starts with; Lclone of an*)
(* unboxed value is called by the program alone.                                   *)
Inside(f, i) == \E j \in 1 .. i - 1 :
  Body[f][j].op = "pre" /\ \A l \in j + 1 .. i - 1 : Body[f][l].op # "post"

Spent(f, i) == \A j \in i .. Len(Body[f]) : Body[f][j].op \notin {"alloc", "call"}

ASSUME WorkAssumption ==
  \A f \in Functions : \A i \in 1 .. Len(Body[f]) :
    /\ Body[f][i].op = "alloc" => Inside(f, i)
    /\ Body[f][i].op = "call"  => Body[f][i].f # "Lclone_unboxed"
    /\ Body[f][i].op = "call" /\ f \notin Starters => Spent(f, i + 1)

(* What a body alone tells of its stale variables.  A collection in an allocation  *)
(* or a call adds those neither in the pool nor on the part of the stack that is   *)
(* scanned; a new value is not stale; a stale argument makes a stale parameter.    *)
Exposed(f, i, scanned) ==
  IF Body[f][i].op \in {"alloc", "call"}
  THEN Variables[f] \ (ToSet(Held[f][i]) \cup scanned) ELSE {}

Renewed(step) == IF step.op \in {"alloc", "call", "let"} THEN {step.v} ELSE {}

Passed(f, args, stale) ==
  {Params[f][j] : j \in {k \in 1 .. Len(Params[f]) : k <= Len(args) /\ args[k] \in stale}}

Covers(table, f, scanned) ==
  /\ table[f] \in [1 .. Len(Body[f]) + 1 -> SUBSET Var]
  /\ \A i \in 1 .. Len(Body[f]) :
       (table[f][i] \cup Exposed(f, i, scanned)) \ Renewed(Body[f][i]) \subseteq table[f][i + 1]

(* A function that reads no stale variable, wherever top was set.                  *)
Fresh(f) == \A i \in 1 .. Len(Body[f]) : Body[f][i].op = "read" => Body[f][i].v \notin StaleAbove[f][i]

(* With top not set, only what the program starts with reads a stale variable, and *)
(* with top set only a function called by one it is an offender with.              *)
ASSUME StaleAssumption ==
  \A f \in Functions :
    /\ Covers(StaleAt, f, ToSet(Params[f])) /\ Covers(StaleAbove, f, {})
    /\ \A i \in 1 .. Len(Body[f]) :
         LET step == Body[f][i] IN
         /\ step.op = "read" /\ step.v \in StaleAt[f][i] => f \in Starters /\ <<"", f>> \in Offenders
         /\ step.op = "call" =>
              LET above == Passed(step.f, step.args, StaleAbove[f][i])
                  at    == Passed(step.f, step.args, StaleAt[f][i])
              IN  /\ at \subseteq StaleAt[step.f][1] /\ at \cup above \subseteq StaleAbove[step.f][1]
                  /\ <<f, step.f>> \in Offenders \/ Fresh(step.f)
    /\ f \in Calls["eval"] => <<"eval", f>> \in Offenders \/ Fresh(f)

(* The interpreter's operands are on its own stack.                                *)
ASSUME EvalAssumption == Calls["eval"] \subseteq Functions /\ Variables["eval"] = {}

-----------------------------------------------------------------------------------
Depth    == Len(frames)
Current  == frames[Depth]
InBody   == Current.fn \in Functions /\ Current.at <= Len(Body[Current.fn])
This     == Body[Current.fn][Current.at]
Doing(op) == status = "run" /\ frames # <<>> /\ InBody /\ This.op = op

(* The current step is done, and these are the variables that are stale now.       *)
Done(stale) ==
  frames' = [frames EXCEPT ![Depth] = [Current EXCEPT !.at = @ + 1, !.stale = stale]]

(* __pre_gc and __post_gc.  A top that was left behind is the address of a frame   *)
(* that is gone: a frame at the same depth may have it again, or not.              *)
Pre ==
  /\ Doing("pre") /\ top' = (IF top = None THEN Depth ELSE top)
  /\ Done(Current.stale) /\ UNCHANGED <<roots, left, status>>

(* Mutant of Post: the outermost function does not reset top.                      *)
Post_Never ==
  Doing("post") /\ Done(Current.stale) /\ UNCHANGED <<roots, top, left, status>>

Post ==
  /\ Doing("post")
  /\ \/ top = Depth /\ top' = None /\ left' = ""
     \/ (top # Depth \/ left # "") /\ UNCHANGED <<top, left>>
  /\ Done(Current.stale) /\ UNCHANGED <<roots, status>>

(* Mutant of Push: the pool's size is not checked.                                 *)
Push_Unchecked ==
  /\ Doing("push")
  /\ roots' = Append(roots, <<Depth, This.v>>) /\ Done(Current.stale)
  /\ UNCHANGED <<top, left, status>>

(* push_extra_root.                                                                *)
Push ==
  /\ Doing("push")
  /\ IF Len(roots) >= MaxRoots
     THEN status' = "overflow" /\ UNCHANGED <<frames, roots>>
     ELSE roots' = Append(roots, <<Depth, This.v>>) /\ Done(Current.stale) /\ UNCHANGED status
  /\ UNCHANGED <<top, left>>

(* Mutant of Pop: the root is compared, but stays in the pool.                     *)
Pop_Stays ==
  /\ Doing("pop")
  /\ IF roots # <<>> /\ Last(roots) = <<Depth, This.v>>
     THEN Done(Current.stale) /\ UNCHANGED status
     ELSE status' = "mismatch" /\ UNCHANGED frames
  /\ UNCHANGED <<roots, top, left>>

(* pop_extra_root.                                                                 *)
Pop ==
  /\ Doing("pop")
  /\ IF roots = <<>>
     THEN status' = "empty" /\ UNCHANGED <<frames, roots>>
     ELSE /\ roots' = Front(roots)
          /\ IF Last(roots) = <<Depth, This.v>>
             THEN Done(Current.stale) /\ UNCHANGED status
             ELSE status' = "mismatch" /\ UNCHANGED frames
  /\ UNCHANGED <<top, left>>

(* set_args leaves a root in the pool that is not its own: a global variable.      *)
Global ==
  /\ Doing("global")
  /\ IF Len(roots) >= MaxRoots
     THEN status' = "overflow" /\ UNCHANGED <<frames, roots>>
     ELSE /\ roots' = Append(roots, <<0, This.v>>)
          /\ frames' = [frames EXCEPT ![Depth] = [Current EXCEPT !.at = @ + 1, !.base = @ + 1]]
          /\ UNCHANGED status
  /\ UNCHANGED <<top, left>>

-----------------------------------------------------------------------------------
(* Mutant of Scanned: the scan begins behind the parameters of the frame at top.   *)
Scanned_NoParams(i, v) == top # VM /\ i < top

(* A collection finds variable v of frame i: all of the frames above top, and the  *)
(* parameters of the frame at top, which lie above its %ebp.                       *)
Scanned(i, v) == top # VM /\ (i < top \/ (i = top /\ v \in ToSet(Params[frames[i].fn])))
Found(i, v)   == Scanned(i, v) \/ <<i, v>> \in ToSet(roots)

Collected(i) == [frames[i] EXCEPT !.stale = @ \cup {v \in Variables[frames[i].fn] : ~Found(i, v)}]

(* alloc, with or without a collection; what it returns is stored in a variable.   *)
Alloc ==
  /\ Doing("alloc")
  /\ \E collects \in BOOLEAN :
       frames' = [i \in 1 .. Depth |->
                    LET frame == IF collects THEN Collected(i) ELSE frames[i] IN
                    IF i = Depth THEN [frame EXCEPT !.at = @ + 1, !.stale = @ \ {This.v}]
                    ELSE frame]
  /\ UNCHANGED <<roots, top, left, status>>

(* A variable is read, or given a new value.                                       *)
Caller == IF Depth > 1 THEN frames[Depth - 1].fn ELSE ""

(* Who is to blame for a stale variable v of the current function.                 *)
Misread(v) == [by |-> IF left # "" THEN left ELSE Caller, fn |-> Current.fn, v |-> v]

Read ==
  /\ Doing("read") /\ Done(Current.stale)
  /\ misread' = IF This.v \in Current.stale THEN Misread(This.v) ELSE NoMisread
  /\ UNCHANGED <<roots, top, left, status>>

Let ==
  /\ Doing("let") /\ Done(Current.stale \ {This.v})
  /\ UNCHANGED <<roots, top, left, status>>

-----------------------------------------------------------------------------------
Enter(f, stale) ==
  /\ Depth < MaxDepth
  /\ frames' = Append(frames, [fn |-> f, at |-> 1, base |-> Len(roots), stale |-> stale])
  /\ UNCHANGED <<roots, top, left, status>>

Call == Doing("call") /\ Enter(This.f, Passed(This.f, This.args, Current.stale))

(* The end of the body: the caller stores the result, which is a new object.       *)
Return ==
  /\ status = "run" /\ Current.fn \in Functions /\ Current.at = Len(Body[Current.fn]) + 1
  /\ frames' =
       IF Depth = 1
       THEN <<[fn |-> "code", at |-> 1, base |-> Len(roots), stale |-> {}]>>
       ELSE LET caller == frames[Depth - 1] IN
            Append(SubSeq(frames, 1, Depth - 2),
                   IF caller.fn \in Mutators THEN [caller EXCEPT !.stale = {}]
                   ELSE [caller EXCEPT !.at = @ + 1,
                                       !.stale = @ \ {Body[caller.fn][caller.at].v}])
  /\ left' = IF top = Depth /\ left = "" THEN Current.fn ELSE left
  /\ UNCHANGED <<roots, top, status>>

-----------------------------------------------------------------------------------
(* The program: it calls the runtime and its own functions, returns from them and  *)
(* reads its variables.                                                            *)
Running == status = "run" /\ Current.fn \in Mutators

MutatorCalls ==
  /\ Running
  /\ \E f \in Calls[Current.fn] :
       Enter(f, IF Current.stale = {} \/ f \in Mutators THEN {} ELSE ToSet(Params[f]))

MutatorReturns ==
  /\ Running /\ Depth > 1
  /\ frames' = SubSeq(frames, 1, Depth - 1)
  /\ UNCHANGED <<roots, top, left, status>>

MutatorReads ==
  /\ Running /\ Current.stale # {}
  /\ \E v \in Current.stale : misread' = Misread(v)
  /\ UNCHANGED <<frames, roots, top, left, status>>

-----------------------------------------------------------------------------------
(* Compiled code begins with set_args; the interpreter is in eval.                 *)
Started(f) == <<[fn |-> f, at |-> 1, base |-> 0, stale |-> {}]>>

Init ==
  /\ \/ (\E f \in Starters : frames = Started(f)) /\ top = None
     \/ frames = Started("eval") /\ top = VM
  /\ roots = <<>> /\ left = "" /\ misread = NoMisread /\ status = "run"

Next ==
  \/ Read \/ MutatorReads
  \/ /\ \/ Pre \/ Post \/ Push \/ Pop \/ Global \/ Alloc \/ Let \/ Call \/ Return
        \/ MutatorCalls \/ MutatorReturns
     /\ misread' = NoMisread

Spec == Init /\ [][Next]_vars

-----------------------------------------------------------------------------------
(* Every variable has its type, and a frame's roots lie above its base.            *)
Frame == [fn : Functions \cup Mutators, at : Nat, base : Nat, stale : SUBSET Var]

TypeOK ==
  /\ frames \in Seq(Frame) \ {<<>>}
  /\ roots \in Seq(Nat \X Var) /\ Len(roots) <= MaxRoots
  /\ top \in {None, VM} \cup Nat /\ left \in Functions \cup {""}
  /\ misread \in [by : Functions \cup Mutators \cup {""}, fn : Functions \cup Mutators \cup {""},
                  v : Var \cup {""}]
  /\ status \in {"run", "overflow", "empty", "mismatch"}

(* "stack invariant violation" and "extra_roots are empty" are never reported: every*)
(* function pops exactly what it pushed, in the opposite order, whatever it calls  *)
(* in between, and the program never runs with a root of the runtime in the pool,  *)
(* but for the global variable of set_args (pop_extra_root).                       *)
PoolMatched ==
  /\ status \notin {"empty", "mismatch"}
  /\ Running => \A i \in DOMAIN roots : roots[i][1] = 0

(* The pool overflows only in a function that fills it alone: closures of too many *)
(* captured variables (push_extra_root).                                           *)
RootsSuffice ==
  status = "overflow" => Pushes(Current.fn) >= MaxRoots

(* The program never runs with __gc_stack_top set, which makes the collector look  *)
(* past its frames: each outermost function resets it, but for Lclone given an     *)
(* unboxed value (__pre_gc, __post_gc, Lclone).                                    *)
TopReset ==
  /\ left \in {"", "Lclone_unboxed"}
  /\ Running => top \in {None, VM} \/ left # ""

(* But for the calls listed in Offenders, and for anything after Lclone of an      *)
(* unboxed value, no function reads a variable that a collection has left behind:  *)
(* what it uses after an allocation is on the part of the stack that is scanned or *)
(* in the pool, whoever called it.                                                 *)
ReadsFresh ==
  misread # NoMisread => misread.by = "Lclone_unboxed" \/ <<misread.by, misread.fn>> \in Offenders
===================================================================================
