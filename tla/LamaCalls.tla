-------------------------------- MODULE LamaCalls ---------------------------------
(***********************************************************************************)
(* What the calling convention of the interpreter promises, without a stack of     *)
(* words: a sequence of activations, innermost last, each with arguments, locals   *)
(* and operands of its own.  Instructions work on the innermost activation; a call *)
(* hands over the caller's last operands as arguments, in the order they were      *)
(* pushed; a return leaves the caller as it was, with one operand more.            *)
(***********************************************************************************)
EXTENDS Naturals, Sequences, SequencesExt

CONSTANTS Undefined,     \* the value of what was never assigned
          MainPc,        \* where main starts
          Arity,         \* entry -> how many arguments the function was compiled for
          Callable(_)    \* the values that can be a closure

VARIABLES acts,    \* activations: [pc, args, locals, ops]
          result   \* <<>> until main returns, then <<its result>>

Activation(pc, as) == [pc |-> pc, args |-> as, locals |-> <<>>, ops |-> <<>>]

Init == acts = <<Activation(MainPc, <<Undefined, Undefined>>)>> /\ result = <<>>

Running == acts # <<>>
Inner   == Last(acts)
Outer   == Front(acts)

(* An instruction changes the innermost activation only, and neither how many      *)
(* arguments nor how many locals it has.                                           *)
Instruction ==
  /\ Running /\ acts' # <<>> /\ Front(acts') = Outer
  /\ Len(Last(acts').args) = Len(Inner.args)
  /\ Len(Last(acts').locals) = Len(Inner.locals)
  /\ UNCHANGED result

(* The prologue makes room for the locals, which have no value yet.                *)
Prologue ==
  /\ Running /\ Inner.locals = <<>> /\ Inner.ops = <<>>
  /\ acts' # <<>> /\ Front(acts') = Outer
  /\ Last(acts').args = Inner.args /\ Last(acts').ops = <<>>
  /\ \A j \in DOMAIN Last(acts').locals : Last(acts').locals[j] = Undefined
  /\ UNCHANGED result

(* The last n operands become the arguments of a function of n; when a closure is  *)
(* called it lies below them and becomes one more argument, the last.              *)
Invoke(n, c) ==
  LET m == Len(Inner.ops) IN
  /\ acts' # <<>> /\ Last(acts').pc \in DOMAIN Arity /\ Arity[Last(acts').pc] = n
  /\ n + c <= m /\ (c = 1 => Callable(Inner.ops[m - n]))
  /\ Len(acts') = Len(acts) + 1
  /\ Front(acts') = Outer \o
       <<[Inner EXCEPT !.pc = acts'[Len(acts)].pc, !.ops = SubSeq(@, 1, m - n - c)]>>
  /\ Last(acts') = Activation(Last(acts').pc,
       SubSeq(Inner.ops, m - n + 1, m) \o SubSeq(Inner.ops, m - n - c + 1, m - n))
  /\ UNCHANGED result

Invocation == Running /\ \E n \in 0 .. Len(Inner.ops), c \in {0, 1} : Invoke(n, c)

Return ==
  /\ Running /\ Inner.ops # <<>>
  /\ LET r == Last(Inner.ops) IN
     IF Outer = <<>>
     THEN acts' = <<>> /\ result' = <<r>>
     ELSE /\ acts' = Front(Outer) \o <<[Last(Outer) EXCEPT !.ops = Append(@, r)]>>
          /\ UNCHANGED result

Next == Instruction \/ Prologue \/ Invocation \/ Return

Spec == Init /\ [][Next]_<<acts, result>>
===================================================================================
