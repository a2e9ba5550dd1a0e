----------------------------- MODULE StackRefinement ------------------------------
(***********************************************************************************)
(* Reads activations off the interpreter's stack, following the saved frame        *)
(* pointers from fp as END would, and states that the machine implements LamaCalls.*)
(***********************************************************************************)
EXTENDS StackFrames

(* The arguments of the frame at b, and its activation, executing at pc, whose last *)
(* word is at hi.                                                                  *)
Arguments(s, b) == [j \in 1 .. s[b - 1].v |-> s[b - 2 - j]]

Framed(s, b, pc, hi) ==
  [pc |-> pc, args |-> Arguments(s, b),
   locals |-> SubSeq(s, b + 1, b + NLoc(pc)), ops |-> SubSeq(s, b + NLoc(pc) + 1, hi)]

(* The caller of the frame at b goes on at the saved address; its last operand lies *)
(* below the arguments.                                                            *)
Caller(s, b) == Framed(s, s[b].v, s[b - 2].v, b - 3 - s[b - 1].v)

(* For each frame of stack s the activations that wait for it, outermost first.    *)
CallersOf(s) ==
  LET callers[b \in 1 .. Len(s)] ==
        IF s[b].v \in 1 .. b - 1 THEN Append(callers[s[b].v], Caller(s, b)) ELSE <<>>
  IN  callers

(* The stack at a function's entry with the word that BEGIN pushes first.          *)
Entered == Append(stack, Mk("fp", fp))

Activations ==
  IF ip = 0 THEN <<>>
  ELSE IF AtEntry
  THEN Append(CallersOf(Entered)[Size + 1],
              [pc |-> ip, args |-> Arguments(Entered, Size + 1), locals |-> <<>>, ops |-> <<>>])
  ELSE Append(CallersOf(stack)[fp], Framed(stack, fp, ip, Size))

IsReference(w) == w.t = "obj"
Calls == INSTANCE LamaCalls WITH
           acts <- Activations, result <- IF ip = 0 THEN stack ELSE <<>>,
           Undefined <- Junk, Callable <- IsReference,
           MainPc <- MainEntry, Arity <- [e \in DOMAIN Code |-> Code[e].argc]

(* Every step of the machine is a step of LamaCalls or changes no activation: the  *)
(* flat stack gives each call its own arguments, locals and operands.              *)
ImplementsCalls == Calls!Spec
===================================================================================
