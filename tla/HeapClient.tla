-------------------------------- MODULE HeapClient --------------------------------
(***********************************************************************************)
(* The collector with its client: the instructions of the interpreter that make,   *)
(* read and change heap objects, over a stack that is the collector's root set     *)
(* (iterative_interpreter.cpp; Barray_arr, Bsexp_arr, Bclosure_arr, Bstring,       *)
(* LmakeString, Lstring, Belem and Bsta of runtime.c).                             *)
(*                                                                                 *)
(* The scan of the stack leaves the top word out (module RootScan), and the values *)
(* a closure captures wait in a C array the collector does not know.  A careful    *)
(* client allocates only while no pointer is in those places.                      *)
(***********************************************************************************)
EXTENDS MarkCopy

CONSTANTS Careful,    \* the client keeps pointers where the collector finds them
          Progs       \* programs: the instructions one is made of, in any order, and
                      \* the depth of its stack (a bound for STACK_CAPACITY)

(* The operand of an instruction is a number; that of LD, ST and CLOSURE is a place*)
(* on the stack, which has no place 0.                                             *)
ASSUME ProgsAssumption ==
  \A p \in Progs : \A i \in p.ops : i[2] \in Nat /\ (i[1] \in {"LD", "ST", "CLOSURE"} => i[2] > 0)

VARIABLES code,       \* the program that is run
          making,     \* the constructor that waits for alloc, and its operands
          graph       \* history: the graph of the program's objects; while they are
                      \* moved, the one from before

vars == <<memory, code, making, graph>>

Nothing == [op |-> "none", n |-> 0, captured |-> Zero]
Make(op, n, w) == making' = [op |-> op, n |-> n, captured |-> w] /\ UNCHANGED code

-----------------------------------------------------------------------------------
(* The graph of the objects in a pool that a sequence of words leads to, in a form *)
(* that does not depend on where the objects lie (module ObjectWords).             *)
HeaderOf(pool, b) == IF b > 1 THEN pool.cells[b - 1] ELSE Zero
Components(pool, b) ==
  LET h == HeaderOf(pool, b)
      n == IF h.t # "header" THEN 0 ELSE IF h.a = STRING_TAG THEN h.b \div 4 + 1 ELSE h.b
  IN  SubSeq(pool.cells, b, b - 1 + n)
ObjectAt(pool, b) ==
  <<HeaderOf(pool, b),
    IF HeaderOf(pool, b).a = SEXP_TAG THEN pool.cells[b - 2] ELSE Zero, Components(pool, b)>>

LeadsInto(pool, w) == w.t = "ptr" /\ w.a = pool.arena /\ w.b <= Len(pool.cells)

GraphOf(pool, ws) ==
  Canonical(ws, LAMBDA w : LeadsInto(pool, w), LAMBDA b : ObjectAt(pool, b))

-----------------------------------------------------------------------------------
(* Instructions that do not allocate.                                              *)
Depth   == Len(stack)
Peek(k) == stack[Depth - k]
Takes(n) == Depth - n >= 1     \* the saved registers of main stay at the bottom

Reversed(s, n) == SubSeq(s, 1, Len(s) - n) \o Reverse(SubSeq(s, Len(s) - n + 1, Len(s)))

(* The program's stack: s as it was before the constructor m that waits took its  *)
(* operands.                                                                       *)
ProgramStack(s, x, m) == IF m.op \in {"BARRAY", "SEXP"} THEN Reversed(s, m.n) ELSE s \o x

Moving(c) == c \in {"roots", "copy", "room"}

Idle == pc = "idle" /\ status = "run"
Turn(s) == /\ Idle /\ Len(s) <= code.depth /\ stack' = s
           /\ UNCHANGED <<from, used, to, current, space, arenas, collector, extra,
                          code, making>>
Below(n) == SubSeq(stack, 1, Depth - n)

Const   == Turn(Append(stack, IntW(0)))
Drop    == Takes(1) /\ Turn(Below(1))
Ld(i)   == Turn(Append(stack, stack[i]))
St(i)   == Turn([stack EXCEPT ![i] = Peek(0)])

(* The array or S-expression w has component k.                                    *)
Has(w, k) ==
  /\ IsValidHeapPointer(w)
  /\ LET h == from.cells[w.b - 1] IN
     h.t = "header" /\ h.a \in {ARRAY_TAG, SEXP_TAG} /\ k < h.b

Elem(k) == Has(Peek(0), k) /\ Takes(1) /\ Turn(Append(Below(1), from.cells[Peek(0).b + k]))

Sta(k) ==
  /\ Idle /\ Takes(2) /\ Has(Peek(1), k)
  /\ from' = [from EXCEPT !.cells[Peek(1).b + k] = Peek(0)]
  /\ stack' = Append(Below(2), Peek(0))
  /\ UNCHANGED <<used, to, current, space, arenas, collector, extra, code, making>>

-----------------------------------------------------------------------------------
(* Instructions that allocate: the call of alloc, with stack s and extra roots x.  *)
Seen(w) == Careful => w.t # "ptr"

Request(bytes, s, x) ==
  /\ Seen(Last(s)) /\ stack' = s /\ extra' = x
  /\ alloc((bytes - 1) \div 4 + 1)

NewArray(n) ==
  /\ Takes(n) /\ Make("BARRAY", n, Zero) /\ Request(4 * (n + 1), Reversed(stack, n), extra)
NewSexp(n) ==
  /\ Takes(n) /\ Make("SEXP", n, Zero) /\ Request(4 * (n + 2), Reversed(stack, n), extra)
NewString(n) ==
  /\ Depth < code.depth /\ Make("STRING", n, Zero) /\ Request(n + 1 + 4, stack, extra)

(* eval_closure copies the variable it captures to args[].                         *)
NewClosure(i) ==
  /\ Depth < code.depth /\ Seen(stack[i])
  /\ Make("CLOSURE", i, stack[i]) /\ Request(4 * 3, stack, extra)

(* Lstring keeps its argument, which is off the stack, as an extra root.           *)
Show(n) ==
  /\ Takes(1) /\ Make("LSTRING", n, Zero)
  /\ Request(n + 1 + 4, Below(1), Append(extra, Peek(0)))

(* alloc returns: the constructor fills the block and its instruction ends.  The   *)
(* operands of an array or S-expression are read from the stack only now.          *)
Filled(h, tag, ws) ==
  LET block == (IF h.a = SEXP_TAG THEN <<tag, h>> ELSE <<h>>) \o ws IN
  [k \in DOMAIN from.cells |->
     IF k \in current + 1 .. current + Len(block) THEN block[k - current] ELSE from.cells[k]]

Operands(n) == [j \in 1 .. n |-> Peek(j - 1)]

Resume ==
  /\ pc = "resume" /\ status = "run"
  /\ LET n == making.n
         Result(h, taken, ws) ==
           /\ from' = [from EXCEPT !.cells = Filled(h, Raw(0), ws)]
           /\ stack' = Append(Below(taken), Ptr(from.arena, current + HeaderWords(h) + 1))
         text == [j \in 1 .. n \div 4 + 1 |-> Raw(2)]
     IN  CASE making.op = "BARRAY"  -> Result(Header(ARRAY_TAG, n), n, Operands(n))
           [] making.op = "SEXP"    -> Result(Header(SEXP_TAG, n), n, Operands(n))
           [] making.op = "CLOSURE" -> Result(Header(CLOSURE_TAG, 2), 0,
                                              <<Raw(1), making.captured>>)
           [] making.op \in {"STRING", "LSTRING"} -> Result(Header(STRING_TAG, n), 0, text)
  /\ pc' = "idle" /\ extra' = <<>> /\ making' = Nothing
  /\ current' = 0 /\ root' = 1 /\ request' = 0
  /\ UNCHANGED <<used, to, space, arenas, frames, status, code>>

-----------------------------------------------------------------------------------
Init == /\ InitHeap /\ code \in Progs /\ stack = <<IntW(2)>> /\ making = Nothing
        /\ graph = GraphOf(from, stack)

Execute(op, n) ==
  \/ op = "CONST"   /\ Const
  \/ op = "DROP"    /\ Drop
  \/ op = "LD"      /\ n <= Depth /\ Ld(n)
  \/ op = "ST"      /\ n <= Depth /\ St(n)
  \/ op = "ELEM"    /\ Elem(n)
  \/ op = "STA"     /\ Sta(n)
  \/ op = "BARRAY"  /\ NewArray(n)
  \/ op = "SEXP"    /\ NewSexp(n)
  \/ op = "STRING"  /\ NewString(n)
  \/ op = "LSTRING" /\ Show(n)
  \/ op = "CLOSURE" /\ n <= Depth /\ NewClosure(n)

Move == Collect /\ UNCHANGED <<code, making>>

Sees == graph' = IF Moving(pc') THEN graph
                 ELSE GraphOf(from', ProgramStack(stack', extra', making'))

Next == /\ Resume \/ Move \/ \E i \in code.ops : Execute(i[1], i[2])
        /\ Sees

Spec == Init /\ [][Next]_vars
FairSpec == Spec /\ WF_vars(Move /\ Sees) /\ WF_vars(Resume /\ Sees)
===================================================================================
