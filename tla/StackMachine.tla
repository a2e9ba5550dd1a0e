------------------------------- MODULE StackMachine -------------------------------
(***********************************************************************************)
(* The iterative interpreter (src/iterative_interpreter.cpp, include/stack.h): one *)
(* stack of machine words holds operands, arguments, locals and the saved          *)
(* registers of every activation, and nothing but the calling convention tells     *)
(* them apart.                                                                     *)
(*                                                                                 *)
(* `stack' lists the words from __gc_stack_bottom to __gc_stack_top: its last      *)
(* element is the word at the top.  A frame, from the bottom up, is                *)
(*                                                                                 *)
(*      arg n-1 ... arg 0 | return ip | n | caller's fp | locals | operands        *)
(*                                          ^ fp                                   *)
(*                                                                                 *)
(* A word carries a tag that the code does not have (the code relies on position   *)
(* alone); no guard of an action that stands for code reads one, except where C    *)
(* looks at the low bit or at an object's header.  The program is a constant: the  *)
(* set of instructions that may be met at each address.  A singleton set per       *)
(* address is one program; larger sets stand for many programs at once.            *)
(***********************************************************************************)
EXTENDS Boxing, Sequences, SequencesExt

CONSTANTS
  Prog,        \* address -> the instructions the byte code may have there
  Entry,       \* address -> entry address of the function it belongs to
  Code,        \* entry -> [argc, nloc, ncap, closure]: the function's shape
  MainEntry,   \* address the interpreter starts at (bf->code_ptr)
  NGlobals,    \* words of the global area
  Capacity,    \* STACK_CAPACITY: words of the stack
  CharHalf,    \* half the number of chars: 128
  Strings,     \* contents a string object may be given
  MaxClosureArgc,  \* MAX_CLOSURE_ARGC: the most variables CLOSURE may capture
  MaxObjects   \* bound: heap objects a behaviour may allocate

Ips == DOMAIN Prog

(* What the compiler guarantees of the address that follows p in the same body.    *)
FallsThrough(p) == p + 1 \in Ips /\ Entry[p + 1] = Entry[p] /\ p + 1 # Entry[p]

(* What the compiler guarantees of an instruction i at address p.                  *)
WellFormed(i, p) ==
  LET op == i[1] IN
  /\ op \in {"BEGIN", "CBEGIN"} <=> p = Entry[p]
  /\ op \in {"BEGIN", "CBEGIN"} =>
       /\ i[2] = Code[p].argc /\ i[3] = Code[p].nloc
       /\ Code[p].closure = (op = "CBEGIN")
  /\ op \in {"JMP", "CJMPZ", "CJMPNZ"} =>
       i[2] \in Ips /\ Entry[i[2]] = Entry[p] /\ i[2] # Entry[p]
  /\ op \notin {"JMP", "END", "FAIL", "STOP"} => FallsThrough(p)
  /\ op = "CALL" => i[2] \in DOMAIN Code /\ ~Code[i[2]].closure /\ i[3] = Code[i[2]].argc
  /\ op = "CLOSURE" => i[2] \in DOMAIN Code /\ Len(i[3]) = Code[i[2]].ncap
  /\ op = "CLOSURE" => i[3] \in Seq({"G", "L", "A", "C"} \X Nat)
  /\ op = "CONST" => i[2] \in Int
  /\ op = "STRING" => i[2] \in Strings
  /\ op = "BINOP" => i[2] \in BinopNames
  /\ op \in {"CALLC", "SEXP", "BARRAY"} => i[2] \in Nat
  /\ op = "SEXP" => i[3] \in BOOLEAN  \* has the constructor's name a hash?
  /\ op = "TAG" => i[2] \in BOOLEAN   \* the same
  /\ op = "PATT" => i[2] \in {1, 2}

ASSUME ConstantsAssumption ==
  /\ CharHalf \in 1 .. Half /\ MaxObjects \in Nat /\ NGlobals \in Nat
  /\ MaxClosureArgc \in Nat
  /\ Capacity \in Nat /\ Capacity >= 4
  /\ \A s \in Strings : s \in Seq(Ints)

ASSUME ProgramAssumption ==
  /\ Ips \subseteq Nat \ {0}
  /\ Entry \in [Ips -> Ips] /\ \A p \in Ips : Entry[Entry[p]] = Entry[p]
  /\ DOMAIN Code = {Entry[p] : p \in Ips}
  /\ \A e \in DOMAIN Code :
       Code[e] \in [argc : Nat, nloc : Nat, ncap : Nat, closure : BOOLEAN]
  /\ MainEntry \in DOMAIN Code /\ Code[MainEntry].argc = 2 /\ ~Code[MainEntry].closure
  /\ \A p \in Ips : \A i \in Prog[p] : WellFormed(i, p)

VARIABLES
  stack,    \* the words in [__gc_stack_top, __gc_stack_bottom), bottom first
  fp,       \* position of the frame pointer; 0 is the stack's bottom
  ip,       \* address of the next instruction; 0 is nullptr
  globals,  \* bf->global_ptr
  heap,     \* objects, in order of allocation
  status    \* "run", or how the process ended: "failed", "trapped", "stopped";
            \* "astray" where it leaves the objects and is not followed

vars == <<stack, fp, ip, globals, heap, status>>

-----------------------------------------------------------------------------------
(* Words.  "junk" is a word nothing was stored in; "null" the raw 0 Lwrite         *)
(* returns; "stk", "glb" and "cap" are addresses of variables that LDA pushes.     *)

PlainTags == {"int", "obj", "null", "junk"}
AddrTags  == {"stk", "glb", "cap"}
SavedTags == {"fp", "argc", "ip"}
Word == [t : PlainTags \cup AddrTags \cup SavedTags, v : Int, s : Nat]

Mk(t, v)  == [t |-> t, v |-> v, s |-> 0]
IntW(n)   == Mk("int", n)
Junk      == Mk("junk", 0)
Null      == Mk("null", 0)
Plain(w)  == w.t \in PlainTags
Addr(w)   == w.t \in AddrTags

(* Words whose low bit is set, and whose low bit is clear; "junk" may have either. *)
Odd  == {"int", "junk"}
Even == {"obj", "null", "junk"}

(* The numbers unbox may return: the number itself for a boxed integer; the bits   *)
(* of a pointer or of an uninitialised word are any number.                        *)
Unbox(w) == IF w.t = "int" THEN {w.v} ELSE IF w.t = "null" THEN {0} ELSE Ints

Char(n) == ((n + CharHalf) % (2 * CharHalf)) - CharHalf

(* Heap objects.  A closure's element 1 is its code address.                       *)
Object(kind, elems) == [kind |-> kind, elems |-> elems]
Label(w)  == heap[w.v].elems[1].v

-----------------------------------------------------------------------------------
(* The stack operations of include/stack.h.  Size n + 1 onwards from the top.      *)

Size     == Len(stack)
Peek(k)  == stack[Size - k]
NLoc(p)  == Code[Entry[p]].nloc

(* The compiler never lets an expression pop below its own activation's operands,  *)
(* and only STA consumes an address.                                               *)
Avail(n) == Size - n >= fp + NLoc(ip)
Takes(n) == Avail(n) /\ \A k \in 0 .. n - 1 : Plain(Peek(k))

(* Mutant of Put: the check lets one word too many in.                             *)
Put_OffByOne(s, n, t) ==
  /\ Len(s) - n + Len(t) <= Capacity + 1
  /\ stack' = SubSeq(s, 1, Len(s) - n) \o t

(* Pop n words of s, then push the words of t, the checks of push included.        *)
Put(s, n, t) ==
  /\ Len(s) - n + Len(t) <= Capacity
  /\ stack' = SubSeq(s, 1, Len(s) - n) \o t

(* Mutant of Reversed: the arguments stay in the order they were pushed.           *)
Reversed_Not(n) == stack

(* stack::reverse(n): the words as they are after the top n change order.          *)
Reversed(n) == SubSeq(stack, 1, Size - n) \o Reverse(SubSeq(stack, Size - n + 1, Size))

(* The C array values[0 .. n-1] that starts at the stack's top after reverse(n).   *)
Values(n) == [j \in 1 .. n |-> Reversed(n)[Size + 1 - j]]

Advance == ip' = ip + 1

New(obj) == Len(heap) < MaxObjects /\ heap' = Append(heap, obj)
Ref      == Mk("obj", Len(heap) + 1)

-----------------------------------------------------------------------------------
(* Variables.  lookup returns the address of a variable.                           *)

(* Mutant of args: one word off, as if fp were pushed after it is set.             *)
args_OffByOne(i) == fp - i - 2

args(i)   == fp - i - 3
local(i)  == fp + i + 1
(* Mutant of binded: the closure's label is taken for its first captured value.    *)
binded_OffByOne(i) == LET nargs == stack[fp - 1].v
                      IN  [t |-> "cap", v |-> stack[args(nargs - 1)].v, s |-> i + 1]

binded(i) == LET nargs == stack[fp - 1].v
             IN  [t |-> "cap", v |-> stack[args(nargs - 1)].v, s |-> i + 2]

lookup(l, i) ==
  CASE l = "G" -> Mk("glb", i + 1)
    [] l = "L" -> Mk("stk", local(i))
    [] l = "A" -> Mk("stk", args(i))
    [] l = "C" -> binded(i)

(* The variables the function at ip has.                                           *)
InScope(l, i) ==
  LET f == Code[Entry[ip]] IN
  /\ l \in {"G", "L", "A", "C"} /\ i \in Nat
  /\ l = "G" => i < NGlobals
  /\ l = "L" => i < f.nloc
  /\ l = "A" => i < f.argc
  /\ l = "C" => f.closure /\ i < f.ncap

Load(a) == CASE a.t = "stk" -> stack[a.v]
             [] a.t = "glb" -> globals[a.v]
             [] a.t = "cap" -> heap[a.v].elems[a.s]

(* *a = w, then n words are popped and t pushed.                                   *)
StoreThenPut(a, w, n, t) ==
  /\ Put(IF a.t = "stk" THEN [stack EXCEPT ![a.v] = w] ELSE stack, n, t)
  /\ globals' = IF a.t = "glb" THEN [globals EXCEPT ![a.v] = w] ELSE globals
  /\ heap' = IF a.t = "cap" THEN [heap EXCEPT ![a.v].elems[a.s] = w] ELSE heap

-----------------------------------------------------------------------------------
(* One action per instruction of eval; i is the instruction fetched at ip.         *)

(* An instruction that pops n plain operands, pushes t and goes to the next one.   *)
Operate(n, t) ==
  /\ Takes(n) /\ Put(stack, n, t)
  /\ Advance /\ UNCHANGED <<fp, globals, status>>

Const(i) == i[1] = "CONST" /\ Operate(0, <<IntW(Wrap(i[2]))>>) /\ UNCHANGED heap

(* Mutant of Binop: the operands are popped in the wrong order.                    *)
Binop_Swapped(i) ==
  /\ i[1] = "BINOP"
  /\ \E x \in Unbox(Peek(0)), y \in Unbox(Peek(1)) :
       ~Traps(i[2], y) /\ Operate(2, <<IntW(Wrap(Compute(i[2], x, y)))>>)
  /\ UNCHANGED heap

Binop(i) ==
  /\ i[1] = "BINOP"
  /\ \E y \in Unbox(Peek(0)), x \in Unbox(Peek(1)) :
       ~Traps(i[2], y) /\ Operate(2, <<IntW(Wrap(Compute(i[2], x, y)))>>)
  /\ UNCHANGED heap

Drop(i) == i[1] = "DROP" /\ Operate(1, <<>>) /\ UNCHANGED heap
Dup(i)  == i[1] = "DUP" /\ Operate(1, <<Peek(0), Peek(0)>>) /\ UNCHANGED heap
Swap(i) == i[1] = "SWAP" /\ Operate(2, <<Peek(0), Peek(1)>>) /\ UNCHANGED heap
Line(i) == i[1] = "LINE" /\ Operate(0, <<>>) /\ UNCHANGED heap

(* Heap objects from operands.                                                     *)
String(i) ==
  /\ i[1] = "STRING"
  /\ New(Object("string", [j \in DOMAIN i[2] |-> IntW(i[2][j])])) /\ Operate(0, <<Ref>>)
Sexp(i) ==
  /\ i[1] = "SEXP" /\ i[3]
  /\ New(Object("sexp", Values(i[2]))) /\ Operate(i[2], <<Ref>>)
Barray(i) ==
  i[1] = "BARRAY" /\ New(Object("array", Values(i[2]))) /\ Operate(i[2], <<Ref>>)

(* The elements of the object x that the word w may be the index of.               *)
Indexes(w, x) ==
  IF w.t \in Odd /\ x.t = "obj" /\ heap[x.v].kind # "closure"
    THEN {n + 1 : n \in Unbox(w)} \cap DOMAIN heap[x.v].elems ELSE {}

(* May w, an index, lie outside the object x?  A closure's elements are not read.  *)
Strays(w, x) ==
  heap[x.v].kind = "closure" \/ \E n \in Unbox(w) : n + 1 \notin DOMAIN heap[x.v].elems

Elem(i) ==
  /\ i[1] = "ELEM" /\ Avail(2)
  /\ \E n \in Indexes(Peek(0), Peek(1)) : Operate(2, <<heap[Peek(1).v].elems[n]>>)
  /\ UNCHANGED heap

StaElement(i) ==
  /\ i[1] = "STA" /\ Avail(3) /\ Operate(3, <<Peek(0)>>)
  /\ LET o == Peek(2).v IN
     \E n \in Indexes(Peek(1), Peek(2)) :
       \E w \in IF heap[o].kind = "string"
                  THEN {IntW(Char(c)) : c \in Unbox(Peek(0))} ELSE {Peek(0)} :
         heap' = [heap EXCEPT ![o].elems[n] = w]

(* An even index is taken for an address.  That of an array or an S-expression is  *)
(* the address of its first element.                                               *)
HasFirst(x) ==
  x.t = "obj" /\ heap[x.v].kind \in {"array", "sexp"} /\ heap[x.v].elems # <<>>
StaObject(i) ==
  /\ i[1] = "STA" /\ Avail(2) /\ HasFirst(Peek(1)) /\ Operate(2, <<Peek(0)>>)
  /\ heap' = [heap EXCEPT ![Peek(1).v].elems[1] = Peek(0)]

(* Variables.                                                                      *)
Ld(i) ==
  /\ i[1] = "LD" /\ InScope(i[2], i[3])
  /\ Operate(0, <<Load(lookup(i[2], i[3]))>>) /\ UNCHANGED heap
Lda(i) ==
  /\ i[1] = "LDA" /\ InScope(i[2], i[3])
  /\ Operate(0, <<lookup(i[2], i[3])>>) /\ UNCHANGED heap
St(i) ==
  /\ i[1] = "ST" /\ InScope(i[2], i[3]) /\ Takes(1)
  /\ StoreThenPut(lookup(i[2], i[3]), Peek(0), 0, <<>>)
  /\ Advance /\ UNCHANGED <<fp, status>>
StaAddress(i) ==
  /\ i[1] = "STA" /\ Takes(1) /\ Avail(2) /\ Addr(Peek(1))
  /\ StoreThenPut(Peek(1), Peek(0), 2, <<Peek(0)>>)
  /\ Advance /\ UNCHANGED <<fp, status>>

(* Control.                                                                        *)
Jmp(i) ==
  i[1] = "JMP" /\ ip' = i[2] /\ UNCHANGED <<stack, fp, globals, heap, status>>
Cjmp(i) ==
  /\ i[1] \in {"CJMPZ", "CJMPNZ"} /\ Takes(1)
  /\ \E n \in Unbox(Peek(0)) :
       ip' = IF (n = 0) = (i[1] = "CJMPZ") THEN i[2] ELSE ip + 1
  /\ Put(stack, 1, <<>>) /\ UNCHANGED <<fp, globals, heap, status>>

(* CLOSURE copies the variables it names into the new closure.                     *)
Closure(i) ==
  /\ i[1] = "CLOSURE" /\ Len(i[3]) <= MaxClosureArgc
  /\ \A j \in DOMAIN i[3] : InScope(i[3][j][1], i[3][j][2])
  /\ New(Object("closure", <<Mk("ip", i[2])>> \o
           [j \in DOMAIN i[3] |-> Load(lookup(i[3][j][1], i[3][j][2]))]))
  /\ Operate(0, <<Ref>>)

Call(i) ==
  /\ i[1] = "CALL" /\ Takes(i[3])
  /\ Put(Reversed(i[3]), 0, <<Mk("ip", ip + 1), Mk("argc", i[3])>>)
  /\ ip' = i[2] /\ UNCHANGED <<fp, globals, heap, status>>

(* A closure of a function of n arguments.                                         *)
Callable(w, n) ==
  w.t = "obj" /\ heap[w.v].kind = "closure" /\ Code[Label(w)].argc = n

(* Mutant of Callc: the closure is reversed with the arguments.                    *)
Callc_ReversesClosure(i) ==
  /\ i[1] = "CALLC" /\ Takes(i[2] + 1)
  /\ Callable(Peek(i[2]), i[2])
  /\ Put(Reversed(i[2] + 1), 0, <<Mk("ip", ip + 1), Mk("argc", i[2] + 1)>>)
  /\ ip' = Label(Peek(i[2])) /\ UNCHANGED <<fp, globals, heap, status>>

(* The closure stays below its arguments, where it is the callee's last argument.  *)
Callc(i) ==
  /\ i[1] = "CALLC" /\ Takes(i[2] + 1)
  /\ Callable(Peek(i[2]), i[2])
  /\ Put(Reversed(i[2]), 0, <<Mk("ip", ip + 1), Mk("argc", i[2] + 1)>>)
  /\ ip' = Label(Peek(i[2])) /\ UNCHANGED <<fp, globals, heap, status>>

Begin(i) ==
  /\ i[1] \in {"BEGIN", "CBEGIN"}
  /\ Put(stack, 0, <<Mk("fp", fp)>> \o [j \in 1 .. i[3] |-> Junk])
  /\ fp' = Size + 1
  /\ Advance /\ UNCHANGED <<globals, heap, status>>

(* Mutant of End: drop(argc) drops one word too many.                              *)
End_DropsTooMuch(i) ==
  /\ i[1] = "END" /\ Takes(1)
  /\ stack' = SubSeq(stack, 1, fp - 4 - stack[fp - 1].v) \o <<Peek(0)>>
  /\ fp' = stack[fp].v /\ ip' = stack[fp - 2].v
  /\ UNCHANGED <<globals, heap, status>>

(* The stack is cut at fp, the three saved words and the arguments are dropped.    *)
End(i) ==
  /\ i[1] = "END" /\ Takes(1)
  /\ LET result == Peek(0)
         argc   == stack[fp - 1].v
     IN  /\ stack' = SubSeq(stack, 1, fp - 3 - argc) \o <<result>>
         /\ fp' = stack[fp].v
         /\ ip' = stack[fp - 2].v
  /\ UNCHANGED <<globals, heap, status>>

(* Pattern tests (their answers: module Patterns) and the built-in calls.          *)
(* Of the tests of one operand that PATT makes, two look at its low bit only.      *)
NoString(w) == w.t = "obj" /\ heap[w.v].kind # "string"

Test(i) ==
  /\ i[1] \in {"TAG", "ARRAY", "PATT"} /\ (i[1] = "TAG" => i[2])
  /\ LET n == IF i[1] = "PATT" THEN i[2] ELSE 1 IN
     /\ i[1] # "PATT" \/ n = 2 => \A k \in 0 .. n - 1 : Peek(k).t # "null"
     /\ n = 2 => ~NoString(Peek(1))
     /\ \E r \in {0, 1} : Operate(n, <<IntW(r)>>)
  /\ UNCHANGED heap

Lread(i)  == i[1] = "LREAD" /\ \E n \in Ints : Operate(0, <<IntW(n)>>) /\ UNCHANGED heap
Lwrite(i) == i[1] = "LWRITE" /\ Operate(1, <<Null>>) /\ UNCHANGED heap
Llength(i) ==
  /\ i[1] = "LLENGTH" /\ Avail(1) /\ Peek(0).t = "obj"
  /\ Operate(1, <<IntW(Wrap(Len(heap[Peek(0).v].elems)))>>) /\ UNCHANGED heap
Lstring(i) ==
  /\ i[1] = "LSTRING"
  /\ \E s \in Strings : New(Object("string", [j \in DOMAIN s |-> IntW(s[j])]))
  /\ Operate(1, <<Ref>>)

-----------------------------------------------------------------------------------
(* The ways eval stops the process before the program ends.                        *)

Exit(how) == status' = how /\ UNCHANGED <<stack, fp, ip, globals, heap>>

(* Mutant of Growth: CALL checks for room once, and pushes two words.              *)
Growth_CallOnce(i) ==
  CASE i[1] \in {"CONST", "STRING", "LD", "LDA", "DUP", "LREAD", "CLOSURE", "CALL"} -> 1
    [] i[1] \in {"BEGIN", "CBEGIN"} -> 1 + i[3]
    [] OTHER                        -> 0

Growth(i) ==
  CASE i[1] \in {"CONST", "STRING", "LD", "LDA", "DUP", "LREAD", "CLOSURE"} -> 1
    [] i[1] \in {"SEXP", "BARRAY"}  -> 1 - i[2]
    [] i[1] \in {"CALL", "CALLC"}   -> 2
    [] i[1] \in {"BEGIN", "CBEGIN"} -> 1 + i[3]
    [] OTHER                        -> 0

Overflow(i) == Size + Growth(i) > Capacity /\ Exit("failed")
Stop(i)     == i[1] = "STOP" /\ Exit("stopped")

(* failure: no such instruction, more captured variables than eval_closure's array *)
(* holds, a constructor whose name LtagHash rejects.                               *)
Abort(i) ==
  /\ i[1] \in {"FAIL", "STI", "RET", "CLOSURE", "SEXP", "TAG"}
  /\ i[1] = "CLOSURE" => Len(i[3]) > MaxClosureArgc
  /\ i[1] = "SEXP" => ~i[3]
  /\ i[1] = "TAG" => ~i[2]
  /\ Exit("failed")

DivideByZero(i) ==
  /\ i[1] = "BINOP" /\ Takes(2)
  /\ \E y \in Unbox(Peek(0)) : Traps(i[2], y)
  /\ Exit("trapped")

(* How deep the operands lie that the instruction dereferences.  Of STA it is the  *)
(* third, and the second one if that is no index.                                  *)
Dereferenced(i) ==
  CASE i[1] \in {"TAG", "ARRAY", "LLENGTH"} -> {0}
    [] i[1] = "PATT"  -> IF i[2] = 2 /\ NoString(Peek(1)) THEN {} ELSE 0 .. i[2] - 1
    [] i[1] = "ELEM"  -> IF Peek(0).t \in Odd THEN {1} ELSE {}
    [] i[1] = "STA"   -> {IF Peek(1).t \in Odd THEN 2 ELSE 1}
    [] i[1] = "CALLC" -> {i[2]}
    [] OTHER          -> {}

(* The assertions of the runtime: ASSERT_BOXED on the pointer, ASSERT_UNBOXED on   *)
(* Belem's index, ASSERT_STRING on the pattern of Bstring_patt.                    *)
Rejected(i) ==
  /\ \/ /\ i[1] \in {"ELEM", "STA", "LLENGTH", "CALLC"}
        /\ \E d \in Dereferenced(i) : Takes(d + 1) /\ Peek(d).t \in Odd
     \/ i[1] = "ELEM" /\ Takes(2) /\ Peek(0).t \in Even
     \/ i[1] = "PATT" /\ i[2] = 2 /\ Takes(2) /\ NoString(Peek(1))
  /\ Exit("failed")

(* A raw 0 passes ASSERT_BOXED and is then dereferenced.                           *)
NullDereference(i) ==
  /\ \E d \in Dereferenced(i) : Takes(d + 1) /\ Peek(d).t = "null"
  /\ Exit("trapped")

(* No check stops the instruction, which reads or writes memory of no object, or   *)
(* beyond an object's elements, or enters code that is no function of so many      *)
(* arguments.  What it finds there, and the run after it, are not followed.        *)
Astray(i) ==
  /\ \/ \E d \in Dereferenced(i) : Takes(d + 1) /\ Peek(d).t = "junk"
     \/ i[1] = "PATT" /\ i[2] = 2 /\ Takes(2) /\ Peek(1).t = "int" /\ Peek(0).t = "obj"
          /\ ~NoString(Peek(0))
     \/ i[1] = "ELEM" /\ Takes(2) /\ Peek(0).t \in Odd /\ Peek(1).t = "obj"
          /\ Strays(Peek(0), Peek(1))
     \/ i[1] = "STA" /\ Takes(3) /\ Peek(1).t \in Odd /\ Peek(2).t = "obj"
          /\ Strays(Peek(1), Peek(2))
     \/ i[1] = "STA" /\ Takes(2) /\ Peek(1).t \in Even /\ Peek(1).t # "null"
          /\ ~HasFirst(Peek(1))
     \/ i[1] = "CALLC" /\ Takes(i[2] + 1) /\ Peek(i[2]).t = "obj"
          /\ ~Callable(Peek(i[2]), i[2])
  /\ Exit("astray")

-----------------------------------------------------------------------------------
Init ==
  /\ stack = <<Junk, Junk, Mk("ip", 0), Mk("argc", 2)>>
  /\ fp = 0 /\ ip = MainEntry
  /\ globals = [g \in 1 .. NGlobals |-> Junk]
  /\ heap = <<>> /\ status = "run"

Execute(i) ==
  \/ Const(i) \/ Binop(i) \/ Drop(i) \/ Dup(i) \/ Swap(i) \/ Line(i)
  \/ String(i) \/ Sexp(i) \/ Barray(i) \/ Elem(i) \/ StaElement(i) \/ StaObject(i)
  \/ Ld(i) \/ Lda(i) \/ St(i) \/ StaAddress(i)
  \/ Jmp(i) \/ Cjmp(i) \/ Closure(i) \/ Call(i) \/ Callc(i) \/ Begin(i) \/ End(i)
  \/ Test(i) \/ Lread(i) \/ Lwrite(i) \/ Llength(i) \/ Lstring(i)
  \/ Overflow(i) \/ Abort(i) \/ Stop(i) \/ DivideByZero(i)
  \/ Rejected(i) \/ NullDereference(i) \/ Astray(i)

(* do { fetch; execute } while (ip != nullptr)                                     *)
Next == status = "run" /\ ip # 0 /\ \E i \in Prog[ip] : Execute(i)

Spec == Init /\ [][Next]_vars
FairSpec == Spec /\ WF_vars(Next)
===================================================================================
