-------------------------------- MODULE HeapSafety --------------------------------
(***********************************************************************************)
(* What the collector owes its client.                                             *)
(***********************************************************************************)
EXTENDS HeapClient

Word == [t : {"int", "header", "raw", "zero", "ptr"}, a : Int, b : Int]
Pools == [arena : 0 .. MaxArenas, cells : Seq(Word)]

(* Every variable has its type, and no pool is longer than SPACE_SIZE or shorter   *)
(* than what is in use.                                                            *)
TypeOK ==
  /\ from \in Pools /\ to \in Pools
  /\ Len(from.cells) <= space /\ Len(to.cells) \in {0, space}
  /\ used \in 0 .. Len(from.cells) /\ current \in Nat
  /\ arenas \in 1 .. MaxArenas /\ space \in Nat /\ request \in Nat /\ root \in Nat \ {0}
  /\ stack \in Seq(Word) /\ extra \in Seq(Word) /\ stack # <<>>
  /\ pc \in {"idle", "roots", "copy", "room", "resume"}
  /\ pc = "copy" <=> frames # <<>>

(* The objects of the from-space, one behind the other: Begins[n] is the number of *)
(* words before the n-th, Objects are the positions of their first components.     *)
(* Sizes are the collector's.                                                      *)
HeaderAt(e) == IF from.cells[e + 1].t = "raw" THEN from.cells[e + 2] ELSE from.cells[e + 1]
Behind(e)   == IF e < used THEN e + Words(HeaderAt(e)) ELSE e

Begins[n \in 0 .. used] == IF n = 0 THEN 0 ELSE Behind(Begins[n - 1])

Starts  == {Begins[n] : n \in 0 .. used} \ {used}
Objects == {e + HeaderWords(HeaderAt(e)) + 1 : e \in Starts}

LiveObject(w) == w.t = "ptr" => IsValidHeapPointer(w) /\ w.b \in Objects

(* No pointer dangles: each word of the stack, and each component of an object of  *)
(* the from-space, in use or not, is a plain value or the address of an object that*)
(* lies there, header and all (alloc, gc, gc_copy, copy_elements and the scan      *)
(* together).                                                                      *)
NoDangling == pc = "idle" =>
  /\ \A k \in 1 .. Depth : LiveObject(stack[k])
  /\ \A b \in Objects : \A j \in DOMAIN Components(from, b) : LiveObject(Components(from, b)[j])

(* "Scan stack for roots starting from __gc_stack_top till __gc_stack_bottom", *)
(* the comment of __gc_root_scan_stack: once the roots are scanned, no word of the *)
(* stack is left that leads to the space that is given up.                         *)
StackScanned == pc = "room" => \A k \in 1 .. Depth : ~IsValidHeapPointer(stack[k])

(* The heap behaves like a graph of objects that only the program changes          *)
(* (ObjectGraph): collections are invisible, whatever space the collector had to   *)
(* add and however often it started again, sharing and cycles included; and every  *)
(* instruction does to the graph what it is for.  While objects are being moved the*)
(* graph is the one the program had when it called alloc; from then until the      *)
(* constructor has filled its block it may not change.                             *)
Promise == INSTANCE ObjectGraph WITH making <- [op |-> making.op, n |-> making.n]

ImplementsGraph == Promise!Spec

(* The to-space always suffices: the exits of gc_copy and gc for a full space and  *)
(* for a weird header are never taken, and no copy runs over the space's end.      *)
NoInternalError == status \in {"run", "mmap failed"}

(* The words in use are exactly the objects, one behind the other: the sizes the   *)
(* constructors ask alloc for (in bytes) are those gc_copy works out from headers. *)
HeapTiled == pc = "idle" =>
  /\ Begins[used] = used
  /\ \A e \in Starts : HeaderAt(e).t = "header"

(* alloc returns, or the process exits for want of address space: gc_copy comes to *)
(* an end on cyclic data and gc stops making the space larger.                     *)
AllocReturns == pc # "idle" ~> (pc = "idle" \/ status # "run")
===================================================================================
