--------------------------------- MODULE RootScan ---------------------------------
(***********************************************************************************)
(* The collector's scan of the stack for roots (src/gc_runtime.s,                  *)
(* __gc_root_scan_stack): a loop over the words of the interpreter's stack that    *)
(* leaves code addresses, stack addresses and odd words alone and passes the rest  *)
(* to gc_test_and_copy_root, which has a live object copied and the word replaced  *)
(* by the copy's address.  Addresses are numbers, four to a word, as the loop      *)
(* compares them without a sign.                                                   *)
(***********************************************************************************)
EXTENDS Integers

CONSTANTS
  Top,         \* __gc_stack_top, the address of the top word
  Depth,       \* words on the stack
  TextStart,   \* __executable_start
  TextEnd,     \* __etext
  FromBegin, FromEnd,   \* from_space.begin, from_space.end
  Words,       \* what a word of the stack may hold
  CopyOf       \* where gc_copy moves the object at an address to

Bottom == Top + 4 * Depth
Slots  == {Top + 4 * k : k \in 0 .. Depth - 1}

(* IS_VALID_HEAP_POINTER of an even word.                                          *)
InFromSpace(w) == FromBegin <= w /\ w < FromEnd
Odd(w)         == w % 2 = 1

ASSUME LayoutAssumption ==
  /\ Top \in Nat \ {0} /\ Depth \in Nat \ {0}
  /\ TextStart \in Nat /\ TextEnd \in Nat /\ FromBegin \in Nat /\ FromEnd \in Nat
  /\ Words \subseteq Nat
  /\ CopyOf \in [{w \in Words : InFromSpace(w)} -> Nat]

(* The from-space, the stack and the program's code do not overlap.                *)
ASSUME DisjointAssumption ==
  \A w \in Words : InFromSpace(w) => ~(TextStart <= w /\ w <= TextEnd)
                                     /\ ~(Top <= w /\ w <= Bottom)

VARIABLES
  memory,   \* the words of the stack, by address
  eax,      \* the address of the word under test
  pc,       \* "next", "loop", or "returnn": the labels of the routine
  before    \* history: the words when the scan began

vars == <<memory, eax, pc, before>>

(* The entry jumps to `next' with eax at the top word.                             *)
Init ==
  /\ memory \in [Slots -> Words]
  /\ eax = Top /\ pc = "next" /\ before = memory

(* Mutant of Advance: the end of the stack is tested before eax is moved.          *)
Advance_TestFirst ==
  /\ pc = "next"
  /\ eax' = eax + 4
  /\ pc' = IF eax + 4 = Bottom - 4 THEN "returnn" ELSE "loop"
  /\ UNCHANGED <<memory, before>>

(* Mutant of Advance: the comparison waits for an address the loop steps over.     *)
Advance_StepsOver ==
  /\ pc = "next"
  /\ eax' = IF eax + 4 >= Bottom THEN Top ELSE eax + 4
  /\ pc' = "loop"
  /\ UNCHANGED <<memory, before>>

(* Mutant of Advance: eax is compared before it is moved.                          *)
Advance_PastBottom ==
  /\ pc = "next"
  /\ eax' = eax + 4
  /\ pc' = IF eax = Bottom THEN "returnn" ELSE "loop"
  /\ UNCHANGED <<memory, before>>

(* next: addl $4, %eax; leave when eax is the bottom, else go to `loop'.           *)
Advance ==
  /\ pc = "next"
  /\ eax' = eax + 4
  /\ pc' = IF eax + 4 = Bottom THEN "returnn" ELSE "loop"
  /\ UNCHANGED <<memory, before>>

(* check11 .. check22: the words that cannot be pointers to heap objects.          *)
IsCode(w)  == TextStart <= w /\ w <= TextEnd
IsStack(w) == Top <= w /\ w <= Bottom

Skip ==
  /\ pc = "loop"
  /\ LET w == memory[eax] IN IsCode(w) \/ IsStack(w) \/ Odd(w)
  /\ pc' = "next" /\ UNCHANGED <<memory, eax, before>>

(* What a root becomes: the copy's address if it is valid, else what it was.       *)
gc_test_and_copy_root(w) == IF InFromSpace(w) THEN CopyOf[w] ELSE w

Test ==
  /\ pc = "loop"
  /\ LET w == memory[eax] IN
     /\ ~IsCode(w) /\ ~IsStack(w) /\ ~Odd(w)
     /\ memory' = [memory EXCEPT ![eax] = gc_test_and_copy_root(w)]
  /\ pc' = "next" /\ UNCHANGED <<eax, before>>

Next == Advance \/ Skip \/ Test

Spec     == Init /\ [][Next]_vars
FairSpec == Spec /\ WF_vars(Next)

-----------------------------------------------------------------------------------
(* The loop reads and writes words of the stack and nothing beyond its bottom.     *)
TypeOK ==
  /\ before \in [Slots -> Words] /\ memory \in [Slots -> Nat]
  /\ pc \in {"next", "loop", "returnn"}
  /\ eax \in Slots \cup {Bottom}
  /\ pc # "returnn" => eax \in Slots

(* What a slot that has been scanned must hold: the new address of the object it   *)
(* pointed to, or the word it held.                                                *)
Moved(w) == IF InFromSpace(w) /\ ~Odd(w) THEN CopyOf[w] ELSE w

(* When the scan returns every pointer below the top word has been replaced by its *)
(* copy, once, and integers, saved registers and return addresses are as they were:*)
(* the filters of the loop lose no root and change nothing else.                   *)
RootsMoved == pc = "returnn" =>
  \A a \in Slots \ {Top} : memory[a] = Moved(before[a])

(* The scan comes to an end: the comparison for equality does not step over the    *)
(* bottom.                                                                         *)
ScanEnds == <>(pc = "returnn")
===================================================================================
