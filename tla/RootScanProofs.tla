------------------------------ MODULE RootScanProofs ------------------------------
(***********************************************************************************)
(* For every stack, layout of memory and copying function, the scan moves exactly  *)
(* the roots below the top word.                                                   *)
(***********************************************************************************)
EXTENDS RootScan, TLAPS

(* The words the loop has dealt with: those below the top up to eax, the one at    *)
(* eax only once control is back at `next'.                                        *)
Scanned(a) == a # Top /\ (a < eax \/ (a = eax /\ pc = "next"))

(* RootsMoved is not inductive: it says nothing while the loop runs.  This is: each*)
(* scanned word has moved and every other one is as it was.                        *)
IInv ==
  /\ TypeOK
  /\ pc = "loop" => eax # Top
  /\ pc = "returnn" => eax = Bottom
  /\ \A a \in Slots : memory[a] = IF Scanned(a) THEN Moved(before[a]) ELSE before[a]

(* The addresses of the slots: where the next slot is, and that none lies between. *)
LEMMA SlotFacts ==
  /\ Slots \subseteq Nat /\ Bottom \in Nat /\ Top \in Slots /\ Bottom \notin Slots
  /\ \A a \in Slots : Top <= a /\ a < Bottom /\ (a + 4 = Bottom \/ a + 4 \in Slots)
  /\ \A a, b \in Slots : a < b + 4 => a <= b
<1>1. Slots \subseteq Nat /\ Bottom \in Nat /\ Top \in Slots /\ Bottom \notin Slots
  <2>1. Slots \subseteq Nat /\ Bottom \in Nat
    BY LayoutAssumption DEF Slots, Bottom
  <2>2. 0 \in 0 .. Depth - 1 /\ Top = Top + 4 * 0
    BY LayoutAssumption
  <2>3. ASSUME NEW k \in 0 .. Depth - 1
        PROVE  Bottom # Top + 4 * k
    BY LayoutAssumption DEF Bottom
  <2> QED
    BY <2>1, <2>2, <2>3 DEF Slots
<1>2. ASSUME NEW a \in Slots
      PROVE  Top <= a /\ a < Bottom /\ (a + 4 = Bottom \/ a + 4 \in Slots)
  <2>1. PICK k \in 0 .. Depth - 1 : a = Top + 4 * k
    BY DEF Slots
  <2>2. CASE k = Depth - 1
    BY <2>1, <2>2, LayoutAssumption DEF Bottom
  <2>3. CASE k # Depth - 1
    <3>1. k + 1 \in 0 .. Depth - 1 /\ a + 4 = Top + 4 * (k + 1)
      BY <2>1, <2>3, LayoutAssumption
    <3> QED
      BY <2>1, <3>1, LayoutAssumption DEF Slots, Bottom
  <2> QED
    BY <2>2, <2>3
<1>3. ASSUME NEW a \in Slots, NEW b \in Slots, a < b + 4
      PROVE  a <= b
  BY <1>3, LayoutAssumption DEF Slots
<1> QED
  BY <1>1, <1>2, <1>3

(* What a root becomes is an address, and for a word the filters let through it is *)
(* what the scan owes it; the filters stop no valid pointer.                       *)
LEMMA FilterFacts ==
  ASSUME NEW w \in Words
  PROVE  /\ Moved(w) \in Nat
         /\ IsCode(w) \/ IsStack(w) \/ Odd(w) => Moved(w) = w
         /\ ~Odd(w) => gc_test_and_copy_root(w) = Moved(w)
<1>1. w \in Nat /\ (InFromSpace(w) => CopyOf[w] \in Nat)
  BY LayoutAssumption
<1>2. IsCode(w) \/ IsStack(w) => ~InFromSpace(w)
  BY DisjointAssumption DEF IsCode, IsStack
<1> QED
  BY <1>1, <1>2 DEF Moved, gc_test_and_copy_root

LEMMA InitInv == Init => IInv
<1> SUFFICES ASSUME Init PROVE IInv
  OBVIOUS
<1>1. TypeOK
  <2>1. memory \in [Slots -> Nat]
    BY LayoutAssumption DEF Init
  <2> QED
    BY <2>1, SlotFacts DEF Init, TypeOK
<1>2. ASSUME NEW a \in Slots
      PROVE  ~Scanned(a) /\ memory[a] = before[a]
  BY SlotFacts DEF Init, Scanned
<1> QED
  BY <1>1, <1>2 DEF IInv, Init

LEMMA NextInv == IInv /\ [Next]_vars => IInv'
<1> SUFFICES ASSUME IInv, [Next]_vars PROVE IInv'
  OBVIOUS
<1>0. /\ memory \in [Slots -> Nat] /\ before \in [Slots -> Words]
      /\ \A a \in Slots : before[a] \in Words
  BY DEF IInv, TypeOK
<1>1. CASE Advance
  <2>1. eax \in Slots /\ pc' # "next" /\ eax' = eax + 4
    BY <1>1 DEF Advance, IInv, TypeOK
  <2>2. TypeOK'
    BY <1>1, <2>1, SlotFacts DEF Advance, IInv, TypeOK
  <2>3. (pc' = "loop" => eax' # Top) /\ (pc' = "returnn" => eax' = Bottom')
    BY <1>1, <2>1, SlotFacts DEF Advance, Bottom
  <2>4. ASSUME NEW a \in Slots
        PROVE  Scanned(a)' <=> Scanned(a)
    <3>1. a < eax + 4 <=> (a < eax \/ a = eax)
      BY <2>1, SlotFacts
    <3> QED
      BY <1>1, <2>1, <3>1 DEF Advance, Scanned
  <2>5. ASSUME NEW a \in Slots
        PROVE  (memory[a] = IF Scanned(a) THEN Moved(before[a]) ELSE before[a])'
    BY <1>1, <2>4 DEF Advance, IInv, Moved
  <2> QED
    BY <2>2, <2>3, <2>5 DEF IInv, Slots, Bottom
<1>2. ASSUME pc = "loop", pc' = "next", UNCHANGED <<eax, before>>,
             memory' = [memory EXCEPT ![eax] = Moved(before[eax])]
      PROVE  IInv'
  <2>1. eax \in Slots /\ eax # Top /\ ~Scanned(eax) /\ eax \in Nat
    BY <1>2, SlotFacts DEF IInv, TypeOK, Scanned
  <2>2. Moved(before[eax]) \in Nat
    BY <1>0, <2>1, FilterFacts
  <2>3. TypeOK'
    BY <1>0, <1>2, <2>1, <2>2 DEF TypeOK
  <2>4. ASSUME NEW a \in Slots
        PROVE  (memory[a] = IF Scanned(a) THEN Moved(before[a]) ELSE before[a])'
    <3>1. CASE a = eax
      <4>1. Scanned(a)'
        BY <1>2, <2>1, <3>1 DEF Scanned
      <4> QED
        BY <1>0, <1>2, <3>1, <4>1 DEF Moved
    <3>2. CASE a # eax
      <4>1. Scanned(a)' <=> Scanned(a)
        BY <1>2, <3>2 DEF Scanned
      <4> QED
        BY <1>0, <1>2, <2>1, <3>2, <4>1 DEF IInv, Moved
    <3> QED
      BY <3>1, <3>2
  <2> QED
    BY <1>2, <2>3, <2>4 DEF IInv, Slots, Bottom
<1>3. pc = "loop" => eax \in Slots /\ ~Scanned(eax) /\ memory[eax] = before[eax]
                     /\ before[eax] \in Words
  <2>1. pc = "loop" => eax \in Slots /\ eax \in Nat
    BY SlotFacts DEF IInv, TypeOK
  <2>2. pc = "loop" => ~Scanned(eax)
    BY <2>1 DEF Scanned
  <2> QED
    BY <1>0, <2>1, <2>2 DEF IInv
<1>4. CASE Skip
  <2>1. Moved(before[eax]) = memory[eax]
    BY <1>3, <1>4, FilterFacts DEF Skip
  <2>2. memory' = [memory EXCEPT ![eax] = Moved(before[eax])]
    BY <1>0, <1>3, <1>4, <2>1 DEF Skip
  <2> QED
    BY <1>2, <1>4, <2>2 DEF Skip
<1>5. CASE Test
  <2>1. memory' = [memory EXCEPT ![eax] = Moved(before[eax])]
    BY <1>3, <1>5, FilterFacts DEF Test
  <2> QED
    BY <1>2, <1>5, <2>1 DEF Test
<1>6. CASE UNCHANGED vars
  <2>1. TypeOK'
    BY <1>6 DEF IInv, TypeOK, vars, Slots, Bottom
  <2>2. ASSUME NEW a \in Slots
        PROVE  (memory[a] = IF Scanned(a) THEN Moved(before[a]) ELSE before[a])'
    BY <1>6 DEF IInv, vars, Scanned, Moved
  <2> QED
    BY <1>6, <2>1, <2>2 DEF IInv, vars, Slots, Bottom
<1> QED
  BY <1>1, <1>4, <1>5, <1>6 DEF Next

(* The invariant of the loop holds of every stack the scan may meet.               *)
THEOREM LoopInvariant == Spec => []IInv
  BY InitInv, NextInv, PTL DEF Spec

(* The loop stays between the top and the bottom of the stack: TypeOK holds for    *)
(* every depth of the stack and every layout of memory.                            *)
THEOREM ScanStaysOnStack == Spec => []TypeOK
<1>1. IInv => TypeOK
  BY DEF IInv
<1> QED
  BY <1>1, LoopInvariant, PTL

(* Every root below the top word is moved, and nothing else: RootsMoved holds for  *)
(* every stack and every copying function (the loop's exit, with the invariant).   *)
THEOREM RootsAreMoved == Spec => []RootsMoved
<1>1. IInv => RootsMoved
  <2> SUFFICES ASSUME IInv, pc = "returnn", NEW a \in Slots \ {Top}
               PROVE  memory[a] = Moved(before[a])
    BY DEF RootsMoved
  <2>1. Scanned(a)
    BY SlotFacts DEF IInv, Scanned
  <2> QED
    BY <2>1 DEF IInv
<1> QED
  BY <1>1, LoopInvariant, PTL
===================================================================================
