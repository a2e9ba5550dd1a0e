------------------------------- MODULE StackProofs --------------------------------
(***********************************************************************************)
(* The calling convention of the interpreter holds for every program the           *)
(* assumptions of StackMachine admit, whatever the stack's capacity.               *)
(***********************************************************************************)
EXTENDS StackFrames, SequenceTheorems, FiniteSetTheorems, TLAPS

-----------------------------------------------------------------------------------
(* What each predicate of StackFrames says of positions, and what a step that      *)
(* touches only the running activation keeps.                                      *)

(* Popping words and pushing others keeps what is below.                           *)
LEMMA PutLemma ==
  ASSUME NEW s \in Seq(Word), NEW k \in 0 .. Len(s), NEW t \in Seq(Word)
  PROVE  /\ SubSeq(s, 1, k) \o t \in Seq(Word)
         /\ Len(SubSeq(s, 1, k) \o t) = k + Len(t)
         /\ \A p \in 1 .. k : (SubSeq(s, 1, k) \o t)[p] = s[p]
         /\ \A p \in 1 .. Len(t) : (SubSeq(s, 1, k) \o t)[k + p] = t[p]
<1>1. /\ SubSeq(s, 1, k) \in Seq(Word)
      /\ Len(SubSeq(s, 1, k)) = k
      /\ \A p \in 1 .. k : SubSeq(s, 1, k)[p] = s[p]
  BY SubSeqProperties
<1>2. QED  BY <1>1, ConcatProperties

(* The three classes of tags have no tag in common.                                *)
LEMMA TagsDiffer ==
  ASSUME NEW w
  PROVE  /\ Plain(w) => w.t \notin {"fp", "argc", "ip", "stk", "glb", "cap"}
         /\ Addr(w) => w.t \notin {"fp", "argc", "ip"}
  BY DEF Plain, Addr, PlainTags, AddrTags

(* What the assumptions say of the function at an address.                         *)
LEMMA CodeFacts ==
  ASSUME NEW pc \in Ips
  PROVE  /\ pc \in Nat /\ pc # 0 /\ Entry[pc] \in DOMAIN Code
         /\ Entry[pc] \in Ips /\ Entry[Entry[pc]] = Entry[pc]
         /\ Code[Entry[pc]].argc \in Nat /\ Code[Entry[pc]].nloc \in Nat
         /\ Code[Entry[pc]].ncap \in Nat /\ Code[Entry[pc]].closure \in BOOLEAN
         /\ NLoc(pc) = Code[Entry[pc]].nloc
  BY ProgramAssumption DEF NLoc

-----------------------------------------------------------------------------------
(* What a step may do to the heap: add objects, and change values inside them.     *)
Grows(h, h2) ==
  /\ Len(h2) >= Len(h)
  /\ \A o \in 1 .. Len(h) :
       /\ h2[o].kind = h[o].kind /\ Len(h2[o].elems) = Len(h[o].elems)
       /\ h[o].kind = "closure" => h2[o].elems[1] = h[o].elems[1]

LEMMA ValueStays ==
  ASSUME NEW h \in Seq(Objects), NEW h2 \in Seq(Objects), Grows(h, h2),
         NEW w, ValueOK(h, w)
  PROVE  ValueOK(h2, w)
  BY DEF ValueOK, Grows

LEMMA AddressStays ==
  ASSUME NEW h \in Seq(Objects), NEW h2 \in Seq(Objects), Grows(h, h2),
         NEW w, NEW f, NEW pc, AddressOK(h, w, f, pc)
  PROVE  AddressOK(h2, w, f, pc)
  BY DEF AddressOK, Grows

LEMMA ClosureStays ==
  ASSUME NEW h \in Seq(Objects), NEW h2 \in Seq(Objects), Grows(h, h2),
         NEW w, NEW e, ClosureFor(h, w, e)
  PROVE  ClosureFor(h2, w, e)
  BY DEF ClosureFor, Grows

LEMMA OperandStays ==
  ASSUME NEW h \in Seq(Objects), NEW h2 \in Seq(Objects), Grows(h, h2),
         NEW w, NEW f, NEW pc, OperandOK(h, w, f, pc)
  PROVE  OperandOK(h2, w, f, pc)
  BY ValueStays, AddressStays DEF OperandOK

(* Neither a value nor an operand is a saved register.                             *)
LEMMA OperandsUnsaved ==
  ASSUME NEW h, NEW w, NEW f, NEW pc, ValueOK(h, w) \/ OperandOK(h, w, f, pc)
  PROVE  w.t \notin {"fp", "argc", "ip"}
  BY DEF OperandOK, ValueOK, AddressOK, Plain, PlainTags

(* Positions around a frame at b whose activation has n arguments.                 *)
LEMMA ArgumentPositions ==
  ASSUME NEW b \in Nat, NEW n \in Nat, n <= b - 3, NEW a \in Nat, n \in {a, a + 1}
  PROVE  /\ \A p \in (b - 2 - a) .. (b - 3) : p \in (b - 2 - n) .. (b - 3)
         /\ \A p \in (b - 2 - n) .. (b - 3) : p \in 1 .. b - 1
         /\ b - 1 \notin (b - 2 - n) .. (b - 3) /\ b - 2 \notin (b - 2 - n) .. (b - 3)
  OBVIOUS

LEMMA BelowArguments ==
  ASSUME NEW f \in Nat, NEW n \in Nat, NEW b \in Nat, b < f,
         b \notin (f - 2 - n) .. (f - 3), b # f - 1, b # f - 2
  PROVE  b < f - 2 - n
  OBVIOUS

(* What an activation says of the positions of its parts.                          *)
LEMMA ActivationFacts ==
  ASSUME NEW s \in Seq(Word), NEW h, NEW f, NEW pc, NEW hi \in Nat,
         ActivationOK(s, h, f, pc, hi)
  PROVE  /\ f \in Nat /\ f >= 5 /\ f <= hi /\ s[f].t = "fp"
         /\ pc \in Ips /\ Entry[pc] \in DOMAIN Code
         /\ Code[Entry[pc]].argc \in Nat /\ Code[Entry[pc]].nloc \in Nat
         /\ f + Code[Entry[pc]].nloc <= hi
         /\ s[f - 1].v \in 0 .. f - 3
         /\ s[f - 1].v \in {Code[Entry[pc]].argc, Code[Entry[pc]].argc + 1}
         /\ VarCells(f, pc) \subseteq 1 .. hi
<1>1. /\ f \in Nat /\ f >= 5 /\ f <= hi /\ s[f].t = "fp"
      /\ pc \in Ips
      /\ s[f - 1].v \in 0 .. f - 3
      /\ f + NLoc(pc) <= hi
      /\ s[f - 1].v \in {Code[Entry[pc]].argc, Code[Entry[pc]].argc + 1}
  BY DEF ActivationOK, ArgumentsOK
<1>2. /\ Entry[pc] \in DOMAIN Code
      /\ Code[Entry[pc]].argc \in Nat /\ Code[Entry[pc]].nloc \in Nat
      /\ NLoc(pc) = Code[Entry[pc]].nloc
  BY <1>1, CodeFacts
<1>3. VarCells(f, pc) \subseteq 1 .. hi
  <2>1. \A m \in 0 .. f - 3, k \in Nat : m \in {k, k + 1} => f - 2 - k >= 1
    BY <1>1
  <2>2. f - 2 - Code[Entry[pc]].argc >= 1
    BY <1>1, <1>2, <2>1
  <2>3. ASSUME NEW p \in VarCells(f, pc)
        PROVE  p \in 1 .. hi
    BY <1>1, <1>2, <2>2 DEF VarCells
  <2>4. QED  BY <2>3
<1>4. QED  BY <1>1, <1>2, <1>3

(* The same with names for the numbers of arguments, locals and argument words.    *)
LEMMA ActivationShape ==
  ASSUME NEW s \in Seq(Word), NEW h, NEW f, NEW pc, ActivationOK(s, h, f, pc, Len(s))
  PROVE  \E a \in Nat, l \in Nat, n \in Nat :
           /\ a = Code[Entry[pc]].argc /\ l = Code[Entry[pc]].nloc /\ l = NLoc(pc)
           /\ n = s[f - 1].v /\ n \in {a, a + 1} /\ n <= f - 3 /\ f + l <= Len(s)
           /\ VarCells(f, pc) = ((f + 1) .. (f + l)) \cup ((f - 2 - a) .. (f - 3))
           /\ f \in Nat /\ f >= 5 /\ f <= Len(s) /\ s[f].t = "fp" /\ pc \in Ips
<1>1. Len(s) \in Nat
  OBVIOUS
<1>2. PICK n \in 0 .. f - 3 : n = s[f - 1].v
  BY <1>1, ActivationFacts
<1>3. n \in Nat /\ n <= f - 3
  BY <1>1, <1>2, ActivationFacts
<1>4. pc \in Ips /\ NLoc(pc) = Code[Entry[pc]].nloc
  BY <1>1, ActivationFacts, CodeFacts
<1>5. VarCells(f, pc) = ((f + 1) .. (f + Code[Entry[pc]].nloc))
                        \cup ((f - 2 - Code[Entry[pc]].argc) .. (f - 3))
  BY <1>4 DEF VarCells
<1>6. \E a \in Nat, l \in Nat :
        /\ a = Code[Entry[pc]].argc /\ l = Code[Entry[pc]].nloc /\ l = NLoc(pc)
        /\ n \in {a, a + 1} /\ f + l <= Len(s)
        /\ VarCells(f, pc) = ((f + 1) .. (f + l)) \cup ((f - 2 - a) .. (f - 3))
  BY <1>1, <1>2, <1>4, <1>5, ActivationFacts
<1>7. f \in Nat /\ f >= 5 /\ f <= Len(s) /\ s[f].t = "fp"
  BY <1>1, ActivationFacts
<1>8. QED  BY <1>2, <1>3, <1>4, <1>6, <1>7

(* An activation that ends at hi is untouched when the words up to hi are.         *)
LEMMA ActivationStays ==
  ASSUME NEW h \in Seq(Objects), NEW h2 \in Seq(Objects), Grows(h, h2),
         NEW s \in Seq(Word), NEW s2 \in Seq(Word),
         NEW f, NEW pc, NEW hi \in Nat, ActivationOK(s, h, f, pc, hi),
         \A p \in 1 .. hi : s2[p] = s[p]
  PROVE  ActivationOK(s2, h2, f, pc, hi)
<1> DEFINE e == Entry[pc]
           n == s[f - 1].v
<1>1. /\ f \in Nat /\ f >= 5 /\ f <= hi /\ n \in 0 .. f - 3
      /\ Code[e].argc \in Nat /\ VarCells(f, pc) \subseteq 1 .. hi
  BY ActivationFacts
<1>2. s2[f] = s[f] /\ s2[f - 1] = s[f - 1] /\ s2[f - 2 - n] = s[f - 2 - n]
  <2>1. PICK m \in 0 .. f - 3 : m = n
    BY <1>1
  <2>2. f \in 1 .. hi /\ f - 1 \in 1 .. hi /\ f - 2 - m \in 1 .. hi
    <3> HIDE DEF n
    <3>1. f >= 5 /\ f <= hi /\ f \in Nat
      BY <1>1
    <3>2. QED  BY <3>1
  <2>3. s2[f] = s[f] /\ s2[f - 1] = s[f - 1] /\ s2[f - 2 - m] = s[f - 2 - m]
    BY <2>2
  <2>4. QED  BY <2>1, <2>3
<1>3. ArgumentsOK(s2, h2, f, n, e)
  BY <1>2, ClosureStays DEF ActivationOK, ArgumentsOK
<1>4. ASSUME NEW p \in (f + 1) .. hi
      PROVE  OperandOK(h2, s2[p], f, pc)
  <2>1. OperandOK(h, s[p], f, pc)
    BY DEF ActivationOK
  <2>2. s2[p] = s[p]
    BY <1>1
  <2>3. QED  BY <2>1, <2>2, OperandStays
<1>5. ASSUME NEW p \in VarCells(f, pc)
      PROVE  ValueOK(h2, s2[p])
  <2>1. ValueOK(h, s[p])
    BY DEF ActivationOK
  <2>2. s2[p] = s[p]
    BY <1>1
  <2>3. QED  BY <2>1, <2>2, ValueStays
<1>6. /\ f \in 1 .. hi /\ f >= 5 /\ s2[f].t = "fp"
      /\ pc \in Ips /\ pc # Entry[pc] /\ f + NLoc(pc) <= hi
  BY <1>2 DEF ActivationOK
<1>7. QED  BY <1>1, <1>2, <1>3, <1>4, <1>5, <1>6 DEF ActivationOK

(* A frame stays linked when the words below it stay, the arguments excepted, which *)
(* may become other values.                                                        *)
LEMMA LinkStays ==
  ASSUME NEW h \in Seq(Objects), NEW h2 \in Seq(Objects), Grows(h, h2),
         NEW s \in Seq(Word), NEW s2 \in Seq(Word),
         NEW b \in Nat, NEW q, Linked(s, h, b, q), b - 1 <= Len(s2),
         \A p \in 1 .. b - 1 :
           \/ s2[p] = s[p]
           \/ p \in (b - 2 - s[b - 1].v) .. (b - 3) /\ ValueOK(h2, s2[p])
  PROVE  Linked(s2, h2, b, q)
<1> DEFINE n == s[b - 1].v
<1>1. b >= 5 /\ b - 1 \in 1 .. Len(s)
  BY DEF Linked
<1>2. n \in Nat /\ q \in 0 .. b - 3 - n
  BY <1>1 DEF Linked
<1>3. s2[b - 1] = s[b - 1] /\ s2[b - 2] = s[b - 2]
  <2>1. b - 1 \in 1 .. b - 1 /\ b - 2 \in 1 .. b - 1
    BY <1>1
  <2>2. b - 1 \notin (b - 2 - n) .. (b - 3) /\ b - 2 \notin (b - 2 - n) .. (b - 3)
    <3> HIDE DEF n
    <3>1. QED  BY <1>1, <1>2
  <2>3. QED  BY <2>1, <2>2
<1>4. ASSUME NEW p \in (b - 2 - n) .. (b - 3)
      PROVE  ValueOK(h2, s2[p])
  <2>1. p \in 1 .. b - 1
    <3> HIDE DEF n
    <3>1. QED  BY <1>1, <1>2
  <2>2. ValueOK(h, s[p])
    BY DEF Linked
  <2>3. QED  BY <2>1, <2>2, ValueStays
<1>5. ASSUME ActivationOK(s, h, q, s[b - 2].v, b - 3 - n)
      PROVE  ActivationOK(s2, h2, q, s[b - 2].v, b - 3 - n)
  <2>1. b - 3 - n \in Nat
        /\ \A p \in 1 .. b - 3 - n : p \in 1 .. b - 1 /\ p \notin (b - 2 - n) .. (b - 3)
    <3> HIDE DEF n
    <3>1. QED  BY <1>1, <1>2
  <2>2. \A p \in 1 .. b - 3 - n : s2[p] = s[p]
    BY <2>1
  <2>3. QED  BY <1>5, <2>1, <2>2, ActivationStays
<1>6. b - 1 \in 1 .. Len(s2)
  BY <1>1, <1>2
<1>7. QED  BY <1>1, <1>2, <1>3, <1>4, <1>5, <1>6 DEF Linked

-----------------------------------------------------------------------------------
(* A step inside a body: the activation keeps its frame, its first k words stay    *)
(* except that variables may change to other values, and the words above k are     *)
(* values or addresses of the activation's own variables.                          *)
BodyStep(s, h, s2, h2, f, pc, k) ==
  /\ k \in (f + NLoc(pc)) .. Len(s) /\ k <= Len(s2)
  /\ \A p \in 1 .. k :
       s2[p] = s[p] \/ (p \in VarCells(f, pc) /\ ValueOK(h2, s2[p]))
  /\ \A p \in (k + 1) .. Len(s2) : OperandOK(h2, s2[p], f, pc)

LEMMA BodyStepKeepsActivation ==
  ASSUME NEW h \in Seq(Objects), NEW h2 \in Seq(Objects), Grows(h, h2),
         NEW s \in Seq(Word), NEW s2 \in Seq(Word),
         NEW f, NEW pc, ActivationOK(s, h, f, pc, Len(s)),
         NEW k \in Nat, BodyStep(s, h, s2, h2, f, pc, k),
         NEW pc2 \in Ips, Entry[pc2] = Entry[pc], pc2 # Entry[pc2]
  PROVE  ActivationOK(s2, h2, f, pc2, Len(s2))
<1> DEFINE e == Entry[pc]
<1>1. PICK a \in Nat, l \in Nat, n \in Nat :
        /\ a = Code[e].argc /\ l = Code[e].nloc /\ l = NLoc(pc)
        /\ n = s[f - 1].v /\ n \in {a, a + 1} /\ n <= f - 3 /\ f + l <= Len(s)
        /\ VarCells(f, pc) = ((f + 1) .. (f + l)) \cup ((f - 2 - a) .. (f - 3))
        /\ f \in Nat /\ f >= 5 /\ f <= Len(s) /\ s[f].t = "fp" /\ pc \in Ips
  BY ActivationShape
<1>2. /\ n \in {a, a + 1} /\ n <= f - 3 /\ f + l <= Len(s)
      /\ VarCells(f, pc) = ((f + 1) .. (f + l)) \cup ((f - 2 - a) .. (f - 3))
      /\ f \in Nat /\ f >= 5 /\ f <= Len(s)
  BY <1>1
<1>3. NLoc(pc2) = l
  BY <1>1, CodeFacts
<1>4. f + l <= k /\ f <= k /\ k <= Len(s) /\ k <= Len(s2)
  BY <1>1 DEF BodyStep
<1>5. s2[f] = s[f] /\ s2[f - 1] = s[f - 1]
  <2>1. f \in 1 .. k /\ f - 1 \in 1 .. k
    BY <1>1, <1>4
  <2>2. f \notin VarCells(f, pc) /\ f - 1 \notin VarCells(f, pc)
    BY <1>2, SMTT(20)
  <2>3. QED  BY <2>1, <2>2 DEF BodyStep
<1>6. ArgumentsOK(s2, h2, f, n, e)
  <2>1. ASSUME Code[e].closure
        PROVE  n = a + 1 /\ ClosureFor(h2, s2[f - 2 - n], e)
    <3>1. n = a + 1 /\ ClosureFor(h, s[f - 2 - n], e)
      BY <1>1, <2>1 DEF ActivationOK, ArgumentsOK
    <3>2. f - 2 - n \in 1 .. k
      BY <1>2, <1>4, SMTT(20)
    <3>3. n = a + 1
      BY <3>1
    <3>4. f - 2 - n \notin VarCells(f, pc)
      BY <1>2, <3>3
    <3>5. s2[f - 2 - n] = s[f - 2 - n]
      BY <3>2, <3>4 DEF BodyStep
    <3>6. QED  BY <3>1, <3>5, ClosureStays
  <2>2. QED  BY <2>1, <1>1 DEF ArgumentsOK
<1>7. ASSUME NEW p \in (f + 1) .. Len(s2)
      PROVE  OperandOK(h2, s2[p], f, pc)
  <2>1. CASE p \in 1 .. k /\ s2[p] = s[p]
    <3>1. p \in (f + 1) .. Len(s)
      BY <2>1, <1>1, <1>4
    <3>2. OperandOK(h, s[p], f, pc)
      BY <3>1 DEF ActivationOK
    <3>3. QED  BY <2>1, <3>2, OperandStays
  <2>2. CASE ValueOK(h2, s2[p])
    BY <2>2 DEF OperandOK
  <2>3. CASE p \in (k + 1) .. Len(s2)
    BY <2>3 DEF BodyStep
  <2>4. p \in 1 .. k \/ p \in (k + 1) .. Len(s2)
    BY <1>1, <1>4
  <2>5. QED  BY <2>1, <2>2, <2>3, <2>4 DEF BodyStep
<1>8. ASSUME NEW p \in VarCells(f, pc)
      PROVE  ValueOK(h2, s2[p])
  <2>1. p \in 1 .. k
    BY <1>2, <1>4
  <2>2. ValueOK(h, s[p])
    BY DEF ActivationOK
  <2>3. QED  BY <2>1, <2>2, ValueStays DEF BodyStep
<1>9. /\ VarCells(f, pc2) = VarCells(f, pc)
      /\ \A w : OperandOK(h2, w, f, pc2) = OperandOK(h2, w, f, pc)
  BY <1>1, <1>3 DEF VarCells, AddressOK, OperandOK
<1>10. f \in 1 .. Len(s2) /\ f + l <= Len(s2)
  BY <1>2, <1>4
<1>11. n \in 0 .. f - 3
  BY <1>2
<1>12. QED  BY <1>1, <1>3, <1>5, <1>6, <1>7, <1>8, <1>9, <1>10, <1>11 DEF ActivationOK

LEMMA BodyStepKeepsFrames ==
  ASSUME NEW h \in Seq(Objects), NEW h2 \in Seq(Objects), Grows(h, h2),
         NEW s \in Seq(Word), NEW s2 \in Seq(Word), FramesLinked(s, h),
         NEW f, NEW pc, ActivationOK(s, h, f, pc, Len(s)),
         NEW k \in Nat, BodyStep(s, h, s2, h2, f, pc, k)
  PROVE  FramesLinked(s2, h2)
<1> DEFINE e == Entry[pc]
<1>1. PICK a \in Nat, l \in Nat, n \in Nat :
        /\ a = Code[e].argc /\ l = Code[e].nloc /\ l = NLoc(pc)
        /\ n = s[f - 1].v /\ n \in {a, a + 1} /\ n <= f - 3 /\ f + l <= Len(s)
        /\ VarCells(f, pc) = ((f + 1) .. (f + l)) \cup ((f - 2 - a) .. (f - 3))
        /\ f \in Nat /\ f >= 5 /\ f <= Len(s) /\ s[f].t = "fp" /\ pc \in Ips
  BY ActivationShape
<1>2. /\ n \in {a, a + 1} /\ n <= f - 3 /\ f + l <= Len(s)
      /\ VarCells(f, pc) = ((f + 1) .. (f + l)) \cup ((f - 2 - a) .. (f - 3))
      /\ f \in Nat /\ f >= 5 /\ f <= Len(s)
  BY <1>1
<1>3. f <= k /\ k <= Len(s) /\ k <= Len(s2)
  BY <1>1 DEF BodyStep
<1>4. \A p \in VarCells(f, pc) : p <= f => p \in (f - 2 - n) .. (f - 3)
  BY <1>2
<1>5. Linked(s, h, f, s[f].v)
  <2>1. f \in 1 .. Len(s) /\ s[f].t = "fp"
    BY <1>1
  <2>2. QED  BY <2>1 DEF FramesLinked
<1> SUFFICES ASSUME NEW b \in 1 .. Len(s2), s2[b].t = "fp"
             PROVE  Linked(s2, h2, b, s2[b].v)
  BY DEF FramesLinked
<1>6. b \in 1 .. k /\ s2[b] = s[b]
  <2>1. b \in 1 .. k \/ b \in (k + 1) .. Len(s2)
    BY <1>3
  <2>2. QED  BY <2>1, OperandsUnsaved DEF BodyStep
<1>7. b <= f
  <2>1. b \in (f + 1) .. Len(s) => OperandOK(h, s[b], f, pc)
    BY DEF ActivationOK
  <2>2. QED  BY <1>1, <1>3, <1>6, <2>1, OperandsUnsaved
<1>8. Linked(s, h, b, s[b].v)
  BY <1>3, <1>6 DEF FramesLinked
<1>9. CASE b = f
  <2>1. ASSUME NEW p \in 1 .. f - 1
        PROVE  s2[p] = s[p] \/ (p \in (f - 2 - n) .. (f - 3) /\ ValueOK(h2, s2[p]))
    <3>1. p \in 1 .. k /\ p <= f
      BY <1>1, <1>3
    <3>2. QED  BY <3>1, <1>4 DEF BodyStep
  <2>2. b - 1 <= Len(s2) /\ b \in Nat
    BY <1>1, <1>3, <1>9
  <2>3. Linked(s2, h2, b, s[b].v)
    BY <1>1, <1>8, <1>9, <2>1, <2>2, LinkStays
  <2>4. QED  BY <1>6, <2>3
<1>10. CASE b < f
  <2>1. s[f - 1].t = "argc" /\ s[f - 2].t = "ip"
        /\ \A p \in (f - 2 - n) .. (f - 3) : ValueOK(h, s[p])
    BY <1>1, <1>5 DEF Linked
  <2>2. b \notin (f - 2 - n) .. (f - 3) /\ b # f - 1 /\ b # f - 2
    BY <1>6, <2>1, OperandsUnsaved
  <2>3. b < f - 2 - n
    <3>1. b \in Nat /\ f \in Nat
      BY <1>2, <1>6
    <3>2. QED  BY <1>10, <2>2, <3>1, BelowArguments
  <2>4. ASSUME NEW p \in 1 .. b - 1
        PROVE  s2[p] = s[p]
    <3>1. p \in 1 .. k /\ p <= f /\ p \notin (f - 2 - n) .. (f - 3)
      BY <1>2, <1>3, <2>3
    <3>2. QED  BY <3>1, <1>4 DEF BodyStep
  <2>5. b - 1 <= Len(s2) /\ b \in Nat
    BY <1>1, <1>3, <1>10
  <2>6. \A p \in 1 .. b - 1 :
          \/ s2[p] = s[p]
          \/ p \in (b - 2 - s[b - 1].v) .. (b - 3) /\ ValueOK(h2, s2[p])
    BY <2>4
  <2>7. Linked(s2, h2, b, s[b].v)
    BY <1>8, <2>5, <2>6, LinkStays
  <2>8. QED  BY <1>6, <2>7
<1>11. QED  BY <1>1, <1>7, <1>9, <1>10

(* The words below the arguments of the activation with frame f are the same.      *)
SameBelow(s, s2, f) ==
  LET low == f - 3 - s[f - 1].v
  IN  Len(s2) >= low /\ SubSeq(s2, 1, low) = SubSeq(s, 1, low)

LEMMA SameBelowIf ==
  ASSUME NEW s \in Seq(Word), NEW s2 \in Seq(Word), NEW h,
         NEW f, NEW pc, ActivationOK(s, h, f, pc, Len(s)),
         NEW low \in Nat, low = f - 3 - s[f - 1].v, low <= Len(s2),
         \A p \in 1 .. low : s2[p] = s[p]
  PROVE  SameBelow(s, s2, f)
<1>1. f \in Nat /\ f <= Len(s) /\ s[f - 1].v \in 0 .. f - 3 /\ Len(s) \in Nat
  BY ActivationFacts
<1>2. low <= Len(s) /\ Len(s2) \in Nat
  BY <1>1
<1>3. /\ SubSeq(s2, 1, low) = [p \in 1 .. low |-> s2[p]]
      /\ SubSeq(s, 1, low) = [p \in 1 .. low |-> s[p]]
  BY <1>2, SubSeqProperties
<1>4. SubSeq(s2, 1, low) = SubSeq(s, 1, low)
  BY <1>3
<1>5. Len(s2) >= low
  BY <1>2
<1>6. QED  BY <1>4, <1>5 DEF SameBelow

(* Such a step leaves the words below the activation's arguments alone.            *)
LEMMA BodyStepKeepsCaller ==
  ASSUME NEW s \in Seq(Word), NEW s2 \in Seq(Word), NEW h, NEW h2,
         NEW f, NEW pc, ActivationOK(s, h, f, pc, Len(s)),
         NEW k \in Nat, BodyStep(s, h, s2, h2, f, pc, k)
  PROVE  SameBelow(s, s2, f)
<1>1. PICK a \in Nat, l \in Nat, n \in Nat :
        /\ a = Code[Entry[pc]].argc /\ l = Code[Entry[pc]].nloc /\ l = NLoc(pc)
        /\ n = s[f - 1].v /\ n \in {a, a + 1} /\ n <= f - 3 /\ f + l <= Len(s)
        /\ VarCells(f, pc) = ((f + 1) .. (f + l)) \cup ((f - 2 - a) .. (f - 3))
        /\ f \in Nat /\ f >= 5 /\ f <= Len(s) /\ s[f].t = "fp" /\ pc \in Ips
  BY ActivationShape
<1>2. /\ n \in {a, a + 1} /\ n <= f - 3 /\ f + l <= Len(s)
      /\ VarCells(f, pc) = ((f + 1) .. (f + l)) \cup ((f - 2 - a) .. (f - 3))
      /\ f \in Nat /\ f >= 5 /\ f <= Len(s)
  BY <1>1
<1>3. PICK low \in Nat : low = f - 3 - n
  BY <1>2
<1>4. f <= k /\ k <= Len(s) /\ k <= Len(s2) /\ Len(s2) \in Nat
  BY <1>1 DEF BodyStep
<1>5. low <= Len(s2) /\ low <= k /\ 1 .. low \subseteq 1 .. k
  BY <1>2, <1>3, <1>4
<1>6. ASSUME NEW p \in 1 .. low
      PROVE  s2[p] = s[p]
  <2>1. p \notin VarCells(f, pc)
    BY <1>2, <1>3
  <2>2. QED  BY <1>5, <2>1 DEF BodyStep
<1>7. QED  BY <1>1, <1>3, <1>5, <1>6, SameBelowIf

(* A stack that shares its first k words with another and has no saved frame       *)
(* pointer above them is as well linked.                                           *)
LEMMA FramesStay ==
  ASSUME NEW h \in Seq(Objects), NEW s \in Seq(Word), NEW s2 \in Seq(Word),
         FramesLinked(s, h), NEW k \in 0 .. Len(s), k <= Len(s2),
         \A p \in 1 .. k : s2[p] = s[p],
         \A p \in (k + 1) .. Len(s2) : s2[p].t # "fp"
  PROVE  FramesLinked(s2, h)
<1> SUFFICES ASSUME NEW b \in 1 .. Len(s2), s2[b].t = "fp"
             PROVE  Linked(s2, h, b, s2[b].v)
  BY DEF FramesLinked
<1>1. b \in 1 .. k /\ b \in 1 .. Len(s) /\ b \in Nat /\ b - 1 <= Len(s2)
  <2>1. b \in 1 .. k \/ b \in (k + 1) .. Len(s2)
    OBVIOUS
  <2>2. QED  BY <2>1
<1>2. s2[b] = s[b] /\ Linked(s, h, b, s[b].v)
  BY <1>1 DEF FramesLinked
<1>3. Grows(h, h)
  BY DEF Grows
<1>4. \A p \in 1 .. b - 1 : s2[p] = s[p]
  BY <1>1
<1>5. Linked(s2, h, b, s[b].v)
  BY <1>1, <1>2, <1>3, <1>4, LinkStays
<1>6. QED  BY <1>2, <1>5

-----------------------------------------------------------------------------------
(* The inductive invariant, and what it says in a function's body.                 *)
IInv == TypeOK /\ CallingConvention

(* What the step of an instruction does to the frames: it works inside one...      *)
Computes ==
  /\ InBody /\ InBody' /\ fp' = fp /\ Entry[ip'] = Entry[ip]
  /\ \A p \in {fp - 2, fp - 1, fp} : stack'[p] = stack[p]

(* ...calls a function of n arguments, with the closure below them if c is 1...    *)
Invokes(n, c) ==
  /\ InBody /\ AtEntry' /\ fp' = fp /\ ip' \in DOMAIN Code /\ Code[ip'].argc = n
  /\ ip + 1 \in Ips /\ Entry[ip + 1] = Entry[ip]
  /\ Avail(n + c) /\ (c = 1 => Peek(n).t = "obj")
  /\ Size' = Size + 2
  /\ \A p \in 1 .. Size - n : stack'[p] = stack[p]
  /\ \A j \in 1 .. n : stack'[Size + 1 - j] = stack[Size - n + j]
  /\ stack'[Size + 1] = Mk("ip", ip + 1) /\ stack'[Size + 2] = Mk("argc", n + c)

(* ...completes the frame of the function that was called...                       *)
Enters ==
  /\ AtEntry /\ InBody' /\ Entry[ip'] = ip /\ fp' = Size + 1
  /\ Size' = Size + 1 + NLoc(ip') /\ stack'[Size + 1] = Mk("fp", fp)
  /\ \A p \in 1 .. Size : stack'[p] = stack[p]
  /\ \A p \in Size + 2 .. Size' : stack'[p] = Junk

(* ...or hands the word at the top over to the caller.                             *)
Returns ==
  LET low == fp - 3 - stack[fp - 1].v IN
  /\ InBody /\ Avail(1) /\ fp' = stack[fp].v /\ ip' = stack[fp - 2].v
  /\ Size' = low + 1 /\ stack'[low + 1] = stack[Size]
  /\ \A p \in 1 .. low : stack'[p] = stack[p]

LEMMA BodyFacts ==
  ASSUME IInv, InBody
  PROVE  /\ ActivationOK(stack, heap, fp, ip, Size) /\ FramesLinked(stack, heap)
         /\ stack \in Seq(Word) /\ heap \in Seq(Objects) /\ Size \in Nat
         /\ fp \in Nat /\ fp >= 5 /\ NLoc(ip) \in Nat /\ fp + NLoc(ip) <= Size
         /\ ip \in Ips /\ ip \in Nat
<1>1. /\ ActivationOK(stack, heap, fp, ip, Size) /\ FramesLinked(stack, heap)
      /\ stack \in Seq(Word) /\ heap \in Seq(Objects) /\ Size \in Nat /\ ip \in Ips
  BY DEF IInv, TypeOK, CallingConvention, RegistersAgree, InBody, Size
<1>2. QED  BY <1>1, ActivationFacts, CodeFacts

(* Operands an instruction takes are values of the heap, and words.                *)
LEMMA PeekFacts ==
  ASSUME IInv, InBody, NEW n \in Nat, Takes(n), NEW j \in 0 .. n - 1
  PROVE  /\ Size - j \in 1 .. Size /\ Peek(j) = stack[Size - j]
         /\ Peek(j) \in Word /\ ValueOK(heap, Peek(j))
<1>1. Size - j \in (fp + 1) .. Size
  BY BodyFacts DEF Takes, Avail
<1>2. Size - j \in 1 .. Size /\ Peek(j) \in Word
  BY <1>1, BodyFacts DEF Peek, Size
<1>3. OperandOK(heap, Peek(j), fp, ip) /\ Plain(Peek(j))
  BY <1>1, BodyFacts DEF ActivationOK, Peek, Takes
<1>4. ~AddressOK(heap, Peek(j), fp, ip)
  BY <1>3, TagsDiffer DEF AddressOK
<1>5. QED  BY <1>2, <1>3, <1>4 DEF OperandOK, Peek

(* Words the instructions make.                                                    *)
LEMMA WrapInt ==
  ASSUME NEW n \in Int
  PROVE  Wrap(n) \in Ints /\ Wrap(n) \in Int
<1>1. Half \in Nat /\ Half > 0
  BY HalfAssumption
<1>2. (n + Half) % (2 * Half) \in 0 .. 2 * Half - 1
  BY <1>1
<1>3. QED  BY <1>1, <1>2 DEF Wrap, Ints

LEMMA CharInt ==
  ASSUME NEW n \in Int
  PROVE  Char(n) \in Int
<1>1. CharHalf \in Nat /\ CharHalf > 0
  BY HalfAssumption, ConstantsAssumption
<1>2. (n + CharHalf) % (2 * CharHalf) \in 0 .. 2 * CharHalf - 1
  BY <1>1
<1>3. QED  BY <1>1, <1>2 DEF Char

LEMMA IntWord ==
  ASSUME NEW n \in Int
  PROVE  IntW(n) \in Word /\ Plain(IntW(n)) /\ \A h : ValueOK(h, IntW(n))
  BY DEF IntW, Mk, Word, Plain, PlainTags, AddrTags, SavedTags, ValueOK

LEMMA OtherWords ==
  /\ Junk \in Word /\ Null \in Word
  /\ \A h : ValueOK(h, Junk) /\ ValueOK(h, Null)
  /\ \A n \in Int : /\ Mk("fp", n) \in Word /\ Mk("argc", n) \in Word
                    /\ Mk("ip", n) \in Word /\ Mk("obj", n) \in Word
                    /\ Mk("stk", n) \in Word /\ Mk("glb", n) \in Word
                    /\ Mk("fp", n).t = "fp" /\ Mk("argc", n).t = "argc"
                    /\ Mk("ip", n).t = "ip" /\ Mk("fp", n).v = n
                    /\ Mk("argc", n).v = n /\ Mk("ip", n).v = n
                    /\ Mk("stk", n).t = "stk" /\ Mk("stk", n).v = n
                    /\ Mk("glb", n).t = "glb" /\ Mk("glb", n).v = n
  BY DEF Junk, Null, Mk, Word, Plain, PlainTags, AddrTags, SavedTags, ValueOK

LEMMA UnboxInt ==
  ASSUME NEW w \in Word
  PROVE  Unbox(w) \subseteq Int
<1>1. w.v \in Int
  BY DEF Word
<1>2. Ints \subseteq Int
  BY HalfAssumption DEF Ints
<1>3. Unbox(w) = {w.v} \/ Unbox(w) = {0} \/ Unbox(w) = Ints
  BY DEF Unbox
<1>4. CASE Unbox(w) = {w.v}
  BY <1>1, <1>4
<1>5. CASE Unbox(w) = {0}
  BY <1>5
<1>6. CASE Unbox(w) = Ints
  BY <1>2, <1>6
<1>7. QED  BY <1>3, <1>4, <1>5, <1>6

LEMMA ComputeInt ==
  ASSUME NEW op \in BinopNames, NEW x \in Int, NEW y \in Int, ~Traps(op, y)
  PROVE  Compute(op, x, y) \in Int
<1>1. ASSUME y # 0 PROVE Quotient(x, y) \in Int
  <2>1. Magnitude(x) \in Nat /\ Magnitude(y) \in Nat /\ Magnitude(y) > 0
    BY <1>1 DEF Magnitude
  <2>2. Magnitude(x) \div Magnitude(y) \in Int
    BY <2>1
  <2>3. QED  BY <2>2 DEF Quotient
<1>2. ASSUME y # 0 PROVE Remainder(x, y) \in Int
  BY <1>1, <1>2 DEF Remainder
<1>3. CASE op \in {"ADD", "SUB", "PROD", "DIV", "MOD"}
  BY <1>1, <1>2, <1>3 DEF Compute, Traps
<1>4. CASE op \in {"LESS", "ELESS", "GREATER", "EGREATER"}
  BY <1>4 DEF Compute, Bit
<1>5. CASE op \in {"EQUAL", "NEQUAL", "AND", "OR"}
  BY <1>5 DEF Compute, Bit
<1>6. QED  BY <1>3, <1>4, <1>5 DEF BinopNames

(* Positions around a call of m arguments that lie above low.                      *)
Positions(z, m, low, f) ==
  /\ \A p \in (low + 1) .. (z + 2) : p \in (low + 1) .. z \/ p = z + 1 \/ p = z + 2
  /\ z + 3 \in Nat /\ z + 3 >= 5 /\ (z + 3) - 1 \in 1 .. (z + 2) /\ (z + 3) - 3 - m = low
  /\ (z + 3) - 2 - m = low + 1 /\ (z + 3) - 3 = z /\ (z + 3) - 2 = z + 1
  /\ (z + 3) - 1 = z + 2 /\ f \in 0 .. low /\ f # 0
  /\ \A n \in 0 .. f - 3 : /\ f - 3 - n \in Nat /\ f - 3 - n <= z + 2
                          /\ 1 .. (f - 3 - n) \subseteq 1 .. low
  /\ low <= z /\ low <= z + 2 /\ low \in 0 .. z

LEMMA CallPositions ==
  ASSUME NEW z \in Nat, NEW m \in Nat, NEW low \in Nat, low + m = z,
         NEW f \in Nat, f >= 5, f <= low
  PROVE  Positions(z, m, low, f)
<1>1. \A n \in 0 .. f - 3 : f - 3 - n \in Nat /\ f - 3 - n <= z + 2
  OBVIOUS
<1>2. \A n \in 0 .. f - 3 : 1 .. (f - 3 - n) \subseteq 1 .. low
  OBVIOUS
<1>3. QED  BY <1>1, <1>2 DEF Positions

(* A call: the words above low become the arguments, the return address and their  *)
(* number are pushed, and the activation is resumable at the return address.       *)
CallStep(h, s, s2, z, m, low, r) ==
  /\ Len(s2) = z + 2 /\ \A p \in 1 .. low : s2[p] = s[p]
  /\ \A p \in (low + 1) .. z : ValueOK(h, s2[p])
  /\ s2[z + 1] = Mk("ip", r) /\ s2[z + 2] = Mk("argc", m)

LEMMA InvokeShape ==
  ASSUME NEW h \in Seq(Objects), NEW s \in Seq(Word), NEW s2 \in Seq(Word),
         NEW f, NEW pc, ActivationOK(s, h, f, pc, Len(s)), FramesLinked(s, h),
         NEW z \in Nat, z = Len(s), NEW m \in Nat, NEW low \in Nat, low + m = z,
         f + NLoc(pc) <= low,
         NEW r \in Ips, Entry[r] = Entry[pc], r # Entry[r],
         CallStep(h, s, s2, z, m, low, r)
  PROVE  FramesLinked(s2, h) /\ Linked(s2, h, z + 3, f) /\ SameBelow(s, s2, f)
<1>1. /\ Len(s2) = z + 2 /\ \A p \in 1 .. low : s2[p] = s[p]
      /\ \A p \in (low + 1) .. z : ValueOK(h, s2[p])
      /\ s2[z + 1] = Mk("ip", r) /\ s2[z + 2] = Mk("argc", m)
  BY DEF CallStep
<1>2. f \in Nat /\ f >= 5 /\ f <= low /\ r \in Int /\ s[f - 1].v \in 0 .. f - 3
  <2>1. f \in Nat /\ f >= 5 /\ s[f - 1].v \in 0 .. f - 3 /\ pc \in Ips
    BY ActivationFacts
  <2>2. NLoc(pc) \in Nat
    BY <2>1, CodeFacts
  <2>3. r \in Int
    BY CodeFacts
  <2>4. f <= low
    BY <2>1, <2>2
  <2>5. QED  BY <2>1, <2>3, <2>4
<1>3. Positions(z, m, low, f)
  BY <1>2, CallPositions
<1>4. s2[z + 1].t = "ip" /\ s2[z + 1].v = r /\ s2[z + 2].t = "argc" /\ s2[z + 2].v = m
  BY <1>1, <1>2, OtherWords
<1>5. Grows(h, h)
  BY DEF Grows
<1>6. FramesLinked(s2, h)
  <2>1. low \in 0 .. Len(s) /\ low <= Len(s2)
    BY <1>1, <1>3 DEF Positions
  <2>2. ASSUME NEW p \in (low + 1) .. Len(s2)
        PROVE  s2[p].t # "fp"
    <3>1. p \in (low + 1) .. z \/ p = z + 1 \/ p = z + 2
      <4>1. p \in (low + 1) .. (z + 2)
        BY <1>1
      <4>2. QED  BY <1>3, <4>1 DEF Positions
    <3>2. CASE p \in (low + 1) .. z
      BY <1>1, <3>2, OperandsUnsaved
    <3>3. CASE p = z + 1 \/ p = z + 2
      BY <1>4, <3>3
    <3>4. QED  BY <3>1, <3>2, <3>3
  <2>3. QED  BY <1>1, <2>1, <2>2, FramesStay
<1>7. ActivationOK(s2, h, f, r, low)
  <2>1. PICK t \in Seq(Word) : Len(t) = low /\ \A p \in 1 .. low : t[p] = s[p]
    <3>1. /\ SubSeq(s, 1, low) \in Seq(Word) /\ Len(SubSeq(s, 1, low)) = low
          /\ \A p \in 1 .. low : SubSeq(s, 1, low)[p] = s[p]
      BY <1>2, SubSeqProperties
    <3>2. QED  BY <3>1
  <2>2. BodyStep(s, h, t, h, f, pc, low)
    BY <1>2, <2>1 DEF BodyStep
  <2>3. ActivationOK(t, h, f, r, Len(t))
    BY <1>5, <2>2, BodyStepKeepsActivation
  <2>4. \A p \in 1 .. low : s2[p] = t[p]
    BY <1>1, <2>1
  <2>5. QED  BY <1>5, <2>1, <2>3, <2>4, ActivationStays
<1>8. Linked(s2, h, z + 3, f)
  BY <1>1, <1>3, <1>4, <1>7 DEF Linked, Positions
<1>9. SameBelow(s, s2, f)
  <2>1. PICK n \in 0 .. f - 3 : n = s[f - 1].v
    BY <1>2
  <2>2. PICK k \in Nat : k = f - 3 - n
    BY <1>3, <2>1 DEF Positions
  <2>3. k <= Len(s2) /\ 1 .. k \subseteq 1 .. low
    BY <1>1, <1>3, <2>1, <2>2 DEF Positions
  <2>4. \A p \in 1 .. k : s2[p] = s[p]
    BY <1>1, <2>3
  <2>5. k = f - 3 - s[f - 1].v
    BY <2>1, <2>2
  <2>6. QED  BY <2>3, <2>4, <2>5, SameBelowIf
<1>10. QED  BY <1>6, <1>8, <1>9

(* A prologue: the caller's frame pointer and the locals are pushed on what a call  *)
(* left, and the new activation is complete.                                       *)
EnterStep(s, s2, z, q, k) ==
  /\ Len(s2) = z + 1 + k /\ \A p \in 1 .. z : s2[p] = s[p]
  /\ s2[z + 1] = Mk("fp", q) /\ \A p \in (z + 2) .. (z + 1 + k) : s2[p] = Junk

LEMMA EnterShape ==
  ASSUME NEW h \in Seq(Objects), NEW s \in Seq(Word), NEW s2 \in Seq(Word),
         FramesLinked(s, h), NEW z \in Nat, z = Len(s), NEW q \in Int,
         Linked(s, h, z + 1, q),
         NEW r \in Ips, ArgumentsOK(s, h, z + 1, s[z].v, Entry[r]), r # Entry[r],
         NEW k \in Nat, k = NLoc(r), EnterStep(s, s2, z, q, k)
  PROVE  FramesLinked(s2, h) /\ ActivationOK(s2, h, z + 1, r, Len(s2))
<1>1. /\ Len(s2) = z + 1 + k /\ \A p \in 1 .. z : s2[p] = s[p]
      /\ s2[z + 1].t = "fp" /\ s2[z + 1].v = q
      /\ \A p \in (z + 2) .. (z + 1 + k) : s2[p] = Junk
  <2>1. Mk("fp", q).t = "fp" /\ Mk("fp", q).v = q
    BY OtherWords
  <2>2. QED  BY <2>1 DEF EnterStep
<1>2. PICK b \in Nat : b = z + 1 /\ b - 1 = z
  OBVIOUS
<1>3. Linked(s, h, b, q) /\ ArgumentsOK(s, h, b, s[z].v, Entry[r])
  BY <1>2
<1>4. PICK n \in Nat : n = s[z].v /\ n <= b - 3 /\ b >= 5
  <2>1. s[b - 1].v \in Nat /\ q \in 0 .. b - 3 - s[b - 1].v /\ b >= 5
    BY <1>3 DEF Linked
  <2>2. PICK n \in Nat : n = s[b - 1].v /\ q \in 0 .. b - 3 - n
    BY <2>1
  <2>3. n <= b - 3
    BY <2>2
  <2>4. QED  BY <1>2, <2>1, <2>2, <2>3
<1>5. PICK a \in Nat : a = Code[Entry[r]].argc /\ n \in {a, a + 1}
  BY <1>3, <1>4, CodeFacts DEF ArgumentsOK
<1>6. /\ Len(s2) = b + k /\ b <= Len(s2) /\ n \in 0 .. b - 3 /\ b - 2 - n \in 1 .. z
      /\ b \in 1 .. Len(s2) /\ b + k <= Len(s2) /\ b - 1 <= Len(s2)
  <2>1. Len(s2) = b + k
    BY <1>1, <1>2
  <2>2. n \in 0 .. b - 3 /\ b - 2 - n \in 1 .. z
    BY <1>2, <1>4
  <2>3. b <= b + k /\ b \in 1 .. (b + k) /\ b - 1 <= b + k
    BY <1>4
  <2>4. QED  BY <2>1, <2>2, <2>3
<1>7. ASSUME NEW p \in (b + 1) .. Len(s2)
      PROVE  s2[p] = Junk /\ ValueOK(h, s2[p]) /\ s2[p].t # "fp"
  <2>1. p \in (z + 2) .. (z + 1 + k)
    BY <1>2, <1>6
  <2>2. s2[p] = Junk
    BY <1>1, <2>1
  <2>3. ValueOK(h, Junk)
    BY OtherWords
  <2>4. ValueOK(h, s2[p])
    BY <2>2, <2>3
  <2>5. QED  BY <2>2, <2>4, OperandsUnsaved
<1>8. VarCells(b, r) = ((b + 1) .. (b + k)) \cup ((b - 2 - a) .. (b - 3))
  BY <1>5, CodeFacts DEF VarCells
<1>9. ASSUME NEW p \in VarCells(b, r)
      PROVE  ValueOK(h, s2[p])
  <2>1. CASE p \in (b + 1) .. (b + k)
    BY <1>6, <1>7, <2>1
  <2>2. CASE p \in (b - 2 - a) .. (b - 3)
    <3>1. p \in (b - 2 - n) .. (b - 3) /\ p \in 1 .. z
      <4>1. n \in {a, a + 1} /\ n <= b - 3 /\ b - 1 = z
        BY <1>2, <1>4, <1>5
      <4>2. p \in (b - 2 - n) .. (b - 3) /\ p \in 1 .. b - 1
        BY <2>2, <4>1, ArgumentPositions
      <4>3. QED  BY <4>1, <4>2
    <3>2. ValueOK(h, s[p])
      BY <1>2, <1>3, <1>4, <3>1 DEF Linked
    <3>3. QED  BY <1>1, <3>1, <3>2
  <2>3. QED  BY <1>8, <2>1, <2>2
<1>10. ArgumentsOK(s2, h, b, n, Entry[r])
  <2>1. s2[b - 2 - n] = s[b - 2 - n]
    BY <1>1, <1>6
  <2>2. QED  BY <1>3, <1>4, <2>1 DEF ArgumentsOK
<1>11. s2[b - 1].v = n /\ s2[b].t = "fp" /\ s2[b].v = q
  <2>1. z \in 1 .. z
    BY <1>2, <1>4
  <2>2. QED  BY <1>1, <1>2, <1>4, <2>1
<1>12. ActivationOK(s2, h, b, r, Len(s2))
  BY <1>4, <1>6, <1>7, <1>9, <1>10, <1>11 DEF ActivationOK, OperandOK
<1>13. Grows(h, h)
  BY DEF Grows
<1>14. Linked(s2, h, b, q)
  <2>1. \A p \in 1 .. b - 1 : s2[p] = s[p]
    BY <1>1, <1>2
  <2>2. QED  BY <1>3, <1>6, <1>13, <2>1, LinkStays
<1>15. FramesLinked(s2, h)
  <2> SUFFICES ASSUME NEW x \in 1 .. Len(s2), s2[x].t = "fp"
               PROVE  Linked(s2, h, x, s2[x].v)
    BY DEF FramesLinked
  <2>1. x \in 1 .. z \/ x = b \/ x \in (b + 1) .. Len(s2)
    BY <1>2
  <2>2. CASE x = b
    BY <1>11, <1>14, <2>2
  <2>3. CASE x \in 1 .. z
    <3>1. s2[x] = s[x] /\ Linked(s, h, x, s[x].v)
      BY <1>1, <2>3 DEF FramesLinked
    <3>2. x \in Nat /\ x - 1 <= Len(s2) /\ 1 .. x - 1 \subseteq 1 .. z
      BY <1>1, <2>3
    <3>3. \A p \in 1 .. x - 1 : s2[p] = s[p]
      BY <1>1, <3>2
    <3>4. Linked(s2, h, x, s[x].v)
      BY <1>13, <3>1, <3>2, <3>3, LinkStays
    <3>5. QED  BY <3>1, <3>4
  <2>4. QED  BY <1>7, <2>1, <2>2, <2>3
<1>16. QED  BY <1>2, <1>12, <1>15

(* A return: the stack is cut below the arguments, and the caller -- if the frame   *)
(* pointer that was saved names one -- has one value more.                         *)
ReturnStep(h, s, s2, low) ==
  /\ Len(s2) = low + 1 /\ \A p \in 1 .. low : s2[p] = s[p]
  /\ ValueOK(h, s2[low + 1])

LEMMA ReturnShape ==
  ASSUME NEW h \in Seq(Objects), NEW s \in Seq(Word), NEW s2 \in Seq(Word),
         NEW f, NEW pc, ActivationOK(s, h, f, pc, Len(s)), FramesLinked(s, h),
         NEW low \in Nat, low = f - 3 - s[f - 1].v, ReturnStep(h, s, s2, low)
  PROVE  /\ FramesLinked(s2, h) /\ SameBelow(s, s2, f)
         /\ s[f].v \in 0 .. low
         /\ \/ s[f].v = 0 /\ s[f - 2].v = 0 /\ low = 0
            \/ s[f].v # 0 /\ ActivationOK(s2, h, s[f].v, s[f - 2].v, low + 1)
<1>1. /\ Len(s2) = low + 1 /\ \A p \in 1 .. low : s2[p] = s[p]
      /\ ValueOK(h, s2[low + 1])
  BY DEF ReturnStep
<1>2. f \in Nat /\ f >= 5 /\ f <= Len(s) /\ s[f].t = "fp" /\ s[f - 1].v \in 0 .. f - 3
  BY ActivationFacts
<1>3. PICK n \in 0 .. f - 3 : n = s[f - 1].v /\ low = f - 3 - n
  BY <1>2
<1>4. low <= Len(s) /\ low <= Len(s2) /\ low \in 0 .. Len(s)
  BY <1>1, <1>2, <1>3, SMTT(20)
<1>5. FramesLinked(s2, h)
  <2>1. ASSUME NEW p \in (low + 1) .. Len(s2)
        PROVE  s2[p].t # "fp"
    <3>1. p = low + 1
      BY <1>1
    <3>2. QED  BY <1>1, <3>1, OperandsUnsaved
  <2>2. QED  BY <1>1, <1>4, <2>1, FramesStay
<1>6. SameBelow(s, s2, f)
  BY <1>1, <1>4, SameBelowIf
<1>7. Linked(s, h, f, s[f].v)
  <2>1. f \in 1 .. Len(s)
    BY <1>2
  <2>2. QED  BY <1>2, <2>1 DEF FramesLinked
<1>8. s[f].v \in 0 .. low
  BY <1>3, <1>7 DEF Linked
<1>9. CASE s[f].v = 0
  <2>1. s[f - 2].v = 0 /\ f = 5 /\ n = 2
    BY <1>3, <1>7, <1>9 DEF Linked
  <2>2. QED  BY <1>3, <1>5, <1>6, <1>8, <1>9, <2>1
<1>10. CASE s[f].v # 0
  <2>1. PICK q, ret : q = s[f].v /\ ret = s[f - 2].v
    OBVIOUS
  <2>2. ActivationOK(s, h, q, ret, low)
    BY <1>3, <1>7, <1>10, <2>1 DEF Linked
  <2>3. Grows(h, h)
    BY DEF Grows
  <2>4. PICK t \in Seq(Word) : Len(t) = low /\ \A p \in 1 .. low : t[p] = s[p]
    <3>1. /\ SubSeq(s, 1, low) \in Seq(Word) /\ Len(SubSeq(s, 1, low)) = low
          /\ \A p \in 1 .. low : SubSeq(s, 1, low)[p] = s[p]
      BY <1>4, SubSeqProperties
    <3>2. QED  BY <3>1
  <2>5. ActivationOK(t, h, q, ret, Len(t))
    BY <2>2, <2>3, <2>4, ActivationStays
  <2>6. q + NLoc(ret) <= low /\ ret \in Ips /\ ret # Entry[ret] /\ q \in Nat
        /\ NLoc(ret) \in Nat
    <3>1. q + NLoc(ret) <= low /\ ret \in Ips /\ ret # Entry[ret] /\ q \in Nat
      BY <2>2 DEF ActivationOK
    <3>2. QED  BY <3>1, CodeFacts
  <2>7. BodyStep(t, h, s2, h, q, ret, low)
    <3>1. low \in (q + NLoc(ret)) .. Len(t) /\ low <= Len(s2)
      BY <1>1, <2>4, <2>6
    <3>2. \A p \in 1 .. low : s2[p] = t[p]
      BY <1>1, <2>4
    <3>3. ASSUME NEW p \in (low + 1) .. Len(s2)
          PROVE  OperandOK(h, s2[p], q, ret)
      <4>1. p = low + 1
        BY <1>1
      <4>2. QED  BY <1>1, <4>1 DEF OperandOK
    <3>4. QED  BY <3>1, <3>2, <3>3 DEF BodyStep
  <2>8. ActivationOK(s2, h, q, ret, Len(s2))
    BY <2>3, <2>5, <2>6, <2>7, BodyStepKeepsActivation
  <2>9. ActivationOK(s2, h, q, ret, low + 1)
    BY <1>1, <2>8
  <2>10. QED  BY <1>5, <1>6, <1>8, <1>10, <2>1, <2>9
<1>11. QED  BY <1>9, <1>10

-----------------------------------------------------------------------------------
(* Steps of a body.                                                                *)

LEMMA NextAddress ==
  ASSUME InBody, NEW i \in Prog[ip], i[1] \notin {"JMP", "END", "FAIL", "STOP"}
  PROVE  ip + 1 \in Ips /\ Entry[ip + 1] = Entry[ip] /\ ip + 1 # Entry[ip + 1]
  BY ProgramAssumption DEF InBody, WellFormed, FallsThrough

(* Changing variables, popping operands and pushing others is a step of the body.  *)
LEMMA PutIsBodyStep ==
  ASSUME IInv, InBody, NEW s \in Seq(Word), Len(s) = Size,
         \A p \in 1 .. Size :
           s[p] = stack[p] \/ (p \in VarCells(fp, ip) /\ ValueOK(heap', s[p])),
         NEW n \in Nat, Avail(n), NEW t \in Seq(Word), Put(s, n, t),
         \A p \in 1 .. Len(t) : OperandOK(heap', t[p], fp, ip)
  PROVE  /\ stack' \in Seq(Word) /\ Len(stack') <= Capacity /\ Size - n \in Nat
         /\ fp <= Len(stack')
         /\ BodyStep(stack, heap, stack', heap', fp, ip, Size - n)
<1> DEFINE k == Size - n
<1>1. k \in (fp + NLoc(ip)) .. Size /\ k \in 0 .. Len(s) /\ k \in Nat /\ fp <= k
      /\ k <= Size
  BY BodyFacts DEF Avail
<1>2. stack' = SubSeq(s, 1, k) \o t /\ k + Len(t) <= Capacity
  BY DEF Put
<1>3. /\ stack' \in Seq(Word) /\ Len(stack') = k + Len(t)
      /\ \A p \in 1 .. k : stack'[p] = s[p]
      /\ \A p \in 1 .. Len(t) : stack'[k + p] = t[p]
  BY <1>1, <1>2, PutLemma
<1>4. Len(t) \in Nat
  OBVIOUS
<1>5. ASSUME NEW p \in (k + 1) .. Len(stack')
      PROVE  OperandOK(heap', stack'[p], fp, ip)
  <2>1. p - k \in 1 .. Len(t) /\ p = k + (p - k)
    <3> HIDE DEF k
    <3>1. QED  BY <1>1, <1>3, <1>4
  <2>2. stack'[p] = t[p - k]
    BY <2>1, <1>3
  <2>3. QED  BY <2>1, <2>2
<1>6. ASSUME NEW p \in 1 .. k
      PROVE  stack'[p] = stack[p] \/ (p \in VarCells(fp, ip) /\ ValueOK(heap', stack'[p]))
  <2>1. p \in 1 .. Size
    BY <1>1, BodyFacts
  <2>2. stack'[p] = s[p]
    BY <1>3
  <2>3. QED  BY <2>1, <2>2
<1>7. k <= Len(stack') /\ fp <= Len(stack') /\ Len(stack') <= Capacity
  <2>1. k \in Nat /\ fp \in Nat /\ fp <= k
    BY <1>1, BodyFacts
  <2>2. Capacity \in Nat
    BY ConstantsAssumption
  <2> HIDE DEF k
  <2>3. QED  BY <1>2, <1>3, <1>4, <2>1, <2>2
<1>8. k \in (fp + NLoc(ip)) .. Len(stack)
  BY <1>1 DEF Size
<1>9. QED  BY <1>1, <1>3, <1>5, <1>6, <1>7, <1>8 DEF BodyStep

(* Without a change of variables.                                                  *)
LEMMA PlainPutIsBodyStep ==
  ASSUME IInv, InBody, NEW n \in Nat, Avail(n), NEW t \in Seq(Word), Put(stack, n, t),
         \A p \in 1 .. Len(t) : OperandOK(heap', t[p], fp, ip)
  PROVE  /\ stack' \in Seq(Word) /\ Len(stack') <= Capacity /\ Size - n \in Nat
         /\ fp <= Len(stack')
         /\ BodyStep(stack, heap, stack', heap', fp, ip, Size - n)
<1>1. stack \in Seq(Word) /\ Len(stack) = Size
  BY BodyFacts DEF Size
<1>2. QED  BY <1>1, PutIsBodyStep

(* A body step that lets the heap grow keeps the calling convention.               *)
LEMMA BodyPreserves ==
  ASSUME IInv, InBody,
         stack' \in Seq(Word), Len(stack') <= Capacity,
         NEW k \in Nat, BodyStep(stack, heap, stack', heap', fp, ip, k),
         fp' = fp, fp <= Len(stack'),
         ip' \in Ips, Entry[ip'] = Entry[ip], ip' # Entry[ip'],
         heap' \in Seq(Objects), Grows(heap, heap'),
         \A o \in 1 .. Len(heap') : ObjectOK(heap', o),
         globals' \in [1 .. NGlobals -> Word],
         \A g \in 1 .. NGlobals : ValueOK(heap', globals'[g]),
         status' \in {"run", "failed", "trapped", "stopped", "astray"}
  PROVE  IInv' /\ KeepsCaller /\ Computes
<1>1. TypeOK'
  BY BodyFacts DEF TypeOK, Size
<1>2. FramesLinked(stack', heap')
  BY BodyFacts, BodyStepKeepsFrames DEF Size
<1>3. ActivationOK(stack', heap', fp, ip', Len(stack'))
  BY BodyFacts, BodyStepKeepsActivation DEF Size
<1>4. ip' # 0
  BY CodeFacts
<1>5. RegistersAgree'
  BY <1>3, <1>4 DEF RegistersAgree, AtEntry, InBody, Size
<1>6. CallingConvention'
  BY <1>2, <1>5 DEF CallingConvention
<1>7. KeepsCaller
  <2>1. stack \in Seq(Word) /\ ActivationOK(stack, heap, fp, ip, Len(stack))
    BY BodyFacts DEF Size
  <2>2. SameBelow(stack, stack', fp)
    BY <2>1, BodyStepKeepsCaller
  <2>3. QED  BY <2>2 DEF SameBelow, KeepsCaller
<1>8. Computes
  <2>1. fp \in Nat /\ fp >= 5 /\ InBody'
    BY BodyFacts DEF InBody
  <2>2. fp <= k
    BY <2>1, BodyFacts DEF BodyStep
  <2>3. ASSUME NEW p \in {fp - 2, fp - 1, fp}
        PROVE  p \in 1 .. k /\ p \notin VarCells(fp, ip)
    <3>1. \A a \in Nat : p \notin (fp - 2 - a) .. (fp - 3)
      BY <2>1
    <3>2. p \in 1 .. k /\ p \notin (fp + 1) .. (fp + NLoc(ip))
      BY <2>1, <2>2, BodyFacts
    <3>3. QED  BY <3>1, <3>2, BodyFacts, CodeFacts DEF VarCells
  <2>4. \A p \in {fp - 2, fp - 1, fp} : stack'[p] = stack[p]
    BY <2>3 DEF BodyStep
  <2>5. QED  BY <2>1, <2>4 DEF Computes
<1>9. QED  BY <1>1, <1>6, <1>7, <1>8 DEF IInv

(* A heap that stays as it is.                                                     *)
LEMMA HeapSame ==
  ASSUME IInv, heap' = heap, globals' = globals
  PROVE  /\ heap' \in Seq(Objects) /\ Grows(heap, heap')
         /\ \A o \in 1 .. Len(heap') : ObjectOK(heap', o)
         /\ globals' \in [1 .. NGlobals -> Word]
         /\ \A g \in 1 .. NGlobals : ValueOK(heap', globals'[g])
<1>1. heap \in Seq(Objects) /\ Len(heap) \in Nat
  BY DEF IInv, TypeOK
<1>2. QED  BY <1>1 DEF IInv, TypeOK, CallingConvention, Grows

(* An instruction that pops and pushes plain operands and leaves the heap alone.   *)
LEMMA OperatePreserves ==
  ASSUME IInv, InBody, NEW i \in Prog[ip], i[1] \notin {"JMP", "END", "FAIL", "STOP"},
         NEW n \in Nat, NEW t \in Seq(Word),
         \A p \in 1 .. Len(t) : OperandOK(heap, t[p], fp, ip),
         Operate(n, t), UNCHANGED heap
  PROVE  IInv' /\ KeepsCaller /\ Computes
<1>1. Avail(n) /\ Put(stack, n, t) /\ ip' = ip + 1 /\ fp' = fp
      /\ globals' = globals /\ status' = status /\ heap' = heap
  BY DEF Operate, Takes, Advance
<1>2. \A p \in 1 .. Len(t) : OperandOK(heap', t[p], fp, ip)
  BY <1>1
<1>3. status \in {"run", "failed", "trapped", "stopped", "astray"}
  BY DEF IInv, TypeOK
<1>4. QED
  BY <1>1, <1>2, <1>3, NextAddress, PlainPutIsBodyStep, BodyPreserves, HeapSame

(* Pushing one word that is a value of the heap.                                   *)
LEMMA PushValue ==
  ASSUME IInv, InBody, NEW i \in Prog[ip], i[1] \notin {"JMP", "END", "FAIL", "STOP"},
         NEW n \in Nat, NEW w \in Word, OperandOK(heap, w, fp, ip),
         Operate(n, <<w>>), UNCHANGED heap
  PROVE  IInv' /\ KeepsCaller /\ Computes
<1>1. <<w>> \in Seq(Word) /\ \A p \in 1 .. Len(<<w>>) : OperandOK(heap, <<w>>[p], fp, ip)
  OBVIOUS
<1>2. QED  BY <1>1, OperatePreserves

LEMMA ComputationPreserves ==
  ASSUME IInv, InBody, NEW i \in Prog[ip],
         \/ Const(i) \/ Binop(i) \/ Drop(i) \/ Dup(i) \/ Swap(i) \/ Line(i)
         \/ Test(i) \/ Lread(i) \/ Lwrite(i) \/ Llength(i)
  PROVE  IInv' /\ KeepsCaller /\ Computes
<1> USE DEF OperandOK
<1>1. CASE Const(i)
  <2>1. i[2] \in Int /\ i[1] = "CONST"
    BY <1>1, ProgramAssumption DEF InBody, WellFormed, Const
  <2>2. QED  BY <1>1, <2>1, WrapInt, IntWord, PushValue DEF Const
<1>2. CASE Binop(i)
  <2>1. i[1] = "BINOP" /\ i[2] \in BinopNames
    BY <1>2, ProgramAssumption DEF InBody, WellFormed, Binop
  <2>2. PICK y \in Unbox(Peek(0)), x \in Unbox(Peek(1)) :
          ~Traps(i[2], y) /\ Operate(2, <<IntW(Wrap(Compute(i[2], x, y)))>>)
    BY <1>2 DEF Binop
  <2>3. Peek(0) \in Word /\ Peek(1) \in Word
    BY <2>2, PeekFacts DEF Operate
  <2>4. x \in Int /\ y \in Int
    BY <2>3, UnboxInt
  <2>5. Wrap(Compute(i[2], x, y)) \in Int
    BY <2>1, <2>2, <2>4, ComputeInt, WrapInt, SMTT(20)
  <2>6. heap' = heap
    BY <1>2 DEF Binop
  <2>7. QED  BY <2>1, <2>2, <2>5, <2>6, IntWord, PushValue
<1>3. CASE Drop(i)
  <2>1. i[1] = "DROP" /\ Operate(1, <<>>) /\ heap' = heap
    BY <1>3 DEF Drop
  <2>2. <<>> \in Seq(Word) /\ \A p \in 1 .. Len(<<>>) : OperandOK(heap, <<>>[p], fp, ip)
    OBVIOUS
  <2>3. QED  BY <2>1, <2>2, OperatePreserves
<1>4. CASE Dup(i)
  <2> DEFINE t == <<Peek(0), Peek(0)>>
  <2>1. i[1] = "DUP" /\ Operate(1, t) /\ heap' = heap
    BY <1>4 DEF Dup
  <2>2. Peek(0) \in Word /\ ValueOK(heap, Peek(0))
    BY <2>1, PeekFacts DEF Operate
  <2>3. t \in Seq(Word) /\ \A p \in 1 .. Len(t) : OperandOK(heap, t[p], fp, ip)
    BY <2>2
  <2>4. QED  BY <2>1, <2>3, OperatePreserves
<1>5. CASE Swap(i)
  <2> DEFINE t == <<Peek(0), Peek(1)>>
  <2>1. i[1] = "SWAP" /\ Operate(2, t) /\ heap' = heap
    BY <1>5 DEF Swap
  <2>2. /\ Peek(0) \in Word /\ ValueOK(heap, Peek(0))
        /\ Peek(1) \in Word /\ ValueOK(heap, Peek(1))
    BY <2>1, PeekFacts DEF Operate
  <2>3. t \in Seq(Word) /\ \A p \in 1 .. Len(t) : OperandOK(heap, t[p], fp, ip)
    BY <2>2
  <2>4. QED  BY <2>1, <2>3, OperatePreserves
<1>6. CASE Line(i)
  <2>1. i[1] = "LINE" /\ Operate(0, <<>>) /\ heap' = heap
    BY <1>6 DEF Line
  <2>2. <<>> \in Seq(Word) /\ \A p \in 1 .. Len(<<>>) : OperandOK(heap, <<>>[p], fp, ip)
    OBVIOUS
  <2>3. QED  BY <2>1, <2>2, OperatePreserves
<1>7. CASE Test(i)
  <2> DEFINE n == IF i[1] = "PATT" THEN i[2] ELSE 1
  <2>1. PICK r \in {0, 1} : Operate(n, <<IntW(r)>>)
    BY <1>7 DEF Test
  <2>2. n \in Nat
    BY ProgramAssumption DEF InBody, WellFormed
  <2>3. i[1] \in {"TAG", "ARRAY", "PATT"} /\ heap' = heap
    BY <1>7 DEF Test
  <2>4. QED  BY <2>1, <2>2, <2>3, IntWord, PushValue
<1>8. CASE Lread(i)
  <2>1. PICK n \in Ints : Operate(0, <<IntW(n)>>)
    BY <1>8 DEF Lread
  <2>2. n \in Int
    BY HalfAssumption DEF Ints
  <2>3. QED  BY <1>8, <2>1, <2>2, IntWord, PushValue DEF Lread
<1>9. CASE Lwrite(i)
  BY <1>9, OtherWords, PushValue DEF Lwrite
<1>10. CASE Llength(i)
  <2>1. i[1] = "LLENGTH" /\ Takes(1) /\ Peek(0).t = "obj" /\ heap' = heap
        /\ Operate(1, <<IntW(Wrap(Len(heap[Peek(0).v].elems)))>>)
    BY <1>10 DEF Llength, Operate
  <2>2. Peek(0).v \in 1 .. Len(heap)
    BY <2>1, PeekFacts DEF ValueOK
  <2>3. heap[Peek(0).v] \in Objects
    BY <2>2, BodyFacts
  <2>4. heap[Peek(0).v].elems \in Seq(Word)
    BY <2>3 DEF Objects
  <2>5. Len(heap[Peek(0).v].elems) \in Int
    BY <2>4
  <2>6. QED  BY <2>1, <2>5, WrapInt, IntWord, PushValue
<1>11. QED  BY <1>1, <1>2, <1>3, <1>4, <1>5, <1>6, <1>7, <1>8, <1>9, <1>10

-----------------------------------------------------------------------------------
(* Instructions that make or change heap objects.                                  *)

(* reverse(n) turns the top n words round and keeps the others.                    *)
LEMMA ReversedFacts ==
  ASSUME stack \in Seq(Word), NEW n \in 0 .. Size
  PROVE  /\ Reversed(n) \in Seq(Word) /\ Len(Reversed(n)) = Size
         /\ \A p \in 1 .. Size - n : Reversed(n)[p] = stack[p]
         /\ \A j \in 1 .. n : Reversed(n)[Size + 1 - j] = stack[Size - n + j]
<1> DEFINE top == SubSeq(stack, Size - n + 1, Size)
<1>1. Size \in Nat /\ n \in Nat /\ n <= Size
  BY DEF Size
<1>2. /\ top \in Seq(Word) /\ Len(top) = n
      /\ \A p \in 1 .. n : top[p] = stack[Size - n + p]
  BY <1>1, SubSeqProperties DEF Size
<1>3. /\ Reverse(top) \in Seq(Word) /\ Len(Reverse(top)) = n
      /\ \A p \in 1 .. n : Reverse(top)[p] = top[n - p + 1]
  <2> HIDE DEF top
  <2>1. Reverse(top) = [p \in 1 .. n |-> top[n - p + 1]]
    BY <1>2 DEF Reverse
  <2>2. \A p \in 1 .. n : top[n - p + 1] \in Word
    BY <1>1, <1>2
  <2>3. QED  BY <1>1, <2>1, <2>2
<1>4. Reversed(n) = SubSeq(stack, 1, Size - n) \o Reverse(top)
  BY DEF Reversed
<1>5. Size - n \in 0 .. Len(stack)
  BY <1>1 DEF Size
<1>6. /\ Reversed(n) \in Seq(Word) /\ Len(Reversed(n)) = (Size - n) + n
      /\ \A p \in 1 .. Size - n : Reversed(n)[p] = stack[p]
      /\ \A p \in 1 .. n : Reversed(n)[(Size - n) + p] = Reverse(top)[p]
  <2> DEFINE r == Reverse(top)
  <2>1. r \in Seq(Word) /\ Len(r) = n /\ Reversed(n) = SubSeq(stack, 1, Size - n) \o r
    BY <1>3, <1>4
  <2> HIDE DEF top, r
  <2>2. /\ SubSeq(stack, 1, Size - n) \o r \in Seq(Word)
        /\ Len(SubSeq(stack, 1, Size - n) \o r) = (Size - n) + Len(r)
        /\ \A p \in 1 .. Size - n : (SubSeq(stack, 1, Size - n) \o r)[p] = stack[p]
        /\ \A p \in 1 .. Len(r) : (SubSeq(stack, 1, Size - n) \o r)[(Size - n) + p] = r[p]
    BY <1>5, <2>1, PutLemma
  <2>3. QED  BY <2>1, <2>2 DEF r
<1>7. ASSUME NEW j \in 1 .. n
      PROVE  Reversed(n)[Size + 1 - j] = stack[Size - n + j]
  <2>1. n + 1 - j \in 1 .. n /\ (Size - n) + (n + 1 - j) = Size + 1 - j
        /\ n - (n + 1 - j) + 1 = j
    BY <1>1
  <2>2. Reversed(n)[Size + 1 - j] = Reverse(top)[n + 1 - j]
    BY <1>6, <2>1
  <2>3. Reverse(top)[n + 1 - j] = top[j]
    BY <1>3, <2>1
  <2>4. QED  BY <1>2, <2>2, <2>3
<1>8. QED  BY <1>1, <1>6, <1>7

(* The array handed to the runtime lists the operands in the order of pushing.     *)
LEMMA ValuesFacts ==
  ASSUME IInv, InBody, NEW n \in Nat, Takes(n)
  PROVE  /\ Values(n) \in Seq(Word) /\ Len(Values(n)) = n
         /\ \A j \in 1 .. n : ValueOK(heap, Values(n)[j])
<1>1. n \in 0 .. Size /\ Size \in Nat
  BY BodyFacts DEF Takes, Avail
<1>2. ASSUME NEW j \in 1 .. n
      PROVE  Values(n)[j] \in Word /\ ValueOK(heap, Values(n)[j])
  <2>1. n - j \in 0 .. n - 1 /\ Size - (n - j) = Size - n + j
    BY <1>1
  <2>2. Values(n)[j] = stack[Size - n + j]
    BY <1>1, BodyFacts, ReversedFacts DEF Values
  <2>3. Values(n)[j] = Peek(n - j)
    BY <2>1, <2>2 DEF Peek
  <2>4. QED  BY <2>1, <2>3, PeekFacts
<1>3. Values(n) = [j \in 1 .. n |-> Values(n)[j]]
  BY DEF Values
<1>4. QED  BY <1>2, <1>3

(* A new object whose elements are values of the heap.                             *)
LEMMA AppendObject ==
  ASSUME NEW h \in Seq(Objects), \A o \in 1 .. Len(h) : ObjectOK(h, o),
         NEW obj \in Objects,
         obj.kind = "closure" =>
           /\ Len(obj.elems) >= 1 /\ obj.elems[1].v \in DOMAIN Code
           /\ Len(obj.elems) = Code[obj.elems[1].v].ncap + 1,
         \A j \in 1 .. Len(obj.elems) :
           ValueOK(h, obj.elems[j]) \/ (obj.kind = "closure" /\ j = 1),
         NEW h2, h2 = Append(h, obj)
  PROVE  /\ h2 \in Seq(Objects) /\ Grows(h, h2)
         /\ \A o \in 1 .. Len(h2) : ObjectOK(h2, o)
         /\ Mk("obj", Len(h) + 1) \in Word
         /\ ValueOK(h2, Mk("obj", Len(h) + 1))
<1>1. /\ h2 \in Seq(Objects) /\ Len(h2) = Len(h) + 1 /\ Len(h) \in Nat
      /\ \A o \in 1 .. Len(h) : h2[o] = h[o]
      /\ h2[Len(h) + 1] = obj
  OBVIOUS
<1>2. Grows(h, h2)
  BY <1>1 DEF Grows
<1>3. \A w : ValueOK(h, w) => ValueOK(h2, w)
  BY <1>1, <1>2, ValueStays
<1>4. ASSUME NEW o \in 1 .. Len(h2)
      PROVE  ObjectOK(h2, o)
  <2>1. CASE o \in 1 .. Len(h)
    <3>1. h2[o] = h[o] /\ ObjectOK(h, o)
      BY <2>1, <1>1
    <3>2. \A j \in 1 .. Len(h[o].elems) :
            ValueOK(h, h[o].elems[j]) \/ (h[o].kind = "closure" /\ j = 1)
      BY <3>1 DEF ObjectOK
    <3>3. QED  BY <3>1, <3>2, <1>3 DEF ObjectOK
  <2>2. CASE o = Len(h) + 1
    <3>1. h2[o] = obj
      BY <2>2, <1>1
    <3>2. \A j \in 1 .. Len(obj.elems) :
            ValueOK(h2, obj.elems[j]) \/ (obj.kind = "closure" /\ j = 1)
      BY <1>3
    <3>3. QED  BY <3>1, <3>2 DEF ObjectOK
  <2>3. QED  BY <1>1, <2>1, <2>2
<1>5. Mk("obj", Len(h) + 1) \in Word /\ ValueOK(h2, Mk("obj", Len(h) + 1))
  <2>1. Len(h) + 1 \in Int /\ Len(h) + 1 \in 1 .. Len(h2)
    BY <1>1
  <2>2. QED  BY <2>1, OtherWords DEF ValueOK, Mk, Plain, PlainTags
<1>6. QED  BY <1>1, <1>2, <1>4, <1>5

(* An instruction that replaces operands by a value while the heap grows.          *)
LEMMA OperateGrows ==
  ASSUME IInv, InBody, NEW i \in Prog[ip], i[1] \notin {"JMP", "END", "FAIL", "STOP"},
         heap' \in Seq(Objects), Grows(heap, heap'),
         \A o \in 1 .. Len(heap') : ObjectOK(heap', o),
         NEW n \in Nat, NEW w \in Word, ValueOK(heap, w) \/ ValueOK(heap', w),
         Operate(n, <<w>>)
  PROVE  IInv' /\ KeepsCaller /\ Computes
<1>1. Avail(n) /\ Put(stack, n, <<w>>) /\ ip' = ip + 1 /\ fp' = fp
      /\ globals' = globals /\ status' = status
  BY DEF Operate, Takes, Advance
<1>2. /\ status \in {"run", "failed", "trapped", "stopped", "astray"} /\ heap \in Seq(Objects)
      /\ globals \in [1 .. NGlobals -> Word]
      /\ \A g \in 1 .. NGlobals : ValueOK(heap, globals[g])
  BY DEF IInv, TypeOK, CallingConvention
<1>3. \A v : ValueOK(heap, v) => ValueOK(heap', v)
  BY <1>2, ValueStays
<1>4. <<w>> \in Seq(Word) /\ \A p \in 1 .. Len(<<w>>) : OperandOK(heap', <<w>>[p], fp, ip)
  BY <1>3 DEF OperandOK
<1>5. \A g \in 1 .. NGlobals : ValueOK(heap', globals'[g])
  BY <1>1, <1>2, <1>3
<1>6. QED
  BY <1>1, <1>2, <1>4, <1>5, NextAddress, PlainPutIsBodyStep, BodyPreserves

LEMMA NewPreserves ==
  ASSUME IInv, InBody, NEW i \in Prog[ip], i[1] \notin {"JMP", "END", "FAIL", "STOP"},
         NEW n \in Nat, NEW obj \in Objects,
         obj.kind = "closure" =>
           /\ Len(obj.elems) >= 1 /\ obj.elems[1].v \in DOMAIN Code
           /\ Len(obj.elems) = Code[obj.elems[1].v].ncap + 1,
         \A j \in 1 .. Len(obj.elems) :
           ValueOK(heap, obj.elems[j]) \/ (obj.kind = "closure" /\ j = 1),
         New(obj), Operate(n, <<Ref>>)
  PROVE  IInv' /\ KeepsCaller /\ Computes
<1>1. heap' = Append(heap, obj) /\ heap \in Seq(Objects)
      /\ \A o \in 1 .. Len(heap) : ObjectOK(heap, o)
  BY DEF New, IInv, TypeOK, CallingConvention
<1>2. /\ heap' \in Seq(Objects) /\ Grows(heap, heap')
      /\ \A o \in 1 .. Len(heap') : ObjectOK(heap', o)
      /\ Ref \in Word /\ ValueOK(heap', Ref)
  BY <1>1, AppendObject DEF Ref
<1>3. QED  BY <1>2, OperateGrows

LEMMA BuildPreserves ==
  ASSUME IInv, InBody, NEW i \in Prog[ip], String(i) \/ Sexp(i) \/ Barray(i) \/ Lstring(i)
  PROVE  IInv' /\ KeepsCaller /\ Computes
<1>1. ASSUME NEW cs \in Strings, NEW n \in Nat,
             New(Object("string", [j \in DOMAIN cs |-> IntW(cs[j])])), Operate(n, <<Ref>>),
             i[1] \in {"STRING", "LSTRING"}
      PROVE  IInv' /\ KeepsCaller /\ Computes
  <2> DEFINE es == [j \in DOMAIN cs |-> IntW(cs[j])]
             obj == Object("string", es)
  <2>1. cs \in Seq(Ints) /\ Ints \subseteq Int /\ DOMAIN cs = 1 .. Len(cs) /\ Len(cs) \in Nat
    BY HalfAssumption, ConstantsAssumption DEF Ints
  <2>2. ASSUME NEW j \in 1 .. Len(cs)
        PROVE  IntW(cs[j]) \in Word /\ ValueOK(heap, IntW(cs[j]))
    <3>1. cs[j] \in Ints
      BY <2>1
    <3>2. cs[j] \in Int
      BY <3>1, <2>1
    <3>3. QED  BY <3>2, IntWord
  <2>3. es \in Seq(Word) /\ \A j \in 1 .. Len(es) : ValueOK(heap, es[j])
    BY <2>1, <2>2
  <2>4. obj \in Objects /\ obj.kind = "string" /\ obj.elems = es
    BY <2>3 DEF Object, Objects
  <2>5. New(obj)
    BY <1>1
  <2> HIDE DEF es, obj
  <2>6. QED  BY <1>1, <2>3, <2>4, <2>5, NewPreserves
<1>2. ASSUME NEW n \in Nat, NEW kind \in {"sexp", "array"},
             New(Object(kind, Values(n))), Operate(n, <<Ref>>),
             i[1] \in {"SEXP", "BARRAY"}
      PROVE  IInv' /\ KeepsCaller /\ Computes
  <2>1. Values(n) \in Seq(Word) /\ \A j \in 1 .. Len(Values(n)) : ValueOK(heap, Values(n)[j])
    BY <1>2, ValuesFacts DEF Operate
  <2>2. /\ Object(kind, Values(n)) \in Objects
        /\ Object(kind, Values(n)).kind # "closure"
        /\ Object(kind, Values(n)).elems = Values(n)
    BY <2>1 DEF Object, Objects
  <2>3. QED  BY <1>2, <2>1, <2>2, NewPreserves
<1>3. CASE String(i)
  <2>1. i[2] \in Strings
    BY <1>3, ProgramAssumption DEF InBody, WellFormed, String
  <2>2. QED  BY <1>1, <1>3, <2>1 DEF String
<1>4. CASE Lstring(i)
  BY <1>1, <1>4 DEF Lstring
<1>5. CASE Sexp(i) \/ Barray(i)
  <2>1. i[2] \in Nat
    BY <1>5, ProgramAssumption DEF InBody, WellFormed, Sexp, Barray
  <2>2. QED  BY <1>2, <1>5, <2>1 DEF Sexp, Barray
<1>6. QED  BY <1>3, <1>4, <1>5

-----------------------------------------------------------------------------------
(* Variables.                                                                      *)

(* The address of a variable is live: it names a cell of the running activation, a *)
(* global, or a captured value of a closure of the heap.                           *)
LEMMA LookupFacts ==
  ASSUME IInv, InBody, NEW l, NEW i, InScope(l, i)
  PROVE  lookup(l, i) \in Word /\ AddressOK(heap, lookup(l, i), fp, ip)
<1>1. PICK a \in Nat, m \in Nat, n \in Nat :
        /\ a = Code[Entry[ip]].argc /\ m = Code[Entry[ip]].nloc /\ m = NLoc(ip)
        /\ n = stack[fp - 1].v /\ n \in {a, a + 1} /\ n <= fp - 3 /\ fp + m <= Len(stack)
        /\ VarCells(fp, ip) = ((fp + 1) .. (fp + m)) \cup ((fp - 2 - a) .. (fp - 3))
        /\ fp \in Nat /\ fp >= 5 /\ fp <= Len(stack) /\ stack[fp].t = "fp" /\ ip \in Ips
  BY BodyFacts, ActivationShape DEF Size
<1>2. /\ n \in {a, a + 1} /\ n <= fp - 3
      /\ VarCells(fp, ip) = ((fp + 1) .. (fp + m)) \cup ((fp - 2 - a) .. (fp - 3))
      /\ fp \in Nat /\ i \in Nat
  BY <1>1 DEF InScope
<1>3. CASE l = "G"
  <2>1. i < NGlobals /\ NGlobals \in Nat
    BY <1>3, ConstantsAssumption DEF InScope
  <2>2. i + 1 \in Int /\ i + 1 \in 1 .. NGlobals
    BY <1>2, <2>1
  <2>3. lookup(l, i) = Mk("glb", i + 1)
    BY <1>3 DEF lookup
  <2>4. QED  BY <2>2, <2>3, OtherWords DEF AddressOK
<1>4. CASE l = "L"
  <2>1. i < m
    BY <1>1, <1>4 DEF InScope
  <2>2. fp + i + 1 \in Int /\ fp + i + 1 \in VarCells(fp, ip)
    BY <1>2, <2>1
  <2>3. lookup(l, i) = Mk("stk", fp + i + 1)
    BY <1>4 DEF lookup, local
  <2>4. QED  BY <2>2, <2>3, OtherWords DEF AddressOK
<1>5. CASE l = "A"
  <2>1. i < a
    BY <1>1, <1>5 DEF InScope
  <2>2. fp - i - 3 \in Int /\ fp - i - 3 \in VarCells(fp, ip)
    BY <1>2, <2>1
  <2>3. lookup(l, i) = Mk("stk", fp - i - 3)
    BY <1>5 DEF lookup, args
  <2>4. QED  BY <2>2, <2>3, OtherWords DEF AddressOK
<1>6. CASE l = "C"
  <2> DEFINE e == Entry[ip]
  <2>1. Code[e].closure /\ i < Code[e].ncap /\ Code[e].ncap \in Nat
    BY <1>1, <1>6, CodeFacts DEF InScope
  <2>2. ClosureFor(heap, stack[fp - 2 - n], e)
    BY <1>1, <2>1, BodyFacts DEF ActivationOK, ArgumentsOK
  <2>3. args(n - 1) = fp - 2 - n
    BY <1>2 DEF args
  <2>4. PICK o \in 1 .. Len(heap) : o = stack[fp - 2 - n].v
    BY <2>2 DEF ClosureFor
  <2>5. lookup(l, i) = [t |-> "cap", v |-> o, s |-> i + 2]
    <3>1. lookup(l, i) = [t |-> "cap", v |-> stack[args(n - 1)].v, s |-> i + 2]
      BY <1>1, <1>6 DEF lookup, binded
    <3>2. QED  BY <3>1, <2>3, <2>4
  <2>6. heap[o].kind = "closure" /\ heap[o].elems[1].v = e
    BY <2>2, <2>4 DEF ClosureFor
  <2>7. Len(heap[o].elems) = Code[e].ncap + 1
    BY <2>6 DEF IInv, CallingConvention, ObjectOK
  <2>8. i + 2 \in Nat /\ i + 2 \in 2 .. Len(heap[o].elems) /\ o \in Int
    BY <1>2, <2>1, <2>7
  <2>9. QED
    BY <2>5, <2>6, <2>8 DEF AddressOK, Word, AddrTags
<1>7. QED  BY <1>3, <1>4, <1>5, <1>6 DEF InScope

(* What a live address holds is a value.                                           *)
LEMMA LoadFacts ==
  ASSUME IInv, InBody, NEW a, AddressOK(heap, a, fp, ip)
  PROVE  Load(a) \in Word /\ ValueOK(heap, Load(a))
<1>1. CASE a.t = "stk" /\ a.v \in VarCells(fp, ip)
  <2>1. VarCells(fp, ip) \subseteq 1 .. Size /\ Size = Len(stack)
    BY BodyFacts, ActivationFacts DEF Size
  <2>2. stack[a.v] \in Word /\ ValueOK(heap, stack[a.v])
    BY <1>1, <2>1, BodyFacts DEF ActivationOK
  <2>3. QED  BY <1>1, <2>2 DEF Load
<1>2. CASE a.t = "glb" /\ a.v \in 1 .. NGlobals
  <2>1. globals[a.v] \in Word /\ ValueOK(heap, globals[a.v])
    BY <1>2 DEF IInv, TypeOK, CallingConvention
  <2>2. QED  BY <1>2, <2>1 DEF Load
<1>3. CASE /\ a.t = "cap" /\ a.v \in 1 .. Len(heap) /\ heap[a.v].kind = "closure"
           /\ a.s \in 2 .. Len(heap[a.v].elems)
  <2>1. PICK obj \in Objects : obj = heap[a.v]
    BY <1>3, BodyFacts
  <2>2. PICK es \in Seq(Word) : es = obj.elems
    BY DEF Objects
  <2>3. a.s \in 1 .. Len(es) /\ a.s # 1
    BY <1>3, <2>1, <2>2
  <2>4. ObjectOK(heap, a.v)
    BY <1>3 DEF IInv, CallingConvention
  <2>5. es[a.s] \in Word /\ ValueOK(heap, es[a.s])
    BY <2>1, <2>2, <2>3, <2>4 DEF ObjectOK
  <2>6. Load(a) = heap[a.v].elems[a.s]
    BY <1>3 DEF Load
  <2>7. QED  BY <2>1, <2>2, <2>5, <2>6
<1>4. QED  BY <1>1, <1>2, <1>3 DEF AddressOK

(* Replacing one element of a sequence.                                            *)
LEMMA ReplaceElement ==
  ASSUME NEW S, NEW s \in Seq(S), NEW o \in 1 .. Len(s), NEW e \in S
  PROVE  /\ [s EXCEPT ![o] = e] \in Seq(S) /\ Len([s EXCEPT ![o] = e]) = Len(s)
         /\ \A x \in 1 .. Len(s) : [s EXCEPT ![o] = e][x] = IF x = o THEN e ELSE s[x]
  OBVIOUS

(* Storing a value in an object, not over a closure's label.                       *)
LEMMA StoreInObject ==
  ASSUME NEW h \in Seq(Objects), \A o \in 1 .. Len(h) : ObjectOK(h, o),
         NEW o \in 1 .. Len(h), NEW j \in 1 .. Len(h[o].elems),
         h[o].kind = "closure" => j # 1,
         NEW w \in Word, ValueOK(h, w),
         NEW h2, h2 = [h EXCEPT ![o].elems[j] = w]
  PROVE  /\ h2 \in Seq(Objects) /\ Grows(h, h2)
         /\ \A x \in 1 .. Len(h2) : ObjectOK(h2, x)
<1>1. PICK obj \in Objects : obj = h[o]
  OBVIOUS
<1>2. PICK es \in Seq(Word) : es = obj.elems
  BY DEF Objects
<1> DEFINE es2  == [es EXCEPT ![j] = w]
           obj2 == [obj EXCEPT !.elems = es2]
<1>3. /\ es2 \in Seq(Word) /\ Len(es2) = Len(es) /\ j \in 1 .. Len(es)
      /\ \A x \in 1 .. Len(es) : es2[x] = IF x = j THEN w ELSE es[x]
  BY <1>1, <1>2
<1>4. obj2 \in Objects /\ obj2.kind = obj.kind /\ obj2.elems = es2
  BY <1>3 DEF Objects
<1>5. h2 = [h EXCEPT ![o] = obj2]
  BY <1>1, <1>2
<1> HIDE DEF es2, obj2
<1>6. /\ h2 \in Seq(Objects) /\ Len(h2) = Len(h)
      /\ \A x \in 1 .. Len(h) : h2[x] = IF x = o THEN obj2 ELSE h[x]
  <2> DEFINE g == [h EXCEPT ![o] = obj2]
  <2>1. /\ g \in Seq(Objects) /\ Len(g) = Len(h)
        /\ \A x \in 1 .. Len(h) : g[x] = IF x = o THEN obj2 ELSE h[x]
    BY <1>4, ReplaceElement
  <2>2. QED  BY <1>5, <2>1
<1>7. obj.kind = "closure" => es2[1] = es[1]
  <2>1. ASSUME obj.kind = "closure"
        PROVE  1 \in 1 .. Len(es) /\ 1 # j
    BY <2>1, <1>1, <1>3
  <2>2. QED  BY <2>1, <1>3
<1>8. Grows(h, h2)
  <2>1. Len(h) \in Nat /\ Len(h2) >= Len(h)
    BY <1>6
  <2>2. ASSUME NEW x \in 1 .. Len(h)
        PROVE  /\ h2[x].kind = h[x].kind /\ Len(h2[x].elems) = Len(h[x].elems)
               /\ h[x].kind = "closure" => h2[x].elems[1] = h[x].elems[1]
    BY <1>1, <1>2, <1>3, <1>4, <1>6, <1>7
  <2>3. QED  BY <2>1, <2>2 DEF Grows
<1>9. \A v : ValueOK(h, v) => ValueOK(h2, v)
  BY <1>6, <1>8, ValueStays
<1>10. ASSUME NEW x \in 1 .. Len(h2)
       PROVE  ObjectOK(h2, x)
  <2>1. ObjectOK(h, x) /\ x \in 1 .. Len(h)
    BY <1>6
  <2>2. CASE x # o
    <3>1. h2[x] = h[x]
      BY <1>6, <2>1, <2>2
    <3>2. QED  BY <1>9, <2>1, <3>1 DEF ObjectOK
  <2>3. CASE x = o
    <3>1. /\ obj.kind = "closure" =>
              /\ Len(es) >= 1 /\ es[1].v \in DOMAIN Code
              /\ Len(es) = Code[es[1].v].ncap + 1
          /\ \A y \in 1 .. Len(es) : ValueOK(h, es[y]) \/ (obj.kind = "closure" /\ y = 1)
      BY <1>1, <1>2, <2>1, <2>3 DEF ObjectOK
    <3>2. \A y \in 1 .. Len(es2) : ValueOK(h2, es2[y]) \/ (obj.kind = "closure" /\ y = 1)
      BY <1>3, <1>9, <3>1
    <3>3. h2[x].kind = obj.kind /\ h2[x].elems = es2
      BY <1>4, <1>6, <2>1, <2>3
    <3>4. QED  BY <1>3, <1>7, <3>1, <3>2, <3>3 DEF ObjectOK
  <2>4. QED  BY <2>2, <2>3
<1>11. QED  BY <1>6, <1>8, <1>10

LEMMA LoadPreserves ==
  ASSUME IInv, InBody, NEW i \in Prog[ip], Ld(i) \/ Lda(i)
  PROVE  IInv' /\ KeepsCaller /\ Computes
<1>1. InScope(i[2], i[3]) /\ heap' = heap /\ i[1] \in {"LD", "LDA"}
  BY DEF Ld, Lda
<1> DEFINE a == lookup(i[2], i[3])
<1>2. a \in Word /\ AddressOK(heap, a, fp, ip)
  BY <1>1, LookupFacts
<1>3. CASE Ld(i)
  <2>1. Operate(0, <<Load(a)>>)
    BY <1>3 DEF Ld
  <2>2. Load(a) \in Word /\ OperandOK(heap, Load(a), fp, ip)
    BY <1>2, LoadFacts DEF OperandOK
  <2>3. QED  BY <1>1, <2>1, <2>2, PushValue
<1>4. CASE Lda(i)
  <2>1. Operate(0, <<a>>)
    BY <1>4 DEF Lda
  <2>2. OperandOK(heap, a, fp, ip)
    BY <1>2 DEF OperandOK
  <2>3. QED  BY <1>1, <1>2, <2>1, <2>2, PushValue
<1>5. QED  BY <1>3, <1>4

(* A store through a live address, whichever kind of variable it names.            *)
LEMMA StorePreserves ==
  ASSUME IInv, InBody, NEW i \in Prog[ip], i[1] \notin {"JMP", "END", "FAIL", "STOP"},
         NEW a, AddressOK(heap, a, fp, ip), NEW w \in Word, ValueOK(heap, w),
         NEW n \in Nat, Avail(n), NEW t \in Seq(Word),
         \A p \in 1 .. Len(t) : ValueOK(heap, t[p]),
         StoreThenPut(a, w, n, t), Advance, UNCHANGED <<fp, status>>
  PROVE  IInv' /\ KeepsCaller /\ Computes
<1> DEFINE s == IF a.t = "stk" THEN [stack EXCEPT ![a.v] = w] ELSE stack
<1>1. Put(s, n, t) /\ ip' = ip + 1 /\ fp' = fp /\ status' = status
      /\ globals' = (IF a.t = "glb" THEN [globals EXCEPT ![a.v] = w] ELSE globals)
      /\ heap' = (IF a.t = "cap" THEN [heap EXCEPT ![a.v].elems[a.s] = w] ELSE heap)
  BY DEF StoreThenPut, Advance
<1>2. /\ stack \in Seq(Word) /\ heap \in Seq(Objects) /\ globals \in [1 .. NGlobals -> Word]
      /\ Size = Len(stack) /\ VarCells(fp, ip) \subseteq 1 .. Size
      /\ \A o \in 1 .. Len(heap) : ObjectOK(heap, o)
      /\ \A g \in 1 .. NGlobals : ValueOK(heap, globals[g])
      /\ status \in {"run", "failed", "trapped", "stopped", "astray"}
  BY BodyFacts, ActivationFacts DEF IInv, TypeOK, CallingConvention, Size
<1>3. /\ heap' \in Seq(Objects) /\ Grows(heap, heap')
      /\ \A o \in 1 .. Len(heap') : ObjectOK(heap', o)
  <2>1. CASE a.t = "cap"
    <3>1. a.v \in 1 .. Len(heap) /\ a.s \in 2 .. Len(heap[a.v].elems)
      BY <2>1 DEF AddressOK
    <3>2. PICK o \in 1 .. Len(heap) : o = a.v
      BY <3>1
    <3>3. PICK obj \in Objects : obj = heap[o]
      BY <1>2
    <3>4. PICK es \in Seq(Word) : es = obj.elems
      BY DEF Objects
    <3>5. PICK j \in 2 .. Len(es) : j = a.s
      BY <3>1, <3>2, <3>3, <3>4
    <3>6. heap' = [heap EXCEPT ![o].elems[j] = w]
      BY <1>1, <2>1, <3>2, <3>5
    <3>7. j \in 1 .. Len(heap[o].elems) /\ j # 1
      BY <3>3, <3>4
    <3>8. QED  BY <1>2, <3>6, <3>7, StoreInObject
  <2>2. CASE a.t # "cap"
    BY <1>1, <1>2, <2>2, HeapSame DEF Grows
  <2>3. QED  BY <2>1, <2>2
<1>4. \A v : ValueOK(heap, v) => ValueOK(heap', v)
  BY <1>2, <1>3, ValueStays
<1>5. globals' \in [1 .. NGlobals -> Word] /\ \A g \in 1 .. NGlobals : ValueOK(heap', globals'[g])
  BY <1>1, <1>2, <1>4
<1>6. /\ s \in Seq(Word) /\ Len(s) = Size
      /\ \A p \in 1 .. Size :
           s[p] = stack[p] \/ (p \in VarCells(fp, ip) /\ ValueOK(heap', s[p]))
  <2>1. CASE a.t = "stk"
    <3>1. PICK c \in VarCells(fp, ip) : c = a.v
      BY <2>1 DEF AddressOK
    <3>2. c \in 1 .. Len(stack) /\ s = [stack EXCEPT ![c] = w]
      BY <1>2, <2>1, <3>1
    <3> HIDE DEF s
    <3>3. /\ s \in Seq(Word) /\ Len(s) = Len(stack)
          /\ \A p \in 1 .. Len(stack) : s[p] = IF p = c THEN w ELSE stack[p]
      BY <1>2, <3>2, ReplaceElement
    <3>4. ValueOK(heap', w)
      BY <1>4
    <3>5. QED  BY <1>2, <3>3, <3>4
  <2>2. CASE a.t # "stk"
    BY <1>2, <2>2
  <2>3. QED  BY <2>1, <2>2
<1>7. \A p \in 1 .. Len(t) : OperandOK(heap', t[p], fp, ip)
  BY <1>4 DEF OperandOK
<1> HIDE DEF s
<1>8. /\ stack' \in Seq(Word) /\ Len(stack') <= Capacity /\ Size - n \in Nat
      /\ fp <= Len(stack')
      /\ BodyStep(stack, heap, stack', heap', fp, ip, Size - n)
  BY <1>1, <1>6, <1>7, PutIsBodyStep
<1>9. /\ ip' \in Ips /\ Entry[ip'] = Entry[ip] /\ ip' # Entry[ip']
      /\ status' \in {"run", "failed", "trapped", "stopped", "astray"}
  BY <1>1, <1>2, NextAddress
<1>10. QED  BY <1>1, <1>3, <1>5, <1>8, <1>9, BodyPreserves

LEMMA AssignPreserves ==
  ASSUME IInv, InBody, NEW i \in Prog[ip], St(i) \/ StaAddress(i)
  PROVE  IInv' /\ KeepsCaller /\ Computes
<1>1. Takes(1) /\ Peek(0) \in Word /\ ValueOK(heap, Peek(0))
      /\ i[1] \in {"ST", "STA"} /\ Advance /\ UNCHANGED <<fp, status>>
  BY PeekFacts DEF St, StaAddress
<1>2. CASE St(i)
  <2> DEFINE a == lookup(i[2], i[3])
  <2>1. AddressOK(heap, a, fp, ip) /\ StoreThenPut(a, Peek(0), 0, <<>>)
    BY <1>2, LookupFacts DEF St
  <2>2. <<>> \in Seq(Word) /\ \A p \in 1 .. Len(<<>>) : ValueOK(heap, <<>>[p])
    OBVIOUS
  <2>3. Avail(0)
    BY BodyFacts DEF Avail
  <2>4. QED  BY <1>1, <2>1, <2>2, <2>3, StorePreserves
<1>3. CASE StaAddress(i)
  <2>1. Avail(2) /\ Addr(Peek(1)) /\ StoreThenPut(Peek(1), Peek(0), 2, <<Peek(0)>>)
    BY <1>3 DEF StaAddress
  <2>2. Size - 1 \in (fp + 1) .. Size
    BY <2>1, BodyFacts DEF Avail
  <2>3. OperandOK(heap, Peek(1), fp, ip)
    BY <2>2, BodyFacts DEF ActivationOK, Peek
  <2>4. AddressOK(heap, Peek(1), fp, ip)
    BY <2>1, <2>3, TagsDiffer DEF OperandOK, ValueOK, Plain, Addr, PlainTags, AddrTags
  <2>5. <<Peek(0)>> \in Seq(Word) /\ \A p \in 1 .. Len(<<Peek(0)>>) : ValueOK(heap, <<Peek(0)>>[p])
    BY <1>1
  <2>6. QED  BY <1>1, <2>1, <2>4, <2>5, StorePreserves
<1>4. QED  BY <1>2, <1>3

(* Elements of strings, arrays and S-expressions.                                  *)
LEMMA IndexFacts ==
  ASSUME NEW w, NEW x, IInv, ValueOK(heap, x), NEW n \in Indexes(w, x)
  PROVE  /\ x.v \in 1 .. Len(heap) /\ heap[x.v] \in Objects
         /\ heap[x.v].kind # "closure" /\ n \in 1 .. Len(heap[x.v].elems)
<1>1. x.t = "obj" /\ heap[x.v].kind # "closure" /\ n \in DOMAIN heap[x.v].elems
  BY DEF Indexes
<1>2. x.v \in 1 .. Len(heap) /\ heap[x.v] \in Objects
  BY <1>1 DEF ValueOK, IInv, TypeOK
<1>3. heap[x.v].elems \in Seq(Word)
  BY <1>2 DEF Objects
<1>4. QED  BY <1>1, <1>2, <1>3

(* STA over an element leaves the value it stores on the stack.                    *)
LEMMA WritePreserves ==
  ASSUME IInv, InBody, NEW i \in Prog[ip], i[1] = "STA",
         NEW n \in Nat, Operate(n, <<Peek(0)>>), ValueOK(heap, Peek(0)), Peek(0) \in Word,
         NEW o \in 1 .. Len(heap), heap[o].kind # "closure",
         NEW j \in 1 .. Len(heap[o].elems),
         NEW w \in Word, ValueOK(heap, w),
         heap' = [heap EXCEPT ![o].elems[j] = w]
  PROVE  IInv' /\ KeepsCaller /\ Computes
<1>1. heap \in Seq(Objects) /\ \A x \in 1 .. Len(heap) : ObjectOK(heap, x)
  BY DEF IInv, TypeOK, CallingConvention
<1>2. /\ heap' \in Seq(Objects) /\ Grows(heap, heap')
      /\ \A x \in 1 .. Len(heap') : ObjectOK(heap', x)
  BY <1>1, StoreInObject
<1>3. QED  BY <1>2, OperateGrows

LEMMA ElementPreserves ==
  ASSUME IInv, InBody, NEW i \in Prog[ip], Elem(i) \/ StaElement(i) \/ StaObject(i)
  PROVE  IInv' /\ KeepsCaller /\ Computes
<1>1. CASE Elem(i)
  <2>1. i[1] = "ELEM" /\ heap' = heap
    BY <1>1 DEF Elem
  <2>2. PICK n \in Indexes(Peek(0), Peek(1)) :
          Operate(2, <<heap[Peek(1).v].elems[n]>>)
    BY <1>1 DEF Elem
  <2>3. ValueOK(heap, Peek(1))
    BY <2>2, PeekFacts DEF Operate
  <2>4. PICK o \in 1 .. Len(heap) : o = Peek(1).v /\ heap[o] \in Objects
                                  /\ heap[o].kind # "closure" /\ n \in 1 .. Len(heap[o].elems)
    BY <2>2, <2>3, IndexFacts
  <2>5. PICK es \in Seq(Word) : es = heap[o].elems
    BY <2>4 DEF Objects
  <2>6. ObjectOK(heap, o)
    BY DEF IInv, CallingConvention
  <2>7. es[n] \in Word /\ OperandOK(heap, es[n], fp, ip)
    BY <2>4, <2>5, <2>6 DEF ObjectOK, OperandOK
  <2>8. Operate(2, <<es[n]>>)
    BY <2>2, <2>4, <2>5
  <2>9. QED  BY <2>1, <2>7, <2>8, PushValue
<1>2. CASE StaElement(i)
  <2>1. i[1] = "STA" /\ Takes(3) /\ Operate(3, <<Peek(0)>>)
    BY <1>2 DEF StaElement, Operate
  <2>2. Peek(0) \in Word /\ ValueOK(heap, Peek(0)) /\ ValueOK(heap, Peek(2))
    BY <2>1, PeekFacts
  <2>3. PICK n \in Indexes(Peek(1), Peek(2)) :
          \E w \in IF heap[Peek(2).v].kind = "string"
                     THEN {IntW(Char(c)) : c \in Unbox(Peek(0))} ELSE {Peek(0)} :
            heap' = [heap EXCEPT ![Peek(2).v].elems[n] = w]
    BY <1>2 DEF StaElement
  <2>4. PICK o \in 1 .. Len(heap) : o = Peek(2).v /\ heap[o].kind # "closure"
                                  /\ n \in 1 .. Len(heap[o].elems)
    BY <2>2, <2>3, IndexFacts
  <2>5. PICK w : /\ w \in (IF heap[o].kind = "string"
                             THEN {IntW(Char(c)) : c \in Unbox(Peek(0))} ELSE {Peek(0)})
                 /\ heap' = [heap EXCEPT ![o].elems[n] = w]
    BY <2>3, <2>4
  <2>6. w \in Word /\ ValueOK(heap, w)
    <3>1. \A c \in Unbox(Peek(0)) : c \in Int
      BY <2>2, UnboxInt
    <3>2. \A c \in Int : Char(c) \in Int
      BY CharInt
    <3>3. \A c \in Unbox(Peek(0)) : IntW(Char(c)) \in Word /\ ValueOK(heap, IntW(Char(c)))
      BY <3>1, <3>2, IntWord
    <3>4. QED  BY <2>2, <2>5, <3>3
  <2>7. QED  BY <2>1, <2>2, <2>4, <2>5, <2>6, WritePreserves
<1>3. CASE StaObject(i)
  <2>1. i[1] = "STA" /\ Takes(2) /\ Operate(2, <<Peek(0)>>)
    BY <1>3 DEF StaObject, Operate
  <2>2. Peek(0) \in Word /\ ValueOK(heap, Peek(0)) /\ ValueOK(heap, Peek(1))
    BY <2>1, PeekFacts
  <2>3. PICK o \in 1 .. Len(heap) :
          /\ o = Peek(1).v /\ heap[o].kind \in {"array", "sexp"} /\ heap[o].elems # <<>>
    BY <1>3, <2>2 DEF StaObject, HasFirst, ValueOK
  <2>4. heap[o] \in Objects
    BY BodyFacts
  <2>5. heap[o].elems \in Seq(Word)
    BY <2>4 DEF Objects
  <2>6. 1 \in 1 .. Len(heap[o].elems)
    BY <2>3, <2>5
  <2>7. heap[o].kind # "closure" /\ heap' = [heap EXCEPT ![o].elems[1] = Peek(0)]
    BY <1>3, <2>3 DEF StaObject
  <2>8. QED  BY <2>1, <2>2, <2>6, <2>7, WritePreserves
<1>4. QED  BY <1>1, <1>2, <1>3

(* A closure's captured values are values, and as many as its function expects.    *)
LEMMA ClosurePreserves ==
  ASSUME IInv, InBody, NEW i \in Prog[ip], Closure(i)
  PROVE  IInv' /\ KeepsCaller /\ Computes
<1> DEFINE captured(j) == Load(lookup(i[3][j][1], i[3][j][2]))
           values == [j \in DOMAIN i[3] |-> captured(j)]
           elems  == <<Mk("ip", i[2])>> \o values
<1>1. /\ i[1] = "CLOSURE" /\ New(Object("closure", elems)) /\ Operate(0, <<Ref>>)
      /\ \A j \in DOMAIN i[3] : InScope(i[3][j][1], i[3][j][2])
  BY DEF Closure
<1>2. /\ i[2] \in DOMAIN Code /\ Len(i[3]) = Code[i[2]].ncap
      /\ i[3] \in Seq({"G", "L", "A", "C"} \X Nat)
  BY <1>1, ProgramAssumption DEF InBody, WellFormed
<1>3. DOMAIN i[3] = 1 .. Code[i[2]].ncap /\ Code[i[2]].ncap \in Nat /\ i[2] \in Int
  <2>1. i[2] \in Ips /\ Code[i[2]].ncap \in Nat
    BY <1>2, ProgramAssumption
  <2>2. DOMAIN i[3] = 1 .. Len(i[3])
    BY <1>2
  <2>3. i[2] \in Int
    BY <2>1, CodeFacts
  <2>4. QED  BY <1>2, <2>1, <2>2, <2>3
<1>4. ASSUME NEW j \in DOMAIN i[3]
      PROVE  captured(j) \in Word /\ ValueOK(heap, captured(j))
  BY <1>1, LookupFacts, LoadFacts
<1> HIDE DEF captured
<1>5. /\ values \in Seq(Word) /\ Len(values) = Code[i[2]].ncap
      /\ \A j \in 1 .. Len(values) : ValueOK(heap, values[j])
  BY <1>3, <1>4
<1> HIDE DEF values
<1>6. /\ elems \in Seq(Word) /\ Len(elems) = Code[i[2]].ncap + 1
      /\ elems[1] = Mk("ip", i[2])
      /\ \A j \in 1 .. Len(values) : elems[j + 1] = values[j]
  <2>1. <<Mk("ip", i[2])>> \in Seq(Word) /\ Len(<<Mk("ip", i[2])>>) = 1
    BY <1>3, OtherWords
  <2>2. QED  BY <1>3, <1>5, <2>1
<1>7. elems[1].v = i[2]
  BY <1>3, <1>6, OtherWords
<1> HIDE DEF elems
<1>8. ASSUME NEW j \in 1 .. Len(elems), j # 1
      PROVE  ValueOK(heap, elems[j])
  <2>1. PICK x \in 1 .. Len(values) : j = x + 1
    <3>1. PICK k \in Nat : Len(values) = k /\ Len(elems) = k + 1
      BY <1>3, <1>5, <1>6
    <3>2. j \in 1 .. k + 1 /\ j # 1
      BY <1>8, <3>1
    <3>3. j - 1 \in 1 .. k /\ j = (j - 1) + 1
      BY <3>2
    <3>4. QED  BY <3>1, <3>3
  <2>2. QED  BY <1>5, <1>6, <2>1
<1>9. PICK obj \in Objects : obj = Object("closure", elems)
  BY <1>6 DEF Object, Objects
<1>10. obj.kind = "closure" /\ obj.elems = elems /\ New(obj)
  BY <1>1, <1>9 DEF Object
<1>11. /\ Len(obj.elems) >= 1 /\ obj.elems[1].v \in DOMAIN Code
       /\ Len(obj.elems) = Code[obj.elems[1].v].ncap + 1
  BY <1>2, <1>3, <1>6, <1>7, <1>10
<1>12. \A j \in 1 .. Len(obj.elems) :
         ValueOK(heap, obj.elems[j]) \/ (obj.kind = "closure" /\ j = 1)
  BY <1>8, <1>10
<1>13. QED  BY <1>1, <1>10, <1>11, <1>12, NewPreserves

-----------------------------------------------------------------------------------
(* Control.                                                                        *)

LEMMA JumpPreserves ==
  ASSUME IInv, InBody, NEW i \in Prog[ip], Jmp(i) \/ Cjmp(i)
  PROVE  IInv' /\ KeepsCaller /\ Computes
<1>1. /\ i[2] \in Ips /\ Entry[i[2]] = Entry[ip] /\ i[2] # Entry[i[2]]
      /\ i[1] \in {"JMP", "CJMPZ", "CJMPNZ"}
  BY ProgramAssumption DEF InBody, WellFormed, Jmp, Cjmp
<1>2. ip' \in Ips /\ Entry[ip'] = Entry[ip] /\ ip' # Entry[ip']
  <2>1. CASE Jmp(i)
    BY <1>1, <2>1 DEF Jmp
  <2>2. CASE Cjmp(i)
    <3>1. ip' = i[2] \/ ip' = ip + 1
      BY <2>2 DEF Cjmp
    <3>2. i[1] # "JMP"
      BY <2>2 DEF Cjmp
    <3>3. QED  BY <1>1, <3>1, <3>2, NextAddress
  <2>3. QED  BY <2>1, <2>2
<1>3. heap' = heap /\ globals' = globals /\ status' = status /\ fp' = fp
  BY DEF Jmp, Cjmp
<1>4. status \in {"run", "failed", "trapped", "stopped", "astray"} /\ Size <= Capacity
  BY DEF IInv, TypeOK
<1>5. PICK k \in Nat :
        /\ stack' \in Seq(Word) /\ Len(stack') <= Capacity /\ fp <= Len(stack')
        /\ BodyStep(stack, heap, stack', heap', fp, ip, k)
  <2>1. CASE Jmp(i)
    <3>1. stack' = stack
      BY <2>1 DEF Jmp
    <3>2. BodyStep(stack, heap, stack', heap', fp, ip, Size)
      BY <3>1, BodyFacts DEF BodyStep, Size
    <3>3. QED  BY <1>4, <3>1, <3>2, BodyFacts DEF Size
  <2>2. CASE Cjmp(i)
    <3>1. Avail(1) /\ Put(stack, 1, <<>>)
      BY <2>2 DEF Cjmp, Takes
    <3>2. <<>> \in Seq(Word) /\ \A p \in 1 .. Len(<<>>) : OperandOK(heap', <<>>[p], fp, ip)
      OBVIOUS
    <3>3. QED  BY <3>1, <3>2, PlainPutIsBodyStep
  <2>3. QED  BY <2>1, <2>2
<1>6. QED  BY <1>2, <1>3, <1>4, <1>5, HeapSame, BodyPreserves

(* CALL and CALLC: the operands become the arguments of an activation that has no  *)
(* frame yet, and the caller's activation ends below them.                         *)
LEMMA InvokePreserves ==
  ASSUME IInv, InBody, NEW i \in Prog[ip], i[1] \in {"CALL", "CALLC"},
         NEW n \in Nat, NEW c \in {0, 1}, Takes(n + c),
         NEW e \in DOMAIN Code, Code[e].argc = n,
         Code[e].closure => c = 1 /\ ClosureFor(heap, Peek(n), e),
         Put(Reversed(n), 0, <<Mk("ip", ip + 1), Mk("argc", n + c)>>),
         ip' = e, UNCHANGED <<fp, globals, heap, status>>
  PROVE  IInv' /\ KeepsCaller
         /\ ((c = 1 => Peek(n).t = "obj") => Invokes(n, c))
<1>1. PICK z \in Nat, low \in Nat, m \in Nat, r \in Ips :
        /\ z = Size /\ low = z - m /\ m = n + c /\ r = ip + 1
        /\ low + m = z /\ fp + NLoc(ip) <= low /\ low <= z - n /\ n \in 0 .. z
        /\ Entry[r] = Entry[ip] /\ r # Entry[r]
  <2>1. Size - (n + c) \in Nat /\ n + c \in Nat /\ Size - (n + c) >= fp + NLoc(ip)
        /\ Size \in Nat /\ n \in 0 .. Size /\ Size - (n + c) <= Size - n
    BY BodyFacts, SMTT(20) DEF Takes, Avail
  <2>2. ip + 1 \in Ips /\ Entry[ip + 1] = Entry[ip] /\ ip + 1 # Entry[ip + 1]
    BY NextAddress
  <2>3. fp + NLoc(ip) <= Size - (n + c) /\ (Size - (n + c)) + (n + c) = Size
    BY <2>1, BodyFacts
  <2>4. QED  BY <2>1, <2>2, <2>3
<1>2. PICK s \in Seq(Word) :
        /\ s = Reversed(n) /\ Len(s) = z
        /\ \A p \in 1 .. z - n : s[p] = stack[p]
        /\ \A j \in 1 .. n : s[z + 1 - j] = stack[z - n + j]
  BY <1>1, BodyFacts, ReversedFacts
<1>3. PICK pair \in Seq(Word) :
        /\ pair = <<Mk("ip", ip + 1), Mk("argc", n + c)>> /\ Len(pair) = 2
        /\ pair[1] = Mk("ip", r) /\ pair[2] = Mk("argc", m)
  <2>1. r \in Int /\ m \in Int
    BY ProgramAssumption
  <2>2. Mk("ip", r) \in Word /\ Mk("argc", m) \in Word
    BY <2>1, OtherWords
  <2>3. Mk("ip", r) = Mk("ip", ip + 1) /\ Mk("argc", m) = Mk("argc", n + c)
    BY <1>1
  <2> DEFINE q == <<Mk("ip", ip + 1), Mk("argc", n + c)>>
  <2>4. q \in Seq(Word) /\ Len(q) = 2 /\ q[1] = Mk("ip", r) /\ q[2] = Mk("argc", m)
    BY <2>2, <2>3
  <2>5. QED  BY <2>4
<1>4. stack' = SubSeq(s, 1, z) \o pair /\ z + 2 <= Capacity
  <2>1. Put(s, 0, pair)
    BY <1>2, <1>3
  <2>2. stack' = SubSeq(s, 1, z - 0) \o pair /\ (z - 0) + 2 <= Capacity
    BY <1>2, <1>3, <2>1 DEF Put
  <2>3. z - 0 = z
    OBVIOUS
  <2>4. QED  BY <2>2, <2>3
<1>5. /\ stack' \in Seq(Word) /\ Len(stack') = z + 2
      /\ \A p \in 1 .. z : stack'[p] = s[p]
      /\ stack'[z + 1] = Mk("ip", r) /\ stack'[z + 2] = Mk("argc", m)
  <2>1. z \in 0 .. Len(s) /\ 1 \in 1 .. Len(pair) /\ 2 \in 1 .. Len(pair)
    BY <1>2, <1>3
  <2>2. /\ stack' \in Seq(Word) /\ Len(stack') = z + Len(pair)
        /\ \A p \in 1 .. z : stack'[p] = s[p]
        /\ \A p \in 1 .. Len(pair) : stack'[z + p] = pair[p]
    BY <1>4, <2>1, PutLemma
  <2>3. QED  BY <1>3, <2>1, <2>2
<1>6. ASSUME NEW p \in 1 .. low
      PROVE  stack'[p] = stack[p]
  <2>1. p \in 1 .. z - n /\ p \in 1 .. z
    BY <1>1
  <2>2. QED  BY <1>2, <1>5, <2>1
<1>7. ASSUME NEW p \in (low + 1) .. z
      PROVE  ValueOK(heap, stack'[p])
  <2>1. CASE p <= z - n
    <3>1. z - p \in 0 .. (n + c) - 1 /\ p \in 1 .. z - n /\ p \in 1 .. z /\ z - (z - p) = p
      BY <1>1, <2>1
    <3>2. Peek(z - p) = stack[p]
      BY <1>1, <3>1 DEF Peek
    <3>3. ValueOK(heap, Peek(z - p))
      BY <1>1, <3>1, PeekFacts
    <3>4. stack'[p] = stack[p]
      BY <1>2, <1>5, <3>1
    <3>5. QED  BY <3>2, <3>3, <3>4
  <2>2. CASE p > z - n
    <3>1. PICK j \in 1 .. n : p = z + 1 - j
      <4>1. z + 1 - p \in 1 .. n /\ p = z + 1 - (z + 1 - p)
        BY <1>1, <2>2
      <4>2. QED  BY <4>1
    <3>2. p \in 1 .. z /\ n - j \in 0 .. (n + c) - 1 /\ z - (n - j) = z - n + j
      BY <1>1, <3>1
    <3>3. stack'[p] = stack[z - n + j]
      <4>1. s[z + 1 - j] = stack[z - n + j] /\ stack'[p] = s[p]
        BY <1>2, <1>5, <3>2
      <4>2. QED  BY <3>1, <4>1
    <3>4. Peek(n - j) = stack[z - n + j]
      BY <1>1, <3>2 DEF Peek
    <3>5. ValueOK(heap, Peek(n - j))
      BY <1>1, <3>2, PeekFacts
    <3>6. QED  BY <3>3, <3>4, <3>5
  <2>3. QED  BY <1>1, <2>1, <2>2
<1>8. FramesLinked(stack', heap) /\ Linked(stack', heap, z + 3, fp) /\ SameBelow(stack, stack', fp)
  <2>1. /\ stack \in Seq(Word) /\ z = Len(stack) /\ FramesLinked(stack, heap)
        /\ ActivationOK(stack, heap, fp, ip, Len(stack)) /\ heap \in Seq(Objects)
    BY <1>1, BodyFacts DEF Size
  <2>2. CallStep(heap, stack, stack', z, m, low, r)
    BY <1>5, <1>6, <1>7 DEF CallStep
  <2>3. /\ r \in Ips /\ Entry[r] = Entry[ip] /\ r # Entry[r]
        /\ low + m = z /\ fp + NLoc(ip) <= low
    BY <1>1
  <2>4. QED  BY <1>5, <2>1, <2>2, <2>3, InvokeShape
<1>9. ArgumentsOK(stack', heap, z + 3, m, e)
  <2>1. m \in {Code[e].argc, Code[e].argc + 1}
    <3>1. n + c \in {n, n + 1}
      OBVIOUS
    <3>2. QED  BY <1>1, <3>1
  <2>2. ASSUME Code[e].closure
        PROVE  m = Code[e].argc + 1 /\ ClosureFor(heap, stack'[z + 3 - 2 - m], e)
    <3>1. c = 1 /\ ClosureFor(heap, Peek(n), e)
      BY <2>2
    <3>2. z + 3 - 2 - m = z - n /\ z - n \in 1 .. z - n /\ z - n \in 1 .. z
      <4>1. m = n + 1 /\ n + 1 <= z
        BY <1>1, <3>1
      <4>2. QED  BY <4>1
    <3>3. m = Code[e].argc + 1
      BY <1>1, <3>1
    <3>4. stack'[z + 3 - 2 - m] = stack[z - n]
      BY <1>2, <1>5, <3>2
    <3>5. Peek(n) = stack[z - n]
      BY <1>1 DEF Peek
    <3>6. QED  BY <3>1, <3>4, <3>5, <3>3
  <2>3. QED  BY <2>1, <2>2 DEF ArgumentsOK
<1>10. Size' = z + 2
  BY <1>5 DEF Size
<1>11. TypeOK' /\ AtEntry' /\ ~InBody' /\ ip' # 0
  <2>1. e \in Ips /\ Entry[e] = e /\ e # 0
    BY ProgramAssumption
  <2>2. fp \in 0 .. z + 2
    <3>1. fp \in Nat /\ NLoc(ip) \in Nat
      BY BodyFacts
    <3>2. fp + NLoc(ip) <= low /\ low <= z - n
      BY <1>1
    <3>3. QED  BY <3>1, <3>2
  <2>3. QED
    BY <1>4, <1>5, <1>10, <2>1, <2>2 DEF IInv, TypeOK, AtEntry, InBody
<1>12. RegistersAgree'
  <2>1. (z + 2) + 1 = z + 3 /\ Mk("argc", m).v = m
    BY OtherWords
  <2>2. Size' + 1 = z + 3 /\ stack'[Size'].v = m
    BY <1>5, <1>10, <2>1
  <2>3. QED  BY <1>8, <1>9, <1>11, <2>2 DEF RegistersAgree
<1>13. CallingConvention'
  BY <1>8, <1>12 DEF IInv, CallingConvention
<1>14. KeepsCaller
  BY <1>8 DEF SameBelow, KeepsCaller
<1>15. ASSUME c = 1 => Peek(n).t = "obj"
       PROVE  Invokes(n, c)
  <2>1. ip' \in DOMAIN Code /\ Code[ip'].argc = n /\ fp' = fp /\ Avail(n + c)
    BY DEF Takes
  <2>2. ip + 1 \in Ips /\ Entry[ip + 1] = Entry[ip]
    BY <1>1
  <2>3. ASSUME NEW p \in 1 .. Size - n
        PROVE  stack'[p] = stack[p]
    <3>1. p \in 1 .. z - n /\ p \in 1 .. z
      BY <1>1
    <3>2. QED  BY <1>2, <1>5, <3>1
  <2>4. ASSUME NEW j \in 1 .. n
        PROVE  stack'[Size + 1 - j] = stack[Size - n + j]
    <3>1. z + 1 - j \in 1 .. z
      BY <1>1
    <3>2. stack'[z + 1 - j] = s[z + 1 - j] /\ s[z + 1 - j] = stack[z - n + j]
      BY <1>2, <1>5, <3>1
    <3>3. QED  BY <1>1, <3>2
  <2>5. stack'[Size + 1] = Mk("ip", ip + 1) /\ stack'[Size + 2] = Mk("argc", n + c)
    BY <1>1, <1>5
  <2>6. QED  BY <1>1, <1>10, <1>11, <1>15, <2>1, <2>2, <2>3, <2>4, <2>5 DEF Invokes
<1>16. QED  BY <1>11, <1>13, <1>14, <1>15 DEF IInv

LEMMA CallPreserves ==
  ASSUME IInv, InBody, NEW i \in Prog[ip], Call(i) \/ Callc(i)
  PROVE  IInv' /\ KeepsCaller /\ \E n \in Nat, c \in {0, 1} : Invokes(n, c)
<1>1. CASE Call(i)
  <2>1. /\ i[1] = "CALL" /\ Takes(i[3]) /\ ip' = i[2] /\ UNCHANGED <<fp, globals, heap, status>>
        /\ Put(Reversed(i[3]), 0, <<Mk("ip", ip + 1), Mk("argc", i[3])>>)
    BY <1>1 DEF Call
  <2>2. PICK e \in DOMAIN Code : e = i[2] /\ ~Code[e].closure /\ Code[e].argc = i[3]
    BY <2>1, ProgramAssumption DEF InBody, WellFormed
  <2>3. PICK n \in Nat : n = i[3] /\ n + 0 = n
    BY <2>2, ProgramAssumption
  <2>4. Takes(n + 0) /\ Put(Reversed(n), 0, <<Mk("ip", ip + 1), Mk("argc", n + 0)>>)
    BY <2>1, <2>3
  <2>5. PICK c \in {0, 1} : c = 0
    OBVIOUS
  <2>6. Takes(n + c) /\ Put(Reversed(n), 0, <<Mk("ip", ip + 1), Mk("argc", n + c)>>)
    BY <2>4, <2>5
  <2>7. IInv' /\ KeepsCaller /\ ((c = 1 => Peek(n).t = "obj") => Invokes(n, c))
    BY <2>1, <2>2, <2>3, <2>6, InvokePreserves
  <2>8. QED  BY <2>5, <2>7
<1>2. CASE Callc(i)
  <2>1. /\ i[1] = "CALLC" /\ Takes(i[2] + 1) /\ Callable(Peek(i[2]), i[2])
        /\ ip' = Label(Peek(i[2])) /\ Code[Label(Peek(i[2]))].argc = i[2]
        /\ UNCHANGED <<fp, globals, heap, status>>
        /\ Put(Reversed(i[2]), 0, <<Mk("ip", ip + 1), Mk("argc", i[2] + 1)>>)
    BY <1>2 DEF Callc, Callable
  <2>2. PICK n \in Nat : n = i[2]
    BY <2>1, ProgramAssumption DEF InBody, WellFormed
  <2>3. ValueOK(heap, Peek(n))
    <3>1. n + 1 \in Nat /\ n \in 0 .. (n + 1) - 1
      OBVIOUS
    <3>2. QED  BY <2>1, <2>2, <3>1, PeekFacts
  <2>4. PICK o \in 1 .. Len(heap) : o = Peek(n).v /\ heap[o].kind = "closure"
    BY <2>1, <2>2, <2>3 DEF Callable, ValueOK
  <2>5. PICK e \in DOMAIN Code : e = heap[o].elems[1].v
    BY <2>4 DEF IInv, CallingConvention, ObjectOK
  <2>6. ClosureFor(heap, Peek(n), e)
    BY <2>1, <2>2, <2>4, <2>5 DEF ClosureFor, Callable
  <2>7. e = Label(Peek(i[2])) /\ Code[e].argc = n
    BY <2>1, <2>2, <2>4, <2>5 DEF Label
  <2>8. Peek(n).t = "obj"
    BY <2>1, <2>2 DEF Callable
  <2>9. IInv' /\ KeepsCaller /\ Invokes(n, 1)
    BY <2>1, <2>2, <2>6, <2>7, <2>8, InvokePreserves
  <2>10. QED  BY <2>9
<1>3. QED  BY <1>1, <1>2

(* A word in front of a sequence of words.                                         *)
LEMMA PushFirst ==
  ASSUME NEW u \in Seq(Word), Len(u) = 1, NEW t \in Seq(Word), NEW k \in Nat, Len(t) = k
  PROVE  /\ u \o t \in Seq(Word) /\ Len(u \o t) = 1 + k /\ (u \o t)[1] = u[1]
         /\ \A j \in 1 .. k : (u \o t)[1 + j] = t[j]
<1>1. /\ u \o t \in Seq(Word) /\ Len(u \o t) = Len(u) + Len(t)
      /\ \A j \in 1 .. Len(u) + Len(t) :
           (u \o t)[j] = IF j <= Len(u) THEN u[j] ELSE t[j - Len(u)]
  BY ConcatProperties
<1>2. 1 \in 1 .. 1 + k /\ 1 <= 1
  OBVIOUS
<1>3. ASSUME NEW j \in 1 .. k
      PROVE  (u \o t)[1 + j] = t[j]
  <2>1. 1 + j \in 1 .. 1 + k /\ ~(1 + j <= 1) /\ (1 + j) - 1 = j
    OBVIOUS
  <2>2. (u \o t)[1 + j] = t[(1 + j) - 1]
    BY <1>1, <2>1
  <2>3. QED  BY <2>1, <2>2
<1>4. QED  BY <1>1, <1>2, <1>3

LEMMA BeginPreserves ==
  ASSUME IInv, AtEntry, NEW i \in Prog[ip], Begin(i)
  PROVE  IInv' /\ Enters
<1>1. /\ i[1] \in {"BEGIN", "CBEGIN"} /\ ip' = ip + 1 /\ fp' = Size + 1
      /\ UNCHANGED <<globals, heap, status>>
      /\ Put(stack, 0, <<Mk("fp", fp)>> \o [j \in 1 .. i[3] |-> Junk])
  BY DEF Begin, Advance
<1>2. /\ i[3] = Code[ip].nloc /\ ip + 1 \in Ips /\ Entry[ip + 1] = Entry[ip]
      /\ ip + 1 # Entry[ip] /\ Entry[ip] = ip /\ ip \in Ips
  <2>1. WellFormed(i, ip) /\ ip \in Ips /\ Entry[ip] = ip
    BY ProgramAssumption DEF AtEntry
  <2>2. i[3] = Code[ip].nloc
    BY <1>1, <2>1 DEF WellFormed
  <2>3. FallsThrough(ip)
    BY <1>1, <2>1 DEF WellFormed
  <2>4. QED  BY <2>1, <2>2, <2>3 DEF FallsThrough
<1>3. PICK r \in Ips : r = ip + 1 /\ Entry[r] = ip /\ r # Entry[r]
  BY <1>2
<1>4. PICK k \in Nat : k = i[3] /\ k = NLoc(r)
  BY <1>2, <1>3, CodeFacts
<1>5. /\ stack \in Seq(Word) /\ heap \in Seq(Objects) /\ fp \in Int
      /\ FramesLinked(stack, heap) /\ Linked(stack, heap, Size + 1, fp)
      /\ ArgumentsOK(stack, heap, Size + 1, stack[Size].v, ip)
  BY DEF IInv, TypeOK, CallingConvention, RegistersAgree
<1>6. PICK z \in Nat : z = Size /\ z = Len(stack)
  BY <1>5 DEF Size
<1>7. PICK locals \in Seq(Word) :
        /\ locals = [j \in 1 .. i[3] |-> Junk] /\ Len(locals) = k
        /\ \A j \in 1 .. k : locals[j] = Junk
  <2> DEFINE js == [j \in 1 .. k |-> Junk]
  <2>1. js \in Seq(Word) /\ Len(js) = k /\ \A j \in 1 .. k : js[j] = Junk
    BY OtherWords
  <2>2. QED  BY <1>4, <2>1
<1>8. PICK t \in Seq(Word) :
        /\ t = <<Mk("fp", fp)>> \o locals /\ Len(t) = 1 + k /\ t[1] = Mk("fp", fp)
        /\ \A j \in 1 .. k : t[1 + j] = Junk
  <2> DEFINE u == <<Mk("fp", fp)>>
  <2>1. u \in Seq(Word) /\ Len(u) = 1 /\ u[1] = Mk("fp", fp)
    BY <1>5, OtherWords
  <2> HIDE DEF u
  <2>2. /\ u \o locals \in Seq(Word) /\ Len(u \o locals) = 1 + k
        /\ (u \o locals)[1] = u[1]
        /\ \A j \in 1 .. k : (u \o locals)[1 + j] = locals[j]
    <3>1. Len(locals) = k
      BY <1>7
    <3>2. QED  BY <2>1, <3>1, PushFirst
  <2>3. \A j \in 1 .. k : (u \o locals)[1 + j] = Junk
    BY <1>7, <2>2
  <2>4. QED  BY <2>1, <2>2, <2>3 DEF u
<1>9. Put(stack, 0, t)
  BY <1>1, <1>7, <1>8
<1>10. stack' = SubSeq(stack, 1, z) \o t /\ z + Len(t) <= Capacity
  BY <1>6, <1>8, <1>9 DEF Put
<1>11. /\ stack' \in Seq(Word) /\ Len(stack') = z + Len(t)
       /\ \A p \in 1 .. z : stack'[p] = stack[p]
       /\ \A p \in 1 .. Len(t) : stack'[z + p] = t[p]
  <2>1. z \in 0 .. Len(stack)
    BY <1>6
  <2>2. QED  BY <1>5, <1>10, <2>1, PutLemma
<1>12. EnterStep(stack, stack', z, fp, k)
  <2>1. Len(stack') = z + 1 + k
    BY <1>8, <1>11
  <2>2. stack'[z + 1] = Mk("fp", fp)
    <3>1. 1 \in 1 .. Len(t)
      BY <1>8
    <3>2. QED  BY <1>8, <1>11, <3>1
  <2>3. ASSUME NEW p \in (z + 2) .. (z + 1 + k)
        PROVE  stack'[p] = Junk
    <3>1. PICK j \in 1 .. k : p = z + (1 + j) /\ 1 + j \in 1 .. 1 + k
      <4>1. p - z - 1 \in 1 .. k /\ p = z + (1 + (p - z - 1))
            /\ 1 + (p - z - 1) \in 1 .. 1 + k
        OBVIOUS
      <4>2. QED  BY <4>1
    <3>2. stack'[z + (1 + j)] = t[1 + j]
      BY <1>8, <1>11, <3>1
    <3>3. QED  BY <1>8, <3>1, <3>2
  <2>4. QED  BY <1>11, <2>1, <2>2, <2>3 DEF EnterStep
<1>13. FramesLinked(stack', heap) /\ ActivationOK(stack', heap, z + 1, r, Len(stack'))
  <2>1. Linked(stack, heap, z + 1, fp) /\ ArgumentsOK(stack, heap, z + 1, stack[z].v, Entry[r])
    BY <1>3, <1>5, <1>6
  <2>2. QED
    BY <1>3, <1>4, <1>5, <1>6, <1>11, <1>12, <2>1, EnterShape
<1>14. Size' = Len(stack') /\ fp' = z + 1 /\ ip' = r /\ ip' # 0
  BY <1>1, <1>3, <1>6, CodeFacts DEF Size
<1>15. TypeOK'
  <2>1. z + 1 \in 0 .. Len(stack') /\ Len(stack') <= Capacity
    BY <1>8, <1>10, <1>11
  <2>2. QED  BY <1>1, <1>11, <1>14, <2>1 DEF IInv, TypeOK
<1>16. RegistersAgree'
  BY <1>3, <1>13, <1>14, <1>1 DEF RegistersAgree, AtEntry, InBody
<1>17. CallingConvention'
  BY <1>1, <1>13, <1>16 DEF IInv, CallingConvention
<1>18. Enters
  <2>1. Entry[ip'] = ip /\ ip' \in Ips /\ ip' # Entry[ip'] /\ fp' = Size + 1
    BY <1>3, <1>6, <1>14
  <2>2. /\ Size' = Size + 1 + NLoc(ip') /\ stack'[Size + 1] = Mk("fp", fp)
        /\ \A p \in 1 .. Size : stack'[p] = stack[p]
        /\ \A p \in Size + 2 .. Size' : stack'[p] = Junk
    BY <1>4, <1>6, <1>12, <1>14 DEF EnterStep
  <2>3. QED  BY <2>1, <2>2 DEF Enters, InBody
<1>19. QED  BY <1>15, <1>17, <1>18 DEF IInv

LEMMA EndPreserves ==
  ASSUME IInv, InBody, NEW i \in Prog[ip], End(i)
  PROVE  IInv' /\ KeepsCaller /\ Returns
<1>1. /\ Takes(1) /\ stack' = SubSeq(stack, 1, fp - 3 - stack[fp - 1].v) \o <<Peek(0)>>
      /\ fp' = stack[fp].v /\ ip' = stack[fp - 2].v /\ UNCHANGED <<globals, heap, status>>
  BY DEF End
<1>2. Peek(0) \in Word /\ ValueOK(heap, Peek(0))
  BY <1>1, PeekFacts
<1>3. /\ stack \in Seq(Word) /\ heap \in Seq(Objects) /\ FramesLinked(stack, heap)
      /\ ActivationOK(stack, heap, fp, ip, Len(stack)) /\ Len(stack) \in Nat
      /\ Len(stack) <= Capacity /\ Capacity \in Nat
  BY BodyFacts, ConstantsAssumption DEF IInv, TypeOK, Size
<1>4. PICK low \in Nat : low = fp - 3 - stack[fp - 1].v /\ low + 1 <= Len(stack)
  <2>1. PICK n \in 0 .. fp - 3 : n = stack[fp - 1].v
    BY <1>3, ActivationFacts
  <2>2. fp \in Nat /\ fp >= 5 /\ fp <= Len(stack)
    BY <1>3, ActivationFacts
  <2>3. fp - 3 - n \in Nat /\ (fp - 3 - n) + 1 <= Len(stack)
    BY <1>3, <2>2
  <2>4. QED  BY <2>1, <2>3
<1>5. /\ stack' \in Seq(Word) /\ Len(stack') = low + 1
      /\ \A p \in 1 .. low : stack'[p] = stack[p]
      /\ stack'[low + 1] = Peek(0)
  <2> DEFINE t == <<Peek(0)>>
  <2>1. t \in Seq(Word) /\ Len(t) = 1 /\ t[1] = Peek(0) /\ 1 \in 1 .. Len(t)
    BY <1>2
  <2>2. low \in 0 .. Len(stack) /\ stack' = SubSeq(stack, 1, low) \o t
    BY <1>1, <1>3, <1>4
  <2> HIDE DEF t
  <2>3. /\ stack' \in Seq(Word) /\ Len(stack') = low + Len(t)
        /\ \A p \in 1 .. low : stack'[p] = stack[p]
        /\ \A p \in 1 .. Len(t) : stack'[low + p] = t[p]
    BY <1>3, <2>1, <2>2, PutLemma
  <2>4. QED  BY <2>1, <2>3
<1>6. ReturnStep(heap, stack, stack', low)
  BY <1>2, <1>5 DEF ReturnStep
<1>7. /\ FramesLinked(stack', heap) /\ SameBelow(stack, stack', fp)
      /\ stack[fp].v \in 0 .. low
      /\ \/ stack[fp].v = 0 /\ stack[fp - 2].v = 0 /\ low = 0
         \/ /\ stack[fp].v # 0
            /\ ActivationOK(stack', heap, stack[fp].v, stack[fp - 2].v, low + 1)
  BY <1>3, <1>4, <1>5, <1>6, ReturnShape
<1>8. Size' = low + 1
  BY <1>5 DEF Size
<1>9. /\ fp' \in 0 .. low /\ fp' \in 0 .. low + 1
      /\ \/ fp' = 0 /\ ip' = 0 /\ low = 0
         \/ fp' # 0 /\ ActivationOK(stack', heap, fp', ip', low + 1)
  BY <1>1, <1>7
<1>10. TypeOK'
  <2>1. ip' \in Ips \cup {0}
    BY <1>9 DEF ActivationOK
  <2>2. low + 1 <= Capacity
    BY <1>3, <1>4
  <2>3. QED  BY <1>1, <1>5, <1>8, <1>9, <2>1, <2>2 DEF IInv, TypeOK
<1>11. RegistersAgree'
  <2>1. CASE fp' = 0 /\ ip' = 0 /\ low = 0
    <3>1. Size' = 1 /\ stack'[1] = Peek(0) /\ ip' \notin Ips
      BY <1>5, <1>8, <2>1, ProgramAssumption
    <3>2. QED  BY <1>1, <1>2, <2>1, <3>1 DEF RegistersAgree, AtEntry, InBody
  <2>2. CASE fp' # 0 /\ ActivationOK(stack', heap, fp', ip', low + 1)
    <3>1. ip' \in Ips /\ ip' # Entry[ip'] /\ ip' # 0
      BY <2>2, CodeFacts DEF ActivationOK
    <3>2. QED  BY <1>1, <1>8, <2>2, <3>1 DEF RegistersAgree, AtEntry, InBody
  <2>3. QED  BY <1>9, <2>1, <2>2
<1>12. CallingConvention'
  BY <1>1, <1>7, <1>11 DEF IInv, CallingConvention
<1>13. KeepsCaller
  BY <1>7 DEF SameBelow, KeepsCaller
<1>14. Returns
  <2>1. Avail(1) /\ fp' = stack[fp].v /\ ip' = stack[fp - 2].v
    BY <1>1 DEF Takes
  <2>2. Peek(0) = stack[Size]
    BY <1>3 DEF Peek, Size
  <2>3. QED  BY <1>4, <1>5, <1>8, <2>1, <2>2 DEF Returns
<1>15. QED  BY <1>10, <1>12, <1>13, <1>14 DEF IInv

-----------------------------------------------------------------------------------
(* The whole machine.                                                              *)

LEMMA InitInv ==
  ASSUME Init
  PROVE  IInv
<1>1. /\ stack = <<Junk, Junk, Mk("ip", 0), Mk("argc", 2)>> /\ fp = 0 /\ ip = MainEntry
      /\ globals = [g \in 1 .. NGlobals |-> Junk] /\ heap = <<>> /\ status = "run"
  BY DEF Init
<1>2. /\ Junk \in Word /\ Mk("ip", 0) \in Word /\ Mk("argc", 2) \in Word
      /\ Mk("ip", 0).t = "ip" /\ Mk("ip", 0).v = 0
      /\ Mk("argc", 2).t = "argc" /\ Mk("argc", 2).v = 2 /\ Junk.t # "fp"
  BY OtherWords, OperandsUnsaved
<1>3. /\ stack \in Seq(Word) /\ Len(stack) = 4 /\ stack[1] = Junk /\ stack[2] = Junk
      /\ stack[3] = Mk("ip", 0) /\ stack[4] = Mk("argc", 2)
  BY <1>1, <1>2
<1>4. /\ MainEntry \in Ips /\ Entry[MainEntry] = MainEntry /\ MainEntry # 0
      /\ MainEntry \in DOMAIN Code /\ Code[MainEntry].argc = 2 /\ ~Code[MainEntry].closure
  BY ProgramAssumption
<1>5. TypeOK
  <2>1. heap \in Seq(Objects)
    BY <1>1
  <2>2. globals \in [1 .. NGlobals -> Word]
    BY <1>1, <1>2
  <2>3. Size = 4 /\ 4 <= Capacity /\ fp \in 0 .. 4
    BY <1>1, <1>3, ConstantsAssumption DEF Size
  <2>4. QED  BY <1>1, <1>3, <1>4, <2>1, <2>2, <2>3 DEF TypeOK
<1>6. FramesLinked(stack, heap)
  <2>1. ASSUME NEW b \in 1 .. 4
        PROVE  stack[b].t # "fp"
    <3>1. b = 1 \/ b = 2 \/ b = 3 \/ b = 4
      OBVIOUS
    <3>2. QED  BY <1>2, <1>3, <3>1
  <2>2. QED  BY <1>3, <2>1 DEF FramesLinked
<1>7. Linked(stack, heap, 5, 0)
  <2>1. \A p \in 1 .. 2 : ValueOK(heap, stack[p])
    <3>1. \A p \in 1 .. 2 : p = 1 \/ p = 2
      OBVIOUS
    <3>2. QED  BY <1>3, <3>1, OtherWords
  <2>2. stack[4].t = "argc" /\ stack[4].v = 2 /\ stack[3].t = "ip" /\ stack[3].v = 0
    BY <1>2, <1>3
  <2>3. 5 - 1 = 4 /\ 5 - 2 = 3 /\ 5 - 3 = 2 /\ 5 - 2 - 2 = 1 /\ 5 - 3 - 2 = 0
    OBVIOUS
  <2>4. QED  BY <1>3, <2>1, <2>2, <2>3 DEF Linked
<1>8. RegistersAgree
  <2>1. Size = 4 /\ Size + 1 = 5 /\ stack[Size].v = 2
    BY <1>2, <1>3 DEF Size
  <2>2. ArgumentsOK(stack, heap, 5, 2, MainEntry)
    BY <1>4 DEF ArgumentsOK
  <2>3. ip \in Ips /\ ip = Entry[ip] /\ ip # 0
    BY <1>1, <1>4
  <2>4. QED  BY <1>1, <1>7, <2>1, <2>2, <2>3 DEF RegistersAgree, AtEntry, InBody
<1>9. \A g \in 1 .. NGlobals : ValueOK(heap, globals[g])
  BY <1>1, OtherWords
<1>10. \A o \in 1 .. Len(heap) : ObjectOK(heap, o)
  BY <1>1
<1>11. QED  BY <1>5, <1>6, <1>8, <1>9, <1>10 DEF IInv, CallingConvention

LEMMA ExitPreserves ==
  ASSUME IInv, NEW how \in {"failed", "trapped", "stopped", "astray"}, Exit(how)
  PROVE  IInv' /\ (InBody => KeepsCaller)
<1>1. /\ stack' = stack /\ fp' = fp /\ ip' = ip /\ globals' = globals /\ heap' = heap
      /\ status' = how
  BY DEF Exit
<1>2. IInv'
  BY <1>1 DEF IInv, TypeOK, CallingConvention, RegistersAgree, InBody, AtEntry, Size
<1>3. ASSUME InBody
      PROVE  KeepsCaller
  <2>1. /\ stack \in Seq(Word) /\ ActivationOK(stack, heap, fp, ip, Len(stack))
        /\ Len(stack) \in Nat
    BY <1>3, BodyFacts DEF Size
  <2>2. PICK n \in 0 .. fp - 3 : n = stack[fp - 1].v
    BY <2>1, ActivationFacts
  <2>3. fp - 3 - n <= Len(stack)
    BY <2>1, <2>2, ActivationFacts
  <2>4. QED  BY <1>1, <2>2, <2>3 DEF KeepsCaller
<1>4. QED  BY <1>2, <1>3

(* Only BEGIN and CBEGIN, which stand at a function's entry, push a frame; every   *)
(* other instruction is met in a body.                                             *)
LEMMA WhereExecuted ==
  ASSUME NEW i \in Prog[ip], ip \in Ips
  PROVE  /\ i[1] \in {"BEGIN", "CBEGIN"} => AtEntry
         /\ i[1] \notin {"BEGIN", "CBEGIN"} => InBody
  BY ProgramAssumption DEF WellFormed, AtEntry, InBody

LEMMA NextPreserves ==
  ASSUME IInv, Next
  PROVE  /\ IInv' /\ (InBody => KeepsCaller)
         /\ \/ Computes \/ Enters \/ Returns \/ UNCHANGED <<stack, fp, ip>>
            \/ \E n \in Nat, c \in {0, 1} : Invokes(n, c)
<1>1. PICK i \in Prog[ip] : Execute(i)
  BY DEF Next
<1>2. ip \in Ips
  BY DEF Next, IInv, TypeOK
<1>3. CASE \/ Const(i) \/ Binop(i) \/ Drop(i) \/ Dup(i) \/ Swap(i) \/ Line(i)
           \/ Test(i) \/ Lread(i) \/ Lwrite(i) \/ Llength(i)
  <2>1. i[1] \notin {"BEGIN", "CBEGIN"}
    BY <1>3 DEF Const, Binop, Drop, Dup, Swap, Line, Test, Lread, Lwrite, Llength
  <2>2. QED  BY <1>2, <1>3, <2>1, WhereExecuted, ComputationPreserves
<1>4. CASE String(i) \/ Sexp(i) \/ Barray(i) \/ Lstring(i)
  <2>1. i[1] \notin {"BEGIN", "CBEGIN"}
    BY <1>4 DEF String, Sexp, Barray, Lstring
  <2>2. QED  BY <1>2, <1>4, <2>1, WhereExecuted, BuildPreserves
<1>5. CASE Elem(i) \/ StaElement(i) \/ StaObject(i)
  <2>1. i[1] \notin {"BEGIN", "CBEGIN"}
    BY <1>5 DEF Elem, StaElement, StaObject
  <2>2. QED  BY <1>2, <1>5, <2>1, WhereExecuted, ElementPreserves
<1>6. CASE Ld(i) \/ Lda(i)
  <2>1. i[1] \notin {"BEGIN", "CBEGIN"}
    BY <1>6 DEF Ld, Lda
  <2>2. QED  BY <1>2, <1>6, <2>1, WhereExecuted, LoadPreserves
<1>7. CASE St(i) \/ StaAddress(i)
  <2>1. i[1] \notin {"BEGIN", "CBEGIN"}
    BY <1>7 DEF St, StaAddress
  <2>2. QED  BY <1>2, <1>7, <2>1, WhereExecuted, AssignPreserves
<1>8. CASE Jmp(i) \/ Cjmp(i)
  <2>1. i[1] \notin {"BEGIN", "CBEGIN"}
    BY <1>8 DEF Jmp, Cjmp
  <2>2. QED  BY <1>2, <1>8, <2>1, WhereExecuted, JumpPreserves
<1>9. CASE Closure(i)
  <2>1. i[1] \notin {"BEGIN", "CBEGIN"}
    BY <1>9 DEF Closure
  <2>2. QED  BY <1>2, <1>9, <2>1, WhereExecuted, ClosurePreserves
<1>10. CASE Call(i) \/ Callc(i)
  <2>1. i[1] \notin {"BEGIN", "CBEGIN"}
    BY <1>10 DEF Call, Callc
  <2>2. QED  BY <1>2, <1>10, <2>1, WhereExecuted, CallPreserves
<1>11. CASE Begin(i)
  <2>1. AtEntry /\ ~InBody
    BY <1>2, <1>11, WhereExecuted DEF Begin, AtEntry, InBody
  <2>2. QED  BY <1>11, <2>1, BeginPreserves
<1>12. CASE End(i)
  <2>1. i[1] \notin {"BEGIN", "CBEGIN"}
    BY <1>12 DEF End
  <2>2. QED  BY <1>2, <1>12, <2>1, WhereExecuted, EndPreserves
<1>13. CASE \/ Overflow(i) \/ Abort(i) \/ Stop(i) \/ DivideByZero(i)
            \/ Rejected(i) \/ NullDereference(i) \/ Astray(i)
  <2>1. Exit("failed") \/ Exit("stopped") \/ Exit("trapped") \/ Exit("astray")
    BY <1>13 DEF Overflow, Abort, Stop, DivideByZero, Rejected, NullDereference, Astray
  <2>2. UNCHANGED <<stack, fp, ip>>
    BY <2>1 DEF Exit
  <2>3. QED  BY <2>1, <2>2, ExitPreserves
<1>14. QED
  BY <1>1, <1>3, <1>4, <1>5, <1>6, <1>7, <1>8, <1>9, <1>10, <1>11, <1>12, <1>13 DEF Execute

LEMMA StepPreserves ==
  ASSUME IInv, [Next]_vars
  PROVE  IInv'
<1>1. CASE Next
  BY <1>1, NextPreserves
<1>2. CASE UNCHANGED vars
  BY <1>2 DEF vars, IInv, TypeOK, CallingConvention, RegistersAgree, InBody, AtEntry, Size
<1>3. QED  BY <1>1, <1>2

(* The inductive invariant of the machine.                                         *)
THEOREM Invariance == Spec => []IInv
<1>1. Init => IInv
  BY InitInv
<1>2. IInv /\ [Next]_vars => IInv'
  BY StepPreserves
<1>3. QED  BY <1>1, <1>2, PTL DEF Spec

(* Every variable keeps its type, and the stack never grows past the block that    *)
(* stack::init allocates, for every program and every capacity.                    *)
THEOREM TypeCorrect == Spec => []TypeOK
<1>1. IInv => TypeOK
  BY DEF IInv
<1>2. QED  BY <1>1, Invariance, PTL

(* The calling convention of eval_begin, eval_call, eval_callc and eval_end: from  *)
(* any reachable state the saved words lead back from frame to frame to main.      *)
THEOREM CallingConventionHolds == Spec => []CallingConvention
<1>1. IInv => CallingConvention
  BY DEF IInv
<1>2. QED  BY <1>1, Invariance, PTL

(* No instruction of a body changes or pops a word below its activation's          *)
(* arguments: eval_end cuts the stack exactly there.                               *)
THEOREM CallersKept == Spec => CallerUntouched
<1>1. IInv /\ [Next]_vars => [InBody => KeepsCaller]_vars
  BY NextPreserves
<1>2. QED  BY <1>1, Invariance, PTL DEF Spec, CallerUntouched
-----------------------------------------------------------------------------------
(* The first saved frame pointer above a position, if there is one.                *)
LEMMA LeastPosition ==
  ASSUME NEW S \in SUBSET Nat, S # {}
  PROVE  \E m \in S : \A k \in S : m <= k
<1> DEFINE T == {0 .. k : k \in S}
<1>1. IsWellFoundedOn(StrictSubsetOrdering(Nat), FiniteSubsetsOf(Nat))
  BY FS_StrictSubsetOrderingWellFounded
<1>2. T \subseteq FiniteSubsetsOf(Nat) /\ T # {}
  <2>1. \A k \in Nat : 0 .. k \in SUBSET Nat /\ IsFiniteSet(0 .. k)
    BY FS_Interval
  <2>2. QED  BY <2>1 DEF FiniteSubsetsOf
<1>3. \E x \in T : \A y \in T : <<y, x>> \notin StrictSubsetOrdering(Nat)
  <2> HIDE DEF T
  <2> QED  BY <1>1, <1>2, WFMin, Zenon
<1>4. PICK m \in S : \A k \in S : <<0 .. k, 0 .. m>> \notin StrictSubsetOrdering(Nat)
  BY <1>3
<1>5. ASSUME NEW k \in S, k < m
      PROVE  FALSE
  <2>1. 0 .. k \in SUBSET Nat /\ 0 .. m \in SUBSET Nat /\ 0 .. k \subseteq 0 .. m
    BY <1>5
  <2>2. m \in 0 .. m /\ m \notin 0 .. k
    BY <1>5
  <2>3. <<0 .. k, 0 .. m>> \in StrictSubsetOrdering(Nat)
    BY <2>1, <2>2 DEF StrictSubsetOrdering
  <2>4. QED  BY <1>4, <2>3
<1>6. QED  BY <1>5

(* An address between the frames q and b, with no other frame above it, is in the  *)
(* activation that has frame q and ends below b's arguments.                       *)
LEMMA AddressBelowLink ==
  ASSUME NEW s \in Seq(Word), NEW h, NEW b \in Nat, NEW q, Linked(s, h, b, q),
         NEW p \in Nat, p > 0, p < b, s[p].t = "stk",
         \A k \in Nat : p < k /\ k < b => s[k].t # "fp"
  PROVE  /\ ActivationOK(s, h, q, s[b - 2].v, b - 3 - s[b - 1].v)
         /\ q < p /\ p <= b - 3 - s[b - 1].v
<1>1. PICK n \in Nat : n = s[b - 1].v
  BY DEF Linked
<1>2. /\ b >= 5 /\ s[b - 1].t = "argc" /\ s[b - 2].t = "ip"
      /\ q \in 0 .. b - 3 - n
      /\ \A k \in (b - 2 - n) .. (b - 3) : ValueOK(h, s[k])
      /\ \/ q = 0 /\ b = 5 /\ n = 2
         \/ q # 0 /\ ActivationOK(s, h, q, s[b - 2].v, b - 3 - n)
  BY <1>1 DEF Linked
<1>3. p # b - 1 /\ p # b - 2 /\ p \notin (b - 2 - n) .. (b - 3)
  <2>1. \A k \in (b - 2 - n) .. (b - 3) : s[k].t # "stk"
    BY <1>2, TagsDiffer DEF ValueOK
  <2>2. QED  BY <1>2, <2>1
<1>4. p < b - 2 - n
  <2>1. \A k, c, m \in Nat : /\ k < c /\ k # c - 1 /\ k # c - 2
                            /\ k \notin (c - 2 - m) .. (c - 3) => k < c - 2 - m
    OBVIOUS
  <2>2. QED  BY <1>3, <2>1
<1>5. q # 0 /\ ActivationOK(s, h, q, s[b - 2].v, b - 3 - n)
  BY <1>2, <1>4
<1>6. s[q].t = "fp"
  BY <1>5 DEF ActivationOK
<1>7. q < p
  <2>1. q \in Nat /\ q < b
    BY <1>2
  <2>2. ~(p < q) /\ p # q
    BY <1>6, <2>1
  <2>3. QED  BY <2>1, <2>2
<1>8. QED  BY <1>1, <1>2, <1>4, <1>5, <1>7

(* Every address on the stack lies in the part of an activation above its frame.   *)
LEMMA AddressInActivation ==
  ASSUME IInv, NEW p \in 1 .. Size, stack[p].t = "stk"
  PROVE  \E f, pc, hi \in Nat : ActivationOK(stack, heap, f, pc, hi) /\ f < p /\ p <= hi
<1>1. /\ stack \in Seq(Word) /\ Size \in Nat /\ Size = Len(stack) /\ fp \in 0 .. Size
      /\ ip \in Ips \cup {0} /\ FramesLinked(stack, heap) /\ RegistersAgree
  BY DEF IInv, TypeOK, CallingConvention, Size
<1> DEFINE Above == {b \in 1 .. Size : b > p /\ stack[b].t = "fp"}
<1>2. ASSUME NEW b \in Nat, NEW q, Linked(stack, heap, b, q), p < b, b <= Size + 1,
             \A k \in Above : b <= k
      PROVE  \E f, pc, hi \in Nat :
               ActivationOK(stack, heap, f, pc, hi) /\ f < p /\ p <= hi
  <2>1. \A k \in Nat : p < k /\ k < b => stack[k].t # "fp"
    BY <1>1, <1>2
  <2>2. /\ ActivationOK(stack, heap, q, stack[b - 2].v, b - 3 - stack[b - 1].v)
        /\ q < p /\ p <= b - 3 - stack[b - 1].v
    <3>1. p \in Nat /\ p > 0
      BY <1>1
    <3>2. QED  BY <1>1, <1>2, <2>1, <3>1, AddressBelowLink
  <2>3. stack[b - 1].v \in Nat
    BY <1>2 DEF Linked
  <2>4. b - 3 - stack[b - 1].v \in Nat
    BY <1>1, <2>2, <2>3
  <2>5. q \in Nat /\ stack[b - 2].v \in Nat
    BY <2>2, <2>4, <1>1, ActivationFacts, ProgramAssumption, CodeFacts
  <2>6. QED  BY <2>2, <2>4, <2>5
<1>3. CASE Above # {}
  <2>1. PICK b \in Above : \A k \in Above : b <= k
    <3>1. Above \in SUBSET Nat
      BY <1>1
    <3> HIDE DEF Above
    <3>2. QED  BY <1>3, <3>1, LeastPosition
  <2>2. Linked(stack, heap, b, stack[b].v)
    BY <1>1, <2>1 DEF FramesLinked
  <2>3. b \in Nat /\ p < b /\ b <= Size + 1
    BY <1>1
  <2>4. QED  BY <1>2, <2>1, <2>2, <2>3
<1>4. CASE Above = {} /\ AtEntry
  <2>1. Linked(stack, heap, Size + 1, fp)
    BY <1>1, <1>4 DEF RegistersAgree
  <2>2. Size + 1 \in Nat /\ p < Size + 1 /\ Size + 1 <= Size + 1
    BY <1>1
  <2>3. QED  BY <1>2, <1>4, <2>1, <2>2
<1>5. CASE Above = {} /\ InBody
  <2>1. ActivationOK(stack, heap, fp, ip, Size)
    BY <1>1, <1>5 DEF RegistersAgree
  <2>2. stack[fp].t = "fp" /\ fp \in 1 .. Size /\ fp \in Nat /\ ip \in Nat
    BY <1>1, <2>1, ActivationFacts, CodeFacts
  <2>3. fp < p
    BY <1>1, <1>5, <2>2
  <2>4. p <= Size /\ Size \in Nat
    BY <1>1
  <2>5. QED  BY <2>1, <2>2, <2>3, <2>4
<1>6. ip # 0
  <2>1. ip = 0 => Size = 1 /\ ValueOK(heap, stack[1])
    BY <1>1 DEF RegistersAgree
  <2>2. ip = 0 => p = 1
    <3>1. p \in 1 .. Size
      OBVIOUS
    <3>2. QED  BY <2>1, <3>1
  <2>3. QED  BY <2>1, <2>2, TagsDiffer DEF ValueOK
<1>7. QED  BY <1>1, <1>3, <1>4, <1>5, <1>6 DEF AtEntry, InBody

(* A frame below f lies below the arguments of f.                                  *)
LEMMA FrameBelowFrame ==
  ASSUME IInv, NEW f \in 1 .. Size, stack[f].t = "fp",
         NEW b \in 1 .. Size, stack[b].t = "fp", b < f
  PROVE  b - 2 - stack[b - 1].v <= f - 2 - stack[f - 1].v
<1>1. Linked(stack, heap, f, stack[f].v) /\ Linked(stack, heap, b, stack[b].v)
  BY DEF IInv, CallingConvention, FramesLinked, Size
<1>2. f \in Nat /\ b \in Nat
  BY DEF IInv, TypeOK, Size
<1>3. PICK n \in Nat : n = stack[f - 1].v
  BY <1>1 DEF Linked
<1>4. PICK m \in Nat : m = stack[b - 1].v
  BY <1>1 DEF Linked
<1>5. /\ stack[f - 1].t = "argc" /\ stack[f - 2].t = "ip"
      /\ \A k \in (f - 2 - n) .. (f - 3) : ValueOK(heap, stack[k])
  BY <1>1, <1>3 DEF Linked
<1>6. b # f - 1 /\ b # f - 2 /\ b \notin (f - 2 - n) .. (f - 3)
  BY <1>5, TagsDiffer DEF ValueOK
<1>7. b < f - 2 - n
  BY <1>2, <1>6, BelowArguments
<1>8. QED  BY <1>2, <1>3, <1>4, <1>7

LEMMA ConventionKeepsAddresses == IInv => AddressesLive
<1> SUFFICES ASSUME IInv, NEW p \in 1 .. Size, stack[p].t = "stk"
             PROVE  /\ stack[p].v \in 1 .. p - 1 /\ Plain(stack[stack[p].v])
                    /\ \A b \in 1 .. p : stack[b].t = "fp" => stack[p].v >= b - 2 - stack[b - 1].v
  BY DEF AddressesLive
<1>1. PICK f, pc, hi \in Nat : ActivationOK(stack, heap, f, pc, hi) /\ f < p /\ p <= hi
  BY AddressInActivation
<1>2. stack \in Seq(Word) /\ Size \in Nat /\ Size = Len(stack)
  BY DEF IInv, TypeOK, Size
<1>3. PICK argc \in Nat : argc = Code[Entry[pc]].argc
  BY <1>1, <1>2, ActivationFacts
<1>4. PICK n \in 0 .. f - 3 : n = stack[f - 1].v /\ n \in {argc, argc + 1}
  BY <1>1, <1>2, <1>3, ActivationFacts
<1>5. /\ f >= 5 /\ stack[f].t = "fp" /\ NLoc(pc) \in Nat
      /\ \A k \in (f + 1) .. hi : OperandOK(heap, stack[k], f, pc)
      /\ \A k \in VarCells(f, pc) : ValueOK(heap, stack[k])
  <2>1. f \in Nat /\ f >= 5 /\ stack[f].t = "fp" /\ pc \in Ips
    BY <1>1, <1>2, ActivationFacts
  <2>2. NLoc(pc) \in Nat
    BY <2>1, CodeFacts
  <2>3. QED  BY <1>1, <2>1, <2>2 DEF ActivationOK
<1>6. OperandOK(heap, stack[p], f, pc)
  BY <1>1, <1>5
<1>7. stack[p].v \in VarCells(f, pc)
  BY <1>6, TagsDiffer DEF OperandOK, ValueOK, AddressOK
<1>8. PICK v \in ((f + 1) .. (f + NLoc(pc))) \cup ((f - 2 - argc) .. (f - 3)) : v = stack[p].v
  BY <1>3, <1>7 DEF VarCells
<1>9. p > f + NLoc(pc)
  <2>1. p \notin (f + 1) .. (f + NLoc(pc))
    BY <1>5, TagsDiffer DEF VarCells, ValueOK
  <2>2. QED  BY <1>1, <1>5, <2>1
<1>10. v \in 1 .. p - 1 /\ v >= f - 2 - n
  BY <1>1, <1>3, <1>4, <1>5, <1>8, <1>9
<1>11. Plain(stack[v])
  BY <1>5, <1>7, <1>8 DEF ValueOK
<1>12. ASSUME NEW b \in 1 .. p, stack[b].t = "fp"
       PROVE  v >= b - 2 - stack[b - 1].v
  <2>1. b \in 1 .. Size /\ f \in 1 .. Size /\ b <= hi
    BY <1>1, <1>2, <1>5
  <2>2. b \notin (f + 1) .. hi
    BY <1>5, <1>12, OperandsUnsaved
  <2>3. b <= f
    BY <1>1, <2>1, <2>2
  <2>4. CASE b = f
    BY <1>4, <1>10, <2>4
  <2>5. CASE b < f
    <3>1. b - 2 - stack[b - 1].v <= f - 2 - stack[f - 1].v
      BY <1>5, <1>12, <2>1, <2>5, FrameBelowFrame
    <3>2. PICK m \in Nat : m = stack[b - 1].v
      BY <1>12, <2>1 DEF IInv, CallingConvention, FramesLinked, Linked, Size
    <3>3. QED  BY <1>4, <1>10, <3>1, <3>2
  <2>6. QED  BY <2>3, <2>4, <2>5
<1>13. QED  BY <1>8, <1>10, <1>11, <1>12

(* An address that eval_lda took never outlives the activation whose variable it   *)
(* names, however many calls lie between the LDA and the STA that uses it, for     *)
(* every program: the calling convention alone implies it.                         *)
THEOREM AddressesStayLive == Spec => []AddressesLive
<1>1. QED  BY ConventionKeepsAddresses, Invariance, PTL

===================================================================================
