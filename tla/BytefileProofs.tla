------------------------------ MODULE BytefileProofs -------------------------------
(************************************************************************************)
(* What the two programs that read byte code files make of every file: the pointers *)
(* of the interpreter's struct, and the walk, the counts and the report of the      *)
(* analyzer.                                                                        *)
(************************************************************************************)
EXTENDS Bytefile, StaticAnalyzer, FunctionTheorems, FiniteSetTheorems,
        SequenceTheorems, TLAPS

------------------------------------------------------------------------------------
(* A set of numbers has a least element.                                            *)
LEMMA LeastNumber ==
  ASSUME NEW S \in SUBSET Nat, S # {}
  PROVE  \E m \in S : \A k \in S : m <= k
<1> DEFINE T == {0 .. k : k \in S}
<1>1. IsWellFoundedOn(StrictSubsetOrdering(Nat), FiniteSubsetsOf(Nat))
  BY FS_StrictSubsetOrderingWellFounded
<1>2. T \subseteq FiniteSubsetsOf(Nat) /\ T # {}
  <2>1. \A k \in Nat : 0 .. k \in SUBSET Nat /\ IsFiniteSet(0 .. k)
    BY FS_Interval
  <2>2. QED  BY <2>1 DEF FiniteSubsetsOf
<1>3. \E x \in T : \A y \in T : <<y, x>> \notin StrictSubsetOrdering(Nat)
  <2> HIDE DEF T
  <2> QED  BY <1>1, <1>2, WFMin, Zenon
<1>4. PICK m \in S : \A k \in S : <<0 .. k, 0 .. m>> \notin StrictSubsetOrdering(Nat)
  BY <1>3
<1>5. ASSUME NEW k \in S, k < m
      PROVE  FALSE
  <2>1. 0 .. k \in SUBSET Nat /\ 0 .. m \in SUBSET Nat /\ 0 .. k \subseteq 0 .. m
    BY <1>5
  <2>2. m \in 0 .. m /\ m \notin 0 .. k
    BY <1>5
  <2>3. <<0 .. k, 0 .. m>> \in StrictSubsetOrdering(Nat)
    BY <2>1, <2>2 DEF StrictSubsetOrdering
  <2>4. QED  BY <1>4, <2>3
<1>6. QED  BY <1>5

------------------------------------------------------------------------------------
(* FlattenSeq is what its definition says: Glued(s, f) is its equation.             *)
Glued(s, f, m) == f = [i \in 1 .. m |-> IF i = 1 THEN s[i] ELSE f[i - 1] \o s[i]]

LEMMA GluedExists ==
  ASSUME NEW s, NEW m \in Nat
  PROVE  \E f : Glued(s, f, m)
<1> DEFINE Missing == {k \in Nat : ~\E f : Glued(s, f, k)}
<1> SUFFICES ASSUME Missing # {} PROVE FALSE
  OBVIOUS
<1>1. PICK k \in Missing : \A j \in Missing : k <= j
  <2> HIDE DEF Missing
  <2>1. Missing \in SUBSET Nat
    BY DEF Missing
  <2>2. QED  BY <2>1, LeastNumber
<1>2. CASE k = 0
  <2>1. Glued(s, [i \in 1 .. 0 |-> <<>>], 0)
    BY DEF Glued
  <2>2. QED  BY <1>2, <2>1
<1>3. CASE k # 0
  <2>1. k \in Nat /\ k - 1 \in Nat /\ ~(k <= k - 1)
    BY <1>3
  <2>2. PICK f : Glued(s, f, k - 1)
    BY <1>1, <2>1
  <2> DEFINE Value(g, i) == IF i = 1 THEN s[i] ELSE g[i - 1] \o s[i]
  <2>3. PICK g : g = [i \in 1 .. k |-> IF i = k THEN Value(f, k) ELSE f[i]]
    OBVIOUS
  <2>4. \A i \in 1 .. k - 1 : f[i] = Value(f, i)
    BY <2>2 DEF Glued
  <2>5. ASSUME NEW i \in 1 .. k
        PROVE  g[i] = Value(g, i)
    <3>1. g[i] = Value(f, i)
      BY <2>1, <2>3, <2>4
    <3>2. ASSUME i # 1
          PROVE  g[i - 1] = f[i - 1]
      <4>1. i - 1 \in 1 .. k /\ i - 1 # k
        BY <2>1, <3>2
      <4>2. QED  BY <2>3, <4>1
    <3>3. QED  BY <3>1, <3>2
  <2>6. g = [i \in 1 .. k |-> Value(g, i)]
    BY <2>3, <2>5
  <2>7. Glued(s, g, k)
    BY <2>6 DEF Glued
  <2>8. QED  BY <2>7
<1>4. QED  BY <1>2, <1>3

LEMMA FlattenUnfold ==
  ASSUME NEW s, Len(s) \in Nat, Len(s) # 0
  PROVE  \E f : Glued(s, f, Len(s)) /\ FlattenSeq(s) = f[Len(s)]
<1>1. \E f : Glued(s, f, Len(s))
  BY GluedExists
<1>2. FlattenSeq(s) = (CHOOSE f : Glued(s, f, Len(s)))[Len(s)]
  BY DEF FlattenSeq, Glued
<1>3. QED  BY <1>1, <1>2

(* Two sequences that begin alike are glued alike.                                  *)
LEMMA GluedSame ==
  ASSUME NEW s, NEW t, NEW f, NEW g, NEW m \in Nat, NEW n \in Nat, m <= n,
         Glued(s, f, m), Glued(t, g, n), \A i \in 1 .. m : s[i] = t[i]
  PROVE  \A i \in 1 .. m : f[i] = g[i]
<1> DEFINE Differ == {i \in 1 .. m : f[i] # g[i]}
<1> SUFFICES ASSUME Differ # {} PROVE FALSE
  OBVIOUS
<1>1. PICK k \in Differ : \A j \in Differ : k <= j
  <2> HIDE DEF Differ
  <2>1. Differ \in SUBSET Nat
    BY DEF Differ
  <2>2. QED  BY <2>1, LeastNumber
<1>2. k \in 1 .. m /\ k \in 1 .. n
  OBVIOUS
<1>3. f[k] = (IF k = 1 THEN s[k] ELSE f[k - 1] \o s[k])
  BY <1>2 DEF Glued
<1>4. g[k] = (IF k = 1 THEN t[k] ELSE g[k - 1] \o t[k])
  BY <1>2 DEF Glued
<1>5. ASSUME k # 1
      PROVE  f[k - 1] = g[k - 1]
  <2>1. k - 1 \in 1 .. m /\ ~(k <= k - 1)
    BY <1>2, <1>5
  <2>2. QED  BY <1>1, <2>1
<1>6. QED  BY <1>2, <1>3, <1>4, <1>5

(* The first n sequences of s, and the sequence they make.                          *)
Pre(s, n) == SubSeq(s, 1, n)
Flat(s, n)  == FlattenSeq(Pre(s, n))

LEMMA PreFacts ==
  ASSUME NEW T, NEW s \in Seq(T), NEW n \in 0 .. Len(s)
  PROVE  /\ Pre(s, n) \in Seq(T) /\ Len(Pre(s, n)) = n
         /\ \A i \in 1 .. n : Pre(s, n)[i] = s[i]
         /\ n = Len(s) => Pre(s, n) = s
<1>1. n \in Int /\ Len(s) \in Nat /\ 0 <= n /\ n <= Len(s)
  OBVIOUS
<1>2. Pre(s, n) = [i \in 1 .. n |-> s[i]]
  BY <1>1 DEF Pre
<1>3. QED  BY <1>1, <1>2

LEMMA FlatNone ==
  ASSUME NEW s
  PROVE  Flat(s, 0) = <<>>
<1>1. Pre(s, 0) = <<>>
  BY DEF Pre
<1>2. QED  BY <1>1 DEF Flat, FlattenSeq

LEMMA FlatStep ==
  ASSUME NEW T, NEW s \in Seq(Seq(T)), NEW n \in 1 .. Len(s)
  PROVE  Flat(s, n) = IF n = 1 THEN s[1] ELSE Flat(s, n - 1) \o s[n]
<1>1. Len(s) \in Nat /\ n \in Nat /\ n <= Len(s) /\ n # 0 /\ n \in 0 .. Len(s)
  OBVIOUS
<1>2. /\ Pre(s, n) \in Seq(Seq(T)) /\ Len(Pre(s, n)) = n
      /\ \A i \in 1 .. n : Pre(s, n)[i] = s[i]
  BY <1>1, PreFacts
<1>3. PICK f : Glued(Pre(s, n), f, n) /\ Flat(s, n) = f[n]
  BY <1>1, <1>2, FlattenUnfold DEF Flat
<1>4. f[n] = IF n = 1 THEN Pre(s, n)[n] ELSE f[n - 1] \o Pre(s, n)[n]
  <2>1. n \in 1 .. n
    BY <1>1
  <2>2. QED  BY <2>1, <1>3 DEF Glued
<1>5. ASSUME n # 1
      PROVE  f[n - 1] = Flat(s, n - 1)
  <2>1. n - 1 \in Nat /\ n - 1 # 0 /\ n - 1 <= n /\ n - 1 \in 0 .. Len(s) /\ n - 1 \in 1 .. n - 1
    BY <1>1, <1>5
  <2>2. /\ Pre(s, n - 1) \in Seq(Seq(T)) /\ Len(Pre(s, n - 1)) = n - 1
        /\ \A i \in 1 .. n - 1 : Pre(s, n - 1)[i] = s[i]
    BY <2>1, PreFacts
  <2>3. PICK g : Glued(Pre(s, n - 1), g, n - 1) /\ Flat(s, n - 1) = g[n - 1]
    BY <2>1, <2>2, FlattenUnfold DEF Flat
  <2>4. ASSUME NEW i \in 1 .. n - 1
        PROVE  Pre(s, n - 1)[i] = Pre(s, n)[i]
    <3>1. i \in 1 .. n
      BY <1>1
    <3>2. QED  BY <1>2, <2>2, <3>1
  <2>5. \A i \in 1 .. n - 1 : g[i] = f[i]
    BY <1>1, <1>3, <2>1, <2>3, <2>4, GluedSame
  <2>6. QED  BY <2>1, <2>3, <2>5
<1>6. Pre(s, n)[n] = s[n]
  BY <1>1, <1>2
<1>7. QED  BY <1>1, <1>3, <1>4, <1>5, <1>6

LEMMA FlatType ==
  ASSUME NEW T, NEW s \in Seq(Seq(T)), NEW n \in 0 .. Len(s)
  PROVE  Flat(s, n) \in Seq(T)
<1> DEFINE Wrong == {k \in 0 .. Len(s) : Flat(s, k) \notin Seq(T)}
<1> SUFFICES ASSUME Wrong # {} PROVE FALSE
  OBVIOUS
<1>1. Len(s) \in Nat
  OBVIOUS
<1>2. PICK k \in Wrong : \A j \in Wrong : k <= j
  <2> HIDE DEF Wrong
  <2>1. Wrong \in SUBSET Nat
    BY <1>1 DEF Wrong
  <2>2. QED  BY <2>1, LeastNumber
<1>3. k # 0
  <2>1. Flat(s, 0) = <<>> /\ <<>> \in Seq(T)
    BY FlatNone
  <2>2. Flat(s, k) \notin Seq(T)
    OBVIOUS
  <2>3. QED  BY <2>1, <2>2
<1>4. k \in 1 .. Len(s) /\ k - 1 \in 0 .. Len(s) /\ ~(k <= k - 1)
  BY <1>1, <1>3
<1>5. Flat(s, k) = IF k = 1 THEN s[1] ELSE Flat(s, k - 1) \o s[k]
  BY <1>4, FlatStep
<1>6. Flat(s, k - 1) \in Seq(T)
  BY <1>2, <1>4
<1>7. s[1] \in Seq(T) /\ s[k] \in Seq(T)
  BY <1>4
<1>8. Flat(s, k) \in Seq(T)
  BY <1>5, <1>6, <1>7
<1>9. QED  BY <1>8

LEMMA FlatNext ==
  ASSUME NEW T, NEW s \in Seq(Seq(T)), NEW n \in 1 .. Len(s)
  PROVE  Flat(s, n) = Flat(s, n - 1) \o s[n]
<1>1. Flat(s, n) = IF n = 1 THEN s[1] ELSE Flat(s, n - 1) \o s[n]
  BY FlatStep
<1>2. CASE n = 1
  <2>1. n - 1 = 0 /\ s[1] \in Seq(T)
    BY <1>2
  <2>2. Flat(s, n - 1) = <<>>
    BY <2>1, FlatNone
  <2>3. QED  BY <1>1, <1>2, <2>1, <2>2
<1>3. QED  BY <1>1, <1>2

LEMMA FlatWhole ==
  ASSUME NEW T, NEW s \in Seq(T)
  PROVE  Flat(s, Len(s)) = FlattenSeq(s)
<1>1. Len(s) \in 0 .. Len(s)
  OBVIOUS
<1>2. Pre(s, Len(s)) = s
  BY <1>1, PreFacts
<1>3. QED  BY <1>2 DEF Flat

(* What the first n sequences make stays in front.                                  *)
Begins(a, b) == Len(a) <= Len(b) /\ \A k \in 1 .. Len(a) : b[k] = a[k]

LEMMA BeginsConcat ==
  ASSUME NEW T, NEW a \in Seq(T), NEW b \in Seq(T), NEW c \in Seq(T), Begins(a, b)
  PROVE  Begins(a, b \o c)
<1>1. Len(b \o c) = Len(b) + Len(c) /\ \A k \in 1 .. Len(b) : (b \o c)[k] = b[k]
  OBVIOUS
<1>2. Len(a) \in Nat /\ Len(b) \in Nat /\ Len(c) \in Nat /\ Len(a) <= Len(b)
  BY DEF Begins
<1>3. Len(a) <= Len(b \o c)
  BY <1>1, <1>2
<1>4. ASSUME NEW k \in 1 .. Len(a)
      PROVE  (b \o c)[k] = a[k]
  <2>1. k \in 1 .. Len(b)
    BY <1>2
  <2>2. QED  BY <1>1, <2>1 DEF Begins
<1>5. QED  BY <1>3, <1>4 DEF Begins

LEMMA FlatBegins ==
  ASSUME NEW T, NEW s \in Seq(Seq(T)), NEW n \in 0 .. Len(s), NEW m \in n .. Len(s)
  PROVE  Begins(Flat(s, n), Flat(s, m))
<1> DEFINE Wrong == {k \in n .. Len(s) : ~Begins(Flat(s, n), Flat(s, k))}
<1> SUFFICES ASSUME Wrong # {} PROVE FALSE
  OBVIOUS
<1>1. Len(s) \in Nat
  OBVIOUS
<1>2. PICK k \in Wrong : \A j \in Wrong : k <= j
  <2> HIDE DEF Wrong
  <2>1. Wrong \in SUBSET Nat
    BY <1>1 DEF Wrong
  <2>2. QED  BY <2>1, LeastNumber
<1>3. Flat(s, n) \in Seq(T)
  BY FlatType
<1>4. Begins(Flat(s, n), Flat(s, n))
  BY <1>3 DEF Begins
<1>5. k \in n .. Len(s) /\ k # n
  BY <1>4
<1>6. k - 1 \in n .. Len(s) /\ k - 1 \in 0 .. Len(s) /\ k \in 1 .. Len(s) /\ ~(k <= k - 1)
  BY <1>1, <1>5
<1>7. Flat(s, k) = Flat(s, k - 1) \o s[k]
  BY <1>6, FlatNext
<1>8. Begins(Flat(s, n), Flat(s, k - 1))
  BY <1>2, <1>6
<1>9. Flat(s, k - 1) \in Seq(T) /\ s[k] \in Seq(T)
  BY <1>6, FlatType
<1>10. Begins(Flat(s, n), Flat(s, k))
  BY <1>3, <1>7, <1>8, <1>9, BeginsConcat
<1>11. QED  BY <1>10

(* Sequence n of s lies in the whole behind the ones before it.                     *)
LEMMA FlatAt ==
  ASSUME NEW T, NEW s \in Seq(Seq(T)), NEW n \in 1 .. Len(s)
  PROVE  /\ FlattenSeq(s) \in Seq(T) /\ Len(Flat(s, n - 1)) \in Nat /\ Len(s[n]) \in Nat
         /\ Len(Flat(s, n)) = Len(Flat(s, n - 1)) + Len(s[n])
         /\ Len(Flat(s, n)) <= Len(FlattenSeq(s))
         /\ \A k \in 1 .. Len(s[n]) : FlattenSeq(s)[Len(Flat(s, n - 1)) + k] = s[n][k]
<1>1. /\ n - 1 \in 0 .. Len(s) /\ n \in 0 .. Len(s) /\ Len(s) \in n .. Len(s)
      /\ Len(s) \in 0 .. Len(s)
  OBVIOUS
<1>2. FlattenSeq(s) = Flat(s, Len(s))
  BY FlatWhole
<1>3. /\ Flat(s, n - 1) \in Seq(T) /\ Flat(s, n) \in Seq(T) /\ s[n] \in Seq(T)
      /\ FlattenSeq(s) \in Seq(T)
  BY <1>1, <1>2, FlatType
<1>4. Begins(Flat(s, n), FlattenSeq(s))
  BY <1>1, <1>2, FlatBegins
<1>5. Flat(s, n) = Flat(s, n - 1) \o s[n]
  BY FlatNext
<1>6. PICK a \in Seq(T) : a = Flat(s, n - 1)
  BY <1>3
<1>7. PICK b \in Seq(T) : b = s[n]
  BY <1>3
<1>8. Len(a \o b) = Len(a) + Len(b) /\ \A k \in 1 .. Len(b) : (a \o b)[Len(a) + k] = b[k]
  OBVIOUS
<1>9. Len(Flat(s, n)) = Len(a) + Len(b)
  BY <1>5, <1>6, <1>7, <1>8
<1>10. ASSUME NEW k \in 1 .. Len(s[n])
       PROVE  FlattenSeq(s)[Len(Flat(s, n - 1)) + k] = s[n][k]
  <2>1. k \in 1 .. Len(b) /\ Len(a) \in Nat /\ Len(b) \in Nat
    BY <1>7
  <2>2. Len(a) + k \in 1 .. Len(a) + Len(b)
    BY <2>1
  <2>3. FlattenSeq(s)[Len(a) + k] = Flat(s, n)[Len(a) + k]
    BY <1>4, <1>9, <2>2 DEF Begins
  <2>4. QED  BY <1>5, <1>6, <1>7, <1>8, <2>1, <2>3
<1>11. FlattenSeq(s) \in Seq(T) /\ Len(Flat(s, n - 1)) \in Nat /\ Len(s[n]) \in Nat
  BY <1>3, <1>6, <1>7
<1>12. Len(Flat(s, n)) = Len(Flat(s, n - 1)) + Len(s[n])
  BY <1>6, <1>7, <1>9
<1>13. Len(Flat(s, n)) <= Len(FlattenSeq(s))
  BY <1>4 DEF Begins
<1>14. QED  BY <1>10, <1>11, <1>12, <1>13

------------------------------------------------------------------------------------
(* What the disassembler makes of an opcode.                                        *)
High(x) == (x % 256) \div 16
Low(x)  == x % 16

LEMMA Halves ==
  ASSUME NEW x \in 0 .. 127
  PROVE  High(x) \in 0 .. 7 /\ Low(x) \in 0 .. 15 /\ x = 16 * High(x) + Low(x)
BY DEF High, Low

LEMMA HalvesNegative ==
  ASSUME NEW x \in -128 .. -17
  PROVE  High(x) \in 8 .. 14
BY DEF High

LEMMA PlainOpcode ==
  ASSUME NEW j \in 1 .. 3, NEW x \in Opcodes[j]
  PROVE  /\ High(x) # 15 /\ Operands(High(x), Low(x)) = j - 1
         /\ ~(High(x) = 5 /\ Low(x) = 4)
<1>1. x \in 0 .. 127
  BY DEF Opcodes
<1>2. PICK h \in 0 .. 7, l \in 0 .. 15 : h = High(x) /\ l = Low(x) /\ x = 16 * h + l
  BY <1>1, Halves
<1>3. CASE j = 1
  <2>1. x \in (1 .. 13) \cup {19, 20} \cup (22 .. 27) \cup (96 .. 102) \cup (112 .. 115)
    BY <1>3 DEF Opcodes
  <2>2. Operands(h, l) = 0 /\ h # 15 /\ ~(h = 5 /\ l = 4)
    BY <1>2, <2>1 DEF Operands
  <2>3. QED  BY <1>2, <1>3, <2>2
<1>4. CASE j = 2
  <2>1. x \in {16, 17, 21, 80, 81, 85, 88, 90, 116} \cup (32 .. 35) \cup (48 .. 51) \cup (64 .. 67)
    BY <1>4 DEF Opcodes
  <2>2. Operands(h, l) = 1 /\ h # 15 /\ ~(h = 5 /\ l = 4)
    BY <1>2, <2>1 DEF Operands
  <2>3. QED  BY <1>2, <1>4, <2>2
<1>5. CASE j = 3
  <2>1. x \in {18, 82, 83, 86, 87, 89}
    BY <1>5 DEF Opcodes
  <2>2. Operands(h, l) = 2 /\ h # 15 /\ ~(h = 5 /\ l = 4)
    BY <1>2, <2>1 DEF Operands
  <2>3. QED  BY <1>2, <1>5, <2>2
<1>6. QED  BY <1>3, <1>4, <1>5

LEMMA ClosureOpcode ==
  High(CLOSURE) = 5 /\ Low(CLOSURE) = 4 /\ Operands(High(CLOSURE), Low(CLOSURE)) = 1
<1>1. High(CLOSURE) = 5 /\ Low(CLOSURE) = 4
  BY DEF High, Low, CLOSURE
<1>2. Operands(5, 4) = 1
  BY DEF Operands
<1>3. QED  BY <1>1, <1>2

LEMMA NoOpcode ==
  ASSUME NEW x \in -128 .. 127, x # CLOSURE, x \notin -16 .. -1,
         \A j \in 1 .. 3 : x \notin Opcodes[j]
  PROVE  /\ High(x) # 15 /\ Operands(High(x), Low(x)) \in {Bad, 0}
         /\ ~(High(x) = 5 /\ Low(x) = 4)
<1>1. CASE x \in -128 .. -17
  <2>1. PICK h \in 8 .. 14 : h = High(x)
    BY <1>1, HalvesNegative
  <2>2. Operands(h, Low(x)) = Bad
    BY DEF Operands
  <2>3. QED  BY <2>1, <2>2
<1>2. CASE x \in 0 .. 127
  <2>1. PICK h \in 0 .. 7, l \in 0 .. 15 : h = High(x) /\ l = Low(x) /\ x = 16 * h + l
    BY <1>2, Halves
  <2>2. /\ x \notin (1 .. 13) \cup {19, 20} \cup (22 .. 27) \cup (96 .. 102) \cup (112 .. 115)
        /\ x \notin {16, 17, 21, 80, 81, 85, 88, 90, 116} \cup (32 .. 35) \cup (48 .. 51) \cup (64 .. 67)
        /\ x \notin {18, 82, 83, 86, 87, 89} /\ x # 84
    BY DEF Opcodes, CLOSURE
  <2>3. h # 15 /\ ~(h = 5 /\ l = 4)
    BY <2>1, <2>2
  <2>4. Operands(h, l) \in {Bad, 0}
    BY <2>1, <2>2 DEF Operands
  <2>5. QED  BY <2>1, <2>3, <2>4
<1>3. QED  BY <1>1, <1>2

LEMMA StopOpcode == High(STOP) = 15
<1>1. PICK x \in Int : x = STOP
  BY DEF STOP
<1>2. x + 1 = 0
  BY <1>1 DEF STOP
<1>3. x \in -1 .. 300
  BY <1>2
<1>4. \A y \in -1 .. 300 : y + 1 = 0 => y % 256 = 255
  OBVIOUS
<1>5. High(x) = 15
  BY <1>2, <1>3, <1>4 DEF High
<1>6. QED  BY <1>1, <1>5

LEMMA MaxZero ==
  ASSUME NEW m \in Nat
  PROVE  Max({m, 0}) = m
<1>1. m \in {m, 0} /\ \A y \in {m, 0} : m >= y
  OBVIOUS
<1>2. \A x \in {m, 0} : (\A y \in {m, 0} : x >= y) => x = m
  OBVIOUS
<1>3. QED  BY <1>1, <1>2 DEF Max

------------------------------------------------------------------------------------
(* The code, and instruction n in it: the bytes before it, and its key.             *)
Bytes     == -128 .. 127
Offset(n) == Len(Flat(program, n))
Key(n)    == <<Offset(n - 1) + 1, Len(program[n])>>

LEMMA ProgramFacts ==
  ASSUME program \in Programs
  PROVE  /\ program \in Seq(Seq(Bytes)) /\ Len(program) \in Nat /\ Len(program) > 0
         /\ program[Len(program)] = <<STOP>>
         /\ \A i \in 1 .. Len(program) - 1 :
              Plain(program[i]) \/ Closure(program[i]) \/ Unknown(program[i])
BY ProgramsAssumption DEF Bytes

LEMMA ProgramAt ==
  ASSUME program \in Programs, NEW n \in 1 .. Len(program)
  PROVE  /\ code \in Seq(Bytes) /\ program[n] \in Seq(Bytes)
         /\ Offset(n - 1) \in Nat /\ Offset(n) = Offset(n - 1) + Len(program[n])
         /\ Offset(n) <= Len(code)
         /\ \A k \in 1 .. Len(program[n]) : code[Offset(n - 1) + k] = program[n][k]
<1>1. program \in Seq(Seq(Bytes))
  BY ProgramFacts
<1>2. program[n] \in Seq(Bytes)
  BY <1>1
<1>3. /\ FlattenSeq(program) \in Seq(Bytes) /\ Len(Flat(program, n - 1)) \in Nat
      /\ Len(Flat(program, n)) = Len(Flat(program, n - 1)) + Len(program[n])
      /\ Len(Flat(program, n)) <= Len(FlattenSeq(program))
      /\ \A k \in 1 .. Len(program[n]) :
           FlattenSeq(program)[Len(Flat(program, n - 1)) + k] = program[n][k]
  BY <1>1, FlatAt
<1>4. QED  BY <1>2, <1>3 DEF Offset, code

(* The first byte of an instruction decides how it is read.                         *)
LEMMA Disassembled ==
  ASSUME NEW i, NEW x, code[i] = x
  PROVE  disassemble_instruction(i) =
           IF High(x) = 15 THEN Null
           ELSE IF Operands(High(x), Low(x)) = Bad THEN Bad
           ELSE IF High(x) = 5 /\ Low(x) = 4 THEN AfterCaptured(i + 9, IntAt(code, i + 5))
           ELSE i + 1 + 4 * Operands(High(x), Low(x))
BY DEF disassemble_instruction, High, Low

(* c lies in the code behind the first o bytes.                                     *)
Lies(c, o) == \A k \in 1 .. Len(c) : code[o + k] = c[k]

LEMMA LiesAt ==
  ASSUME NEW c, NEW o \in Nat, Lies(c, o), NEW i \in Int, NEW k \in 1 .. Len(c), i = o + k
  PROVE  code[i] = c[k]
BY DEF Lies

LEMMA PlainStep ==
  ASSUME NEW c \in Seq(Bytes), NEW o \in Nat, Lies(c, o), Plain(c)
  PROVE  disassemble_instruction(o + 1) = o + 1 + Len(c) /\ Len(c) > 0
<1>1. PICK j \in 1 .. 3 : c[1] \in Opcodes[j] /\ Len(c) = 4 * j - 3
  BY DEF Plain
<1>2. 1 \in 1 .. Len(c) /\ Len(c) > 0
  BY <1>1
<1>3. code[o + 1] = c[1]
  BY <1>2, LiesAt
<1>4. PICK x : x = c[1]
  OBVIOUS
<1>5. /\ High(x) # 15 /\ Operands(High(x), Low(x)) = j - 1
      /\ ~(High(x) = 5 /\ Low(x) = 4)
  BY <1>1, <1>4, PlainOpcode
<1>6. j - 1 # Bad
  BY DEF Bad
<1>7. disassemble_instruction(o + 1) = o + 1 + 1 + 4 * (j - 1)
  BY <1>3, <1>4, <1>5, <1>6, Disassembled
<1>8. o + 1 + 1 + 4 * (j - 1) = o + 1 + Len(c)
  BY <1>1
<1>9. QED  BY <1>2, <1>7, <1>8

LEMMA UnknownStep ==
  ASSUME NEW c \in Seq(Bytes), NEW o \in Nat, Lies(c, o), Unknown(c)
  PROVE  disassemble_instruction(o + 1) \in {Bad, o + 1 + Len(c)} /\ Len(c) > 0
<1>1. /\ Len(c) = 1 /\ 1 \in 1 .. Len(c) /\ c[1] # CLOSURE /\ c[1] \notin -16 .. -1
      /\ \A j \in 1 .. 3 : c[1] \notin Opcodes[j]
  BY DEF Unknown
<1>2. code[o + 1] = c[1] /\ c[1] \in -128 .. 127
  <2>1. code[o + 1] = c[1]
    BY <1>1 DEF Lies
  <2>2. c[1] \in Bytes
    <3>1. 1 \in 1 .. Len(c)
      BY <1>1
    <3>2. QED  BY <3>1
  <2>3. QED  BY <2>1, <2>2 DEF Bytes
<1>3. PICK x \in -128 .. 127 : x = c[1]
  BY <1>2
<1>4. /\ High(x) # 15 /\ Operands(High(x), Low(x)) \in {Bad, 0}
      /\ ~(High(x) = 5 /\ Low(x) = 4)
  BY <1>1, <1>3, NoOpcode
<1>5. disassemble_instruction(o + 1) \in {Bad, o + 1 + 1 + 4 * 0}
  BY <1>2, <1>3, <1>4, Disassembled
<1>6. o + 1 + 1 + 4 * 0 = o + 1 + Len(c)
  BY <1>1
<1>7. QED  BY <1>1, <1>5, <1>6

LEMMA ClosureStep ==
  ASSUME NEW c \in Seq(Bytes), NEW o \in Nat, Lies(c, o), Closure(c)
  PROVE  disassemble_instruction(o + 1) = o + 1 + Len(c) /\ Len(c) > 0
<1>1. PICK m : m = IntAt(c, 6)
  OBVIOUS
<1>2. /\ c[1] = CLOSURE /\ Len(c) >= 9 /\ m \in Nat /\ Len(c) = 9 + 5 * m
      /\ \A k \in 0 .. m - 1 : c[10 + 5 * k] \in 0 .. 3
  BY <1>1 DEF Closure
<1>3. /\ 1 \in 1 .. Len(c) /\ 6 \in 1 .. Len(c) /\ 7 \in 1 .. Len(c) /\ 8 \in 1 .. Len(c)
      /\ 9 \in 1 .. Len(c)
  BY <1>2
<1>4. code[o + 1] = CLOSURE
  BY <1>2, <1>3, LiesAt
<1>5. /\ code[(o + 1) + 5 + 0] = c[6 + 0] /\ code[(o + 1) + 5 + 1] = c[6 + 1]
      /\ code[(o + 1) + 5 + 2] = c[6 + 2] /\ code[(o + 1) + 5 + 3] = c[6 + 3]
  <2>1. /\ (o + 1) + 5 + 0 = o + 6 /\ (o + 1) + 5 + 1 = o + 7 /\ (o + 1) + 5 + 2 = o + 8
        /\ (o + 1) + 5 + 3 = o + 9
    OBVIOUS
  <2>2. /\ code[o + 6] = c[6] /\ code[o + 7] = c[7] /\ code[o + 8] = c[8]
        /\ code[o + 9] = c[9]
    BY <1>3 DEF Lies
  <2>3. QED  BY <2>1, <2>2
<1>6. IntAt(code, (o + 1) + 5) = m
  BY <1>1, <1>5 DEF IntAt
<1>7. ASSUME NEW k \in 0 .. m - 1
      PROVE  code[((o + 1) + 9) + 5 * k] \in 0 .. 3
  <2>1. 10 + 5 * k \in 1 .. Len(c) /\ ((o + 1) + 9) + 5 * k = o + (10 + 5 * k)
    BY <1>2
  <2>2. code[o + (10 + 5 * k)] = c[10 + 5 * k]
    BY <2>1 DEF Lies
  <2>3. QED  BY <1>2, <2>1, <2>2
<1>8. AfterCaptured((o + 1) + 9, m) = ((o + 1) + 9) + 5 * m
  <2>1. AfterCaptured((o + 1) + 9, m) = ((o + 1) + 9) + 5 * Max({m, 0})
    BY <1>7 DEF AfterCaptured
  <2>2. QED  BY <1>2, <2>1, MaxZero
<1>9. 1 # Bad
  BY DEF Bad
<1>10. PICK x : x = CLOSURE
  OBVIOUS
<1>11. High(x) = 5 /\ Low(x) = 4 /\ Operands(High(x), Low(x)) = 1
  BY <1>10, ClosureOpcode
<1>12. disassemble_instruction(o + 1) = AfterCaptured((o + 1) + 9, IntAt(code, (o + 1) + 5))
  BY <1>4, <1>9, <1>10, <1>11, Disassembled
<1>13. ((o + 1) + 9) + 5 * m = o + 1 + Len(c) /\ Len(c) > 0
  BY <1>2
<1>14. QED  BY <1>6, <1>8, <1>12, <1>13

(* The walk comes from one instruction to the next.                                 *)
LEMMA StepAt ==
  ASSUME program \in Programs, NEW n \in 1 .. Len(program) - 1
  PROVE  /\ disassemble_instruction(Offset(n - 1) + 1) \in {Bad, Offset(n) + 1}
         /\ Len(program[n]) > 0
<1>1. n \in 1 .. Len(program) /\ (Plain(program[n]) \/ Closure(program[n]) \/ Unknown(program[n]))
  <2>1. \A i \in 1 .. Len(program) - 1 :
          Plain(program[i]) \/ Closure(program[i]) \/ Unknown(program[i])
    BY ProgramFacts
  <2>2. Len(program) \in Nat
    BY ProgramFacts
  <2>3. QED  BY <2>1, <2>2
<1>2. /\ program[n] \in Seq(Bytes) /\ Offset(n - 1) \in Nat
      /\ Offset(n) = Offset(n - 1) + Len(program[n])
      /\ \A k \in 1 .. Len(program[n]) : code[Offset(n - 1) + k] = program[n][k]
  BY <1>1, ProgramAt
<1>3. PICK c \in Seq(Bytes) : c = program[n]
  BY <1>2
<1>4. PICK o \in Nat : o = Offset(n - 1)
  BY <1>2
<1>5. Lies(c, o)
  BY <1>2, <1>3, <1>4 DEF Lies
<1>6. disassemble_instruction(o + 1) \in {Bad, o + 1 + Len(c)} /\ Len(c) > 0
  <2>1. Plain(c) \/ Closure(c) \/ Unknown(c)
    BY <1>1, <1>3
  <2>2. QED  BY <1>5, <2>1, PlainStep, ClosureStep, UnknownStep
<1>7. o + 1 + Len(c) = Offset(n) + 1
  BY <1>2, <1>3, <1>4
<1>8. QED  BY <1>3, <1>4, <1>6, <1>7

LEMMA LastAt ==
  ASSUME program \in Programs
  PROVE  /\ disassemble_instruction(Offset(Len(program) - 1) + 1) = Null
         /\ Len(program[Len(program)]) = 1
<1>1. Len(program) \in 1 .. Len(program) /\ program[Len(program)] = <<STOP>>
  BY ProgramFacts
<1>2. PICK n \in 1 .. Len(program) : n = Len(program)
  BY <1>1
<1>3. Len(program[n]) = 1 /\ program[n][1] = STOP
  <2>1. Len(<<STOP>>) = 1 /\ <<STOP>>[1] = STOP
    OBVIOUS
  <2>2. QED  BY <1>1, <1>2, <2>1
<1>4. code[Offset(n - 1) + 1] = program[n][1]
  <2>1. \A k \in 1 .. Len(program[n]) : code[Offset(n - 1) + k] = program[n][k]
    BY ProgramAt
  <2>2. 1 \in 1 .. Len(program[n])
    BY <1>3
  <2>3. QED  BY <2>1, <2>2
<1>5. PICK x : x = STOP
  OBVIOUS
<1>6. disassemble_instruction(Offset(n - 1) + 1) = Null
  BY <1>3, <1>4, <1>5, StopOpcode, Disassembled
<1>7. QED  BY <1>2, <1>3, <1>6

LEMMA NotEmpty ==
  ASSUME program \in Programs, NEW n \in 1 .. Len(program)
  PROVE  Len(program[n]) > 0
<1>1. CASE n = Len(program)
  BY <1>1, LastAt
<1>2. CASE n # Len(program)
  <2>1. n \in 1 .. Len(program) - 1
    BY <1>2, ProgramFacts
  <2>2. QED  BY <2>1, StepAt
<1>3. QED  BY <1>1, <1>2

(* The bytes a key points to.                                                       *)
LEMMA KeyFacts ==
  ASSUME program \in Programs, NEW n \in 1 .. Len(program)
  PROVE  /\ Named(Key(n)) = program[n] /\ Key(n)[2] = Len(program[n])
         /\ \A k \in 1 .. Len(program[n]) : Byte(Key(n), k) = program[n][k]
<1>1. /\ code \in Seq(Bytes) /\ program[n] \in Seq(Bytes)
      /\ Offset(n - 1) \in Nat /\ Offset(n) = Offset(n - 1) + Len(program[n])
      /\ Offset(n) <= Len(code)
      /\ \A k \in 1 .. Len(program[n]) : code[Offset(n - 1) + k] = program[n][k]
  BY ProgramAt
<1>2. PICK c \in Seq(Bytes) : c = program[n]
  BY <1>1
<1>3. PICK o \in Nat : o = Offset(n - 1)
  BY <1>1
<1>4. /\ o + Len(c) <= Len(code) /\ \A k \in 1 .. Len(c) : code[o + k] = c[k]
      /\ Len(c) \in Nat /\ Len(code) \in Nat
  BY <1>1, <1>2, <1>3
<1>5. Key(n)[1] = o + 1 /\ Key(n)[2] = Len(c)
  BY <1>2, <1>3 DEF Key
<1>6. Len(c) > 0
  BY <1>2, NotEmpty
<1>7. SubSeq(code, o + 1, o + Len(c)) = c
  <2>1. o + 1 \in 1 .. Len(code) + 1 /\ o + Len(c) \in o .. Len(code)
    BY <1>4, <1>6
  <2>2. PICK s : s = SubSeq(code, o + 1, o + Len(c))
    OBVIOUS
  <2>3. /\ s \in Seq(Bytes) /\ Len(s) = Len(c)
        /\ \A k \in 1 .. Len(c) : s[k] = code[(o + 1) + k - 1]
    <3>1. /\ s \in Seq(Bytes)
          /\ Len(s) = IF o + 1 <= o + Len(c) THEN o + Len(c) - (o + 1) + 1 ELSE 0
          /\ \A k \in 1 .. o + Len(c) - (o + 1) + 1 : s[k] = code[(o + 1) + k - 1]
      BY <1>1, <2>1, <2>2, SubSeqProperties
    <3>2. o + Len(c) - (o + 1) + 1 = Len(c) /\ o + 1 <= o + Len(c)
      BY <1>4, <1>6
    <3>3. QED  BY <3>1, <3>2
  <2>4. \A k \in 1 .. Len(c) : s[k] = c[k]
    <3>1. \A k \in 1 .. Len(c) : (o + 1) + k - 1 = o + k
      OBVIOUS
    <3>2. QED  BY <1>4, <2>3, <3>1
  <2>5. s = c
    BY <2>3, <2>4, SeqEqual
  <2>6. QED  BY <2>2, <2>5
<1>8. Named(Key(n)) = SubSeq(code, o + 1, o + 1 + Len(c) - 1)
  BY <1>5 DEF Named
<1>9. o + 1 + Len(c) - 1 = o + Len(c)
  BY <1>4
<1>10. ASSUME NEW k \in 1 .. Len(program[n])
       PROVE  Byte(Key(n), k) = program[n][k]
  <2>1. Byte(Key(n), k) = code[o + 1 + k - 1]
    BY <1>5 DEF Byte
  <2>2. o + 1 + k - 1 = o + k
    OBVIOUS
  <2>3. QED  BY <1>2, <1>4, <2>1, <2>2
<1>11. QED  BY <1>2, <1>5, <1>7, <1>8, <1>9, <1>10

------------------------------------------------------------------------------------
(* The map's order is the order of the instructions' bytes.                         *)
LEMMA MinFacts ==
  ASSUME NEW S \in SUBSET Nat, S # {}
  PROVE  Min(S) \in S /\ \A k \in S : Min(S) <= k
<1>1. \E m \in S : \A k \in S : m <= k
  BY LeastNumber
<1>2. Min(S) = CHOOSE m \in S : \A k \in S : m <= k
  BY DEF Min
<1>3. QED  BY <1>1, <1>2

LEMMA MinPair ==
  ASSUME NEW a \in Nat, NEW b \in Nat
  PROVE  Min({a, b}) = IF a <= b THEN a ELSE b
<1>1. {a, b} \in SUBSET Nat /\ {a, b} # {}
  OBVIOUS
<1>2. Min({a, b}) \in {a, b} /\ \A k \in {a, b} : Min({a, b}) <= k
  BY <1>1, MinFacts
<1>3. QED  BY <1>2

(* operator< on byte sequences.                                                     *)
Differ(s, t) == {k \in 1 .. Min({Len(s), Len(t)}) : s[k] # t[k]}
Lesser(s, t) ==
  IF Differ(s, t) # {} THEN s[Min(Differ(s, t))] < t[Min(Differ(s, t))] ELSE Len(s) < Len(t)

LEMMA DifferFacts ==
  ASSUME NEW s \in Seq(Bytes), NEW t \in Seq(Bytes)
  PROVE  /\ Differ(s, t) = Differ(t, s)
         /\ \A k \in 1 .. Len(s) : k <= Len(t) => (k \in Differ(s, t) <=> s[k] # t[k])
         /\ Differ(s, t) \in SUBSET Nat
         /\ \A k \in Differ(s, t) : k \in 1 .. Len(s) /\ k \in 1 .. Len(t) /\ s[k] # t[k]
         /\ Differ(s, t) # {} =>
              /\ Min(Differ(s, t)) \in Differ(s, t)
              /\ \A k \in Differ(s, t) : Min(Differ(s, t)) <= k
<1>1. Len(s) \in Nat /\ Len(t) \in Nat /\ {Len(s), Len(t)} = {Len(t), Len(s)}
  OBVIOUS
<1>2. PICK u \in Nat : u = Min({Len(s), Len(t)}) /\ u = IF Len(s) <= Len(t) THEN Len(s) ELSE Len(t)
  BY <1>1, MinPair
<1>3. Differ(s, t) = {k \in 1 .. u : s[k] # t[k]} /\ Differ(t, s) = {k \in 1 .. u : t[k] # s[k]}
  BY <1>1, <1>2 DEF Differ
<1>4. Differ(s, t) \in SUBSET Nat
  BY <1>3
<1>5. \A k \in 1 .. u : k \in 1 .. Len(s) /\ k \in 1 .. Len(t)
  BY <1>1, <1>2
<1>6. \A k \in 1 .. Len(s) : k <= Len(t) => k \in 1 .. u
  BY <1>1, <1>2
<1>7. Differ(s, t) # {} => /\ Min(Differ(s, t)) \in Differ(s, t)
                          /\ \A k \in Differ(s, t) : Min(Differ(s, t)) <= k
  BY <1>4, MinFacts
<1>8. Differ(s, t) = Differ(t, s)
  BY <1>3
<1>9. \A k \in 1 .. Len(s) : k <= Len(t) => (k \in Differ(s, t) <=> s[k] # t[k])
  BY <1>3, <1>6
<1>10. \A k \in Differ(s, t) : k \in 1 .. Len(s) /\ k \in 1 .. Len(t) /\ s[k] # t[k]
  BY <1>3, <1>5
<1>11. QED  BY <1>4, <1>7, <1>8, <1>9, <1>10

LEMMA LesserTotal ==
  ASSUME NEW s \in Seq(Bytes), NEW t \in Seq(Bytes)
  PROVE  (~Lesser(s, t) /\ ~Lesser(t, s)) <=> s = t
<1>1. Differ(s, t) = Differ(t, s)
  BY DifferFacts
<1>2. Len(s) \in Nat /\ Len(t) \in Nat
  OBVIOUS
<1>3. CASE Differ(s, t) # {}
  <2>1. PICK m : m = Min(Differ(s, t)) /\ m \in 1 .. Len(s) /\ m \in 1 .. Len(t) /\ s[m] # t[m]
    BY <1>3, DifferFacts
  <2>2. s[m] \in Bytes /\ t[m] \in Bytes
    BY <2>1
  <2>3. s[m] < t[m] \/ t[m] < s[m]
    <3>1. \A x, y \in Bytes : x # y => x < y \/ y < x
      BY DEF Bytes
    <3>2. QED  BY <2>1, <2>2, <3>1
  <2>4. s # t
    BY <2>1
  <2>5. QED  BY <1>1, <1>3, <2>1, <2>3, <2>4 DEF Lesser
<1>4. CASE Differ(s, t) = {}
  <2>1. (~Lesser(s, t) /\ ~Lesser(t, s)) <=> (~(Len(s) < Len(t)) /\ ~(Len(t) < Len(s)))
    BY <1>1, <1>4 DEF Lesser
  <2>2. (~Lesser(s, t) /\ ~Lesser(t, s)) <=> Len(s) = Len(t)
    BY <1>2, <2>1
  <2>3. ASSUME Len(s) = Len(t)
        PROVE  s = t
    <3>1. \A k \in 1 .. Len(s) : s[k] = t[k]
      BY <1>2, <1>4, <2>3, DifferFacts
    <3>2. QED  BY <2>3, <3>1, SeqEqual
  <2>4. QED  BY <2>2, <2>3
<1>5. QED  BY <1>3, <1>4

LEMMA LesserPrecedes ==
  ASSUME NEW s \in Seq(Bytes), NEW t \in Seq(Bytes), Lesser(s, t)
  PROVE  Precedes(s, t)
<1>1. Len(s) \in Nat /\ Len(t) \in Nat /\ DOMAIN s = 1 .. Len(s) /\ DOMAIN t = 1 .. Len(t)
  OBVIOUS
<1>2. CASE Differ(s, t) # {}
  <2>1. PICK m : /\ m = Min(Differ(s, t)) /\ m \in Nat /\ m \in 1 .. Len(s) /\ m \in 1 .. Len(t)
                 /\ \A k \in Differ(s, t) : m <= k
    BY <1>2, DifferFacts
  <2>2. s[m] < t[m]
    BY <1>2, <2>1 DEF Lesser
  <2>3. ASSUME NEW k \in 1 .. m - 1
        PROVE  k \in DOMAIN s /\ s[k] = t[k]
    <3>1. k \in 1 .. Len(s) /\ k <= Len(t) /\ ~(m <= k)
      BY <1>1, <2>1
    <3>2. k \notin Differ(s, t)
      BY <2>1, <3>1
    <3>3. QED  BY <1>1, <3>1, <3>2, DifferFacts
  <2>4. QED  BY <1>1, <2>1, <2>2, <2>3 DEF Precedes
<1>3. CASE Differ(s, t) = {}
  <2>1. Len(s) < Len(t)
    BY <1>3 DEF Lesser
  <2>2. PICK m \in 1 .. Len(t) : m = Len(s) + 1
    BY <1>1, <2>1
  <2>3. m \notin 1 .. Len(s)
    BY <1>1, <2>2
  <2>4. ASSUME NEW k \in 1 .. m - 1
        PROVE  k \in DOMAIN s /\ s[k] = t[k]
    <3>1. k \in 1 .. Len(s) /\ k <= Len(t)
      BY <1>1, <2>1, <2>2
    <3>2. QED  BY <1>1, <1>3, <3>1, DifferFacts
  <2>5. QED  BY <1>1, <2>2, <2>3, <2>4 DEF Precedes
<1>4. QED  BY <1>2, <1>3

LEMMA LessIs ==
  ASSUME program \in Programs, NEW m \in 1 .. Len(program), NEW n \in 1 .. Len(program)
  PROVE  Less(Key(m), Key(n)) = Lesser(program[m], program[n])
<1>1. PICK s \in Seq(Bytes) : s = program[m]
  BY ProgramAt
<1>2. PICK t \in Seq(Bytes) : t = program[n]
  BY ProgramAt
<1>3. PICK a : a = Key(m) /\ a[2] = Len(s) /\ \A k \in 1 .. Len(s) : Byte(a, k) = s[k]
  BY <1>1, KeyFacts
<1>4. PICK b : b = Key(n) /\ b[2] = Len(t) /\ \A k \in 1 .. Len(t) : Byte(b, k) = t[k]
  BY <1>2, KeyFacts
<1>5. Len(s) \in Nat /\ Len(t) \in Nat
  OBVIOUS
<1>6. PICK u \in Nat : u = Min({Len(s), Len(t)}) /\ u = IF Len(s) <= Len(t) THEN Len(s) ELSE Len(t)
  BY <1>5, MinPair
<1>7. \A k \in 1 .. u : k \in 1 .. Len(s) /\ k \in 1 .. Len(t)
  BY <1>5, <1>6
<1>8. {k \in 1 .. u : Byte(a, k) # Byte(b, k)} = Differ(s, t)
  <2>1. \A k \in 1 .. u : Byte(a, k) = s[k] /\ Byte(b, k) = t[k]
    BY <1>3, <1>4, <1>7
  <2>2. Differ(s, t) = {k \in 1 .. u : s[k] # t[k]}
    BY <1>6 DEF Differ
  <2>3. QED  BY <2>1, <2>2
<1>9. Less(a, b) = IF Differ(s, t) # {} THEN Byte(a, Min(Differ(s, t))) < Byte(b, Min(Differ(s, t)))
                   ELSE Len(s) < Len(t)
  BY <1>3, <1>4, <1>6, <1>8 DEF Less
<1>10. Differ(s, t) # {} => /\ Byte(a, Min(Differ(s, t))) = s[Min(Differ(s, t))]
                           /\ Byte(b, Min(Differ(s, t))) = t[Min(Differ(s, t))]
  BY <1>3, <1>4, DifferFacts
<1>11. Less(a, b) = Lesser(s, t)
  BY <1>9, <1>10 DEF Lesser
<1>12. QED  BY <1>1, <1>2, <1>3, <1>4, <1>11

------------------------------------------------------------------------------------
(* What the map holds after n instructions: their byte sequences, each under one    *)
(* key, with the number of its occurrences.                                         *)
Times(n, c) == Cardinality({i \in 1 .. n : program[i] = c})

Tallied(n, f) ==
  /\ IsFiniteSet(DOMAIN f)
  /\ \A key \in DOMAIN f : \E i \in 1 .. n : key = Key(i)
  /\ {Named(key) : key \in DOMAIN f} = {program[i] : i \in 1 .. n}
  /\ \A key \in DOMAIN f : f[key] = Times(n, Named(key))
  /\ \A k1, k2 \in DOMAIN f : Named(k1) = Named(k2) => k1 = k2

LEMMA TimesType ==
  ASSUME NEW n \in Nat, NEW c
  PROVE  IsFiniteSet({i \in 1 .. n : program[i] = c}) /\ Times(n, c) \in Nat
<1>1. IsFiniteSet(1 .. n)
  BY FS_Interval
<1>2. {i \in 1 .. n : program[i] = c} \in SUBSET (1 .. n)
  OBVIOUS
<1>3. IsFiniteSet({i \in 1 .. n : program[i] = c})
  BY <1>1, <1>2, FS_Subset
<1>4. QED  BY <1>3, FS_CardinalityType DEF Times

LEMMA TimesStep ==
  ASSUME NEW n \in Nat, NEW c
  PROVE  Times(n + 1, c) = IF program[n + 1] = c THEN Times(n, c) + 1 ELSE Times(n, c)
<1> DEFINE Was == {i \in 1 .. n : program[i] = c}
           Is  == {i \in 1 .. n + 1 : program[i] = c}
<1>1. IsFiniteSet(Was) /\ Times(n, c) = Cardinality(Was) /\ Times(n + 1, c) = Cardinality(Is)
  BY TimesType DEF Times
<1>2. 1 .. n + 1 = (1 .. n) \cup {n + 1} /\ n + 1 \notin 1 .. n
  OBVIOUS
<1>3. CASE program[n + 1] = c
  <2>1. Is = Was \cup {n + 1} /\ n + 1 \notin Was
    BY <1>2, <1>3
  <2> HIDE DEF Was, Is
  <2>2. Cardinality(Was \cup {n + 1}) = Cardinality(Was) + 1
    BY <1>1, <2>1, FS_AddElement
  <2>3. QED  BY <1>1, <1>3, <2>1, <2>2
<1>4. CASE program[n + 1] # c
  <2>1. Is = Was
    BY <1>2, <1>4
  <2>2. QED  BY <1>1, <1>4, <2>1
<1>5. QED  BY <1>3, <1>4

(* counter[key]++ for the next instruction.                                         *)
LEMMA CountedTallied ==
  ASSUME program \in Programs, NEW n \in 0 .. Len(program) - 1, Tallied(n, counter)
  PROVE  Tallied(n + 1, Counted(Key(n + 1)))
<1>1. /\ n \in Nat /\ n + 1 \in 1 .. Len(program) /\ n + 1 \in 1 .. n + 1 /\ n + 1 \notin 1 .. n
      /\ \A i \in 1 .. n : i \in 1 .. Len(program) /\ i \in 1 .. n + 1
      /\ \A i \in 1 .. n + 1 : i \in 1 .. n \/ i = n + 1
  BY ProgramFacts
<1>2. PICK c : c = program[n + 1]
  OBVIOUS
<1>3. PICK new : new = Key(n + 1)
  OBVIOUS
<1>4. Named(new) = c
  BY <1>1, <1>2, <1>3, KeyFacts
<1> DEFINE D    == DOMAIN counter
           Same == {other \in D : ~Less(new, other) /\ ~Less(other, new)}
<1>5. Same = {other \in D : Named(other) = c}
  <2> SUFFICES ASSUME NEW other \in D
               PROVE  (~Less(new, other) /\ ~Less(other, new)) <=> Named(other) = c
    OBVIOUS
  <2>1. PICK i \in 1 .. n : other = Key(i)
    BY DEF Tallied
  <2>2. i \in 1 .. Len(program) /\ Named(other) = program[i]
    BY <1>1, <2>1, KeyFacts
  <2>3. PICK s \in Seq(Bytes) : s = program[i]
    BY <2>2, ProgramAt
  <2>4. PICK t \in Seq(Bytes) : t = program[n + 1]
    BY <1>1, ProgramAt
  <2>5. Less(new, other) = Lesser(t, s) /\ Less(other, new) = Lesser(s, t)
    BY <1>1, <1>3, <2>1, <2>2, <2>3, <2>4, LessIs
  <2>6. (~Lesser(t, s) /\ ~Lesser(s, t)) <=> t = s
    BY LesserTotal
  <2>7. QED  BY <1>2, <2>2, <2>3, <2>4, <2>5, <2>6
<1>6. {program[i] : i \in 1 .. n + 1} = {program[i] : i \in 1 .. n} \cup {c}
  BY <1>1, <1>2
<1>7. \A x : Times(n + 1, x) = IF c = x THEN Times(n, x) + 1 ELSE Times(n, x)
  BY <1>1, <1>2, TimesStep
<1> HIDE DEF Same
<1>8. CASE Same = {}
  <2>1. PICK f : f = [k \in D \cup {new} |-> IF k = new THEN 1 ELSE counter[k]]
    OBVIOUS
  <2>2. Counted(Key(n + 1)) = f
    BY <1>3, <1>8, <2>1 DEF Counted, Same
  <2>3. \A key \in D : Named(key) # c
    BY <1>5, <1>8
  <2>4. new \notin D
    BY <1>4, <2>3
  <2>5. IsFiniteSet(DOMAIN f)
    BY <2>1, FS_AddElement DEF Tallied
  <2>6. \A key \in DOMAIN f : \E i \in 1 .. n + 1 : key = Key(i)
    BY <1>1, <1>3, <2>1 DEF Tallied
  <2>7. {Named(key) : key \in DOMAIN f} = {program[i] : i \in 1 .. n + 1}
    <3>1. {Named(key) : key \in DOMAIN f} = {Named(key) : key \in D} \cup {c}
      BY <1>4, <2>1
    <3>2. QED  BY <1>6, <3>1 DEF Tallied
  <2>8. Times(n, c) = 0
    <3>1. \A i \in 1 .. n : program[i] # c
      BY <2>3 DEF Tallied
    <3>2. {i \in 1 .. n : program[i] = c} = {}
      BY <3>1
    <3>3. QED  BY <3>2, FS_EmptySet DEF Times
  <2>9. ASSUME NEW key \in DOMAIN f
        PROVE  f[key] = Times(n + 1, Named(key))
    <3>1. CASE key = new
      BY <1>4, <1>7, <2>1, <2>8, <3>1
    <3>2. CASE key # new
      BY <1>7, <2>1, <2>3, <3>2 DEF Tallied
    <3>3. QED  BY <3>1, <3>2
  <2>10. \A k1, k2 \in DOMAIN f : Named(k1) = Named(k2) => k1 = k2
    BY <1>4, <2>1, <2>3 DEF Tallied
  <2>11. QED  BY <2>2, <2>5, <2>6, <2>7, <2>9, <2>10 DEF Tallied
<1>9. CASE Same # {}
  <2>1. PICK old : old = (CHOOSE k \in Same : TRUE)
    OBVIOUS
  <2>2. old \in D /\ Named(old) = c
    BY <1>5, <1>9, <2>1
  <2>3. PICK f : f = [counter EXCEPT ![old] = @ + 1]
    OBVIOUS
  <2>4. Counted(Key(n + 1)) = f
    BY <1>3, <1>9, <2>1, <2>3 DEF Counted, Same
  <2>5. DOMAIN f = D /\ \A key \in D : f[key] = IF key = old THEN counter[old] + 1 ELSE counter[key]
    BY <2>2, <2>3
  <2>6. {program[i] : i \in 1 .. n + 1} = {program[i] : i \in 1 .. n}
    <3>1. c \in {program[i] : i \in 1 .. n}
      BY <2>2 DEF Tallied
    <3>2. QED  BY <1>6, <3>1
  <2>7. \A key \in DOMAIN f : \E i \in 1 .. n + 1 : key = Key(i)
    BY <1>1, <2>5 DEF Tallied
  <2>8. ASSUME NEW key \in DOMAIN f
        PROVE  f[key] = Times(n + 1, Named(key))
    <3>1. CASE key = old
      BY <1>7, <2>2, <2>5, <3>1 DEF Tallied
    <3>2. CASE key # old
      <4>1. Named(key) # c
        BY <2>2, <2>5, <3>2 DEF Tallied
      <4>2. QED  BY <1>7, <2>5, <3>2, <4>1 DEF Tallied
    <3>3. QED  BY <3>1, <3>2
  <2>9. QED  BY <2>4, <2>5, <2>6, <2>7, <2>8 DEF Tallied
<1>10. QED  BY <1>8, <1>9

LEMMA TalliedNone == Tallied(0, <<>>)
<1>1. DOMAIN <<>> = {} /\ 1 .. 0 = {}
  OBVIOUS
<1>2. QED  BY <1>1, FS_EmptySet DEF Tallied

LEMMA TalliedStays ==
  ASSUME NEW n, program' = program, Tallied(n, counter')
  PROVE  Tallied(n, counter)'
<1>1. ASSUME NEW i PROVE Key(i)' = Key(i)
  BY DEF Key, Offset, Flat, Pre
<1>2. ASSUME NEW key PROVE Named(key)' = Named(key)
  BY DEF Named, code
<1>3. ASSUME NEW c PROVE Times(n, c)' = Times(n, c)
  BY DEF Times
<1>4. /\ IsFiniteSet(DOMAIN counter')
      /\ \A key \in DOMAIN counter' : \E i \in 1 .. n : key = Key(i)'
  BY <1>1 DEF Tallied
<1>5. {Named(key)' : key \in DOMAIN counter'} = {program[i] : i \in 1 .. n}
  <2>1. {Named(key)' : key \in DOMAIN counter'} = {Named(key) : key \in DOMAIN counter'}
    BY <1>2
  <2>2. QED  BY <2>1 DEF Tallied
<1>6. \A key \in DOMAIN counter' : counter'[key] = Times(n, Named(key))'
  <2>1. ASSUME NEW key \in DOMAIN counter'
        PROVE  counter'[key] = Times(n, Named(key))'
    <3>1. counter'[key] = Times(n, Named(key))
      BY DEF Tallied
    <3>2. Times(n, Named(key))' = Cardinality({i \in 1 .. n : program'[i] = Named(key)'})
      BY DEF Times
    <3>3. Times(n, Named(key)) = Cardinality({i \in 1 .. n : program'[i] = Named(key)'})
      BY <1>2 DEF Times
    <3>4. QED  BY <3>1, <3>2, <3>3
  <2>2. QED  BY <2>1
<1>7. \A k1, k2 \in DOMAIN counter' : Named(k1)' = Named(k2)' => k1 = k2
  BY <1>2 DEF Tallied
<1>8. {program'[i] : i \in 1 .. n} = {program[i] : i \in 1 .. n}
  OBVIOUS
<1>9. QED  BY <1>4, <1>5, <1>6, <1>7, <1>8 DEF Tallied

------------------------------------------------------------------------------------
(* The statistics, and the lines that are printed for them.                         *)
Statistics == {<<key, counter[key]>> : key \in DOMAIN counter}
Line(p)    == <<p[2], Named(p[1])>>

InOrder(s) == /\ s \in SetToSeqs(Statistics)
              /\ \A i, j \in DOMAIN s : i < j => ~Before(s[j], s[i])

(* The first m statistics of s are printed, the others are waiting.                 *)
Reported(s, m) ==
  /\ m \in 0 .. Len(s)
  /\ printed \in Seq({Line(p) : p \in Statistics}) /\ Len(printed) = m
  /\ \A i \in 1 .. m : printed[i] = Line(s[i])
  /\ sorted \in Seq(Statistics) /\ Len(sorted) = Len(s) - m
  /\ \A i \in 1 .. Len(s) - m : sorted[i] = s[m + i]

(* The walk is over: the map has every instruction.                                 *)
AllTallied == \E n : n = Len(program) /\ Tallied(n, counter)

(* What holds as the program runs: the walk is at the beginning of an instruction   *)
(* and has counted those before it; the report consists of the statistics in order. *)
AnalyzerInv ==
  /\ program \in Programs
  /\ phase = "walk" =>
       /\ \E n \in 0 .. Len(program) - 1 : ip = Offset(n) + 1 /\ Tallied(n, counter)
       /\ printed = <<>>
  /\ phase = "sort" => AllTallied /\ printed = <<>>
  /\ phase \in {"print", "done"} =>
       /\ AllTallied
       /\ \E s : InOrder(s) /\ \E m : Reported(s, m)
  /\ phase = "done" => sorted = <<>>

LEMMA StatisticsFinite ==
  ASSUME NEW n, Tallied(n, counter)
  PROVE  IsFiniteSet(Statistics) /\ Cardinality(Statistics) \in Nat
<1>1. PICK f : f = [key \in DOMAIN counter |-> <<key, counter[key]>>]
  OBVIOUS
<1>2. f \in Surjection(DOMAIN counter, Statistics)
  <2>1. f \in [DOMAIN counter -> Statistics]
    BY <1>1 DEF Statistics
  <2>2. \A p \in Statistics : \E key \in DOMAIN counter : f[key] = p
    BY <1>1 DEF Statistics
  <2>3. QED  BY <2>1, <2>2, Fun_IsSurj
<1>3. IsFiniteSet(DOMAIN counter)
  BY DEF Tallied
<1>4. IsFiniteSet(Statistics)
  BY <1>2, <1>3, FS_Surjection
<1>5. QED  BY <1>4, FS_CardinalityType

(* A sequence of SetToSeqs has every element once.                                  *)
LEMMA SetToSeqsFacts ==
  ASSUME NEW S, IsFiniteSet(S), NEW s \in SetToSeqs(S)
  PROVE  /\ s \in Seq(S) /\ DOMAIN s = 1 .. Len(s)
         /\ \A i, j \in 1 .. Len(s) : s[i] = s[j] => i = j
         /\ \A x \in S : \E i \in 1 .. Len(s) : s[i] = x
<1>1. PICK k \in Nat : k = Cardinality(S)
  BY FS_CardinalityType
<1>2. s \in [1 .. k -> S] /\ \A i, j \in 1 .. k : i # j => s[i] # s[j]
  BY <1>1 DEF SetToSeqs
<1>3. s \in Seq(S) /\ Len(s) = k
  BY <1>2
<1>4. s \in Injection(1 .. k, S)
  BY <1>2, Fun_IsInj
<1>5. Cardinality(1 .. k) = k
  BY FS_Interval
<1>6. s \in Surjection(1 .. k, S)
  BY <1>1, <1>4, <1>5, FS_Injection
<1>7. \A x \in S : \E i \in 1 .. k : s[i] = x
  BY <1>6, Fun_SurjectionProperties
<1>8. QED  BY <1>2, <1>3, <1>7

LEMMA ReportKept ==
  ASSUME program' = program, counter' = counter
  PROVE  /\ Statistics' = Statistics
         /\ \A p : Line(p)' = Line(p)
         /\ \A s : InOrder(s) => InOrder(s)'
         /\ AllTallied => AllTallied'
<1>1. Statistics' = Statistics
  BY DEF Statistics
<1>2. ASSUME NEW p PROVE Line(p)' = Line(p)
  BY DEF Line, Named, code
<1>3. ASSUME NEW x, NEW y PROVE Before(x, y)' = Before(x, y)
  BY DEF Before, Less, Byte, code
<1>4. ASSUME NEW s, InOrder(s) PROVE InOrder(s)'
  BY <1>1, <1>3, <1>4 DEF InOrder
<1>5. ASSUME AllTallied PROVE AllTallied'
  <2>1. PICK n : n = Len(program) /\ Tallied(n, counter)
    BY <1>5 DEF AllTallied
  <2>2. n = Len(program') /\ Tallied(n, counter)'
    BY <2>1, TalliedStays
  <2>3. QED  BY <2>2 DEF AllTallied
<1>6. QED  BY <1>1, <1>2, <1>4, <1>5

------------------------------------------------------------------------------------
LEMMA AnalyzerInitially == AnalyzerInit => AnalyzerInv
<1> SUFFICES ASSUME AnalyzerInit PROVE AnalyzerInv
  OBVIOUS
<1>1. /\ program \in Programs /\ ip = 1 /\ counter = <<>> /\ printed = <<>> /\ phase = "walk"
  BY DEF AnalyzerInit
<1>2. 0 \in 0 .. Len(program) - 1
  BY <1>1, ProgramFacts
<1>3. Len(<<>>) = 0
  OBVIOUS
<1>4. Offset(0) = 0
  BY <1>3, FlatNone DEF Offset
<1>5. ip = Offset(0) + 1 /\ Tallied(0, counter)
  BY <1>1, <1>4, TalliedNone
<1>6. QED  BY <1>1, <1>2, <1>5 DEF AnalyzerInv

(* The place of the walk: n instructions are behind it.                             *)
LEMMA Place ==
  ASSUME program \in Programs, NEW n \in 0 .. Len(program) - 1
  PROVE  /\ n + 1 \in 1 .. Len(program)
         /\ Offset(n) \in Nat /\ Offset(n + 1) = Offset(n) + Len(program[n + 1])
         /\ Len(program[n + 1]) \in Nat
         /\ Offset(n) + 1 <= Len(code) /\ Key(n + 1) = <<Offset(n) + 1, Len(program[n + 1])>>
         /\ IF n + 1 = Len(program)
            THEN disassemble_instruction(Offset(n) + 1) = Null /\ Len(program[n + 1]) = 1
            ELSE disassemble_instruction(Offset(n) + 1) \in {Bad, Offset(n + 1) + 1}
<1>1. PICK j \in 1 .. Len(program) : j = n + 1 /\ j - 1 = n
  <2>1. Len(program) \in Nat
    BY ProgramFacts
  <2>2. n + 1 \in 1 .. Len(program) /\ n + 1 - 1 = n
    BY <2>1
  <2>3. QED  BY <2>2
<1>2. /\ program[j] \in Seq(Bytes) /\ Offset(n) \in Nat
      /\ Offset(j) = Offset(n) + Len(program[j]) /\ Offset(j) <= Len(code) /\ code \in Seq(Bytes)
  BY <1>1, ProgramAt
<1>3. Len(program[j]) > 0 /\ Len(program[j]) \in Nat /\ Len(code) \in Nat
  BY <1>2, NotEmpty
<1>4. Offset(n) + 1 <= Len(code)
  BY <1>2, <1>3
<1>5. Key(j) = <<Offset(n) + 1, Len(program[j])>>
  BY <1>1 DEF Key
<1>6. CASE j = Len(program)
  <2>1. disassemble_instruction(Offset(n) + 1) = Null /\ Len(program[j]) = 1
    BY <1>1, <1>6, LastAt
  <2>2. QED  BY <1>1, <1>2, <1>3, <1>4, <1>5, <1>6, <2>1
<1>7. CASE j # Len(program)
  <2>1. j \in 1 .. Len(program) - 1
    BY <1>7, ProgramFacts
  <2>2. disassemble_instruction(Offset(n) + 1) \in {Bad, Offset(j) + 1}
    BY <1>1, <2>1, StepAt
  <2>3. QED  BY <1>1, <1>2, <1>3, <1>4, <1>5, <1>7, <2>2
<1>8. QED  BY <1>6, <1>7

LEMMA WalkStep == AnalyzerInv /\ Walk => AnalyzerInv'
<1> SUFFICES ASSUME AnalyzerInv, Walk PROVE AnalyzerInv'
  OBVIOUS
<1>1. /\ phase = "walk" /\ disassemble_instruction(ip) \notin {Null, Bad}
      /\ counter' = Counted(<<ip, disassemble_instruction(ip) - ip>>)
      /\ ip' = disassemble_instruction(ip)
      /\ program' = program /\ sorted' = sorted /\ printed' = printed /\ phase' = phase
  BY DEF Walk
<1>2. program \in Programs /\ printed = <<>>
  BY <1>1 DEF AnalyzerInv
<1>3. PICK n \in 0 .. Len(program) - 1 : ip = Offset(n) + 1 /\ Tallied(n, counter)
  BY <1>1 DEF AnalyzerInv
<1>4. /\ n + 1 # Len(program) /\ n + 1 \in 1 .. Len(program)
      /\ disassemble_instruction(ip) = Offset(n + 1) + 1
  BY <1>1, <1>2, <1>3, Place
<1>5. n + 1 \in 0 .. Len(program) - 1
  BY <1>2, <1>4, ProgramFacts
<1>6. <<ip, disassemble_instruction(ip) - ip>> = Key(n + 1)
  <2>1. /\ Offset(n) \in Nat /\ Offset(n + 1) = Offset(n) + Len(program[n + 1])
        /\ Len(program[n + 1]) \in Nat /\ Key(n + 1) = <<Offset(n) + 1, Len(program[n + 1])>>
    BY <1>2, Place
  <2>2. disassemble_instruction(ip) - ip = Len(program[n + 1])
    <3>1. PICK o \in Nat, l \in Nat : o = Offset(n) /\ l = Len(program[n + 1])
      BY <2>1
    <3>2. disassemble_instruction(ip) = (o + l) + 1 /\ ip = o + 1
      BY <1>3, <1>4, <2>1, <3>1
    <3>3. ((o + l) + 1) - (o + 1) = l
      BY <3>1
    <3>4. QED  BY <3>1, <3>2, <3>3
  <2>3. QED  BY <1>3, <2>1, <2>2
<1>7. Tallied(n + 1, counter')
  BY <1>1, <1>2, <1>3, <1>6, CountedTallied
<1>8. Tallied(n + 1, counter)'
  BY <1>1, <1>7, TalliedStays
<1>9. ip' = Offset(n + 1)' + 1
  BY <1>1, <1>4 DEF Offset, Flat, Pre
<1>10. \E m \in 0 .. Len(program') - 1 : ip' = Offset(m)' + 1 /\ Tallied(m, counter)'
  BY <1>1, <1>5, <1>8, <1>9
<1>11. QED  BY <1>1, <1>2, <1>10 DEF AnalyzerInv

LEMMA StopStep == AnalyzerInv /\ Stop => AnalyzerInv'
<1> SUFFICES ASSUME AnalyzerInv, Stop PROVE AnalyzerInv'
  OBVIOUS
<1>1. /\ phase = "walk" /\ (ip <= Len(code) => disassemble_instruction(ip) = Null)
      /\ counter' = Counted(<<ip, 1>>) /\ phase' = "sort"
      /\ program' = program /\ printed' = printed
  BY DEF Stop
<1>2. program \in Programs /\ printed = <<>>
  BY <1>1 DEF AnalyzerInv
<1>3. PICK n \in 0 .. Len(program) - 1 : ip = Offset(n) + 1 /\ Tallied(n, counter)
  BY <1>1 DEF AnalyzerInv
<1>4. disassemble_instruction(ip) = Null
  BY <1>1, <1>2, <1>3, Place
<1>5. n + 1 = Len(program)
  <2>1. /\ n + 1 # Len(program) => disassemble_instruction(ip) \in {Bad, Offset(n + 1) + 1}
        /\ Offset(n) \in Nat /\ Offset(n + 1) = Offset(n) + Len(program[n + 1])
        /\ Len(program[n + 1]) \in Nat
    BY <1>2, <1>3, Place
  <2>2. Offset(n + 1) + 1 # 0 /\ Bad # 0 /\ Null = 0
    BY <2>1 DEF Bad, Null
  <2>3. QED  BY <1>4, <2>1, <2>2
<1>6. <<ip, 1>> = Key(n + 1)
  BY <1>2, <1>3, <1>5, Place
<1>7. Tallied(n + 1, counter')
  BY <1>1, <1>2, <1>3, <1>6, CountedTallied
<1>8. Tallied(n + 1, counter)'
  BY <1>1, <1>7, TalliedStays
<1>9. AllTallied'
  BY <1>1, <1>5, <1>8 DEF AllTallied
<1>10. QED  BY <1>1, <1>2, <1>9 DEF AnalyzerInv

LEMMA FailStep == AnalyzerInv /\ Fail => AnalyzerInv'
BY DEF AnalyzerInv, Fail

LEMMA SortStep == AnalyzerInv /\ Sort => AnalyzerInv'
<1> SUFFICES ASSUME AnalyzerInv, Sort PROVE AnalyzerInv'
  OBVIOUS
<1>1. /\ phase = "sort" /\ phase' = "print" /\ program' = program /\ counter' = counter
      /\ printed' = printed
      /\ sorted' \in {s \in SetToSeqs(Statistics) :
                         \A i, j \in DOMAIN s : i < j => ~Before(s[j], s[i])}
  BY DEF Sort, Statistics
<1>2. program \in Programs /\ AllTallied /\ printed = <<>>
  BY <1>1 DEF AnalyzerInv
<1>3. PICK s : s = sorted' /\ InOrder(s)
  BY <1>1 DEF InOrder
<1>4. s \in Seq(Statistics)
  BY <1>2, <1>3, StatisticsFinite, SetToSeqsFacts DEF InOrder, AllTallied
<1>5. InOrder(s)' /\ Statistics' = Statistics
  BY <1>1, <1>3, ReportKept
<1>6. /\ Len(s) \in Nat /\ 0 \in 0 .. Len(s) /\ Len(s) - 0 = Len(s)
      /\ \A i \in 1 .. Len(s) - 0 : s[i] = s[0 + i]
  BY <1>4
<1>7. Reported(s, 0)'
  <2>1. printed' \in Seq({Line(p)' : p \in Statistics'}) /\ Len(printed') = 0
    BY <1>1, <1>2
  <2>2. 1 .. 0 = {}
    OBVIOUS
  <2>3. QED  BY <1>3, <1>4, <1>5, <1>6, <2>1, <2>2 DEF Reported
<1>8. AllTallied'
  BY <1>1, <1>2, ReportKept
<1>9. QED  BY <1>1, <1>2, <1>5, <1>7, <1>8 DEF AnalyzerInv

LEMMA ReportStep == AnalyzerInv /\ Report => AnalyzerInv'
<1> SUFFICES ASSUME AnalyzerInv, Report PROVE AnalyzerInv'
  OBVIOUS
<1>1. /\ phase = "print" /\ phase' = phase /\ sorted # <<>> /\ program' = program
      /\ counter' = counter /\ sorted' = Tail(sorted)
      /\ printed' = Append(printed, Line(Head(sorted)))
  BY DEF Report, Line
<1>2. program \in Programs /\ AllTallied
  BY <1>1 DEF AnalyzerInv
<1>3. PICK s, m : InOrder(s) /\ Reported(s, m)
  BY <1>1 DEF AnalyzerInv
<1>4. PICK T : T = Statistics
  OBVIOUS
<1>5. PICK L : L = {Line(p) : p \in T}
  OBVIOUS
<1>6. s \in Seq(T)
  BY <1>2, <1>3, <1>4, StatisticsFinite, SetToSeqsFacts DEF InOrder, AllTallied
<1>7. /\ m \in 0 .. Len(s) /\ printed \in Seq(L) /\ Len(printed) = m
      /\ \A i \in 1 .. m : printed[i] = Line(s[i])
      /\ sorted \in Seq(T) /\ Len(sorted) = Len(s) - m
      /\ \A i \in 1 .. Len(s) - m : sorted[i] = s[m + i]
  BY <1>3, <1>4, <1>5 DEF Reported
<1>8. Len(s) \in Nat /\ Len(sorted) # 0
  BY <1>1, <1>6, <1>7
<1>9. m + 1 \in 0 .. Len(s) /\ 1 \in 1 .. Len(s) - m /\ m \in Nat
  BY <1>7, <1>8
<1>10. Head(sorted) = s[m + 1] /\ Head(sorted) \in T
  BY <1>7, <1>8, <1>9
<1>11. Line(Head(sorted)) \in L
  BY <1>5, <1>10
<1>12. /\ printed' \in Seq(L) /\ Len(printed') = m + 1
       /\ \A i \in 1 .. m + 1 : printed'[i] = IF i = m + 1 THEN Line(Head(sorted)) ELSE printed[i]
  BY <1>1, <1>7, <1>11, AppendProperties
<1>13. ASSUME NEW i \in 1 .. m + 1
       PROVE  printed'[i] = Line(s[i])
  <2>1. CASE i = m + 1
    BY <1>10, <1>12, <2>1
  <2>2. CASE i # m + 1
    <3>1. i \in 1 .. m
      BY <1>9, <2>2
    <3>2. QED  BY <1>7, <1>12, <2>2, <3>1
  <2>3. QED  BY <2>1, <2>2
<1>14. /\ sorted' \in Seq(T) /\ Len(sorted') = Len(s) - (m + 1)
       /\ \A i \in 1 .. Len(s) - (m + 1) : sorted'[i] = sorted[i + 1]
  <2>1. /\ Tail(sorted) \in Seq(T) /\ Len(Tail(sorted)) = Len(sorted) - 1
        /\ \A i \in 1 .. Len(Tail(sorted)) : Tail(sorted)[i] = sorted[i + 1]
    BY <1>1, <1>7, HeadTailProperties
  <2>2. Len(sorted) - 1 = Len(s) - (m + 1)
    BY <1>7, <1>8, <1>9
  <2>3. QED  BY <1>1, <2>1, <2>2
<1>15. ASSUME NEW i \in 1 .. Len(s) - (m + 1)
       PROVE  sorted'[i] = s[(m + 1) + i]
  <2>1. i + 1 \in 1 .. Len(s) - m /\ m + (i + 1) = (m + 1) + i
    BY <1>8, <1>9
  <2>2. QED  BY <1>7, <1>14, <2>1
<1>16. Statistics' = T /\ (\A p : Line(p)' = Line(p)) /\ InOrder(s)'
  BY <1>1, <1>3, <1>4, ReportKept
<1>17. {Line(p)' : p \in Statistics'} = L
  BY <1>5, <1>16
<1>18. Reported(s, m + 1)'
  BY <1>9, <1>12, <1>13, <1>14, <1>15, <1>16, <1>17 DEF Reported
<1>19. AllTallied'
  BY <1>1, <1>2, ReportKept
<1>20. QED  BY <1>1, <1>2, <1>16, <1>18, <1>19 DEF AnalyzerInv

LEMMA FinishStep == AnalyzerInv /\ Finish => AnalyzerInv'
<1> SUFFICES ASSUME AnalyzerInv, Finish PROVE AnalyzerInv'
  OBVIOUS
<1>1. /\ phase = "print" /\ phase' = "done" /\ sorted = <<>> /\ sorted' = sorted
      /\ program' = program /\ counter' = counter /\ printed' = printed
  BY DEF Finish
<1>2. program \in Programs /\ AllTallied
  BY <1>1 DEF AnalyzerInv
<1>3. PICK s, m : InOrder(s) /\ Reported(s, m)
  BY <1>1 DEF AnalyzerInv
<1>4. InOrder(s)' /\ Reported(s, m)'
  BY <1>1, <1>3, ReportKept DEF Reported
<1>5. AllTallied'
  BY <1>1, <1>2, ReportKept
<1>6. QED  BY <1>1, <1>2, <1>4, <1>5 DEF AnalyzerInv

LEMMA AnalyzerStutters == AnalyzerInv /\ UNCHANGED analyzerVars => AnalyzerInv'
<1> SUFFICES ASSUME AnalyzerInv, UNCHANGED analyzerVars PROVE AnalyzerInv'
  OBVIOUS
<1>1. /\ program' = program /\ ip' = ip /\ counter' = counter /\ sorted' = sorted
      /\ printed' = printed /\ phase' = phase
  BY DEF analyzerVars
<1>2. ASSUME NEW n, Tallied(n, counter) PROVE Tallied(n, counter)'
  BY <1>1, <1>2, TalliedStays
<1>3. ASSUME NEW n PROVE Offset(n)' = Offset(n)
  BY <1>1 DEF Offset, Flat, Pre
<1>4. ASSUME NEW s, NEW m, Reported(s, m) PROVE Reported(s, m)'
  BY <1>1, <1>4, ReportKept DEF Reported
<1>5. ASSUME NEW s, InOrder(s) PROVE InOrder(s)'
  BY <1>1, <1>5, ReportKept
<1>6. phase = "walk" => /\ \E n \in 0 .. Len(program') - 1 : ip' = Offset(n)' + 1 /\ Tallied(n, counter)'
                       /\ printed' = <<>>
  BY <1>1, <1>2, <1>3 DEF AnalyzerInv
<1>7. AllTallied => AllTallied'
  BY <1>1, ReportKept
<1>8. phase \in {"print", "done"} => /\ AllTallied'
                                     /\ \E s : InOrder(s)' /\ \E m : Reported(s, m)'
  BY <1>1, <1>4, <1>5, <1>7 DEF AnalyzerInv
<1>9. QED  BY <1>1, <1>6, <1>7, <1>8 DEF AnalyzerInv

LEMMA AnalyzerInvariant == AnalyzerSpec => []AnalyzerInv
<1>1. AnalyzerInv /\ [AnalyzerNext]_analyzerVars => AnalyzerInv'
  BY WalkStep, StopStep, FailStep, SortStep, ReportStep, FinishStep, AnalyzerStutters
  DEF AnalyzerNext
<1>2. QED  BY <1>1, AnalyzerInitially, PTL DEF AnalyzerSpec

------------------------------------------------------------------------------------
(* In every file the walk comes from one instruction the compiler wrote to the next,*)
(* and the map holds what is behind it (main, disassemble_instruction).             *)
THEOREM WalkInStep == AnalyzerSpec => []InStep
<1>1. AnalyzerInv => InStep
  <2> SUFFICES ASSUME AnalyzerInv, phase = "walk"
               PROVE  \E n \in 0 .. Len(program) - 1 :
                        /\ ip = Len(FlattenSeq(SubSeq(program, 1, n))) + 1
                        /\ {Named(key) : key \in DOMAIN counter} = {program[i] : i \in 1 .. n}
                        /\ \A key \in DOMAIN counter :
                             counter[key] = Cardinality({i \in 1 .. n : program[i] = Named(key)})
    BY DEF InStep
  <2>1. PICK n \in 0 .. Len(program) - 1 : ip = Offset(n) + 1 /\ Tallied(n, counter)
    BY DEF AnalyzerInv
  <2>2. ip = Len(FlattenSeq(SubSeq(program, 1, n))) + 1
    BY <2>1 DEF Offset, Flat, Pre
  <2>3. \A key \in DOMAIN counter :
          counter[key] = Cardinality({i \in 1 .. n : program[i] = Named(key)})
    BY <2>1 DEF Tallied, Times
  <2>4. {Named(key) : key \in DOMAIN counter} = {program[i] : i \in 1 .. n}
    BY <2>1 DEF Tallied
  <2>5. QED  BY <2>2, <2>3, <2>4
<1>2. QED  BY <1>1, AnalyzerInvariant, PTL

(* What a finished report consists of.                                              *)
LEMMA Finished ==
  ASSUME AnalyzerInv, phase = "done"
  PROVE  \E n, s :
           /\ program \in Programs /\ n = Len(program) /\ n \in Nat /\ Tallied(n, counter)
           /\ InOrder(s) /\ s \in Seq(Statistics) /\ DOMAIN s = 1 .. Len(s)
           /\ DOMAIN printed = 1 .. Len(s)
           /\ \A i \in 1 .. Len(s) : printed[i] = Line(s[i])
           /\ \A i, j \in 1 .. Len(s) : s[i] = s[j] => i = j
           /\ \A p \in Statistics : \E i \in 1 .. Len(s) : s[i] = p
<1>1. PICK n : n = Len(program) /\ Tallied(n, counter)
  BY DEF AnalyzerInv, AllTallied
<1>2. program \in Programs /\ n \in Nat /\ sorted = <<>>
  BY <1>1, ProgramFacts DEF AnalyzerInv
<1>3. PICK s, m : InOrder(s) /\ Reported(s, m)
  BY DEF AnalyzerInv
<1>4. /\ s \in Seq(Statistics) /\ DOMAIN s = 1 .. Len(s)
      /\ \A i, j \in 1 .. Len(s) : s[i] = s[j] => i = j
      /\ \A p \in Statistics : \E i \in 1 .. Len(s) : s[i] = p
  BY <1>1, <1>3, StatisticsFinite, SetToSeqsFacts DEF InOrder
<1>5. m = Len(s)
  <2>1. Len(sorted) = 0 /\ Len(sorted) = Len(s) - m /\ m \in 0 .. Len(s) /\ Len(s) \in Nat
    BY <1>2, <1>3, <1>4 DEF Reported
  <2>2. QED  BY <2>1
<1>6. DOMAIN printed = 1 .. Len(s) /\ \A i \in 1 .. Len(s) : printed[i] = Line(s[i])
  BY <1>3, <1>5 DEF Reported
<1>7. QED  BY <1>1, <1>2, <1>3, <1>4, <1>6

(* For every file the report has each instruction once, with the number of its      *)
(* occurrences: the map takes two keys for one exactly when their bytes are the same*)
(* (operator<, counter[key]++).                                                     *)
THEOREM ReportIsComplete == AnalyzerSpec => []ReportComplete
<1>1. AnalyzerInv => ReportComplete
  <2> SUFFICES ASSUME AnalyzerInv, phase = "done"
               PROVE  /\ IsInjective([i \in DOMAIN printed |-> printed[i][2]])
                      /\ ToSet(printed) = {<<Occurrences(instr), instr>> : instr \in ToSet(program)}
    BY DEF ReportComplete
  <2>1. PICK n, s :
           /\ program \in Programs /\ n = Len(program) /\ n \in Nat /\ Tallied(n, counter)
           /\ InOrder(s) /\ s \in Seq(Statistics) /\ DOMAIN s = 1 .. Len(s)
           /\ DOMAIN printed = 1 .. Len(s)
           /\ \A i \in 1 .. Len(s) : printed[i] = Line(s[i])
           /\ \A i, j \in 1 .. Len(s) : s[i] = s[j] => i = j
           /\ \A p \in Statistics : \E i \in 1 .. Len(s) : s[i] = p
    BY Finished
  <2>2. ASSUME NEW i \in 1 .. Len(s)
        PROVE  \E key \in DOMAIN counter :
                 s[i] = <<key, counter[key]>> /\ printed[i] = <<counter[key], Named(key)>>
    <3>1. PICK key \in DOMAIN counter : s[i] = <<key, counter[key]>>
      BY <2>1 DEF Statistics
    <3>2. QED  BY <2>1, <3>1 DEF Line
  <2>3. ASSUME NEW i \in 1 .. Len(s), NEW j \in 1 .. Len(s), printed[i][2] = printed[j][2]
        PROVE  i = j
    <3>1. PICK k1 \in DOMAIN counter : s[i] = <<k1, counter[k1]>> /\ printed[i][2] = Named(k1)
      BY <2>2
    <3>2. PICK k2 \in DOMAIN counter : s[j] = <<k2, counter[k2]>> /\ printed[j][2] = Named(k2)
      BY <2>2
    <3>3. \A x, y \in DOMAIN counter : Named(x) = Named(y) => x = y
      BY <2>1 DEF Tallied
    <3>4. k1 = k2
      BY <2>3, <3>1, <3>2, <3>3
    <3>5. QED  BY <2>1, <3>1, <3>2, <3>4
  <2>4. IsInjective([i \in DOMAIN printed |-> printed[i][2]])
    BY <2>1, <2>3 DEF IsInjective
  <2>5. DOMAIN program = 1 .. n
    BY <2>1, ProgramFacts
  <2>6. \A key \in DOMAIN counter : counter[key] = Occurrences(Named(key))
    BY <2>1, <2>5 DEF Tallied, Times, Occurrences
  <2>7. ToSet(program) = {Named(key) : key \in DOMAIN counter}
    BY <2>1, <2>5 DEF Tallied, ToSet
  <2>8. ASSUME NEW i \in 1 .. Len(s)
        PROVE  printed[i] \in {<<Occurrences(instr), instr>> : instr \in ToSet(program)}
    <3>1. PICK key \in DOMAIN counter : printed[i] = <<counter[key], Named(key)>>
      BY <2>2
    <3>2. QED  BY <2>6, <2>7, <3>1
  <2>9. ASSUME NEW instr \in ToSet(program)
        PROVE  \E i \in 1 .. Len(s) : printed[i] = <<Occurrences(instr), instr>>
    <3>1. PICK key \in DOMAIN counter : instr = Named(key)
      BY <2>7
    <3>2. <<key, counter[key]>> \in Statistics
      BY DEF Statistics
    <3>3. PICK i \in 1 .. Len(s) : s[i] = <<key, counter[key]>>
      BY <2>1, <3>2
    <3>4. printed[i] = <<counter[key], Named(key)>>
      BY <2>1, <3>3 DEF Line
    <3>5. QED  BY <2>6, <3>1, <3>4
  <2>10. ToSet(printed) = {<<Occurrences(instr), instr>> : instr \in ToSet(program)}
    <3> DEFINE All == {<<Occurrences(instr), instr>> : instr \in ToSet(program)}
    <3>1. ToSet(printed) = {printed[i] : i \in 1 .. Len(s)}
      BY <2>1 DEF ToSet
    <3>2. \A x \in All : x \in {printed[i] : i \in 1 .. Len(s)}
      BY <2>9
    <3>3. \A i \in 1 .. Len(s) : printed[i] \in All
      BY <2>8
    <3> HIDE DEF All
    <3>4. ToSet(printed) = All
      BY <3>1, <3>2, <3>3
    <3>5. QED  BY <3>4 DEF All
  <2>11. QED  BY <2>4, <2>10
<1>2. QED  BY <1>1, AnalyzerInvariant, PTL

(* For every file the report is ordered, and so determined: by the counts, and where*)
(* they are equal by the bytes (operator< of the statistics, std::sort).            *)
THEOREM ReportIsOrdered == AnalyzerSpec => []ReportOrdered
<1>1. AnalyzerInv => ReportOrdered
  <2> SUFFICES ASSUME AnalyzerInv, phase = "done",
                      NEW i \in DOMAIN printed, NEW j \in DOMAIN printed, i < j
               PROVE  \/ printed[i][1] > printed[j][1]
                      \/ printed[i][1] = printed[j][1] /\ Precedes(printed[i][2], printed[j][2])
    BY DEF ReportOrdered
  <2>1. PICK n, s :
           /\ program \in Programs /\ n = Len(program) /\ n \in Nat /\ Tallied(n, counter)
           /\ InOrder(s) /\ s \in Seq(Statistics) /\ DOMAIN s = 1 .. Len(s)
           /\ DOMAIN printed = 1 .. Len(s)
           /\ \A k \in 1 .. Len(s) : printed[k] = Line(s[k])
           /\ \A k, m \in 1 .. Len(s) : s[k] = s[m] => k = m
    BY Finished
  <2>2. i \in 1 .. Len(s) /\ j \in 1 .. Len(s) /\ i # j
    BY <2>1
  <2>3. PICK a \in DOMAIN counter : s[i] = <<a, counter[a]>> /\ printed[i] = <<counter[a], Named(a)>>
    BY <2>1, <2>2 DEF Statistics, Line
  <2>4. PICK b \in DOMAIN counter : s[j] = <<b, counter[b]>> /\ printed[j] = <<counter[b], Named(b)>>
    BY <2>1, <2>2 DEF Statistics, Line
  <2>5. a # b
    BY <2>1, <2>2, <2>3, <2>4
  <2>6. ~Before(s[j], s[i])
    BY <2>1, <2>2 DEF InOrder
  <2>7. ~(counter[b] > counter[a]) /\ ~(counter[b] = counter[a] /\ Less(b, a))
    BY <2>3, <2>4, <2>6 DEF Before
  <2>8. counter[a] \in Nat /\ counter[b] \in Nat
    <3>1. counter[a] = Times(n, Named(a)) /\ counter[b] = Times(n, Named(b))
      BY <2>1 DEF Tallied
    <3>2. Times(n, Named(a)) \in Nat /\ Times(n, Named(b)) \in Nat
      BY <2>1, TimesType
    <3>3. QED  BY <3>1, <3>2
  <2>9. CASE counter[a] > counter[b]
    BY <2>3, <2>4, <2>9
  <2>10. CASE counter[a] = counter[b]
    <3>1. PICK k \in 1 .. n : a = Key(k)
      BY <2>1 DEF Tallied
    <3>2. PICK m \in 1 .. n : b = Key(m)
      BY <2>1 DEF Tallied
    <3>3. k \in 1 .. Len(program) /\ m \in 1 .. Len(program)
      BY <2>1
    <3>4. PICK x \in Seq(Bytes) : x = program[k] /\ x = Named(a)
      BY <2>1, <3>1, <3>3, ProgramAt, KeyFacts
    <3>5. PICK y \in Seq(Bytes) : y = program[m] /\ y = Named(b)
      BY <2>1, <3>2, <3>3, ProgramAt, KeyFacts
    <3>6. x # y
      BY <2>1, <2>5, <3>4, <3>5 DEF Tallied
    <3>7. Less(b, a) = Lesser(y, x)
      BY <2>1, <3>1, <3>2, <3>3, <3>4, <3>5, LessIs
    <3>8. ~Lesser(y, x)
      BY <2>7, <2>10, <3>7
    <3>9. Lesser(x, y)
      BY <3>6, <3>8, LesserTotal
    <3>10. Precedes(x, y)
      BY <3>9, LesserPrecedes
    <3>11. QED  BY <2>3, <2>4, <2>10, <3>4, <3>5, <3>10
  <2>11. QED  BY <2>7, <2>8, <2>9, <2>10
<1>2. QED  BY <1>1, AnalyzerInvariant, PTL

------------------------------------------------------------------------------------
(* The header of a file, in the block.                                              *)
HeaderRead ==
  /\ block[First] = file.strings /\ block[First + 4] = file.globals
  /\ block[First + 8] = Len(file.publics)

PointersInv ==
  /\ file \in Files
  /\ state = "read" => HeaderRead
  /\ PointersRight

LEMMA Retyped ==
  ASSUME NEW S, NEW T, NEW s \in Seq(S), \A i \in 1 .. Len(s) : s[i] \in T
  PROVE  s \in Seq(T) /\ Len(s) \in Nat
OBVIOUS

LEMMA HeaderFacts ==
  ASSUME NEW f \in Files
  PROVE  /\ Len(Header(f)) \in Nat /\ Len(Header(f)) >= 3
         /\ Header(f)[1] = f.strings /\ Header(f)[2] = f.globals /\ Header(f)[3] = Len(f.publics)
<1>1. f.strings \in Nat /\ f.globals \in Nat /\ f.publics \in Seq(Nat \X Nat)
  BY FilesAssumption
<1>2. f.publics \in Seq(Seq(Nat)) /\ Len(f.publics) \in Nat
  <2>1. \A a, b \in Nat : <<a, b>> \in Seq(Nat)
    OBVIOUS
  <2>2. \A p \in Nat \X Nat : p \in Seq(Nat)
    <3>1. \A p \in Nat \X Nat : \E a, b \in Nat : p = <<a, b>>
      OBVIOUS
    <3>2. QED  BY <2>1, <3>1
  <2>3. \A i \in 1 .. Len(f.publics) : f.publics[i] \in Seq(Nat)
    BY <1>1, <2>2
  <2>4. QED  BY <1>1, <2>3, Retyped
<1>3. FlattenSeq(f.publics) \in Seq(Nat)
  <2>1. Len(f.publics) \in 0 .. Len(f.publics)
    BY <1>2
  <2>2. QED  BY <1>2, <2>1, FlatType, FlatWhole
<1>4. PICK h \in Seq(Nat) : h = <<f.strings, f.globals, Len(f.publics)>>
  <2>1. \A a, b, c \in Nat : <<a, b, c>> \in Seq(Nat)
    OBVIOUS
  <2>2. <<f.strings, f.globals, Len(f.publics)>> \in Seq(Nat)
    BY <1>1, <1>2, <2>1
  <2>3. QED  BY <2>2
<1>5. PICK g \in Seq(Nat) : g = FlattenSeq(f.publics)
  BY <1>3
<1>6. Len(h) = 3 /\ h[1] = f.strings /\ h[2] = f.globals /\ h[3] = Len(f.publics)
  BY <1>4
<1>7. Len(h \o g) = Len(h) + Len(g) /\ \A k \in 1 .. Len(h) : (h \o g)[k] = h[k]
  OBVIOUS
<1>8. Header(f) = h \o g
  BY <1>4, <1>5 DEF Header
<1>9. Len(g) \in Nat /\ 1 \in 1 .. 3 /\ 2 \in 1 .. 3 /\ 3 \in 1 .. 3
  BY <1>5
<1>10. QED  BY <1>6, <1>7, <1>8, <1>9

(* Where the interpreter's struct has its fields.                                   *)
LEMMA FieldsAt ==
  ASSUME Fields = InterpreterFields
  PROVE  /\ Field("stringtab_size") = block[First]
         /\ Field("global_area_size") = block[First + 4]
         /\ Field("public_symbols_number") = block[First + 8]
         /\ Buffer = First + 12 /\ "bytecode_size" \notin ToSet(Fields)
<1>1. /\ Len(Fields) = 3 /\ Fields[1] = "stringtab_size" /\ Fields[2] = "global_area_size"
      /\ Fields[3] = "public_symbols_number" /\ DOMAIN Fields = 1 .. 3
  BY DEF InterpreterFields
<1>2. /\ {i \in 1 .. Len(Fields) : Fields[i] = "stringtab_size"} = {1}
      /\ {i \in 1 .. Len(Fields) : Fields[i] = "global_area_size"} = {2}
      /\ {i \in 1 .. Len(Fields) : Fields[i] = "public_symbols_number"} = {3}
  BY <1>1
<1>3. \A k : Min({k}) = k
  BY DEF Min
<1>4. /\ SelectInSeq(Fields, LAMBDA g : g = "stringtab_size") = 1
      /\ SelectInSeq(Fields, LAMBDA g : g = "global_area_size") = 2
      /\ SelectInSeq(Fields, LAMBDA g : g = "public_symbols_number") = 3
  BY <1>2, <1>3 DEF SelectInSeq
<1>5. First + 4 * (1 - 1) = First /\ First + 4 * (2 - 1) = First + 4 /\ First + 4 * (3 - 1) = First + 8
  BY DEF First
<1>6. Buffer = First + 12
  BY <1>1 DEF Buffer, First
<1>7. "bytecode_size" \notin ToSet(Fields)
  BY <1>1 DEF ToSet
<1>8. QED  BY <1>4, <1>5, <1>6, <1>7 DEF Field

LEMMA ReadStep == PointersInv /\ fread => PointersInv'
<1> SUFFICES ASSUME PointersInv, fread PROVE PointersInv'
  OBVIOUS
<1>1. state' = "read" /\ file' = file /\ file \in Files
  BY DEF fread, PointersInv
<1>2. PICK words, text :
        /\ words = {First + 4 * i : i \in 0 .. Len(Header(file)) + 1}
        /\ block' = [a \in words |->
                       IF (a - First) \div 4 + 1 <= Len(Header(file))
                       THEN Header(file)[(a - First) \div 4 + 1] ELSE text]
  BY DEF fread
<1>3. /\ Len(Header(file)) \in Nat /\ Len(Header(file)) >= 3
      /\ Header(file)[1] = file.strings /\ Header(file)[2] = file.globals
      /\ Header(file)[3] = Len(file.publics)
  BY <1>1, HeaderFacts
<1>4. /\ First \in words /\ First + 4 \in words /\ First + 8 \in words
  <2>1. /\ 0 \in 0 .. Len(Header(file)) + 1 /\ 1 \in 0 .. Len(Header(file)) + 1
        /\ 2 \in 0 .. Len(Header(file)) + 1
    BY <1>3
  <2>2. First = First + 4 * 0 /\ First + 4 = First + 4 * 1 /\ First + 8 = First + 4 * 2
    BY DEF First
  <2>3. QED  BY <1>2, <2>1, <2>2
<1>5. (First - First) \div 4 + 1 = 1
  BY DEF First
<1>6. /\ block'[First] = Header(file)[1] /\ block'[First + 4] = Header(file)[2]
      /\ block'[First + 8] = Header(file)[3]
  <2>1. \A a \in words : (a - First) \div 4 + 1 <= Len(Header(file)) =>
                         block'[a] = Header(file)[(a - First) \div 4 + 1]
    BY <1>2
  <2>2. 1 <= Len(Header(file)) /\ 2 <= Len(Header(file)) /\ 3 <= Len(Header(file))
    BY <1>3
  <2>3. block'[First] = Header(file)[1]
    BY <1>4, <1>5, <2>1, <2>2
  <2>4. block'[First + 4] = Header(file)[2]
    <3>1. PICK a \in words : a = First + 4
      BY <1>4
    <3>2. (a - First) \div 4 + 1 = 2
      BY <3>1 DEF First
    <3>3. block'[a] = Header(file)[2]
      BY <2>1, <2>2, <3>2
    <3>4. QED  BY <3>1, <3>3
  <2>5. block'[First + 8] = Header(file)[3]
    <3>1. PICK a \in words : a = First + 8
      BY <1>4
    <3>2. (a - First) \div 4 + 1 = 3
      BY <3>1 DEF First
    <3>3. block'[a] = Header(file)[3]
      BY <2>1, <2>2, <3>2
    <3>4. QED  BY <3>1, <3>3
  <2>6. QED  BY <2>3, <2>4, <2>5
<1>7. HeaderRead'
  BY <1>1, <1>3, <1>6 DEF HeaderRead
<1>8. QED  BY <1>1, <1>7 DEF PointersInv, PointersRight

LEMMA UnpackStep == Fields = InterpreterFields /\ PointersInv /\ unpack => PointersInv'
<1> SUFFICES ASSUME Fields = InterpreterFields, PointersInv, unpack PROVE PointersInv'
  OBVIOUS
<1>1. file \in Files /\ file' = file /\ state' = "loaded" /\ HeaderRead
  BY DEF unpack, PointersInv
<1>2. ptr' = [string_ptr |-> Buffer + Publics, public_ptr |-> Buffer,
              code_ptr |-> Buffer + Publics + Field("stringtab_size"),
              globals |-> Field("global_area_size")]
  BY DEF unpack
<1>3. /\ Field("stringtab_size") = file.strings /\ Field("global_area_size") = file.globals
      /\ Field("public_symbols_number") = Len(file.publics) /\ Buffer = First + 12
  BY <1>1, FieldsAt DEF HeaderRead
<1>4. file.strings \in Nat /\ Len(file.publics) \in Nat /\ First \in Nat
  <2>1. file.strings \in Nat /\ file.publics \in Seq(Nat \X Nat)
    BY <1>1, FilesAssumption
  <2>2. QED  BY <2>1 DEF First
<1>5. Publics = 8 * Len(file.publics)
  BY <1>3, <1>4 DEF Publics
<1>6. /\ Buffer = PublicsAt /\ Buffer + Publics = StringsAt
      /\ Buffer + Publics + Field("stringtab_size") = CodeAt
  BY <1>3, <1>5 DEF PublicsAt, StringsAt, CodeAt
<1>7. /\ ptr'.public_ptr = PublicsAt /\ ptr'.string_ptr = StringsAt /\ ptr'.code_ptr = CodeAt
      /\ ptr'.globals = file.globals
  BY <1>2, <1>3, <1>6
<1>8. PointersRight'
  BY <1>1, <1>7 DEF PointersRight, PublicsAt, StringsAt, CodeAt
<1>9. QED  BY <1>1, <1>8 DEF PointersInv

(* With the interpreter's struct the pointers lead to the parts of every file, with *)
(* any number of public symbols and any sizes (read_file).                          *)
THEOREM PointersLead ==
  ASSUME Fields = InterpreterFields
  PROVE  Spec => []PointersRight
<1>1. Init => PointersInv
  BY DEF Init, PointersInv, PointersRight
<1>2. PointersInv /\ failure => PointersInv'
  BY DEF PointersInv, failure, PointersRight, HeaderRead
<1>3. PointersInv /\ UNCHANGED vars => PointersInv'
  BY DEF PointersInv, vars, PointersRight, HeaderRead, PublicsAt, StringsAt, CodeAt
<1>4. PointersInv /\ [Next]_vars => PointersInv'
  BY <1>2, <1>3, ReadStep, UnpackStep DEF Next
<1>5. PointersInv => PointersRight
  BY DEF PointersInv
<1>6. QED  BY <1>1, <1>4, <1>5, PTL DEF Spec
====================================================================================
