------------------------------- MODULE LibraryProofs -------------------------------
(***********************************************************************************)
(* Four parts of runtime.c.  The pattern tests answer for the whole value, for any *)
(* sets of integers, string contents and constructors and objects of any length.   *)
(* The buffer that text is printed into loses none of it, for texts of any length. *)
(* The constructors that have a hash are those that a hash has room for.  Values   *)
(* of any kind and nesting compare as equal exactly if they are, compare in order  *)
(* while their numbers are small, and hash alike if they compare as equal.         *)
(***********************************************************************************)
EXTENDS Patterns, StringBuffer, ConstructorTags, ValueComparison,
        SequenceTheorems, FiniteSetTheorems, TLAPS

-----------------------------------------------------------------------------------
(* The pattern tests.                                                              *)

(* A value is what its kind says: the header decides which fields there are.       *)
LEMMA ShapeOfKind ==
  ASSUME NEW v \in Values
  PROVE  /\ v.kind = "val"    => v \in [kind : {"val"}, of : Ints]
         /\ v.kind = "string" => v \in [kind : {"string"}, of : Contents]
         /\ v.kind = "array"  => v \in [kind : {"array"}, len : Sizes]
         /\ v.kind = "sexp"   => v \in [kind : {"sexp"}, tag : Tags, len : Sizes]
         /\ v.kind = "fun"    => v \in [kind : {"fun"}]
         /\ v.kind = "null"   => v = Null
         /\ v.kind \in {"val", "string", "array", "sexp", "fun", "null"}
         /\ v.kind \in {"string", "array", "sexp", "fun"} => v \in Boxed
  BY DEF Values, Boxed, Null

(* The value a unary test looks at is one that the test stands for exactly if the  *)
(* test says yes.                                                                  *)
LEMMA TagRight ==
  ASSUME NEW d \in Values, NEW t \in Tags, NEW n \in Sizes
  PROVE  Btag(d, t, n) <=> d = [kind |-> "sexp", tag |-> t, len |-> n]
<1>1. ASSUME Btag(d, t, n)
      PROVE  d = [kind |-> "sexp", tag |-> t, len |-> n]
  <2>1. d \in [kind : {"sexp"}, tag : Tags, len : Sizes] /\ d.tag = t /\ d.len = n
    BY <1>1, ShapeOfKind DEF Btag
  <2>2. QED BY <2>1
<1>2. QED BY <1>1 DEF Btag

LEMMA ArrayRight ==
  ASSUME NEW d \in Values, NEW n \in Sizes
  PROVE  Barray_patt(d, n) <=> d = [kind |-> "array", len |-> n]
<1>1. ASSUME Barray_patt(d, n)
      PROVE  d = [kind |-> "array", len |-> n]
  <2>1. d \in [kind : {"array"}, len : Sizes] /\ d.len = n
    BY <1>1, ShapeOfKind DEF Barray_patt
  <2>2. QED BY <2>1
<1>2. QED BY <1>1 DEF Barray_patt

(* Strings with the same contents are the same value.                              *)
LEMMA StringsEqual ==
  ASSUME NEW x \in Values, NEW y \in Values, x.kind = "string", y.kind = "string"
  PROVE  x.of = y.of <=> y = x
<1>1. x \in [kind : {"string"}, of : Contents] /\ y \in [kind : {"string"}, of : Contents]
  BY ShapeOfKind
<1>2. QED BY <1>1

-----------------------------------------------------------------------------------
(* The operands are values, and the last answer was right.                         *)
IInv == ops \in Seq(Values) /\ KindsTested /\ StringsOnly

(* What Reply leaves: one operand more than what is below the n that it took.      *)
LEMMA ReplyKeeps ==
  ASSUME IInv, NEW n \in {1, 2}, n <= Len(ops), NEW test, NEW yes \in BOOLEAN,
         Reply(n, test, yes),
         test[1] \in {"TAG", "ARRAY", "#string", "#array", "#val", "#fun"} =>
           (yes <=> Last(ops) \in Matching(test, Last(ops))),
         test[1] = "=str" /\ Last(ops).kind = "string" =>
           /\ ops[Len(ops) - 1].kind = "string"
           /\ yes <=> ops[Len(ops) - 1] = Last(ops)
  PROVE  IInv'
<1> DEFINE r == IF yes THEN 1 ELSE 0
<1>1. r \in Ints /\ [kind |-> "val", of |-> r] \in Values
  BY AnswersAssumption DEF Values
<1>2. ops \in Seq(Values) /\ Len(ops) \in Nat
  BY DEF IInv
<1>3. SubSeq(ops, 1, Len(ops) - n) \in Seq(Values)
  <2>1. \A i \in 1 .. Len(ops) - n : ops[i] \in Values
    BY <1>2
  <2>2. QED BY <1>2, <2>1, SubSeqProperties
<1>4. ops' \in Seq(Values)
  BY <1>1, <1>3, AppendProperties DEF Reply
<1>5. tested' = [test |-> test, found |-> ops, answer |-> r]
  BY DEF Reply
<1>6. tested'.test = test /\ tested'.found = ops /\ (tested'.answer = 1 <=> yes)
  BY <1>5
<1>7. KindsTested'
  <2>1. CASE test[1] \in {"TAG", "ARRAY", "#string", "#array", "#val", "#fun"}
    <3>1. test[1] # "=str"
      BY <2>1
    <3>2. Correct(tested')
      BY <1>6, <2>1, <3>1 DEF Correct
    <3>3. QED BY <3>2 DEF KindsTested
  <2>2. CASE test[1] \notin {"TAG", "ARRAY", "#string", "#array", "#val", "#fun"}
    BY <1>6, <2>2 DEF KindsTested, Tested
  <2>3. QED BY <2>1, <2>2
<1>8. StringsOnly'
  <2>1. CASE test[1] = "=str" /\ Last(ops).kind = "string"
    <3>1. ops[Len(ops) - 1].kind = "string" /\ (yes <=> ops[Len(ops) - 1] = Last(ops))
      BY <2>1
    <3>2. Matching(test, Last(ops)) = {Last(ops)}
      BY <2>1 DEF Matching
    <3>3. Correct(tested')
      BY <1>6, <2>1, <3>1, <3>2 DEF Correct
    <3>4. QED BY <1>6, <3>1, <3>3 DEF StringsOnly
  <2>2. CASE ~(test[1] = "=str" /\ Last(ops).kind = "string")
    BY <1>6, <2>2 DEF StringsOnly, Tested
  <2>3. QED BY <2>1, <2>2
<1>9. QED BY <1>4, <1>7, <1>8 DEF IInv

LEMMA EndKeeps == ASSUME IInv, NEW how, End(how) PROVE IInv'
  BY DEF IInv, End, KindsTested, StringsOnly, Tested, Correct

LEMMA TopValue ==
  ASSUME IInv, ops # <<>>
  PROVE  Len(ops) \in Nat \ {0} /\ Last(ops) \in Values /\ Last(ops) = ops[Len(ops)]
<1>1. ops \in Seq(Values) /\ Len(ops) \in Nat \ {0}
  BY EmptySeq DEF IInv
<1>2. QED BY <1>1 DEF Last

LEMMA PushKeeps == ASSUME IInv, NEW v \in Values, Push(v) PROVE IInv'
<1>1. ops' \in Seq(Values)
  BY AppendProperties DEF IInv, Push
<1>2. QED BY <1>1 DEF IInv, Push, KindsTested, StringsOnly, Tested, Correct

LEMMA TagKeeps ==
  ASSUME IInv, NEW t \in Tags, NEW n \in Sizes, Tag(t, n)
  PROVE  IInv'
<1>1. ops # <<>> /\ Len(ops) \in Nat \ {0} /\ Last(ops) \in Values
  BY TopValue DEF Tag, Unary
<1>2. CASE End("trapped")
  BY <1>2, EndKeeps
<1>3. CASE Reply(1, <<"TAG", t, n>>, Btag(Last(ops), t, n))
  <2>1. Matching(<<"TAG", t, n>>, Last(ops)) = {[kind |-> "sexp", tag |-> t, len |-> n]}
    BY DEF Matching
  <2>2. Btag(Last(ops), t, n) \in BOOLEAN
    BY DEF Btag
  <2>3. QED BY <1>1, <1>3, <2>1, <2>2, TagRight, ReplyKeeps
<1>4. QED BY <1>2, <1>3 DEF Tag, Unary

LEMMA ArrayKeeps ==
  ASSUME IInv, NEW n \in Sizes, Array(n)
  PROVE  IInv'
<1>1. ops # <<>> /\ Len(ops) \in Nat \ {0} /\ Last(ops) \in Values
  BY TopValue DEF Array, Unary
<1>2. CASE End("trapped")
  BY <1>2, EndKeeps
<1>3. CASE Reply(1, <<"ARRAY", n>>, Barray_patt(Last(ops), n))
  <2>1. Matching(<<"ARRAY", n>>, Last(ops)) = {[kind |-> "array", len |-> n]}
    BY DEF Matching
  <2>2. Barray_patt(Last(ops), n) \in BOOLEAN
    BY DEF Barray_patt
  <2>3. QED BY <1>1, <1>3, <2>1, <2>2, ArrayRight, ReplyKeeps
<1>4. QED BY <1>2, <1>3 DEF Array, Unary

LEMMA PattKeeps ==
  ASSUME IInv, NEW k \in 1 .. 6, Patt(k)
  PROVE  IInv'
<1> DEFINE d == Last(ops)
<1>1. ops # <<>> /\ Len(ops) \in Nat \ {0} /\ d \in Values
  BY TopValue DEF Patt, Unary
<1>2. CASE End("trapped")
  BY <1>2, EndKeeps
<1>3. CASE Reply(1, <<pats[k + 1]>>, TagTest(k, d))
  <2> HIDE DEF d
  <2>1. ASSUME NEW name, pats[k + 1] = name, TagTest(k, d) \in BOOLEAN, name # "=str",
               name \in {"#string", "#array", "#val", "#fun"} =>
                 (TagTest(k, d) <=> d \in Matching(<<name>>, d)),
               name \notin {"TAG", "ARRAY"}
        PROVE  IInv'
    BY <1>1, <1>3, <2>1, ReplyKeeps DEF d
  <2>2. CASE k = 1
    <3>1. TagTest(1, d) <=> d.kind = "string"
      BY DEF TagTest
    <3>2. Matching(<<"#string">>, d) = {v \in Boxed : v.kind = "string"}
      BY DEF Matching
    <3>3. QED BY <1>1, <2>1, <2>2, <3>1, <3>2, ShapeOfKind DEF TagTest, pats
  <2>3. CASE k = 2
    <3>1. TagTest(2, d) <=> d.kind = "array"
      BY DEF TagTest
    <3>2. Matching(<<"#array">>, d) = {v \in Boxed : v.kind = "array"}
      BY DEF Matching
    <3>3. QED BY <1>1, <2>1, <2>3, <3>1, <3>2, ShapeOfKind DEF TagTest, pats
  <2>4. CASE k = 3 \/ k = 4
    <3>1. pats[k + 1] \in {"#sexp", "#ref"}
      BY <2>4 DEF pats
    <3>2. (TagTest(3, d) <=> ~UNBOXED(d)) /\ (TagTest(4, d) <=> d.kind = "sexp")
      BY DEF TagTest
    <3>3. TagTest(k, d) \in BOOLEAN
      BY <2>4, <3>2 DEF UNBOXED, TagTest
    <3>4. QED BY <2>1, <3>1, <3>3
  <2>5. CASE k = 5
    <3>1. TagTest(5, d) <=> UNBOXED(d)
      BY DEF TagTest
    <3>2. Matching(<<"#val">>, d) = {v \in Values : UNBOXED(v)}
      BY DEF Matching
    <3>3. QED BY <1>1, <2>1, <2>5, <3>1, <3>2 DEF TagTest, pats, UNBOXED
  <2>6. CASE k = 6
    <3>1. TagTest(6, d) <=> d.kind = "fun"
      BY DEF TagTest
    <3>2. Matching(<<"#fun">>, d) = {v \in Boxed : v.kind = "fun"}
      BY DEF Matching
    <3>3. QED BY <1>1, <2>1, <2>6, <3>1, <3>2, ShapeOfKind DEF TagTest, pats
  <2>7. QED BY <2>2, <2>3, <2>4, <2>5, <2>6
<1>4. QED BY <1>2, <1>3 DEF Patt, Unary

LEMMA StringPattKeeps == ASSUME IInv, StringPatt PROVE IInv'
<1> DEFINE x == ops[Len(ops)]
           y == ops[Len(ops) - 1]
<1>1. Len(ops) >= 2 /\ Len(ops) \in Nat /\ x \in Values /\ y \in Values /\ Last(ops) = x
  BY DEF IInv, StringPatt, Last
<1>2. CASE End("trapped") \/ End("failed")
  BY <1>2, EndKeeps
<1>3. CASE /\ y.kind \in {"val", "string"} /\ ~(x.kind = "string" /\ UNBOXED(y))
           /\ Reply(2, <<pats[1]>>, x.kind = "string" /\ x.of = y.of)
  <2> DEFINE yes == x.kind = "string" /\ x.of = y.of
  <2>1. pats[1] = "=str"
    BY DEF pats
  <2>2. x.kind = "string" => y.kind = "string"
    BY <1>3 DEF UNBOXED
  <2>3. x.kind = "string" => (yes <=> y = x)
    BY <1>1, <2>2, StringsEqual
  <2>4. yes \in BOOLEAN /\ Reply(2, <<pats[1]>>, yes)
    BY <1>3
  <2>5. <<pats[1]>>[1] = "=str"
    BY <2>1
  <2> HIDE DEF yes
  <2>6. QED BY <1>1, <2>2, <2>3, <2>4, <2>5, ReplyKeeps
<1>4. QED BY <1>2, <1>3 DEF StringPatt

LEMMA InitHolds == Init => IInv
  BY EmptySeq DEF Init, IInv, KindsTested, StringsOnly, Tested

LEMMA NextKeeps == IInv /\ [Next]_vars => IInv'
<1> SUFFICES ASSUME IInv, [Next]_vars PROVE IInv'
  OBVIOUS
<1>1. CASE \E v \in Values : Push(v)
  BY <1>1, PushKeeps
<1>2. CASE \E t \in Tags, n \in Sizes : Tag(t, n)
  BY <1>2, TagKeeps
<1>3. CASE \E n \in Sizes : Array(n)
  BY <1>3, ArrayKeeps
<1>4. CASE \E k \in 1 .. 6 : Patt(k)
  BY <1>4, PattKeeps
<1>5. CASE StringPatt
  BY <1>5, StringPattKeeps
<1>6. CASE UNCHANGED vars
  BY <1>6 DEF vars, IInv, KindsTested, StringsOnly, Tested, Correct
<1>7. QED BY <1>1, <1>2, <1>3, <1>4, <1>5, <1>6 DEF Next

(* Btag, Barray_patt and the tests of the kinds tell a value apart from every other*)
(* kind, constructor and length, whatever values the program makes.                *)
THEOREM KindsAreTested == Spec => []KindsTested
<1>1. IInv => KindsTested
  BY DEF IInv
<1>2. QED BY InitHolds, NextKeeps, <1>1, PTL DEF Spec

(* A match of a string literal that returns at all compared two strings, and right.*)
THEOREM StringsOnlyAnswered == Spec => []StringsOnly
<1>1. IInv => StringsOnly
  BY DEF IInv
<1>2. QED BY InitHolds, NextKeeps, <1>1, PTL DEF Spec
-----------------------------------------------------------------------------------
(* The string buffer.  FlattenSeq is what its definition says.                     *)
Flat(s, f, m) == f = [i \in 1 .. m |-> IF i = 1 THEN s[i] ELSE f[i - 1] \o s[i]]

LEMMA LeastNumber ==
  ASSUME NEW S \in SUBSET Nat, S # {}
  PROVE  \E m \in S : \A k \in S : m <= k
<1> DEFINE Below == {0 .. k : k \in S}
<1>1. IsWellFoundedOn(StrictSubsetOrdering(Nat), FiniteSubsetsOf(Nat))
  BY FS_StrictSubsetOrderingWellFounded
<1>2. Below \subseteq FiniteSubsetsOf(Nat) /\ Below # {}
  <2>1. \A k \in Nat : 0 .. k \in SUBSET Nat /\ IsFiniteSet(0 .. k)
    BY FS_Interval
  <2>2. QED BY <2>1 DEF FiniteSubsetsOf
<1>3. \E x \in Below : \A y \in Below : <<y, x>> \notin StrictSubsetOrdering(Nat)
  <2> HIDE DEF Below
  <2> QED BY <1>1, <1>2, WFMin, Zenon
<1>4. PICK m \in S : \A k \in S : <<0 .. k, 0 .. m>> \notin StrictSubsetOrdering(Nat)
  BY <1>3
<1>5. ASSUME NEW k \in S, k < m PROVE FALSE
  <2>1. 0 .. k \subseteq 0 .. m /\ 0 .. k # 0 .. m
    <3>1. m \in 0 .. m /\ m \notin 0 .. k
      BY <1>5
    <3>2. QED BY <1>5, <3>1
  <2>2. 0 .. k \in SUBSET Nat /\ 0 .. m \in SUBSET Nat
    OBVIOUS
  <2>3. QED BY <1>4, <2>1, <2>2 DEF StrictSubsetOrdering
<1>6. QED BY <1>5

LEMMA FlatExists ==
  ASSUME NEW s, NEW m \in Nat
  PROVE  \E f : Flat(s, f, m)
<1> DEFINE Bad == {k \in Nat : ~\E f : Flat(s, f, k)}
<1> SUFFICES ASSUME Bad # {} PROVE FALSE
  OBVIOUS
<1>1. PICK k \in Bad : \A j \in Bad : k <= j
  <2> HIDE DEF Bad
  <2>1. Bad \in SUBSET Nat
    BY DEF Bad
  <2>2. QED BY <2>1, LeastNumber
<1>2. k # 0
  <2>1. Flat(s, [i \in 1 .. 0 |-> s], 0)
    BY DEF Flat
  <2>2. QED BY <2>1
<1>3. k \in Nat /\ k - 1 \in Nat /\ ~(k <= k - 1)
  BY <1>2
<1>4. PICK f : Flat(s, f, k - 1)
  BY <1>1, <1>3
<1> DEFINE Value(g, i) == IF i = 1 THEN s[i] ELSE g[i - 1] \o s[i]
<1>5. PICK g : g = [i \in 1 .. k |-> IF i = k THEN Value(f, k) ELSE f[i]]
  OBVIOUS
<1>6. ASSUME NEW i \in 1 .. k
      PROVE  g[i] = Value(g, i)
  <2>1. g[i] = Value(f, i)
    <3>1. CASE i = k
      BY <1>5, <3>1
    <3>2. CASE i # k
      <4>1. i \in 1 .. k - 1
        BY <1>3, <3>2
      <4>2. g[i] = f[i]
        BY <1>5, <3>2
      <4> HIDE DEF Value
      <4>3. f = [j \in 1 .. k - 1 |-> Value(f, j)]
        BY <1>4 DEF Flat, Value
      <4>4. f[i] = Value(f, i)
        BY <4>1, <4>3
      <4>5. QED BY <4>2, <4>4
    <3>3. QED BY <3>1, <3>2
  <2>2. i # 1 => g[i - 1] = f[i - 1]
    <3>1. i # 1 => i - 1 \in 1 .. k /\ i - 1 # k
      BY <1>3
    <3>2. QED BY <1>5, <3>1
  <2>3. QED BY <2>1, <2>2
<1>7. g = [i \in 1 .. k |-> Value(g, i)]
  BY <1>5, <1>6
<1>8. Flat(s, g, k)
  BY <1>7 DEF Flat
<1>9. QED BY <1>8

(* The first k texts, one behind the other.                                        *)
Flattened(s) == CHOOSE f : Flat(s, f, Len(s))
First(s, k)  == IF k = 0 THEN <<>> ELSE Flattened(s)[k]

LEMMA FirstStep ==
  ASSUME NEW s \in Seq(Seq(Printable)), NEW k \in 0 .. Len(s) - 1
  PROVE  First(s, k + 1) = First(s, k) \o s[k + 1]
<1>1. Flat(s, Flattened(s), Len(s))
  <2>1. Len(s) \in Nat
    OBVIOUS
  <2>2. \E f : Flat(s, f, Len(s))
    BY <2>1, FlatExists
  <2>3. QED BY <2>2 DEF Flattened
<1>2. k + 1 \in 1 .. Len(s) /\ k + 1 # 0 /\ k + 1 - 1 = k /\ (k + 1 = 1 <=> k = 0)
  OBVIOUS
<1>3. Flattened(s)[k + 1] =
        IF k + 1 = 1 THEN s[k + 1] ELSE Flattened(s)[k + 1 - 1] \o s[k + 1]
  <2> DEFINE Value(g, i) == IF i = 1 THEN s[i] ELSE g[i - 1] \o s[i]
  <2>1. Flattened(s) = [i \in 1 .. Len(s) |-> Value(Flattened(s), i)]
    BY <1>1 DEF Flat
  <2>2. Flattened(s)[k + 1] = Value(Flattened(s), k + 1)
    <3> HIDE DEF Value
    <3> QED BY <1>2, <2>1
  <2>3. QED BY <2>2
<1>4. <<>> \o s[k + 1] = s[k + 1]
  BY <1>2, ConcatEmptySeq
<1>5. QED BY <1>2, <1>3, <1>4 DEF First

LEMMA FirstAll ==
  ASSUME NEW s \in Seq(Seq(Printable))
  PROVE  First(s, Len(s)) = FlattenSeq(s)
<1>1. CASE Len(s) = 0
  <2>1. s = <<>>
    BY <1>1, EmptySeq
  <2>2. QED BY <1>1, <2>1 DEF First, FlattenSeq
<1>2. CASE Len(s) # 0
  BY <1>2 DEF First, Flattened, Flat, FlattenSeq
<1>3. QED BY <1>1, <1>2

-----------------------------------------------------------------------------------
(* A buffer that begins with a text, and the next text to be put behind it.        *)
Holds(buf, text) ==
  /\ buf = [contents |-> buf.contents, ptr |-> Len(text), len |-> buf.len]
  /\ buf.len \in Nat /\ Len(text) < buf.len
  /\ buf.contents = [i \in 0 .. buf.len - 1 |-> buf.contents[i]]
  /\ \A i \in 1 .. Len(text) : buf.contents[i - 1] = text[i]

LEMMA BufferOf ==
  ASSUME NEW buf, NEW text, NEW c, NEW l \in Nat, Len(text) < l,
         buf = [contents |-> c, ptr |-> Len(text), len |-> l],
         c = [i \in 0 .. l - 1 |-> c[i]], \A i \in 1 .. Len(text) : c[i - 1] = text[i]
  PROVE  Holds(buf, text)
<1>1. buf.contents = c /\ buf.len = l
  OBVIOUS
<1>2. QED BY <1>1 DEF Holds

LEMMA BufferChanged ==
  ASSUME NEW buf, NEW text, Holds(buf, text), NEW d, NEW q, NEW m
  PROVE  /\ [buf EXCEPT !.contents = d] = [contents |-> d, ptr |-> Len(text), len |-> buf.len]
         /\ [buf EXCEPT !.ptr = q] = [contents |-> buf.contents, ptr |-> q, len |-> buf.len]
         /\ [buf EXCEPT !.len = m, !.contents = d]
              = [contents |-> d, ptr |-> Len(text), len |-> m]
<1>0. PICK c, p, l : c = buf.contents /\ p = Len(text) /\ l = buf.len
  OBVIOUS
<1> buf = [contents |-> c, ptr |-> p, len |-> l]
  BY <1>0 DEF Holds
<1>1. [buf EXCEPT !.contents = d] = [contents |-> d, ptr |-> p, len |-> l]
  OBVIOUS
<1>2. [buf EXCEPT !.ptr = q] = [contents |-> c, ptr |-> q, len |-> l]
  OBVIOUS
<1>3. [buf EXCEPT !.len = m] = [contents |-> c, ptr |-> p, len |-> m]
  OBVIOUS
<1>4. [[buf EXCEPT !.len = m] EXCEPT !.contents = d] = [contents |-> d, ptr |-> p, len |-> m]
  <2>1. PICK b : b = [buf EXCEPT !.len = m]
    OBVIOUS
  <2>2. b = [contents |-> c, ptr |-> p, len |-> m]
    BY <1>3, <2>1
  <2>3. [b EXCEPT !.contents = d] = [contents |-> d, ptr |-> p, len |-> m]
    BY <2>2
  <2>4. QED BY <2>1, <2>3, Zenon
<1>5. QED BY <1>0, <1>1, <1>2, <1>4

LEMMA LeastOfTwo ==
  ASSUME NEW a \in Nat, NEW b \in Nat
  PROVE  Min({a, b}) = IF a <= b THEN a ELSE b
<1>1. PICK m \in {a, b} : m <= a /\ m <= b
  OBVIOUS
<1>2. \A x \in {a, b} : (\A y \in {a, b} : x <= y) <=> x = m
  BY <1>1
<1>3. Min({a, b}) = m
  BY <1>1, <1>2 DEF Min
<1>4. QED BY <1>1, <1>3

(* vsnprintf leaves what the buffer holds; a text that fits is behind it, and ends *)
(* with a 0.                                                                       *)
LEMMA PrintedBehind ==
  ASSUME NEW buf, NEW text \in Seq(Printable), Holds(buf, text), NEW t \in Seq(Printable)
  PROVE  /\ Holds(vsnprintf(buf, t), text) /\ vsnprintf(buf, t).len = buf.len
         /\ Fits(buf, t) =>
              /\ \A i \in 1 .. Len(t) : vsnprintf(buf, t).contents[Len(text) + i - 1] = t[i]
              /\ vsnprintf(buf, t).contents[Len(text) + Len(t)] = Nul
<1> DEFINE p == Len(text)
           n == CutAt(buf, t)
           c == [i \in 0 .. buf.len - 1 |->
                   IF i \in p .. p + n - 1 THEN t[i - p + 1]
                   ELSE IF i = p + n THEN Nul ELSE buf.contents[i]]
<1>1. p \in Nat /\ Len(t) \in Nat /\ buf.len \in Nat /\ p < buf.len /\ buf.ptr = p
  BY DEF Holds
<1>2. n = IF buf.len - p - 1 <= Len(t) THEN buf.len - p - 1 ELSE Len(t)
  <2>1. buf.len - p - 1 \in Nat
    BY <1>1
  <2>2. QED BY <1>1, <2>1, LeastOfTwo DEF CutAt
<1>3. n \in Nat /\ p + n < buf.len /\ (Fits(buf, t) => n = Len(t))
  <2> HIDE DEF n
  <2> QED BY <1>1, <1>2 DEF Fits
<1>4. vsnprintf(buf, t) = [contents |-> c, ptr |-> p, len |-> buf.len]
  <2>1. DOMAIN buf.contents = 0 .. buf.len - 1
    BY DEF Holds
  <2> HIDE DEF n, p
  <2>2. vsnprintf(buf, t) = [buf EXCEPT !.contents = c]
    BY <1>1, <2>1 DEF vsnprintf, n
  <2>3. buf = [contents |-> buf.contents, ptr |-> p, len |-> buf.len]
    BY DEF Holds, p
  <2> HIDE DEF c
  <2>4. QED BY <2>2, <2>3
<1>5. ASSUME NEW i \in 1 .. p PROVE c[i - 1] = text[i]
  <2>1. i - 1 \in 0 .. buf.len - 1 /\ i - 1 \notin p .. p + n - 1 /\ i - 1 # p + n
    <3> HIDE DEF n, p
    <3> QED BY <1>1, <1>3
  <2>2. buf.contents[i - 1] = text[i]
    BY DEF Holds
  <2> HIDE DEF n, p
  <2>3. QED BY <2>1, <2>2
<1>6. ASSUME NEW i \in 1 .. Len(t), n = Len(t) PROVE c[p + i - 1] = t[i]
  <2> HIDE DEF n, p
  <2>1. p + i - 1 \in 0 .. buf.len - 1 /\ p + i - 1 \in p .. p + n - 1 /\ p + i - 1 - p + 1 = i
    BY <1>1, <1>3, <1>6
  <2>2. ASSUME NEW j \in 0 .. buf.len - 1, j \in p .. p + n - 1
        PROVE  c[j] = t[j - p + 1]
    BY <2>2
  <2> HIDE DEF c
  <2>3. c[p + i - 1] = t[p + i - 1 - p + 1]
    <3>1. PICK j \in Nat : j = p + i - 1
      BY <1>1
    <3>2. j \in 0 .. buf.len - 1 /\ j \in p .. p + n - 1
      BY <2>1, <3>1
    <3>3. c[j] = t[j - p + 1]
      BY <2>2, <3>2
    <3>4. c[p + i - 1] = c[j] /\ t[p + i - 1 - p + 1] = t[j - p + 1]
      BY <1>1, <3>1
    <3>5. QED BY <3>3, <3>4
  <2>4. QED BY <2>1, <2>3
<1>7. c[p + n] = Nul
  <2> HIDE DEF n, p
  <2>1. p + n \in 0 .. buf.len - 1 /\ p + n \notin p .. p + n - 1
    BY <1>1, <1>3
  <2>2. QED BY <2>1
<1>8. c = [i \in 0 .. buf.len - 1 |-> c[i]]
  <2> HIDE DEF n, p
  <2> QED OBVIOUS
<1>9. QED
  <2> HIDE DEF c, n, p
  <2>1. Holds(vsnprintf(buf, t), text)
    <3>1. p = Len(text)
      BY DEF p
    <3>2. vsnprintf(buf, t) = [contents |-> c, ptr |-> Len(text), len |-> buf.len]
      BY <1>4, <3>1
    <3>3. \A i \in 1 .. Len(text) : c[i - 1] = text[i]
      BY <1>5, <3>1
    <3>4. buf.len \in Nat /\ Len(text) < buf.len
      BY <1>1, <3>1
    <3>5. QED BY <1>8, <3>2, <3>3, <3>4, BufferOf
  <2>2. vsnprintf(buf, t).len = buf.len /\ vsnprintf(buf, t).contents = c
    BY <1>4
  <2>3. QED BY <1>3, <1>6, <1>7, <2>1, <2>2 DEF p

LEMMA ExtendedHolds ==
  ASSUME NEW buf, NEW text \in Seq(Printable), Holds(buf, text)
  PROVE  Holds(extendStringBuf(buf), text)
<1> DEFINE c == [i \in 0 .. 2 * buf.len - 1 |-> IF i < buf.len THEN buf.contents[i] ELSE Junk]
<1>1. Len(text) \in Nat /\ buf.len \in Nat /\ Len(text) < buf.len
  BY DEF Holds
<1>2. extendStringBuf(buf) = [contents |-> c, ptr |-> Len(text), len |-> 2 * buf.len]
  <2>1. extendStringBuf(buf) = [buf EXCEPT !.len = 2 * @, !.contents = c]
    BY DEF extendStringBuf
  <2> HIDE DEF c
  <2>2. QED BY <2>1, BufferChanged, Zenon
<1>3. ASSUME NEW i \in 1 .. Len(text) PROVE c[i - 1] = text[i]
  <2>1. i - 1 \in 0 .. 2 * buf.len - 1 /\ i - 1 < buf.len
    BY <1>1
  <2>2. buf.contents[i - 1] = text[i]
    BY DEF Holds
  <2>3. QED BY <2>1, <2>2
<1>4. c = [i \in 0 .. 2 * buf.len - 1 |-> c[i]]
  OBVIOUS
<1>5. QED
  <2> HIDE DEF c
  <2>1. 2 * buf.len \in Nat /\ Len(text) < 2 * buf.len
    BY <1>1
  <2>2. QED BY <1>2, <1>3, <1>4, <2>1, BufferOf

(* What Bstring copies is the text, if a 0 follows.                                *)
LEMMA TextCopied ==
  ASSUME NEW buf, NEW text \in Seq(Printable), Holds(buf, text), buf.contents[Len(text)] = Nul
  PROVE  TextOf(buf) = text
<1> DEFINE ends == {i \in 0 .. buf.len - 1 : buf.contents[i] = Nul}
<1>1. Len(text) \in Nat /\ buf.len \in Nat /\ Len(text) < buf.len
  BY DEF Holds
<1>2. ASSUME NEW i \in 0 .. Len(text) - 1
      PROVE  buf.contents[i] = text[i + 1] /\ buf.contents[i] # Nul
  <2>1. i + 1 \in 1 .. Len(text) /\ i + 1 - 1 = i
    BY <1>1
  <2>2. buf.contents[i] = text[i + 1]
    <3>1. \A j \in 1 .. Len(text) : buf.contents[j - 1] = text[j]
      BY DEF Holds
    <3>2. buf.contents[i + 1 - 1] = text[i + 1]
      BY <2>1, <3>1
    <3>3. QED BY <2>1, <3>2
  <2>3. QED BY <2>1, <2>2, PrintableAssumption, ElementOfSeq
<1>3. Len(text) \in ends /\ \A i \in ends : i \in Nat /\ Len(text) <= i
  BY <1>1, <1>2
<1>4. Min(ends) = Len(text)
  <2> HIDE DEF ends
  <2>1. \A x \in ends : (\A y \in ends : x <= y) <=> x = Len(text)
    BY <1>1, <1>3
  <2>2. QED BY <1>3, <2>1 DEF Min
<1>5. TextOf(buf) = [i \in 1 .. Len(text) |-> buf.contents[i - 1]]
  BY <1>4 DEF TextOf
<1>6. \A i \in 1 .. Len(text) : buf.contents[i - 1] = text[i]
  BY DEF Holds
<1>7. text = [i \in 1 .. Len(text) |-> text[i]]
  OBVIOUS
<1>8. QED BY <1>5, <1>6, <1>7

(* The buffer when a text that fits has been printed.                              *)
WithText(buf, t) == [vsnprintf(buf, t) EXCEPT !.ptr = @ + Len(t)]

LEMMA PrintedHolds ==
  ASSUME NEW buf, NEW text \in Seq(Printable), Holds(buf, text), NEW t \in Seq(Printable),
         Fits(buf, t)
  PROVE  /\ Holds(WithText(buf, t), text \o t)
         /\ WithText(buf, t).contents[Len(text \o t)] = Nul
         /\ WithText(buf, t).len = buf.len
<1> DEFINE after == WithText(buf, t)
<1> HIDE DEF after
<1>1. PICK v : v = vsnprintf(buf, t)
  OBVIOUS
<1>2. PICK c, l : c = v.contents /\ l = v.len
  OBVIOUS
<1>3. Holds(v, text) /\ v.len = buf.len
  BY <1>1, PrintedBehind
<1>4. c[Len(text) + Len(t)] = Nul /\ \A i \in 1 .. Len(t) : c[Len(text) + i - 1] = t[i]
  BY <1>1, <1>2, PrintedBehind
<1>5. /\ Len(text) \in Nat /\ Len(t) \in Nat /\ l \in Nat /\ l = buf.len /\ v.ptr = Len(text)
      /\ c = [i \in 0 .. l - 1 |-> c[i]] /\ \A i \in 1 .. Len(text) : c[i - 1] = text[i]
  <2>1. v.ptr = Len(text) /\ v.len = l /\ v.contents = c /\ l \in Nat
    BY <1>2, <1>3 DEF Holds
  <2>2. v.contents = [i \in 0 .. v.len - 1 |-> v.contents[i]]
    BY <1>3 DEF Holds
  <2>3. \A i \in 1 .. Len(text) : v.contents[i - 1] = text[i]
    BY <1>3 DEF Holds
  <2>4. c = [i \in 0 .. l - 1 |-> c[i]] /\ \A i \in 1 .. Len(text) : c[i - 1] = text[i]
    BY <2>1, <2>2, <2>3, Zenon
  <2>5. l = buf.len
    BY <1>3, <2>1
  <2>6. Len(text) \in Nat /\ Len(t) \in Nat
    OBVIOUS
  <2>7. QED BY <2>1, <2>4, <2>5, <2>6, Zenon
<1>6. Len(text) + Len(t) < l
  <2>1. buf.ptr = Len(text) /\ buf.len = l
    BY <1>5 DEF Holds
  <2>2. Len(t) < l - Len(text)
    BY <2>1 DEF Fits
  <2>3. QED BY <1>5, <2>2
<1>7. after = [contents |-> c, ptr |-> Len(text) + Len(t), len |-> l]
  <2>1. after = [v EXCEPT !.ptr = Len(text) + Len(t)]
    BY <1>1, <1>5 DEF WithText, after
  <2>2. QED BY <1>2, <1>3, <2>1, BufferChanged, Zenon
<1>8. /\ Len(text \o t) = Len(text) + Len(t)
      /\ \A i \in 1 .. Len(text) + Len(t) :
           (text \o t)[i] = IF i <= Len(text) THEN text[i] ELSE t[i - Len(text)]
  BY ConcatProperties
<1>9. ASSUME NEW i \in 1 .. Len(text \o t) PROVE c[i - 1] = (text \o t)[i]
  <2>1. CASE i <= Len(text)
    <3>1. i \in 1 .. Len(text)
      BY <1>5, <2>1
    <3>2. QED BY <1>5, <1>8, <2>1, <3>1
  <2>2. CASE ~(i <= Len(text))
    <3>1. PICK j \in 1 .. Len(t) : j = i - Len(text)
      BY <1>5, <1>8, <2>2
    <3>2. Len(text) + j - 1 = i - 1
      BY <1>5, <3>1
    <3>3. c[i - 1] = t[j]
      BY <1>4, <3>2
    <3>4. QED BY <1>8, <2>2, <3>1, <3>3
  <2>3. QED BY <2>1, <2>2
<1>10. Holds(after, text \o t)
  <2>1. Len(text \o t) < l /\ after = [contents |-> c, ptr |-> Len(text \o t), len |-> l]
    BY <1>6, <1>7, <1>8
  <2>2. QED BY <1>5, <1>9, <2>1, BufferOf
<1>11. after.contents = c /\ after.len = l
  BY <1>7
<1>12. after.contents[Len(text \o t)] = Nul
  BY <1>4, <1>8, <1>11
<1>13. QED BY <1>5, <1>10, <1>11, <1>12 DEF after

-----------------------------------------------------------------------------------
(* The buffer holds the texts printed so far, which are the first of all, and      *)
(* those to come are the others; when none is, a 0 follows.                        *)
Before  == Len(printed) - Len(pending)
BufferInv ==
  /\ printed \in Seq(Seq(Printable)) /\ pending \in Seq(Seq(Printable))
  /\ Len(pending) <= Len(printed)
  /\ \A i \in 1 .. Len(pending) : pending[i] = printed[Before + i]
  /\ stringBuf.len # 0 =>
       /\ First(printed, Before) \in Seq(Printable)
       /\ Holds(stringBuf, First(printed, Before))
       /\ pending = <<>> => stringBuf.contents[Len(First(printed, Before))] = Nul
  /\ stringBuf.len = 0 => pending = <<>>
  /\ TextComplete

LEMMA BufferInitHolds == BufferInit => BufferInv
<1> SUFFICES ASSUME BufferInit PROVE BufferInv
  OBVIOUS
<1>1. /\ printed = <<>> /\ pending = <<>> /\ returned = <<>> /\ stringBuf.len = 0
      /\ <<>> \in Seq(Seq(Printable)) /\ Len(<<>>) = 0
  BY EmptySeq DEF BufferInit, NoBuf
<1>2. FlattenSeq(<<>>) = <<>>
  BY <1>1 DEF FlattenSeq
<1>3. QED BY <1>1, <1>2 DEF BufferInv, TextComplete

LEMMA OpenKeeps ==
  ASSUME BufferInv, NEW texts \in Seq(Seq(Printable)), Open(texts)
  PROVE  BufferInv'
<1> DEFINE c == [i \in 0 .. StringBufInit - 1 |-> Nul]
<1>1. printed' = texts /\ pending' = texts /\ Before' = 0 /\ Len(texts) \in Nat
  BY DEF Open, Before
<1>2. First(printed, Before)' = <<>>
  BY <1>1 DEF First
<1>3. <<>> \in Seq(Printable) /\ Len(<<>>) = 0
  BY EmptySeq
<1>4. /\ stringBuf' = [contents |-> c, ptr |-> 0, len |-> StringBufInit]
      /\ stringBuf'.contents = c /\ stringBuf'.len = StringBufInit
  BY DEF Open, createStringBuf
<1>5. StringBufInit \in Nat /\ 0 < StringBufInit
  BY StringBufAssumption
<1>6. c[0] = Nul /\ c = [i \in 0 .. StringBufInit - 1 |-> c[i]]
  BY <1>5
<1>7. Holds(stringBuf', <<>>)
  <2> HIDE DEF c
  <2>1. stringBuf' = [contents |-> c, ptr |-> Len(<<>>), len |-> StringBufInit]
    BY <1>3, <1>4
  <2>2. Len(<<>>) < StringBufInit /\ \A i \in 1 .. Len(<<>>) : c[i - 1] = <<>>[i]
    BY <1>3, <1>5
  <2>3. QED BY <1>5, <1>6, <2>1, <2>2, BufferOf
<1>8. \A i \in 1 .. Len(texts) : 0 + i = i
  BY <1>1
<1>9. stringBuf'.len # 0 /\ TextComplete'
  BY <1>4, <1>5 DEF TextComplete
<1>10. /\ First(printed, Before)' \in Seq(Printable)
       /\ Holds(stringBuf', First(printed, Before)')
       /\ stringBuf'.contents[Len(First(printed, Before)')] = Nul
  BY <1>2, <1>3, <1>4, <1>6, <1>7
<1>11. /\ printed' \in Seq(Seq(Printable)) /\ pending' \in Seq(Seq(Printable))
       /\ Len(pending') <= Len(printed')
       /\ \A i \in 1 .. Len(pending') : pending'[i] = printed'[Before' + i]
  BY <1>1, <1>8
<1>12. QED BY <1>9, <1>10, <1>11 DEF BufferInv

LEMMA NextText ==
  ASSUME BufferInv, Printing
  PROVE  /\ Head(pending) \in Seq(Printable) /\ Head(pending) = printed[Before + 1]
         /\ Len(pending) \in Nat \ {0} /\ Len(printed) \in Nat /\ Before \in Nat
         /\ Before \in 0 .. Len(printed) - 1 /\ stringBuf.len # 0
         /\ First(printed, Before) \in Seq(Printable)
         /\ Holds(stringBuf, First(printed, Before))
<1>1. /\ pending \in Seq(Seq(Printable)) /\ pending # <<>> /\ Len(pending) \in Nat
      /\ Len(printed) \in Nat /\ Len(pending) <= Len(printed)
  BY DEF BufferInv, Printing
<1>2. Len(pending) # 0
  BY <1>1, EmptySeq
<1>3. Head(pending) = pending[1] /\ pending[1] \in Seq(Printable)
  BY <1>1, <1>2, ElementOfSeq, HeadTailProperties
<1>4. pending[1] = printed[Before + 1]
  BY <1>1, <1>2 DEF BufferInv
<1>5. /\ stringBuf.len # 0 /\ First(printed, Before) \in Seq(Printable)
      /\ Holds(stringBuf, First(printed, Before))
  BY <1>1 DEF BufferInv
<1>6. QED BY <1>1, <1>2, <1>3, <1>4, <1>5 DEF Before

LEMMA PrintAgainKeeps == ASSUME BufferInv, PrintAgain PROVE BufferInv'
<1> DEFINE text == First(printed, Before)
<1>1. Printing /\ Head(pending) \in Seq(Printable) /\ text \in Seq(Printable) /\ Holds(stringBuf, text)
  BY NextText DEF PrintAgain
<1>2. Holds(stringBuf', text)
  <2>1. Holds(vsnprintf(stringBuf, Head(pending)), text)
    BY <1>1, PrintedBehind
  <2> HIDE DEF text
  <2>2. QED BY <1>1, <2>1, ExtendedHolds DEF PrintAgain
<1>3. /\ pending' = pending /\ printed' = printed /\ returned' = returned /\ pending # <<>>
      /\ Before' = Before
  BY DEF PrintAgain, Printing, Before
<1>4. First(printed, Before)' = text
  BY <1>3 DEF First, Flattened, Flat
<1>5. stringBuf'.len # 0
  <2> HIDE DEF text
  <2> QED BY <1>1, <1>2 DEF Holds
<1>6. QED
  <2>1. TextComplete'
    BY <1>5 DEF TextComplete
  <2> HIDE DEF text
  <2>2. QED BY <1>1, <1>2, <1>3, <1>4, <1>5, <2>1 DEF BufferInv

LEMMA Print1Keeps == ASSUME BufferInv, Print1 PROVE BufferInv'
<1> DEFINE text == First(printed, Before)
           t    == Head(pending)
<1>1. /\ Printing /\ t \in Seq(Printable) /\ t = printed[Before + 1]
      /\ text \in Seq(Printable) /\ Holds(stringBuf, text) /\ stringBuf.len # 0
      /\ Len(pending) \in Nat \ {0} /\ Len(printed) \in Nat /\ Before \in Nat
      /\ Before \in 0 .. Len(printed) - 1
  BY NextText DEF Print1
<1>2. /\ pending \in Seq(Seq(Printable)) /\ printed \in Seq(Seq(Printable))
      /\ pending' = Tail(pending) /\ printed' = printed /\ returned' = returned
  BY DEF BufferInv, Print1
<1>3. /\ pending' \in Seq(Seq(Printable)) /\ Len(pending') = Len(pending) - 1
      /\ \A i \in 1 .. Len(pending) - 1 : pending'[i] = pending[i + 1]
  <2>1. pending # <<>>
    BY <1>1 DEF Printing
  <2>2. QED BY <1>2, <2>1, HeadTailProperties
<1>4. Before' = Before + 1
  BY <1>1, <1>2, <1>3 DEF Before
<1>5. First(printed, Before)' = text \o t
  <2>1. First(printed, Before + 1) = text \o t
    BY <1>1, <1>2, FirstStep
  <2>2. First(printed, Before)' = First(printed, Before + 1)
    BY <1>2, <1>4 DEF First, Flattened, Flat
  <2>3. QED BY <2>1, <2>2
<1>6. text \o t \in Seq(Printable)
  BY <1>1, ConcatProperties
<1>7. /\ Holds(stringBuf', text \o t) /\ stringBuf'.contents[Len(text \o t)] = Nul
      /\ stringBuf'.len = stringBuf.len
  <2>1. Fits(stringBuf, t) /\ stringBuf' = WithText(stringBuf, t)
    BY DEF Print1, WithText
  <2> HIDE DEF text, t
  <2>2. /\ Holds(WithText(stringBuf, t), text \o t)
        /\ WithText(stringBuf, t).contents[Len(text \o t)] = Nul
        /\ WithText(stringBuf, t).len = stringBuf.len
    BY <1>1, <2>1, PrintedHolds
  <2>3. QED BY <2>1, <2>2
<1>8. \A i \in 1 .. Len(pending') : pending'[i] = printed'[Before' + i]
  <2>1. ASSUME NEW i \in 1 .. Len(pending) - 1
        PROVE  pending'[i] = printed[Before + 1 + i]
    <3>1. i + 1 \in 1 .. Len(pending) /\ Before + (i + 1) = Before + 1 + i
      BY <1>1
    <3>2. pending[i + 1] = printed[Before + (i + 1)]
      BY <3>1 DEF BufferInv
    <3>3. QED BY <1>3, <3>1, <3>2
  <2>2. QED BY <1>2, <1>3, <1>4, <2>1
<1>9. Len(pending') <= Len(printed')
  BY <1>1, <1>2, <1>3 DEF Before
<1>10. stringBuf'.len # 0 /\ TextComplete'
  BY <1>1, <1>7 DEF TextComplete
<1>11. QED
  <2> HIDE DEF text, t
  <2> QED BY <1>2, <1>3, <1>5, <1>6, <1>7, <1>8, <1>9, <1>10 DEF BufferInv

LEMMA ReturnKeeps == ASSUME BufferInv, Return PROVE BufferInv'
<1> DEFINE text == First(printed, Before)
<1>1. /\ pending = <<>> /\ stringBuf.len # 0 /\ stringBuf' = NoBuf
      /\ returned' = TextOf(stringBuf) /\ pending' = pending /\ printed' = printed
  BY DEF Return
<1>2. /\ text \in Seq(Printable) /\ Holds(stringBuf, text)
      /\ stringBuf.contents[Len(text)] = Nul
      /\ printed \in Seq(Seq(Printable))
  BY <1>1 DEF BufferInv
<1>3. Before = Len(printed) /\ Before' = Before
  BY <1>1, <1>2, EmptySeq DEF Before
<1>4. text = FlattenSeq(printed)
  BY <1>2, <1>3, FirstAll
<1>5. returned' = text
  <2> HIDE DEF text
  <2> QED BY <1>1, <1>2, TextCopied
<1>6. FlattenSeq(printed)' = FlattenSeq(printed)
  BY <1>1 DEF FlattenSeq
<1>7. stringBuf'.len = 0
  BY <1>1 DEF NoBuf
<1>8. TextComplete'
  BY <1>4, <1>5, <1>6 DEF TextComplete
<1>9. QED BY <1>1, <1>3, <1>7, <1>8 DEF BufferInv

LEMMA BufferNextKeeps == BufferInv /\ [BufferNext]_bufferVars => BufferInv'
<1> SUFFICES ASSUME BufferInv, [BufferNext]_bufferVars PROVE BufferInv'
  OBVIOUS
<1>1. CASE PrintAgain
  BY <1>1, PrintAgainKeeps
<1>2. CASE Print1
  BY <1>2, Print1Keeps
<1>3. CASE Return
  BY <1>3, ReturnKeeps
<1>4. CASE \E texts \in Seq(Seq(Printable)) : Open(texts)
  BY <1>4, OpenKeeps
<1>5. CASE UNCHANGED bufferVars
  <2>1. stringBuf' = stringBuf /\ pending' = pending /\ printed' = printed /\ returned' = returned
    BY <1>5 DEF bufferVars
  <2>2. QED
    BY <2>1 DEF BufferInv, TextComplete, Before, First, Flattened, Flat, FlattenSeq
<1>6. QED BY <1>1, <1>2, <1>3, <1>4, <1>5 DEF BufferNext, Working

(* What Lstring or Lstringcat returns is all that was printed, for texts of any    *)
(* number and length and whatever length the block begins with (vprintStringBuf).  *)
THEOREM TextIsComplete == BufferSpec => []TextComplete
<1>1. BufferInv => TextComplete
  BY DEF BufferInv
<1>2. QED BY BufferInitHolds, BufferNextKeeps, <1>1, PTL DEF BufferSpec

(* The next text is always put inside the block, behind a string without a 0 and   *)
(* without anything that realloc left (vprintStringBuf, extendStringBuf).          *)
THEOREM BufferHasRoom == BufferSpec => []BufferRoom
<1>1. BufferInv => BufferRoom
  <2> SUFFICES ASSUME BufferInv, stringBuf.len # 0
               PROVE  /\ stringBuf.ptr < stringBuf.len
                      /\ \A i \in 0 .. stringBuf.ptr - 1 : stringBuf.contents[i] \notin {Nul, Junk}
    BY DEF BufferRoom
  <2>1. PICK text \in Seq(Printable) : Holds(stringBuf, text)
    BY DEF BufferInv
  <2>2. stringBuf.ptr = Len(text) /\ Len(text) < stringBuf.len /\ Len(text) \in Nat
    BY <2>1 DEF Holds
  <2>3. ASSUME NEW i \in 0 .. stringBuf.ptr - 1
        PROVE  stringBuf.contents[i] \notin {Nul, Junk}
    <3>1. PICK j \in 1 .. Len(text) : j - 1 = i
      BY <2>2
    <3>2. stringBuf.contents[i] = text[j] /\ text[j] \in Printable
      BY <2>1, <3>1, ElementOfSeq DEF Holds
    <3>3. QED BY <3>2, PrintableAssumption
  <2>4. QED BY <2>2, <2>3
<1>2. QED BY BufferInitHolds, BufferNextKeeps, <1>1, PTL DEF BufferSpec
-----------------------------------------------------------------------------------
(* The hashes of constructor names.                                                *)

LEMMA WeightsAre ==
  /\ Weights[1] = 1 /\ Weights[2] = 64 /\ Weights[3] = 4096 /\ Weights[4] = 262144
  /\ Weights[5] = 16777216 /\ Weights[6] = 1073741824
  BY DEF Weights

(* The hash of the first characters of a name, for every number of them.           *)
Hashes(name) ==
  CHOOSE hash : hash = [k \in 0 .. 5 |->
    IF k = 0 THEN 0 ELSE IF k > Len(name) THEN hash[k - 1] ELSE 64 * hash[k - 1] + name[k]]

(* Such a function exists: five steps build it.                                    *)
LEMMA HashesStep ==
  ASSUME NEW name \in Seq(Int)
  PROVE  /\ Hashes(name)[0] = 0
         /\ \A k \in 1 .. 5 : Hashes(name)[k] = IF k > Len(name) THEN Hashes(name)[k - 1]
                                                  ELSE 64 * Hashes(name)[k - 1] + name[k]
<1> DEFINE Step(k, sum) == IF k > Len(name) THEN sum ELSE 64 * sum + name[k]
           Of(hash) == [k \in 0 .. 5 |-> IF k = 0 THEN 0 ELSE Step(k, hash[k - 1])]
           s1 == Step(1, 0)
           s2 == Step(2, s1)
           s3 == Step(3, s2)
           s4 == Step(4, s3)
           s5 == Step(5, s4)
           built == [k \in 0 .. 5 |-> IF k = 0 THEN 0 ELSE IF k = 1 THEN s1 ELSE IF k = 2 THEN s2
                                      ELSE IF k = 3 THEN s3 ELSE IF k = 4 THEN s4 ELSE s5]
<1>1. Hashes(name) = CHOOSE hash : hash = Of(hash)
  BY DEF Hashes
<1> HIDE DEF Step
<1>2. built = Of(built)
  <2>1. ASSUME NEW k \in 0 .. 5
        PROVE  built[k] = IF k = 0 THEN 0 ELSE Step(k, built[k - 1])
    <3>1. k \in {0, 1, 2, 3, 4, 5}
      OBVIOUS
    <3>2. /\ built[0] = 0 /\ built[1] = s1 /\ built[2] = s2 /\ built[3] = s3
          /\ built[4] = s4 /\ built[5] = s5
      <4> HIDE DEF s1, s2, s3, s4, s5
      <4> QED OBVIOUS
    <3>3. /\ s1 = Step(1, built[0]) /\ s2 = Step(2, built[1]) /\ s3 = Step(3, built[2])
          /\ s4 = Step(4, built[3]) /\ s5 = Step(5, built[4])
      BY <3>2
    <3>4. \A j \in {1, 2, 3, 4, 5} : built[j] = Step(j, built[j - 1])
      <4> HIDE DEF built, s1, s2, s3, s4, s5
      <4>1. 1 - 1 = 0 /\ 2 - 1 = 1 /\ 3 - 1 = 2 /\ 4 - 1 = 3 /\ 5 - 1 = 4
        OBVIOUS
      <4>2. QED BY <3>2, <3>3, <4>1
    <3> HIDE DEF built
    <3>5. QED BY <3>1, <3>2, <3>4
  <2>2. built = [k \in 0 .. 5 |-> built[k]]
    <3> HIDE DEF s1, s2, s3, s4, s5
    <3> QED OBVIOUS
  <2> HIDE DEF built
  <2>3. QED BY <2>1, <2>2
<1>3. Hashes(name) = Of(Hashes(name))
  <2> HIDE DEF built, Of
  <2> QED BY <1>1, <1>2
<1>4. QED
  <2> HIDE DEF built, s1, s2, s3, s4, s5
  <2>1. ASSUME NEW k \in 0 .. 5
        PROVE  Hashes(name)[k] = IF k = 0 THEN 0 ELSE Step(k, Hashes(name)[k - 1])
    BY <1>3
  <2>2. QED BY <2>1 DEF Step

LEMMA HashIsLast ==
  ASSUME NEW name
  PROVE  LtagHash(name) =
           IF /\ \A i \in DOMAIN name : i <= 5 => name[i] \in Alphabet
              /\ de_hash(Hashes(name)[5]) = name
           THEN Hashes(name)[5] ELSE -1
  BY DEF LtagHash, HashWithin, Hashes

-----------------------------------------------------------------------------------
(* What is left of a hash when d characters are cut off behind is the hash of the  *)
(* characters before them.                                                         *)
LEMMA HashBehind ==
  ASSUME NEW f, NEW n \in 0 .. 5, \A k \in 0 .. n : f[k] \in Nat,
         \A k \in 1 .. n : \E c \in Alphabet : f[k] = 64 * f[k - 1] + c
  PROVE  \A d \in 0 .. n : \E r \in 0 .. Weights[d + 1] - 1 : f[n] = Weights[d + 1] * f[n - d] + r
<1> DEFINE P(d) == \E r \in 0 .. Weights[d + 1] - 1 : f[n] = Weights[d + 1] * f[n - d] + r
<1>1. P(0)
  <2>1. 0 \in 0 .. 1 - 1 /\ f[n] = 1 * f[n - 0] + 0 /\ Weights[0 + 1] = 1
    BY WeightsAre
  <2>2. QED BY <2>1
<1>2. ASSUME NEW d \in 0 .. 4, d < n, P(d), NEW w \in Nat, Weights[d + 1] = w, Weights[d + 2] = 64 * w,
             w \in {1, 64, 4096, 262144, 16777216}
      PROVE  P(d + 1)
  <2>1. PICK r \in 0 .. w - 1 : f[n] = w * f[n - d] + r
    BY <1>2
  <2>2. n - d \in 1 .. n /\ n - d - 1 \in 0 .. n
    BY <1>2
  <2>3. PICK c \in Alphabet : f[n - d] = 64 * f[n - d - 1] + c
    BY <2>2
  <2>4. f[n - d - 1] \in Nat
    BY <2>2
  <2>5. f[n] = w * (64 * f[n - d - 1] + c) + r
    BY <2>1, <2>3
  <2>6. PICK g \in Nat : g = f[n - d - 1]
    BY <2>4
  <2>7. PICK s \in Nat : s = w * c + r
    <3>1. w * c + r \in Nat
      BY <1>2 DEF Alphabet
    <3>2. QED BY <3>1
  <2>8. s \in 0 .. 64 * w - 1 /\ w * (64 * g + c) + r = 64 * w * g + s
    BY <1>2, <2>7 DEF Alphabet
  <2>9. n - (d + 1) = n - d - 1 /\ (d + 1) + 1 = d + 2
    OBVIOUS
  <2>10. f[n] = Weights[d + 2] * f[n - d - 1] + s
    BY <1>2, <2>5, <2>6, <2>8
  <2>11. QED BY <1>2, <2>8, <2>9, <2>10
<1>3. ASSUME NEW d \in 0 .. 4, d < n, P(d) PROVE P(d + 1)
  <2>1. d \in {0, 1, 2, 3, 4}
    OBVIOUS
  <2>2. \E w \in {1, 64, 4096, 262144, 16777216} : Weights[d + 1] = w /\ Weights[d + 2] = 64 * w
    BY <2>1, WeightsAre
  <2> HIDE DEF P
  <2>3. QED BY <1>2, <1>3, <2>2
<1>4. ASSUME NEW d \in 0 .. n PROVE P(d)
  <2> HIDE DEF P
  <2>1. /\ 0 < n => P(1)
        /\ 1 < n => P(2)
        /\ 2 < n => P(3)
        /\ 3 < n => P(4)
        /\ 4 < n => P(5)
    <3>1. 0 < n => P(1)
      <4>1. 0 < n => P(0 + 1)
        BY <1>1, <1>3
      <4>2. QED BY <4>1
    <3>2. 1 < n => P(2)
      <4>1. 1 < n => P(1 + 1)
        BY <1>3, <3>1
      <4>2. QED BY <4>1
    <3>3. 2 < n => P(3)
      <4>1. 2 < n => P(2 + 1)
        BY <1>3, <3>2
      <4>2. QED BY <4>1
    <3>4. 3 < n => P(4)
      <4>1. 3 < n => P(3 + 1)
        BY <1>3, <3>3
      <4>2. QED BY <4>1
    <3>5. 4 < n => P(5)
      <4>1. 4 < n => P(4 + 1)
        BY <1>3, <3>4
      <4>2. QED BY <4>1
    <3>6. QED BY <3>1, <3>2, <3>3, <3>4, <3>5
  <2>2. d \in {0, 1, 2, 3, 4, 5}
    OBVIOUS
  <2>3. QED BY <1>1, <2>1, <2>2
<1>5. QED BY <1>4

(* Dividing by the weight leaves the characters before.                            *)
LEMMA WeightDivides ==
  ASSUME NEW d \in 0 .. 4, NEW q \in Nat, NEW r \in Nat, r < Weights[d + 1]
  PROVE  (Weights[d + 1] * q + r) \div Weights[d + 1] = q
<1>1. CASE d = 0
  <2>1. Weights[d + 1] = 1 /\ r < 1
    BY <1>1, WeightsAre, SMT
  <2>2. (1 * q + r) \div 1 = q
    BY <2>1, SMT
  <2>3. QED BY <2>1, <2>2, SMT
<1>2. CASE d = 1
  <2>1. Weights[d + 1] = 64 /\ r < 64
    BY <1>2, WeightsAre, SMT
  <2>2. (64 * q + r) \div 64 = q
    BY <2>1, SMT
  <2>3. QED BY <2>1, <2>2, SMT
<1>3. CASE d = 2
  <2>1. Weights[d + 1] = 4096 /\ r < 4096
    BY <1>3, WeightsAre, SMT
  <2>2. (4096 * q + r) \div 4096 = q
    BY <2>1, SMT
  <2>3. QED BY <2>1, <2>2, SMT
<1>4. CASE d = 3
  <2>1. Weights[d + 1] = 262144 /\ r < 262144
    BY <1>4, WeightsAre, SMT
  <2>2. (262144 * q + r) \div 262144 = q
    BY <2>1, SMT
  <2>3. QED BY <2>1, <2>2, SMT
<1>5. CASE d = 4
  <2>1. Weights[d + 1] = 16777216 /\ r < 16777216
    BY <1>5, WeightsAre, SMT
  <2>2. (16777216 * q + r) \div 16777216 = q
    BY <2>1, SMT
  <2>3. QED BY <2>1, <2>2, SMT
<1>6. QED BY <1>1, <1>2, <1>3, <1>4, <1>5, SMT

(* How many characters de_hash gives, for a number that has a first one.           *)
LEMMA CharactersOf ==
  ASSUME NEW h \in Nat, h < Weights[6]
  PROVE  LET n == Min({k \in 0 .. 5 : h < Weights[k + 1]})
         IN  n \in 0 .. 5 /\ h < Weights[n + 1] /\ (n > 0 => h >= Weights[n])
<1> DEFINE S == {k \in 0 .. 5 : h < Weights[k + 1]}
           Least(n) == n \in S /\ \A k \in S : n <= k
<1>1. \E n \in S : \A k \in S : n <= k
  <2>1. \A k \in S : k \in {0, 1, 2, 3, 4, 5}
    OBVIOUS
  <2>2. 5 \in S
    OBVIOUS
  <2>3. S \subseteq Int
    OBVIOUS
  <2>4. QED
    <3> HIDE DEF S
    <3>1. CASE 0 \in S
      BY <2>1, <2>3, <3>1
    <3>2. CASE 0 \notin S /\ 1 \in S
      BY <2>1, <2>3, <3>2
    <3>3. CASE 0 \notin S /\ 1 \notin S /\ 2 \in S
      BY <2>1, <2>3, <3>3
    <3>4. CASE 0 \notin S /\ 1 \notin S /\ 2 \notin S /\ 3 \in S
      BY <2>1, <2>3, <3>4
    <3>5. CASE 0 \notin S /\ 1 \notin S /\ 2 \notin S /\ 3 \notin S /\ 4 \in S
      BY <2>1, <2>3, <3>5
    <3>6. CASE 0 \notin S /\ 1 \notin S /\ 2 \notin S /\ 3 \notin S /\ 4 \notin S
      BY <2>1, <2>2, <2>3, <3>6
    <3>7. QED BY <3>1, <3>2, <3>3, <3>4, <3>5, <3>6
<1>2. Min(S) \in S /\ \A k \in S : Min(S) <= k
  <2>1. Min(S) = CHOOSE n \in S : \A k \in S : n <= k
    BY DEF Min
  <2> HIDE DEF S
  <2>2. QED BY <1>1, <2>1
<1>3. PICK n : n = Min(S)
  OBVIOUS
<1>4. n \in 0 .. 5 /\ h < Weights[n + 1]
  BY <1>2, <1>3
<1>5. ASSUME n > 0 PROVE h >= Weights[n]
  <2>1. n - 1 \in 0 .. 5 /\ ~(n <= n - 1) /\ (n - 1) + 1 = n
    BY <1>4, <1>5
  <2>2. n - 1 \notin S
    BY <1>2, <1>3, <2>1
  <2>3. ~(h < Weights[n])
    BY <2>1, <2>2
  <2>4. Weights[n] \in Nat
    <3>1. n \in {1, 2, 3, 4, 5}
      BY <1>4, <1>5
    <3>2. QED BY <3>1, WeightsAre
  <2>5. QED BY <2>3, <2>4
<1>6. QED BY <1>3, <1>4, <1>5

LEMMA WeightsGrow ==
  /\ \A i \in 1 .. 6 : Weights[i] \in Nat
  /\ \A i, j \in 1 .. 6 : i <= j => Weights[i] <= Weights[j]
<1>1. \A i \in 1 .. 6 : i \in {1, 2, 3, 4, 5, 6}
  OBVIOUS
<1>2. \A i \in 1 .. 6 : Weights[i] \in Nat
  BY <1>1, WeightsAre, SMT
<1>3. ASSUME NEW i \in 1 .. 5 PROVE Weights[i] <= Weights[i + 1]
  <2>1. i \in {1, 2, 3, 4, 5}
    OBVIOUS
  <2>2. QED BY <2>1, WeightsAre, SMT
<1>4. ASSUME NEW i \in 1 .. 6, NEW j \in 1 .. 6, i <= j PROVE Weights[i] <= Weights[j]
  <2>1. /\ Weights[1] <= Weights[2] /\ Weights[2] <= Weights[3] /\ Weights[3] <= Weights[4]
        /\ Weights[4] <= Weights[5] /\ Weights[5] <= Weights[6]
    BY WeightsAre, SMT
  <2>2. i \in {1, 2, 3, 4, 5, 6} /\ j \in {1, 2, 3, 4, 5, 6}
    OBVIOUS
  <2>3. QED BY <1>2, <1>4, <2>1, <2>2, SMT
<1>5. QED BY <1>2, <1>4

LEMMA AlphabetNumbers == \A c \in Alphabet : c \in Nat /\ c < 64
  BY DEF Alphabet

(* The hash takes up the characters one by one.                                    *)
LEMMA HashesGrow ==
  ASSUME NEW name \in Seq(Alphabet \cup {64}), NEW n \in 0 .. 5, n <= Len(name),
         \A i \in 1 .. n : name[i] \in Alphabet
  PROVE  /\ Hashes(name)[0] = 0
         /\ \A k \in 0 .. n : Hashes(name)[k] \in Nat
         /\ \A k \in 1 .. n : Hashes(name)[k] = 64 * Hashes(name)[k - 1] + name[k]
<1> DEFINE f == Hashes(name)
<1>1. name \in Seq(Int) /\ Len(name) \in Nat
  <2>1. Alphabet \cup {64} \subseteq Int
    BY DEF Alphabet
  <2>2. \A S, T : S \subseteq T => Seq(S) \subseteq Seq(T)
    OBVIOUS
  <2>3. QED BY <2>1, <2>2
<1>2. /\ f[0] = 0
      /\ \A k \in 1 .. 5 : f[k] = IF k > Len(name) THEN f[k - 1] ELSE 64 * f[k - 1] + name[k]
  BY <1>1, HashesStep
<1> HIDE DEF f
<1>3. ASSUME NEW k \in 1 .. n PROVE f[k] = 64 * f[k - 1] + name[k]
  <2>1. k \in 1 .. 5 /\ ~(k > Len(name))
    BY <1>1
  <2>2. QED BY <1>2, <2>1
<1>4. ASSUME NEW k \in 1 .. n, f[k - 1] \in Nat PROVE f[k] \in Nat
  <2>1. name[k] \in Nat
    BY AlphabetNumbers
  <2>2. QED BY <1>3, <1>4, <2>1
<1>5. ASSUME NEW k \in 0 .. n PROVE f[k] \in Nat
  <2>1. /\ f[0] \in Nat
        /\ 1 \in 1 .. n => f[1] \in Nat
        /\ 2 \in 1 .. n => f[2] \in Nat
        /\ 3 \in 1 .. n => f[3] \in Nat
        /\ 4 \in 1 .. n => f[4] \in Nat
        /\ 5 \in 1 .. n => f[5] \in Nat
    <3>1. 1 - 1 = 0 /\ 2 - 1 = 1 /\ 3 - 1 = 2 /\ 4 - 1 = 3 /\ 5 - 1 = 4
      OBVIOUS
    <3>2. /\ 5 \in 1 .. n => 4 \in 1 .. n
          /\ 4 \in 1 .. n => 3 \in 1 .. n
          /\ 3 \in 1 .. n => 2 \in 1 .. n
          /\ 2 \in 1 .. n => 1 \in 1 .. n
      OBVIOUS
    <3>3. f[0] \in Nat
      BY <1>2
    <3>4. 1 \in 1 .. n => f[1] \in Nat
      BY <1>4, <3>1, <3>3
    <3>5. 2 \in 1 .. n => f[2] \in Nat
      BY <1>4, <3>1, <3>2, <3>4
    <3>6. 3 \in 1 .. n => f[3] \in Nat
      BY <1>4, <3>1, <3>2, <3>5
    <3>7. 4 \in 1 .. n => f[4] \in Nat
      BY <1>4, <3>1, <3>2, <3>6
    <3>8. 5 \in 1 .. n => f[5] \in Nat
      BY <1>4, <3>1, <3>2, <3>7
    <3>9. QED BY <3>3, <3>4, <3>5, <3>6, <3>7, <3>8
  <2>2. k \in {0, 1, 2, 3, 4, 5}
    OBVIOUS
  <2>3. QED BY <2>1, <2>2
<1>6. QED BY <1>2, <1>3, <1>5 DEF f

(* What de_hash makes of the hash of the first n characters: all of them, unless   *)
(* the first one is worth nothing.                                                 *)
Restored(name, n, h) ==
  /\ h \in Nat /\ h < Weights[6]
  /\ \E m \in 0 .. n :
       /\ de_hash(h) = [i \in 1 .. m |-> (h \div Weights[m - i + 1]) % 64]
       /\ m = n <=> (n > 0 => name[1] # 0)
  /\ \A i \in 1 .. n : (h \div Weights[n - i + 1]) % 64 = name[i]

LEMMA HashOfFirst ==
  ASSUME NEW name \in Seq(Alphabet \cup {64}), NEW n \in 0 .. 5, n <= Len(name),
         \A i \in 1 .. n : name[i] \in Alphabet,
         NEW h, h = Hashes(name)[n]
  PROVE  Restored(name, n, h)
<1> DEFINE f == Hashes(name)
<1>1. /\ f[0] = 0
      /\ \A k \in 0 .. n : f[k] \in Nat
      /\ \A k \in 1 .. n : f[k] = 64 * f[k - 1] + name[k]
  BY HashesGrow
<1>2. \A k \in 1 .. n : \E c \in Alphabet : f[k] = 64 * f[k - 1] + c
  BY <1>1
<1> HIDE DEF f
<1>3. \A d \in 0 .. n : \E r \in 0 .. Weights[d + 1] - 1 : f[n] = Weights[d + 1] * f[n - d] + r
  <2>1. PICK g : g = f
    OBVIOUS
  <2>2. \A k \in 0 .. n : g[k] \in Nat
    BY <1>1, <2>1
  <2>3. \A k \in 1 .. n : \E c \in Alphabet : g[k] = 64 * g[k - 1] + c
    BY <1>2, <2>1
  <2>4. \A d \in 0 .. n : \E r \in 0 .. Weights[d + 1] - 1 : g[n] = Weights[d + 1] * g[n - d] + r
    BY <2>2, <2>3, HashBehind
  <2>5. QED BY <2>1, <2>4
<1>4. ASSUME NEW d \in 0 .. n
      PROVE  \E r \in Nat : r < Weights[d + 1] /\ h = Weights[d + 1] * f[n - d] + r
  <2>1. PICK r \in 0 .. Weights[d + 1] - 1 : f[n] = Weights[d + 1] * f[n - d] + r
    BY <1>3
  <2>2. d + 1 \in 1 .. 6
    OBVIOUS
  <2>3. Weights[d + 1] \in Nat
    BY <2>2, WeightsGrow
  <2>4. r \in Nat /\ r < Weights[d + 1]
    BY <2>3
  <2>5. QED BY <2>1, <2>4 DEF f
<1>5. h \in Nat /\ h < Weights[n + 1]
  <2>1. PICK r \in Nat : r < Weights[n + 1] /\ h = Weights[n + 1] * f[n - n] + r
    BY <1>4
  <2>2. n - n = 0 /\ n + 1 \in 1 .. 6
    OBVIOUS
  <2>3. Weights[n + 1] \in Nat
    BY <2>2, WeightsGrow
  <2>4. h = Weights[n + 1] * 0 + r
    BY <1>1, <2>1, <2>2
  <2>5. QED BY <2>1, <2>3, <2>4
<1>6. h < Weights[6]
  <2>1. n + 1 \in 1 .. 6 /\ n + 1 <= 6 /\ 6 \in 1 .. 6
    OBVIOUS
  <2>2. Weights[n + 1] <= Weights[6] /\ Weights[n + 1] \in Nat /\ Weights[6] \in Nat
    BY <2>1, WeightsGrow
  <2>3. QED BY <1>5, <2>2
<1>7. PICK m : /\ m = Min({k \in 0 .. 5 : h < Weights[k + 1]})
               /\ m \in 0 .. 5 /\ h < Weights[m + 1] /\ (m > 0 => h >= Weights[m])
  BY <1>5, <1>6, CharactersOf
<1>8. de_hash(h) = [i \in 1 .. m |-> (h \div Weights[m - i + 1]) % 64]
  BY <1>7 DEF de_hash
<1>9. ASSUME NEW k \in 0 .. 5, h < Weights[k + 1] PROVE m <= k
  <2>1. SUFFICES ASSUME m > k PROVE FALSE
    BY <1>7
  <2>2. k + 1 \in 1 .. 6 /\ m \in 1 .. 6 /\ k + 1 <= m
    BY <1>7, <2>1
  <2>3. Weights[k + 1] <= Weights[m] /\ Weights[k + 1] \in Nat /\ Weights[m] \in Nat
    BY <2>2, WeightsGrow
  <2>4. h >= Weights[m]
    BY <1>7, <2>1
  <2>5. QED BY <1>5, <1>9, <2>3, <2>4
<1>10. ASSUME NEW k \in 0 .. 5, k > 0, h >= Weights[k] PROVE m >= k
  <2>1. SUFFICES ASSUME m < k PROVE FALSE
    BY <1>7
  <2>2. m + 1 \in 1 .. 6 /\ k \in 1 .. 6 /\ m + 1 <= k
    BY <1>7, <1>10, <2>1
  <2>3. Weights[m + 1] <= Weights[k] /\ Weights[m + 1] \in Nat /\ Weights[k] \in Nat
    BY <2>2, WeightsGrow
  <2>4. QED BY <1>5, <1>7, <1>10, <2>3
<1>11. m \in 0 .. n
  BY <1>5, <1>7, <1>9
<1>12. m = n <=> (n > 0 => name[1] # 0)
  <2>1. CASE n = 0
    BY <1>11, <2>1
  <2>2. CASE n > 0
    <3>1. 1 \in 1 .. n /\ 1 - 1 = 0 /\ n - 1 \in 0 .. n /\ n - (n - 1) = 1 /\ (n - 1) + 1 = n
      BY <2>2
    <3>2. f[1] = name[1] /\ name[1] \in Nat
      <4>1. f[1] = 64 * f[0] + name[1]
        BY <1>1, <3>1
      <4>2. name[1] \in Nat
        BY <3>1, AlphabetNumbers
      <4>3. QED BY <1>1, <4>1, <4>2
    <3>3. PICK r \in Nat : r < Weights[n] /\ h = Weights[n] * f[1] + r
      BY <1>4, <3>1
    <3>4. PICK w \in Nat : w = Weights[n]
      <4>1. n \in 1 .. 6
        BY <2>2
      <4>2. QED BY <4>1, WeightsGrow
    <3>5. CASE name[1] = 0
      <4>1. h = w * 0 + r
        BY <3>2, <3>3, <3>4, <3>5
      <4>2. h < Weights[(n - 1) + 1]
        BY <3>1, <3>3, <3>4, <4>1
      <4>3. n - 1 \in 0 .. 5
        BY <2>2
      <4>4. m <= n - 1
        BY <1>9, <4>2, <4>3
      <4>5. QED BY <1>7, <2>2, <3>5, <4>4
    <3>6. CASE name[1] # 0
      <4>1. PICK g \in Nat : name[1] = g + 1
        <5>1. name[1] - 1 \in Nat /\ name[1] = (name[1] - 1) + 1
          BY <3>2, <3>6
        <5>2. QED BY <5>1
      <4>2. h = w * (g + 1) + r
        BY <3>2, <3>3, <3>4, <4>1
      <4>3. w * (g + 1) = w * g + w /\ w * g \in Nat
        OBVIOUS
      <4>4. h >= Weights[n]
        <5>1. PICK x \in Nat : x = w * g
          BY <4>3
        <5>2. h = x + w + r
          BY <4>2, <4>3, <5>1
        <5>3. h >= w
          BY <5>1, <5>2
        <5>4. QED BY <3>4, <5>3
      <4>5. m >= n
        BY <1>10, <2>2, <4>4
      <4>6. QED BY <1>11, <3>6, <4>5
    <3>7. QED BY <3>5, <3>6
  <2>3. QED BY <2>1, <2>2
<1>13. ASSUME NEW i \in 1 .. n PROVE (h \div Weights[n - i + 1]) % 64 = name[i]
  <2>1. n - i \in 0 .. n /\ n - (n - i) = i /\ n - i \in 0 .. 4 /\ i \in 0 .. n
    OBVIOUS
  <2>2. PICK r \in Nat : r < Weights[n - i + 1] /\ h = Weights[n - i + 1] * f[i] + r
    BY <1>4, <2>1
  <2>3. f[i] \in Nat
    BY <1>1, <2>1
  <2>4. h \div Weights[n - i + 1] = f[i]
    <3>1. PICK d \in 0 .. 4 : d = n - i
      BY <2>1
    <3>2. (Weights[d + 1] * f[i] + r) \div Weights[d + 1] = f[i]
      BY <2>2, <2>3, <3>1, WeightDivides
    <3>3. QED BY <2>2, <3>1, <3>2
  <2>5. f[i] = 64 * f[i - 1] + name[i] /\ f[i - 1] \in Nat
    <3>1. i - 1 \in 0 .. n
      OBVIOUS
    <3>2. QED BY <1>1, <3>1
  <2>6. name[i] \in Nat /\ name[i] < 64
    BY AlphabetNumbers
  <2>7. \A q \in Nat, c \in Nat : c < 64 => (64 * q + c) % 64 = c
    BY SMT
  <2>8. QED BY <2>4, <2>5, <2>6, <2>7
<1>14. QED BY <1>5, <1>6, <1>8, <1>11, <1>12, <1>13 DEF Restored

Taggable(name) ==
  /\ Len(name) <= 5 /\ \A i \in DOMAIN name : name[i] \in Alphabet
  /\ name # <<>> => name[1] # 0

LEMMA HashRight ==
  ASSUME NEW name \in Seq(Alphabet \cup {64})
  PROVE  LtagHash(name) \in -1 .. Weights[6] - 1 /\ (LtagHash(name) >= 0 <=> Taggable(name))
<1> DEFINE h == Hashes(name)[5]
           Found == \A i \in DOMAIN name : i <= 5 => name[i] \in Alphabet
<1>1. Len(name) \in Nat /\ DOMAIN name = 1 .. Len(name) /\ name = [i \in 1 .. Len(name) |-> name[i]]
  OBVIOUS
<1>2. LtagHash(name) = IF Found /\ de_hash(h) = name THEN h ELSE -1
  BY HashIsLast
<1>3. Weights[6] \in Nat
  <2>1. 6 \in 1 .. 6
    OBVIOUS
  <2>2. QED BY <2>1, WeightsGrow
<1>4. CASE ~Found
  <2>1. LtagHash(name) = -1
    BY <1>2, <1>4
  <2>2. ~Taggable(name)
    BY <1>1, <1>4 DEF Taggable
  <2>3. QED BY <1>3, <2>1, <2>2
<1>5. CASE Found /\ Len(name) > 5
  <2>1. \A i \in 1 .. 5 : name[i] \in Alphabet
    BY <1>1, <1>5
  <2>2. PICK m \in 0 .. 5 : de_hash(h) = [i \in 1 .. m |-> (h \div Weights[m - i + 1]) % 64]
    <3>1. 5 \in 0 .. 5 /\ 5 <= Len(name)
      BY <1>1, <1>5
    <3>2. Restored(name, 5, h)
      <4>1. PICK z : z = h
        OBVIOUS
      <4>2. Restored(name, 5, z)
        BY <2>1, <3>1, <4>1, HashOfFirst
      <4>3. QED BY <4>1, <4>2
    <3> HIDE DEF h
    <3>3. QED BY <3>2 DEF Restored
  <2>3. DOMAIN de_hash(h) = 1 .. m
    BY <2>2
  <2>4. 6 \in DOMAIN name /\ 6 \notin 1 .. m
    BY <1>1, <1>5
  <2>5. LtagHash(name) = -1
    <3> HIDE DEF h
    <3>1. de_hash(h) # name
      BY <2>3, <2>4
    <3>2. QED BY <1>2, <3>1
  <2>6. ~Taggable(name)
    BY <1>1, <1>5 DEF Taggable
  <2>7. QED BY <1>3, <2>5, <2>6
<1>6. CASE Found /\ Len(name) <= 5
  <2>1. PICK n \in 0 .. 5 : n = Len(name)
    BY <1>1, <1>6
  <2>2. \A i \in 1 .. n : name[i] \in Alphabet
    BY <1>1, <1>6, <2>1
  <2>3. h = Hashes(name)[n]
    <3>1. name \in Seq(Int)
      <4>1. Alphabet \cup {64} \subseteq Int
        BY AlphabetNumbers
      <4>2. \A S, T : S \subseteq T => Seq(S) \subseteq Seq(T)
        OBVIOUS
      <4>3. QED BY <4>1, <4>2
    <3>2. PICK f : f = Hashes(name)
      OBVIOUS
    <3>3. \A k \in 1 .. 5 : k > n => f[k] = f[k - 1]
      BY <2>1, <3>1, <3>2, HashesStep
    <3>4. /\ n < 5 => f[5] = f[4]
          /\ n < 4 => f[4] = f[3]
          /\ n < 3 => f[3] = f[2]
          /\ n < 2 => f[2] = f[1]
          /\ n < 1 => f[1] = f[0]
      <4>1. 1 - 1 = 0 /\ 2 - 1 = 1 /\ 3 - 1 = 2 /\ 4 - 1 = 3 /\ 5 - 1 = 4
        OBVIOUS
      <4>2. {1, 2, 3, 4, 5} \subseteq 1 .. 5
        OBVIOUS
      <4>3. QED BY <3>3, <4>1, <4>2
    <3>5. n \in {0, 1, 2, 3, 4, 5}
      OBVIOUS
    <3>6. f[5] = f[n]
      BY <3>4, <3>5
    <3>7. QED BY <3>2, <3>6
  <2> HIDE DEF h
  <2>4. /\ h \in Nat /\ h < Weights[6]
        /\ \E m \in 0 .. n :
             /\ de_hash(h) = [i \in 1 .. m |-> (h \div Weights[m - i + 1]) % 64]
             /\ m = n <=> (n > 0 => name[1] # 0)
        /\ \A i \in 1 .. n : (h \div Weights[n - i + 1]) % 64 = name[i]
    <3>1. n <= Len(name)
      BY <1>1, <2>1
    <3>2. Restored(name, n, h)
      BY <2>2, <2>3, <3>1, HashOfFirst
    <3>3. QED BY <3>2 DEF Restored
  <2>5. PICK m \in 0 .. n : /\ de_hash(h) = [i \in 1 .. m |-> (h \div Weights[m - i + 1]) % 64]
                            /\ m = n <=> (n > 0 => name[1] # 0)
    BY <2>4
  <2>6. Taggable(name) <=> m = n
    <3>1. name # <<>> <=> n > 0
      BY <1>1, <2>1
    <3>2. QED BY <1>1, <1>6, <2>1, <2>2, <2>5, <3>1 DEF Taggable
  <2>7. CASE m = n
    <3>1. de_hash(h) = [i \in 1 .. n |-> (h \div Weights[n - i + 1]) % 64]
      BY <2>5, <2>7
    <3>2. de_hash(h) = [i \in 1 .. n |-> name[i]]
      BY <2>4, <3>1
    <3>3. de_hash(h) = name
      BY <1>1, <2>1, <3>2
    <3>4. LtagHash(name) = h
      BY <1>2, <1>6, <3>3
    <3>5. QED BY <1>3, <2>4, <2>6, <2>7, <3>4
  <2>8. CASE m # n
    <3>1. DOMAIN de_hash(h) = 1 .. m
      BY <2>5
    <3>2. n \in DOMAIN name /\ n \notin 1 .. m
      BY <1>1, <2>1, <2>8
    <3>3. de_hash(h) # name
      BY <3>1, <3>2
    <3>4. LtagHash(name) = -1
      BY <1>2, <3>3
    <3>5. QED BY <1>3, <2>6, <2>8, <3>4
  <2>9. QED BY <2>7, <2>8
<1>7. QED BY <1>1, <1>4, <1>5, <1>6

(* Of names of any length, exactly those that a hash has room for have one, and it *)
(* fits a word when boxed; the first character of the table cannot begin a name,   *)
(* for it is worth nothing there (LtagHash, de_hash).                              *)
THEOREM TagsAreNames == TagSpec => []TagNames
<1> DEFINE Made == tagged # <<>> => \E name \in Names : tagged = <<name, LtagHash(name)>>
<1>1. TagInit => Made
  BY DEF TagInit
<1>2. Made /\ [HashName]_tagged => Made'
  BY DEF HashName
<1>3. Made => TagNames
  <2> SUFFICES ASSUME NEW name \in Names, tagged = <<name, LtagHash(name)>> PROVE TagNames
    BY DEF TagNames
  <2>1. name \in Seq(Alphabet \cup {64})
    BY NamesAssumption
  <2>2. LtagHash(name) \in -1 .. Weights[6] - 1 /\ (LtagHash(name) >= 0 <=> Taggable(name))
    BY <2>1, HashRight
  <2>3. tagged[1] = name /\ tagged[2] = LtagHash(name)
    OBVIOUS
  <2>4. QED BY <2>2, <2>3 DEF TagNames, Taggable
<1>4. QED
  <2> HIDE DEF Made
  <2>1. QED BY <1>1, <1>2, <1>3, PTL DEF TagSpec

-----------------------------------------------------------------------------
(* The comparison, hashing and printing of values.  What a value consists of.       *)
LEMMA ShapeOfData ==
  ASSUME NEW v \in Data
  PROVE  /\ v.kind = "int"    => v \in [kind : {"int"}, n : -(Words \div 4) .. (Words \div 4) - 1]
         /\ v.kind = "string" => v \in [kind : {"string"}, bytes : Seq(0 .. 255)]
         /\ v.kind = "array"  => v \in [kind : {"array"}, elems : Seq(Data)]
         /\ v.kind \in {"sexp", "closure"} =>
              v \in [kind : {"sexp", "closure"}, tag : 0 .. (Words \div 4) - 1, elems : Seq(Data)]
         /\ v.kind \in {"int", "string", "array", "sexp", "closure"}
  BY DataAssumption DEF Shapes

LEMMA PartsOfData ==
  ASSUME NEW v \in Data
  PROVE  /\ Parts(v) \in Seq(Data)
         /\ v.kind \in {"int", "string"} => Parts(v) = <<>>
         /\ v.kind \notin {"int", "string"} => v.elems = Parts(v)
         /\ \A i \in DOMAIN Parts(v) : Parts(v)[i] \in Data /\ Nesting(Parts(v)[i]) < Nesting(v)
         /\ Nesting(v) \in Nat /\ Nesting(v) <= MaxNesting
         /\ Len(Parts(v)) + 1 < Words \div 4
<1>1. v.kind \notin {"int", "string"} => v.elems \in Seq(Data)
  BY ShapeOfData
<1>2. v.kind \in {"int", "string"} => Parts(v) \in Seq(Data)
  BY DEF Parts
<1>3. Parts(v) \in Seq(Data)
  BY <1>1, <1>2 DEF Parts
<1>4. \A i \in DOMAIN Parts(v) : Parts(v)[i] \in Data
  BY <1>3
<1>5. QED BY <1>3, <1>4, DataAssumption DEF Parts

(* What is defined over the parts of values is defined, for values are finite.      *)
LEMMA CutDefined ==
  Cut = [v \in Data |-> CutTo(v, [i \in DOMAIN Parts(v) |-> Cut[Parts(v)[i]]])]
<1> DEFINE Up(n) == {v \in Data : Nesting(v) < n}
           Right(f, n) == f = [v \in Up(n) |-> CutTo(v, [i \in DOMAIN Parts(v) |-> f[Parts(v)[i]]])]
           Bad == {n \in Nat : ~\E f : Right(f, n)}
<1>1. ASSUME Bad # {} PROVE FALSE
  <2>1. PICK n \in Bad : \A k \in Bad : n <= k
    <3>1. Bad \in SUBSET Nat
      OBVIOUS
    <3>2. QED
      <4> HIDE DEF Bad
      <4> QED BY <1>1, <3>1, LeastNumber
  <2>2. n \in Nat
    OBVIOUS
  <2>3. n # 0 => \E f : Right(f, n - 1)
    <3>1. n # 0 => n - 1 \in Nat /\ n - 1 \notin Bad
      <4> HIDE DEF Bad
      <4> QED BY <2>1, <2>2
    <3>2. QED BY <3>1
  <2>4. PICK f : n # 0 => Right(f, n - 1)
    <3> HIDE DEF Right
    <3> QED BY <2>3
  <2> DEFINE g == [v \in Up(n) |-> CutTo(v, [i \in DOMAIN Parts(v) |-> f[Parts(v)[i]]])]
  <2>5. ASSUME NEW v \in Up(n) PROVE g[v] = CutTo(v, [i \in DOMAIN Parts(v) |-> g[Parts(v)[i]]])
    <3>1. ASSUME NEW k \in DOMAIN Parts(v) PROVE g[Parts(v)[k]] = f[Parts(v)[k]]
      <4> DEFINE w == Parts(v)[k]
      <4>1. w \in Data /\ Nesting(w) \in Nat /\ Nesting(v) \in Nat /\ Nesting(w) < Nesting(v)
        BY PartsOfData
      <4>2. w \in Up(n) /\ w \in Up(n - 1) /\ n # 0
        BY <2>2, <4>1
      <4>3. f[w] = CutTo(w, [i \in DOMAIN Parts(w) |-> f[Parts(w)[i]]])
        BY <2>4, <4>2
      <4>4. g[w] = CutTo(w, [i \in DOMAIN Parts(w) |-> f[Parts(w)[i]]])
        BY <4>2
      <4>5. QED BY <4>3, <4>4
    <3>2. [i \in DOMAIN Parts(v) |-> g[Parts(v)[i]]] = [i \in DOMAIN Parts(v) |-> f[Parts(v)[i]]]
      <4> HIDE DEF g
      <4> QED BY <3>1
    <3>3. g[v] = CutTo(v, [i \in DOMAIN Parts(v) |-> f[Parts(v)[i]]])
      OBVIOUS
    <3>4. QED
      <4> HIDE DEF g
      <4> QED BY <3>2, <3>3
  <2>6. Right(g, n)
    <3>1. g = [v \in Up(n) |-> g[v]]
      OBVIOUS
    <3>2. QED
      <4> HIDE DEF g, Up
      <4> QED BY <2>5, <3>1
  <2>7. QED BY <2>2, <2>6
<1>2. MaxNesting + 1 \in Nat
  BY DataAssumption
<1>3. PICK h : Right(h, MaxNesting + 1)
  BY <1>1, <1>2
<1>4. Up(MaxNesting + 1) = Data
  BY PartsOfData, <1>2, DataAssumption
<1>5. \E f : f = [v \in Data |-> CutTo(v, [i \in DOMAIN Parts(v) |-> f[Parts(v)[i]]])]
  <2> HIDE DEF Up
  <2> QED BY <1>3, <1>4
<1>6. QED BY <1>5 DEF Cut

LEMMA LengthsDefined ==
  Lengths = [v \in Data |-> LengthsOf(v, [i \in DOMAIN Parts(v) |-> Lengths[Parts(v)[i]]])]
<1> DEFINE Up(n) == {v \in Data : Nesting(v) < n}
           Right(f, n) == f = [v \in Up(n) |-> LengthsOf(v, [i \in DOMAIN Parts(v) |-> f[Parts(v)[i]]])]
           Bad == {n \in Nat : ~\E f : Right(f, n)}
<1>1. ASSUME Bad # {} PROVE FALSE
  <2>1. PICK n \in Bad : \A k \in Bad : n <= k
    <3>1. Bad \in SUBSET Nat
      OBVIOUS
    <3>2. QED
      <4> HIDE DEF Bad
      <4> QED BY <1>1, <3>1, LeastNumber
  <2>2. n \in Nat
    OBVIOUS
  <2>3. n # 0 => \E f : Right(f, n - 1)
    <3>1. n # 0 => n - 1 \in Nat /\ n - 1 \notin Bad
      <4> HIDE DEF Bad
      <4> QED BY <2>1, <2>2
    <3>2. QED BY <3>1
  <2>4. PICK f : n # 0 => Right(f, n - 1)
    <3> HIDE DEF Right
    <3> QED BY <2>3
  <2> DEFINE g == [v \in Up(n) |-> LengthsOf(v, [i \in DOMAIN Parts(v) |-> f[Parts(v)[i]]])]
  <2>5. ASSUME NEW v \in Up(n) PROVE g[v] = LengthsOf(v, [i \in DOMAIN Parts(v) |-> g[Parts(v)[i]]])
    <3>1. ASSUME NEW k \in DOMAIN Parts(v) PROVE g[Parts(v)[k]] = f[Parts(v)[k]]
      <4> DEFINE w == Parts(v)[k]
      <4>1. w \in Data /\ Nesting(w) \in Nat /\ Nesting(v) \in Nat /\ Nesting(w) < Nesting(v)
        BY PartsOfData
      <4>2. w \in Up(n) /\ w \in Up(n - 1) /\ n # 0
        BY <2>2, <4>1
      <4>3. f[w] = LengthsOf(w, [i \in DOMAIN Parts(w) |-> f[Parts(w)[i]]])
        BY <2>4, <4>2
      <4>4. g[w] = LengthsOf(w, [i \in DOMAIN Parts(w) |-> f[Parts(w)[i]]])
        BY <4>2
      <4>5. QED BY <4>3, <4>4
    <3>2. [i \in DOMAIN Parts(v) |-> g[Parts(v)[i]]] = [i \in DOMAIN Parts(v) |-> f[Parts(v)[i]]]
      <4> HIDE DEF g
      <4> QED BY <3>1
    <3>3. g[v] = LengthsOf(v, [i \in DOMAIN Parts(v) |-> f[Parts(v)[i]]])
      OBVIOUS
    <3>4. QED
      <4> HIDE DEF g
      <4> QED BY <3>2, <3>3
  <2>6. Right(g, n)
    <3>1. g = [v \in Up(n) |-> g[v]]
      OBVIOUS
    <3>2. QED
      <4> HIDE DEF g, Up
      <4> QED BY <2>5, <3>1
  <2>7. QED BY <2>2, <2>6
<1>2. MaxNesting + 1 \in Nat
  BY DataAssumption
<1>3. PICK h : Right(h, MaxNesting + 1)
  BY <1>1, <1>2
<1>4. Up(MaxNesting + 1) = Data
  BY PartsOfData, <1>2, DataAssumption
<1>5. \E f : f = [v \in Data |-> LengthsOf(v, [i \in DOMAIN Parts(v) |-> f[Parts(v)[i]]])]
  <2> HIDE DEF Up
  <2> QED BY <1>3, <1>4
<1>6. QED BY <1>5 DEF Lengths

LEMMA BoundedDefined ==
  bounded = [v \in Data |-> [bound \in Nat |-> Within(v, bound,
        [i \in DOMAIN Parts(v) |-> bounded[Parts(v)[i]]])]]
<1> DEFINE Up(n) == {v \in Data : Nesting(v) < n}
           Right(f, n) == f = [v \in Up(n) |-> [bound \in Nat |-> Within(v, bound,
                 [i \in DOMAIN Parts(v) |-> f[Parts(v)[i]]])]]
           Bad == {n \in Nat : ~\E f : Right(f, n)}
<1>1. ASSUME Bad # {} PROVE FALSE
  <2>1. PICK n \in Bad : \A k \in Bad : n <= k
    <3>1. Bad \in SUBSET Nat
      OBVIOUS
    <3>2. QED
      <4> HIDE DEF Bad
      <4> QED BY <1>1, <3>1, LeastNumber
  <2>2. n \in Nat
    OBVIOUS
  <2>3. n # 0 => \E f : Right(f, n - 1)
    <3>1. n # 0 => n - 1 \in Nat /\ n - 1 \notin Bad
      <4> HIDE DEF Bad
      <4> QED BY <2>1, <2>2
    <3>2. QED BY <3>1
  <2>4. PICK f : n # 0 => Right(f, n - 1)
    <3> HIDE DEF Right
    <3> QED BY <2>3
  <2> DEFINE g == [v \in Up(n) |-> [bound \in Nat |-> Within(v, bound,
        [i \in DOMAIN Parts(v) |-> f[Parts(v)[i]]])]]
  <2>5. ASSUME NEW v \in Up(n) PROVE g[v] = [bound \in Nat |-> Within(v, bound,
        [i \in DOMAIN Parts(v) |-> g[Parts(v)[i]]])]
    <3>1. ASSUME NEW k \in DOMAIN Parts(v) PROVE g[Parts(v)[k]] = f[Parts(v)[k]]
      <4> DEFINE w == Parts(v)[k]
      <4>1. w \in Data /\ Nesting(w) \in Nat /\ Nesting(v) \in Nat /\ Nesting(w) < Nesting(v)
        BY PartsOfData
      <4>2. w \in Up(n) /\ w \in Up(n - 1) /\ n # 0
        BY <2>2, <4>1
      <4>3. f[w] = [bound \in Nat |-> Within(w, bound, [i \in DOMAIN Parts(w) |-> f[Parts(w)[i]]])]
        BY <2>4, <4>2
      <4>4. g[w] = [bound \in Nat |-> Within(w, bound, [i \in DOMAIN Parts(w) |-> f[Parts(w)[i]]])]
        BY <4>2
      <4>5. QED BY <4>3, <4>4
    <3>2. [i \in DOMAIN Parts(v) |-> g[Parts(v)[i]]] = [i \in DOMAIN Parts(v) |-> f[Parts(v)[i]]]
      <4> HIDE DEF g
      <4> QED BY <3>1
    <3>3. g[v] = [bound \in Nat |-> Within(v, bound, [i \in DOMAIN Parts(v) |-> f[Parts(v)[i]]])]
      OBVIOUS
    <3>4. QED
      <4> HIDE DEF g
      <4> QED BY <3>2, <3>3
  <2>6. Right(g, n)
    <3>1. g = [v \in Up(n) |-> g[v]]
      OBVIOUS
    <3>2. QED
      <4> HIDE DEF g, Up
      <4> QED BY <2>5, <3>1
  <2>7. QED BY <2>2, <2>6
<1>2. MaxNesting + 1 \in Nat
  BY DataAssumption
<1>3. PICK h : Right(h, MaxNesting + 1)
  BY <1>1, <1>2
<1>4. Up(MaxNesting + 1) = Data
  BY PartsOfData, <1>2, DataAssumption
<1>5. \E f : f = [v \in Data |-> [bound \in Nat |-> Within(v, bound,
      [i \in DOMAIN Parts(v) |-> f[Parts(v)[i]]])]]
  <2> HIDE DEF Up
  <2> QED BY <1>3, <1>4
<1>6. QED BY <1>5 DEF bounded

LEMMA HashDefined ==
  inner_hash = [v \in Data |-> [at \in Nat \X Nat |-> Hashed(v, at[1], at[2],
        [i \in DOMAIN Parts(v) |-> inner_hash[Parts(v)[i]]])]]
<1> DEFINE Up(n) == {v \in Data : Nesting(v) < n}
           Right(f, n) == f = [v \in Up(n) |-> [at \in Nat \X Nat |-> Hashed(v, at[1], at[2],
                 [i \in DOMAIN Parts(v) |-> f[Parts(v)[i]]])]]
           Bad == {n \in Nat : ~\E f : Right(f, n)}
<1>1. ASSUME Bad # {} PROVE FALSE
  <2>1. PICK n \in Bad : \A k \in Bad : n <= k
    <3>1. Bad \in SUBSET Nat
      OBVIOUS
    <3>2. QED
      <4> HIDE DEF Bad
      <4> QED BY <1>1, <3>1, LeastNumber
  <2>2. n \in Nat
    OBVIOUS
  <2>3. n # 0 => \E f : Right(f, n - 1)
    <3>1. n # 0 => n - 1 \in Nat /\ n - 1 \notin Bad
      <4> HIDE DEF Bad
      <4> QED BY <2>1, <2>2
    <3>2. QED BY <3>1
  <2>4. PICK f : n # 0 => Right(f, n - 1)
    <3> HIDE DEF Right
    <3> QED BY <2>3
  <2> DEFINE g == [v \in Up(n) |-> [at \in Nat \X Nat |-> Hashed(v, at[1], at[2],
        [i \in DOMAIN Parts(v) |-> f[Parts(v)[i]]])]]
  <2>5. ASSUME NEW v \in Up(n) PROVE g[v] = [at \in Nat \X Nat |-> Hashed(v, at[1], at[2],
        [i \in DOMAIN Parts(v) |-> g[Parts(v)[i]]])]
    <3>1. ASSUME NEW k \in DOMAIN Parts(v) PROVE g[Parts(v)[k]] = f[Parts(v)[k]]
      <4> DEFINE w == Parts(v)[k]
      <4>1. w \in Data /\ Nesting(w) \in Nat /\ Nesting(v) \in Nat /\ Nesting(w) < Nesting(v)
        BY PartsOfData
      <4>2. w \in Up(n) /\ w \in Up(n - 1) /\ n # 0
        BY <2>2, <4>1
      <4>3. f[w] = [at \in Nat \X Nat |-> Hashed(w, at[1], at[2],
            [i \in DOMAIN Parts(w) |-> f[Parts(w)[i]]])]
        BY <2>4, <4>2
      <4>4. g[w] = [at \in Nat \X Nat |-> Hashed(w, at[1], at[2],
            [i \in DOMAIN Parts(w) |-> f[Parts(w)[i]]])]
        BY <4>2
      <4>5. QED BY <4>3, <4>4
    <3>2. [i \in DOMAIN Parts(v) |-> g[Parts(v)[i]]] = [i \in DOMAIN Parts(v) |-> f[Parts(v)[i]]]
      <4> HIDE DEF g
      <4> QED BY <3>1
    <3>3. g[v] = [at \in Nat \X Nat |-> Hashed(v, at[1], at[2],
          [i \in DOMAIN Parts(v) |-> f[Parts(v)[i]]])]
      OBVIOUS
    <3>4. QED
      <4> HIDE DEF g
      <4> QED BY <3>2, <3>3
  <2>6. Right(g, n)
    <3>1. g = [v \in Up(n) |-> g[v]]
      OBVIOUS
    <3>2. QED
      <4> HIDE DEF g, Up
      <4> QED BY <2>5, <3>1
  <2>7. QED BY <2>2, <2>6
<1>2. MaxNesting + 1 \in Nat
  BY DataAssumption
<1>3. PICK h : Right(h, MaxNesting + 1)
  BY <1>1, <1>2
<1>4. Up(MaxNesting + 1) = Data
  BY PartsOfData, <1>2, DataAssumption
<1>5. \E f : f = [v \in Data |-> [at \in Nat \X Nat |-> Hashed(v, at[1], at[2],
      [i \in DOMAIN Parts(v) |-> f[Parts(v)[i]]])]]
  <2> HIDE DEF Up
  <2> QED BY <1>3, <1>4
<1>6. QED BY <1>5 DEF inner_hash

LEMMA CompareDefined ==
  ASSUME NEW p \in Data, NEW q \in Data
  PROVE  compare[<<p, q>>] = Compared(p, q,
        [i \in DOMAIN Parts(p) \cap DOMAIN Parts(q) |-> compare[<<Parts(p)[i], Parts(q)[i]>>]])
<1> DEFINE Up(n) == {pair \in Data \X Data : Nesting(pair[1]) < n}
           Body(f, pair) == Compared(pair[1], pair[2],
                 [i \in DOMAIN Parts(pair[1]) \cap DOMAIN Parts(pair[2]) |-> f[<<Parts(pair[1])[i], Parts(pair[2])[i]>>]])
           Right(f, n) == f = [pair \in Up(n) |-> Body(f, pair)]
           Bad == {n \in Nat : ~\E f : Right(f, n)}
<1>1. ASSUME Bad # {} PROVE FALSE
  <2>1. PICK n \in Bad : \A k \in Bad : n <= k
    <3>1. Bad \in SUBSET Nat
      OBVIOUS
    <3>2. QED
      <4> HIDE DEF Bad
      <4> QED BY <1>1, <3>1, LeastNumber
  <2>2. n \in Nat
    OBVIOUS
  <2>3. n # 0 => \E f : Right(f, n - 1)
    <3>1. n # 0 => n - 1 \in Nat /\ n - 1 \notin Bad
      <4> HIDE DEF Bad
      <4> QED BY <2>1, <2>2
    <3>2. QED
      <4> HIDE DEF Right
      <4> QED BY <3>1
  <2>4. PICK f : n # 0 => Right(f, n - 1)
    <3> HIDE DEF Right
    <3> QED BY <2>3
  <2> DEFINE g == [pair \in Up(n) |-> Body(f, pair)]
  <2>5. ASSUME NEW pair \in Up(n) PROVE g[pair] = Body(g, pair)
    <3> DEFINE x == pair[1]
               y == pair[2]
    <3>1. x \in Data /\ y \in Data /\ Nesting(x) < n
      OBVIOUS
    <3>2. ASSUME NEW i \in DOMAIN Parts(x) \cap DOMAIN Parts(y)
          PROVE  g[<<Parts(x)[i], Parts(y)[i]>>] = f[<<Parts(x)[i], Parts(y)[i]>>]
      <4> DEFINE u == <<Parts(x)[i], Parts(y)[i]>>
      <4>1. /\ Parts(x)[i] \in Data /\ Nesting(Parts(x)[i]) < Nesting(x)
            /\ Nesting(Parts(x)[i]) \in Nat /\ Nesting(x) \in Nat
        <5> HIDE DEF x
        <5>1. Parts(x)[i] \in Data /\ Nesting(Parts(x)[i]) < Nesting(x) /\ Nesting(x) \in Nat
          BY <3>1, <3>2, PartsOfData
        <5>2. QED BY <5>1, PartsOfData
      <4>2. Parts(y)[i] \in Data
        <5> HIDE DEF y
        <5> QED BY <3>1, <3>2, PartsOfData
      <4>3. u \in Up(n) /\ u \in Up(n - 1) /\ n # 0
        <5> HIDE DEF x, y
        <5>1. u \in Data \X Data /\ u[1] = Parts(x)[i]
          BY <4>1, <4>2
        <5> HIDE DEF u
        <5>2. Nesting(u[1]) \in Nat /\ Nesting(u[1]) < n - 1 /\ n # 0
          BY <2>2, <3>1, <4>1, <5>1
        <5>3. QED BY <2>2, <5>1, <5>2
      <4>4. f[u] = Body(f, u)
        <5> HIDE DEF u, Body, Up
        <5> QED BY <2>4, <4>3
      <4>5. g[u] = Body(f, u)
        <5> HIDE DEF u, Body, Up
        <5> QED BY <4>3
      <4>6. QED BY <4>4, <4>5
    <3>3. [i \in DOMAIN Parts(x) \cap DOMAIN Parts(y) |-> g[<<Parts(x)[i], Parts(y)[i]>>]] =
          [i \in DOMAIN Parts(x) \cap DOMAIN Parts(y) |-> f[<<Parts(x)[i], Parts(y)[i]>>]]
      <4> HIDE DEF g, x, y
      <4> QED BY <3>2
    <3>4. g[pair] = Body(f, pair)
      <4> HIDE DEF Body, Up
      <4> QED OBVIOUS
    <3>5. Body(g, pair) = Body(f, pair)
      <4> HIDE DEF g
      <4> QED BY <3>3
    <3>6. QED BY <3>4, <3>5
  <2>6. Right(g, n)
    <3>1. g = [pair \in Up(n) |-> g[pair]]
      OBVIOUS
    <3>2. QED
      <4> HIDE DEF g, Up, Body
      <4> QED BY <2>5, <3>1
  <2>7. QED
    <3> HIDE DEF Right, g
    <3> QED BY <2>2, <2>6
<1>2. MaxNesting + 1 \in Nat
  BY DataAssumption
<1>3. PICK h : Right(h, MaxNesting + 1)
  <2> HIDE DEF Right
  <2> QED BY <1>1, <1>2
<1>4. Up(MaxNesting + 1) = Data \X Data
  <2>1. ASSUME NEW pair \in Data \X Data PROVE Nesting(pair[1]) < MaxNesting + 1
    BY PartsOfData, <1>2, DataAssumption
  <2>2. QED BY <2>1
<1>5. \E f : f = [pair \in Data \X Data |-> Body(f, pair)]
  <2> HIDE DEF Up, Body
  <2> QED BY <1>3, <1>4
<1>6. compare = [pair \in Data \X Data |-> Body(compare, pair)]
  BY <1>5 DEF compare
<1>7. <<p, q>> \in Data \X Data
  OBVIOUS
<1>8. compare[<<p, q>>] = Body(compare, <<p, q>>)
  <2> HIDE DEF Body
  <2> QED BY <1>6, <1>7
<1>9. QED BY <1>8

(* BOX, in words of a multiple of 16 numbers.                                       *)
LEMMA WordsAre == \E k \in Nat : k >= 1 /\ Words = 16 * k
<1>1. PICK h \in Nat : HalfWord = 4 * h
  <2>1. HalfWord \in Nat /\ HalfWord % 4 = 0
    BY DataAssumption
  <2>2. QED BY <2>1
<1>2. h >= 1
  BY <1>1, DataAssumption
<1>3. h * h \in Nat /\ h * h >= 1
  BY <1>2
<1>4. Words = 16 * (h * h)
  BY <1>1 DEF Words
<1>5. QED BY <1>3, <1>4

Wraps(n, k) == \E j \in Int : Word(n) = n - 16 * (j * k)

LEMMA WordIs ==
  ASSUME NEW k \in Nat, k >= 1, Words = 16 * k, NEW n \in Int
  PROVE  /\ Word(n) \in -(8 * k) .. 8 * k - 1
         /\ Wraps(n, k)
<1> DEFINE m == n + 8 * k
           W == 16 * k
<1>1. Word(n) = (m % W) - 8 * k
  <2>1. Words \div 2 = 8 * k
    OBVIOUS
  <2>2. QED BY <2>1 DEF Word
<1>2. m \in Int /\ W \in Nat /\ W > 0
  OBVIOUS
<1>3. m = W * (m \div W) + (m % W) /\ m % W \in 0 .. W - 1 /\ m \div W \in Int
  <2> HIDE DEF m, W
  <2> QED BY <1>2
<1>4. PICK j \in Int : j = m \div W
  BY <1>3
<1>5. W * j = 16 * (j * k)
  <2>1. j * k \in Int
    OBVIOUS
  <2>2. QED BY <2>1
<1>6. j * k \in Int
  OBVIOUS
<1>7. m % W \in Int /\ m % W = m - 16 * (j * k)
  <2> HIDE DEF m, W
  <2> QED BY <1>2, <1>3, <1>4, <1>5, <1>6
<1>8. Word(n) = n - 16 * (j * k)
  BY <1>1, <1>6, <1>7
<1>9. m % W <= 16 * k - 1 /\ 0 <= m % W
  BY <1>3
<1>10. QED BY <1>1, <1>7, <1>8, <1>9 DEF Wraps

(* What is in the range of a word is a word; so a box of what has a bit less.       *)
LEMMA BoxIs ==
  ASSUME NEW n \in Int, n >= -(Words \div 4), n < Words \div 4
  PROVE  Box(n) = 2 * n + 1
<1>1. PICK k \in Nat : k >= 1 /\ Words = 16 * k
  BY WordsAre
<1>2. n >= -(4 * k) /\ n < 4 * k
  BY <1>1
<1>3. Word(2 * n + 1) \in -(8 * k) .. 8 * k - 1
  BY <1>1, WordIs
<1>4. PICK j \in Int : Word(2 * n + 1) = 2 * n + 1 - 16 * (j * k)
  <2>1. Wraps(2 * n + 1, k)
    BY <1>1, WordIs
  <2>2. QED BY <2>1 DEF Wraps
<1>5. j * k \in Int
  OBVIOUS
<1>6. 16 * (j * k) < 16 * k /\ 16 * (j * k) > -(16 * k)
  BY <1>2, <1>3, <1>4, <1>5
<1>7. j = 0
  <2>1. j >= 1 => j * k >= k
    OBVIOUS
  <2>2. j <= -1 => j * k <= -k
    OBVIOUS
  <2>3. QED BY <1>5, <1>6, <2>1, <2>2
<1>8. j * k = 0
  BY <1>7
<1>9. QED BY <1>4, <1>8 DEF Box

LEMMA BoxOfZero == Box(0) = 1
<1>1. PICK k \in Nat : k >= 1 /\ Words = 16 * k
  BY WordsAre
<1>2. 0 >= -(Words \div 4) /\ 0 < Words \div 4
  BY <1>1
<1>3. Box(0) = 2 * 0 + 1
  BY <1>2, BoxIs
<1>4. QED BY <1>3

(* A box is odd.                                                                    *)
LEMMA BoxOdd == ASSUME NEW n \in Int PROVE \E c \in Int : Box(n) = 2 * c + 1
<1>1. PICK k \in Nat : k >= 1 /\ Words = 16 * k
  BY WordsAre
<1>2. PICK j \in Int : Word(2 * n + 1) = 2 * n + 1 - 16 * (j * k)
  <2>1. Wraps(2 * n + 1, k)
    BY <1>1, WordIs
  <2>2. QED BY <2>1 DEF Wraps
<1>3. j * k \in Int
  OBVIOUS
<1>4. n - 8 * (j * k) \in Int /\ Box(n) = 2 * (n - 8 * (j * k)) + 1
  BY <1>2, <1>3 DEF Box
<1>5. QED BY <1>4

(* A box may lose the highest bit; it is not the box of 0 if another is set.        *)
LEMMA BoxNotZero ==
  ASSUME NEW n \in Int,
         (\E c \in Int : n = 2 * c + 1) \/ (n # 0 /\ n > -(Words \div 2) /\ n < Words \div 2)
  PROVE  Box(n) # Box(0)
<1>1. PICK k \in Nat : k >= 1 /\ Words = 16 * k
  BY WordsAre
<1>2. PICK j \in Int : Word(2 * n + 1) = 2 * n + 1 - 16 * (j * k)
  <2>1. Wraps(2 * n + 1, k)
    BY <1>1, WordIs
  <2>2. QED BY <2>1 DEF Wraps
<1>3. j * k \in Int
  OBVIOUS
<1> SUFFICES ASSUME Box(n) = 1 PROVE FALSE
  BY BoxOfZero
<1>4. n = 8 * (j * k)
  BY <1>2, <1>3 DEF Box
<1>5. ASSUME NEW c \in Int, n = 2 * c + 1 PROVE FALSE
  BY <1>3, <1>4, <1>5
<1>6. CASE n # 0 /\ n > -(8 * k) /\ n < 8 * k
  <2>1. j * k < k /\ j * k > -k /\ j * k # 0
    BY <1>3, <1>4, <1>6
  <2>2. j >= 1 => j * k >= k
    OBVIOUS
  <2>3. j <= -1 => j * k <= -k
    OBVIOUS
  <2>4. j = 0
    BY <2>1, <2>2, <2>3, <1>3
  <2>5. QED BY <2>1, <2>4
<1>7. Words \div 2 = 8 * k
  BY <1>1
<1>8. QED BY <1>5, <1>6, <1>7

(* What is compared before the elements.                                            *)
LEMMA HeadingIs ==
  ASSUME NEW v \in Data, v.kind # "int"
  PROVE  /\ v.kind = "string" => Heading(v) = <<1>>
         /\ v.kind = "array" => Heading(v) = <<3, Len(Parts(v))>>
         /\ v.kind = "sexp" => Heading(v) = <<5, v.tag, Len(Parts(v))>>
         /\ v.kind = "closure" => Heading(v) = <<7, v.tag, Len(Parts(v)) + 1>>
         /\ v.kind \in {"sexp", "closure"} => v.tag \in Nat /\ v.tag < Words \div 4
         /\ v.kind \in {"string", "array", "sexp", "closure"}
         /\ Len(Parts(v)) \in Nat /\ Len(Parts(v)) + 1 < Words \div 4
<1>1. v.kind \in {"string", "array", "sexp", "closure"}
  BY ShapeOfData
<1>2. v.kind # "string" => v.elems = Parts(v)
  BY PartsOfData
<1>3. Len(Parts(v)) \in Nat /\ Len(Parts(v)) + 1 < Words \div 4
  BY PartsOfData
<1>4. v.kind \in {"sexp", "closure"} => v.tag \in 0 .. (Words \div 4) - 1
  BY ShapeOfData
<1>5. PICK k \in Nat : k >= 1 /\ Words = 16 * k
  BY WordsAre
<1>6. v.kind \in {"sexp", "closure"} => v.tag \in Nat /\ v.tag < Words \div 4
  BY <1>4, <1>5
<1>7. QED BY <1>1, <1>2, <1>3, <1>6 DEF Heading, Length, KindTag

LEMMA HeadingNumbers ==
  ASSUME NEW v \in Data, v.kind # "int"
  PROVE  /\ Heading(v) \in Seq(Nat) /\ Len(Heading(v)) \in 1 .. 3
         /\ \A i \in DOMAIN Heading(v) : Heading(v)[i] < Words \div 2
<1>1. PICK k \in Nat : k >= 1 /\ Words = 16 * k
  BY WordsAre
<1>2. Words \div 4 = 4 * k /\ Words \div 2 = 8 * k
  BY <1>1
<1>3. CASE v.kind = "string"
  <2>1. Heading(v) = <<1>>
    BY <1>3, HeadingIs
  <2>2. QED BY <1>1, <1>2, <2>1
<1>4. CASE v.kind = "array"
  <2>1. Heading(v) = <<3, Len(Parts(v))>> /\ Len(Parts(v)) \in Nat /\ Len(Parts(v)) + 1 < 4 * k
    BY <1>2, <1>4, HeadingIs
  <2>2. QED BY <1>1, <1>2, <2>1
<1>5. CASE v.kind = "sexp"
  <2>1. /\ Heading(v) = <<5, v.tag, Len(Parts(v))>> /\ Len(Parts(v)) \in Nat
        /\ Len(Parts(v)) + 1 < 4 * k /\ v.tag \in Nat /\ v.tag < 4 * k
    BY <1>2, <1>5, HeadingIs
  <2>2. QED BY <1>1, <1>2, <2>1
<1>6. CASE v.kind = "closure"
  <2>1. /\ Heading(v) = <<7, v.tag, Len(Parts(v)) + 1>> /\ Len(Parts(v)) \in Nat
        /\ Len(Parts(v)) + 1 < 4 * k /\ v.tag \in Nat /\ v.tag < 4 * k
    BY <1>2, <1>6, HeadingIs
  <2>2. QED BY <1>1, <1>2, <2>1
<1>7. QED BY <1>3, <1>4, <1>5, <1>6, HeadingIs

LEMMA HeadingsEqual ==
  ASSUME NEW p \in Data, NEW q \in Data, p.kind # "int", q.kind # "int",
         \A i \in DOMAIN Heading(p) \cap DOMAIN Heading(q) : Heading(p)[i] = Heading(q)[i]
  PROVE  /\ Heading(p) = Heading(q) /\ p.kind = q.kind /\ DOMAIN Parts(p) = DOMAIN Parts(q)
         /\ p.kind \in {"sexp", "closure"} => p.tag = q.tag
<1>1. 1 \in DOMAIN Heading(p) \cap DOMAIN Heading(q)
  BY HeadingNumbers
<1>2. Heading(p)[1] = Heading(q)[1]
  BY <1>1
<1>3. p.kind = q.kind
  <2>1. \A v \in {p, q} :
          Heading(v)[1] = IF v.kind = "string" THEN 1 ELSE IF v.kind = "array" THEN 3
                          ELSE IF v.kind = "sexp" THEN 5 ELSE 7
    BY HeadingIs
  <2>2. QED BY <1>2, <2>1, HeadingIs
<1>4. CASE p.kind = "string"
  <2>1. Heading(p) = <<1>> /\ Heading(q) = <<1>> /\ Parts(p) = <<>> /\ Parts(q) = <<>>
    BY <1>3, <1>4, HeadingIs, PartsOfData
  <2>2. QED BY <1>3, <1>4, <2>1
<1>5. CASE p.kind = "array"
  <2>1. Heading(p) = <<3, Len(Parts(p))>> /\ Heading(q) = <<3, Len(Parts(q))>>
    BY <1>3, <1>5, HeadingIs
  <2>2. 2 \in DOMAIN Heading(p) \cap DOMAIN Heading(q)
    BY <2>1
  <2>3. Heading(p)[2] = Heading(q)[2]
    BY <2>2
  <2>4. Len(Parts(p)) = Len(Parts(q))
    BY <2>1, <2>3
  <2>5. DOMAIN Parts(p) = DOMAIN Parts(q)
    BY <2>4, PartsOfData
  <2>6. QED BY <1>3, <1>5, <2>1, <2>4, <2>5
<1>6. CASE p.kind = "sexp"
  <2>1. Heading(p) = <<5, p.tag, Len(Parts(p))>> /\ Heading(q) = <<5, q.tag, Len(Parts(q))>>
    BY <1>3, <1>6, HeadingIs
  <2>2. {2, 3} \subseteq DOMAIN Heading(p) \cap DOMAIN Heading(q)
    BY <2>1
  <2>3. Heading(p)[2] = Heading(q)[2] /\ Heading(p)[3] = Heading(q)[3]
    BY <2>2
  <2>4. p.tag = q.tag /\ Len(Parts(p)) = Len(Parts(q))
    BY <2>1, <2>3
  <2>5. DOMAIN Parts(p) = DOMAIN Parts(q)
    BY <2>4, PartsOfData
  <2>6. QED BY <1>3, <1>6, <2>1, <2>4, <2>5
<1>7. CASE p.kind = "closure"
  <2>1. Heading(p) = <<7, p.tag, Len(Parts(p)) + 1>> /\ Heading(q) = <<7, q.tag, Len(Parts(q)) + 1>>
    BY <1>3, <1>7, HeadingIs
  <2>2. {2, 3} \subseteq DOMAIN Heading(p) \cap DOMAIN Heading(q)
    BY <2>1
  <2>3. Heading(p)[2] = Heading(q)[2] /\ Heading(p)[3] = Heading(q)[3]
    BY <2>2
  <2>4. p.tag = q.tag /\ Len(Parts(p)) = Len(Parts(q))
    BY <2>1, <2>3, HeadingIs
  <2>5. DOMAIN Parts(p) = DOMAIN Parts(q)
    BY <2>4, PartsOfData
  <2>6. QED BY <1>3, <1>7, <2>1, <2>4, <2>5
<1>8. QED BY <1>4, <1>5, <1>6, <1>7, HeadingIs

LEMMA MinOf ==
  ASSUME NEW S \in SUBSET Nat, S # {}
  PROVE  Min(S) \in S /\ \A k \in S : Min(S) <= k
<1>1. \E m \in S : \A k \in S : m <= k
  BY LeastNumber
<1>2. QED BY <1>1 DEF Min

(* The first difference of two headings.                                            *)
LEMMA DifferenceIs ==
  ASSUME NEW p \in Data, NEW q \in Data, p.kind # "int", q.kind # "int"
  PROVE  \/ HeadingDifference(p, q) = 0 /\ Heading(p) = Heading(q)
         \/ \E i \in DOMAIN Heading(p) \cap DOMAIN Heading(q) :
              /\ HeadingDifference(p, q) = Heading(p)[i] - Heading(q)[i]
              /\ Heading(p)[i] # Heading(q)[i]
              /\ \A j \in DOMAIN Heading(p) \cap DOMAIN Heading(q) :
                   j < i => Heading(p)[j] = Heading(q)[j]
<1> DEFINE differ == {i \in DOMAIN Heading(p) \cap DOMAIN Heading(q) : Heading(p)[i] # Heading(q)[i]}
<1>1. CASE differ = {}
  <2>1. Heading(p) = Heading(q)
    BY <1>1, HeadingsEqual
  <2>2. HeadingDifference(p, q) = 0
    BY <1>1 DEF HeadingDifference
  <2>3. QED BY <2>1, <2>2
<1>2. CASE differ # {}
  <2>1. differ \in SUBSET Nat
    BY HeadingNumbers
  <2>2. Min(differ) \in differ /\ \A k \in differ : Min(differ) <= k
    <3> HIDE DEF differ
    <3> QED BY <1>2, <2>1, MinOf
  <2>3. HeadingDifference(p, q) = Heading(p)[Min(differ)] - Heading(q)[Min(differ)]
    BY <1>2 DEF HeadingDifference
  <2>4. PICK i \in differ : i = Min(differ)
    BY <2>2
  <2>5. \A j \in DOMAIN Heading(p) \cap DOMAIN Heading(q) : j < i => Heading(p)[j] = Heading(q)[j]
    <3>1. ASSUME NEW j \in DOMAIN Heading(p) \cap DOMAIN Heading(q), j < i PROVE j \notin differ
      <4>1. j \in Nat /\ i \in Nat
        BY <2>1, <2>4, HeadingNumbers
      <4>2. j \in differ => i <= j
        BY <2>2, <2>4
      <4>3. QED BY <3>1, <4>1, <4>2
    <3>2. QED BY <3>1
  <2>6. QED BY <2>3, <2>4, <2>5
<1>3. QED BY <1>1, <1>2

(* Boxing a difference of headings, it is lost nowhere.                             *)
LEMMA DifferenceBoxed ==
  ASSUME NEW p \in Data, NEW q \in Data, p.kind # "int", q.kind # "int"
  PROVE  /\ HeadingDifference(p, q) \in Int
         /\ HeadingDifference(p, q) = 0 <=> Heading(p) = Heading(q)
         /\ HeadingDifference(p, q) # 0 => Box(HeadingDifference(p, q)) # Box(0)
<1>1. CASE HeadingDifference(p, q) = 0 /\ Heading(p) = Heading(q)
  BY <1>1
<1>2. ASSUME NEW i \in DOMAIN Heading(p) \cap DOMAIN Heading(q),
             HeadingDifference(p, q) = Heading(p)[i] - Heading(q)[i], Heading(p)[i] # Heading(q)[i]
      PROVE  /\ HeadingDifference(p, q) \in Int
             /\ HeadingDifference(p, q) = 0 <=> Heading(p) = Heading(q)
             /\ HeadingDifference(p, q) # 0 => Box(HeadingDifference(p, q)) # Box(0)
  <2>1. PICK a \in Nat : a = Heading(p)[i]
    BY HeadingNumbers
  <2>2. PICK b \in Nat : b = Heading(q)[i]
    BY HeadingNumbers
  <2>3. a < Words \div 2 /\ b < Words \div 2
    BY <2>1, <2>2, HeadingNumbers
  <2>4. PICK k \in Nat : k >= 1 /\ Words = 16 * k
    BY WordsAre
  <2>5. a - b \in Int /\ a - b # 0 /\ a - b > -(Words \div 2) /\ a - b < Words \div 2
    BY <1>2, <2>1, <2>2, <2>3, <2>4
  <2>6. Box(a - b) # Box(0)
    BY <2>5, BoxNotZero
  <2>7. QED BY <1>2, <2>1, <2>2, <2>5, <2>6
<1>3. QED BY <1>1, <1>2, DifferenceIs

LEMMA ElementsIn ==
  ASSUME NEW T, NEW s \in Seq(T)
  PROVE  /\ \A i \in DOMAIN s : i \in Nat /\ s[i] \in T
         /\ DOMAIN s = 1 .. Len(s) /\ Len(s) \in Nat
  OBVIOUS

LEMMA IsSeqOf ==
  ASSUME NEW T, NEW U, NEW s \in Seq(T), NEW n \in Nat, n <= Len(s), \A i \in 1 .. n : s[i] \in U
  PROVE  SubSeq(s, 1, n) \in Seq(U) /\ (n = Len(s) => SubSeq(s, 1, n) = s)
  OBVIOUS

LEMMA CharsAre ==
  ASSUME NEW s \in Seq(0 .. 255)
  PROVE  Chars(s) \in Seq(1 .. 255)
<1> DEFINE zeros == {i \in DOMAIN s : s[i] = 0}
<1>1. CASE zeros = {}
  <2>1. \A i \in 1 .. Len(s) : s[i] \in 1 .. 255
    <3>1. ASSUME NEW i \in DOMAIN s PROVE s[i] \in 1 .. 255
      <4>1. PICK b \in 0 .. 255 : b = s[i]
        BY ElementsIn
      <4>2. b # 0
        BY <1>1, <4>1
      <4>3. QED BY <4>1, <4>2
    <3>2. DOMAIN s = 1 .. Len(s)
      BY ElementsIn
    <3>3. QED BY <3>1, <3>2
  <2>2. s \in Seq(1 .. 255)
    <3>1. Len(s) \in Nat
      BY ElementsIn
    <3>2. SubSeq(s, 1, Len(s)) \in Seq(1 .. 255) /\ SubSeq(s, 1, Len(s)) = s
      BY <2>1, <3>1, IsSeqOf
    <3>3. QED BY <3>2
  <2>3. QED BY <1>1, <2>2 DEF Chars
<1>2. CASE zeros # {}
  <2>1. zeros \in SUBSET Nat
    OBVIOUS
  <2>2. Min(zeros) \in zeros /\ \A k \in zeros : Min(zeros) <= k
    <3> HIDE DEF zeros
    <3> QED BY <1>2, <2>1, MinOf
  <2>3. PICK m \in zeros : m = Min(zeros)
    BY <2>2
  <2>4. m \in 1 .. Len(s)
    BY <2>3
  <2>5. \A i \in 1 .. m - 1 : s[i] \in 1 .. 255
    <3>1. ASSUME NEW i \in 1 .. m - 1 PROVE i \notin zeros
      <4>1. i \in zeros => m <= i
        BY <2>2, <2>3
      <4>2. QED BY <2>4, <4>1
    <3>2. \A i \in 1 .. m - 1 : i \in DOMAIN s /\ s[i] # 0
      BY <2>4, <3>1
    <3>3. \A i \in 1 .. m - 1 : s[i] \in 0 .. 255
      BY <3>2, ElementsIn
    <3>4. QED BY <3>2, <3>3
  <2>6. SubSeq(s, 1, m - 1) \in Seq(1 .. 255)
    <3>1. m - 1 \in Nat /\ m - 1 <= Len(s)
      BY <2>4
    <3>2. QED BY <2>5, <3>1, IsSeqOf
  <2>7. Chars(s) = SubSeq(s, 1, m - 1)
    BY <1>2, <2>3 DEF Chars
  <2>8. QED BY <2>6, <2>7
<1>3. QED BY <1>1, <1>2

LEMMA CharOrderIs ==
  ASSUME NEW s \in Seq(1 .. 255), NEW t \in Seq(1 .. 255)
  PROVE  CharOrder(s, t) \in -1 .. 1 /\ (CharOrder(s, t) = 0 <=> s = t)
<1> DEFINE differ == {i \in DOMAIN s \cap DOMAIN t : s[i] # t[i]}
<1>1. CASE differ = {}
  <2>1. CharOrder(s, t) = Sign(Len(s) - Len(t))
    BY <1>1 DEF CharOrder
  <2>2. Len(s) = Len(t) => s = t
    <3>1. \A i \in 1 .. Len(s) : i \in 1 .. Len(t) => s[i] = t[i]
      BY <1>1
    <3>2. QED BY <3>1
  <2>3. QED BY <2>1, <2>2 DEF Sign
<1>2. CASE differ # {}
  <2>1. differ \in SUBSET Nat
    OBVIOUS
  <2>2. Min(differ) \in differ
    <3> HIDE DEF differ
    <3> QED BY <1>2, <2>1, MinOf
  <2>3. CharOrder(s, t) = Sign(s[Min(differ)] - t[Min(differ)])
    BY <1>2 DEF CharOrder
  <2>4. PICK m \in differ : m = Min(differ)
    BY <2>2
  <2>5. s[m] \in 1 .. 255 /\ t[m] \in 1 .. 255 /\ s[m] # t[m]
    BY <2>4, ElementsIn
  <2>6. CharOrder(s, t) = Sign(s[m] - t[m])
    BY <2>3, <2>4
  <2>7. CharOrder(s, t) \in {-1, 1}
    <3>1. PICK a \in 1 .. 255 : a = s[m]
      BY <2>5
    <3>2. PICK b \in 1 .. 255 : b = t[m]
      BY <2>5
    <3>3. a # b /\ CharOrder(s, t) = Sign(a - b)
      BY <2>5, <2>6, <3>1, <3>2
    <3>4. QED BY <3>3 DEF Sign
  <2>8. s # t
    BY <2>5
  <2>9. QED BY <2>7, <2>8
<1>3. QED BY <1>1, <1>2

(* How large strcmp's result is does not matter: it is boxed without loss.          *)
LEMMA StrcmpIs ==
  ASSUME NEW p \in Data, NEW q \in Data, p.kind = "string", q.kind = "string"
  PROVE  LET s == Chars(p.bytes)  t == Chars(q.bytes)
         IN  /\ s \in Seq(1 .. 255) /\ t \in Seq(1 .. 255)
             /\ MaxApart \in Nat /\ 2 * MaxApart < Words
             /\ strcmp(s, t) \in -MaxApart .. MaxApart
             /\ (strcmp(s, t) = 0 <=> s = t)
             /\ Sign(strcmp(s, t)) = CharOrder(s, t)
<1> DEFINE s == Chars(p.bytes)
           t == Chars(q.bytes)
<1>1. p.bytes \in Seq(0 .. 255) /\ q.bytes \in Seq(0 .. 255)
  BY ShapeOfData
<1>2. s \in Seq(1 .. 255) /\ t \in Seq(1 .. 255)
  BY <1>1, CharsAre
<1>3. MaxApart \in Nat /\ 2 * MaxApart < Words /\ Apart(s, t) \in 1 .. MaxApart
  BY StrcmpAssumption
<1> HIDE DEF s, t
<1>4. PICK a \in 1 .. MaxApart : a = Apart(s, t)
  BY <1>3
<1>5. CharOrder(s, t) \in -1 .. 1 /\ (CharOrder(s, t) = 0 <=> s = t)
  BY <1>2, CharOrderIs
<1>6. PICK c \in {-1, 0, 1} : c = CharOrder(s, t)
  BY <1>5
<1>7. strcmp(s, t) = c * a
  BY <1>4, <1>6 DEF strcmp
<1>8. /\ c * a \in -MaxApart .. MaxApart
      /\ c * a = 0 <=> c = 0
      /\ Sign(c * a) = c
  <2>1. c = 0 => c * a = 0
    BY <1>3
  <2>2. c = 1 => c * a = a
    BY <1>3
  <2>3. c = -1 => c * a = -a
    BY <1>3
  <2>4. a >= 1 /\ a <= MaxApart /\ a \in Int
    BY <1>3
  <2>5. QED BY <1>3, <2>1, <2>2, <2>3, <2>4 DEF Sign
<1>9. QED BY <1>2, <1>3, <1>5, <1>6, <1>7, <1>8 DEF s, t

(* The first result for elements that is not the box of 0.                          *)
LEMMA FirstOfIs ==
  ASSUME NEW c, DOMAIN c \subseteq Nat
  PROVE  \/ FirstOf(c) = Box(0) /\ \A i \in DOMAIN c : c[i] = Box(0)
         \/ \E i \in DOMAIN c :
              /\ FirstOf(c) = Box(c[i]) /\ c[i] # Box(0)
              /\ \A j \in DOMAIN c : j < i => c[j] = Box(0)
<1> DEFINE differ == {i \in DOMAIN c : c[i] # Box(0)}
<1>1. CASE differ = {}
  BY <1>1 DEF FirstOf
<1>2. CASE differ # {}
  <2>1. differ \in SUBSET Nat
    OBVIOUS
  <2>2. Min(differ) \in differ /\ \A k \in differ : Min(differ) <= k
    <3> HIDE DEF differ
    <3> QED BY <1>2, <2>1, MinOf
  <2>3. FirstOf(c) = Box(c[Min(differ)])
    BY <1>2 DEF FirstOf
  <2>4. PICK i \in differ : i = Min(differ)
    BY <2>2
  <2>5. \A j \in DOMAIN c : j < i => c[j] = Box(0)
    <3>1. ASSUME NEW j \in DOMAIN c, j < i PROVE j \notin differ
      <4>1. j \in Nat /\ i \in Nat
        BY <2>1, <2>4
      <4>2. j \in differ => i <= j
        BY <2>2, <2>4
      <4>3. QED BY <3>1, <4>1, <4>2
    <3>2. QED BY <3>1
  <2>6. QED BY <2>3, <2>4, <2>5
<1>3. QED BY <1>1, <1>2

(* What the cut values tell of the values.                                          *)
CutParts(v) == [i \in DOMAIN Parts(v) |-> Cut[Parts(v)[i]]]

LEMMA CutOf ==
  ASSUME NEW v \in Data
  PROVE  /\ Cut[v].kind = v.kind
         /\ v.kind = "int" => Cut[v] = v
         /\ v.kind = "string" => Cut[v] = [kind |-> "string", bytes |-> Chars(v.bytes)]
         /\ v.kind = "array" => Cut[v] = [kind |-> "array", elems |-> CutParts(v)]
         /\ v.kind \in {"sexp", "closure"} =>
              Cut[v] = [kind |-> v.kind, tag |-> v.tag, elems |-> CutParts(v)]
<1>1. Cut[v] = CutTo(v, CutParts(v))
  BY CutDefined DEF CutParts
<1>2. CASE v.kind = "int"
  BY <1>1, <1>2 DEF CutTo
<1>3. CASE v.kind = "string"
  <2>1. v \in [kind : {"string"}, bytes : Seq(0 .. 255)]
    BY <1>3, ShapeOfData
  <2>2. Cut[v] = [v EXCEPT !.bytes = Chars(v.bytes)]
    BY <1>1, <1>3 DEF CutTo
  <2>3. QED BY <1>3, <2>1, <2>2
<1>4. CASE v.kind = "array"
  <2>1. v \in [kind : {"array"}, elems : Seq(Data)]
    BY <1>4, ShapeOfData
  <2>2. Cut[v] = [v EXCEPT !.elems = CutParts(v)]
    BY <1>1, <1>4 DEF CutTo
  <2>3. QED BY <1>4, <2>1, <2>2
<1>5. CASE v.kind \in {"sexp", "closure"}
  <2>1. v \in [kind : {"sexp", "closure"}, tag : 0 .. (Words \div 4) - 1, elems : Seq(Data)]
    BY <1>5, ShapeOfData
  <2>2. Cut[v] = [v EXCEPT !.elems = CutParts(v)]
    BY <1>1, <1>5 DEF CutTo
  <2>3. QED BY <1>5, <2>1, <2>2
<1>6. QED BY <1>2, <1>3, <1>4, <1>5, ShapeOfData

LEMMA CutsOfParts ==
  ASSUME NEW p \in Data, NEW q \in Data
  PROVE  CutParts(p) = CutParts(q) <=>
           /\ DOMAIN Parts(p) = DOMAIN Parts(q)
           /\ \A i \in DOMAIN Parts(p) : Cut[Parts(p)[i]] = Cut[Parts(q)[i]]
<1>1. DOMAIN CutParts(p) = DOMAIN Parts(p) /\ DOMAIN CutParts(q) = DOMAIN Parts(q)
  BY DEF CutParts
<1>2. \A i \in DOMAIN Parts(p) : CutParts(p)[i] = Cut[Parts(p)[i]]
  BY DEF CutParts
<1>3. \A i \in DOMAIN Parts(q) : CutParts(q)[i] = Cut[Parts(q)[i]]
  BY DEF CutParts
<1>4. ASSUME CutParts(p) = CutParts(q)
      PROVE  /\ DOMAIN Parts(p) = DOMAIN Parts(q)
             /\ \A i \in DOMAIN Parts(p) : Cut[Parts(p)[i]] = Cut[Parts(q)[i]]
  BY <1>1, <1>2, <1>3, <1>4
<1>5. ASSUME DOMAIN Parts(p) = DOMAIN Parts(q),
             \A i \in DOMAIN Parts(p) : Cut[Parts(p)[i]] = Cut[Parts(q)[i]]
      PROVE  CutParts(p) = CutParts(q)
  BY <1>5 DEF CutParts
<1>6. QED BY <1>4, <1>5

(* Objects are cut to the same value if they begin alike and their strings or their *)
(* elements are.                                                                    *)
LEMMA CutsEqual ==
  ASSUME NEW p \in Data, NEW q \in Data, p.kind # "int", q.kind # "int"
  PROVE  Cut[p] = Cut[q] <=>
           /\ Heading(p) = Heading(q)
           /\ p.kind = "string" => Chars(p.bytes) = Chars(q.bytes)
           /\ \A i \in DOMAIN Parts(p) \cap DOMAIN Parts(q) : Cut[Parts(p)[i]] = Cut[Parts(q)[i]]
<1> DEFINE Same == /\ Heading(p) = Heading(q)
                   /\ p.kind = "string" => Chars(p.bytes) = Chars(q.bytes)
                   /\ \A i \in DOMAIN Parts(p) \cap DOMAIN Parts(q) : Cut[Parts(p)[i]] = Cut[Parts(q)[i]]
<1>1. ASSUME Same PROVE Cut[p] = Cut[q]
  <2>1. /\ p.kind = q.kind /\ DOMAIN Parts(p) = DOMAIN Parts(q)
        /\ p.kind \in {"sexp", "closure"} => p.tag = q.tag
    BY <1>1, HeadingsEqual
  <2>2. CutParts(p) = CutParts(q)
    BY <1>1, <2>1, CutsOfParts
  <2>3. CASE p.kind = "string"
    <3>1. Cut[p] = [kind |-> "string", bytes |-> Chars(p.bytes)]
      BY <2>3, CutOf
    <3>2. Cut[q] = [kind |-> "string", bytes |-> Chars(q.bytes)]
      BY <2>1, <2>3, CutOf
    <3>3. QED BY <1>1, <2>3, <3>1, <3>2
  <2>4. CASE p.kind = "array"
    <3>1. Cut[p] = [kind |-> "array", elems |-> CutParts(p)]
      BY <2>4, CutOf
    <3>2. Cut[q] = [kind |-> "array", elems |-> CutParts(q)]
      BY <2>1, <2>4, CutOf
    <3>3. QED BY <2>2, <3>1, <3>2
  <2>5. CASE p.kind \in {"sexp", "closure"}
    <3>1. Cut[p] = [kind |-> p.kind, tag |-> p.tag, elems |-> CutParts(p)]
      BY <2>5, CutOf
    <3>2. Cut[q] = [kind |-> q.kind, tag |-> q.tag, elems |-> CutParts(q)]
      BY <2>1, <2>5, CutOf
    <3>3. QED BY <2>1, <2>2, <2>5, <3>1, <3>2
  <2>6. QED BY <2>3, <2>4, <2>5, ShapeOfData
<1>2. ASSUME Cut[p] = Cut[q] PROVE Same
  <2>1. p.kind = q.kind
    BY <1>2, CutOf
  <2>2. CASE p.kind = "string"
    <3>1. Cut[p] = [kind |-> "string", bytes |-> Chars(p.bytes)]
      BY <2>2, CutOf
    <3>2. Cut[q] = [kind |-> "string", bytes |-> Chars(q.bytes)]
      BY <2>1, <2>2, CutOf
    <3>3. Cut[p].bytes = Chars(p.bytes) /\ Cut[q].bytes = Chars(q.bytes)
      BY <3>1, <3>2
    <3>4. Parts(p) = <<>> /\ Heading(p) = <<1>> /\ Heading(q) = <<1>>
      BY <2>1, <2>2, PartsOfData, HeadingIs
    <3>5. QED BY <1>2, <3>3, <3>4
  <2>3. CASE p.kind = "array"
    <3>1. Cut[p] = [kind |-> "array", elems |-> CutParts(p)]
      BY <2>3, CutOf
    <3>2. Cut[q] = [kind |-> "array", elems |-> CutParts(q)]
      BY <2>1, <2>3, CutOf
    <3>3. Cut[p].elems = CutParts(p) /\ Cut[q].elems = CutParts(q)
      BY <3>1, <3>2
    <3>4. CutParts(p) = CutParts(q)
      BY <1>2, <3>3
    <3>5. /\ DOMAIN Parts(p) = DOMAIN Parts(q)
          /\ \A i \in DOMAIN Parts(p) : Cut[Parts(p)[i]] = Cut[Parts(q)[i]]
      BY <3>4, CutsOfParts
    <3>6. Len(Parts(p)) = Len(Parts(q))
      BY <3>5, PartsOfData
    <3>7. Heading(p) = Heading(q)
      BY <2>1, <2>3, <3>6, HeadingIs
    <3>8. QED BY <2>3, <3>5, <3>7
  <2>4. CASE p.kind \in {"sexp", "closure"}
    <3>1. Cut[p] = [kind |-> p.kind, tag |-> p.tag, elems |-> CutParts(p)]
      BY <2>4, CutOf
    <3>2. Cut[q] = [kind |-> q.kind, tag |-> q.tag, elems |-> CutParts(q)]
      BY <2>1, <2>4, CutOf
    <3>3. /\ Cut[p].elems = CutParts(p) /\ Cut[q].elems = CutParts(q)
          /\ Cut[p].tag = p.tag /\ Cut[q].tag = q.tag
      BY <3>1, <3>2
    <3>4. CutParts(p) = CutParts(q) /\ p.tag = q.tag
      BY <1>2, <3>3
    <3>5. /\ DOMAIN Parts(p) = DOMAIN Parts(q)
          /\ \A i \in DOMAIN Parts(p) : Cut[Parts(p)[i]] = Cut[Parts(q)[i]]
      BY <3>4, CutsOfParts
    <3>6. Len(Parts(p)) = Len(Parts(q))
      BY <3>5, PartsOfData
    <3>7. Heading(p) = Heading(q)
      BY <2>1, <2>4, <3>4, <3>6, HeadingIs
    <3>8. QED BY <2>4, <3>5, <3>7
  <2>5. QED BY <2>2, <2>3, <2>4, ShapeOfData
<1>3. QED BY <1>1, <1>2

(* The result for a pair, from the results for its elements.                        *)
Results(p, q) == [i \in DOMAIN Parts(p) \cap DOMAIN Parts(q) |-> compare[<<Parts(p)[i], Parts(q)[i]>>]]

LEMMA ComparesTo ==
  ASSUME NEW p \in Data, NEW q \in Data
  PROVE  compare[<<p, q>>] = Compared(p, q, Results(p, q))
  BY CompareDefined DEF Results

Odd(x) == \E c \in Int : x = 2 * c + 1

LEMMA BoxIsOdd == ASSUME NEW n \in Int PROVE Odd(Box(n)) /\ Box(n) \in Int
<1>1. Odd(Box(n))
  BY BoxOdd DEF Odd
<1>2. QED BY <1>1 DEF Odd

LEMMA SmallNotZero == Box(1) # Box(0) /\ Box(-1) # Box(0)
<1>1. PICK k \in Nat : k >= 1 /\ Words = 16 * k
  BY WordsAre
<1>2. 1 < Words \div 2 /\ -1 > -(Words \div 2) /\ 1 > -(Words \div 2) /\ -1 < Words \div 2
  BY <1>1
<1>3. Box(1) # Box(0)
  BY <1>2, BoxNotZero
<1>4. Box(-1) # Box(0)
  BY <1>2, BoxNotZero
<1>5. QED BY <1>3, <1>4

(* A comparison is odd, as a box, and the box of 0 exactly if the cut values are the*)
(* same.                                                                            *)
Decided(p, q) == Odd(compare[<<p, q>>]) /\ (compare[<<p, q>>] = Box(0) <=> Cut[p] = Cut[q])

LEMMA IntsDecided ==
  ASSUME NEW p \in Data, NEW q \in Data, p.kind = "int"
  PROVE  Decided(p, q)
<1>1. p \in [kind : {"int"}, n : -(Words \div 4) .. (Words \div 4) - 1]
  BY ShapeOfData
<1>2. Cut[p] = p /\ Cut[q].kind = q.kind
  BY CutOf
<1>3. CASE q.kind = "int"
  <2>1. q \in [kind : {"int"}, n : -(Words \div 4) .. (Words \div 4) - 1] /\ Cut[q] = q
    BY <1>3, ShapeOfData, CutOf
  <2>2. PICK k \in Nat : k >= 1 /\ Words = 16 * k
    BY WordsAre
  <2>3. PICK a \in -(4 * k) .. 4 * k - 1 : a = p.n
    BY <1>1, <2>2
  <2>4. PICK b \in -(4 * k) .. 4 * k - 1 : b = q.n
    BY <2>1, <2>2
  <2>5. compare[<<p, q>>] = Box(a - b)
    BY <1>3, <2>3, <2>4, ComparesTo DEF Compared
  <2>6. a - b \in Int /\ a - b > -(Words \div 2) /\ a - b < Words \div 2
    BY <2>2, <2>3, <2>4
  <2>7. a # b => Box(a - b) # Box(0)
    BY <2>3, <2>4, <2>6, BoxNotZero
  <2>8. a = b <=> p = q
    BY <1>1, <2>1, <2>3, <2>4
  <2>9. Odd(compare[<<p, q>>])
    BY <2>5, <2>6, BoxIsOdd
  <2>10. a = b => Box(a - b) = Box(0)
    BY <2>3, <2>4
  <2>11. QED BY <1>2, <2>1, <2>5, <2>7, <2>8, <2>9, <2>10 DEF Decided
<1>4. CASE q.kind # "int"
  <2>1. compare[<<p, q>>] = Box(-1)
    BY <1>4, ComparesTo DEF Compared
  <2>2. Cut[p] # Cut[q]
    BY <1>2, <1>4
  <2>3. Odd(Box(-1))
    BY BoxIsOdd
  <2>4. QED BY <2>1, <2>2, <2>3, SmallNotZero DEF Decided
<1>5. QED BY <1>3, <1>4

(* Objects, if their elements are compared right.                                   *)
LEMMA ObjectsDecided ==
  ASSUME NEW p \in Data, NEW q \in Data, p.kind # "int", q.kind # "int",
         \A i \in DOMAIN Parts(p) \cap DOMAIN Parts(q) : Decided(Parts(p)[i], Parts(q)[i])
  PROVE  Decided(p, q)
<1>1. compare[<<p, q>>] = Objects(p, q, Results(p, q))
  BY ComparesTo DEF Compared
<1>2. CASE HeadingDifference(p, q) # 0
  <2>1. compare[<<p, q>>] = Box(HeadingDifference(p, q))
    BY <1>1, <1>2 DEF Objects
  <2>2. Box(HeadingDifference(p, q)) # Box(0) /\ Heading(p) # Heading(q)
    BY <1>2, DifferenceBoxed
  <2>3. Odd(Box(HeadingDifference(p, q)))
    BY DifferenceBoxed, BoxIsOdd
  <2>4. Cut[p] # Cut[q]
    BY <2>2, CutsEqual
  <2>5. QED BY <2>1, <2>2, <2>3, <2>4 DEF Decided
<1>3. CASE HeadingDifference(p, q) = 0 /\ p.kind = "string"
  <2>1. Heading(p) = Heading(q)
    BY <1>3, DifferenceBoxed
  <2>2. q.kind = "string"
    BY <1>3, <2>1, HeadingsEqual
  <2> DEFINE d == strcmp(Chars(p.bytes), Chars(q.bytes))
  <2>3. MaxApart \in Nat /\ 2 * MaxApart < Words /\ d \in -MaxApart .. MaxApart
    BY <1>3, <2>2, StrcmpIs
  <2>4. d = 0 <=> Chars(p.bytes) = Chars(q.bytes)
    BY <1>3, <2>2, StrcmpIs
  <2>5. d \in Int
    BY <2>3
  <2>6. compare[<<p, q>>] = Box(d)
    BY <1>1, <1>3 DEF Objects
  <2>7. Odd(Box(d))
    BY <2>5, BoxIsOdd
  <2>8. Box(d) = Box(0) <=> d = 0
    <3> HIDE DEF d
    <3>1. PICK k \in Nat : k >= 1 /\ Words = 16 * k
      BY WordsAre
    <3>2. d > -(Words \div 2) /\ d < Words \div 2
      BY <2>3, <2>5, <3>1
    <3>3. QED BY <2>5, <3>2, BoxNotZero
  <2>9. Parts(p) = <<>>
    BY <1>3, PartsOfData
  <2>10. Cut[p] = Cut[q] <=> Chars(p.bytes) = Chars(q.bytes)
    BY <1>3, <2>1, <2>9, CutsEqual
  <2>11. QED
    <3> HIDE DEF d
    <3> QED BY <2>4, <2>6, <2>7, <2>8, <2>10 DEF Decided
<1>4. CASE HeadingDifference(p, q) = 0 /\ p.kind # "string"
  <2> DEFINE c == Results(p, q)
             both == DOMAIN Parts(p) \cap DOMAIN Parts(q)
  <2>1. Heading(p) = Heading(q)
    BY <1>4, DifferenceBoxed
  <2>2. compare[<<p, q>>] = FirstOf(c)
    BY <1>1, <1>4 DEF Objects
  <2>3. DOMAIN c = both /\ both \subseteq Nat
    <3>1. DOMAIN Parts(p) \subseteq Nat
      BY PartsOfData
    <3>2. QED BY <3>1 DEF Results
  <2>4. ASSUME NEW i \in both
        PROVE  Odd(c[i]) /\ (c[i] = Box(0) <=> Cut[Parts(p)[i]] = Cut[Parts(q)[i]])
    <3>1. c[i] = compare[<<Parts(p)[i], Parts(q)[i]>>]
      BY DEF Results
    <3>2. Decided(Parts(p)[i], Parts(q)[i])
      OBVIOUS
    <3>3. QED BY <3>1, <3>2 DEF Decided
  <2>5. Cut[p] = Cut[q] <=> \A i \in both : Cut[Parts(p)[i]] = Cut[Parts(q)[i]]
    BY <1>4, <2>1, CutsEqual
  <2> HIDE DEF c, both
  <2>6. CASE FirstOf(c) = Box(0) /\ \A i \in DOMAIN c : c[i] = Box(0)
    <3>1. Cut[p] = Cut[q]
      BY <2>3, <2>4, <2>5, <2>6
    <3>2. Odd(Box(0))
      BY BoxIsOdd
    <3>3. QED BY <2>2, <2>6, <3>1, <3>2 DEF Decided
  <2>7. ASSUME NEW i \in DOMAIN c, FirstOf(c) = Box(c[i]), c[i] # Box(0) PROVE Decided(p, q)
    <3>1. Odd(c[i]) /\ Cut[Parts(p)[i]] # Cut[Parts(q)[i]]
      BY <2>3, <2>4, <2>7
    <3>2. c[i] \in Int
      BY <3>1 DEF Odd
    <3>3. Box(c[i]) # Box(0)
      BY <3>1, <3>2, BoxNotZero DEF Odd
    <3>4. Odd(Box(c[i]))
      BY <3>2, BoxIsOdd
    <3>5. Cut[p] # Cut[q]
      BY <2>3, <2>5, <3>1
    <3>6. QED BY <2>2, <2>7, <3>3, <3>4, <3>5 DEF Decided
  <2>8. QED BY <2>3, <2>6, <2>7, FirstOfIs
<1>5. QED BY <1>2, <1>3, <1>4

LEMMA AllDecided == \A p, q \in Data : Decided(p, q)
<1> DEFINE Bad == {n \in Nat : \E p, q \in Data : Nesting(p) = n /\ ~Decided(p, q)}
<1>1. ASSUME Bad # {} PROVE FALSE
  <2>1. PICK n \in Bad : \A k \in Bad : n <= k
    <3>1. Bad \in SUBSET Nat
      OBVIOUS
    <3>2. QED
      <4> HIDE DEF Bad
      <4> QED BY <1>1, <3>1, LeastNumber
  <2>2. PICK p \in Data, q \in Data : Nesting(p) = n /\ ~Decided(p, q)
    OBVIOUS
  <2>3. ASSUME NEW i \in DOMAIN Parts(p) \cap DOMAIN Parts(q)
        PROVE  Decided(Parts(p)[i], Parts(q)[i])
    <3>1. Parts(p)[i] \in Data /\ Nesting(Parts(p)[i]) < n /\ Parts(q)[i] \in Data
      BY <2>2, PartsOfData
    <3>2. Nesting(Parts(p)[i]) \in Nat /\ Nesting(p) \in Nat
      BY <3>1, PartsOfData
    <3>3. Nesting(Parts(p)[i]) \notin Bad
      <4> HIDE DEF Bad
      <4> QED BY <2>1, <2>2, <3>1, <3>2
    <3>4. QED BY <3>1, <3>2, <3>3
  <2>4. p.kind # "int"
    BY <2>2, IntsDecided
  <2>5. CASE q.kind = "int"
    <3>1. compare[<<p, q>>] = Box(1)
      BY <2>4, <2>5, ComparesTo DEF Compared
    <3>2. Cut[p].kind = p.kind /\ Cut[q].kind = q.kind
      BY CutOf
    <3>3. Odd(Box(1))
      BY BoxIsOdd
    <3>4. QED BY <2>2, <2>4, <2>5, <3>1, <3>2, <3>3, SmallNotZero DEF Decided
  <2>6. QED BY <2>2, <2>3, <2>4, <2>5, ObjectsDecided
<1>2. ASSUME NEW p \in Data, NEW q \in Data PROVE Decided(p, q)
  <2>1. Nesting(p) \in Nat
    BY PartsOfData
  <2>2. QED BY <1>1, <2>1
<1>3. QED BY <1>2

(* A call's answer is what the function returns for its arguments.                  *)
CInv ==
  /\ Answered("Lcompare") =>
       \E p, q \in Data : answer.args = <<p, q>> /\ answer.result = Lcompare(p, q)
  /\ Answered("Lhash") =>
       \E p, q \in Data : answer.args = <<p, q>> /\ answer.result = <<Lhash(p), Lhash(q)>>

LEMMA AnswerOf == ASSUME NEW fn, NEW args, NEW result PROVE Answer(fn, args, result).fn = fn
  BY DEF Answer

LEMMA CompareInvariant == CompareSpec => []CInv
<1>1. CompareInit => CInv
  <2>1. CompareInit => answer.fn = ""
    BY AnswerOf DEF CompareInit
  <2>2. "" # "Lcompare" /\ "" # "Lhash"
    OBVIOUS
  <2>3. QED BY <2>1, <2>2 DEF CInv, Answered
<1>2. CInv /\ [Compare \/ Hash]_answer => CInv'
  <2> SUFFICES ASSUME CInv, [Compare \/ Hash]_answer PROVE CInv'
    OBVIOUS
  <2>1. CASE Compare
    <3>1. PICK p \in Data, q \in Data : answer' = Answer("Lcompare", <<p, q>>, Lcompare(p, q))
      BY <2>1 DEF Compare
    <3>2. answer'.fn = "Lcompare" /\ answer'.args = <<p, q>> /\ answer'.result = Lcompare(p, q)
      BY <3>1 DEF Answer
    <3>3. QED BY <3>2 DEF CInv, Answered
  <2>2. CASE Hash
    <3>1. PICK p \in Data, q \in Data : answer' = Answer("Lhash", <<p, q>>, <<Lhash(p), Lhash(q)>>)
      BY <2>2 DEF Hash
    <3>2. answer'.fn = "Lhash" /\ answer'.args = <<p, q>> /\ answer'.result = <<Lhash(p), Lhash(q)>>
      BY <3>1 DEF Answer
    <3>3. QED BY <3>2 DEF CInv, Answered
  <2>3. CASE answer' = answer
    BY <2>3 DEF CInv, Answered
  <2>4. QED BY <2>1, <2>2, <2>3
<1>3. QED BY <1>1, <1>2, PTL DEF CompareSpec

(* Values nested to any depth, with strings and objects of any length and words of  *)
(* any width, compare as equal exactly if they are, but for what strings hold behind*)
(* a 0: boxing again and losing bits makes no difference 0 (Lcompare).              *)
THEOREM ComparesEqual == CompareSpec => []CompareEqual
<1>1. CInv => CompareEqual
  <2> SUFFICES ASSUME CInv, Answered("Lcompare")
      PROVE  answer.result = Box(0) <=> Cut[answer.args[1]] = Cut[answer.args[2]]
    BY DEF CompareEqual
  <2>1. PICK p \in Data, q \in Data : answer.args = <<p, q>> /\ answer.result = Lcompare(p, q)
    BY DEF CInv
  <2>2. Decided(p, q)
    BY AllDecided
  <2>3. answer.args[1] = p /\ answer.args[2] = q
    BY <2>1
  <2>4. QED BY <2>1, <2>2, <2>3 DEF Decided, Lcompare
<1>2. QED BY <1>1, CompareInvariant, PTL

(* Values whose cuts and string lengths are the same have the same hash at any      *)
(* depth.                                                                           *)
HashedAlike(p, q) == Cut[p] = Cut[q] /\ Lengths[p] = Lengths[q] => inner_hash[p] = inner_hash[q]

HashRows(v) == [i \in DOMAIN Parts(v) |-> inner_hash[Parts(v)[i]]]

LEMMA ObjectsHashed ==
  ASSUME NEW p \in Data, NEW q \in Data,
         \A i \in DOMAIN Parts(p) \cap DOMAIN Parts(q) : HashedAlike(Parts(p)[i], Parts(q)[i])
  PROVE  HashedAlike(p, q)
<1> SUFFICES ASSUME Cut[p] = Cut[q], Lengths[p] = Lengths[q]
             PROVE  inner_hash[p] = inner_hash[q]
  BY DEF HashedAlike
<1>1. p.kind = q.kind
  BY CutOf
<1>2. inner_hash[p] = [at \in Nat \X Nat |-> Hashed(p, at[1], at[2], HashRows(p))]
  BY HashDefined DEF HashRows
<1>3. inner_hash[q] = [at \in Nat \X Nat |-> Hashed(q, at[1], at[2], HashRows(q))]
  BY HashDefined DEF HashRows
<1>4. ASSUME NEW d, NEW acc PROVE Hashed(p, d, acc, HashRows(p)) = Hashed(q, d, acc, HashRows(q))
  <2>1. CASE p.kind = "int"
    <3>1. p = q
      BY <1>1, <2>1, CutOf
    <3>2. QED BY <3>1
  <2>2. CASE p.kind = "string"
    <3>1. Chars(p.bytes) = Chars(q.bytes)
      BY <1>1, <2>2, CutsEqual
    <3>2. Lengths[p] = Len(p.bytes) /\ Lengths[q] = Len(q.bytes)
      BY <1>1, <2>2, LengthsDefined DEF LengthsOf
    <3>3. StringHash(acc, p.bytes) = StringHash(acc, q.bytes)
      BY <3>1, <3>2 DEF StringHash
    <3>4. QED BY <1>1, <2>2, <3>3 DEF Hashed
  <2>3. CASE p.kind \notin {"int", "string"}
    <3>1. /\ Heading(p) = Heading(q)
          /\ \A i \in DOMAIN Parts(p) \cap DOMAIN Parts(q) : Cut[Parts(p)[i]] = Cut[Parts(q)[i]]
      BY <1>1, <2>3, CutsEqual
    <3>2. DOMAIN Parts(p) = DOMAIN Parts(q) /\ (p.kind \in {"sexp", "closure"} => p.tag = q.tag)
      BY <1>1, <2>3, <3>1, HeadingsEqual
    <3>3. Lengths[p] = [i \in DOMAIN Parts(p) |-> Lengths[Parts(p)[i]]]
      BY <2>3, LengthsDefined DEF LengthsOf
    <3>4. Lengths[q] = [i \in DOMAIN Parts(q) |-> Lengths[Parts(q)[i]]]
      BY <1>1, <2>3, LengthsDefined DEF LengthsOf
    <3>5. ASSUME NEW i \in DOMAIN Parts(p) PROVE inner_hash[Parts(p)[i]] = inner_hash[Parts(q)[i]]
      <4>1. Lengths[p][i] = Lengths[Parts(p)[i]] /\ Lengths[q][i] = Lengths[Parts(q)[i]]
        BY <3>2, <3>3, <3>4
      <4>2. QED BY <3>1, <3>2, <4>1 DEF HashedAlike
    <3>6. HashRows(p) = HashRows(q)
      BY <3>2, <3>5 DEF HashRows
    <3>7. Length(p) = Length(q)
      <4>1. p.elems = Parts(p) /\ q.elems = Parts(q)
        BY <1>1, <2>3, PartsOfData
      <4>2. Len(Parts(p)) = Len(Parts(q))
        BY <3>2, PartsOfData
      <4>3. QED BY <1>1, <4>1, <4>2 DEF Length
    <3>8. ObjectHash(acc, p) = ObjectHash(acc, q)
      <4>1. CASE p.kind = "array"
        BY <1>1, <3>7, <4>1 DEF ObjectHash
      <4>2. CASE p.kind # "array"
        BY <1>1, <2>3, <3>2, <3>7, <4>2, ShapeOfData DEF ObjectHash
      <4>3. QED BY <4>1, <4>2
    <3>9. QED BY <1>1, <2>3, <3>6, <3>8 DEF Hashed
  <2>4. QED BY <2>1, <2>2, <2>3
<1>5. QED BY <1>2, <1>3, <1>4

LEMMA AllHashedAlike == \A p, q \in Data : HashedAlike(p, q)
<1> DEFINE Bad == {n \in Nat : \E p, q \in Data : Nesting(p) = n /\ ~HashedAlike(p, q)}
<1>1. ASSUME Bad # {} PROVE FALSE
  <2>1. PICK n \in Bad : \A k \in Bad : n <= k
    <3>1. Bad \in SUBSET Nat
      OBVIOUS
    <3>2. QED
      <4> HIDE DEF Bad
      <4> QED BY <1>1, <3>1, LeastNumber
  <2>2. PICK p \in Data, q \in Data : Nesting(p) = n /\ ~HashedAlike(p, q)
    OBVIOUS
  <2>3. ASSUME NEW i \in DOMAIN Parts(p) \cap DOMAIN Parts(q)
        PROVE  HashedAlike(Parts(p)[i], Parts(q)[i])
    <3>1. Parts(p)[i] \in Data /\ Nesting(Parts(p)[i]) < n /\ Parts(q)[i] \in Data
      BY <2>2, PartsOfData
    <3>2. Nesting(Parts(p)[i]) \in Nat /\ Nesting(p) \in Nat
      BY <3>1, PartsOfData
    <3>3. Nesting(Parts(p)[i]) \notin Bad
      <4> HIDE DEF Bad
      <4> QED BY <2>1, <2>2, <3>1, <3>2
    <3>4. QED BY <3>1, <3>2, <3>3
  <2>4. QED BY <2>2, <2>3, ObjectsHashed
<1>2. ASSUME NEW p \in Data, NEW q \in Data PROVE HashedAlike(p, q)
  <2>1. Nesting(p) \in Nat
    BY PartsOfData
  <2>2. QED BY <1>1, <2>1
<1>3. QED BY <1>2

(* Values that compare as equal have one hash if their strings are of the same      *)
(* lengths, whatever HASH_DEPTH leaves out and however the hash is cut to its mask  *)
(* (Lcompare, inner_hash).                                                          *)
THEOREM HashesAgree == CompareSpec => []HashAgrees
<1>1. CInv => HashAgrees
  <2> SUFFICES ASSUME CInv, Answered("Lhash"),
                      Lcompare(answer.args[1], answer.args[2]) = Box(0),
                      Lengths[answer.args[1]] = Lengths[answer.args[2]]
      PROVE  answer.result[1] = answer.result[2]
    BY DEF HashAgrees
  <2>1. PICK p \in Data, q \in Data : answer.args = <<p, q>> /\ answer.result = <<Lhash(p), Lhash(q)>>
    BY DEF CInv
  <2>2. answer.args[1] = p /\ answer.args[2] = q /\ answer.result[1] = Lhash(p) /\ answer.result[2] = Lhash(q)
    BY <2>1
  <2>3. Decided(p, q) /\ HashedAlike(p, q)
    BY AllDecided, AllHashedAlike
  <2>4. Lcompare(p, q) = Box(0) /\ Lengths[p] = Lengths[q]
    BY <2>2
  <2>5. inner_hash[p] = inner_hash[q]
    BY <2>3, <2>4 DEF Decided, HashedAlike, Lcompare
  <2>6. QED BY <2>2, <2>5 DEF Lhash
<1>2. QED BY <1>1, CompareInvariant, PTL

(* What is small: the numbers of a value, at each level by half.                    *)
LEMMA BoundedParts ==
  ASSUME NEW v \in Data, NEW b \in Nat, bounded[v][b]
  PROVE  /\ v.kind = "int" => v.n \in -b .. b - 1
         /\ v.kind # "int" => \A i \in DOMAIN Heading(v) : Heading(v)[i] < 2 * b
         /\ v.kind = "string" => MaxApart < 2 * b
         /\ v.kind # "int" => \A i \in DOMAIN Parts(v) : bounded[Parts(v)[i]][b \div 2]
<1> DEFINE parts == [i \in DOMAIN Parts(v) |-> bounded[Parts(v)[i]]]
<1>1. bounded[v] = [bound \in Nat |-> Within(v, bound, parts)]
  BY BoundedDefined
<1>2. Within(v, b, parts)
  <2> HIDE DEF parts
  <2> QED BY <1>1
<1>3. \A i \in DOMAIN Parts(v) : parts[i] = bounded[Parts(v)[i]]
  OBVIOUS
<1>4. DOMAIN parts = DOMAIN Parts(v)
  OBVIOUS
<1>5. QED
  <2> HIDE DEF parts
  <2> QED BY <1>2, <1>3, <1>4 DEF Within

LEMMA BoundedObject ==
  ASSUME NEW v \in Data, NEW b \in Nat, bounded[v][b], v.kind # "int"
  PROVE  b >= 1
<1>1. Heading(v) \in Seq(Nat) /\ Len(Heading(v)) \in 1 .. 3
  BY HeadingNumbers
<1>2. 1 \in DOMAIN Heading(v) /\ Heading(v)[1] \in Nat
  BY <1>1, ElementsIn
<1>3. Heading(v)[1] < 2 * b
  BY <1>2, BoundedParts
<1>4. QED BY <1>2, <1>3

(* What is boxed when two values are compared, for numbers within a bound.          *)
Limit == Words \div 8

LEMMA LimitIs == Limit \in Nat
<1>1. PICK k \in Nat : k >= 1 /\ Words = 16 * k
  BY WordsAre
<1>2. QED BY <1>1 DEF Limit

LEMMA BoxWithin ==
  ASSUME NEW b \in Nat, b <= Limit, NEW d \in -(2 * b) .. 2 * b - 1
  PROVE  Box(d) = 2 * d + 1
<1>1. PICK k \in Nat : k >= 1 /\ Words = 16 * k
  BY WordsAre
<1>2. d \in Int /\ d >= -(Words \div 4) /\ d < Words \div 4
  BY <1>1 DEF Limit
<1>3. QED BY <1>2, BoxIs

LEMMA IntsWithin ==
  ASSUME NEW p \in Data, NEW q \in Data, NEW b \in Nat, b <= Limit,
         bounded[p][b], bounded[q][b], p.kind = "int", q.kind = "int"
  PROVE  /\ p.n \in Int /\ q.n \in Int /\ p.n - q.n \in -(2 * b) .. 2 * b - 1
         /\ compare[<<p, q>>] = 2 * (p.n - q.n) + 1
<1>1. PICK x \in -b .. b - 1 : x = p.n
  BY BoundedParts
<1>2. PICK y \in -b .. b - 1 : y = q.n
  BY BoundedParts
<1>3. x - y \in -(2 * b) .. 2 * b - 1
  OBVIOUS
<1>4. compare[<<p, q>>] = Box(x - y)
  BY <1>1, <1>2, ComparesTo DEF Compared
<1>5. Box(x - y) = 2 * (x - y) + 1
  BY <1>3, BoxWithin
<1>6. QED BY <1>1, <1>2, <1>3, <1>4, <1>5

LEMMA MixedCompare ==
  ASSUME NEW p \in Data, NEW q \in Data
  PROVE  /\ p.kind = "int" /\ q.kind # "int" => compare[<<p, q>>] = -1
         /\ p.kind # "int" /\ q.kind = "int" => compare[<<p, q>>] = 3
<1>1. PICK k \in Nat : k >= 1 /\ Words = 16 * k
  BY WordsAre
<1>2. -1 >= -(Words \div 4) /\ 1 < Words \div 4 /\ -1 < Words \div 4 /\ 1 >= -(Words \div 4)
  BY <1>1
<1>3. Box(-1) = 2 * (-1) + 1
  BY <1>2, BoxIs
<1>4. Box(1) = 2 * 1 + 1
  BY <1>2, BoxIs
<1>5. p.kind = "int" /\ q.kind # "int" => compare[<<p, q>>] = Box(-1)
  BY ComparesTo DEF Compared
<1>6. p.kind # "int" /\ q.kind = "int" => compare[<<p, q>>] = Box(1)
  BY ComparesTo DEF Compared
<1>7. QED BY <1>3, <1>4, <1>5, <1>6

LEMMA HeadingsWithin ==
  ASSUME NEW p \in Data, NEW q \in Data, NEW b \in Nat, b <= Limit,
         bounded[p][b], bounded[q][b], p.kind # "int", q.kind # "int"
  PROVE  /\ HeadingDifference(p, q) \in -(2 * b) .. 2 * b - 1
         /\ HeadingDifference(p, q) # 0 => compare[<<p, q>>] = 2 * HeadingDifference(p, q) + 1
<1>1. b >= 1
  BY BoundedObject
<1>2. HeadingDifference(p, q) \in -(2 * b) .. 2 * b - 1
  <2>1. CASE HeadingDifference(p, q) = 0
    BY <1>1, <2>1
  <2>2. ASSUME NEW i \in DOMAIN Heading(p) \cap DOMAIN Heading(q),
               HeadingDifference(p, q) = Heading(p)[i] - Heading(q)[i]
        PROVE  HeadingDifference(p, q) \in -(2 * b) .. 2 * b - 1
    <3>1. PICK x \in Nat : x = Heading(p)[i]
      BY HeadingNumbers
    <3>2. PICK y \in Nat : y = Heading(q)[i]
      BY HeadingNumbers
    <3>3. x < 2 * b /\ y < 2 * b
      BY <3>1, <3>2, BoundedParts
    <3>4. QED BY <2>2, <3>1, <3>2, <3>3
  <2>3. QED BY <2>1, <2>2, DifferenceIs
<1>3. HeadingDifference(p, q) # 0 => compare[<<p, q>>] = Box(HeadingDifference(p, q))
  BY ComparesTo DEF Compared, Objects
<1>4. Box(HeadingDifference(p, q)) = 2 * HeadingDifference(p, q) + 1
  BY <1>2, BoxWithin
<1>5. QED BY <1>2, <1>3, <1>4

LEMMA StringsWithin ==
  ASSUME NEW p \in Data, NEW q \in Data, NEW b \in Nat, b <= Limit,
         bounded[p][b], bounded[q][b], p.kind = "string", q.kind = "string"
  PROVE  /\ strcmp(Chars(p.bytes), Chars(q.bytes)) \in -(2 * b) .. 2 * b - 1
         /\ compare[<<p, q>>] = 2 * strcmp(Chars(p.bytes), Chars(q.bytes)) + 1
<1> DEFINE d == strcmp(Chars(p.bytes), Chars(q.bytes))
<1>1. MaxApart \in Nat /\ d \in -MaxApart .. MaxApart
  BY StrcmpIs
<1>2. MaxApart < 2 * b
  BY BoundedParts
<1>3. d \in -(2 * b) .. 2 * b - 1
  <2> HIDE DEF d
  <2> QED BY <1>1, <1>2
<1>4. Heading(p) = <<1>> /\ Heading(q) = <<1>>
  BY HeadingIs
<1>5. HeadingDifference(p, q) = 0
  BY <1>4, DifferenceBoxed
<1>6. compare[<<p, q>>] = Box(d)
  BY <1>5, ComparesTo DEF Compared, Objects
<1>7. Box(d) = 2 * d + 1
  <2> HIDE DEF d
  <2> QED BY <1>3, BoxWithin
<1>8. QED BY <1>3, <1>6, <1>7

LEMMA ElementsCompare ==
  ASSUME NEW p \in Data, NEW q \in Data,
         p.kind \notin {"int", "string"}, q.kind # "int", HeadingDifference(p, q) = 0
  PROVE  compare[<<p, q>>] = FirstOf(Results(p, q))
  BY ComparesTo DEF Compared, Objects

(* The results stay within four times the bound, so that nothing is lost in boxing  *)
(* them.                                                                            *)
Kept(p, q) ==
  \A b \in Nat : b <= Limit /\ bounded[p][b] /\ bounded[q][b] =>
                  compare[<<p, q>>] \in -(4 * b) .. 4 * b - 1

LEMMA ObjectsKept ==
  ASSUME NEW p \in Data, NEW q \in Data, p.kind # "int", q.kind # "int",
         \A i \in DOMAIN Parts(p) \cap DOMAIN Parts(q) : Kept(Parts(p)[i], Parts(q)[i])
  PROVE  Kept(p, q)
<1> SUFFICES ASSUME NEW b \in Nat, b <= Limit, bounded[p][b], bounded[q][b]
             PROVE  compare[<<p, q>>] \in -(4 * b) .. 4 * b - 1
  BY DEF Kept
<1>1. b >= 1
  BY BoundedObject
<1>2. CASE HeadingDifference(p, q) # 0
  <2>1. PICK d \in -(2 * b) .. 2 * b - 1 : d = HeadingDifference(p, q)
    BY HeadingsWithin
  <2>2. compare[<<p, q>>] = 2 * d + 1
    BY <1>2, <2>1, HeadingsWithin
  <2>3. QED BY <2>2
<1>3. CASE HeadingDifference(p, q) = 0 /\ p.kind = "string"
  <2>1. q.kind = "string"
    BY <1>3, DifferenceBoxed, HeadingsEqual
  <2>2. PICK d \in -(2 * b) .. 2 * b - 1 : d = strcmp(Chars(p.bytes), Chars(q.bytes))
    BY <1>3, <2>1, StringsWithin
  <2>3. compare[<<p, q>>] = 2 * d + 1
    BY <1>3, <2>1, <2>2, StringsWithin
  <2>4. QED BY <2>3
<1>4. CASE HeadingDifference(p, q) = 0 /\ p.kind # "string"
  <2>1. compare[<<p, q>>] = FirstOf(Results(p, q))
    BY <1>4, ElementsCompare
  <2>2. DOMAIN Results(p, q) \subseteq Nat
    <3>1. DOMAIN Parts(p) \subseteq Nat
      BY PartsOfData
    <3>2. QED BY <3>1 DEF Results
  <2>3. CASE FirstOf(Results(p, q)) = Box(0)
    BY <1>1, <2>1, <2>3, BoxOfZero
  <2>4. ASSUME NEW i \in DOMAIN Results(p, q), FirstOf(Results(p, q)) = Box(Results(p, q)[i])
        PROVE  compare[<<p, q>>] \in -(4 * b) .. 4 * b - 1
    <3>1. i \in DOMAIN Parts(p) \cap DOMAIN Parts(q)
      BY DEF Results
    <3>2. Results(p, q)[i] = compare[<<Parts(p)[i], Parts(q)[i]>>]
      BY <3>1 DEF Results
    <3>3. bounded[Parts(p)[i]][b \div 2] /\ bounded[Parts(q)[i]][b \div 2]
      BY <3>1, BoundedParts
    <3>4. b \div 2 \in Nat /\ 2 * (b \div 2) <= b
      OBVIOUS
    <3>5. PICK half \in Nat : half = b \div 2
      BY <3>4
    <3>6. half <= Limit
      <4>1. Limit \in Int
        BY LimitIs
      <4>2. QED BY <3>4, <3>5, <4>1
    <3>7. Results(p, q)[i] \in -(4 * half) .. 4 * half - 1
      BY <3>1, <3>2, <3>3, <3>5, <3>6 DEF Kept
    <3>8. PICK d \in -(2 * b) .. 2 * b - 1 : d = Results(p, q)[i]
      BY <3>4, <3>5, <3>7
    <3>9. Box(d) = 2 * d + 1
      BY BoxWithin
    <3>10. QED BY <2>1, <2>4, <3>8, <3>9
  <2>5. QED BY <2>2, <2>3, <2>4, FirstOfIs
<1>5. QED BY <1>2, <1>3, <1>4

LEMMA AllKept == \A p, q \in Data : Kept(p, q)
<1> DEFINE Bad == {n \in Nat : \E p, q \in Data : Nesting(p) = n /\ ~Kept(p, q)}
<1>1. ASSUME Bad # {} PROVE FALSE
  <2>1. PICK n \in Bad : \A k \in Bad : n <= k
    <3>1. Bad \in SUBSET Nat
      OBVIOUS
    <3>2. QED
      <4> HIDE DEF Bad
      <4> QED BY <1>1, <3>1, LeastNumber
  <2>2. PICK p \in Data, q \in Data : Nesting(p) = n /\ ~Kept(p, q)
    OBVIOUS
  <2>3. ASSUME NEW i \in DOMAIN Parts(p) \cap DOMAIN Parts(q)
        PROVE  Kept(Parts(p)[i], Parts(q)[i])
    <3>1. Parts(p)[i] \in Data /\ Nesting(Parts(p)[i]) < n /\ Parts(q)[i] \in Data
      BY <2>2, PartsOfData
    <3>2. Nesting(Parts(p)[i]) \in Nat /\ Nesting(p) \in Nat
      BY <3>1, PartsOfData
    <3>3. Nesting(Parts(p)[i]) \notin Bad
      <4> HIDE DEF Bad
      <4> QED BY <2>1, <2>2, <3>1, <3>2
    <3>4. QED BY <3>1, <3>2, <3>3
  <2>4. CASE p.kind # "int" /\ q.kind # "int"
    BY <2>2, <2>3, <2>4, ObjectsKept
  <2>5. PICK b \in Nat : /\ b <= Limit /\ bounded[p][b] /\ bounded[q][b]
                         /\ compare[<<p, q>>] \notin -(4 * b) .. 4 * b - 1
    BY <2>2 DEF Kept
  <2>6. CASE p.kind = "int" /\ q.kind = "int"
    <3>1. PICK d \in -(2 * b) .. 2 * b - 1 : d = p.n - q.n
      BY <2>5, <2>6, IntsWithin
    <3>2. compare[<<p, q>>] = 2 * d + 1
      BY <2>5, <2>6, <3>1, IntsWithin
    <3>3. QED BY <2>5, <3>2
  <2>7. CASE p.kind = "int" /\ q.kind # "int"
    <3>1. b >= 1 /\ compare[<<p, q>>] = -1
      BY <2>5, <2>7, BoundedObject, MixedCompare
    <3>2. QED BY <2>5, <3>1
  <2>8. CASE p.kind # "int" /\ q.kind = "int"
    <3>1. b >= 1 /\ compare[<<p, q>>] = 3
      BY <2>5, <2>8, BoundedObject, MixedCompare
    <3>2. QED BY <2>5, <3>1
  <2>9. QED BY <2>4, <2>6, <2>7, <2>8
<1>2. ASSUME NEW p \in Data, NEW q \in Data PROVE Kept(p, q)
  <2>1. Nesting(p) \in Nat
    BY PartsOfData
  <2>2. QED BY <1>1, <2>1
<1>3. QED BY <1>2

(* The first difference of two sequences decides, where there is one.               *)
Leads(f, x) ==
  \/ x = 0 /\ \A i \in DOMAIN f : f[i] = 0
  \/ \E i \in DOMAIN f : x = f[i] /\ f[i] # 0 /\ \A j \in DOMAIN f : j < i => f[j] = 0

Follows(x, y, z) == x >= 0 /\ y >= 0 => z = IF x > 0 \/ y > 0 THEN 1 ELSE 0

LEMMA LeadsNegated ==
  ASSUME NEW S \in SUBSET Nat, NEW f \in [S -> -1 .. 1], NEW g \in [S -> -1 .. 1],
         \A i \in S : g[i] = -f[i],
         NEW x \in -1 .. 1, NEW y \in -1 .. 1, Leads(f, x), Leads(g, y)
  PROVE  y = -x
<1>1. CASE x = 0 /\ \A i \in S : f[i] = 0
  <2>1. \A i \in S : g[i] = 0
    BY <1>1
  <2>2. y = 0
    BY <2>1 DEF Leads
  <2>3. x + y = 0
    BY <1>1, <2>2
  <2>4. QED BY <2>3
<1>2. ASSUME NEW i \in S, x = f[i], f[i] # 0, \A j \in S : j < i => f[j] = 0
      PROVE  y = -x
  <2>1. g[i] # 0 /\ g[i] = -x
    BY <1>2
  <2>2. PICK k \in S : y = g[k] /\ g[k] # 0 /\ \A j \in S : j < k => g[j] = 0
    BY <2>1 DEF Leads
  <2>3. ~(k < i)
    <3>1. k < i => f[k] = 0
      BY <1>2
    <3>2. QED BY <2>2, <3>1
  <2>4. ~(i < k)
    BY <2>1, <2>2
  <2>5. i = k
    <3>1. i \in Nat /\ k \in Nat
      OBVIOUS
    <3>2. QED BY <2>3, <2>4, <3>1
  <2>6. QED BY <2>1, <2>2, <2>5
<1>3. QED BY <1>1, <1>2 DEF Leads

LEMMA LeadsFollow ==
  ASSUME NEW S \in SUBSET Nat, NEW f \in [S -> -1 .. 1], NEW g \in [S -> -1 .. 1],
         NEW h \in [S -> -1 .. 1], \A i \in S : Follows(f[i], g[i], h[i]),
         NEW x \in -1 .. 1, NEW y \in -1 .. 1, NEW z \in -1 .. 1,
         Leads(f, x), Leads(g, y), Leads(h, z)
  PROVE  Follows(x, y, z)
<1> SUFFICES ASSUME x >= 0, y >= 0 PROVE z = IF x > 0 \/ y > 0 THEN 1 ELSE 0
  BY DEF Follows
<1>1. ASSUME NEW m \in S, h[m] = 1, \A j \in S : j < m => h[j] = 0
      PROVE  z = 1
  <2>1. PICK k \in S : z = h[k] /\ h[k] # 0 /\ \A j \in S : j < k => h[j] = 0
    BY <1>1 DEF Leads
  <2>2. ~(k < m) /\ ~(m < k)
    BY <1>1, <2>1
  <2>3. k \in Nat /\ m \in Nat
    OBVIOUS
  <2>4. k = m
    BY <2>2, <2>3
  <2>5. QED BY <1>1, <2>1, <2>4
<1>2. ASSUME NEW j \in S, f[j] = 0, g[j] = 0 PROVE h[j] = 0
  BY <1>2 DEF Follows
<1>3. ASSUME NEW j \in S, f[j] = 1, g[j] = 0 \/ g[j] = 1 PROVE h[j] = 1
  BY <1>3 DEF Follows
<1>4. ASSUME NEW j \in S, g[j] = 1, f[j] = 0 \/ f[j] = 1 PROVE h[j] = 1
  BY <1>4 DEF Follows
<1>5. CASE x = 0 /\ y = 0
  <2>1. \A j \in S : f[j] = 0 /\ g[j] = 0
    BY <1>5 DEF Leads
  <2>2. \A j \in S : h[j] = 0
    BY <1>2, <2>1
  <2>3. z = 0
    BY <2>2 DEF Leads
  <2>4. QED BY <1>5, <2>3
<1>6. CASE x = 1 /\ y = 0
  <2>1. PICK i \in S : f[i] = 1 /\ \A j \in S : j < i => f[j] = 0
    BY <1>6 DEF Leads
  <2>2. \A j \in S : g[j] = 0
    BY <1>6 DEF Leads
  <2>3. h[i] = 1 /\ \A j \in S : j < i => h[j] = 0
    BY <1>2, <1>3, <2>1, <2>2
  <2>4. z = 1
    BY <1>1, <2>3
  <2>5. QED BY <1>6, <2>4
<1>7. CASE x = 0 /\ y = 1
  <2>1. PICK i \in S : g[i] = 1 /\ \A j \in S : j < i => g[j] = 0
    BY <1>7 DEF Leads
  <2>2. \A j \in S : f[j] = 0
    BY <1>7 DEF Leads
  <2>3. h[i] = 1 /\ \A j \in S : j < i => h[j] = 0
    BY <1>2, <1>4, <2>1, <2>2
  <2>4. z = 1
    BY <1>1, <2>3
  <2>5. QED BY <1>7, <2>4
<1>8. CASE x = 1 /\ y = 1
  <2>1. PICK i \in S : f[i] = 1 /\ \A j \in S : j < i => f[j] = 0
    BY <1>8 DEF Leads
  <2>2. PICK k \in S : g[k] = 1 /\ \A j \in S : j < k => g[j] = 0
    BY <1>8 DEF Leads
  <2>3. i \in Nat /\ k \in Nat /\ S \subseteq Nat
    OBVIOUS
  <2>4. CASE i <= k
    <3>1. g[i] = 0 \/ g[i] = 1
      BY <2>2, <2>3, <2>4
    <3>2. h[i] = 1
      BY <1>3, <2>1, <3>1
    <3>3. \A j \in S : j < i => f[j] = 0 /\ g[j] = 0
      BY <2>1, <2>2, <2>3, <2>4
    <3>4. \A j \in S : j < i => h[j] = 0
      BY <1>2, <3>3
    <3>5. QED BY <1>1, <1>8, <3>2, <3>4
  <2>5. CASE k <= i
    <3>1. f[k] = 0 \/ f[k] = 1
      BY <2>1, <2>3, <2>5
    <3>2. h[k] = 1
      BY <1>4, <2>2, <3>1
    <3>3. \A j \in S : j < k => f[j] = 0 /\ g[j] = 0
      BY <2>1, <2>2, <2>3, <2>5
    <3>4. \A j \in S : j < k => h[j] = 0
      BY <1>2, <3>3
    <3>5. QED BY <1>1, <1>8, <3>2, <3>4
  <2>6. QED BY <2>3, <2>4, <2>5
<1>9. QED BY <1>5, <1>6, <1>7, <1>8

(* Sequences of numbers, with zeros behind them.                                    *)
Padded(s, i) == IF i \in DOMAIN s THEN s[i] ELSE 0
Signs(s, t) == [i \in Nat \ {0} |-> Sign(Padded(s, i) - Padded(t, i))]

LEMMA PaddedIs ==
  ASSUME NEW s \in Seq(Nat), NEW i PROVE Padded(s, i) \in Nat
  BY ElementsIn DEF Padded

LEMMA SignsAre ==
  ASSUME NEW s \in Seq(Nat), NEW t \in Seq(Nat)
  PROVE  Signs(s, t) \in [Nat \ {0} -> -1 .. 1]
<1>1. ASSUME NEW i \in Nat \ {0} PROVE Sign(Padded(s, i) - Padded(t, i)) \in -1 .. 1
  <2>1. PICK a \in Nat : a = Padded(s, i)
    BY PaddedIs
  <2>2. PICK b \in Nat : b = Padded(t, i)
    BY PaddedIs
  <2>3. Sign(a - b) \in -1 .. 1
    BY DEF Sign
  <2>4. QED BY <2>1, <2>2, <2>3
<1>2. QED BY <1>1 DEF Signs

LEMMA SignsNegated ==
  ASSUME NEW s \in Seq(Nat), NEW t \in Seq(Nat), NEW x \in -1 .. 1, NEW y \in -1 .. 1,
         Leads(Signs(s, t), x), Leads(Signs(t, s), y)
  PROVE  y = -x
<1>1. ASSUME NEW i \in Nat \ {0} PROVE Signs(t, s)[i] = -Signs(s, t)[i]
  <2>1. PICK a \in Nat : a = Padded(s, i)
    BY PaddedIs
  <2>2. PICK b \in Nat : b = Padded(t, i)
    BY PaddedIs
  <2>3. Sign(b - a) = -Sign(a - b)
    BY DEF Sign
  <2>4. QED BY <2>1, <2>2, <2>3 DEF Signs
<1>2. Signs(s, t) \in [Nat \ {0} -> -1 .. 1] /\ Signs(t, s) \in [Nat \ {0} -> -1 .. 1]
  BY SignsAre
<1>3. Nat \ {0} \in SUBSET Nat
  OBVIOUS
<1>4. QED BY <1>1, <1>2, <1>3, LeadsNegated

LEMMA SignsFollow ==
  ASSUME NEW s \in Seq(Nat), NEW t \in Seq(Nat), NEW u \in Seq(Nat),
         NEW x \in -1 .. 1, NEW y \in -1 .. 1, NEW z \in -1 .. 1,
         Leads(Signs(s, t), x), Leads(Signs(t, u), y), Leads(Signs(s, u), z)
  PROVE  Follows(x, y, z)
<1>1. ASSUME NEW i \in Nat \ {0} PROVE Follows(Signs(s, t)[i], Signs(t, u)[i], Signs(s, u)[i])
  <2>1. PICK a \in Nat : a = Padded(s, i)
    BY PaddedIs
  <2>2. PICK b \in Nat : b = Padded(t, i)
    BY PaddedIs
  <2>3. PICK c \in Nat : c = Padded(u, i)
    BY PaddedIs
  <2>4. Follows(Sign(a - b), Sign(b - c), Sign(a - c))
    BY DEF Follows, Sign
  <2>5. QED BY <2>1, <2>2, <2>3, <2>4 DEF Signs
<1>2. /\ Signs(s, t) \in [Nat \ {0} -> -1 .. 1] /\ Signs(t, u) \in [Nat \ {0} -> -1 .. 1]
      /\ Signs(s, u) \in [Nat \ {0} -> -1 .. 1]
  BY SignsAre
<1>3. Nat \ {0} \in SUBSET Nat
  OBVIOUS
<1>4. QED BY <1>1, <1>2, <1>3, LeadsFollow

LEMMA DifferenceLeads ==
  ASSUME NEW s \in Seq(Nat), NEW t \in Seq(Nat), NEW i \in DOMAIN s \cap DOMAIN t, s[i] # t[i],
         \A j \in DOMAIN s \cap DOMAIN t : j < i => s[j] = t[j]
  PROVE  Leads(Signs(s, t), Sign(s[i] - t[i])) /\ Sign(s[i] - t[i]) # 0
<1>1. PICK a \in Nat : a = s[i]
  BY ElementsIn
<1>2. PICK b \in Nat : b = t[i]
  BY ElementsIn
<1>3. Sign(a - b) # 0
  BY <1>1, <1>2 DEF Sign
<1>4. i \in Nat \ {0} /\ Signs(s, t)[i] = Sign(a - b)
  BY <1>1, <1>2 DEF Signs, Padded
<1>5. ASSUME NEW j \in Nat \ {0}, j < i PROVE Signs(s, t)[j] = 0
  <2>1. j \in DOMAIN s \cap DOMAIN t
    BY <1>4, <1>5
  <2>2. s[j] = t[j] /\ s[j] \in Nat
    BY <1>5, <2>1, ElementsIn
  <2>3. PICK c \in Nat : c = s[j]
    BY <2>2
  <2>4. Signs(s, t)[j] = Sign(c - c)
    BY <2>1, <2>2, <2>3 DEF Signs, Padded
  <2>5. QED BY <2>4 DEF Sign
<1>6. DOMAIN Signs(s, t) = Nat \ {0}
  BY DEF Signs
<1>7. QED BY <1>1, <1>2, <1>3, <1>4, <1>5, <1>6 DEF Leads

LEMMA NoDifferenceLeads == ASSUME NEW s \in Seq(Nat) PROVE Leads(Signs(s, s), 0)
<1>1. ASSUME NEW i \in Nat \ {0} PROVE Signs(s, s)[i] = 0
  <2>1. PICK a \in Nat : a = Padded(s, i)
    BY PaddedIs
  <2>2. Sign(a - a) = 0
    BY DEF Sign
  <2>3. QED BY <2>1, <2>2 DEF Signs
<1>2. DOMAIN Signs(s, s) = Nat \ {0}
  BY DEF Signs
<1>3. QED BY <1>1, <1>2 DEF Leads

LEMMA LargerSeq == ASSUME NEW T, NEW U, T \subseteq U, NEW s \in Seq(T) PROVE s \in Seq(U)
  OBVIOUS

(* A string is before those that it begins, for no character is 0.                  *)
LEMMA CharOrderLeads ==
  ASSUME NEW s \in Seq(1 .. 255), NEW t \in Seq(1 .. 255)
  PROVE  s \in Seq(Nat) /\ t \in Seq(Nat) /\ Leads(Signs(s, t), CharOrder(s, t))
<1> DEFINE differ == {i \in DOMAIN s \cap DOMAIN t : s[i] # t[i]}
<1>1. s \in Seq(Nat) /\ t \in Seq(Nat)
  <2>1. 1 .. 255 \subseteq Nat
    OBVIOUS
  <2>2. QED BY <2>1, LargerSeq
<1>2. DOMAIN s = 1 .. Len(s) /\ Len(s) \in Nat /\ DOMAIN t = 1 .. Len(t) /\ Len(t) \in Nat
  BY <1>1, ElementsIn
<1>3. CASE differ # {}
  <2>1. differ \in SUBSET Nat
    BY <1>2
  <2>2. Min(differ) \in differ /\ \A k \in differ : Min(differ) <= k
    <3> HIDE DEF differ
    <3> QED BY <1>3, <2>1, MinOf
  <2>3. PICK i \in differ : i = Min(differ)
    BY <2>2
  <2>4. CharOrder(s, t) = Sign(s[i] - t[i])
    BY <1>3, <2>3 DEF CharOrder
  <2>5. \A j \in DOMAIN s \cap DOMAIN t : j < i => s[j] = t[j]
    <3>1. ASSUME NEW j \in DOMAIN s \cap DOMAIN t, j < i PROVE j \notin differ
      <4>1. j \in Nat /\ i \in Nat
        BY <1>2, <2>1, <2>3
      <4>2. j \in differ => i <= j
        BY <2>2, <2>3
      <4>3. QED BY <3>1, <4>1, <4>2
    <3>2. QED BY <3>1
  <2>6. i \in DOMAIN s \cap DOMAIN t /\ s[i] # t[i]
    BY <2>3
  <2>7. Leads(Signs(s, t), Sign(s[i] - t[i]))
    BY <1>1, <2>5, <2>6, DifferenceLeads
  <2>8. QED BY <1>1, <2>4, <2>7
<1>4. CASE differ = {}
  <2>1. CharOrder(s, t) = Sign(Len(s) - Len(t))
    BY <1>4 DEF CharOrder
  <2>2. \A j \in DOMAIN s \cap DOMAIN t : Padded(s, j) = Padded(t, j)
    BY <1>4 DEF Padded
  <2>3. ASSUME NEW j \in DOMAIN s \cap DOMAIN t PROVE Signs(s, t)[j] = 0
    <3>1. PICK a \in Nat : a = Padded(s, j)
      BY <1>1, PaddedIs
    <3>2. j \in Nat \ {0}
      BY <1>2
    <3>3. Signs(s, t)[j] = Sign(a - a)
      BY <2>2, <3>1, <3>2 DEF Signs
    <3>4. QED BY <3>3 DEF Sign
  <2>4. DOMAIN Signs(s, t) = Nat \ {0}
    BY DEF Signs
  <2>5. CASE Len(s) = Len(t)
    <3>1. s = t
      <4>1. \A j \in 1 .. Len(s) : s[j] = t[j]
        BY <1>2, <1>4, <2>5
      <4>2. QED BY <1>1, <2>5, <4>1
    <3>2. CharOrder(s, t) = 0
      BY <1>2, <2>1, <2>5 DEF Sign
    <3>3. QED BY <1>1, <3>1, <3>2, NoDifferenceLeads
  <2>6. CASE Len(s) > Len(t)
    <3> DEFINE i == Len(t) + 1
    <3>1. i \in DOMAIN s /\ i \notin DOMAIN t /\ i \in Nat \ {0}
      BY <1>2, <2>6
    <3>2. PICK a \in 1 .. 255 : a = s[i]
      BY <3>1, ElementsIn
    <3>3. Signs(s, t)[i] = Sign(a - 0)
      BY <3>1, <3>2 DEF Signs, Padded
    <3>4. Signs(s, t)[i] = 1
      BY <3>3 DEF Sign
    <3>5. \A j \in Nat \ {0} : j < i => j \in DOMAIN s \cap DOMAIN t
      BY <1>2, <2>6
    <3>6. \A j \in Nat \ {0} : j < i => Signs(s, t)[j] = 0
      BY <2>3, <3>5
    <3>7. CharOrder(s, t) = 1
      BY <1>2, <2>1, <2>6 DEF Sign
    <3>8. QED
      <4> HIDE DEF i
      <4>1. CharOrder(s, t) = Signs(s, t)[i] /\ Signs(s, t)[i] # 0
        BY <3>4, <3>7
      <4>2. Leads(Signs(s, t), CharOrder(s, t))
        BY <2>4, <3>1, <3>6, <4>1 DEF Leads
      <4>3. QED BY <1>1, <4>2
  <2>7. CASE Len(s) < Len(t)
    <3> DEFINE i == Len(s) + 1
    <3>1. i \in DOMAIN t /\ i \notin DOMAIN s /\ i \in Nat \ {0}
      BY <1>2, <2>7
    <3>2. PICK a \in 1 .. 255 : a = t[i]
      BY <3>1, ElementsIn
    <3>3. Signs(s, t)[i] = Sign(0 - a)
      BY <3>1, <3>2 DEF Signs, Padded
    <3>4. Signs(s, t)[i] = -1
      BY <3>3 DEF Sign
    <3>5. \A j \in Nat \ {0} : j < i => j \in DOMAIN s \cap DOMAIN t
      BY <1>2, <2>7
    <3>6. \A j \in Nat \ {0} : j < i => Signs(s, t)[j] = 0
      BY <2>3, <3>5
    <3>7. CharOrder(s, t) = -1
      BY <1>2, <2>1, <2>7 DEF Sign
    <3>8. QED
      <4> HIDE DEF i
      <4>1. CharOrder(s, t) = Signs(s, t)[i] /\ Signs(s, t)[i] # 0
        BY <3>4, <3>7
      <4>2. Leads(Signs(s, t), CharOrder(s, t))
        BY <2>4, <3>1, <3>6, <4>1 DEF Leads
      <4>3. QED BY <1>1, <4>2
  <2>8. Len(s) = Len(t) \/ Len(s) > Len(t) \/ Len(s) < Len(t)
    <3>1. \A m, n \in Nat : m = n \/ m > n \/ m < n
      OBVIOUS
    <3>2. QED BY <1>2, <3>1
  <2>9. QED BY <2>5, <2>6, <2>7, <2>8
<1>5. QED BY <1>3, <1>4

(* The sign of a comparison.                                                        *)
LEMMA OrderOf ==
  ASSUME NEW p \in Data, NEW q \in Data
  PROVE  /\ Order(p, q) \in -1 .. 1
         /\ \A d \in Int : compare[<<p, q>>] = 2 * d + 1 => Order(p, q) = Sign(d)
<1>1. PICK c \in Int : compare[<<p, q>>] = 2 * c + 1
  BY AllDecided DEF Decided, Odd
<1>2. Order(p, q) = Sign((2 * c + 1) - 1)
  BY <1>1, BoxOfZero DEF Order, Lcompare
<1>3. Order(p, q) \in -1 .. 1
  BY <1>2 DEF Sign
<1>4. ASSUME NEW d \in Int, compare[<<p, q>>] = 2 * d + 1 PROVE Order(p, q) = Sign(d)
  <2>1. c = d
    BY <1>1, <1>4
  <2>2. Sign((2 * d + 1) - 1) = Sign(d)
    BY DEF Sign
  <2>3. QED BY <1>2, <2>1, <2>2
<1>5. QED BY <1>3, <1>4

LEMMA OrderOfInts ==
  ASSUME NEW p \in Data, NEW q \in Data, NEW b \in Nat, b <= Limit,
         bounded[p][b], bounded[q][b], p.kind = "int", q.kind = "int"
  PROVE  p.n \in Int /\ q.n \in Int /\ Order(p, q) = Sign(p.n - q.n)
<1>1. p.n \in Int /\ q.n \in Int /\ compare[<<p, q>>] = 2 * (p.n - q.n) + 1
  BY IntsWithin
<1>2. p.n - q.n \in Int
  BY <1>1
<1>3. QED BY <1>1, <1>2, OrderOf

LEMMA OrderOfMixed ==
  ASSUME NEW p \in Data, NEW q \in Data
  PROVE  /\ p.kind = "int" /\ q.kind # "int" => Order(p, q) = -1
         /\ p.kind # "int" /\ q.kind = "int" => Order(p, q) = 1
<1>1. Sign(-1) = -1 /\ Sign(1) = 1
  BY DEF Sign
<1>2. ASSUME p.kind = "int", q.kind # "int" PROVE Order(p, q) = -1
  <2>1. compare[<<p, q>>] = 2 * (-1) + 1
    BY <1>2, MixedCompare
  <2>2. QED BY <1>1, <2>1, OrderOf
<1>3. ASSUME p.kind # "int", q.kind = "int" PROVE Order(p, q) = 1
  <2>1. compare[<<p, q>>] = 2 * 1 + 1
    BY <1>3, MixedCompare
  <2>2. QED BY <1>1, <2>1, OrderOf
<1>4. QED BY <1>2, <1>3

(* Objects are ordered by what they begin with.                                     *)
HeadOrder(p, q) == Sign(HeadingDifference(p, q))

LEMMA OrderOfHeadings ==
  ASSUME NEW p \in Data, NEW q \in Data, p.kind # "int", q.kind # "int"
  PROVE  /\ HeadOrder(p, q) \in -1 .. 1
         /\ Heading(p) \in Seq(Nat) /\ Heading(q) \in Seq(Nat)
         /\ Leads(Signs(Heading(p), Heading(q)), HeadOrder(p, q))
         /\ HeadOrder(p, q) = 0 <=> HeadingDifference(p, q) = 0
         /\ \A b \in Nat : b <= Limit /\ bounded[p][b] /\ bounded[q][b] /\ HeadOrder(p, q) # 0 =>
                           Order(p, q) = HeadOrder(p, q)
<1>1. PICK d \in Int : d = HeadingDifference(p, q)
  BY DifferenceBoxed
<1>2. HeadOrder(p, q) \in -1 .. 1 /\ (HeadOrder(p, q) = 0 <=> d = 0)
  BY <1>1 DEF HeadOrder, Sign
<1>3. Heading(p) \in Seq(Nat) /\ Heading(q) \in Seq(Nat)
  BY HeadingNumbers
<1>4. Leads(Signs(Heading(p), Heading(q)), HeadOrder(p, q))
  <2>1. CASE HeadingDifference(p, q) = 0 /\ Heading(p) = Heading(q)
    <3>1. HeadOrder(p, q) = 0
      BY <1>1, <1>2, <2>1
    <3>2. QED BY <1>3, <2>1, <3>1, NoDifferenceLeads
  <2>2. ASSUME NEW i \in DOMAIN Heading(p) \cap DOMAIN Heading(q),
               HeadingDifference(p, q) = Heading(p)[i] - Heading(q)[i],
               Heading(p)[i] # Heading(q)[i],
               \A j \in DOMAIN Heading(p) \cap DOMAIN Heading(q) :
                 j < i => Heading(p)[j] = Heading(q)[j]
        PROVE  Leads(Signs(Heading(p), Heading(q)), HeadOrder(p, q))
    <3>1. Leads(Signs(Heading(p), Heading(q)), Sign(Heading(p)[i] - Heading(q)[i]))
      BY <1>3, <2>2, DifferenceLeads
    <3>2. QED BY <2>2, <3>1 DEF HeadOrder
  <2>3. QED BY <2>1, <2>2, DifferenceIs
<1>5. ASSUME NEW b \in Nat, b <= Limit, bounded[p][b], bounded[q][b], HeadOrder(p, q) # 0
      PROVE  Order(p, q) = HeadOrder(p, q)
  <2>1. HeadingDifference(p, q) # 0
    BY <1>1, <1>2, <1>5
  <2>2. compare[<<p, q>>] = 2 * d + 1
    BY <1>1, <1>5, <2>1, HeadingsWithin
  <2>3. QED BY <1>1, <2>2, OrderOf DEF HeadOrder
<1>6. QED BY <1>1, <1>2, <1>3, <1>4, <1>5

LEMMA OrderOfStrings ==
  ASSUME NEW p \in Data, NEW q \in Data, p.kind = "string", q.kind = "string",
         NEW b \in Nat, b <= Limit, bounded[p][b], bounded[q][b]
  PROVE  /\ Chars(p.bytes) \in Seq(1 .. 255) /\ Chars(q.bytes) \in Seq(1 .. 255)
         /\ Order(p, q) = CharOrder(Chars(p.bytes), Chars(q.bytes))
<1> DEFINE d == strcmp(Chars(p.bytes), Chars(q.bytes))
<1>1. /\ Chars(p.bytes) \in Seq(1 .. 255) /\ Chars(q.bytes) \in Seq(1 .. 255)
      /\ Sign(d) = CharOrder(Chars(p.bytes), Chars(q.bytes))
  BY StrcmpIs
<1>2. d \in -(2 * b) .. 2 * b - 1 /\ compare[<<p, q>>] = 2 * d + 1
  BY StringsWithin
<1> HIDE DEF d
<1>3. d \in Int
  BY <1>2
<1>4. Order(p, q) = Sign(d)
  BY <1>2, <1>3, OrderOf
<1>5. QED BY <1>1, <1>4

(* Objects that begin alike are ordered by the first elements that differ.          *)
Orders(p, q) == [i \in DOMAIN Parts(p) \cap DOMAIN Parts(q) |-> Order(Parts(p)[i], Parts(q)[i])]

LEMMA OrdersAre ==
  ASSUME NEW p \in Data, NEW q \in Data
  PROVE  /\ Orders(p, q) \in [DOMAIN Parts(p) \cap DOMAIN Parts(q) -> -1 .. 1]
         /\ DOMAIN Parts(p) \cap DOMAIN Parts(q) \in SUBSET Nat
<1>1. ASSUME NEW i \in DOMAIN Parts(p) \cap DOMAIN Parts(q)
      PROVE  Order(Parts(p)[i], Parts(q)[i]) \in -1 .. 1
  BY PartsOfData, OrderOf
<1>2. DOMAIN Parts(p) \subseteq Nat
  BY PartsOfData
<1>3. QED BY <1>1, <1>2 DEF Orders

LEMMA OrderOfElements ==
  ASSUME NEW p \in Data, NEW q \in Data, NEW b \in Nat, b <= Limit,
         bounded[p][b], bounded[q][b], HeadingDifference(p, q) = 0,
         p.kind \notin {"int", "string"}, q.kind # "int"
  PROVE  Leads(Orders(p, q), Order(p, q))
<1> DEFINE c == Results(p, q)
           both == DOMAIN Parts(p) \cap DOMAIN Parts(q)
<1>1. compare[<<p, q>>] = FirstOf(c)
  BY ElementsCompare
<1>2. DOMAIN c = both /\ both \subseteq Nat /\ DOMAIN Orders(p, q) = both
  BY OrdersAre DEF Results, Orders
<1>3. ASSUME NEW i \in both
      PROVE  /\ c[i] \in -(2 * b) .. 2 * b - 1 /\ Odd(c[i])
             /\ Orders(p, q)[i] = Sign(c[i] - 1)
  <2>1. Parts(p)[i] \in Data /\ Parts(q)[i] \in Data
    BY PartsOfData
  <2>2. c[i] = compare[<<Parts(p)[i], Parts(q)[i]>>]
    BY DEF Results
  <2>3. Odd(c[i])
    BY <2>1, <2>2, AllDecided DEF Decided
  <2>4. bounded[Parts(p)[i]][b \div 2] /\ bounded[Parts(q)[i]][b \div 2]
    BY BoundedParts
  <2>5. PICK half \in Nat : half = b \div 2 /\ 2 * half <= b
    OBVIOUS
  <2>6. half <= Limit
    BY <2>5, LimitIs
  <2>7. Kept(Parts(p)[i], Parts(q)[i])
    BY <2>1, AllKept
  <2>8. c[i] \in -(4 * half) .. 4 * half - 1
    BY <2>2, <2>4, <2>5, <2>6, <2>7 DEF Kept
  <2>9. PICK x \in -(2 * b) .. 2 * b - 1 : x = c[i]
    BY <2>5, <2>8
  <2>10. Orders(p, q)[i] = Order(Parts(p)[i], Parts(q)[i])
    BY DEF Orders
  <2>11. Order(Parts(p)[i], Parts(q)[i]) = Sign(c[i] - 1)
    BY <2>2, BoxOfZero DEF Order, Lcompare
  <2>12. QED BY <2>3, <2>9, <2>10, <2>11
<1> HIDE DEF c, both
<1>4. ASSUME NEW i \in both, c[i] = Box(0) PROVE Orders(p, q)[i] = 0
  <2>1. Orders(p, q)[i] = Sign(1 - 1)
    BY <1>3, <1>4, BoxOfZero
  <2>2. QED BY <2>1 DEF Sign
<1>5. CASE FirstOf(c) = Box(0) /\ \A i \in DOMAIN c : c[i] = Box(0)
  <2>1. compare[<<p, q>>] = 2 * 0 + 1
    BY <1>1, <1>5, BoxOfZero
  <2>2. Order(p, q) = Sign(0)
    BY <2>1, OrderOf
  <2>3. Order(p, q) = 0
    BY <2>2 DEF Sign
  <2>4. \A i \in both : Orders(p, q)[i] = 0
    BY <1>2, <1>4, <1>5
  <2>5. QED BY <1>2, <2>3, <2>4 DEF Leads
<1>6. ASSUME NEW i \in both, FirstOf(c) = Box(c[i]), c[i] # Box(0),
             \A j \in both : j < i => c[j] = Box(0)
      PROVE  Leads(Orders(p, q), Order(p, q))
  <2>1. PICK x \in -(2 * b) .. 2 * b - 1 : x = c[i]
    BY <1>3
  <2>2. PICK y \in Int : x = 2 * y + 1
    BY <1>3, <2>1 DEF Odd
  <2>3. x # 1
    BY <1>6, <2>1, BoxOfZero
  <2>4. compare[<<p, q>>] = 2 * x + 1
    BY <1>1, <1>6, <2>1, BoxWithin
  <2>5. Order(p, q) = Sign(x)
    BY <2>4, OrderOf
  <2>6. Orders(p, q)[i] = Sign(x - 1)
    BY <1>3, <2>1
  <2>7. y # 0
    BY <2>2, <2>3
  <2>8. Sign(2 * y + 1) = Sign((2 * y + 1) - 1) /\ Sign((2 * y + 1) - 1) # 0
    BY <2>7 DEF Sign
  <2>9. Order(p, q) = Orders(p, q)[i] /\ Orders(p, q)[i] # 0
    BY <2>2, <2>5, <2>6, <2>8
  <2>10. \A j \in both : j < i => Orders(p, q)[j] = 0
    BY <1>4, <1>6
  <2>11. QED BY <1>2, <2>9, <2>10 DEF Leads
<1>7. QED BY <1>2, <1>5, <1>6, FirstOfIs

(* What is less one way is greater the other way.                                   *)
Reversed(p, q) ==
  \A b \in Nat : b <= Limit /\ bounded[p][b] /\ bounded[q][b] => Order(q, p) = -Order(p, q)

LEMMA ValuesReversed ==
  ASSUME NEW p \in Data, NEW q \in Data,
         \A i \in DOMAIN Parts(p) \cap DOMAIN Parts(q) : Reversed(Parts(p)[i], Parts(q)[i])
  PROVE  Reversed(p, q)
<1> SUFFICES ASSUME NEW b \in Nat, b <= Limit, bounded[p][b], bounded[q][b]
             PROVE  Order(q, p) = -Order(p, q)
  BY DEF Reversed
<1>1. CASE p.kind = "int" /\ q.kind = "int"
  <2>1. PICK m \in Int : m = p.n
    BY <1>1, OrderOfInts
  <2>2. PICK n \in Int : n = q.n
    BY <1>1, OrderOfInts
  <2>3. Order(p, q) = Sign(m - n) /\ Order(q, p) = Sign(n - m)
    BY <1>1, <2>1, <2>2, OrderOfInts
  <2>4. Sign(n - m) = -Sign(m - n)
    BY DEF Sign
  <2>5. QED BY <2>3, <2>4
<1>2. CASE p.kind = "int" /\ q.kind # "int"
  BY <1>2, OrderOfMixed
<1>3. CASE p.kind # "int" /\ q.kind = "int"
  BY <1>3, OrderOfMixed
<1>4. CASE p.kind # "int" /\ q.kind # "int"
  <2>1. b >= 1
    BY <1>4, BoundedObject
  <2>2. HeadOrder(p, q) \in -1 .. 1 /\ HeadOrder(q, p) \in -1 .. 1
    BY <1>4, OrderOfHeadings
  <2>3. HeadOrder(q, p) = -HeadOrder(p, q)
    <3>1. Heading(p) \in Seq(Nat) /\ Heading(q) \in Seq(Nat)
      BY <1>4, OrderOfHeadings
    <3>2. Leads(Signs(Heading(p), Heading(q)), HeadOrder(p, q))
      BY <1>4, OrderOfHeadings
    <3>3. Leads(Signs(Heading(q), Heading(p)), HeadOrder(q, p))
      BY <1>4, OrderOfHeadings
    <3>4. QED BY <2>2, <3>1, <3>2, <3>3, SignsNegated
  <2>4. PICK x \in -1 .. 1 : x = HeadOrder(p, q)
    BY <2>2
  <2>5. CASE x # 0
    <3>1. HeadOrder(q, p) # 0
      BY <2>3, <2>4, <2>5
    <3>2. Order(p, q) = HeadOrder(p, q)
      BY <1>4, <2>4, <2>5, OrderOfHeadings
    <3>3. Order(q, p) = HeadOrder(q, p)
      BY <1>4, <3>1, OrderOfHeadings
    <3>4. QED BY <2>3, <3>2, <3>3
  <2>6. CASE x = 0
    <3>1. HeadingDifference(p, q) = 0
      BY <1>4, <2>4, <2>6, OrderOfHeadings
    <3>2. Heading(p) = Heading(q)
      BY <1>4, <3>1, DifferenceBoxed
    <3>3. HeadingDifference(q, p) = 0
      BY <1>4, <3>2, DifferenceBoxed
    <3>4. p.kind = q.kind /\ DOMAIN Parts(p) = DOMAIN Parts(q)
      BY <1>4, <3>2, HeadingsEqual
    <3>5. Order(p, q) \in -1 .. 1 /\ Order(q, p) \in -1 .. 1
      BY OrderOf
    <3>6. CASE p.kind = "string"
      <4> DEFINE s == Chars(p.bytes)
                 t == Chars(q.bytes)
      <4>1. s \in Seq(1 .. 255) /\ t \in Seq(1 .. 255) /\ Order(p, q) = CharOrder(s, t)
        BY <1>4, <3>4, <3>6, OrderOfStrings
      <4>2. Order(q, p) = CharOrder(t, s)
        BY <1>4, <3>4, <3>6, OrderOfStrings
      <4> HIDE DEF s, t
      <4>3. s \in Seq(Nat) /\ t \in Seq(Nat) /\ Leads(Signs(s, t), CharOrder(s, t))
        BY <4>1, CharOrderLeads
      <4>4. Leads(Signs(t, s), CharOrder(t, s))
        BY <4>1, CharOrderLeads
      <4>5. QED BY <3>5, <4>1, <4>2, <4>3, <4>4, SignsNegated
    <3>7. CASE p.kind # "string"
      <4> DEFINE both == DOMAIN Parts(p) \cap DOMAIN Parts(q)
      <4>1. Leads(Orders(p, q), Order(p, q))
        BY <1>4, <3>1, <3>7, OrderOfElements
      <4>2. Leads(Orders(q, p), Order(q, p))
        BY <1>4, <3>3, <3>4, <3>7, OrderOfElements
      <4>3. Orders(p, q) \in [both -> -1 .. 1] /\ Orders(q, p) \in [both -> -1 .. 1] /\ both \in SUBSET Nat
        <5>1. DOMAIN Parts(q) \cap DOMAIN Parts(p) = both
          OBVIOUS
        <5>2. QED BY <5>1, OrdersAre
      <4>4. ASSUME NEW i \in both PROVE Orders(q, p)[i] = -Orders(p, q)[i]
        <5>1. bounded[Parts(p)[i]][b \div 2] /\ bounded[Parts(q)[i]][b \div 2]
          BY <1>4, BoundedParts
        <5>2. PICK half \in Nat : half = b \div 2 /\ 2 * half <= b
          OBVIOUS
        <5>3. half <= Limit
          BY <5>2, LimitIs
        <5>4. Order(Parts(q)[i], Parts(p)[i]) = -Order(Parts(p)[i], Parts(q)[i])
          BY <5>1, <5>2, <5>3 DEF Reversed
        <5>5. QED BY <5>4 DEF Orders
      <4> HIDE DEF both
      <4>5. QED BY <3>5, <4>1, <4>2, <4>3, <4>4, LeadsNegated
    <3>8. QED BY <3>6, <3>7
  <2>7. QED BY <2>5, <2>6
<1>5. QED BY <1>1, <1>2, <1>3, <1>4

LEMMA AllReversed == \A p, q \in Data : Reversed(p, q)
<1> DEFINE Bad == {n \in Nat : \E p, q \in Data : Nesting(p) = n /\ ~Reversed(p, q)}
<1>1. ASSUME Bad # {} PROVE FALSE
  <2>1. PICK n \in Bad : \A k \in Bad : n <= k
    <3>1. Bad \in SUBSET Nat
      OBVIOUS
    <3>2. QED
      <4> HIDE DEF Bad
      <4> QED BY <1>1, <3>1, LeastNumber
  <2>2. PICK p \in Data, q \in Data : Nesting(p) = n /\ ~Reversed(p, q)
    OBVIOUS
  <2>3. ASSUME NEW i \in DOMAIN Parts(p) \cap DOMAIN Parts(q)
        PROVE  Reversed(Parts(p)[i], Parts(q)[i])
    <3>1. Parts(p)[i] \in Data /\ Parts(q)[i] \in Data /\ Nesting(Parts(p)[i]) < n
      BY <2>2, PartsOfData
    <3>2. Nesting(Parts(p)[i]) \in Nat /\ Nesting(p) \in Nat
      BY <3>1, PartsOfData
    <3>3. Nesting(Parts(p)[i]) \notin Bad
      <4> HIDE DEF Bad
      <4> QED BY <2>1, <2>2, <3>1, <3>2
    <3>4. QED BY <3>1, <3>2, <3>3
  <2>4. QED BY <2>2, <2>3, ValuesReversed
<1>2. ASSUME NEW p \in Data, NEW q \in Data PROVE Reversed(p, q)
  <2>1. Nesting(p) \in Nat
    BY PartsOfData
  <2>2. QED BY <1>1, <2>1
<1>3. QED BY <1>2

(* Less than the less is less.                                                      *)
Chained(p, q, r) ==
  \A b \in Nat : b <= Limit /\ bounded[p][b] /\ bounded[q][b] /\ bounded[r][b] =>
                  Follows(Order(p, q), Order(q, r), Order(p, r))

LEMMA ObjectsChained ==
  ASSUME NEW p \in Data, NEW q \in Data, NEW r \in Data, NEW b \in Nat, b <= Limit,
         p.kind # "int", q.kind # "int", r.kind # "int",
         bounded[p][b], bounded[q][b], bounded[r][b],
         \A i \in DOMAIN Parts(p) \cap DOMAIN Parts(q) \cap DOMAIN Parts(r) :
           Chained(Parts(p)[i], Parts(q)[i], Parts(r)[i])
  PROVE  Follows(Order(p, q), Order(q, r), Order(p, r))
<1>1. b >= 1
  BY BoundedObject
<1>2. PICK x \in -1 .. 1 : x = HeadOrder(p, q)
  BY OrderOfHeadings
<1>3. PICK y \in -1 .. 1 : y = HeadOrder(q, r)
  BY OrderOfHeadings
<1>4. PICK z \in -1 .. 1 : z = HeadOrder(p, r)
  BY OrderOfHeadings
<1>5. Follows(x, y, z)
  <2>1. Heading(p) \in Seq(Nat) /\ Heading(q) \in Seq(Nat) /\ Heading(r) \in Seq(Nat)
    BY OrderOfHeadings
  <2>2. Leads(Signs(Heading(p), Heading(q)), x)
    BY <1>2, OrderOfHeadings
  <2>3. Leads(Signs(Heading(q), Heading(r)), y)
    BY <1>3, OrderOfHeadings
  <2>4. Leads(Signs(Heading(p), Heading(r)), z)
    BY <1>4, OrderOfHeadings
  <2>5. QED BY <2>1, <2>2, <2>3, <2>4, SignsFollow
<1>6. (x # 0 => Order(p, q) = x) /\ (y # 0 => Order(q, r) = y) /\ (z # 0 => Order(p, r) = z)
  BY <1>2, <1>3, <1>4, OrderOfHeadings
<1>7. Order(p, q) \in -1 .. 1 /\ Order(q, r) \in -1 .. 1 /\ Order(p, r) \in -1 .. 1
  BY OrderOf
<1>8. CASE x # 0 \/ y # 0
  BY <1>5, <1>6, <1>7, <1>8 DEF Follows
<1>9. CASE x = 0 /\ y = 0
  <2>1. HeadingDifference(p, q) = 0 /\ HeadingDifference(q, r) = 0
    BY <1>2, <1>3, <1>9, OrderOfHeadings
  <2>2. Heading(p) = Heading(q) /\ Heading(q) = Heading(r)
    BY <2>1, DifferenceBoxed
  <2>3. HeadingDifference(p, r) = 0
    BY <2>2, DifferenceBoxed
  <2>4. p.kind = q.kind /\ q.kind = r.kind /\ DOMAIN Parts(p) = DOMAIN Parts(q)
        /\ DOMAIN Parts(q) = DOMAIN Parts(r)
    BY <2>2, HeadingsEqual
  <2>5. CASE p.kind = "string"
    <3> DEFINE s == Chars(p.bytes)
               t == Chars(q.bytes)
               u == Chars(r.bytes)
    <3>1. s \in Seq(1 .. 255) /\ t \in Seq(1 .. 255) /\ Order(p, q) = CharOrder(s, t)
      BY <2>4, <2>5, OrderOfStrings
    <3>2. u \in Seq(1 .. 255) /\ Order(q, r) = CharOrder(t, u)
      BY <2>4, <2>5, OrderOfStrings
    <3>3. Order(p, r) = CharOrder(s, u)
      BY <2>4, <2>5, OrderOfStrings
    <3> HIDE DEF s, t, u
    <3>4. s \in Seq(Nat) /\ t \in Seq(Nat) /\ Leads(Signs(s, t), CharOrder(s, t))
      BY <3>1, CharOrderLeads
    <3>5. u \in Seq(Nat) /\ Leads(Signs(t, u), CharOrder(t, u))
      BY <3>1, <3>2, CharOrderLeads
    <3>6. Leads(Signs(s, u), CharOrder(s, u))
      BY <3>1, <3>2, CharOrderLeads
    <3>7. QED BY <1>7, <3>1, <3>2, <3>3, <3>4, <3>5, <3>6, SignsFollow
  <2>6. CASE p.kind # "string"
    <3> DEFINE S == DOMAIN Parts(p)
    <3>1. Leads(Orders(p, q), Order(p, q))
      BY <2>1, <2>6, OrderOfElements
    <3>2. Leads(Orders(q, r), Order(q, r))
      BY <2>1, <2>4, <2>6, OrderOfElements
    <3>3. Leads(Orders(p, r), Order(p, r))
      BY <2>3, <2>6, OrderOfElements
    <3>4. /\ Orders(p, q) \in [S -> -1 .. 1] /\ Orders(q, r) \in [S -> -1 .. 1]
          /\ Orders(p, r) \in [S -> -1 .. 1] /\ S \in SUBSET Nat
      <4>1. S \cap S = S /\ DOMAIN Parts(q) = S /\ DOMAIN Parts(r) = S
        BY <2>4
      <4>2. Orders(p, q) \in [S -> -1 .. 1]
        <5>1. Orders(p, q) \in [DOMAIN Parts(p) \cap DOMAIN Parts(q) -> -1 .. 1]
          BY OrdersAre
        <5>2. DOMAIN Parts(p) \cap DOMAIN Parts(q) = S
          BY <4>1
        <5>3. QED BY <5>1, <5>2
      <4>3. Orders(q, r) \in [S -> -1 .. 1]
        <5>1. Orders(q, r) \in [DOMAIN Parts(q) \cap DOMAIN Parts(r) -> -1 .. 1]
          BY OrdersAre
        <5>2. DOMAIN Parts(q) \cap DOMAIN Parts(r) = S
          BY <4>1
        <5>3. QED BY <5>1, <5>2
      <4>4. Orders(p, r) \in [S -> -1 .. 1]
        <5>1. Orders(p, r) \in [DOMAIN Parts(p) \cap DOMAIN Parts(r) -> -1 .. 1]
          BY OrdersAre
        <5>2. DOMAIN Parts(p) \cap DOMAIN Parts(r) = S
          BY <4>1
        <5>3. QED BY <5>1, <5>2
      <4>5. S \in SUBSET Nat
        <5>1. DOMAIN Parts(p) \cap DOMAIN Parts(q) \in SUBSET Nat
          BY OrdersAre
        <5>2. DOMAIN Parts(p) \cap DOMAIN Parts(q) = S
          BY <4>1
        <5>3. QED BY <5>1, <5>2
      <4>6. QED BY <4>2, <4>3, <4>4, <4>5
    <3>5. ASSUME NEW i \in S PROVE Follows(Orders(p, q)[i], Orders(q, r)[i], Orders(p, r)[i])
      <4>1. i \in DOMAIN Parts(p) /\ i \in DOMAIN Parts(q) /\ i \in DOMAIN Parts(r)
        BY <2>4
      <4>2. bounded[Parts(p)[i]][b \div 2] /\ bounded[Parts(q)[i]][b \div 2] /\ bounded[Parts(r)[i]][b \div 2]
        BY <4>1, BoundedParts
      <4>3. PICK half \in Nat : half = b \div 2 /\ 2 * half <= b
        OBVIOUS
      <4>4. half <= Limit
        BY <4>3, LimitIs
      <4>5. Chained(Parts(p)[i], Parts(q)[i], Parts(r)[i])
        BY <4>1
      <4>6. QED BY <4>1, <4>2, <4>3, <4>4, <4>5 DEF Chained, Orders
    <3> HIDE DEF S
    <3>6. QED BY <1>7, <3>1, <3>2, <3>3, <3>4, <3>5, LeadsFollow
  <2>7. QED BY <2>5, <2>6
<1>10. QED BY <1>8, <1>9

LEMMA ValuesChained ==
  ASSUME NEW p \in Data, NEW q \in Data, NEW r \in Data,
         \A i \in DOMAIN Parts(p) \cap DOMAIN Parts(q) \cap DOMAIN Parts(r) :
           Chained(Parts(p)[i], Parts(q)[i], Parts(r)[i])
  PROVE  Chained(p, q, r)
<1> SUFFICES ASSUME NEW b \in Nat, b <= Limit, bounded[p][b], bounded[q][b], bounded[r][b]
             PROVE  Follows(Order(p, q), Order(q, r), Order(p, r))
  BY DEF Chained
<1>1. Order(p, q) \in -1 .. 1 /\ Order(q, r) \in -1 .. 1 /\ Order(p, r) \in -1 .. 1
  BY OrderOf
<1>2. CASE q.kind = "int"
  <2>1. CASE r.kind # "int"
    <3>1. Order(q, r) = -1
      BY <1>2, <2>1, OrderOfMixed
    <3>2. QED BY <3>1 DEF Follows
  <2>2. CASE r.kind = "int" /\ p.kind # "int"
    <3>1. Order(p, q) = 1 /\ Order(p, r) = 1
      BY <1>2, <2>2, OrderOfMixed
    <3>2. QED BY <3>1 DEF Follows
  <2>3. CASE r.kind = "int" /\ p.kind = "int"
    <3>1. PICK k \in Int : k = p.n
      BY <1>2, <2>3, OrderOfInts
    <3>2. PICK m \in Int : m = q.n
      BY <1>2, <2>3, OrderOfInts
    <3>3. PICK n \in Int : n = r.n
      BY <1>2, <2>3, OrderOfInts
    <3>4. Order(p, q) = Sign(k - m) /\ Order(q, r) = Sign(m - n) /\ Order(p, r) = Sign(k - n)
      BY <1>2, <2>3, <3>1, <3>2, <3>3, OrderOfInts
    <3>5. Follows(Sign(k - m), Sign(m - n), Sign(k - n))
      BY DEF Follows, Sign
    <3>6. QED BY <3>4, <3>5
  <2>4. QED BY <2>1, <2>2, <2>3
<1>3. CASE q.kind # "int" /\ p.kind = "int"
  <2>1. Order(p, q) = -1
    BY <1>3, OrderOfMixed
  <2>2. QED BY <2>1 DEF Follows
<1>4. CASE q.kind # "int" /\ p.kind # "int" /\ r.kind = "int"
  <2>1. Order(q, r) = 1 /\ Order(p, r) = 1
    BY <1>4, OrderOfMixed
  <2>2. QED BY <2>1 DEF Follows
<1>5. CASE q.kind # "int" /\ p.kind # "int" /\ r.kind # "int"
  BY <1>5, ObjectsChained
<1>6. QED BY <1>2, <1>3, <1>4, <1>5

LEMMA AllChained == \A p, q, r \in Data : Chained(p, q, r)
<1> DEFINE Bad == {n \in Nat : \E p, q, r \in Data : Nesting(p) = n /\ ~Chained(p, q, r)}
<1>1. ASSUME Bad # {} PROVE FALSE
  <2>1. PICK n \in Bad : \A k \in Bad : n <= k
    <3>1. Bad \in SUBSET Nat
      OBVIOUS
    <3>2. QED
      <4> HIDE DEF Bad
      <4> QED BY <1>1, <3>1, LeastNumber
  <2>2. PICK p \in Data, q \in Data, r \in Data : Nesting(p) = n /\ ~Chained(p, q, r)
    OBVIOUS
  <2>3. ASSUME NEW i \in DOMAIN Parts(p) \cap DOMAIN Parts(q) \cap DOMAIN Parts(r)
        PROVE  Chained(Parts(p)[i], Parts(q)[i], Parts(r)[i])
    <3>1. Parts(p)[i] \in Data /\ Parts(q)[i] \in Data /\ Parts(r)[i] \in Data /\ Nesting(Parts(p)[i]) < n
      BY <2>2, PartsOfData
    <3>2. Nesting(Parts(p)[i]) \in Nat /\ Nesting(p) \in Nat
      BY <3>1, PartsOfData
    <3>3. Nesting(Parts(p)[i]) \notin Bad
      <4> HIDE DEF Bad
      <4> QED BY <2>1, <2>2, <3>1, <3>2
    <3>4. QED BY <3>1, <3>2, <3>3
  <2>4. QED BY <2>2, <2>3, ValuesChained
<1>2. ASSUME NEW p \in Data, NEW q \in Data, NEW r \in Data PROVE Chained(p, q, r)
  <2>1. Nesting(p) \in Nat
    BY PartsOfData
  <2>2. QED BY <1>1, <2>1
<1>3. QED BY <1>2

LEMMA MaxOfTwo ==
  ASSUME NEW x \in -1 .. 1, NEW y \in -1 .. 1, x >= 0, y >= 0
  PROVE  Max({x, y}) = IF x > 0 \/ y > 0 THEN 1 ELSE 0
<1> DEFINE m == IF x > 0 \/ y > 0 THEN 1 ELSE 0
<1>1. m \in {x, y} /\ \A k \in {x, y} : m >= k
  OBVIOUS
<1>2. \A n \in {x, y} : (\A k \in {x, y} : n >= k) => n = m
  OBVIOUS
<1>3. QED BY <1>1, <1>2 DEF Max

(* Values nested to any depth whose numbers are small, each level by half, are      *)
(* ordered: no comparison is lost in a box, whichever two of three are compared     *)
(* first (Lcompare).                                                                *)
THEOREM ComparesInOrder == CompareSpec => []CompareOrders
<1>1. CInv => CompareOrders
  <2> SUFFICES ASSUME CInv, Answered("Lcompare"),
                      Small(answer.args[1]), Small(answer.args[2])
      PROVE  LET p == answer.args[1]  q == answer.args[2] IN
             /\ Order(q, p) = -Order(p, q)
             /\ \A r \in Data : Small(r) /\ Order(p, q) >= 0 /\ Order(q, r) >= 0 =>
                  Order(p, r) = Max({Order(p, q), Order(q, r)})
    BY DEF CompareOrders
  <2>1. PICK p \in Data, q \in Data : answer.args = <<p, q>>
    BY DEF CInv
  <2>2. answer.args[1] = p /\ answer.args[2] = q
    BY <2>1
  <2>3. bounded[p][Limit] /\ bounded[q][Limit]
    BY <2>2 DEF Small, Limit
  <2>4. Limit \in Nat /\ Limit <= Limit
    BY LimitIs
  <2>5. Order(q, p) = -Order(p, q)
    BY <2>3, <2>4, AllReversed DEF Reversed
  <2>6. ASSUME NEW r \in Data, Small(r), Order(p, q) >= 0, Order(q, r) >= 0
        PROVE  Order(p, r) = Max({Order(p, q), Order(q, r)})
    <3>1. bounded[r][Limit]
      BY <2>6 DEF Small, Limit
    <3>2. Follows(Order(p, q), Order(q, r), Order(p, r))
      BY <2>3, <2>4, <3>1, AllChained DEF Chained
    <3>3. Order(p, q) \in -1 .. 1 /\ Order(q, r) \in -1 .. 1
      BY OrderOf
    <3>4. QED BY <2>6, <3>2, <3>3, MaxOfTwo DEF Follows
  <2>7. QED BY <2>2, <2>5, <2>6
<1>2. QED BY <1>1, CompareInvariant, PTL
===================================================================================
