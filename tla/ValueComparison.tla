------------------------------ MODULE ValueComparison ------------------------------
(************************************************************************************)
(* Lcompare and Lhash of runtime.c.  A value is a record of its kind and parts; a   *)
(* string's bytes may hold the character 0, where C's functions stop.  What is      *)
(* recursive in the code is a function on the values programs make.                 *)
(************************************************************************************)
EXTENDS Integers, Sequences, SequencesExt, FiniteSetsExt

CONSTANTS
  HalfWord,      \* 2^16: how many numbers half a word has
  HashRange,     \* 2^22, of the mask 0x3fffff
  HashDepth,     \* HASH_DEPTH
  Data,          \* the values programs make
  Nesting(_),    \* how deep a value is nested
  MaxNesting,    \* how deep one may be, for memory is finite
  Apart(_, _),   \* how far from 0 strcmp's result is for two strings, ...
  MaxApart       \* ... and at most

Words == HalfWord * HalfWord

(* What the elements of a value are; none of an integer or a string.                *)
Parts(v) == IF v.kind \in {"int", "string"} THEN <<>> ELSE v.elems

(* An integer has a bit less than a word, a header leaves three bits less for the   *)
(* length, a constructor's hash has 30 bits; the code of a closure is an offset.    *)
Shapes ==
  [kind : {"int"}, n : -(Words \div 4) .. (Words \div 4) - 1]
  \cup [kind : {"string"}, bytes : Seq(0 .. 255)]
  \cup [kind : {"array"}, elems : Seq(Data)]
  \cup [kind : {"sexp", "closure"}, tag : 0 .. (Words \div 4) - 1, elems : Seq(Data)]

(* Values are finite, and parts of values are values.                               *)
ASSUME DataAssumption ==
  /\ HalfWord \in Nat \ {0} /\ HalfWord % 4 = 0
  /\ HashRange \in Nat \ {0} /\ HashDepth \in Nat /\ MaxNesting \in Nat
  /\ Data \subseteq Shapes
  /\ \A v \in Data :
       /\ Nesting(v) \in 0 .. MaxNesting /\ Len(Parts(v)) + 1 < Words \div 4
       /\ \A i \in DOMAIN Parts(v) : Nesting(Parts(v)[i]) < Nesting(v)

VARIABLE
  answer         \* the last call and what it returned: [fn, args, result]

(* An integer of a word, and BOX of one.                                            *)
Word(n) == ((n + (Words \div 2)) % Words) - (Words \div 2)
Box(n)  == Word(2 * n + 1)
Sign(n) == IF n > 0 THEN 1 ELSE IF n < 0 THEN -1 ELSE 0

(* A string as C reads it.                                                          *)
Chars(s) ==
  LET zeros == {i \in DOMAIN s : s[i] = 0}
  IN  IF zeros = {} THEN s ELSE SubSeq(s, 1, Min(zeros) - 1)

(* The order of two strings: the first characters that differ, or the lengths.      *)
CharOrder(s, t) ==
  LET differ == {i \in DOMAIN s \cap DOMAIN t : s[i] # t[i]}
  IN  IF differ = {} THEN Sign(Len(s) - Len(t)) ELSE Sign(s[Min(differ)] - t[Min(differ)])

(* Of strcmp's result C promises only the sign; how large it is, the library        *)
(* chooses: 1, or the difference of two characters.                                 *)
strcmp(s, t) == CharOrder(s, t) * Apart(s, t)

ASSUME StrcmpAssumption ==
  /\ MaxApart \in Nat /\ 2 * MaxApart < Words
  /\ \A p, q \in Data : p.kind = "string" /\ q.kind = "string" =>
       Apart(Chars(p.bytes), Chars(q.bytes)) \in 1 .. MaxApart

------------------------------------------------------------------------------------
KindTag == [string |-> 1, array |-> 3, sexp |-> 5, closure |-> 7]

(* What is compared and hashed before the elements: the kind, the constructor or    *)
(* the code pointer, the number of elements; the code pointer counts as one.        *)
Length(v) == IF v.kind = "closure" THEN Len(v.elems) + 1 ELSE Len(v.elems)
Heading(v) ==
  CASE v.kind = "string" -> <<KindTag["string"]>>
    [] v.kind = "array"  -> <<KindTag["array"], Length(v)>>
    [] OTHER             -> <<KindTag[v.kind], v.tag, Length(v)>>

(* The first difference of two headings, or 0.                                      *)
HeadingDifference(p, q) ==
  LET differ == {i \in DOMAIN Heading(p) \cap DOMAIN Heading(q) : Heading(p)[i] # Heading(q)[i]}
  IN  IF differ = {} THEN 0 ELSE Heading(p)[Min(differ)] - Heading(q)[Min(differ)]

(* Mutant of FirstOf: the results are tested as if they were not boxed.             *)
FirstOf_TestsZero(c) ==
  LET differ == {i \in DOMAIN c : c[i] # 0}
  IN  IF differ = {} THEN Box(0) ELSE Box(c[Min(differ)])

(* The result for elements: it is boxed already, and is boxed once more.            *)
FirstOf(c) ==
  LET differ == {i \in DOMAIN c : c[i] # Box(0)}
  IN  IF differ = {} THEN Box(0) ELSE Box(c[Min(differ)])

(* Lcompare of objects, c being the results for their elements.                     *)
Objects(p, q, c) ==
  IF HeadingDifference(p, q) # 0 THEN Box(HeadingDifference(p, q))
  ELSE IF p.kind = "string" THEN Box(strcmp(Chars(p.bytes), Chars(q.bytes)))
  ELSE FirstOf(c)

(* Mutant of Compared: an integer and an object compare alike in either order.      *)
Compared_OneSided(p, q, c) ==
  IF p.kind = "int" /\ q.kind = "int" THEN Box(p.n - q.n)
  ELSE IF "int" \in {p.kind, q.kind} THEN Box(-1)
  ELSE Objects(p, q, c)

Compared(p, q, c) ==
  IF p.kind = "int" /\ q.kind = "int" THEN Box(p.n - q.n)
  ELSE IF p.kind = "int" THEN Box(-1)
  ELSE IF q.kind = "int" THEN Box(1)
  ELSE Objects(p, q, c)

compare[pair \in Data \X Data] ==
  LET p == pair[1]  q == pair[2]
  IN  Compared(p, q, [i \in DOMAIN Parts(p) \cap DOMAIN Parts(q) |->
                        compare[<<Parts(p)[i], Parts(q)[i]>>]])

Lcompare(p, q) == compare[<<p, q>>]

------------------------------------------------------------------------------------
(* HASH_APPEND: the halves of the sum are swapped.                                  *)
HashAppend(acc, n) ==
  LET sum == (acc + n) % Words
  IN  (sum % HalfWord) * HalfWord + (sum \div HalfWord)

AppendAll(acc, numbers) == FoldLeft(HashAppend, acc, numbers)

(* A char has a sign.                                                               *)
Signed(bytes) == [i \in DOMAIN bytes |-> IF bytes[i] < 128 THEN bytes[i] ELSE bytes[i] - 256]

(* Mutant of StringHash: all the bytes are hashed.                                  *)
StringHash_WholeLength(acc, bytes) ==
  AppendAll(acc, <<KindTag["string"], Len(bytes)>> \o Signed(bytes))

(* The tag and the length of a string, and its characters.                          *)
StringHash(acc, bytes) ==
  AppendAll(acc, <<KindTag["string"], Len(bytes)>> \o Signed(Chars(bytes)))

(* The tag, the length and the constructor or the code pointer of an object.        *)
ObjectHash(acc, v) ==
  AppendAll(acc, <<KindTag[v.kind], Length(v)>> \o (IF v.kind = "array" THEN <<>> ELSE <<v.tag>>))

(* The elements one after the other, a level deeper.                                *)
ElementsHash(depth, acc, rows) == FoldLeft(LAMBDA a, row : row[<<depth + 1, a>>], acc, rows)

Hashed(v, depth, acc, rows) ==
  IF depth > HashDepth THEN acc
  ELSE IF v.kind = "int" THEN HashAppend(acc, v.n)
  ELSE IF v.kind = "string" THEN StringHash(acc, v.bytes)
  ELSE ElementsHash(depth, ObjectHash(acc, v), rows)

(* The hash of a value at a depth, appended to what there is.                       *)
inner_hash[v \in Data] ==
  [at \in Nat \X Nat |->
     Hashed(v, at[1], at[2], [i \in DOMAIN Parts(v) |-> inner_hash[Parts(v)[i]]])]

Lhash(v) == Box(inner_hash[v][<<0, 0>>] % HashRange)

------------------------------------------------------------------------------------
Answer(fn, args, result) == [fn |-> fn, args |-> args, result |-> result]

CompareInit == answer = Answer("", <<>>, <<>>)

Compare == \E p, q \in Data : answer' = Answer("Lcompare", <<p, q>>, Lcompare(p, q))

Hash == \E p, q \in Data : answer' = Answer("Lhash", <<p, q>>, <<Lhash(p), Lhash(q)>>)

CompareSpec == CompareInit /\ [][Compare \/ Hash]_answer

------------------------------------------------------------------------------------
Answered(fn) == answer.fn = fn

(* A value with each string cut at its first 0.                                     *)
CutTo(v, parts) ==
  CASE v.kind = "int"    -> v
    [] v.kind = "string" -> [v EXCEPT !.bytes = Chars(@)]
    [] OTHER             -> [v EXCEPT !.elems = parts]
Cut[v \in Data] == CutTo(v, [i \in DOMAIN Parts(v) |-> Cut[Parts(v)[i]]])

(* Two values compare as equal exactly if they are, but for what strings hold       *)
(* behind a 0: however many times a result is boxed again and however its bits are  *)
(* lost, it never becomes the box of 0, nor does 0 cease to be (Lcompare).          *)
CompareEqual ==
  Answered("Lcompare") =>
    (answer.result = Box(0) <=> Cut[answer.args[1]] = Cut[answer.args[2]])

(* The numbers of a value, and what strcmp makes of its strings, are within a bound,*)
(* halved at each level since a difference there is boxed once more.                *)
Within(v, bound, parts) ==
  IF v.kind = "int" THEN v.n \in -bound .. bound - 1
  ELSE /\ \A i \in DOMAIN Heading(v) : Heading(v)[i] < 2 * bound
       /\ v.kind = "string" => MaxApart < 2 * bound
       /\ \A i \in DOMAIN parts : parts[i][bound \div 2]
bounded[v \in Data] ==
  [bound \in Nat |-> Within(v, bound, [i \in DOMAIN Parts(v) |-> bounded[Parts(v)[i]]])]

Small(v) == bounded[v][Words \div 8]

Order(p, q) == Sign(Lcompare(p, q) - Box(0))

(* Lcompare orders the values whose numbers are small: what is less one way is      *)
(* greater the other way, and less than the less is less.                           *)
CompareOrders ==
  Answered("Lcompare") =>
    LET p == answer.args[1]  q == answer.args[2] IN
    Small(p) /\ Small(q) =>
      /\ Order(q, p) = -Order(p, q)
      /\ \A r \in Data : Small(r) /\ Order(p, q) >= 0 /\ Order(q, r) >= 0 =>
           Order(p, r) = Max({Order(p, q), Order(q, r)})

(* The lengths of a value's strings.                                                *)
LengthsOf(v, parts) == IF v.kind = "string" THEN Len(v.bytes) ELSE parts
Lengths[v \in Data] == LengthsOf(v, [i \in DOMAIN Parts(v) |-> Lengths[Parts(v)[i]]])

(* Values that compare as equal have one hash, as a hash table requires, unless     *)
(* strings with a 0 in them are of different lengths (Lcompare, inner_hash).        *)
HashAgrees ==
  Answered("Lhash") =>
    LET p == answer.args[1]  q == answer.args[2] IN
    Lcompare(p, q) = Box(0) /\ Lengths[p] = Lengths[q] => answer.result[1] = answer.result[2]
====================================================================================
