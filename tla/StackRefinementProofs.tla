--------------------------- MODULE StackRefinementProofs ---------------------------
(************************************************************************************)
(* The interpreter's flat stack gives every call an activation of its own: each     *)
(* step of the machine is one of LamaCalls, for every program.                      *)
(************************************************************************************)
EXTENDS StackRefinement, StackProofs

Acts == [pc : Ips, args : Seq(Word), locals : Seq(Word), ops : Seq(Word)]

------------------------------------------------------------------------------------
(* CallersOf is what its definition says.                                           *)
Chained(s, f, m) ==
  f = [b \in 1 .. m |->
         IF s[b].v \in 1 .. b - 1 THEN Append(f[s[b].v], Caller(s, b)) ELSE <<>>]

LEMMA ChainExists ==
  ASSUME NEW s, NEW m \in Nat
  PROVE  \E f : Chained(s, f, m)
<1> DEFINE Bad == {k \in Nat : ~\E f : Chained(s, f, k)}
<1> SUFFICES ASSUME Bad # {} PROVE FALSE
  OBVIOUS
<1>1. PICK k \in Bad : \A j \in Bad : k <= j
  <2> HIDE DEF Bad
  <2>1. Bad \in SUBSET Nat
    BY DEF Bad
  <2>2. QED  BY <2>1, LeastPosition
<1>2. CASE k = 0
  <2>1. Chained(s, [b \in 1 .. 0 |-> <<>>], 0)
    BY DEF Chained
  <2>2. QED  BY <1>2, <2>1
<1>3. CASE k # 0
  <2>1. k \in Nat /\ k - 1 \in Nat /\ ~(k <= k - 1)
    BY <1>3
  <2>2. PICK f : Chained(s, f, k - 1)
    BY <1>1, <2>1
  <2> DEFINE Value(c, b) ==
        IF s[b].v \in 1 .. b - 1 THEN Append(c[s[b].v], Caller(s, b)) ELSE <<>>
  <2>3. PICK g : g = [b \in 1 .. k |-> IF b = k THEN Value(f, k) ELSE f[b]]
    OBVIOUS
  <2>4. \A b \in 1 .. k - 1 : f[b] = Value(f, b)
    BY <2>2 DEF Chained
  <2>5. ASSUME NEW b \in 1 .. k
        PROVE  g[b] = Value(g, b)
    <3>1. g[b] = Value(f, b)
      BY <2>1, <2>3, <2>4
    <3>2. ASSUME s[b].v \in 1 .. b - 1
          PROVE  g[s[b].v] = f[s[b].v]
      <4>1. s[b].v \in 1 .. k /\ s[b].v # k
        BY <2>1, <3>2
      <4>2. QED  BY <2>3, <4>1
    <3>3. QED  BY <3>1, <3>2
  <2>6. g = [b \in 1 .. k |-> Value(g, b)]
    BY <2>3, <2>5
  <2>7. Chained(s, g, k)
    BY <2>6 DEF Chained
  <2>8. QED  BY <2>7
<1>4. QED  BY <1>2, <1>3

LEMMA CallersUnfold ==
  ASSUME NEW s \in Seq(Word), NEW b \in 1 .. Len(s)
  PROVE  CallersOf(s)[b] = IF s[b].v \in 1 .. b - 1
                           THEN Append(CallersOf(s)[s[b].v], Caller(s, b)) ELSE <<>>
<1>1. \E f : Chained(s, f, Len(s))
  <2>1. Len(s) \in Nat
    OBVIOUS
  <2>2. QED  BY <2>1, ChainExists
<1>2. CallersOf(s) = CHOOSE f : Chained(s, f, Len(s))
  BY DEF CallersOf, Chained
<1>3. Chained(s, CallersOf(s), Len(s))
  BY <1>1, <1>2
<1>4. QED  BY <1>3 DEF Chained

------------------------------------------------------------------------------------
(* Parts of the stack, and the activations cut out of it.                           *)
LEMMA PartFacts ==
  ASSUME NEW s \in Seq(Word), NEW a \in Nat, NEW c \in Nat, a >= 1, a <= c + 1, c <= Len(s)
  PROVE  /\ SubSeq(s, a, c) \in Seq(Word) /\ Len(SubSeq(s, a, c)) = c + 1 - a
         /\ \A i \in 1 .. c + 1 - a : SubSeq(s, a, c)[i] = s[a + i - 1]
<1>1. \A i \in a .. c : s[i] \in Word
  BY ElementOfSeq
<1>2. /\ SubSeq(s, a, c) \in Seq(Word)
      /\ Len(SubSeq(s, a, c)) = IF a <= c THEN c - a + 1 ELSE 0
      /\ \A i \in 1 .. c - a + 1 : SubSeq(s, a, c)[i] = s[a + i - 1]
  BY <1>1, SubSeqProperties
<1>3. c - a + 1 = c + 1 - a /\ (IF a <= c THEN c - a + 1 ELSE 0) = c + 1 - a
  OBVIOUS
<1>4. QED  BY <1>2, <1>3

LEMMA PartSame ==
  ASSUME NEW s \in Seq(Word), NEW t \in Seq(Word), NEW a \in Nat, NEW c \in Nat,
         a >= 1, a <= c + 1, c <= Len(s), c <= Len(t), \A p \in a .. c : t[p] = s[p]
  PROVE  SubSeq(t, a, c) = SubSeq(s, a, c)
<1>1. ASSUME NEW i \in 1 .. c + 1 - a
      PROVE  SubSeq(t, a, c)[i] = SubSeq(s, a, c)[i]
  <2>1. a + i - 1 \in a .. c
    OBVIOUS
  <2>2. SubSeq(t, a, c)[i] = t[a + i - 1] /\ SubSeq(s, a, c)[i] = s[a + i - 1]
    BY PartFacts
  <2>3. QED  BY <2>1, <2>2
<1>2. QED  BY <1>1, PartFacts, SeqEqual

LEMMA ArgumentFacts ==
  ASSUME NEW s \in Seq(Word), NEW b \in Nat, b - 1 <= Len(s), NEW n \in 0 .. b - 3,
         n = s[b - 1].v
  PROVE  /\ Arguments(s, b) \in Seq(Word) /\ Len(Arguments(s, b)) = n
         /\ \A j \in 1 .. n : Arguments(s, b)[j] = s[b - 2 - j]
<1>1. ASSUME NEW j \in 1 .. n
      PROVE  s[b - 2 - j] \in Word
  <2>1. b - 2 - j \in 1 .. Len(s)
    OBVIOUS
  <2>2. QED  BY <2>1, ElementOfSeq
<1>2. Arguments(s, b) = [j \in 1 .. n |-> s[b - 2 - j]]
  BY DEF Arguments
<1>3. PICK g \in [1 .. n -> Word] : g = [j \in 1 .. n |-> s[b - 2 - j]]
  BY <1>1
<1>4. n \in Nat /\ g \in Seq(Word) /\ Len(g) = n
  <2>1. n \in Nat
    OBVIOUS
  <2>2. g \in Seq(Word)
    BY <2>1, SeqDef
  <2>3. QED  BY <2>1, <2>2, LenProperties
<1>5. QED  BY <1>2, <1>3, <1>4

LEMMA FramedFacts ==
  ASSUME NEW s \in Seq(Word), NEW h, NEW f, NEW pc, NEW hi \in Nat,
         ActivationOK(s, h, f, pc, hi), hi <= Len(s), NEW l \in Nat, l = NLoc(pc)
  PROVE  LET a == Framed(s, f, pc, hi) IN
         /\ f \in Nat /\ f >= 5 /\ f + l <= hi /\ a \in Acts /\ a.pc = pc
         /\ s[f - 1].v \in 0 .. f - 3
         /\ a.args = Arguments(s, f) /\ Len(a.args) = s[f - 1].v
         /\ a.locals = SubSeq(s, f + 1, f + l) /\ Len(a.locals) = l
         /\ a.ops = SubSeq(s, f + l + 1, hi) /\ Len(a.ops) = hi - f - l
<1>1. /\ f \in Nat /\ f >= 5 /\ f + l <= hi /\ pc \in Ips /\ s[f - 1].v \in 0 .. f - 3
  BY ActivationFacts DEF ActivationOK
<1>2. Arguments(s, f) \in Seq(Word) /\ Len(Arguments(s, f)) = s[f - 1].v
  <2>1. PICK n \in 0 .. f - 3 : n = s[f - 1].v
    BY <1>1
  <2>2. f - 1 <= Len(s)
    BY <1>1
  <2>3. QED  BY <1>1, <2>1, <2>2, ArgumentFacts
<1>3. SubSeq(s, f + 1, f + l) \in Seq(Word) /\ Len(SubSeq(s, f + 1, f + l)) = l
  <2>1. f + 1 \in Nat /\ f + l \in Nat /\ f + 1 >= 1 /\ f + 1 <= (f + l) + 1
        /\ (f + l) + 1 - (f + 1) = l
    BY <1>1
  <2>2. Len(s) \in Nat
    OBVIOUS
  <2>3. f + l <= Len(s)
    BY <1>1, <2>1, <2>2
  <2>4. QED  BY <2>1, <2>3, PartFacts
<1>4. /\ SubSeq(s, f + l + 1, hi) \in Seq(Word)
      /\ Len(SubSeq(s, f + l + 1, hi)) = hi - f - l
  <2>1. f + l + 1 \in Nat /\ f + l + 1 >= 1 /\ f + l + 1 <= hi + 1
        /\ hi + 1 - (f + l + 1) = hi - f - l
    BY <1>1
  <2>2. QED  BY <2>1, PartFacts
<1>5. QED  BY <1>1, <1>2, <1>3, <1>4 DEF Framed, Acts

LEMMA FramedStays ==
  ASSUME NEW s \in Seq(Word), NEW t \in Seq(Word), NEW h, NEW f, NEW pc, NEW hi \in Nat,
         ActivationOK(s, h, f, pc, hi), hi <= Len(s), hi <= Len(t),
         \A p \in 1 .. hi : t[p] = s[p]
  PROVE  Framed(t, f, pc, hi) = Framed(s, f, pc, hi)
<1>1. PICK l \in Nat : l = NLoc(pc)
  BY CodeFacts DEF ActivationOK
<1>2. f \in Nat /\ f >= 5 /\ f + l <= hi
  BY <1>1, FramedFacts
<1>3. PICK n \in 0 .. f - 3 : n = s[f - 1].v
  BY <1>1, FramedFacts
<1>4. Arguments(t, f) = Arguments(s, f)
  <2>1. t[f - 1] = s[f - 1]
    <3>1. f - 1 \in 1 .. hi
      BY <1>1, <1>2
    <3>2. QED  BY <3>1
  <2>2. \A j \in 1 .. n : t[f - 2 - j] = s[f - 2 - j]
    <3>1. \A j \in 1 .. n : f - 2 - j \in 1 .. hi
      BY <1>1, <1>2
    <3>2. QED  BY <3>1
  <2>3. QED  BY <1>3, <2>1, <2>2 DEF Arguments
<1>5. SubSeq(t, f + 1, f + l) = SubSeq(s, f + 1, f + l)
  <2>1. f + 1 \in Nat /\ f + l \in Nat /\ f + 1 >= 1 /\ f + 1 <= (f + l) + 1
        /\ f + l <= Len(s) /\ f + l <= Len(t) /\ \A p \in f + 1 .. f + l : p \in 1 .. hi
    BY <1>1, <1>2
  <2>2. QED  BY <2>1, PartSame
<1>6. SubSeq(t, f + l + 1, hi) = SubSeq(s, f + l + 1, hi)
  <2>1. f + l + 1 \in Nat /\ f + l + 1 >= 1 /\ f + l + 1 <= hi + 1
        /\ \A p \in f + l + 1 .. hi : p \in 1 .. hi
    BY <1>1, <1>2
  <2>2. QED  BY <2>1, PartSame
<1>7. QED  BY <1>1, <1>4, <1>5, <1>6 DEF Framed

(* The callers of a frame are the same in a stack whose words are the same below    *)
(* the frame, the arguments excepted.                                               *)
SameCaller(s, t, b) ==
  /\ b <= Len(t) /\ \A p \in {b - 2, b - 1, b} : t[p] = s[p]
  /\ \A p \in 1 .. b - 3 - s[b - 1].v : t[p] = s[p]

LEMMA CallersStay ==
  ASSUME NEW s \in Seq(Word), NEW t \in Seq(Word), NEW h, FramesLinked(s, h),
         NEW b \in 1 .. Len(s), s[b].t = "fp", SameCaller(s, t, b)
  PROVE  CallersOf(t)[b] = CallersOf(s)[b] /\ CallersOf(s)[b] \in Seq(Acts)
<1> DEFINE Good(k) == CallersOf(t)[k] = CallersOf(s)[k] /\ CallersOf(s)[k] \in Seq(Acts)
           Bad == {k \in 1 .. Len(s) : s[k].t = "fp" /\ SameCaller(s, t, k) /\ ~Good(k)}
<1> SUFFICES ASSUME Bad # {} PROVE FALSE
  OBVIOUS
<1>1. PICK k \in Bad : \A j \in Bad : k <= j
  <2> HIDE DEF Bad
  <2>1. Bad \in SUBSET Nat
    BY DEF Bad
  <2>2. QED  BY <2>1, LeastPosition
<1>2. k \in 1 .. Len(s) /\ s[k].t = "fp" /\ SameCaller(s, t, k) /\ ~Good(k)
  BY <1>1
<1>3. PICK q, ret, n : q = s[k].v /\ ret = s[k - 2].v /\ n = s[k - 1].v
  OBVIOUS
<1>4. /\ Linked(s, h, k, q) /\ k >= 5 /\ n \in Nat /\ q \in 0 .. k - 3 - n
  BY <1>2, <1>3 DEF FramesLinked, Linked
<1>5. PICK hi \in Nat : hi = k - 3 - n /\ hi < k /\ q <= hi /\ q \in Nat
  BY <1>2, <1>4
<1>6. /\ t[k] = s[k] /\ t[k - 1] = s[k - 1] /\ t[k - 2] = s[k - 2] /\ k <= Len(t)
      /\ \A p \in 1 .. hi : t[p] = s[p]
  BY <1>2, <1>3, <1>5 DEF SameCaller
<1>7. /\ CallersOf(s)[k] = IF q \in 1 .. k - 1
                           THEN Append(CallersOf(s)[q], Caller(s, k)) ELSE <<>>
      /\ CallersOf(t)[k] = IF q \in 1 .. k - 1
                           THEN Append(CallersOf(t)[q], Caller(t, k)) ELSE <<>>
  <2>1. k \in 1 .. Len(t)
    BY <1>2, <1>6
  <2>2. QED  BY <1>2, <1>3, <1>6, <2>1, CallersUnfold
<1>8. CASE q = 0
  <2>1. q \notin 1 .. k - 1
    BY <1>8
  <2>2. QED  BY <1>2, <1>7, <2>1, EmptySeq
<1>9. CASE q # 0
  <2>1. ActivationOK(s, h, q, ret, hi)
    BY <1>3, <1>4, <1>5, <1>9 DEF Linked
  <2>2. /\ q \in 1 .. Len(s) /\ q < k /\ q \in 1 .. k - 1 /\ hi <= Len(s) /\ hi <= Len(t)
    <3>1. k \in 1 .. Len(s) /\ k <= Len(t) /\ Len(s) \in Nat /\ Len(t) \in Nat
      BY <1>2, <1>6
    <3>2. hi < k /\ q <= hi /\ q \in Nat /\ hi \in Nat
      BY <1>5
    <3>3. QED  BY <1>9, <3>1, <3>2
  <2>3. q >= 5 /\ s[q].t = "fp" /\ s[q - 1].v \in 0 .. q - 3
    BY <2>1, ActivationFacts
  <2>4. SameCaller(s, t, q)
    <3>1. PICK m \in 0 .. q - 3 : m = s[q - 1].v
      BY <2>3
    <3>2. Len(t) \in Nat /\ q \in Nat /\ q >= 5 /\ q <= hi /\ hi <= Len(t)
      BY <1>5, <2>2, <2>3
    <3>3. /\ q <= Len(t) /\ \A p \in {q - 2, q - 1, q} : p \in 1 .. hi
          /\ \A p \in 1 .. q - 3 - m : p \in 1 .. hi
      BY <3>2
    <3>4. QED  BY <1>6, <3>1, <3>3 DEF SameCaller
  <2>5. Good(q)
    <3>1. q \notin Bad
      BY <1>1, <1>2, <2>2
    <3>2. QED  BY <2>2, <2>3, <2>4, <3>1
  <2>6. Framed(t, q, ret, hi) = Framed(s, q, ret, hi)
    BY <1>6, <2>1, <2>2, FramedStays
  <2>7. Framed(s, q, ret, hi) \in Acts
    <3>1. PICK l \in Nat : l = NLoc(ret)
      BY <2>1, CodeFacts DEF ActivationOK
    <3>2. QED  BY <2>1, <2>2, <3>1, FramedFacts
  <2>8. Caller(s, k) = Framed(s, q, ret, hi) /\ Caller(t, k) = Framed(t, q, ret, hi)
    BY <1>3, <1>5, <1>6 DEF Caller
  <2>9. QED  BY <1>2, <1>7, <2>2, <2>5, <2>6, <2>7, <2>8, AppendProperties
<1>10. QED  BY <1>8, <1>9

------------------------------------------------------------------------------------
(* Steps of LamaCalls, when the activations are the callers c and the innermost one. *)
LEMMA AppendParts ==
  ASSUME NEW S, NEW c \in Seq(S), NEW a \in S
  PROVE  /\ Append(c, a) \in Seq(S) /\ Append(c, a) # <<>> /\ Len(Append(c, a)) = Len(c) + 1
         /\ Front(Append(c, a)) = c /\ Last(Append(c, a)) = a
         /\ Append(c, a) = c \o <<a>>
<1>1. /\ Append(c, a) \in Seq(S) /\ Append(c, a) # <<>> /\ Len(Append(c, a)) = Len(c) + 1
      /\ \A i \in 1 .. Len(c) : Append(c, a)[i] = c[i]
      /\ Append(c, a)[Len(c) + 1] = a
  BY AppendProperties
<1>2. Last(Append(c, a)) = a
  BY <1>1 DEF Last
<1>3. Front(Append(c, a)) = c
  <2>1. Front(Append(c, a)) = SubSeq(Append(c, a), 1, Len(c))
    BY <1>1 DEF Front
  <2>2. \A i \in 1 .. Len(c) : Append(c, a)[i] \in S
    BY <1>1, ElementOfSeq
  <2>3. /\ SubSeq(Append(c, a), 1, Len(c)) \in Seq(S)
        /\ Len(SubSeq(Append(c, a), 1, Len(c))) = IF 1 <= Len(c) THEN Len(c) - 1 + 1 ELSE 0
        /\ \A i \in 1 .. Len(c) - 1 + 1 : SubSeq(Append(c, a), 1, Len(c))[i] = Append(c, a)[1 + i - 1]
    BY <2>2, SubSeqProperties
  <2>4. Len(SubSeq(Append(c, a), 1, Len(c))) = Len(c)
    BY <2>3
  <2>5. ASSUME NEW i \in 1 .. Len(c)
        PROVE  SubSeq(Append(c, a), 1, Len(c))[i] = c[i]
    <3>1. i \in 1 .. Len(c) - 1 + 1 /\ 1 + i - 1 = i
      OBVIOUS
    <3>2. QED  BY <1>1, <2>3, <3>1
  <2>6. QED  BY <2>1, <2>3, <2>4, <2>5, SeqEqual
<1>4. QED  BY <1>1, <1>2, <1>3, AppendIsConcat

LEMMA CallsParts ==
  ASSUME NEW s
  PROVE  Calls!Front(s) = Front(s) /\ Calls!Last(s) = Last(s)
  BY DEF Calls!Front, Calls!Last, Front, Last

LEMMA InstructionStep ==
  ASSUME NEW c \in Seq(Acts), NEW a \in Acts, NEW b \in Acts,
         Activations = Append(c, a), Activations' = Append(c, b), ip # 0, ip' # 0,
         Len(b.args) = Len(a.args), Len(b.locals) = Len(a.locals)
  PROVE  Calls!Instruction
<1>1. /\ Activations # <<>> /\ Front(Activations) = c /\ Last(Activations) = a
      /\ Activations' # <<>> /\ Front(Activations') = c /\ Last(Activations') = b
  BY AppendParts
<1>2. UNCHANGED (IF ip = 0 THEN stack ELSE <<>>)
  OBVIOUS
<1>3. QED
  BY <1>1, <1>2, CallsParts DEF Calls!Instruction, Calls!Running, Calls!Inner, Calls!Outer

LEMMA PrologueStep ==
  ASSUME NEW c \in Seq(Acts), NEW a \in Acts, NEW b \in Acts,
         Activations = Append(c, a), Activations' = Append(c, b), ip # 0, ip' # 0,
         a.locals = <<>>, a.ops = <<>>, b.args = a.args, b.ops = <<>>,
         \A j \in DOMAIN b.locals : b.locals[j] = Junk
  PROVE  Calls!Prologue
<1>1. /\ Activations # <<>> /\ Front(Activations) = c /\ Last(Activations) = a
      /\ Activations' # <<>> /\ Front(Activations') = c /\ Last(Activations') = b
  BY AppendParts
<1>2. UNCHANGED (IF ip = 0 THEN stack ELSE <<>>)
  OBVIOUS
<1>3. QED
  BY <1>1, <1>2, CallsParts DEF Calls!Prologue, Calls!Running, Calls!Inner, Calls!Outer

LEMMA InvocationStep ==
  ASSUME NEW c \in Seq(Acts), NEW a \in Acts, NEW x \in Acts, NEW y \in Acts,
         NEW n \in Nat, NEW k \in Nat, k <= 1, NEW m \in Nat, m = Len(a.ops), n + k <= m,
         Activations = Append(c, a), Activations' = Append(Append(c, x), y), ip # 0, ip' # 0,
         x.args = a.args, x.locals = a.locals, x.ops = SubSeq(a.ops, 1, m - n - k),
         y.args = SubSeq(a.ops, m - n + 1, m) \o SubSeq(a.ops, m - n - k + 1, m - n),
         y.locals = <<>>, y.ops = <<>>,
         y.pc \in DOMAIN Code, Code[y.pc].argc = n, k = 1 => a.ops[m - n].t = "obj"
  PROVE  Calls!Invocation
<1>1. /\ Activations # <<>> /\ Front(Activations) = c /\ Last(Activations) = a
      /\ Len(Activations) = Len(c) + 1
  <2>1. /\ Append(c, a) # <<>> /\ Front(Append(c, a)) = c /\ Last(Append(c, a)) = a
        /\ Len(Append(c, a)) = Len(c) + 1
    BY AppendParts
  <2>2. QED  BY <2>1
<1>2. /\ Append(c, x) \in Seq(Acts) /\ Len(Append(c, x)) = Len(c) + 1
      /\ Append(c, x) = c \o <<x>> /\ Append(c, x)[Len(c) + 1] = x
  BY AppendParts, AppendProperties
<1>3. /\ Activations' # <<>> /\ Front(Activations') = Append(c, x) /\ Last(Activations') = y
      /\ Len(Activations') = Len(c) + 1 + 1
  <2> DEFINE d == Append(c, x)
  <2>1. d \in Seq(Acts) /\ Len(d) = Len(c) + 1
    BY <1>2
  <2> HIDE DEF d
  <2>2. /\ Append(d, y) # <<>> /\ Front(Append(d, y)) = d /\ Last(Append(d, y)) = y
        /\ Len(Append(d, y)) = Len(d) + 1
    BY <2>1, AppendParts
  <2>3. QED  BY <2>1, <2>2 DEF d
<1>4. Activations'[Len(Activations)] = x
  <2>1. Len(c) + 1 \in 1 .. Len(Append(c, x))
    BY <1>2
  <2>2. Activations'[Len(c) + 1] = Append(c, x)[Len(c) + 1]
    BY <1>2, <2>1, AppendProperties
  <2>3. QED  BY <1>1, <1>2, <2>2
<1>5. UNCHANGED (IF ip = 0 THEN stack ELSE <<>>)
  OBVIOUS
<1>6. Calls!Invoke(n, k)
  <2>1. Len(Activations') = Len(Activations) + 1
    BY <1>1, <1>3
  <2>2. [e \in DOMAIN Code |-> Code[e].argc][y.pc] = n
        /\ y.pc \in DOMAIN [e \in DOMAIN Code |-> Code[e].argc]
    OBVIOUS
  <2>3. k = 1 => IsReference(a.ops[m - n])
    BY DEF IsReference
  <2>4. Append(c, x) = c \o <<[a EXCEPT !.pc = x.pc, !.ops = SubSeq(@, 1, m - n - k)]>>
    <3>1. x = [a EXCEPT !.pc = x.pc, !.ops = SubSeq(@, 1, m - n - k)]
      BY DEF Acts
    <3>2. QED  BY <1>2, <3>1
  <2>5. y = Calls!Activation(y.pc,
             SubSeq(a.ops, m - n + 1, m) \o SubSeq(a.ops, m - n - k + 1, m - n))
    BY DEF Calls!Activation, Acts
  <2>6. /\ Calls!Inner = a /\ Calls!Outer = c /\ Calls!Front(Activations') = Append(c, x)
        /\ Calls!Last(Activations') = y
    BY <1>1, <1>3, CallsParts DEF Calls!Inner, Calls!Outer
  <2>7. Activations'[Len(Activations)].pc = x.pc
    BY <1>4
  <2>8. QED  BY <1>3, <1>5, <2>1, <2>2, <2>3, <2>4, <2>5, <2>6, <2>7 DEF Calls!Invoke
<1>7. n \in 0 .. Len(Calls!Inner.ops) /\ k \in {0, 1}
  BY <1>1, CallsParts DEF Calls!Inner
<1>8. QED  BY <1>1, <1>6, <1>7 DEF Calls!Invocation, Calls!Running

LEMMA MainReturns ==
  ASSUME NEW a \in Acts, Activations = Append(<<>>, a), a.ops # <<>>,
         Activations' = <<>>, ip # 0, ip' = 0, stack' = <<Last(a.ops)>>
  PROVE  Calls!Return
<1>1. <<>> \in Seq(Acts)
  BY EmptySeq
<1>2. Activations # <<>> /\ Front(Activations) = <<>> /\ Last(Activations) = a
  BY <1>1, AppendParts
<1>3. Calls!Inner = a /\ Calls!Outer = <<>> /\ Calls!Last(a.ops) = Last(a.ops)
  BY <1>2, CallsParts DEF Calls!Inner, Calls!Outer
<1>4. (IF ip = 0 THEN stack ELSE <<>>)' = <<Last(a.ops)>>
  OBVIOUS
<1>5. QED  BY <1>2, <1>3, <1>4 DEF Calls!Return, Calls!Running

LEMMA CalleeReturns ==
  ASSUME NEW c \in Seq(Acts), NEW x \in Acts, NEW a \in Acts, NEW b \in Acts,
         Activations = Append(Append(c, x), a), a.ops # <<>>,
         Activations' = Append(c, b), ip # 0, ip' # 0,
         b.pc = x.pc, b.args = x.args, b.locals = x.locals,
         b.ops = Append(x.ops, Last(a.ops))
  PROVE  Calls!Return
<1>1. Append(c, x) \in Seq(Acts) /\ Append(c, x) # <<>>
      /\ Front(Append(c, x)) = c /\ Last(Append(c, x)) = x
  BY AppendParts
<1>2. Activations # <<>> /\ Front(Activations) = Append(c, x) /\ Last(Activations) = a
  BY <1>1, AppendParts
<1>3. Activations' = c \o <<b>>
  BY AppendParts
<1>4. /\ Calls!Inner = a /\ Calls!Outer = Append(c, x) /\ Calls!Last(a.ops) = Last(a.ops)
      /\ Calls!Front(Append(c, x)) = c /\ Calls!Last(Append(c, x)) = x
  BY <1>1, <1>2, CallsParts DEF Calls!Inner, Calls!Outer
<1>5. UNCHANGED (IF ip = 0 THEN stack ELSE <<>>)
  OBVIOUS
<1>6. b = [x EXCEPT !.ops = Append(@, Last(a.ops))]
  BY DEF Acts
<1>7. QED  BY <1>1, <1>2, <1>3, <1>4, <1>5, <1>6 DEF Calls!Return, Calls!Running

------------------------------------------------------------------------------------
(* The machine's steps.                                                             *)
LEMMA BodyShape ==
  ASSUME NEW s \in Seq(Word), NEW h, NEW f, NEW pc, FramesLinked(s, h),
         ActivationOK(s, h, f, pc, Len(s))
  PROVE  /\ CallersOf(s)[f] \in Seq(Acts) /\ Framed(s, f, pc, Len(s)) \in Acts
         /\ f \in 1 .. Len(s) /\ f \in Nat /\ f >= 5 /\ s[f].t = "fp" /\ s[f - 1].v \in 0 .. f - 3
         /\ NLoc(pc) \in Nat
<1>1. Len(s) \in Nat
  OBVIOUS
<1>2. f \in Nat /\ f >= 5 /\ f <= Len(s) /\ s[f].t = "fp" /\ s[f - 1].v \in 0 .. f - 3
      /\ pc \in Ips
  BY <1>1, ActivationFacts
<1>3. PICK l \in Nat : l = NLoc(pc)
  BY <1>2, CodeFacts
<1>4. Framed(s, f, pc, Len(s)) \in Acts
  BY <1>1, <1>3, FramedFacts
<1>5. f \in 1 .. Len(s) /\ SameCaller(s, s, f)
  BY <1>1, <1>2 DEF SameCaller
<1>6. QED  BY <1>2, <1>3, <1>4, <1>5, CallersStay

LEMMA BodyParts ==
  ASSUME NEW s \in Seq(Word), NEW h, NEW f, NEW pc, ActivationOK(s, h, f, pc, Len(s))
  PROVE  LET a == Framed(s, f, pc, Len(s)) IN
         /\ a.args = Arguments(s, f) /\ Len(a.args) = s[f - 1].v
         /\ a.locals = SubSeq(s, f + 1, f + NLoc(pc)) /\ Len(a.locals) = NLoc(pc)
         /\ a.ops = SubSeq(s, f + NLoc(pc) + 1, Len(s))
         /\ Len(a.ops) = Len(s) - f - NLoc(pc) /\ f + NLoc(pc) <= Len(s)
<1>1. PICK m \in Nat : m = Len(s) /\ m <= Len(s)
  OBVIOUS
<1>2. PICK l \in Nat : l = NLoc(pc)
  BY <1>1, ActivationFacts, CodeFacts
<1>3. ActivationOK(s, h, f, pc, m) /\ m <= Len(s)
  BY <1>1
<1>4. /\ f + l <= m /\ Framed(s, f, pc, m).args = Arguments(s, f)
      /\ Len(Framed(s, f, pc, m).args) = s[f - 1].v
  BY <1>2, <1>3, FramedFacts
<1>5. /\ Framed(s, f, pc, m).locals = SubSeq(s, f + 1, f + l)
      /\ Len(Framed(s, f, pc, m).locals) = l
  BY <1>2, <1>3, FramedFacts
<1>6. /\ Framed(s, f, pc, m).ops = SubSeq(s, f + l + 1, m)
      /\ Len(Framed(s, f, pc, m).ops) = m - f - l
  BY <1>2, <1>3, FramedFacts
<1>7. QED  BY <1>1, <1>2, <1>4, <1>5, <1>6

LEMMA BodyNext ==
  ASSUME IInv', InBody'
  PROVE  /\ stack' \in Seq(Word) /\ FramesLinked(stack', heap') /\ Size' = Len(stack')
         /\ ActivationOK(stack', heap', fp', ip', Len(stack')) /\ ip' # 0
         /\ Activations' = Append(CallersOf(stack')[fp'], Framed(stack', fp', ip', Len(stack')))
<1>1. /\ stack' \in Seq(Word) /\ FramesLinked(stack', heap') /\ Size' = Len(stack')
      /\ ActivationOK(stack', heap', fp', ip', Len(stack'))
  BY DEF IInv, TypeOK, CallingConvention, RegistersAgree, Size
<1>2. ip' # 0 /\ ~AtEntry'
  BY ProgramAssumption DEF InBody, AtEntry
<1>3. QED  BY <1>1, <1>2 DEF Activations

LEMMA BodyNow ==
  ASSUME IInv, InBody
  PROVE  /\ stack \in Seq(Word) /\ FramesLinked(stack, heap) /\ Size = Len(stack)
         /\ ActivationOK(stack, heap, fp, ip, Len(stack)) /\ ip # 0
         /\ Activations = Append(CallersOf(stack)[fp], Framed(stack, fp, ip, Len(stack)))
<1>1. /\ stack \in Seq(Word) /\ FramesLinked(stack, heap) /\ Size = Len(stack)
      /\ ActivationOK(stack, heap, fp, ip, Len(stack))
  BY DEF IInv, TypeOK, CallingConvention, RegistersAgree, Size
<1>2. ip # 0 /\ ~AtEntry
  BY ProgramAssumption DEF InBody, AtEntry
<1>3. QED  BY <1>1, <1>2 DEF Activations

(* An instruction of a body.                                                        *)
LEMMA ComputesRefines ==
  ASSUME IInv, IInv', Computes, KeepsCaller
  PROVE  Calls!Instruction
<1>1. /\ InBody /\ InBody' /\ fp' = fp /\ Entry[ip'] = Entry[ip]
      /\ \A p \in {fp - 2, fp - 1, fp} : stack'[p] = stack[p]
  BY DEF Computes
<1>2. /\ stack \in Seq(Word) /\ FramesLinked(stack, heap) /\ ip # 0
      /\ ActivationOK(stack, heap, fp, ip, Len(stack))
      /\ Activations = Append(CallersOf(stack)[fp], Framed(stack, fp, ip, Len(stack)))
  BY <1>1, BodyNow
<1>3. /\ stack' \in Seq(Word) /\ FramesLinked(stack', heap') /\ ip' # 0
      /\ ActivationOK(stack', heap', fp, ip', Len(stack'))
      /\ Activations' = Append(CallersOf(stack')[fp], Framed(stack', fp, ip', Len(stack')))
  BY <1>1, BodyNext
<1>4. PICK c, a, b : /\ c = CallersOf(stack)[fp] /\ a = Framed(stack, fp, ip, Len(stack))
                     /\ b = Framed(stack', fp, ip', Len(stack'))
  OBVIOUS
<1>5. /\ c \in Seq(Acts) /\ a \in Acts /\ fp \in 1 .. Len(stack) /\ fp \in Nat
      /\ stack[fp].t = "fp" /\ fp >= 5 /\ stack[fp - 1].v \in 0 .. fp - 3 /\ NLoc(ip) \in Nat
  BY <1>2, <1>4, BodyShape
<1>6. b \in Acts /\ fp \in 1 .. Len(stack')
  BY <1>3, <1>4, BodyShape
<1>7. SameCaller(stack, stack', fp)
  <2>1. PICK n \in 0 .. fp - 3 : n = stack[fp - 1].v
    BY <1>5
  <2>2. PICK low \in Nat : low = fp - 3 - n /\ low <= Len(stack)
    BY <1>5
  <2>3. low <= Len(stack') /\ SubSeq(stack', 1, low) = SubSeq(stack, 1, low)
    BY <1>3, <1>5, <2>1, <2>2 DEF KeepsCaller
  <2>4. ASSUME NEW p \in 1 .. low
        PROVE  stack'[p] = stack[p]
    <3>1. 1 <= low + 1 /\ low + 1 - 1 = low /\ 1 + p - 1 = p
      OBVIOUS
    <3>2. SubSeq(stack', 1, low)[p] = stack'[1 + p - 1]
      BY <1>3, <2>3, <3>1, PartFacts
    <3>3. SubSeq(stack, 1, low)[p] = stack[1 + p - 1]
      BY <1>2, <2>2, <3>1, PartFacts
    <3>4. QED  BY <2>3, <3>1, <3>2, <3>3
  <2>5. fp <= Len(stack')
    BY <1>6
  <2>6. QED  BY <1>1, <2>1, <2>2, <2>4, <2>5 DEF SameCaller
<1>8. CallersOf(stack')[fp] = c
  BY <1>2, <1>3, <1>4, <1>5, <1>7, CallersStay
<1>9. Len(b.args) = Len(a.args) /\ Len(b.locals) = Len(a.locals)
  <2>1. PICK l \in Nat : l = NLoc(ip) /\ l = NLoc(ip')
    BY <1>1, <1>5 DEF NLoc
  <2>2. stack'[fp - 1] = stack[fp - 1]
    BY <1>1
  <2>3. /\ Len(Framed(stack, fp, ip, Len(stack)).args) = stack[fp - 1].v
        /\ Len(Framed(stack, fp, ip, Len(stack)).locals) = l
    <3>1. stack \in Seq(Word) /\ ActivationOK(stack, heap, fp, ip, Len(stack))
      BY <1>2
    <3>2. Len(Framed(stack, fp, ip, Len(stack)).args) = stack[fp - 1].v
      BY <3>1, BodyParts
    <3>3. Len(Framed(stack, fp, ip, Len(stack)).locals) = NLoc(ip)
      BY <3>1, BodyParts
    <3>4. QED  BY <2>1, <3>2, <3>3
  <2>4. /\ Len(Framed(stack', fp, ip', Len(stack')).args) = stack'[fp - 1].v
        /\ Len(Framed(stack', fp, ip', Len(stack')).locals) = l
    BY <1>3, <2>1, BodyParts
  <2>5. QED  BY <1>4, <2>2, <2>3, <2>4
<1>10. Activations = Append(c, a) /\ Activations' = Append(c, b)
  BY <1>2, <1>3, <1>4, <1>8
<1>11. QED  BY <1>2, <1>3, <1>5, <1>6, <1>9, <1>10, InstructionStep


(* At a function's entry the frame that BEGIN will complete has its callers and its *)
(* arguments already.                                                               *)
WithFrame(s, f) == Append(s, Mk("fp", f))

LEMMA EntryWords ==
  ASSUME NEW s \in Seq(Word), NEW f \in Nat
  PROVE  LET t == WithFrame(s, f) b == Len(s) + 1 IN
         /\ t \in Seq(Word) /\ Len(t) = b /\ b \in 1 .. Len(t)
         /\ \A p \in 1 .. Len(s) : t[p] = s[p]
         /\ t[b] = Mk("fp", f) /\ t[b].v = f /\ t[b].t = "fp"
<1>1. Mk("fp", f) \in Word /\ Mk("fp", f).v = f /\ Mk("fp", f).t = "fp"
  BY DEF Mk, Word, SavedTags
<1>2. PICK t : t = WithFrame(s, f)
  OBVIOUS
<1>3. /\ t \in Seq(Word) /\ Len(t) = Len(s) + 1 /\ t[Len(s) + 1] = Mk("fp", f)
      /\ \A p \in 1 .. Len(s) : t[p] = s[p]
  BY <1>1, <1>2, AppendProperties DEF WithFrame
<1>4. Len(s) + 1 \in 1 .. Len(t)
  BY <1>3
<1>5. QED  BY <1>1, <1>2, <1>3, <1>4

LEMMA EntryNow ==
  ASSUME IInv, AtEntry
  PROVE  /\ stack \in Seq(Word) /\ FramesLinked(stack, heap) /\ fp \in Nat /\ ip # 0
         /\ Linked(stack, heap, Len(stack) + 1, fp) /\ ip \in Ips
         /\ Activations = Append(CallersOf(Entered)[Len(stack) + 1],
                [pc |-> ip, args |-> Arguments(Entered, Len(stack) + 1),
                 locals |-> <<>>, ops |-> <<>>])
<1>1. /\ stack \in Seq(Word) /\ FramesLinked(stack, heap) /\ Size = Len(stack)
      /\ Linked(stack, heap, Len(stack) + 1, fp) /\ fp \in Nat
  BY DEF IInv, TypeOK, CallingConvention, RegistersAgree, Size
<1>2. ip # 0 /\ ip \in Ips
  BY ProgramAssumption DEF AtEntry
<1>3. QED  BY <1>1, <1>2 DEF Activations

LEMMA EntryNext ==
  ASSUME IInv', AtEntry'
  PROVE  /\ stack' \in Seq(Word) /\ FramesLinked(stack', heap') /\ fp' \in Nat /\ ip' # 0
         /\ Linked(stack', heap', Len(stack') + 1, fp') /\ ip' \in Ips
         /\ Activations' = Append(CallersOf(Entered')[Len(stack') + 1],
                [pc |-> ip', args |-> Arguments(Entered', Len(stack') + 1),
                 locals |-> <<>>, ops |-> <<>>])
<1>1. /\ stack' \in Seq(Word) /\ FramesLinked(stack', heap') /\ Size' = Len(stack')
      /\ Linked(stack', heap', Len(stack') + 1, fp') /\ fp' \in Nat
  BY DEF IInv, TypeOK, CallingConvention, RegistersAgree, Size
<1>2. ip' # 0 /\ ip' \in Ips
  BY ProgramAssumption DEF AtEntry
<1>3. QED  BY <1>1, <1>2 DEF Activations

(* The prologue of a function (eval_begin, eval_cbegin).                            *)
LEMMA EntersRefines ==
  ASSUME IInv, IInv', Enters
  PROVE  Calls!Prologue
<1>1. /\ AtEntry /\ InBody' /\ fp' = Len(stack) + 1
      /\ Len(stack') = Len(stack) + 1 + NLoc(ip') /\ stack'[Len(stack) + 1] = Mk("fp", fp)
      /\ \A p \in 1 .. Len(stack) : stack'[p] = stack[p]
      /\ \A p \in Len(stack) + 2 .. Len(stack') : stack'[p] = Junk
  BY DEF Enters, Size
<1>2. PICK b \in Nat : b = Len(stack) + 1
  BY EntryNow, <1>1
<1>3. PICK t : t = WithFrame(stack, fp) /\ t = Entered
  BY DEF Entered, WithFrame
<1>4. /\ stack \in Seq(Word) /\ fp \in Nat /\ ip # 0 /\ ip \in Ips
      /\ Linked(stack, heap, b, fp)
      /\ Activations = Append(CallersOf(t)[b],
            [pc |-> ip, args |-> Arguments(t, b), locals |-> <<>>, ops |-> <<>>])
  BY <1>1, <1>2, <1>3, EntryNow
<1>5. /\ stack' \in Seq(Word) /\ FramesLinked(stack', heap') /\ ip' # 0
      /\ ActivationOK(stack', heap', b, ip', Len(stack'))
      /\ Activations' = Append(CallersOf(stack')[b], Framed(stack', b, ip', Len(stack')))
  BY <1>1, <1>2, BodyNext
<1>6. /\ t \in Seq(Word) /\ Len(t) = b /\ t[b] = Mk("fp", fp)
      /\ \A p \in 1 .. b - 1 : t[p] = stack[p]
  <2>1. /\ t \in Seq(Word) /\ Len(t) = Len(stack) + 1 /\ t[Len(stack) + 1] = Mk("fp", fp)
        /\ \A p \in 1 .. Len(stack) : t[p] = stack[p]
    <3>1. stack \in Seq(Word) /\ fp \in Nat
      BY <1>4
    <3>2. /\ WithFrame(stack, fp) \in Seq(Word)
          /\ Len(WithFrame(stack, fp)) = Len(stack) + 1
          /\ WithFrame(stack, fp)[Len(stack) + 1] = Mk("fp", fp)
      BY <3>1, EntryWords
    <3>3. \A p \in 1 .. Len(stack) : WithFrame(stack, fp)[p] = stack[p]
      BY <3>1, EntryWords
    <3>4. t = WithFrame(stack, fp)
      BY <1>3
    <3>5. QED  BY <3>2, <3>3, <3>4
  <2>2. Len(stack) + 1 = b /\ Len(stack) = b - 1
    BY <1>2, <1>4
  <2>3. QED  BY <2>1, <2>2
<1>7. PICK n \in 0 .. b - 3 : n = stack'[b - 1].v
  BY <1>5, BodyShape
<1>8. PICK l \in Nat : l = NLoc(ip') /\ Len(stack') = b + l
  BY <1>1, <1>2, <1>5, BodyShape
<1>9. b >= 5 /\ b \in 1 .. Len(stack') /\ stack'[b].t = "fp"
  BY <1>5, BodyShape
<1>10. \A p \in 1 .. b : t[p] = stack'[p]
  <2>1. \A p \in 1 .. b - 1 : t[p] = stack'[p]
    BY <1>1, <1>2, <1>6
  <2>2. t[b] = stack'[b]
    BY <1>1, <1>2, <1>6
  <2>3. \A p \in 1 .. b : p \in 1 .. b - 1 \/ p = b
    OBVIOUS
  <2>4. QED  BY <2>1, <2>2, <2>3
<1>11. PICK c \in Seq(Acts) : c = CallersOf(stack')[b] /\ c = CallersOf(t)[b]
  <2>1. SameCaller(stack', t, b)
    <3>1. b - 2 \in 1 .. b /\ b - 1 \in 1 .. b /\ b \in 1 .. b /\ 1 .. b - 3 - n \subseteq 1 .. b
      BY <1>9
    <3>2. b <= Len(t)
      BY <1>6
    <3>3. QED  BY <1>7, <1>10, <3>1, <3>2 DEF SameCaller
  <2>2. QED  BY <1>5, <1>6, <1>9, <2>1, CallersStay
<1>12. /\ Arguments(stack', b) \in Seq(Word) /\ Arguments(t, b) = Arguments(stack', b)
  <2>1. t[b - 1] = stack'[b - 1]
    BY <1>9, <1>10
  <2>2. \A j \in 1 .. n : t[b - 2 - j] = stack'[b - 2 - j]
    <3>1. \A j \in 1 .. n : b - 2 - j \in 1 .. b
      BY <1>7, <1>9
    <3>2. QED  BY <1>10, <3>1
  <2>3. Arguments(t, b) = Arguments(stack', b)
    BY <1>7, <2>1, <2>2 DEF Arguments
  <2>4. b - 1 <= Len(stack')
    BY <1>8
  <2>5. QED  BY <1>5, <1>7, <2>3, <2>4, ArgumentFacts
<1>13. PICK a : a = [pc |-> ip, args |-> Arguments(t, b), locals |-> <<>>, ops |-> <<>>]
  OBVIOUS
<1>14. PICK x : x = Framed(stack', b, ip', Len(stack'))
  OBVIOUS
<1>15. a \in Acts
  BY <1>4, <1>12, <1>13 DEF Acts
<1>16. x \in Acts /\ x.args = a.args /\ x.ops \in Seq(Word)
  <2>1. x \in Acts
    BY <1>5, <1>14, BodyShape
  <2>2. x.args = Arguments(stack', b)
    BY <1>14 DEF Framed
  <2>3. QED  BY <1>12, <1>13, <2>1, <2>2 DEF Acts
<1>17. x.ops = <<>> /\ x.locals = SubSeq(stack', b + 1, b + l) /\ x.locals \in Seq(Word)
       /\ Len(x.locals) = l
  <2>1. /\ x.locals = SubSeq(stack', b + 1, b + l) /\ Len(x.locals) = l
        /\ Len(x.ops) = Len(stack') - b - l
    <3>1. stack' \in Seq(Word) /\ ActivationOK(stack', heap', b, ip', Len(stack'))
      BY <1>5
    <3>2. Framed(stack', b, ip', Len(stack')).locals = SubSeq(stack', b + 1, b + NLoc(ip'))
      BY DEF Framed
    <3>3. Len(Framed(stack', b, ip', Len(stack')).locals) = NLoc(ip')
      BY <3>1, BodyParts
    <3>4. Len(Framed(stack', b, ip', Len(stack')).ops) = Len(stack') - b - NLoc(ip')
      BY <3>1, BodyParts
    <3>5. QED  BY <3>2, <3>3, <3>4, <1>8, <1>14
  <2>2. Len(x.ops) = 0
    BY <1>8, <2>1
  <2>3. QED  BY <1>16, <2>1, <2>2, EmptySeq DEF Acts
<1>18. ASSUME NEW j \in DOMAIN x.locals
       PROVE  x.locals[j] = Junk
  <2>1. j \in 1 .. l
    BY <1>17
  <2>2. b + 1 \in Nat /\ b + l \in Nat /\ b + 1 >= 1 /\ b + 1 <= b + l + 1 /\ b + l <= Len(stack')
        /\ b + l + 1 - (b + 1) = l /\ b + 1 + j - 1 = b + j
    BY <1>8, <2>1
  <2>3. SubSeq(stack', b + 1, b + l)[j] = stack'[b + 1 + j - 1]
    BY <1>5, <2>1, <2>2, PartFacts
  <2>4. b + j \in Len(stack) + 2 .. Len(stack')
    BY <1>2, <1>4, <1>8, <2>1
  <2>5. QED  BY <1>1, <1>17, <2>2, <2>3, <2>4
<1>19. Activations = Append(c, a) /\ Activations' = Append(c, x) /\ a.locals = <<>> /\ a.ops = <<>>
  BY <1>4, <1>5, <1>11, <1>13, <1>14
<1>20. QED  BY <1>4, <1>5, <1>15, <1>16, <1>17, <1>18, <1>19, PrologueStep

(* A call leaves in the caller the operands below those it hands over, and the      *)
(* reversed words read as arguments in the order they were pushed.                  *)
LEMMA PartAt ==
  ASSUME NEW s \in Seq(Word), NEW d \in Nat, NEW g \in Nat, d + g <= Len(s)
  PROVE  /\ SubSeq(s, d + 1, d + g) \in Seq(Word) /\ Len(SubSeq(s, d + 1, d + g)) = g
         /\ \A i \in 1 .. g : SubSeq(s, d + 1, d + g)[i] = s[d + i]
<1>1. PICK a \in Nat, k \in Nat : a = d + 1 /\ k = d + g
  OBVIOUS
<1>2. /\ a >= 1 /\ a <= k + 1 /\ k <= Len(s) /\ k + 1 - a = g
      /\ \A i \in 1 .. g : a + i - 1 = d + i
  BY <1>1
<1>3. SubSeq(s, a, k) \in Seq(Word) /\ Len(SubSeq(s, a, k)) = k + 1 - a
  BY <1>2, PartFacts
<1>4. \A i \in 1 .. k + 1 - a : SubSeq(s, a, k)[i] = s[a + i - 1]
  BY <1>2, PartFacts
<1>5. QED  BY <1>1, <1>2, <1>3, <1>4

(* Of a caller: e words up to its last local, r operands it keeps, then a closure   *)
(* if c is 1, then n arguments, and three words more up to the callee's frame b.    *)
Numbers(e, r, q, n, c, d, b) ==
  /\ e \in Nat /\ r \in Nat /\ n \in Nat /\ c \in Nat /\ c <= 1
  /\ q \in Nat /\ q = r + c /\ d \in Nat /\ d = e + q /\ b \in Nat /\ b = d + n + 3

(* Words t above d hold the words of s above d reversed, and n + c.                 *)
Handed(s, t, b, d, n, c) ==
  /\ t[b - 1].v = n + c /\ \A p \in 1 .. d : t[p] = s[p]
  /\ \A j \in 1 .. n : t[b - 2 - j] = s[d + j]

(* The operands of s above e are those the caller keeps in t and the arguments.     *)
Divided(s, t, e, r, q, n, c, d, b) ==
  LET o == SubSeq(s, e + 1, d + n) IN
  /\ o \in Seq(Word) /\ Len(o) = q + n
  /\ SubSeq(t, e + 1, e + r) = SubSeq(o, 1, r) /\ SubSeq(o, 1, r) \in Seq(Word)
  /\ Arguments(t, b) = SubSeq(o, q + 1, q + n) \o SubSeq(o, r + 1, q)
  /\ Arguments(t, b) \in Seq(Word)
  /\ c = 1 => o[q] = s[d]

LEMMA HandedOver ==
  ASSUME NEW e, NEW r, NEW q, NEW n, NEW c, NEW d, NEW b, Numbers(e, r, q, n, c, d, b),
         NEW s \in Seq(Word), NEW t \in Seq(Word), Len(s) = d + n, Len(t) = b,
         Handed(s, t, b, d, n, c)
  PROVE  Divided(s, t, e, r, q, n, c, d, b)
<1> /\ e \in Nat /\ r \in Nat /\ n \in Nat /\ c \in Nat /\ c <= 1
    /\ q \in Nat /\ q = r + c /\ d \in Nat /\ d = e + q /\ b \in Nat /\ b = d + n + 3
  BY DEF Numbers
<1>1. PICK o : o = SubSeq(s, e + 1, d + n)
  OBVIOUS
<1>2. PICK k \in Nat : k = q + n /\ d + n = e + k
  OBVIOUS
<1>3. o \in Seq(Word) /\ Len(o) = k /\ \A i \in 1 .. k : o[i] = s[e + i]
  <2>1. e + k <= Len(s)
    BY <1>2
  <2>2. QED  BY <1>1, <1>2, <2>1, PartAt
<1>4. SubSeq(t, e + 1, e + r) = SubSeq(o, 1, r) /\ SubSeq(o, 1, r) \in Seq(Word)
  <2>1. PICK x : x = SubSeq(t, e + 1, e + r)
    OBVIOUS
  <2>2. PICK y : y = SubSeq(o, 1, r)
    OBVIOUS
  <2>3. x \in Seq(Word) /\ Len(x) = r /\ \A i \in 1 .. r : x[i] = t[e + i]
    <3>1. e + r <= Len(t)
      OBVIOUS
    <3>2. QED  BY <2>1, <3>1, PartAt
  <2>4. y \in Seq(Word) /\ Len(y) = r /\ \A i \in 1 .. r : y[i] = o[i]
    <3>1. 1 <= r + 1 /\ r <= k /\ r + 1 - 1 = r
      BY <1>2
    <3>2. \A i \in 1 .. r : 1 + i - 1 = i
      OBVIOUS
    <3>3. QED  BY <1>3, <2>2, <3>1, <3>2, PartFacts
  <2>5. ASSUME NEW i \in 1 .. r
        PROVE  x[i] = y[i]
    <3>1. e + i \in 1 .. d /\ i \in 1 .. k
      BY <1>2
    <3>2. t[e + i] = s[e + i]
      BY <3>1 DEF Handed
    <3>3. QED  BY <1>3, <2>3, <2>4, <3>1, <3>2
  <2>6. x = y
    BY <2>3, <2>4, <2>5, SeqEqual
  <2>7. QED  BY <2>1, <2>2, <2>4, <2>6
<1>5. PICK a \in 0 .. b - 3 : a = n + c
  OBVIOUS
<1>6. PICK as : as = Arguments(t, b)
  OBVIOUS
<1>7. as \in Seq(Word) /\ Len(as) = a /\ \A j \in 1 .. a : as[j] = t[b - 2 - j]
  <2>1. b - 1 <= Len(t)
    OBVIOUS
  <2>2. a = t[b - 1].v
    BY <1>5 DEF Handed
  <2>3. Arguments(t, b) \in Seq(Word) /\ Len(Arguments(t, b)) = a
    BY <2>1, <2>2, ArgumentFacts
  <2>4. \A j \in 1 .. a : Arguments(t, b)[j] = t[b - 2 - j]
    BY <2>1, <2>2, ArgumentFacts
  <2>5. QED  BY <1>6, <2>3, <2>4
<1>8. ASSUME NEW j \in 1 .. n
      PROVE  as[j] = o[q + j]
  <2>1. j \in 1 .. a /\ q + j \in 1 .. k /\ e + (q + j) = d + j
    BY <1>2, <1>5
  <2>2. t[b - 2 - j] = s[d + j]
    BY DEF Handed
  <2>3. QED  BY <1>3, <1>7, <2>1, <2>2
<1>9. ASSUME c = 1
      PROVE  as[n + 1] = o[r + 1] /\ o[q] = s[d]
  <2>1. n + 1 \in 1 .. a /\ b - 2 - (n + 1) = d /\ d \in 1 .. d
        /\ r + 1 \in 1 .. k /\ e + (r + 1) = d /\ r + 1 = q
    BY <1>2, <1>5, <1>9
  <2>2. t[d] = s[d]
    BY <2>1 DEF Handed
  <2>3. as[n + 1] = t[b - 2 - (n + 1)]
    BY <1>7, <2>1
  <2>4. o[r + 1] = s[e + (r + 1)]
    BY <1>3, <2>1
  <2>5. QED  BY <2>1, <2>2, <2>3, <2>4
<1>10. as = SubSeq(o, q + 1, q + n) \o SubSeq(o, r + 1, q)
  <2>0. Len(o) = q + n /\ Len(as) = n + c
    BY <1>2, <1>3, <1>5, <1>7
  <2>1. PICK u, v : u = SubSeq(o, q + 1, q + n) /\ v = SubSeq(o, r + 1, q)
    OBVIOUS
  <2>2. u \in Seq(Word) /\ Len(u) = n /\ \A i \in 1 .. n : u[i] = o[q + i]
    <3>1. q + n <= Len(o)
      BY <2>0
    <3>2. QED  BY <1>3, <2>1, <3>1, PartAt
  <2>3. v \in Seq(Word) /\ Len(v) = c /\ \A i \in 1 .. c : v[i] = o[r + i]
    <3>1. r + c <= Len(o) /\ r + c = q
      BY <2>0
    <3>2. v = SubSeq(o, r + 1, r + c)
      BY <2>1, <3>1
    <3>3. QED  BY <1>3, <3>1, <3>2, PartAt
  <2>4. /\ u \o v \in Seq(Word) /\ Len(u \o v) = Len(u) + Len(v)
        /\ \A i \in 1 .. Len(u) + Len(v) : (u \o v)[i] = IF i <= Len(u) THEN u[i] ELSE v[i - Len(u)]
    <3>1. u \in Seq(Word) /\ v \in Seq(Word)
      BY <2>2, <2>3
    <3>2. u \o v \in Seq(Word) /\ Len(u \o v) = Len(u) + Len(v)
      BY <3>1, ConcatProperties
    <3>3. \A i \in 1 .. Len(u) + Len(v) : (u \o v)[i] = IF i <= Len(u) THEN u[i] ELSE v[i - Len(u)]
      BY <3>1, ConcatProperties
    <3>4. QED  BY <3>2, <3>3
  <2>5. ASSUME NEW j \in 1 .. n + c
        PROVE  as[j] = (u \o v)[j]
    <3>1. CASE j <= n
      <4>1. j \in 1 .. n /\ j \in 1 .. Len(u) + Len(v) /\ j <= Len(u)
        BY <2>2, <2>3, <3>1
      <4>3. (u \o v)[j] = u[j]
        BY <2>4, <4>1
      <4>4. QED  BY <1>8, <2>2, <4>1, <4>3
    <3>2. CASE ~(j <= n)
      <4>1. j = n + 1 /\ c = 1
        BY <3>2
      <4>2. (u \o v)[j] = v[1]
        BY <2>2, <2>3, <2>4, <3>2, <4>1
      <4>3. v[1] = o[r + 1]
        BY <2>3, <4>1
      <4>4. QED  BY <1>9, <4>1, <4>2, <4>3
    <3>3. QED  BY <3>1, <3>2
  <2>6. as = u \o v
    <3>1. Len(as) = Len(u \o v) /\ \A j \in 1 .. Len(as) : as[j] = (u \o v)[j]
      BY <2>0, <2>2, <2>3, <2>4, <2>5
    <3>2. QED  BY <1>7, <2>4, <3>1, SeqEqual
  <2>7. QED  BY <2>1, <2>6
<1>11. Len(o) = q + n
  BY <1>2, <1>3
<1>12. QED  BY <1>1, <1>3, <1>4, <1>6, <1>7, <1>9, <1>10, <1>11 DEF Divided

(* What a call puts on a stack that held d words below the n arguments.             *)
CallWords(s, s2, d, n, c, ret) ==
  /\ Len(s) = d + n /\ Len(s2) = d + n + 2
  /\ \A p \in 1 .. d : s2[p] = s[p]
  /\ \A j \in 1 .. n : s2[d + n + 1 - j] = s[d + j]
  /\ s2[d + n + 1] = Mk("ip", ret) /\ s2[d + n + 2] = Mk("argc", n + c)

LEMMA MkParts ==
  ASSUME NEW k, NEW v
  PROVE  Mk(k, v).t = k /\ Mk(k, v).v = v
  BY DEF Mk

LEMMA CallWordsHanded ==
  ASSUME NEW e, NEW r, NEW q, NEW n, NEW c, NEW d, NEW b, Numbers(e, r, q, n, c, d, b),
         NEW s \in Seq(Word), NEW s2 \in Seq(Word),
         NEW ret, CallWords(s, s2, d, n, c, ret), NEW f \in Nat, NEW t, t = WithFrame(s2, f)
  PROVE  /\ t \in Seq(Word) /\ Len(t) = b /\ b \in 1 .. Len(t) /\ t[b].v = f
         /\ t[b - 2].v = ret /\ t[b - 1].v = n + c /\ Handed(s, t, b, d, n, c)
<1> d \in Nat /\ n \in Nat /\ c \in Nat /\ b \in Nat /\ b = d + n + 3
  BY DEF Numbers
<1>1. /\ Len(s2) = b - 1 /\ f \in Int /\ b = Len(s2) + 1
  BY DEF CallWords
<1>2. /\ t \in Seq(Word) /\ Len(t) = b /\ b \in 1 .. Len(t) /\ t[b].v = f
      /\ \A p \in 1 .. b - 1 : t[p] = s2[p]
  <2>1. /\ t \in Seq(Word) /\ Len(t) = Len(s2) + 1 /\ Len(s2) + 1 \in 1 .. Len(t)
        /\ t[Len(s2) + 1].v = f
    BY EntryWords
  <2>2. \A p \in 1 .. Len(s2) : t[p] = s2[p]
    BY <1>1, EntryWords
  <2>3. QED  BY <1>1, <2>1, <2>2
<1>3. t[b - 1] = Mk("argc", n + c) /\ t[b - 2] = Mk("ip", ret)
  <2>1. b - 1 = d + n + 2 /\ b - 2 = d + n + 1 /\ b - 1 \in 1 .. b - 1 /\ b - 2 \in 1 .. b - 1
    OBVIOUS
  <2>2. t[b - 1] = s2[b - 1] /\ t[b - 2] = s2[b - 2]
    BY <1>2, <2>1
  <2>3. s2[b - 1] = Mk("argc", n + c) /\ s2[b - 2] = Mk("ip", ret)
    BY <2>1 DEF CallWords
  <2>4. QED  BY <2>2, <2>3
<1>4. t[b - 1].v = n + c /\ t[b - 2].v = ret
  BY <1>3, MkParts
<1>5. ASSUME NEW p \in 1 .. d
      PROVE  t[p] = s[p]
  <2>1. p \in 1 .. b - 1
    OBVIOUS
  <2>2. s2[p] = s[p]
    BY DEF CallWords
  <2>3. QED  BY <1>2, <2>1, <2>2
<1>6. ASSUME NEW j \in 1 .. n
      PROVE  t[b - 2 - j] = s[d + j]
  <2>1. b - 2 - j \in 1 .. b - 1 /\ b - 2 - j = d + n + 1 - j
    OBVIOUS
  <2>2. s2[d + n + 1 - j] = s[d + j]
    BY DEF CallWords
  <2>3. QED  BY <1>2, <2>1, <2>2
<1>7. QED  BY <1>2, <1>4, <1>5, <1>6 DEF Handed

(* The caller of the frame to come is the activation that called, without the       *)
(* operands it handed over.                                                         *)
SameUpTo(s, t, d) == \A p \in 1 .. d : t[p] = s[p]

StillWaits(s, t, f, d) ==
  /\ CallersOf(t)[f] = CallersOf(s)[f] /\ CallersOf(s)[f] \in Seq(Acts)
  /\ Arguments(t, f) = Arguments(s, f)
  /\ \A e \in f .. d : SubSeq(t, f + 1, e) = SubSeq(s, f + 1, e)

LEMMA CallerWaits ==
  ASSUME NEW s \in Seq(Word), NEW t \in Seq(Word), NEW h, NEW f \in Nat, NEW pc,
         FramesLinked(s, h), ActivationOK(s, h, f, pc, Len(s)),
         NEW d \in Nat, f <= d, d <= Len(s), d <= Len(t), SameUpTo(s, t, d)
  PROVE  StillWaits(s, t, f, d)
<1>0. \A p \in 1 .. d : t[p] = s[p]
  BY DEF SameUpTo
<1>1. /\ CallersOf(s)[f] \in Seq(Acts) /\ f \in 1 .. Len(s) /\ f >= 5
      /\ s[f].t = "fp" /\ s[f - 1].v \in 0 .. f - 3
  BY BodyShape
<1>2. PICK k \in 0 .. f - 3 : k = s[f - 1].v
  BY <1>1
<1>3. f \in 1 .. d /\ f - 1 \in 1 .. d /\ f - 2 \in 1 .. d
  BY <1>1
<1>4. \A p \in 1 .. f - 3 - k : p \in 1 .. d
  BY <1>1
<1>5. \A j \in 1 .. k : f - 2 - j \in 1 .. d
  BY <1>1
<1>6. CallersOf(t)[f] = CallersOf(s)[f]
  <2>1. f <= Len(t) /\ Len(t) \in Nat
    OBVIOUS
  <2>2. SameCaller(s, t, f)
    BY <1>0, <1>2, <1>3, <1>4, <2>1 DEF SameCaller
  <2>3. QED  BY <1>1, <2>2, CallersStay
<1>7. Arguments(t, f) = Arguments(s, f)
  <2>1. t[f - 1] = s[f - 1] /\ \A j \in 1 .. k : t[f - 2 - j] = s[f - 2 - j]
    BY <1>0, <1>3, <1>5
  <2>2. QED  BY <1>2, <2>1 DEF Arguments
<1>8. ASSUME NEW e \in f .. d
      PROVE  SubSeq(t, f + 1, e) = SubSeq(s, f + 1, e)
  <2>1. PICK m \in Nat : m = f + 1
    OBVIOUS
  <2>2. e \in Nat /\ m >= 1 /\ m <= e + 1 /\ e <= Len(s) /\ e <= Len(t) /\ \A p \in m .. e : p \in 1 .. d
    BY <2>1
  <2>3. QED  BY <1>0, <2>1, <2>2, PartSame
<1>9. QED  BY <1>1, <1>6, <1>7, <1>8 DEF StillWaits

Locals(pc, l) == NLoc(pc) = l

(* What s and the stack t, with the callee's frame at b, say of caller and callee.   *)
Called(s, t, f, pc, r, q, n, c, d, b) ==
  LET a == Framed(s, f, pc, Len(s)) x == Caller(t, b) IN
  /\ CallersOf(t)[b] = Append(CallersOf(s)[f], x)
  /\ CallersOf(s)[f] \in Seq(Acts) /\ a \in Acts /\ x \in Acts
  /\ x.args = a.args /\ x.locals = a.locals /\ x.ops = SubSeq(a.ops, 1, r)
  /\ Len(a.ops) = q + n /\ Arguments(t, b) \in Seq(Word)
  /\ Arguments(t, b) = SubSeq(a.ops, q + 1, q + n) \o SubSeq(a.ops, r + 1, q)
  /\ c = 1 => a.ops[q] = s[d]

LEMMA CallShape ==
  ASSUME NEW s \in Seq(Word), NEW s2 \in Seq(Word), NEW h, NEW f \in Nat, NEW pc,
         FramesLinked(s, h), ActivationOK(s, h, f, pc, Len(s)),
         NEW ret \in Ips, NEW l \in Nat, Locals(pc, l), Locals(ret, l),
         NEW e, NEW r, NEW q, NEW n, NEW c, NEW d, NEW b, Numbers(e, r, q, n, c, d, b), e = f + l,
         CallWords(s, s2, d, n, c, ret), NEW t, t = WithFrame(s2, f)
  PROVE  Called(s, t, f, pc, r, q, n, c, d, b)
<1>1. /\ t \in Seq(Word) /\ Len(t) = b /\ b \in 1 .. Len(t) /\ t[b].v = f
      /\ t[b - 2].v = ret /\ t[b - 1].v = n + c /\ Handed(s, t, b, d, n, c)
  BY CallWordsHanded
<1>2. /\ Len(s) = d + n
      /\ e \in Nat /\ r \in Nat /\ n \in Nat /\ c \in Nat /\ c <= 1
      /\ q \in Nat /\ q = r + c /\ d \in Nat /\ d = e + q /\ b \in Nat /\ b = d + n + 3
  BY DEF CallWords, Numbers
<1>3. f >= 5
  BY BodyShape
<1>4. f <= e /\ e <= d /\ f <= d /\ d <= Len(s) /\ d <= Len(t)
  BY <1>1, <1>2, <1>3
<1>5. SameUpTo(s, t, d)
  BY <1>1 DEF Handed, SameUpTo
<1>6. /\ CallersOf(t)[f] = CallersOf(s)[f] /\ CallersOf(s)[f] \in Seq(Acts)
      /\ Arguments(t, f) = Arguments(s, f)
      /\ SubSeq(t, f + 1, e) = SubSeq(s, f + 1, e)
  <2>1. /\ CallersOf(t)[f] = CallersOf(s)[f] /\ CallersOf(s)[f] \in Seq(Acts)
        /\ Arguments(t, f) = Arguments(s, f)
        /\ \A k \in f .. d : SubSeq(t, f + 1, k) = SubSeq(s, f + 1, k)
    <3>1. StillWaits(s, t, f, d)
      BY <1>1, <1>2, <1>4, <1>5, CallerWaits
    <3>2. QED  BY <3>1 DEF StillWaits
  <2>2. e \in f .. d
    BY <1>2, <1>4
  <2>3. QED  BY <2>1, <2>2
<1>7. f \in 1 .. b - 1 /\ b - 3 - (n + c) = e + r
  BY <1>2, <1>3, <1>4
<1>8. PICK a, x : /\ a = Framed(s, f, pc, Len(s)) /\ x = Caller(t, b)
                  /\ x = Framed(t, f, ret, e + r)
  BY <1>1, <1>7 DEF Caller
<1>9. CallersOf(t)[b] = Append(CallersOf(s)[f], x)
  <2>1. CallersOf(t)[b] = IF f \in 1 .. b - 1 THEN Append(CallersOf(t)[f], Caller(t, b)) ELSE <<>>
    BY <1>1, CallersUnfold
  <2>2. QED  BY <1>6, <1>7, <1>8, <2>1
<1>10. /\ x = [pc |-> ret, args |-> Arguments(t, f), locals |-> SubSeq(t, f + 1, e),
                ops |-> SubSeq(t, e + 1, e + r)]
  BY <1>8 DEF Framed, Locals
<1>11. /\ a.args = Arguments(s, f) /\ a.locals = SubSeq(s, f + 1, e)
       /\ a.ops = SubSeq(s, e + 1, d + n)
  BY <1>2, <1>8 DEF Framed, Locals
<1>12. a \in Acts /\ a.args \in Seq(Word) /\ a.locals \in Seq(Word)
  BY <1>8, BodyShape DEF Acts
<1>13. PICK o : o = SubSeq(s, e + 1, d + n)
  OBVIOUS
<1>14. /\ Len(o) = q + n /\ SubSeq(t, e + 1, e + r) = SubSeq(o, 1, r)
       /\ SubSeq(o, 1, r) \in Seq(Word)
       /\ Arguments(t, b) = SubSeq(o, q + 1, q + n) \o SubSeq(o, r + 1, q)
       /\ Arguments(t, b) \in Seq(Word) /\ (c = 1 => o[q] = s[d])
  <2>1. Divided(s, t, e, r, q, n, c, d, b)
    BY <1>1, <1>2, HandedOver
  <2>2. QED  BY <1>13, <2>1 DEF Divided
<1>15. x \in Acts
  <2>1. /\ Arguments(t, f) \in Seq(Word) /\ SubSeq(t, f + 1, e) \in Seq(Word)
        /\ SubSeq(t, e + 1, e + r) \in Seq(Word)
    BY <1>6, <1>11, <1>12, <1>14
  <2>2. QED  BY <1>10, <2>1 DEF Acts
<1>16. x.args = a.args /\ x.locals = a.locals /\ x.ops = SubSeq(a.ops, 1, r)
  BY <1>6, <1>10, <1>11, <1>13, <1>14
<1>17. QED  BY <1>6, <1>8, <1>9, <1>11, <1>12, <1>13, <1>14, <1>15, <1>16 DEF Called

(* The operands of a call lie above the locals.                                     *)
Room(m, f, l, n, c) == c <= 1 /\ m - (n + c) >= f + l

LEMMA InvokesNumbers ==
  ASSUME NEW m \in Nat, NEW f \in Nat, NEW l \in Nat, NEW n \in Nat, NEW c \in Nat,
         Room(m, f, l, n, c)
  PROVE  \E e, r, q, d, b \in Nat :
           Numbers(e, r, q, n, c, d, b) /\ e = f + l /\ m = d + n /\ d = m - n /\ b = m + 3
<1> c <= 1 /\ m - (n + c) >= f + l
  BY DEF Room
<1>1. PICK r \in Nat : r = m - (n + c) - (f + l)
  OBVIOUS
<1>2. PICK e \in Nat, q \in Nat : e = f + l /\ q = r + c
  OBVIOUS
<1>3. PICK d \in Nat, b \in Nat : d = e + q /\ b = d + n + 3
  OBVIOUS
<1>4. m = d + n /\ d = m - n /\ b = m + 3
  BY <1>1, <1>2, <1>3
<1>5. Numbers(e, r, q, n, c, d, b)
  BY <1>2, <1>3 DEF Numbers
<1>6. QED  BY <1>2, <1>4, <1>5

(* A call (eval_call, eval_callc).                                                  *)
LEMMA InvokesRefines ==
  ASSUME IInv, IInv', NEW n \in Nat, NEW c \in Nat, c <= 1, Invokes(n, c)
  PROVE  Calls!Invocation
<1>1. /\ InBody /\ AtEntry' /\ fp' = fp /\ ip' \in DOMAIN Code /\ Code[ip'].argc = n
      /\ ip + 1 \in Ips /\ NLoc(ip + 1) = NLoc(ip)
      /\ Len(stack) - (n + c) >= fp + NLoc(ip)
      /\ c = 1 => stack[Len(stack) - n].t = "obj"
  BY DEF Invokes, Avail, Peek, Size, NLoc
<1>2. /\ stack \in Seq(Word) /\ FramesLinked(stack, heap) /\ ip # 0
      /\ ActivationOK(stack, heap, fp, ip, Len(stack))
      /\ Activations = Append(CallersOf(stack)[fp], Framed(stack, fp, ip, Len(stack)))
  BY <1>1, BodyNow
<1>3. /\ stack' \in Seq(Word) /\ ip' # 0 /\ ip' \in Ips
      /\ Activations' = Append(CallersOf(Entered')[Len(stack') + 1],
            [pc |-> ip', args |-> Arguments(Entered', Len(stack') + 1),
             locals |-> <<>>, ops |-> <<>>])
  BY <1>1, EntryNext
<1>4. fp \in Nat /\ NLoc(ip) \in Nat /\ Len(stack) \in Nat
  BY <1>2, BodyShape
<1>5. PICK l \in Nat, m \in Nat : l = NLoc(ip) /\ Locals(ip, l) /\ Locals(ip + 1, l) /\ m = Len(stack)
  BY <1>1, <1>4 DEF Locals
<1>6. PICK e, r, q, d, b \in Nat :
        Numbers(e, r, q, n, c, d, b) /\ e = fp + l /\ m = d + n /\ d = m - n /\ b = m + 3
  <2>1. Room(m, fp, l, n, c) /\ fp \in Nat
    BY <1>1, <1>4, <1>5 DEF Room
  <2>2. QED  BY <2>1, InvokesNumbers
<1>7. CallWords(stack, stack', d, n, c, ip + 1)
  <2>1. /\ Len(stack') = m + 2
        /\ \A p \in 1 .. m - n : stack'[p] = stack[p]
        /\ \A j \in 1 .. n : stack'[m + 1 - j] = stack[m - n + j]
        /\ stack'[m + 1] = Mk("ip", ip + 1) /\ stack'[m + 2] = Mk("argc", n + c)
    BY <1>5 DEF Invokes, Size
  <2>2. QED  BY <1>5, <1>6, <2>1 DEF CallWords
<1>8. PICK t : t = WithFrame(stack', fp) /\ t = Entered'
  BY <1>1 DEF Entered, WithFrame
<1>9. Called(stack, t, fp, ip, r, q, n, c, d, b)
  BY <1>1, <1>2, <1>3, <1>4, <1>5, <1>6, <1>7, <1>8, CallShape
<1>10. PICK cs, a, x, y :
         /\ cs = CallersOf(stack)[fp] /\ a = Framed(stack, fp, ip, Len(stack)) /\ x = Caller(t, b)
         /\ y = [pc |-> ip', args |-> Arguments(t, b), locals |-> <<>>, ops |-> <<>>]
  OBVIOUS
<1>11. /\ CallersOf(t)[b] = Append(cs, x) /\ cs \in Seq(Acts) /\ a \in Acts /\ x \in Acts
       /\ x.args = a.args /\ x.locals = a.locals /\ x.ops = SubSeq(a.ops, 1, r)
       /\ Len(a.ops) = q + n /\ Arguments(t, b) \in Seq(Word)
       /\ Arguments(t, b) = SubSeq(a.ops, q + 1, q + n) \o SubSeq(a.ops, r + 1, q)
       /\ c = 1 => a.ops[q] = stack[d]
  BY <1>9, <1>10 DEF Called
<1>12. y \in Acts /\ y.pc = ip' /\ y.args = Arguments(t, b) /\ y.locals = <<>> /\ y.ops = <<>>
  <2>1. <<>> \in Seq(Word)
    OBVIOUS
  <2>2. Arguments(t, b) \in Seq(Word)
    BY <1>11
  <2>3. QED  BY <1>3, <1>10, <2>1, <2>2 DEF Acts
<1>13. Activations = Append(cs, a) /\ Activations' = Append(Append(cs, x), y)
  <2>1. Activations = Append(cs, a)
    BY <1>2, <1>10
  <2>2. Len(stack') + 1 = b
    <3>1. Len(stack') = d + n + 2
      BY <1>7 DEF CallWords
    <3>2. QED  BY <1>6, <3>1
  <2>3. Activations' = Append(CallersOf(t)[b], y)
    BY <1>3, <1>8, <1>10, <2>2
  <2>4. QED  BY <1>11, <2>1, <2>3
<1>14. PICK k \in Nat : /\ k = q + n /\ n + c <= k /\ k - n - c = r /\ k - n = q
                       /\ k - n + 1 = q + 1 /\ k - n - c + 1 = r + 1
  <2>1. r \in Nat /\ q \in Nat /\ q = r + c
    BY <1>6 DEF Numbers
  <2>2. q + n \in Nat
    BY <2>1
  <2>3. QED  BY <2>1, <2>2
<1>15. /\ k = Len(a.ops) /\ x.ops = SubSeq(a.ops, 1, k - n - c)
       /\ y.args = SubSeq(a.ops, k - n + 1, k) \o SubSeq(a.ops, k - n - c + 1, k - n)
  BY <1>11, <1>12, <1>14
<1>16. c = 1 => a.ops[k - n].t = "obj"
  <2>1. Len(stack) - n = d
    BY <1>5, <1>6
  <2>2. QED  BY <1>1, <1>11, <1>14, <2>1
<1>17. ip # 0 /\ ip' # 0 /\ y.pc \in DOMAIN Code /\ Code[y.pc].argc = n
  BY <1>1, <1>2, <1>3, <1>12
<1>18. QED
  BY <1>11, <1>12, <1>13, <1>14, <1>15, <1>16, <1>17, InvocationStep

(* A return leaves the caller's activation as it waited, with one operand more.     *)
LEMMA PartGrows ==
  ASSUME NEW s \in Seq(Word), NEW a \in Nat, NEW c \in Nat, a >= 1, a <= c + 1, c + 1 <= Len(s)
  PROVE  SubSeq(s, a, c + 1) = Append(SubSeq(s, a, c), s[c + 1])
<1>1. PICK x, y : x = SubSeq(s, a, c) /\ y = SubSeq(s, a, c + 1)
  OBVIOUS
<1>2. PICK m \in Nat : m = c + 1 - a
  OBVIOUS
<1>3. x \in Seq(Word) /\ Len(x) = m /\ \A i \in 1 .. m : x[i] = s[a + i - 1]
  <2>1. c <= Len(s)
    OBVIOUS
  <2>2. QED  BY <1>1, <1>2, <2>1, PartFacts
<1>4. y \in Seq(Word) /\ Len(y) = m + 1 /\ \A i \in 1 .. m + 1 : y[i] = s[a + i - 1]
  <2>1. c + 1 \in Nat /\ a <= (c + 1) + 1 /\ (c + 1) + 1 - a = m + 1
    BY <1>2
  <2>2. QED  BY <1>1, <2>1, PartFacts
<1>5. PICK v \in Word : v = s[c + 1]
  <2>1. c + 1 \in 1 .. Len(s)
    OBVIOUS
  <2>2. QED  BY <2>1, ElementOfSeq
<1>6. /\ Append(x, v) \in Seq(Word) /\ Len(Append(x, v)) = m + 1 /\ Append(x, v)[m + 1] = v
      /\ \A i \in 1 .. m : Append(x, v)[i] = x[i]
  BY <1>3, AppendProperties
<1>7. ASSUME NEW i \in 1 .. m + 1
      PROVE  y[i] = Append(x, v)[i]
  <2>1. CASE i = m + 1
    <3>1. a + (m + 1) - 1 = c + 1
      BY <1>2
    <3>2. QED  BY <1>4, <1>5, <1>6, <2>1, <3>1
  <2>2. CASE i # m + 1
    <3>1. i \in 1 .. m
      BY <2>2
    <3>2. QED  BY <1>3, <1>4, <1>6, <3>1
  <2>3. QED  BY <2>1, <2>2
<1>8. y = Append(x, v)
  BY <1>4, <1>6, <1>7, SeqEqual
<1>9. QED  BY <1>1, <1>5, <1>8

Resumed(s, t, f, pc, m) ==
  LET x == Framed(s, f, pc, m) y == Framed(t, f, pc, m + 1) IN
  /\ CallersOf(t)[f] = CallersOf(s)[f] /\ CallersOf(s)[f] \in Seq(Acts)
  /\ x \in Acts /\ y.pc = x.pc /\ y.args = x.args /\ y.locals = x.locals
  /\ y.ops = Append(x.ops, t[m + 1])

LEMMA CallerResumes ==
  ASSUME NEW s \in Seq(Word), NEW t \in Seq(Word), NEW h, FramesLinked(s, h),
         NEW f, NEW pc, NEW m \in Nat, ActivationOK(s, h, f, pc, m),
         m <= Len(s), Len(t) = m + 1, SameUpTo(s, t, m)
  PROVE  Resumed(s, t, f, pc, m)
<1>1. \A p \in 1 .. m : t[p] = s[p]
  BY DEF SameUpTo
<1>2. f \in Nat /\ f >= 5 /\ f <= m /\ s[f].t = "fp" /\ s[f - 1].v \in 0 .. f - 3 /\ pc \in Ips
  BY ActivationFacts
<1>3. PICK l \in Nat : l = NLoc(pc)
  BY <1>2, CodeFacts
<1>4. Framed(s, f, pc, m) \in Acts /\ f + l <= m
  BY <1>3, FramedFacts
<1>5. Framed(t, f, pc, m) = Framed(s, f, pc, m)
  BY <1>1, FramedStays
<1>6. CallersOf(t)[f] = CallersOf(s)[f] /\ CallersOf(s)[f] \in Seq(Acts)
  <2>1. PICK n \in 0 .. f - 3 : n = s[f - 1].v
    BY <1>2
  <2>2. /\ f <= Len(t) /\ f \in 1 .. Len(s) /\ f - 2 \in 1 .. m /\ f - 1 \in 1 .. m /\ f \in 1 .. m
        /\ \A p \in 1 .. f - 3 - n : p \in 1 .. m
    <3>1. f \in Nat /\ f >= 5 /\ f <= m /\ Len(s) \in Nat
      BY <1>2
    <3>2. \A p \in 1 .. f - 3 - n : p \in 1 .. m
      BY <3>1
    <3>3. QED  BY <3>1, <3>2
  <2>3. SameCaller(s, t, f)
    BY <1>1, <2>1, <2>2 DEF SameCaller
  <2>4. QED  BY <1>2, <2>2, <2>3, CallersStay
<1>7. SubSeq(t, f + l + 1, m + 1) = Append(SubSeq(t, f + l + 1, m), t[m + 1])
  <2>1. f + l + 1 \in Nat /\ f + l + 1 >= 1 /\ f + l + 1 <= m + 1 /\ m + 1 <= Len(t)
    BY <1>2, <1>4
  <2>2. QED  BY <2>1, PartGrows
<1>8. QED  BY <1>3, <1>4, <1>5, <1>6, <1>7 DEF Resumed, Framed

(* The end of a function (eval_end).                                                *)
LEMMA ReturnsRefines ==
  ASSUME IInv, IInv', Returns
  PROVE  Calls!Return
<1>1. /\ stack \in Seq(Word) /\ FramesLinked(stack, heap) /\ ip # 0
      /\ ActivationOK(stack, heap, fp, ip, Len(stack))
      /\ Activations = Append(CallersOf(stack)[fp], Framed(stack, fp, ip, Len(stack)))
  BY BodyNow DEF Returns
<1>2. PICK a : a = Framed(stack, fp, ip, Len(stack))
  OBVIOUS
<1>3. /\ a \in Acts /\ fp \in 1 .. Len(stack) /\ fp \in Nat /\ fp >= 5
      /\ stack[fp].t = "fp" /\ stack[fp - 1].v \in 0 .. fp - 3
  BY <1>1, <1>2, BodyShape
<1>4. PICK n \in 0 .. fp - 3, low \in Nat : n = stack[fp - 1].v /\ low = fp - 3 - n
  BY <1>3
<1>5. PICK q, ret, v : q = stack[fp].v /\ ret = stack[fp - 2].v /\ v = stack[Len(stack)]
  OBVIOUS
<1>6. /\ InBody /\ Avail(1) /\ fp' = q /\ ip' = ret /\ Len(stack') = low + 1
      /\ stack'[low + 1] = v /\ \A p \in 1 .. low : stack'[p] = stack[p]
  BY <1>4, <1>5 DEF Returns, Size
<1>7. a.ops # <<>> /\ Last(a.ops) = v
  <2>1. PICK l \in Nat, m \in Nat : l = NLoc(ip) /\ m = Len(stack)
    BY <1>1, BodyShape
  <2>2. m - 1 >= fp + l
    BY <1>6, <2>1 DEF Avail, Size
  <2>3. a.ops = SubSeq(stack, fp + l + 1, m)
    BY <1>2, <2>1 DEF Framed
  <2>4. PICK k \in Nat : k = m - (fp + l) /\ k >= 1 /\ m = fp + l + k /\ fp + l \in Nat
    BY <1>3, <2>2
  <2>5. /\ Len(a.ops) = k /\ a.ops[k] = stack[fp + l + k] /\ a.ops \in Seq(Word)
    <3>1. PICK e \in Nat : e = fp + l
      BY <2>4
    <3>2. stack \in Seq(Word) /\ e + k <= Len(stack) /\ k \in 1 .. k
      <4>1. e + k = m
        BY <2>4, <3>1
      <4>2. k \in 1 .. k
        BY <2>4
      <4>3. QED  BY <1>1, <2>1, <4>1, <4>2
    <3>3. PICK o : o = SubSeq(stack, e + 1, e + k)
      OBVIOUS
    <3>4. o \in Seq(Word) /\ Len(o) = k /\ o[k] = stack[e + k]
      BY <3>2, <3>3, PartAt
    <3>5. a.ops = o
      BY <2>3, <2>4, <3>1, <3>3
    <3>6. QED  BY <3>1, <3>4, <3>5
  <2>6. a.ops # <<>>
    BY <2>4, <2>5, EmptySeq
  <2>7. QED  BY <1>5, <2>1, <2>4, <2>5, <2>6 DEF Last
<1>8. Linked(stack, heap, fp, q)
  BY <1>1, <1>3, <1>5 DEF FramesLinked
<1>9. /\ q \in 0 .. low
      /\ \/ q = 0 /\ ret = 0 /\ fp = 5 /\ n = 2
         \/ q # 0 /\ ActivationOK(stack, heap, q, ret, low)
  BY <1>4, <1>5, <1>8 DEF Linked
<1>10. CallersOf(stack)[fp] = IF q \in 1 .. fp - 1 THEN Append(CallersOf(stack)[q], Caller(stack, fp))
                              ELSE <<>>
  BY <1>1, <1>3, <1>5, CallersUnfold
<1>11. CASE q = 0 /\ ret = 0 /\ fp = 5 /\ n = 2
  <2>1. CallersOf(stack)[fp] = <<>>
    BY <1>10, <1>11
  <2>2. ip' = 0 /\ Activations' = <<>>
    BY <1>6, <1>11 DEF Activations
  <2>3. stack' = <<Last(a.ops)>>
    <3>1. stack' \in Seq(Word) /\ Len(stack') = 1 /\ stack'[1] = v
      <4>1. low = 0
        BY <1>4, <1>11
      <4>2. QED  BY <1>6, <4>1 DEF IInv, TypeOK
    <3>2. QED  BY <1>7, <3>1
  <2>4. QED  BY <1>1, <1>2, <1>3, <1>7, <2>1, <2>2, <2>3, MainReturns
<1>12. CASE q # 0 /\ ActivationOK(stack, heap, q, ret, low)
  <2>1. ret \in Ips /\ ret # Entry[ret]
    BY <1>12 DEF ActivationOK
  <2>2. InBody'
    BY <1>6, <2>1 DEF InBody
  <2>3. /\ stack' \in Seq(Word) /\ FramesLinked(stack', heap') /\ ip' # 0
        /\ ActivationOK(stack', heap', q, ret, Len(stack'))
        /\ Activations' = Append(CallersOf(stack')[q], Framed(stack', q, ret, Len(stack')))
    BY <1>6, <2>2, BodyNext
  <2>4. PICK c, x, b : /\ c = CallersOf(stack)[q] /\ x = Framed(stack, q, ret, low)
                       /\ b = Framed(stack', q, ret, low + 1)
    OBVIOUS
  <2>5. b \in Acts /\ Activations' = Append(CallersOf(stack')[q], b)
    BY <1>6, <2>3, <2>4, BodyShape
  <2>6. Resumed(stack, stack', q, ret, low)
    <3>1. low <= Len(stack) /\ SameUpTo(stack, stack', low)
      BY <1>3, <1>4, <1>6 DEF SameUpTo
    <3>2. QED  BY <1>1, <1>6, <1>12, <2>3, <3>1, CallerResumes
  <2>7. /\ CallersOf(stack')[q] = c /\ c \in Seq(Acts) /\ x \in Acts
        /\ b.pc = x.pc /\ b.args = x.args /\ b.locals = x.locals /\ b.ops = Append(x.ops, v)
    BY <1>6, <2>4, <2>6 DEF Resumed
  <2>8. Activations = Append(Append(c, x), a)
    <3>1. q \in 1 .. fp - 1
      BY <1>3, <1>4, <1>9, <1>12
    <3>2. Caller(stack, fp) = x
      BY <1>4, <1>5, <2>4 DEF Caller
    <3>3. QED  BY <1>1, <1>2, <1>10, <2>4, <3>1, <3>2
  <2>9. QED  BY <1>1, <1>3, <1>7, <2>3, <2>5, <2>7, <2>8, CalleeReturns
<1>13. QED  BY <1>9, <1>11, <1>12

------------------------------------------------------------------------------------
(* eval starts main with two words below the return address 0, so that its END      *)
(* leaves the loop.                                                                 *)
LEMMA AppendFourth ==
  ASSUME NEW a, NEW b, NEW c, NEW d, NEW e
  PROVE  Append(<<a, b, c, d>>, e) = <<a, b, c, d, e>>
<1>1. PICK S : S = {a, b, c, d, e}
  OBVIOUS
<1>2. PICK s, t : s = <<a, b, c, d>> /\ t = <<a, b, c, d, e>>
  OBVIOUS
<1>3. /\ s \in Seq(S) /\ Len(s) = 4 /\ e \in S
      /\ s[1] = a /\ s[2] = b /\ s[3] = c /\ s[4] = d
  BY <1>1, <1>2
<1>4. /\ t \in Seq(S) /\ Len(t) = 5
      /\ t[1] = a /\ t[2] = b /\ t[3] = c /\ t[4] = d /\ t[5] = e
  BY <1>1, <1>2
<1>5. /\ Append(s, e) \in Seq(S) /\ Len(Append(s, e)) = 4 + 1 /\ Append(s, e)[4 + 1] = e
      /\ \A i \in 1 .. 4 : Append(s, e)[i] = s[i]
  <2>1. s \in Seq(S) /\ e \in S
    BY <1>3
  <2>2. Append(s, e) \in Seq(S) /\ Len(Append(s, e)) = Len(s) + 1 /\ Append(s, e)[Len(s) + 1] = e
    BY <2>1, AppendProperties
  <2>3. \A i \in 1 .. Len(s) : Append(s, e)[i] = s[i]
    BY <2>1, AppendProperties
  <2>4. Len(s) = 4
    BY <1>3
  <2>5. QED  BY <2>2, <2>3, <2>4
<1>6. \A i \in 1 .. 5 : Append(s, e)[i] = t[i]
  <2>1. \A i \in 1 .. 5 : i \in {1, 2, 3, 4, 5}
    OBVIOUS
  <2>2. QED  BY <1>3, <1>4, <1>5, <2>1
<1>7. Append(s, e) = t
  BY <1>4, <1>5, <1>6, SeqEqual
<1>8. QED  BY <1>2, <1>7

LEMMA InitRefines ==
  ASSUME Init
  PROVE  Calls!Init
<1>1. /\ stack = <<Junk, Junk, Mk("ip", 0), Mk("argc", 2)>> /\ fp = 0 /\ ip = MainEntry
      /\ Len(stack) = 4
  BY DEF Init
<1>2. AtEntry /\ ip # 0
  BY <1>1, ProgramAssumption DEF AtEntry, WellFormed
<1>3. PICK t : t = Entered
  OBVIOUS
<1>4. t = <<Junk, Junk, Mk("ip", 0), Mk("argc", 2), Mk("fp", 0)>>
  <2>1. t = Append(<<Junk, Junk, Mk("ip", 0), Mk("argc", 2)>>, Mk("fp", 0))
    BY <1>1, <1>3 DEF Entered
  <2>2. QED  BY <2>1, AppendFourth
<1>5. t \in Seq(Word)
  BY <1>4 DEF Word, SavedTags, PlainTags, Junk, Mk
<1>6. CallersOf(t)[5] = <<>>
  <2>1. 5 \in 1 .. Len(t) /\ t[5].v \notin 1 .. 5 - 1
    BY <1>4, MkParts
  <2>2. QED  BY <1>5, <2>1, CallersUnfold
<1>7. Arguments(t, 5) = <<Junk, Junk>>
  <2>1. t[5 - 1].v = 2 /\ t[5 - 2 - 1] = Junk /\ t[5 - 2 - 2] = Junk
    BY <1>4, MkParts
  <2>2. Arguments(t, 5) = [j \in 1 .. 2 |-> Junk]
    <3>1. \A j \in 1 .. 2 : t[5 - 2 - j] = Junk
      BY <2>1
    <3>2. QED  BY <2>1, <3>1 DEF Arguments
  <2>3. QED  BY <2>2
<1>8. Activations = Append(<<>>, [pc |-> MainEntry, args |-> <<Junk, Junk>>,
                                  locals |-> <<>>, ops |-> <<>>])
  <2>1. Activations = Append(CallersOf(Entered)[Size + 1],
           [pc |-> ip, args |-> Arguments(Entered, Size + 1), locals |-> <<>>, ops |-> <<>>])
    BY <1>2 DEF Activations
  <2>2. Size + 1 = 5 /\ ip = MainEntry
    BY <1>1 DEF Size
  <2>3. QED  BY <1>3, <1>6, <1>7, <2>1, <2>2
<1>9. QED  BY <1>2, <1>8 DEF Calls!Init, Calls!Activation

LEMMA StepRefines ==
  ASSUME IInv, IInv', [Next]_vars
  PROVE  [Calls!Next]_<<Activations, IF ip = 0 THEN stack ELSE <<>>>>
<1>1. CASE UNCHANGED <<stack, fp, ip>>
  <2>1. UNCHANGED Activations
    BY <1>1 DEF Activations, AtEntry, Entered, Size
  <2>2. UNCHANGED (IF ip = 0 THEN stack ELSE <<>>)
    BY <1>1
  <2>3. QED  BY <2>1, <2>2
<1>2. CASE Next
  <2>1. CASE Computes
    BY <1>2, <2>1, NextPreserves, ComputesRefines DEF Computes, Calls!Next
  <2>2. CASE Enters
    BY <2>2, EntersRefines DEF Calls!Next
  <2>3. CASE Returns
    BY <2>3, ReturnsRefines DEF Calls!Next
  <2>4. CASE \E n \in Nat, c \in {0, 1} : Invokes(n, c)
    <3>1. PICK n \in Nat, c \in {0, 1} : Invokes(n, c)
      BY <2>4
    <3>2. c \in Nat /\ c <= 1
      OBVIOUS
    <3>3. QED  BY <3>1, <3>2, InvokesRefines DEF Calls!Next
  <2>5. QED  BY <1>1, <1>2, <2>1, <2>2, <2>3, <2>4, NextPreserves
<1>3. CASE UNCHANGED vars
  BY <1>1, <1>3 DEF vars
<1>4. QED  BY <1>2, <1>3

(* The flat stack with its saved words (eval_begin, eval_call, eval_callc,          *)
(* eval_end) gives every call its own arguments, locals and operands, for every     *)
(* program and every capacity: the machine implements LamaCalls.                    *)
THEOREM FlatStackImplementsCalls == Spec => ImplementsCalls
<1>1. Init => Calls!Init
  BY InitRefines
<1>2. IInv /\ IInv' /\ [Next]_vars => [Calls!Next]_<<Activations, IF ip = 0 THEN stack ELSE <<>>>>
  BY StepRefines
<1>3. QED  BY <1>1, <1>2, Invariance, PTL DEF Spec, ImplementsCalls, Calls!Spec
====================================================================================
