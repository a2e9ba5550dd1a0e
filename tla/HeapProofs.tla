-------------------------------- MODULE HeapProofs --------------------------------
(***********************************************************************************)
(* What the collector owes its client, for spaces of any size, programs of any     *)
(* instructions over stacks of any depth, and objects of any size.                 *)
(***********************************************************************************)
EXTENDS HeapSafety, FiniteSetTheorems, TLAPS

-----------------------------------------------------------------------------------
(* Objects in a space.  B maps the position of each one's first component to its   *)
(* header; Lo and Hi are the words before its block and up to its end.             *)
Tags  == {STRING_TAG, ARRAY_TAG, SEXP_TAG, CLOSURE_TAG}
Heads == [t : {"header"}, a : Tags, b : Nat]

Lo(B, o) == o - 1 - HeaderWords(B[o])
Hi(B, o) == Lo(B, o) + Words(B[o])

(* The blocks of B fill the first n words, one behind the other.                   *)
Layout(B, n) ==
  /\ DOMAIN B \subseteq Nat /\ B \in [DOMAIN B -> Heads]
  /\ \A o \in DOMAIN B : 0 <= Lo(B, o) /\ Hi(B, o) <= n
  /\ \A o, p \in DOMAIN B : o = p \/ Hi(B, o) <= Lo(B, p) \/ Hi(B, p) <= Lo(B, o)
  /\ n = 0 \/ \E p \in DOMAIN B : Lo(B, p) = 0
  /\ n = 0 \/ \E p \in DOMAIN B : Hi(B, p) = n
  /\ \A o \in DOMAIN B : Hi(B, o) = n \/ \E p \in DOMAIN B : Lo(B, p) = Hi(B, o)
  /\ \A o \in DOMAIN B : Lo(B, o) = 0 \/ \E p \in DOMAIN B : Hi(B, p) = Lo(B, o)

(* w, if it is a pointer, is the address of an object of B in this arena; with a   *)
(* client that is not careful it may also lead to a space of an earlier time.      *)
Points(w, arena, B) ==
  w.t = "ptr" => (w.a = arena /\ w.b \in DOMAIN B) \/ (~Careful /\ w.a < arena)

(* The words of the objects: hashes, texts, and components, but for those at P.    *)
Body(B, cells, arena, P) == \A o \in DOMAIN B :
  /\ B[o].a = SEXP_TAG => cells[o - 2].t = "raw"
  /\ B[o].a = STRING_TAG => \A x \in o .. Hi(B, o) : cells[x].t # "ptr"
  /\ \A x \in o .. Hi(B, o) : x \in P \/ Points(cells[x], arena, B)

InPlace(B, cells) == \A o \in DOMAIN B : cells[o - 1] = B[o]

Space(B, n, cells, arena, P) == Layout(B, n) /\ InPlace(B, cells) /\ Body(B, cells, arena, P)

-----------------------------------------------------------------------------------
(* Headers and sizes.                                                              *)
LEMMA HeadFacts ==
  ASSUME NEW h \in Heads
  PROVE  /\ h.t = "header" /\ h.a \in Tags /\ h.b \in Nat /\ h = Header(h.a, h.b)
         /\ Words(h) \in Nat /\ HeaderWords(h) \in {1, 2} /\ Words(h) >= HeaderWords(h)
         /\ h.a # STRING_TAG => Words(h) = HeaderWords(h) + h.b
         /\ h.a = SEXP_TAG <=> HeaderWords(h) = 2
         /\ h \in Word /\ h.t # "ptr" /\ h.t # "raw"
<1>1. h.t = "header" /\ h.a \in Tags /\ h.b \in Nat
  BY DEF Heads
<1>2. h = [t |-> "header", a |-> h.a, b |-> h.b]
  BY DEF Heads
<1>3. h.a = STRING_TAG => (h.b + 4) \div 4 + 1 \in Nat /\ (h.b + 4) \div 4 + 1 >= 1
  BY <1>1
<1>4. h.a \in Int /\ h \in Word
  BY <1>1 DEF Heads, Word, Tags, STRING_TAG, ARRAY_TAG, SEXP_TAG, CLOSURE_TAG
<1> QED  BY <1>1, <1>2, <1>3, <1>4 DEF Words, HeaderWords, Header, W, Tags, STRING_TAG, SEXP_TAG

LEMMA HeaderIsHead ==
  ASSUME NEW t \in Tags, NEW n \in Nat
  PROVE  /\ Header(t, n) \in Heads /\ Header(t, n).a = t /\ Header(t, n).b = n
         /\ Header(t, n).t = "header"
  BY DEF Heads, Header, W

(* Where a block of a laid out space begins and ends, and where its words are.     *)
LEMMA BlockFacts ==
  ASSUME NEW B, NEW n \in Nat, Layout(B, n), NEW o \in DOMAIN B
  PROVE  /\ o \in Nat /\ B[o] \in Heads /\ Lo(B, o) \in Nat /\ Hi(B, o) \in Nat
         /\ Lo(B, o) = o - 1 - HeaderWords(B[o]) /\ Hi(B, o) = Lo(B, o) + Words(B[o])
         /\ Words(B[o]) \in Nat /\ HeaderWords(B[o]) \in {1, 2}
         /\ o - 1 <= Hi(B, o) /\ Hi(B, o) <= n /\ o >= 2
         /\ o - 1 \in Lo(B, o) + 1 .. Hi(B, o)
         /\ B[o].a = SEXP_TAG => o - 2 \in Lo(B, o) + 1 .. Hi(B, o)
         /\ \A x \in o .. Hi(B, o) : x \in Lo(B, o) + 1 .. Hi(B, o)
         /\ \A x \in Lo(B, o) + 1 .. Hi(B, o) : x \in 1 .. n
<1>1. o \in Nat /\ B[o] \in Heads /\ 0 <= Lo(B, o) /\ Hi(B, o) <= n
  BY DEF Layout
<1>2. /\ Words(B[o]) \in Nat /\ HeaderWords(B[o]) \in {1, 2} /\ Words(B[o]) >= HeaderWords(B[o])
      /\ B[o].a = SEXP_TAG => HeaderWords(B[o]) = 2
  BY <1>1, HeadFacts
<1>3. Lo(B, o) \in Nat /\ Hi(B, o) \in Nat
  BY <1>1, <1>2 DEF Lo, Hi
<1> QED  BY <1>1, <1>2, <1>3 DEF Lo, Hi

(* The blocks of two objects have no word in common.                               *)
LEMMA BlocksApart ==
  ASSUME NEW B, NEW n \in Nat, Layout(B, n), NEW o \in DOMAIN B, NEW p \in DOMAIN B, o # p,
         NEW x \in Lo(B, o) + 1 .. Hi(B, o)
  PROVE  x \notin Lo(B, p) + 1 .. Hi(B, p)
<1>1. Hi(B, o) <= Lo(B, p) \/ Hi(B, p) <= Lo(B, o)
  BY DEF Layout
<1> QED  BY <1>1, BlockFacts

Stored(B, cells, arena, Q, now) ==
  /\ now \in Seq(Word) /\ Len(now) = Len(cells) /\ Body(B, now, arena, Q)
  /\ \A p \in DOMAIN B : now[p - 1] = cells[p - 1]

(* A component of an object that is no string is assigned: Q are the components    *)
(* that count for nothing afterwards.                                              *)
LEMMA StoreKeeps ==
  ASSUME NEW B, NEW n \in Nat, NEW cells \in Seq(Word), NEW arena, NEW P, NEW Q, NEW w \in Word,
         Layout(B, n), Body(B, cells, arena, P), n <= Len(cells),
         NEW o \in DOMAIN B, B[o].a # STRING_TAG, NEW x \in o .. Hi(B, o),
         Points(w, arena, B), P \subseteq Q \cup {x},
         NEW now, now = [cells EXCEPT ![x] = w]
  PROVE  Stored(B, cells, arena, Q, now)
<1>1. o \in Nat /\ x \in Nat /\ x \in Lo(B, o) + 1 .. Hi(B, o) /\ x \in 1 .. Len(cells)
  BY BlockFacts
<1>2. /\ now \in Seq(Word) /\ Len(now) = Len(cells)
      /\ \A y \in 1 .. Len(cells) : now[y] = IF y = x THEN w ELSE cells[y]
  BY <1>1
<1>3. ASSUME NEW p \in DOMAIN B, NEW y \in Lo(B, p) + 1 .. Hi(B, p), y # x
      PROVE  now[y] = cells[y]
  <2>1. y \in 1 .. Len(cells)
    BY BlockFacts
  <2> QED  BY <1>2, <1>3, <2>1
<1>4. ASSUME NEW p \in DOMAIN B
      PROVE  /\ now[p - 1] = cells[p - 1]
             /\ B[p].a = SEXP_TAG => now[p - 2] = cells[p - 2]
             /\ B[p].a = STRING_TAG => \A y \in p .. Hi(B, p) : now[y] = cells[y]
  <2>1. /\ p - 1 \in Lo(B, p) + 1 .. Hi(B, p) /\ p \in Nat
        /\ B[p].a = SEXP_TAG => p - 2 \in Lo(B, p) + 1 .. Hi(B, p)
        /\ \A y \in p .. Hi(B, p) : y \in Lo(B, p) + 1 .. Hi(B, p)
    BY BlockFacts
  <2>2. p = o => p - 1 # x /\ p - 2 # x
    BY <2>1
  <2>3. p # o => x \notin Lo(B, p) + 1 .. Hi(B, p)
    BY <1>1, BlocksApart
  <2> QED  BY <1>3, <2>1, <2>2, <2>3
<1>5. ASSUME NEW p \in DOMAIN B, NEW y \in p .. Hi(B, p)
      PROVE  y \in Q \/ Points(now[y], arena, B)
  <2>1. y \in Lo(B, p) + 1 .. Hi(B, p) /\ y \in 1 .. n /\ y \in 1 .. Len(cells)
    <3>1. y \in Lo(B, p) + 1 .. Hi(B, p) /\ y \in 1 .. n
      BY BlockFacts
    <3> QED  BY <3>1
  <2>2. CASE y = x
    BY <1>2, <2>1, <2>2
  <2>3. CASE y # x
    <3>1. now[y] = cells[y]
      BY <1>3, <2>1, <2>3
    <3>2. y \in P \/ Points(cells[y], arena, B)
      BY DEF Body
    <3> QED  BY <2>3, <3>1, <3>2
  <2> QED  BY <2>2, <2>3
<1>6. Body(B, now, arena, Q)
  BY <1>4, <1>5 DEF Body
<1> QED  BY <1>2, <1>4, <1>6 DEF Stored

(* An object is put behind the others.                                             *)
First(n, h) == n + HeaderWords(h) + 1
With(B, n, h) == [p \in DOMAIN B \cup {First(n, h)} |-> IF p = First(n, h) THEN h ELSE B[p]]

Appended(B, n, h, o, C) ==
  /\ DOMAIN C = DOMAIN B \cup {o} /\ o \in Nat /\ o \notin DOMAIN B
  /\ C[o] = h /\ Lo(C, o) = n /\ Hi(C, o) = n + Words(h)
  /\ \A p \in DOMAIN B : C[p] = B[p] /\ Lo(C, p) = Lo(B, p) /\ Hi(C, p) = Hi(B, p)
  /\ C \in [DOMAIN C -> Heads]

(* Appending a block leaves every other one where it was.                          *)
LEMMA WithFacts ==
  ASSUME NEW B, NEW n \in Nat, NEW h \in Heads, Layout(B, n)
  PROVE  Appended(B, n, h, First(n, h), With(B, n, h))
<1> DEFINE o == First(n, h)  B2 == With(B, n, h)
<1>1. Words(h) \in Nat /\ HeaderWords(h) \in {1, 2}
  BY HeadFacts
<1>2. o \in Nat /\ o = n + HeaderWords(h) + 1 /\ o > n + 1
  BY <1>1 DEF First
<1>3. o \notin DOMAIN B
  <2> SUFFICES ASSUME o \in DOMAIN B PROVE FALSE
    OBVIOUS
  <2>1. o - 1 <= Hi(B, o) /\ Hi(B, o) <= n /\ Hi(B, o) \in Nat
    BY BlockFacts
  <2> QED  BY <1>2, <2>1
<1>4. DOMAIN B2 = DOMAIN B \cup {o} /\ B2[o] = h /\ \A p \in DOMAIN B : B2[p] = B[p]
  BY <1>3 DEF With
<1>5. \A p \in DOMAIN B : Lo(B2, p) = Lo(B, p) /\ Hi(B2, p) = Hi(B, p)
  BY <1>4 DEF Lo, Hi
<1>6. Lo(B2, o) = n /\ Hi(B2, o) = n + Words(h)
  BY <1>1, <1>2, <1>4 DEF Lo, Hi
<1>7. B2 \in [DOMAIN B \cup {o} -> Heads]
  BY <1>4 DEF Layout, With
<1> QED  BY <1>2, <1>3, <1>4, <1>5, <1>6, <1>7 DEF Appended

(* A block appended behind the last one keeps the space laid out.                  *)
LEMMA LayoutGrows ==
  ASSUME NEW B, NEW n \in Nat, Layout(B, n), NEW h \in Heads
  PROVE  Layout(With(B, n, h), n + Words(h))
<1> DEFINE o == First(n, h)  B2 == With(B, n, h)  m == n + Words(h)
<1>0. Appended(B, n, h, o, B2)
  BY WithFacts
<1>1. Words(h) \in Nat /\ m \in Nat /\ n < m
  BY HeadFacts
<1>2. /\ DOMAIN B2 = DOMAIN B \cup {o} /\ o \in Nat /\ o \notin DOMAIN B
      /\ Lo(B2, o) = n /\ Hi(B2, o) = m /\ B2 \in [DOMAIN B2 -> Heads]
  BY <1>0 DEF Appended
<1>3. \A p \in DOMAIN B : Lo(B2, p) = Lo(B, p) /\ Hi(B2, p) = Hi(B, p)
  BY <1>0 DEF Appended
<1>4. \A p \in DOMAIN B : Lo(B, p) \in Nat /\ Hi(B, p) \in Nat /\ Hi(B, p) <= n
  BY BlockFacts
<1> HIDE DEF o, B2, m
<1>5. DOMAIN B2 \subseteq Nat
  BY <1>2 DEF Layout
<1>6. \A p \in DOMAIN B2 : 0 <= Lo(B2, p) /\ Hi(B2, p) <= m
  BY <1>1, <1>2, <1>3, <1>4
<1>7. ASSUME NEW p \in DOMAIN B2, NEW q \in DOMAIN B2
      PROVE  p = q \/ Hi(B2, p) <= Lo(B2, q) \/ Hi(B2, q) <= Lo(B2, p)
  <2>1. p \in DOMAIN B /\ q \in DOMAIN B => p = q \/ Hi(B, p) <= Lo(B, q) \/ Hi(B, q) <= Lo(B, p)
    BY DEF Layout
  <2> QED  BY <1>2, <1>3, <1>4, <2>1
<1>8. (\E p \in DOMAIN B2 : Lo(B2, p) = 0) /\ (\E p \in DOMAIN B2 : Hi(B2, p) = m)
  <2>1. n = 0 \/ \E p \in DOMAIN B : Lo(B, p) = 0
    BY DEF Layout
  <2> QED  BY <1>2, <1>3, <2>1
<1>9. ASSUME NEW p \in DOMAIN B2
      PROVE  Hi(B2, p) = m \/ \E q \in DOMAIN B2 : Lo(B2, q) = Hi(B2, p)
  <2>1. p \in DOMAIN B => Hi(B, p) = n \/ \E q \in DOMAIN B : Lo(B, q) = Hi(B, p)
    BY DEF Layout
  <2> QED  BY <1>2, <1>3, <2>1
<1>10. ASSUME NEW p \in DOMAIN B2
       PROVE  Lo(B2, p) = 0 \/ \E q \in DOMAIN B2 : Hi(B2, q) = Lo(B2, p)
  <2>1. p \in DOMAIN B => Lo(B, p) = 0 \/ \E q \in DOMAIN B : Hi(B, q) = Lo(B, p)
    BY DEF Layout
  <2>2. n = 0 \/ \E q \in DOMAIN B : Hi(B, q) = n
    BY DEF Layout
  <2> QED  BY <1>2, <1>3, <2>1, <2>2
<1>11. Layout(B2, m)
  BY <1>2, <1>5, <1>6, <1>7, <1>8, <1>9, <1>10 DEF Layout
<1> QED  BY <1>11 DEF B2, m

(* More objects, more places a pointer may lead to.                                *)
LEMMA PointsGrows ==
  ASSUME NEW B, NEW C, DOMAIN B \subseteq DOMAIN C, NEW w, NEW arena, Points(w, arena, B)
  PROVE  Points(w, arena, C)
  BY DEF Points

(* A block filled behind the last one, as gc_copy and the constructors fill it,    *)
(* keeps the space.                                                                *)
LEMMA SpaceGrows ==
  ASSUME NEW B, NEW n \in Nat, NEW cells, NEW arena, NEW P, Space(B, n, cells, arena, P),
         NEW h \in Heads, NEW now, NEW Q,
         \A x \in 1 .. n : now[x] = cells[x] /\ (x \in P => x \in Q),
         now[n + HeaderWords(h)] = h,
         h.a = SEXP_TAG => now[n + 1].t = "raw",
         h.a = STRING_TAG => \A x \in First(n, h) .. n + Words(h) : now[x].t # "ptr",
         \A x \in First(n, h) .. n + Words(h) :
           x \in Q \/ Points(now[x], arena, With(B, n, h))
  PROVE  Space(With(B, n, h), n + Words(h), now, arena, Q)
<1> DEFINE o == First(n, h)  B2 == With(B, n, h)
<1>1. Words(h) \in Nat /\ HeaderWords(h) \in {1, 2} /\ (h.a = SEXP_TAG <=> HeaderWords(h) = 2)
  BY HeadFacts
<1>2. Layout(B, n) /\ InPlace(B, cells) /\ Body(B, cells, arena, P)
  BY DEF Space
<1>3. /\ DOMAIN B2 = DOMAIN B \cup {o} /\ B2[o] = h /\ Hi(B2, o) = n + Words(h)
      /\ \A p \in DOMAIN B : B2[p] = B[p] /\ Hi(B2, p) = Hi(B, p)
  <2>1. Appended(B, n, h, o, B2)
    BY <1>2, WithFacts
  <2> QED  BY <2>1 DEF Appended
<1>4. o - 1 = n + HeaderWords(h) /\ (h.a = SEXP_TAG => o - 2 = n + 1)
  BY <1>1 DEF First
<1>5. ASSUME NEW p \in DOMAIN B
      PROVE  /\ now[p - 1] = cells[p - 1]
             /\ B[p].a = SEXP_TAG => now[p - 2] = cells[p - 2]
             /\ \A x \in p .. Hi(B, p) : now[x] = cells[x] /\ (x \in P => x \in Q)
  <2>1. /\ p - 1 \in 1 .. n /\ (B[p].a = SEXP_TAG => p - 2 \in 1 .. n)
        /\ \A x \in p .. Hi(B, p) : x \in 1 .. n
    BY <1>2, BlockFacts
  <2> QED  BY <2>1
<1>6. InPlace(B2, now)
  BY <1>2, <1>3, <1>4, <1>5 DEF InPlace
<1>7. ASSUME NEW p \in DOMAIN B2
      PROVE  /\ B2[p].a = SEXP_TAG => now[p - 2].t = "raw"
             /\ B2[p].a = STRING_TAG => \A x \in p .. Hi(B2, p) : now[x].t # "ptr"
             /\ \A x \in p .. Hi(B2, p) : x \in Q \/ Points(now[x], arena, B2)
  <2>1. CASE p = o
    BY <1>3, <1>4, <2>1
  <2>2. CASE p # o
    <3>1. p \in DOMAIN B /\ B2[p] = B[p] /\ Hi(B2, p) = Hi(B, p)
      BY <1>3, <2>2
    <3>2. /\ B[p].a = SEXP_TAG => cells[p - 2].t = "raw"
          /\ B[p].a = STRING_TAG => \A x \in p .. Hi(B, p) : cells[x].t # "ptr"
          /\ \A x \in p .. Hi(B, p) : x \in P \/ Points(cells[x], arena, B)
      BY <1>2, <3>1 DEF Body
    <3>3. \A x : Points(cells[x], arena, B) => Points(cells[x], arena, B2)
      BY <1>3 DEF Points
    <3> QED  BY <1>5, <3>1, <3>2, <3>3
  <2> QED  BY <2>1, <2>2
<1>8. Body(B2, now, arena, Q)
  BY <1>7 DEF Body
<1>9. Layout(B2, n + Words(h))
  BY <1>2, LayoutGrows
<1> QED  BY <1>6, <1>8, <1>9 DEF Space

-----------------------------------------------------------------------------------
(* The words the copied objects came from: no more than the space holds.           *)
Spent(B, M) == UNION {Lo(B, o) + 1 .. Hi(B, o) : o \in M}

(* Nothing has been copied yet: no words are spent.                                *)
LEMMA NothingSpent ==
  ASSUME NEW B
  PROVE  Cardinality(Spent(B, {})) = 0
  BY FS_EmptySet DEF Spent

(* One object more is copied: its words are spent, and they are words of the       *)
(* from-space.                                                                     *)
LEMMA SpentGrows ==
  ASSUME NEW B, NEW n \in Nat, Layout(B, n), NEW M \in SUBSET DOMAIN B,
         NEW o \in DOMAIN B, o \notin M
  PROVE  /\ Cardinality(Spent(B, M \cup {o})) = Cardinality(Spent(B, M)) + Words(B[o])
         /\ Cardinality(Spent(B, M \cup {o})) <= n
<1> DEFINE S == Spent(B, M)  T == Lo(B, o) + 1 .. Hi(B, o)
<1>1. S \subseteq 1 .. n /\ T \subseteq 1 .. n
  <2>1. \A p \in DOMAIN B : Lo(B, p) + 1 .. Hi(B, p) \subseteq 1 .. n
    BY BlockFacts
  <2> QED  BY <2>1 DEF Spent
<1>2. S \cap T = {}
  <2> SUFFICES ASSUME NEW x \in T, NEW p \in M, x \in Lo(B, p) + 1 .. Hi(B, p)
               PROVE  FALSE
    BY DEF Spent
  <2> QED  BY BlocksApart
<1>3. IsFiniteSet(1 .. n) /\ Cardinality(1 .. n) = n
  BY FS_Interval
<1>4. IsFiniteSet(S) /\ IsFiniteSet(T)
  BY <1>1, <1>3, FS_Subset
<1>5. Cardinality(T) = Words(B[o])
  <2>1. Lo(B, o) \in Nat /\ Hi(B, o) = Lo(B, o) + Words(B[o]) /\ Words(B[o]) \in Nat
    BY BlockFacts
  <2>2. \A a, b \in Int : Cardinality(a .. b) = IF a > b THEN 0 ELSE b - a + 1
    BY FS_Interval
  <2> QED  BY <2>1, <2>2
<1>6. Cardinality(S \cup T) = Cardinality(S) + Cardinality(T) - Cardinality(S \cap T)
  BY <1>4, FS_Union
<1>7. Cardinality(S \cap T) = 0
  BY <1>2, FS_EmptySet
<1>8. Spent(B, M \cup {o}) = S \cup T
  BY DEF Spent
<1>9. S \cup T \subseteq 1 .. n
  BY <1>1
<1>10. Cardinality(S \cup T) <= n
  BY <1>3, <1>9, FS_Subset
<1>11. Cardinality(S) \in Nat
  BY <1>4, FS_CardinalityType
<1>12. Words(B[o]) \in Nat
  BY BlockFacts
<1>13. Cardinality(S \cup T) = Cardinality(S) + Words(B[o])
  BY <1>5, <1>6, <1>7, <1>11, <1>12
<1> QED  BY <1>5, <1>6, <1>7, <1>8, <1>10, <1>13

-----------------------------------------------------------------------------------
(* The inductive invariant.                                                        *)

(* The block the constructor that waits will make its object in.                   *)
Wanted(m) ==
  CASE m.op = "BARRAY"  -> Header(ARRAY_TAG, m.n)
    [] m.op = "SEXP"    -> Header(SEXP_TAG, m.n)
    [] m.op = "CLOSURE" -> Header(CLOSURE_TAG, 2)
    [] OTHER            -> Header(STRING_TAG, m.n)

Waiting ==
  /\ making.op \in {"BARRAY", "SEXP", "CLOSURE", "STRING", "LSTRING"}
  /\ making.n \in Nat /\ making.captured \in Word
  /\ making.op \in {"BARRAY", "SEXP"} => making.n < Len(stack)
  /\ request = Words(Wanted(making))

(* Between two calls of alloc the from-space holds the objects B, and all words of *)
(* the program lead to them.                                                       *)
RootsPoint(B) ==
  /\ \A k \in DOMAIN stack : Points(stack[k], from.arena, B)
  /\ \A k \in DOMAIN extra : Points(extra[k], from.arena, B)

Settled(B) == Space(B, used, from.cells, from.arena, {}) /\ RootsPoint(B)

(* When alloc has returned, its block is behind them.                              *)
Granted(B) ==
  /\ Space(B, current, from.cells, from.arena, {}) /\ used = current + request
  /\ RootsPoint(B) /\ Points(making.captured, from.arena, B)

(* Activations of copy_elements: an object of B and its copy, an object of C, whose*)
(* components from the i-th on are still to come.                                  *)
Frame == [obj : Nat, len : Nat, i : Nat, copy : Nat]

FrameOK(B, C, f) ==
  /\ f.obj \in DOMAIN B /\ f.copy \in DOMAIN C /\ C[f.copy] = B[f.obj]
  /\ B[f.obj].a # STRING_TAG /\ f.len = B[f.obj].b /\ f.i <= f.len

FramesOK(B, C, fs) == \A k \in DOMAIN fs :
  FrameOK(B, C, fs[k]) /\ (k < Len(fs) => fs[k].i < fs[k].len)

Pending(fs) ==
  {x \in Nat : \E k \in DOMAIN fs : fs[k].copy + fs[k].i <= x /\ x < fs[k].copy + fs[k].len}

(* The header of an object is its own, or it leads to a copy of the object.        *)
Forwarding(B, C, cells) == \A o \in DOMAIN B :
  \/ cells[o - 1] = B[o]
  \/ \E c \in DOMAIN C : C[c] = B[o] /\ cells[o - 1] = Ptr(to.arena, c)

Moved(B, cells) == {o \in DOMAIN B : cells[o - 1].t = "ptr"}

(* The roots that have been scanned lead to copies, the others to the from-space.  *)
RootOK(B, C, w, r) ==
  IF r < root THEN Points(w, to.arena, C) ELSE Points(w, from.arena, B)

RootsOK(B, C) ==
  /\ \A k \in 1 .. Len(stack) - 1 : RootOK(B, C, stack[k], Len(stack) - k)
  /\ \A k \in DOMAIN extra : RootOK(B, C, extra[k], Len(stack) - 1 + k)

(* What the collector does not see is no pointer if the client is careful.         *)
Stale(w) == w.t = "ptr" => ~Careful /\ w.a < to.arena

(* While objects are moved, B are those of the from-space, whose words are old, and*)
(* C the copies, in the first n words of new: as many words as the objects they    *)
(* were made of take.  fs are the activations that have not returned.              *)
Copied(B, C, old, n, new, fs) ==
  /\ Layout(B, used) /\ Body(B, old, from.arena, {}) /\ Forwarding(B, C, old)
  /\ Space(C, n, new, to.arena, Pending(fs))
  /\ Cardinality(Spent(B, Moved(B, old))) = n /\ n <= used
  /\ FramesOK(B, C, fs) /\ RootsOK(B, C)
  /\ Stale(stack[Len(stack)]) /\ Stale(making.captured)

Copying(B, C) == Copied(B, C, from.cells, current, to.cells, frames)

IInv ==
  /\ TypeOK /\ NoInternalError /\ code \in Progs /\ frames \in Seq(Frame)
  /\ used < Len(from.cells) /\ from.arena <= arenas
  /\ pc = "idle" => \E B : Settled(B)
  /\ status = "run" /\ pc = "resume" => Waiting /\ \E B : Granted(B)
  /\ status = "run" /\ Moving(pc) =>
       /\ Waiting /\ \E B, C : Copying(B, C)
       /\ Len(to.cells) = space /\ from.arena < to.arena /\ to.arena <= arenas
       /\ pc = "room" => root > Roots

(* What the type invariant says of each variable, in the form the arithmetic       *)
(* needs.                                                                          *)
LEMMA Types ==
  ASSUME TypeOK
  PROVE  /\ from.arena \in Nat /\ from.cells \in Seq(Word) /\ Len(from.cells) \in Nat
         /\ to.arena \in Nat /\ to.cells \in Seq(Word) /\ Len(to.cells) \in Nat
         /\ from \in Pools /\ to \in Pools
         /\ used \in Nat /\ used <= Len(from.cells) /\ current \in Nat /\ arenas \in Nat
         /\ space \in Nat /\ request \in Nat /\ root \in Nat \ {0}
         /\ Len(stack) \in Nat \ {0} /\ stack \in Seq(Word) /\ extra \in Seq(Word)
         /\ Len(extra) \in Nat
  BY SpaceAssumption DEF TypeOK, Pools

LEMMA WordFacts ==
  /\ \A n \in Int : IntW(n) \in Word /\ IntW(n).t # "ptr" /\ Raw(n) \in Word /\ Raw(n).t = "raw"
  /\ \A a, b \in Int : Ptr(a, b) \in Word /\ Ptr(a, b).t = "ptr" /\ Ptr(a, b).a = a /\ Ptr(a, b).b = b
  /\ Zero \in Word /\ Zero.t = "zero"
  BY DEF IntW, Raw, Ptr, Zero, W, Word

LEMMA PtrFacts ==
  ASSUME NEW a \in Nat, NEW b \in Nat
  PROVE  Ptr(a, b) \in Word /\ Ptr(a, b).t = "ptr" /\ Ptr(a, b).a = a /\ Ptr(a, b).b = b
  BY DEF Ptr, W, Word

LEMMA AppendFacts ==
  ASSUME NEW s \in Seq(Word), NEW w \in Word
  PROVE  /\ Append(s, w) \in Seq(Word) /\ Append(s, w) # <<>> /\ Len(Append(s, w)) = Len(s) + 1
         /\ \A k \in DOMAIN Append(s, w) :
              (k \in DOMAIN s /\ Append(s, w)[k] = s[k]) \/ (k = Len(s) + 1 /\ Append(s, w)[k] = w)
  OBVIOUS

LEMMA PrefixFacts ==
  ASSUME NEW s \in Seq(Word), NEW m \in 0 .. Len(s)
  PROVE  /\ SubSeq(s, 1, m) \in Seq(Word) /\ Len(SubSeq(s, 1, m)) = m
         /\ m > 0 => SubSeq(s, 1, m) # <<>>
         /\ \A k \in DOMAIN SubSeq(s, 1, m) : SubSeq(s, 1, m)[k] = s[k] /\ k \in DOMAIN s
  OBVIOUS

LEMMA FunctionIsWords ==
  ASSUME NEW n \in Nat, NEW f \in [1 .. n -> Word]
  PROVE  f \in Seq(Word) /\ Len(f) = n
  OBVIOUS

LEMMA PutFacts ==
  ASSUME NEW s \in Seq(Word), NEW i, NEW w \in Word
  PROVE  /\ [s EXCEPT ![i] = w] \in Seq(Word) /\ Len([s EXCEPT ![i] = w]) = Len(s)
         /\ DOMAIN [s EXCEPT ![i] = w] = DOMAIN s
         /\ \A k \in DOMAIN s : [s EXCEPT ![i] = w][k] = IF k = i THEN w ELSE s[k]
<1>1. [s EXCEPT ![i] = w] \in Seq(Word) /\ Len([s EXCEPT ![i] = w]) = Len(s)
  <2>1. s \in [1 .. Len(s) -> Word] /\ Len(s) \in Nat
    OBVIOUS
  <2>2. [s EXCEPT ![i] = w] \in [1 .. Len(s) -> Word]
    BY <2>1
  <2> QED  BY <2>1, <2>2, FunctionIsWords
<1>2. DOMAIN [s EXCEPT ![i] = w] = DOMAIN s
  OBVIOUS
<1>3. \A k \in DOMAIN s : [s EXCEPT ![i] = w][k] = IF k = i THEN w ELSE s[k]
  OBVIOUS
<1> QED  BY <1>1, <1>2, <1>3

NoObjects == [x \in {} |-> Header(ARRAY_TAG, 0)]

LEMMA EmptySpace ==
  ASSUME NEW cells, NEW arena, NEW P
  PROVE  Space(NoObjects, 0, cells, arena, P) /\ DOMAIN NoObjects = {}
  BY DEF Space, Layout, InPlace, Body, NoObjects

LEMMA FreshCells ==
  ASSUME NEW n \in Nat
  PROVE  Zeros(n) \in Seq(Word) /\ Len(Zeros(n)) = n
  BY WordFacts DEF Zeros

(* The program starts with an empty heap and nothing that leads into it.            *)
LEMMA InitIsGood == Init => IInv
<1> SUFFICES ASSUME Init PROVE IInv
  OBVIOUS
<1> DEFINE B == NoObjects
<1>1. Zeros(InitialSpace) \in Seq(Word) /\ Len(Zeros(InitialSpace)) = InitialSpace
  BY SpaceAssumption, FreshCells
<1>2. TypeOK
  BY <1>1, SpaceAssumption, WordFacts DEF Init, InitHeap, TypeOK, NoPool, Pools
<1>3. Space(B, 0, from.cells, from.arena, {})
  BY EmptySpace
<1>4. Settled(B)
  BY <1>3, WordFacts DEF Settled, RootsPoint, Points, Init, InitHeap
<1>5. frames \in Seq(Frame) /\ used < Len(from.cells) /\ from.arena <= arenas /\ NoInternalError
      /\ pc = "idle" /\ code \in Progs
  BY <1>1, SpaceAssumption DEF Init, InitHeap, NoInternalError
<1> QED  BY <1>2, <1>4, <1>5 DEF IInv, Moving

-----------------------------------------------------------------------------------
(* Instructions that do not allocate.                                              *)
LEMMA TurnKeeps ==
  ASSUME IInv, NEW s \in Seq(Word), s # <<>>, Turn(s),
         \A B : Settled(B) => \A k \in DOMAIN s : Points(s[k], from.arena, B)
  PROVE  IInv'
<1>1. /\ pc = "idle" /\ status = "run" /\ stack' = s
      /\ UNCHANGED <<from, used, to, current, space, arenas, pc, root, frames, request, status,
                     extra, code, making>>
  BY DEF Turn, Idle, collector
<1>2. TypeOK'
  BY <1>1 DEF IInv, TypeOK
<1>3. PICK B : Settled(B)
  BY <1>1 DEF IInv
<1>4. Settled(B)'
  BY <1>1, <1>3 DEF Settled, RootsPoint
<1> QED  BY <1>1, <1>2, <1>4 DEF IInv, NoInternalError, Moving

(* A component the client reads or writes lies inside the object it names.         *)
LEMMA ReadsObject ==
  ASSUME IInv, NEW B, Settled(B), NEW w \in Word, Points(w, from.arena, B),
         NEW k \in Nat, Has(w, k)
  PROVE  /\ w.b \in DOMAIN B /\ B[w.b].a # STRING_TAG
         /\ w.b + k \in w.b .. Hi(B, w.b) /\ w.b + k \in 1 .. Len(from.cells)
         /\ Points(from.cells[w.b + k], from.arena, B)
<1>1. /\ w.t = "ptr" /\ w.a = from.arena /\ from.cells[w.b - 1].a \in {ARRAY_TAG, SEXP_TAG}
      /\ k < from.cells[w.b - 1].b
  BY DEF Has, IsValidHeapPointer
<1>2. w.b \in DOMAIN B
  BY <1>1, Types DEF Points, IInv
<1>3. /\ Layout(B, used) /\ from.cells[w.b - 1] = B[w.b]
      /\ Body(B, from.cells, from.arena, {})
  BY <1>2 DEF Settled, Space, InPlace
<1>4. /\ B[w.b] \in Heads /\ w.b \in Nat /\ Hi(B, w.b) <= used /\ Hi(B, w.b) \in Nat
      /\ Hi(B, w.b) = Lo(B, w.b) + Words(B[w.b])
      /\ Lo(B, w.b) = w.b - 1 - HeaderWords(B[w.b]) /\ HeaderWords(B[w.b]) \in {1, 2}
      /\ w.b >= 2
  BY <1>2, <1>3, Types, BlockFacts DEF IInv
<1>5. B[w.b].a # STRING_TAG /\ B[w.b].b \in Nat /\ Words(B[w.b]) = HeaderWords(B[w.b]) + B[w.b].b
  BY <1>1, <1>3, <1>4, HeadFacts DEF STRING_TAG, ARRAY_TAG, SEXP_TAG
<1>6. w.b + k \in w.b .. Hi(B, w.b)
  BY <1>1, <1>3, <1>4, <1>5
<1>7. w.b + k \in 1 .. Len(from.cells)
  <2>1. used \in Nat /\ used <= Len(from.cells) /\ Len(from.cells) \in Nat
    BY Types DEF IInv
  <2> QED  BY <1>4, <1>6, <2>1
<1> QED  BY <1>2, <1>3, <1>5, <1>6, <1>7 DEF Body

LEMMA ConstKeeps ==
  ASSUME IInv, Const
  PROVE  IInv'
<1> DEFINE s == Append(stack, IntW(0))
<1>0. stack \in Seq(Word) /\ IntW(0) \in Word /\ IntW(0).t # "ptr"
  BY Types, WordFacts DEF IInv
<1>1. s \in Seq(Word) /\ s # <<>> /\ \A k \in DOMAIN s :
        (k \in DOMAIN stack /\ s[k] = stack[k]) \/ s[k] = IntW(0)
  BY <1>0, AppendFacts
<1>2. ASSUME NEW B, Settled(B), NEW k \in DOMAIN s
      PROVE  Points(s[k], from.arena, B)
  <2>1. k \in DOMAIN stack => Points(stack[k], from.arena, B)
    BY <1>2 DEF Settled, RootsPoint
  <2> QED  BY <1>0, <1>1, <1>2, <2>1 DEF Points
<1> QED  BY <1>1, <1>2, TurnKeeps DEF Const

LEMMA BelowFacts ==
  ASSUME TypeOK, NEW n \in Nat, Takes(n)
  PROVE  /\ Below(n) \in Seq(Word) /\ Len(Below(n)) = Len(stack) - n /\ Below(n) # <<>>
         /\ \A k \in DOMAIN Below(n) : Below(n)[k] = stack[k] /\ k \in DOMAIN stack
         /\ \A k \in 0 .. n : Peek(k) \in Word /\ Len(stack) - k \in DOMAIN stack
         /\ Peek(0) = stack[Len(stack)] /\ Len(stack) \in DOMAIN stack /\ Peek(0) \in Word
         /\ n > 0 => /\ Peek(1) = stack[Len(stack) - 1] /\ Len(stack) - 1 \in DOMAIN stack
                     /\ Peek(1) \in Word
<1>1. stack \in Seq(Word) /\ Len(stack) \in Nat /\ Len(stack) - n >= 1
  BY Types DEF Takes, Depth
<1>2. Len(stack) - n \in 0 .. Len(stack) /\ Len(stack) - n > 0
  BY <1>1
<1>3. \A k \in 0 .. n : stack[Len(stack) - k] \in Word /\ Len(stack) - k \in DOMAIN stack
  BY <1>1
<1> QED  BY <1>1, <1>2, <1>3, PrefixFacts DEF Below, Depth, Peek

LEMMA DropKeeps ==
  ASSUME IInv, Drop
  PROVE  IInv'
<1>1. Takes(1) /\ Turn(Below(1)) /\ TypeOK
  BY DEF Drop, IInv
<1>2. /\ Below(1) \in Seq(Word) /\ Below(1) # <<>>
      /\ \A k \in DOMAIN Below(1) : Below(1)[k] = stack[k] /\ k \in DOMAIN stack
  BY <1>1, BelowFacts
<1>3. \A B : Settled(B) => \A k \in DOMAIN Below(1) : Points(Below(1)[k], from.arena, B)
  BY <1>2 DEF Settled, RootsPoint
<1> QED  BY <1>1, <1>2, <1>3, TurnKeeps

LEMMA LdKeeps ==
  ASSUME IInv, NEW i \in DOMAIN stack, Ld(i)
  PROVE  IInv'
<1> DEFINE s == Append(stack, stack[i])
<1>0. stack \in Seq(Word) /\ stack[i] \in Word
  BY Types DEF IInv
<1>1. s \in Seq(Word) /\ s # <<>> /\ \A k \in DOMAIN s :
        (k \in DOMAIN stack /\ s[k] = stack[k]) \/ s[k] = stack[i]
  BY <1>0, AppendFacts
<1>2. \A k \in DOMAIN s : \E j \in DOMAIN stack : s[k] = stack[j]
  BY <1>1
<1>3. \A B : Settled(B) => \A k \in DOMAIN s : Points(s[k], from.arena, B)
  BY <1>2 DEF Settled, RootsPoint
<1> QED  BY <1>1, <1>3, TurnKeeps DEF Ld

LEMMA StKeeps ==
  ASSUME IInv, NEW i \in Nat, St(i)
  PROVE  IInv'
<1> DEFINE s == [stack EXCEPT ![i] = Peek(0)]
<1>1. stack \in Seq(Word) /\ Len(stack) \in Nat \ {0} /\ Peek(0) = stack[Len(stack)]
  BY Types DEF IInv, Peek, Depth
<1>2. /\ s \in Seq(Word) /\ Len(s) = Len(stack) /\ DOMAIN s = DOMAIN stack
      /\ \A k \in DOMAIN s : s[k] = IF k = i THEN Peek(0) ELSE stack[k]
  <2>1. Peek(0) \in Word
    BY <1>1
  <2> QED  BY <1>1, <2>1, PutFacts
<1>3. s # <<>>
  BY <1>1, <1>2
<1>4. \A k \in DOMAIN s : \E j \in DOMAIN stack : s[k] = stack[j]
  BY <1>1, <1>2
<1>5. \A B : Settled(B) => \A k \in DOMAIN s : Points(s[k], from.arena, B)
  BY <1>4 DEF Settled, RootsPoint
<1> QED  BY <1>2, <1>3, <1>5, TurnKeeps DEF St

LEMMA ElemKeeps ==
  ASSUME IInv, NEW k \in Nat, Elem(k)
  PROVE  IInv'
<1> DEFINE w == from.cells[Peek(0).b + k]  s == Append(Below(1), w)
<1>1. /\ Has(Peek(0), k) /\ Takes(1) /\ Turn(s) /\ TypeOK /\ from.cells \in Seq(Word)
      /\ pc = "idle"
  BY Types DEF Elem, IInv, Turn, Idle
<1>2. /\ Below(1) \in Seq(Word) /\ Peek(0) \in Word /\ Len(stack) \in DOMAIN stack
      /\ Peek(0) = stack[Len(stack)]
      /\ \A j \in DOMAIN Below(1) : Below(1)[j] = stack[j] /\ j \in DOMAIN stack
  BY <1>1, BelowFacts
<1>3. \A B : Settled(B) => /\ \A j \in DOMAIN stack : Points(stack[j], from.arena, B)
                          /\ Points(w, from.arena, B) /\ w \in Word
  <2> SUFFICES ASSUME NEW B, Settled(B)
               PROVE  /\ \A j \in DOMAIN stack : Points(stack[j], from.arena, B)
                      /\ Points(w, from.arena, B) /\ w \in Word
    OBVIOUS
  <2>1. \A j \in DOMAIN stack : Points(stack[j], from.arena, B)
    BY DEF Settled, RootsPoint
  <2>2. Points(w, from.arena, B) /\ Peek(0).b + k \in 1 .. Len(from.cells)
    BY <1>1, <1>2, <2>1, ReadsObject
  <2> QED  BY <1>1, <2>1, <2>2
<1>4. w \in Word
  BY <1>1, <1>3 DEF IInv
<1>5. s \in Seq(Word) /\ s # <<>> /\ \A j \in DOMAIN s :
        (j \in DOMAIN stack /\ s[j] = stack[j]) \/ s[j] = w
  BY <1>2, <1>4, AppendFacts
<1>6. \A B : Settled(B) => \A j \in DOMAIN s : Points(s[j], from.arena, B)
  BY <1>3, <1>5
<1> QED  BY <1>1, <1>5, <1>6, TurnKeeps

LEMMA StaKeeps ==
  ASSUME IInv, NEW k \in Nat, Sta(k)
  PROVE  IInv'
<1> DEFINE x == Peek(1).b + k  w == Peek(0)  s == Append(Below(2), w)
           now == [from.cells EXCEPT ![x] = w]
<1>1. /\ Has(Peek(1), k) /\ Takes(2) /\ TypeOK /\ pc = "idle" /\ status = "run"
      /\ from' = [from EXCEPT !.cells = now] /\ stack' = s
      /\ UNCHANGED <<used, to, current, space, arenas, pc, root, frames, request, status,
                     extra, code, making>>
  BY DEF Sta, Idle, collector, IInv
<1>2. PICK B : Settled(B)
  BY <1>1 DEF IInv
<1>3. /\ Below(2) \in Seq(Word) /\ w \in Word /\ Peek(1) \in Word
      /\ w = stack[Len(stack)] /\ Len(stack) \in DOMAIN stack
      /\ Peek(1) = stack[Len(stack) - 1] /\ Len(stack) - 1 \in DOMAIN stack
      /\ \A j \in DOMAIN Below(2) : Below(2)[j] = stack[j] /\ j \in DOMAIN stack
  BY <1>1, BelowFacts
<1>4. \A j \in DOMAIN stack : Points(stack[j], from.arena, B)
  BY <1>2 DEF Settled, RootsPoint
<1>5. Points(w, from.arena, B) /\ Points(Peek(1), from.arena, B)
  BY <1>3, <1>4
<1>6. /\ Peek(1).b \in DOMAIN B /\ B[Peek(1).b].a # STRING_TAG
      /\ x \in Peek(1).b .. Hi(B, Peek(1).b) /\ x \in 1 .. Len(from.cells)
  BY <1>1, <1>2, <1>3, <1>5, ReadsObject
<1>7. /\ Layout(B, used) /\ InPlace(B, from.cells) /\ Body(B, from.cells, from.arena, {})
      /\ from.cells \in Seq(Word) /\ used \in Nat /\ used <= Len(from.cells) /\ from \in Pools
  BY <1>1, <1>2, Types DEF Settled, Space
<1>8. /\ now \in Seq(Word) /\ Len(now) = Len(from.cells) /\ Body(B, now, from.arena, {})
      /\ \A p \in DOMAIN B : now[p - 1] = from.cells[p - 1]
  <2> DEFINE o == Peek(1).b
  <2> HIDE DEF x, w, o, now
  <2>1. o \in DOMAIN B /\ B[o].a # STRING_TAG /\ x \in o .. Hi(B, o)
    BY <1>6 DEF o
  <2>2. w \in Word /\ Points(w, from.arena, B) /\ {} \subseteq {} \cup {x}
    BY <1>3, <1>5
  <2>3. now = [from.cells EXCEPT ![x] = w]
    BY DEF now
  <2>4. Stored(B, from.cells, from.arena, {}, now)
    BY <1>7, <2>1, <2>2, <2>3, StoreKeeps
  <2> QED  BY <2>4 DEF Stored
<1>9. /\ s \in Seq(Word) /\ s # <<>> /\ \A j \in DOMAIN s :
        (j \in DOMAIN stack /\ s[j] = stack[j]) \/ s[j] = w
  BY <1>3, AppendFacts
<1>10. from' \in Pools /\ from'.cells = now /\ from'.arena = from.arena
  <2>1. from = [arena |-> from.arena, cells |-> from.cells] /\ from.arena \in 0 .. MaxArenas
    BY <1>7 DEF Pools
  <2> QED  BY <1>1, <1>8, <2>1 DEF Pools
<1> HIDE DEF now, s, w
<1>11. Settled(B)'
  <2>1. InPlace(B, now)
    BY <1>7, <1>8 DEF InPlace
  <2>2. \A j \in DOMAIN s : Points(s[j], from.arena, B)
    BY <1>4, <1>5, <1>9
  <2>3. \A j \in DOMAIN extra : Points(extra[j], from.arena, B)
    BY <1>2 DEF Settled, RootsPoint
  <2> QED  BY <1>1, <1>7, <1>8, <1>10, <2>1, <2>2, <2>3 DEF Settled, Space, RootsPoint
<1>12. TypeOK'
  BY <1>1, <1>8, <1>9, <1>10 DEF TypeOK
<1> QED  BY <1>1, <1>8, <1>10, <1>11, <1>12 DEF IInv, NoInternalError, Moving

-----------------------------------------------------------------------------------
(* alloc.                                                                          *)

(* A constructor asks for n words, with operands s on the stack and x off it.      *)
Asking(n, s, x) ==
  /\ s \in Seq(Word) /\ s # <<>> /\ x \in Seq(Word) /\ n \in Nat
  /\ making'.op \in {"BARRAY", "SEXP", "CLOSURE", "STRING", "LSTRING"}
  /\ making'.n \in Nat /\ making'.captured \in Word
  /\ making'.op \in {"BARRAY", "SEXP"} => making'.n < Len(s)
  /\ n = Words(Wanted(making')) /\ code' = code
  /\ Seen(making'.captured) /\ Seen(s[Len(s)])
  /\ \A B : Settled(B) =>
       /\ \A k \in DOMAIN s : Points(s[k], from.arena, B)
       /\ \A k \in DOMAIN x : Points(x[k], from.arena, B)
       /\ Points(making'.captured, from.arena, B)

(* alloc with room left: the words behind those in use are granted.                *)
LEMMA GrantKeeps ==
  ASSUME IInv, NEW n, NEW s, NEW x, Asking(n, s, x), stack' = s, extra' = x,
         pc = "idle", status = "run", Fits(n),
         current' = used, used' = used + n, pc' = "resume", request' = n,
         UNCHANGED <<from, to, space, arenas, root, frames, status>>
  PROVE  IInv'
<1>1. PICK B : Settled(B)
  BY DEF IInv
<1>2. n \in Nat /\ used \in Nat /\ Len(from.cells) \in Nat /\ used + n < Len(from.cells)
  BY Types DEF IInv, Asking, Fits
<1>3. TypeOK'
  BY <1>2 DEF TypeOK, IInv, Asking
<1>4. Granted(B)'
  BY <1>1 DEF Granted, Settled, RootsPoint, Asking
<1>5. Waiting'
  BY DEF Waiting, Asking
<1> QED  BY <1>2, <1>3, <1>4, <1>5 DEF IInv, NoInternalError, Moving, Asking

(* A pointer kept where the collector does not look leads to an earlier space.     *)
LEMMA StaleWord ==
  ASSUME NEW w \in Word, NEW a \in Nat, NEW b \in Nat, NEW c \in Nat, a <= b, b < c,
         NEW B, Seen(w), Points(w, a, B)
  PROVE  w.t = "ptr" => ~Careful /\ w.a < c
  BY DEF Seen, Points, Word

(* alloc without room: a to-space is mapped and the collection begins.             *)
LEMMA StartKeeps ==
  ASSUME IInv, NEW n, NEW s, NEW x, Asking(n, s, x), stack' = s, extra' = x,
         pc = "idle", status = "run", CanMap(space),
         to' = Fresh(space), arenas' = arenas + 1, request' = n, Begin,
         UNCHANGED <<from, used, space, status>>
  PROVE  IInv'
<1>1. PICK B : Settled(B)
  BY DEF IInv
<1>2. /\ n \in Nat /\ used \in Nat /\ Len(from.cells) \in Nat /\ space \in Nat /\ arenas \in Nat
      /\ from.arena \in Nat /\ arenas < MaxArenas /\ from.arena <= arenas /\ TypeOK
  BY Types DEF IInv, Asking, CanMap
<1>3. /\ to'.arena = arenas + 1 /\ to'.cells = Zeros(space) /\ Zeros(space) \in Seq(Word)
      /\ Len(to'.cells) = space
  BY <1>2, FreshCells DEF Fresh
<1>4. current' = 0 /\ pc' = "roots" /\ root' = 1 /\ frames' = <<>>
  BY DEF Begin
<1>5. to' \in Pools
  BY <1>2, <1>3, SpaceAssumption DEF Pools, Fresh
<1>6. TypeOK'
  BY <1>2, <1>3, <1>4, <1>5, SpaceAssumption DEF TypeOK, Asking
<1>7. /\ Layout(B, used) /\ InPlace(B, from.cells) /\ Body(B, from.cells, from.arena, {})
  BY <1>1 DEF Settled, Space
<1>8. Forwarding(B, NoObjects, from.cells)'
  BY <1>7 DEF Forwarding, InPlace
<1>9. Cardinality(Spent(B, Moved(B, from.cells))) = 0
  <2>1. \A o \in DOMAIN B : B[o] \in Heads
    BY <1>7 DEF Layout
  <2>2. Moved(B, from.cells) = {}
    BY <1>7, <2>1, HeadFacts DEF Moved, InPlace
  <2> QED  BY <2>2, NothingSpent
<1>10. /\ \A k \in DOMAIN s : Points(s[k], from.arena, B)
       /\ \A k \in DOMAIN x : Points(x[k], from.arena, B)
       /\ Points(making'.captured, from.arena, B) /\ making'.captured \in Word
       /\ Seen(making'.captured) /\ Seen(s[Len(s)]) /\ s \in Seq(Word) /\ s # <<>>
       /\ x \in Seq(Word)
  BY <1>1 DEF Asking
<1>11. RootsOK(B, NoObjects)'
  <2>1. \A k \in 1 .. Len(s) - 1 : k \in DOMAIN s /\ ~(Len(s) - k < 1)
    BY <1>10
  <2>2. \A k \in DOMAIN x : ~(Len(s) - 1 + k < 1)
    BY <1>10
  <2> QED  BY <1>4, <1>10, <2>1, <2>2 DEF RootsOK, RootOK
<1>12. Stale(making.captured)' /\ Stale(stack[Len(stack)])'
  <2>1. Len(s) \in DOMAIN s /\ s[Len(s)] \in Word
    BY <1>10
  <2>2. Points(s[Len(s)], from.arena, B)
    BY <1>10, <2>1
  <2>3. arenas + 1 \in Nat /\ arenas < arenas + 1
    BY <1>2
  <2>4. s[Len(s)].t = "ptr" => ~Careful /\ s[Len(s)].a < arenas + 1
    BY <1>2, <1>10, <2>1, <2>2, <2>3, StaleWord
  <2>5. making'.captured.t = "ptr" => ~Careful /\ making'.captured.a < arenas + 1
    BY <1>2, <1>10, <2>3, StaleWord
  <2> QED  BY <1>3, <2>4, <2>5 DEF Stale
<1>13. Copying(B, NoObjects)'
  <2>1. Space(NoObjects, 0, to'.cells, to'.arena, Pending(frames'))
    BY EmptySpace
  <2>2. FramesOK(B, NoObjects, <<>>)
    BY DEF FramesOK
  <2> QED  BY <1>2, <1>4, <1>7, <1>8, <1>9, <1>11, <1>12, <2>1, <2>2 DEF Copying, Copied
<1>14. Waiting'
  BY DEF Waiting, Asking
<1>15. code' \in Progs /\ used < Len(from.cells) /\ frames' \in Seq(Frame) /\ NoInternalError'
  BY <1>4 DEF IInv, NoInternalError, Asking
<1> QED  BY <1>2, <1>3, <1>4, <1>6, <1>13, <1>14, <1>15 DEF IInv, Moving

(* A constructor's call of alloc, whichever of its ways it takes.                  *)
LEMMA AskKeeps ==
  ASSUME IInv, NEW b, NEW s, NEW x, Asking((b - 1) \div 4 + 1, s, x), Request(b, s, x)
  PROVE  IInv'
<1> DEFINE n == (b - 1) \div 4 + 1
<1>1. stack' = s /\ extra' = x /\ alloc(n) /\ Asking(n, s, x)
  BY DEF Request
<1> HIDE DEF n
<1>2. pc = "idle" /\ status = "run"
  BY <1>1 DEF alloc
<1>3. CASE Fits(n) /\ current' = used /\ used' = used + n /\ pc' = "resume" /\ request' = n
           /\ UNCHANGED <<from, to, space, arenas, root, frames, status>>
  BY <1>1, <1>2, <1>3, GrantKeeps
<1>4. CASE CanMap(space) /\ to' = Fresh(space) /\ arenas' = arenas + 1 /\ request' = n
           /\ Begin /\ UNCHANGED <<from, used, space, status>>
  BY <1>1, <1>2, <1>4, StartKeeps
<1>5. CASE Die("mmap failed")
  <2>1. /\ status' = "mmap failed"
        /\ UNCHANGED <<from, used, to, current, space, arenas, pc, root, frames, request>>
    BY <1>5 DEF Die, pools
  <2>2. PICK B : Settled(B)
    BY <1>2 DEF IInv
  <2>3. Settled(B)'
    BY <1>1, <2>1, <2>2 DEF Settled, RootsPoint, Asking
  <2>4. TypeOK'
    BY <1>1, <2>1 DEF TypeOK, IInv, Asking
  <2> QED  BY <1>1, <1>2, <2>1, <2>3, <2>4 DEF IInv, NoInternalError, Moving, Asking
<1> QED  BY <1>1, <1>3, <1>4, <1>5 DEF alloc

LEMMA JoinFacts ==
  ASSUME NEW a \in Seq(Word), NEW b \in Seq(Word)
  PROVE  /\ a \o b \in Seq(Word) /\ Len(a \o b) = Len(a) + Len(b)
         /\ \A k \in DOMAIN (a \o b) :
              \/ k \in DOMAIN a /\ (a \o b)[k] = a[k]
              \/ \E j \in DOMAIN b : (a \o b)[k] = b[j]
<1>1. /\ a \o b \in Seq(Word) /\ Len(a \o b) = Len(a) + Len(b)
  OBVIOUS
<1>2. ASSUME NEW k \in DOMAIN (a \o b), k \notin DOMAIN a
      PROVE  k - Len(a) \in DOMAIN b /\ (a \o b)[k] = b[k - Len(a)]
  BY <1>1, <1>2
<1>3. ASSUME NEW k \in DOMAIN (a \o b), k \in DOMAIN a
      PROVE  (a \o b)[k] = a[k]
  BY <1>1, <1>3
<1> QED  BY <1>1, <1>2, <1>3

(* stack::reverse keeps the length of the stack and adds no word to it.            *)
LEMMA ReversedFacts ==
  ASSUME NEW s \in Seq(Word), NEW n \in Nat, n < Len(s)
  PROVE  /\ Reversed(s, n) \in Seq(Word) /\ Len(Reversed(s, n)) = Len(s) /\ Reversed(s, n) # <<>>
         /\ \A k \in DOMAIN Reversed(s, n) : \E j \in DOMAIN s : Reversed(s, n)[k] = s[j]
<1>1. PICK m \in 1 .. Len(s) : m = Len(s) - n
  <2>1. Len(s) - n \in 1 .. Len(s)
    OBVIOUS
  <2> QED  BY <2>1
<1> DEFINE a == SubSeq(s, 1, m)  b == SubSeq(s, m + 1, Len(s))  r == Reverse(b)
<1>2. a \in Seq(Word) /\ Len(a) = m /\ \A k \in DOMAIN a : k \in DOMAIN s /\ a[k] = s[k]
  OBVIOUS
<1>3. b \in Seq(Word) /\ Len(b) = n /\ \A k \in DOMAIN b : m + k \in DOMAIN s /\ b[k] = s[m + k]
  BY <1>1
<1>4. r \in Seq(Word) /\ Len(r) = n /\ \A k \in DOMAIN r : \E j \in DOMAIN s : r[k] = s[j]
  <2>1. r = [k \in 1 .. n |-> b[n - k + 1]]
    BY <1>3 DEF Reverse
  <2>2. \A k \in 1 .. n : n - k + 1 \in DOMAIN b
    BY <1>3
  <2> HIDE DEF b, r
  <2>3. \A k \in 1 .. n : r[k] \in Word /\ \E j \in DOMAIN s : r[k] = s[j]
    <3> SUFFICES ASSUME NEW k \in 1 .. n
                 PROVE  r[k] \in Word /\ \E j \in DOMAIN s : r[k] = s[j]
      OBVIOUS
    <3>1. PICK x : x = n - k + 1
      OBVIOUS
    <3>2. x \in DOMAIN b /\ r[k] = b[x]
      BY <2>1, <2>2, <3>1
    <3>3. m + x \in DOMAIN s /\ b[x] = s[m + x]
      BY <1>3, <3>2
    <3> QED  BY <3>2, <3>3
  <2>4. n \in Nat /\ DOMAIN r = 1 .. n
    BY <2>1
  <2>5. r \in [1 .. n -> Word]
    <3> HIDE DEF r
    <3> QED  BY <2>1, <2>3
  <2>6. r \in Seq(Word) /\ Len(r) = n
    BY <2>4, <2>5, FunctionIsWords
  <2> QED  BY <2>3, <2>4, <2>6
<1>5. Reversed(s, n) = a \o r
  BY <1>1 DEF Reversed
<1> HIDE DEF a, b, r
<1>6. /\ a \o r \in Seq(Word) /\ Len(a \o r) = Len(s) /\ a \o r # <<>>
      /\ \A k \in DOMAIN (a \o r) : \E j \in DOMAIN s : (a \o r)[k] = s[j]
  <2>1. /\ a \o r \in Seq(Word) /\ Len(a \o r) = Len(a) + Len(r)
        /\ \A k \in DOMAIN (a \o r) :
             \/ k \in DOMAIN a /\ (a \o r)[k] = a[k]
             \/ \E j \in DOMAIN r : (a \o r)[k] = r[j]
    BY <1>2, <1>4, JoinFacts
  <2>2. Len(a \o r) = Len(s) /\ a \o r # <<>>
    BY <1>1, <1>2, <1>4, <2>1
  <2>3. ASSUME NEW k \in DOMAIN (a \o r)
        PROVE  \E j \in DOMAIN s : (a \o r)[k] = s[j]
    <3>1. CASE k \in DOMAIN a /\ (a \o r)[k] = a[k]
      BY <1>2, <3>1
    <3>2. CASE \E j \in DOMAIN r : (a \o r)[k] = r[j]
      BY <1>4, <3>2
    <3> QED  BY <2>1, <3>1, <3>2
  <2> QED  BY <2>1, <2>2, <2>3
<1> QED  BY <1>5, <1>6

(* The words a constructor asks for, from its bytes.                               *)
LEMMA BytesOfWords ==
  ASSUME NEW n \in Nat
  PROVE  /\ (4 * (n + 1) - 1) \div 4 + 1 = Words(Header(ARRAY_TAG, n))
         /\ (4 * (n + 2) - 1) \div 4 + 1 = Words(Header(SEXP_TAG, n))
         /\ (n + 1 + 4 - 1) \div 4 + 1 = Words(Header(STRING_TAG, n))
         /\ (4 * 3 - 1) \div 4 + 1 = Words(Header(CLOSURE_TAG, 2))
<1>1. /\ (4 * (n + 1) - 1) \div 4 + 1 = n + 1
      /\ (4 * (n + 2) - 1) \div 4 + 1 = n + 2
      /\ (n + 1 + 4 - 1) \div 4 + 1 = (n + 4) \div 4 + 1
      /\ (4 * 3 - 1) \div 4 + 1 = 3
  OBVIOUS
<1> QED  BY <1>1 DEF Words, Header, W, STRING_TAG, ARRAY_TAG, SEXP_TAG, CLOSURE_TAG

LEMMA SizeIsNat ==
  ASSUME NEW t \in Tags, NEW n \in Nat
  PROVE  Words(Header(t, n)) \in Nat
  BY HeaderIsHead, HeadFacts

(* Barray_arr and Bsexp_arr ask for the words of their header and their            *)
(* operands.                                                                       *)
LEMMA OfOperands ==
  ASSUME IInv, NEW n \in Nat, Takes(n), NEW op \in {"BARRAY", "SEXP"}, Make(op, n, Zero),
         NEW b, (b - 1) \div 4 + 1 = Words(Wanted([op |-> op, n |-> n])),
         Request(b, Reversed(stack, n), extra)
  PROVE  IInv'
<1> DEFINE s == Reversed(stack, n)
<1>1. n < Len(stack) /\ stack \in Seq(Word) /\ extra \in Seq(Word)
  BY Types DEF Takes, Depth, IInv
<1>2. /\ s \in Seq(Word) /\ Len(s) = Len(stack) /\ s # <<>>
      /\ \A k \in DOMAIN s : \E j \in DOMAIN stack : s[k] = stack[j]
  BY <1>1, ReversedFacts
<1>3. /\ making' = [op |-> op, n |-> n, captured |-> Zero] /\ code' = code
      /\ Seen(s[Len(s)])
  BY DEF Make, Request, Last
<1>4. Zero \in Word /\ Zero.t # "ptr"
  BY WordFacts
<1>5. (b - 1) \div 4 + 1 = Words(Wanted(making')) /\ (b - 1) \div 4 + 1 \in Nat
  <2>1. Wanted(making') = Wanted([op |-> op, n |-> n])
    BY <1>3 DEF Wanted
  <2>2. Wanted([op |-> op, n |-> n]) \in Heads
    BY HeaderIsHead DEF Wanted, Tags
  <2> QED  BY <2>1, <2>2, HeadFacts
<1> HIDE DEF s
<1>6. ASSUME NEW B, Settled(B)
      PROVE  /\ \A k \in DOMAIN s : Points(s[k], from.arena, B)
             /\ \A k \in DOMAIN extra : Points(extra[k], from.arena, B)
             /\ Points(making'.captured, from.arena, B)
  BY <1>2, <1>3, <1>4, <1>6 DEF Settled, RootsPoint, Points
<1>7. Asking((b - 1) \div 4 + 1, s, extra)
  BY <1>1, <1>2, <1>3, <1>4, <1>5, <1>6 DEF Asking, Seen
<1> QED  BY <1>7, AskKeeps DEF s

LEMMA NewArrayKeeps ==
  ASSUME IInv, NEW n \in Nat, NewArray(n)
  PROVE  IInv'
<1>1. Wanted([op |-> "BARRAY", n |-> n]) = Header(ARRAY_TAG, n)
  BY DEF Wanted
<1> QED  BY <1>1, BytesOfWords, OfOperands DEF NewArray

LEMMA NewSexpKeeps ==
  ASSUME IInv, NEW n \in Nat, NewSexp(n)
  PROVE  IInv'
<1>1. Wanted([op |-> "SEXP", n |-> n]) = Header(SEXP_TAG, n)
  BY DEF Wanted
<1> QED  BY <1>1, BytesOfWords, OfOperands DEF NewSexp

LEMMA NewStringKeeps ==
  ASSUME IInv, NEW n \in Nat, NewString(n)
  PROVE  IInv'
<1> DEFINE k == (n + 1 + 4 - 1) \div 4 + 1
<1>1. stack \in Seq(Word) /\ stack # <<>> /\ extra \in Seq(Word)
  BY Types DEF IInv
<1>2. /\ making' = [op |-> "STRING", n |-> n, captured |-> Zero] /\ code' = code
      /\ Seen(stack[Len(stack)]) /\ Request(n + 1 + 4, stack, extra)
  BY DEF NewString, Make, Request, Last
<1>3. Zero \in Word /\ Zero.t # "ptr"
  BY WordFacts
<1>4. k = Words(Wanted(making')) /\ k \in Nat
  <2>1. Wanted(making') = Header(STRING_TAG, n)
    BY <1>2 DEF Wanted
  <2> QED  BY <2>1, BytesOfWords, SizeIsNat DEF Tags
<1> HIDE DEF k
<1>5. Asking(k, stack, extra)
  BY <1>1, <1>2, <1>3, <1>4 DEF Asking, Seen, Settled, RootsPoint, Points
<1> QED  BY <1>2, <1>5, AskKeeps DEF k

LEMMA NewClosureKeeps ==
  ASSUME IInv, NEW i \in DOMAIN stack, NewClosure(i)
  PROVE  IInv'
<1> DEFINE k == (4 * 3 - 1) \div 4 + 1
<1>1. stack \in Seq(Word) /\ stack # <<>> /\ extra \in Seq(Word) /\ stack[i] \in Word /\ i \in Nat
  BY Types DEF IInv
<1>2. /\ making' = [op |-> "CLOSURE", n |-> i, captured |-> stack[i]] /\ code' = code
      /\ Seen(stack[Len(stack)]) /\ Seen(stack[i]) /\ Request(4 * 3, stack, extra)
  BY DEF NewClosure, Make, Request, Last
<1>4. k = Words(Wanted(making')) /\ k \in Nat
  <2>1. Wanted(making') = Header(CLOSURE_TAG, 2)
    BY <1>2 DEF Wanted
  <2> QED  BY <2>1, BytesOfWords, SizeIsNat DEF Tags
<1> HIDE DEF k
<1>5. Asking(k, stack, extra)
  BY <1>1, <1>2, <1>4 DEF Asking, Settled, RootsPoint
<1> QED  BY <1>2, <1>5, AskKeeps DEF k

LEMMA ShowKeeps ==
  ASSUME IInv, NEW n \in Nat, Show(n)
  PROVE  IInv'
<1> DEFINE k == (n + 1 + 4 - 1) \div 4 + 1  s == Below(1)  x == Append(extra, Peek(0))
<1>1. /\ making' = [op |-> "LSTRING", n |-> n, captured |-> Zero] /\ code' = code
      /\ Seen(s[Len(s)]) /\ Request(n + 1 + 4, s, x) /\ Takes(1) /\ TypeOK
  BY DEF Show, Make, Request, Last, IInv
<1>2. /\ s \in Seq(Word) /\ s # <<>>
      /\ \A j \in DOMAIN s : s[j] = stack[j] /\ j \in DOMAIN stack
      /\ Peek(0) = stack[Len(stack)] /\ Len(stack) \in DOMAIN stack /\ Peek(0) \in Word
  BY <1>1, BelowFacts
<1>3. /\ x \in Seq(Word)
      /\ \A j \in DOMAIN x : (j \in DOMAIN extra /\ x[j] = extra[j]) \/ x[j] = stack[Len(stack)]
  BY <1>1, <1>2, Types, AppendFacts
<1>4. k = Words(Wanted(making')) /\ k \in Nat
  <2>1. Wanted(making') = Header(STRING_TAG, n)
    BY <1>1 DEF Wanted
  <2> QED  BY <2>1, BytesOfWords, SizeIsNat DEF Tags
<1>5. Zero \in Word /\ Zero.t # "ptr"
  BY WordFacts
<1> HIDE DEF k, s, x
<1>6. ASSUME NEW B, Settled(B)
      PROVE  /\ \A j \in DOMAIN s : Points(s[j], from.arena, B)
             /\ \A j \in DOMAIN x : Points(x[j], from.arena, B)
             /\ Points(making'.captured, from.arena, B)
  <2>1. /\ \A j \in DOMAIN stack : Points(stack[j], from.arena, B)
        /\ \A j \in DOMAIN extra : Points(extra[j], from.arena, B)
    BY <1>6 DEF Settled, RootsPoint
  <2>2. Points(making'.captured, from.arena, B)
    BY <1>1, <1>5 DEF Points
  <2> QED  BY <1>2, <1>3, <2>1, <2>2
<1>7. Asking(k, s, x)
  BY <1>1, <1>2, <1>3, <1>4, <1>5, <1>6 DEF Asking, Seen
<1> QED  BY <1>1, <1>7, AskKeeps DEF k

-----------------------------------------------------------------------------------
(* alloc has returned.                                                             *)
LEMMA FilledFacts ==
  ASSUME TypeOK, NEW h \in Heads, NEW ws \in Seq(Word), Len(ws) = Words(h) - HeaderWords(h),
         current + Words(h) <= Len(from.cells), NEW now, now = Filled(h, Raw(0), ws)
  PROVE  /\ now \in Seq(Word) /\ Len(now) = Len(from.cells)
         /\ \A x \in 1 .. current : now[x] = from.cells[x]
         /\ now[current + HeaderWords(h)] = h
         /\ h.a = SEXP_TAG => now[current + 1] = Raw(0)
         /\ \A x \in First(current, h) .. current + Words(h) :
              x - First(current, h) + 1 \in DOMAIN ws /\ now[x] = ws[x - First(current, h) + 1]
<1> DEFINE top == IF h.a = SEXP_TAG THEN <<Raw(0), h>> ELSE <<h>>  block == top \o ws
           k == HeaderWords(h)
<1>1. /\ current \in Nat /\ from.cells \in Seq(Word) /\ Len(from.cells) \in Nat
      /\ Words(h) \in Nat /\ k \in {1, 2} /\ Words(h) >= k /\ (h.a = SEXP_TAG <=> k = 2)
      /\ h \in Word /\ Raw(0) \in Word
  BY Types, HeadFacts, WordFacts
<1>2. /\ top \in Seq(Word) /\ Len(top) = k /\ top[k] = h
      /\ h.a = SEXP_TAG => top[1] = Raw(0)
  <2>1. CASE h.a = SEXP_TAG
    BY <1>1, <2>1
  <2>2. CASE h.a # SEXP_TAG
    BY <1>1, <2>2
  <2> QED  BY <2>1, <2>2
<1> HIDE DEF top, k
<1>3. /\ block \in Seq(Word) /\ Len(block) = Words(h)
      /\ \A x \in 1 .. k : block[x] = top[x]
      /\ \A x \in 1 .. Len(ws) : block[k + x] = ws[x]
  <2>1. top \o ws \in Seq(Word) /\ Len(top \o ws) = Len(top) + Len(ws)
    BY <1>2
  <2>2. k + Len(ws) = Words(h)
    BY <1>1 DEF k
  <2>3. \A x \in 1 .. Len(top) : (top \o ws)[x] = top[x]
    BY <1>2
  <2>4. \A x \in 1 .. Len(ws) : (top \o ws)[Len(top) + x] = ws[x]
    BY <1>2
  <2> QED  BY <1>2, <2>1, <2>2, <2>3, <2>4
<1>4. now = [x \in DOMAIN from.cells |->
               IF x \in current + 1 .. current + Words(h) THEN block[x - current] ELSE from.cells[x]]
  <2>1. now = [x \in DOMAIN from.cells |->
                 IF x \in current + 1 .. current + Len(block) THEN block[x - current] ELSE from.cells[x]]
    BY DEF Filled, top
  <2> HIDE DEF block
  <2> QED  BY <1>3, <2>1
<1> HIDE DEF block
<1>5. PICK cells \in Seq(Word) : cells = from.cells
  BY <1>1
<1>6. DOMAIN cells = 1 .. Len(cells) /\ Len(cells) \in Nat /\ current + Words(h) <= Len(cells)
  BY <1>5
<1>7. \A x \in current + 1 .. current + Words(h) : x \in DOMAIN cells /\ x - current \in DOMAIN block
  BY <1>1, <1>3, <1>6
<1>8. /\ DOMAIN now = 1 .. Len(cells)
      /\ \A x \in DOMAIN cells : now[x] =
           IF x \in current + 1 .. current + Words(h) THEN block[x - current] ELSE cells[x]
  BY <1>4, <1>5, <1>6
<1>9. \A x \in current + 1 .. current + Words(h) : now[x] = block[x - current]
  BY <1>7, <1>8
<1>10. now \in [1 .. Len(cells) -> Word]
  <2>1. ASSUME NEW x \in DOMAIN cells
        PROVE  now[x] \in Word
    <3>1. CASE x \in current + 1 .. current + Words(h)
      BY <1>3, <1>7, <1>9, <3>1
    <3>2. CASE x \notin current + 1 .. current + Words(h)
      BY <1>8, <3>2
    <3> QED  BY <3>1, <3>2
  <2>2. now = [x \in DOMAIN now |-> now[x]]
    BY <1>4
  <2> QED  BY <1>6, <1>8, <2>1, <2>2
<1>11. now \in Seq(Word) /\ Len(now) = Len(from.cells)
  BY <1>5, <1>6, <1>10, FunctionIsWords
<1>12. \A x \in 1 .. current : now[x] = from.cells[x]
  <2> SUFFICES ASSUME NEW x \in 1 .. current PROVE now[x] = cells[x]
    BY <1>5
  <2>1. x \in DOMAIN cells /\ x \notin current + 1 .. current + Words(h)
    BY <1>1, <1>6
  <2> QED  BY <1>8, <2>1
<1>13. \A x \in 1 .. k : now[current + x] = top[x]
  <2> SUFFICES ASSUME NEW x \in 1 .. k PROVE now[current + x] = top[x]
    OBVIOUS
  <2>1. current + x \in current + 1 .. current + Words(h) /\ (current + x) - current = x
    BY <1>1 DEF k
  <2> QED  BY <1>3, <1>9, <2>1
<1>14. ASSUME NEW x \in First(current, h) .. current + Words(h)
       PROVE  x - First(current, h) + 1 \in DOMAIN ws /\ now[x] = ws[x - First(current, h) + 1]
  <2>1. First(current, h) = current + k + 1
    BY DEF First, k
  <2>2. /\ x \in current + 1 .. current + Words(h) /\ x - First(current, h) + 1 \in 1 .. Len(ws)
        /\ x - current = k + (x - First(current, h) + 1)
    BY <1>1, <2>1 DEF k
  <2> QED  BY <1>3, <1>9, <2>2
<1>15. /\ now[current + HeaderWords(h)] = h
       /\ h.a = SEXP_TAG => now[current + 1] = Raw(0)
  BY <1>1, <1>2, <1>13 DEF k
<1> QED  BY <1>11, <1>12, <1>14, <1>15

(* The constructor fills the block it was granted: exactly its words, all of       *)
(* them.                                                                           *)
LEMMA ResultKeeps ==
  ASSUME IInv, pc = "resume", status = "run",
         NEW h \in Heads, h = Wanted(making),
         NEW ws \in Seq(Word), Len(ws) = Words(h) - HeaderWords(h),
         h.a = STRING_TAG => \A j \in DOMAIN ws : ws[j].t # "ptr",
         \A B : Granted(B) => \A j \in DOMAIN ws : Points(ws[j], from.arena, B),
         NEW taken \in Nat, Takes(taken),
         from' = [from EXCEPT !.cells = Filled(h, Raw(0), ws)],
         stack' = Append(Below(taken), Ptr(from.arena, current + HeaderWords(h) + 1)),
         pc' = "idle", extra' = <<>>, making' = Nothing, current' = 0, root' = 1, request' = 0,
         UNCHANGED <<used, to, space, arenas, frames, status, code>>
  PROVE  IInv'
<1> DEFINE now == Filled(h, Raw(0), ws)  n == current
           w == Ptr(from.arena, First(n, h))  s == Append(Below(taken), w)
<1>1. PICK B : Granted(B)
  BY DEF IInv
<1>0. PICK B2 : B2 = With(B, n, h)
  OBVIOUS
<1>2. /\ Space(B, n, from.cells, from.arena, {}) /\ Layout(B, n) /\ n \in Nat
      /\ used = n + Words(h) /\ used <= Len(from.cells) /\ TypeOK /\ from.arena \in Nat
      /\ used \in Nat /\ from \in Pools
  BY <1>1, Types DEF Granted, Space, IInv, Waiting
<1>3. /\ Words(h) \in Nat /\ HeaderWords(h) \in {1, 2} /\ First(n, h) \in Nat
  BY <1>2, HeadFacts DEF First
<1>4. /\ now \in Seq(Word) /\ Len(now) = Len(from.cells)
      /\ \A x \in 1 .. n : now[x] = from.cells[x]
      /\ now[n + HeaderWords(h)] = h
      /\ h.a = SEXP_TAG => now[n + 1] = Raw(0)
      /\ \A x \in First(n, h) .. n + Words(h) :
           x - First(n, h) + 1 \in DOMAIN ws /\ now[x] = ws[x - First(n, h) + 1]
  BY <1>2, FilledFacts
<1>5. Appended(B, n, h, First(n, h), B2)
  BY <1>0, <1>2, WithFacts
<1> HIDE DEF now
<1>6. \A v : Points(v, from.arena, B) => Points(v, from.arena, B2)
  BY <1>5 DEF Appended, Points
<1>7. Space(B2, n + Words(h), now, from.arena, {})
  <2>1. \A x \in 1 .. n : now[x] = from.cells[x] /\ (x \in {} => x \in {})
    BY <1>4
  <2>2. h.a = SEXP_TAG => now[n + 1].t = "raw"
    BY <1>4, WordFacts
  <2>3. h.a = STRING_TAG => \A x \in First(n, h) .. n + Words(h) : now[x].t # "ptr"
    BY <1>4
  <2>4. \A x \in First(n, h) .. n + Words(h) : x \in {} \/ Points(now[x], from.arena, B2)
    BY <1>1, <1>4, <1>6
  <2> QED  BY <1>0, <1>2, <1>4, <2>1, <2>2, <2>3, <2>4, SpaceGrows
<1>8. w \in Word /\ Points(w, from.arena, B2) /\ w = Ptr(from.arena, current + HeaderWords(h) + 1)
  <2>1. First(n, h) \in DOMAIN B2
    BY <1>5 DEF Appended
  <2> QED  BY <1>2, <1>3, <2>1, WordFacts DEF Points, First
<1>9. /\ Below(taken) \in Seq(Word)
      /\ \A j \in DOMAIN Below(taken) : Below(taken)[j] = stack[j] /\ j \in DOMAIN stack
  BY <1>2, BelowFacts
<1>10. /\ s \in Seq(Word) /\ s # <<>>
       /\ \A j \in DOMAIN s : (j \in DOMAIN stack /\ s[j] = stack[j]) \/ s[j] = w
  BY <1>8, <1>9, AppendFacts
<1>11. \A j \in DOMAIN s : Points(s[j], from.arena, B2)
  <2>1. \A j \in DOMAIN stack : Points(stack[j], from.arena, B2)
    BY <1>1, <1>6 DEF Granted, RootsPoint
  <2> QED  BY <1>8, <1>10, <2>1
<1>12. stack' = s
  BY <1>8
<1>13. from' \in Pools /\ from'.cells = now /\ from'.arena = from.arena
  <2>1. from = [arena |-> from.arena, cells |-> from.cells] /\ from.arena \in 0 .. MaxArenas
    BY <1>2 DEF Pools
  <2>2. from' = [from EXCEPT !.cells = now]
    BY DEF now
  <2> QED  BY <1>4, <2>1, <2>2 DEF Pools
<1> HIDE DEF w, s
<1>14. Settled(B2)'
  <2>1. Space(B2, used, now, from.arena, {})
    BY <1>2, <1>7
  <2>2. DOMAIN extra' = {}
    OBVIOUS
  <2> QED  BY <1>11, <1>12, <1>13, <2>1, <2>2 DEF Settled, RootsPoint
<1>15. TypeOK'
  <2>1. extra' \in Seq(Word)
    OBVIOUS
  <2>2. frames = <<>>
    BY <1>2 DEF TypeOK
  <2>3. stack' \in Seq(Word) /\ stack' # <<>>
    BY <1>10, <1>12
  <2>4. from' \in Pools /\ Len(from'.cells) = Len(from.cells)
    BY <1>4, <1>13
  <2> QED  BY <1>2, <2>1, <2>2, <2>3, <2>4 DEF TypeOK
<1> QED  BY <1>4, <1>13, <1>14, <1>15 DEF IInv, NoInternalError, Moving

LEMMA ResumeKeeps ==
  ASSUME IInv, Resume
  PROVE  IInv'
<1> DEFINE n == making.n
<1>1. /\ pc = "resume" /\ status = "run" /\ Waiting /\ TypeOK /\ stack \in Seq(Word)
      /\ Len(stack) \in Nat \ {0} /\ n \in Nat
      /\ pc' = "idle" /\ extra' = <<>> /\ making' = Nothing /\ current' = 0 /\ root' = 1
      /\ request' = 0 /\ UNCHANGED <<used, to, space, arenas, frames, status, code>>
  BY Types DEF Resume, IInv, Waiting
<1>2. /\ making.op \in {"BARRAY", "SEXP", "CLOSURE", "STRING", "LSTRING"}
      /\ making.captured \in Word
      /\ making.op \in {"BARRAY", "SEXP"} => n < Len(stack)
  BY <1>1 DEF Waiting
<1>3. ASSUME NEW t \in {ARRAY_TAG, SEXP_TAG}, n < Len(stack), Wanted(making) = Header(t, n),
             from' = [from EXCEPT !.cells = Filled(Header(t, n), Raw(0), Operands(n))],
             stack' = Append(Below(n), Ptr(from.arena, current + HeaderWords(Header(t, n)) + 1))
      PROVE  IInv'
  <2> DEFINE h == Header(t, n)  ws == Operands(n)
  <2>1. h \in Heads /\ h.a # STRING_TAG /\ Words(h) - HeaderWords(h) = n
    <3>1. h \in Heads /\ h.a = t /\ h.b = n
      BY <1>1, HeaderIsHead DEF Tags
    <3>2. t # STRING_TAG
      BY DEF STRING_TAG, ARRAY_TAG, SEXP_TAG
    <3>3. Words(h) = HeaderWords(h) + n /\ HeaderWords(h) \in {1, 2}
      BY <3>1, <3>2, HeadFacts
    <3> QED  BY <1>1, <3>1, <3>2, <3>3
  <2>2. ws \in Seq(Word) /\ Len(ws) = n /\ \A j \in DOMAIN ws : \E k \in DOMAIN stack : ws[j] = stack[k]
    <3>1. ws = [j \in 1 .. n |-> stack[Len(stack) - (j - 1)]]
      BY DEF Operands, Peek, Depth
    <3>2. \A j \in 1 .. n : Len(stack) - (j - 1) \in DOMAIN stack
      BY <1>1, <1>3
    <3> HIDE DEF ws
    <3>3. \A j \in 1 .. n : ws[j] \in Word /\ \E k \in DOMAIN stack : ws[j] = stack[k]
      BY <1>1, <3>1, <3>2
    <3>4. ws \in [1 .. n -> Word]
      BY <3>1, <3>3
    <3> QED  BY <1>1, <3>3, <3>4, FunctionIsWords
  <2>3. Takes(n)
    BY <1>1, <1>3 DEF Takes, Depth
  <2> HIDE DEF h, ws
  <2>4. \A B : Granted(B) => \A j \in DOMAIN ws : Points(ws[j], from.arena, B)
    BY <2>2 DEF Granted, RootsPoint
  <2>5. /\ h = Wanted(making) /\ from' = [from EXCEPT !.cells = Filled(h, Raw(0), ws)]
        /\ stack' = Append(Below(n), Ptr(from.arena, current + HeaderWords(h) + 1))
    BY <1>3 DEF h, ws
  <2> HIDE DEF n
  <2> QED  BY <1>1, <2>1, <2>2, <2>3, <2>4, <2>5, ResultKeeps
<1>4. ASSUME NEW h \in Heads, h = Wanted(making), NEW ws \in Seq(Word),
             Len(ws) = Words(h) - HeaderWords(h),
             h.a = STRING_TAG => \A j \in DOMAIN ws : ws[j].t # "ptr",
             \A B : Granted(B) => \A j \in DOMAIN ws : Points(ws[j], from.arena, B),
             from' = [from EXCEPT !.cells = Filled(h, Raw(0), ws)],
             stack' = Append(Below(0), Ptr(from.arena, current + HeaderWords(h) + 1))
      PROVE  IInv'
  <2>1. Takes(0)
    BY <1>1 DEF Takes, Depth
  <2> QED  BY <1>1, <1>4, <2>1, ResultKeeps
<1>5. CASE making.op = "BARRAY"
  <2>1. Wanted(making) = Header(ARRAY_TAG, n)
    BY <1>5 DEF Wanted
  <2>2. /\ from' = [from EXCEPT !.cells = Filled(Header(ARRAY_TAG, n), Raw(0), Operands(n))]
        /\ stack' = Append(Below(n), Ptr(from.arena, current + HeaderWords(Header(ARRAY_TAG, n)) + 1))
    BY <1>5 DEF Resume
  <2> QED  BY <1>2, <1>3, <1>5, <2>1, <2>2
<1>6. CASE making.op = "SEXP"
  <2>1. Wanted(making) = Header(SEXP_TAG, n)
    BY <1>6 DEF Wanted
  <2>2. /\ from' = [from EXCEPT !.cells = Filled(Header(SEXP_TAG, n), Raw(0), Operands(n))]
        /\ stack' = Append(Below(n), Ptr(from.arena, current + HeaderWords(Header(SEXP_TAG, n)) + 1))
    BY <1>6 DEF Resume
  <2> QED  BY <1>2, <1>3, <1>6, <2>1, <2>2
<1>7. CASE making.op = "CLOSURE"
  <2> DEFINE h == Header(CLOSURE_TAG, 2)  ws == <<Raw(1), making.captured>>
  <2>1. Wanted(making) = h /\ h \in Heads /\ h.a # STRING_TAG /\ Words(h) - HeaderWords(h) = 2
    BY <1>7, HeaderIsHead DEF Wanted, Tags, Header, W, Words, HeaderWords,
         STRING_TAG, ARRAY_TAG, SEXP_TAG, CLOSURE_TAG
  <2>2. /\ from' = [from EXCEPT !.cells = Filled(h, Raw(0), ws)]
        /\ stack' = Append(Below(0), Ptr(from.arena, current + HeaderWords(h) + 1))
    BY <1>7 DEF Resume
  <2>3. ws \in Seq(Word) /\ Len(ws) = 2 /\ ws[1] = Raw(1) /\ ws[2] = making.captured
    BY <1>2, WordFacts
  <2> HIDE DEF h, ws
  <2>4. ASSUME NEW B, Granted(B)
        PROVE  \A j \in DOMAIN ws : Points(ws[j], from.arena, B)
    <3>1. Points(making.captured, from.arena, B) /\ Raw(1).t # "ptr"
      BY <2>4, WordFacts DEF Granted
    <3>2. \A j \in DOMAIN ws : j = 1 \/ j = 2
      BY <2>3
    <3> QED  BY <2>3, <3>1, <3>2 DEF Points
  <2> QED  BY <1>4, <2>1, <2>2, <2>3, <2>4
<1>8. CASE making.op \in {"STRING", "LSTRING"}
  <2> DEFINE h == Header(STRING_TAG, n)  ws == [j \in 1 .. n \div 4 + 1 |-> Raw(2)]
  <2>1. Wanted(making) = h
    BY <1>8 DEF Wanted
  <2>2. /\ from' = [from EXCEPT !.cells = Filled(h, Raw(0), ws)]
        /\ stack' = Append(Below(0), Ptr(from.arena, current + HeaderWords(h) + 1))
    BY <1>8 DEF Resume
  <2>3. h \in Heads /\ Words(h) - HeaderWords(h) = n \div 4 + 1
    <3>1. Words(h) = (n + 4) \div 4 + 1 /\ HeaderWords(h) = 1 /\ (n + 4) \div 4 = n \div 4 + 1
      BY <1>1 DEF Words, HeaderWords, Header, W, STRING_TAG, SEXP_TAG
    <3>2. n \div 4 \in Nat
      BY <1>1
    <3> QED  BY <1>1, <3>1, <3>2, HeaderIsHead DEF Tags
  <2>4. ws \in Seq(Word) /\ Len(ws) = n \div 4 + 1 /\ \A j \in DOMAIN ws : ws[j] = Raw(2)
    <3>1. n \div 4 + 1 \in Nat
      BY <1>1
    <3> QED  BY <3>1, WordFacts
  <2>5. Raw(2).t # "ptr"
    BY WordFacts
  <2> HIDE DEF h, ws
  <2>6. \A B : Granted(B) => \A j \in DOMAIN ws : Points(ws[j], from.arena, B)
    BY <2>4, <2>5 DEF Points
  <2> QED  BY <1>4, <2>1, <2>2, <2>3, <2>4, <2>5, <2>6
<1> QED  BY <1>2, <1>5, <1>6, <1>7, <1>8

-----------------------------------------------------------------------------------
(* While objects are moved.                                                        *)
LEMMA MovingFacts ==
  ASSUME IInv, status = "run", Moving(pc)
  PROVE  /\ TypeOK /\ Waiting /\ Len(to.cells) = space /\ from.arena < to.arena
         /\ to.arena <= arenas /\ used < Len(from.cells) /\ Len(from.cells) <= Len(to.cells)
         /\ code \in Progs /\ frames \in Seq(Frame) /\ from.arena <= arenas
         /\ \E B, C : Copying(B, C)
  BY DEF IInv, TypeOK

(* What makes IInv hold after a step of the collector that goes on.                *)
LEMMA GoesOn ==
  ASSUME IInv, status = "run", Moving(pc), Moving(pc'),
         UNCHANGED <<used, space, arenas, request, status, code, making>>,
         from' \in Pools, from'.arena = from.arena, Len(from'.cells) = Len(from.cells),
         to' \in Pools, to'.arena = to.arena, Len(to'.cells) = Len(to.cells),
         current' \in Nat, root' \in Nat \ {0}, frames' \in Seq(Frame),
         pc' = "copy" <=> frames' # <<>>,
         stack' \in Seq(Word), Len(stack') = Len(stack), extra' \in Seq(Word),
         pc' = "room" => root' > Roots',
         NEW B, NEW C, Copying(B, C)'
  PROVE  IInv'
<1>1. Len(stack) \in Nat \ {0}
  BY Types DEF IInv
<1>2. stack' # <<>>
  BY <1>1
<1>3. pc' \in {"roots", "copy", "room"} /\ pc \in {"roots", "copy", "room"}
  BY DEF Moving
<1>4. TypeOK'
  BY <1>2, <1>3 DEF TypeOK, IInv
<1>5. Waiting'
  BY MovingFacts DEF Waiting
<1> QED  BY <1>3, <1>4, <1>5, MovingFacts DEF IInv, NoInternalError, Moving

(* A word of the from-space's time leads to an object that can be copied, or the   *)
(* collector leaves it as it is.                                                   *)
LEMMA OldWord ==
  ASSUME TypeOK, used < Len(from.cells), from.arena < to.arena,
         NEW B, Layout(B, used), NEW C, NEW w \in Word, Points(w, from.arena, B)
  PROVE  IF IsValidHeapPointer(w) THEN w.b \in DOMAIN B ELSE Points(w, to.arena, C)
<1>1. /\ from.arena \in Nat /\ to.arena \in Nat /\ used \in Nat /\ Len(from.cells) \in Nat
      /\ w.a \in Int
  BY Types DEF Word
<1>2. \A o \in DOMAIN B : o \in Nat /\ o <= Len(from.cells)
  <2> SUFFICES ASSUME NEW o \in DOMAIN B PROVE o \in Nat /\ o <= Len(from.cells)
    OBVIOUS
  <2>1. o \in Nat /\ o - 1 <= Hi(B, o) /\ Hi(B, o) <= used /\ Hi(B, o) \in Nat
    BY <1>1, BlockFacts
  <2> QED  BY <1>1, <2>1
<1> QED  BY <1>1, <1>2 DEF Points, IsValidHeapPointer

LEMMA FrameAppend ==
  ASSUME NEW u \in Seq(Frame), NEW g \in Frame
  PROVE  /\ Append(u, g) \in Seq(Frame) /\ Len(Append(u, g)) = Len(u) + 1
         /\ Append(u, g) # <<>> /\ DOMAIN Append(u, g) = 1 .. Len(u) + 1
         /\ Append(u, g)[Len(u) + 1] = g /\ \A k \in 1 .. Len(u) : Append(u, g)[k] = u[k]
  OBVIOUS

LEMMA FrontFacts ==
  ASSUME NEW fs \in Seq(Frame), fs # <<>>
  PROVE  /\ Last(fs) = fs[Len(fs)] /\ Len(fs) \in DOMAIN fs /\ Last(fs) \in Frame
         /\ Front(fs) \in Seq(Frame) /\ Len(Front(fs)) = Len(fs) - 1 /\ Len(fs) \in Nat \ {0}
         /\ DOMAIN fs = 1 .. Len(fs) /\ DOMAIN Front(fs) = 1 .. Len(fs) - 1
         /\ \A k \in 1 .. Len(fs) - 1 : Front(fs)[k] = fs[k]
<1>1. Len(fs) \in Nat \ {0} /\ DOMAIN fs = 1 .. Len(fs)
  OBVIOUS
<1>2. /\ Front(fs) \in Seq(Frame) /\ Len(Front(fs)) = Len(fs) - 1
      /\ \A k \in 1 .. Len(fs) - 1 : Front(fs)[k] = fs[k]
  BY <1>1 DEF Front
<1>3. Last(fs) = fs[Len(fs)] /\ Len(fs) \in DOMAIN fs /\ Last(fs) \in Frame
  BY <1>1 DEF Last
<1> QED  BY <1>1, <1>2, <1>3

Replaced(fs, g, gs) ==
  /\ gs \in Seq(Frame) /\ gs # <<>> /\ Len(gs) = Len(fs) /\ DOMAIN gs = DOMAIN fs
  /\ gs[Len(fs)] = g /\ \A k \in 1 .. Len(fs) - 1 : gs[k] = fs[k]

LEMMA ReplaceFacts ==
  ASSUME NEW fs \in Seq(Frame), fs # <<>>, NEW g \in Frame
  PROVE  Replaced(fs, g, Append(Front(fs), g))
<1>1. PICK u : u = Front(fs)
  OBVIOUS
<1>2. /\ u \in Seq(Frame) /\ Len(u) = Len(fs) - 1 /\ Len(fs) \in Nat \ {0}
      /\ DOMAIN fs = 1 .. Len(fs) /\ \A k \in 1 .. Len(fs) - 1 : u[k] = fs[k]
  BY <1>1, FrontFacts
<1>3. PICK gs : gs = Append(u, g)
  OBVIOUS
<1>4. /\ gs \in Seq(Frame) /\ Len(gs) = Len(u) + 1 /\ gs # <<>> /\ DOMAIN gs = 1 .. Len(u) + 1
      /\ gs[Len(u) + 1] = g /\ \A k \in 1 .. Len(u) : gs[k] = u[k]
  BY <1>2, <1>3, FrameAppend
<1>5. Len(u) + 1 = Len(fs)
  BY <1>2
<1>6. Replaced(fs, g, gs)
  BY <1>2, <1>4, <1>5 DEF Replaced
<1> QED  BY <1>1, <1>3, <1>6

(* A copied value comes back to the scan of the roots.                             *)
LEMMA ToRoot ==
  ASSUME IInv, status = "run", Moving(pc),
         UNCHANGED <<used, space, arenas, request, status, code, making>>,
         from' \in Pools, from'.arena = from.arena, Len(from'.cells) = Len(from.cells),
         current' \in Nat, NEW cells \in Seq(Word), Len(cells) = Len(to.cells),
         NEW B, NEW C, Copied(B, C, from'.cells, current', cells, <<>>),
         NEW w \in Word, Points(w, to.arena, C), Deliver(w, <<>>, cells)
  PROVE  IInv'
<1>1. /\ stack' = IF OnStack(root) THEN [stack EXCEPT ![Len(stack) - root] = w] ELSE stack
      /\ extra' = IF OnStack(root) THEN extra ELSE [extra EXCEPT ![root - Len(stack) + 1] = w]
      /\ root' = root + 1 /\ pc' = "roots" /\ frames' = <<>>
      /\ to' = [to EXCEPT !.cells = cells]
  BY DEF Deliver
<1>2. /\ TypeOK /\ root \in Nat \ {0} /\ Len(stack) \in Nat \ {0} /\ stack \in Seq(Word)
      /\ extra \in Seq(Word) /\ Len(extra) \in Nat /\ to \in Pools
  BY Types DEF IInv
<1>3. /\ stack' \in Seq(Word) /\ Len(stack') = Len(stack) /\ DOMAIN stack' = DOMAIN stack
      /\ \A k \in DOMAIN stack :
           stack'[k] = IF OnStack(root) /\ k = Len(stack) - root THEN w ELSE stack[k]
  <2>1. CASE OnStack(root)
    <3>1. PICK i : i = Len(stack) - root
      OBVIOUS
    <3>2. stack' = [stack EXCEPT ![i] = w]
      BY <1>1, <2>1, <3>1
    <3>3. /\ stack' \in Seq(Word) /\ Len(stack') = Len(stack) /\ DOMAIN stack' = DOMAIN stack
          /\ \A k \in DOMAIN stack : stack'[k] = IF k = i THEN w ELSE stack[k]
      BY <1>2, <3>2, PutFacts
    <3> QED  BY <2>1, <3>1, <3>3
  <2>2. CASE ~OnStack(root)
    BY <1>1, <1>2, <2>2
  <2> QED  BY <2>1, <2>2
<1>4. /\ extra' \in Seq(Word) /\ DOMAIN extra' = DOMAIN extra
      /\ \A k \in DOMAIN extra :
           extra'[k] = IF ~OnStack(root) /\ k = root - Len(stack) + 1 THEN w ELSE extra[k]
  <2>1. CASE ~OnStack(root)
    <3>1. extra' = [extra EXCEPT ![root - Len(stack) + 1] = w]
      BY <1>1, <2>1
    <3> QED  BY <1>2, <2>1, <3>1, PutFacts
  <2>2. CASE OnStack(root)
    BY <1>1, <1>2, <2>2
  <2> QED  BY <2>1, <2>2
<1>5. to' \in Pools /\ to'.cells = cells /\ to'.arena = to.arena
  BY <1>1, <1>2 DEF Pools
<1>6. RootsOK(B, C)
  BY DEF Copied
<1>7. RootsOK(B, C)'
  <2>1. ASSUME NEW k \in 1 .. Len(stack) - 1
        PROVE  RootOK(B, C, stack[k], Len(stack) - k)'
    <3>1. k \in DOMAIN stack /\ RootOK(B, C, stack[k], Len(stack) - k)
      BY <1>2, <1>6 DEF RootsOK
    <3>2. Len(stack) - k < root + 1 <=> Len(stack) - k < root \/ k = Len(stack) - root
      BY <1>2
    <3>3. k = Len(stack) - root => OnStack(root)
      BY <1>2 DEF OnStack
    <3>4. Len(stack) - k < root' <=> Len(stack) - k < root \/ k = Len(stack) - root
      BY <1>1, <3>2
    <3>5. stack'[k] = IF k = Len(stack) - root THEN w ELSE stack[k]
      BY <1>3, <3>1, <3>3
    <3> QED  BY <1>3, <1>5, <3>1, <3>4, <3>5 DEF RootOK
  <2>2. ASSUME NEW k \in DOMAIN extra
        PROVE  RootOK(B, C, extra[k], Len(stack) - 1 + k)'
    <3>1. k \in Nat \ {0} /\ RootOK(B, C, extra[k], Len(stack) - 1 + k)
      BY <1>2, <1>6 DEF RootsOK
    <3>2. Len(stack) - 1 + k < root + 1 <=> Len(stack) - 1 + k < root \/ k = root - Len(stack) + 1
      BY <1>2, <3>1
    <3>3. k = root - Len(stack) + 1 => ~OnStack(root)
      BY <1>2, <3>1 DEF OnStack
    <3>4. Len(stack) - 1 + k < root' <=> Len(stack) - 1 + k < root \/ k = root - Len(stack) + 1
      BY <1>1, <3>2
    <3>5. extra'[k] = IF k = root - Len(stack) + 1 THEN w ELSE extra[k]
      BY <1>4, <3>3
    <3> QED  BY <1>3, <1>5, <3>1, <3>4, <3>5 DEF RootOK
  <2> QED  BY <1>3, <1>4, <2>1, <2>2 DEF RootsOK
<1>8. stack'[Len(stack')] = stack[Len(stack)]
  BY <1>2, <1>3
<1>9. Copying(B, C)'
  BY <1>1, <1>5, <1>7, <1>8 DEF Copying, Copied, Stale, Forwarding
<1>10. root' \in Nat \ {0}
  BY <1>1, <1>2
<1> QED  BY <1>1, <1>3, <1>4, <1>5, <1>9, <1>10, GoesOn DEF Moving

(* An object that is no string ends with its last component.                       *)
LEMMA ObjectEnd ==
  ASSUME NEW B, NEW n \in Nat, Layout(B, n), NEW o \in DOMAIN B, B[o].a # STRING_TAG
  PROVE  B[o].b \in Nat /\ Hi(B, o) = o - 1 + B[o].b /\ o \in Nat
<1>1. /\ o \in Nat /\ B[o] \in Heads /\ Lo(B, o) = o - 1 - HeaderWords(B[o])
      /\ Hi(B, o) = Lo(B, o) + Words(B[o]) /\ HeaderWords(B[o]) \in {1, 2}
  BY BlockFacts
<1>2. Words(B[o]) = HeaderWords(B[o]) + B[o].b /\ B[o].b \in Nat
  BY <1>1, HeadFacts
<1> QED  BY <1>1, <1>2

(* The fields of an activation of copy_elements, and the next one of the same      *)
(* loop.                                                                           *)
LEMMA FrameFacts ==
  ASSUME NEW f \in Frame
  PROVE  /\ f.i \in Nat /\ f.copy \in Nat /\ f.len \in Nat /\ f.obj \in Nat
         /\ [f EXCEPT !.i = @ + 1] = [obj |-> f.obj, len |-> f.len, i |-> f.i + 1, copy |-> f.copy]
         /\ [f EXCEPT !.i = @ + 1] \in Frame
<1>1. /\ f.i \in Nat /\ f.copy \in Nat /\ f.len \in Nat /\ f.obj \in Nat
      /\ f = [obj |-> f.obj, len |-> f.len, i |-> f.i, copy |-> f.copy]
  BY DEF Frame
<1>2. [f EXCEPT !.i = @ + 1] = [obj |-> f.obj, len |-> f.len, i |-> f.i + 1, copy |-> f.copy]
  BY <1>1
<1>3. f.i + 1 \in Nat
  BY <1>1
<1> QED  BY <1>1, <1>2, <1>3 DEF Frame

(* ... or to copy_elements, which stores it.                                       *)
LEMMA ToFrame ==
  ASSUME IInv, status = "run", Moving(pc),
         UNCHANGED <<used, space, arenas, request, status, code, making>>,
         from' \in Pools, from'.arena = from.arena, Len(from'.cells) = Len(from.cells),
         current' \in Nat, NEW cells \in Seq(Word), Len(cells) = Len(to.cells),
         NEW fs \in Seq(Frame), fs # <<>>, Last(fs).i < Last(fs).len,
         NEW B, NEW C, Copied(B, C, from'.cells, current', cells, fs),
         NEW w \in Word, Points(w, to.arena, C), Deliver(w, fs, cells)
  PROVE  IInv'
<1>1. PICK f : f = Last(fs)
  OBVIOUS
<1>2. PICK g : g = [f EXCEPT !.i = @ + 1]
  OBVIOUS
<1>3. PICK gs : gs = Append(Front(fs), g)
  OBVIOUS
<1>4. PICK x : x = f.copy + f.i
  OBVIOUS
<1>5. PICK now : now = [cells EXCEPT ![x] = w]
  OBVIOUS
<1>6. /\ to' = [to EXCEPT !.cells = now] /\ frames' = gs
      /\ pc' = "copy" /\ UNCHANGED <<stack, extra, root>>
  BY <1>1, <1>2, <1>3, <1>4, <1>5 DEF Deliver
<1>7. /\ TypeOK /\ to \in Pools /\ Len(from.cells) <= Len(to.cells) /\ used < Len(from.cells)
      /\ used \in Nat /\ Len(from.cells) \in Nat /\ Len(to.cells) \in Nat /\ root \in Nat \ {0}
      /\ stack \in Seq(Word) /\ extra \in Seq(Word) /\ pc # "idle"
  BY Types, MovingFacts DEF IInv, Moving
<1>8. /\ f = fs[Len(fs)] /\ Len(fs) \in DOMAIN fs /\ f \in Frame /\ Len(fs) \in Nat \ {0}
      /\ DOMAIN fs = 1 .. Len(fs)
  BY <1>1, FrontFacts
<1>9. /\ g \in Frame /\ g.i = f.i + 1 /\ g.copy = f.copy /\ g.len = f.len /\ g.obj = f.obj
      /\ f.i \in Nat /\ f.copy \in Nat /\ f.len \in Nat /\ x \in Nat
  <2>1. g = [obj |-> f.obj, len |-> f.len, i |-> f.i + 1, copy |-> f.copy] /\ g \in Frame
    BY <1>2, <1>8, FrameFacts
  <2>2. f.i \in Nat /\ f.copy \in Nat /\ f.len \in Nat
    BY <1>8, FrameFacts
  <2> QED  BY <1>4, <2>1, <2>2
<1>10. /\ gs \in Seq(Frame) /\ gs # <<>> /\ Len(gs) = Len(fs) /\ DOMAIN gs = DOMAIN fs
       /\ gs[Len(fs)] = g /\ \A k \in 1 .. Len(fs) - 1 : gs[k] = fs[k]
  BY <1>3, <1>9, ReplaceFacts DEF Replaced
<1>11. /\ FramesOK(B, C, fs) /\ Layout(C, current') /\ InPlace(C, cells)
       /\ Body(C, cells, to.arena, Pending(fs)) /\ current' <= used
  BY <1>7 DEF Copied, Space
<1>12. FrameOK(B, C, f)
  BY <1>8, <1>11 DEF FramesOK
<1>13. /\ f.copy \in DOMAIN C /\ C[f.copy].a # STRING_TAG /\ C[f.copy].b = f.len /\ f.i < f.len
  BY <1>1, <1>12 DEF FrameOK
<1>14. x \in f.copy .. Hi(C, f.copy)
  <2>1. Hi(C, f.copy) = f.copy - 1 + f.len
    BY <1>11, <1>13, ObjectEnd
  <2> QED  BY <1>4, <1>9, <1>13, <2>1
<1>15. Pending(fs) \subseteq Pending(gs) \cup {x}
  <2> SUFFICES ASSUME NEW y \in Nat, y # x, NEW k \in DOMAIN fs,
                      fs[k].copy + fs[k].i <= y, y < fs[k].copy + fs[k].len
               PROVE  gs[k].copy + gs[k].i <= y /\ y < gs[k].copy + gs[k].len /\ k \in DOMAIN gs
    BY DEF Pending
  <2>1. CASE k = Len(fs)
    BY <1>4, <1>8, <1>9, <1>10, <2>1
  <2>2. CASE k # Len(fs)
    <3>1. k \in 1 .. Len(fs) - 1
      BY <1>8, <2>2
    <3> QED  BY <1>10, <3>1
  <2> QED  BY <2>1, <2>2
<1>16. Stored(C, cells, to.arena, Pending(gs), now)
  <2>1. current' <= Len(cells)
    BY <1>7, <1>11
  <2> QED  BY <1>5, <1>11, <1>13, <1>14, <1>15, <2>1, StoreKeeps
<1>17. /\ now \in Seq(Word) /\ Len(now) = Len(cells)
       /\ Space(C, current', now, to.arena, Pending(gs))
  BY <1>11, <1>16 DEF Stored, Space, InPlace
<1>18. FramesOK(B, C, gs)
  <2>1. FrameOK(B, C, g)
    BY <1>9, <1>12, <1>13 DEF FrameOK
  <2> SUFFICES ASSUME NEW k \in DOMAIN fs
               PROVE  FrameOK(B, C, gs[k]) /\ (k < Len(fs) => gs[k].i < gs[k].len)
    BY <1>10 DEF FramesOK
  <2>2. CASE k = Len(fs)
    BY <1>8, <1>10, <2>1, <2>2
  <2>3. CASE k # Len(fs)
    BY <1>8, <1>10, <1>11, <2>3 DEF FramesOK
  <2> QED  BY <2>2, <2>3
<1>19. to' \in Pools /\ to'.cells = now /\ to'.arena = to.arena
  BY <1>6, <1>7, <1>17 DEF Pools
<1>20. Copying(B, C)'
  BY <1>6, <1>17, <1>18, <1>19
     DEF Copying, Copied, Stale, Forwarding, RootsOK, RootOK
<1> QED  BY <1>6, <1>7, <1>10, <1>17, <1>19, <1>20, GoesOn DEF Moving

(* The address gc_copy returns is stored in the word that asked for it, and the    *)
(* work goes on.                                                                   *)
LEMMA DeliverKeeps ==
  ASSUME IInv, status = "run", Moving(pc),
         UNCHANGED <<used, space, arenas, request, status, code, making>>,
         from' \in Pools, from'.arena = from.arena, Len(from'.cells) = Len(from.cells),
         current' \in Nat, NEW cells \in Seq(Word), Len(cells) = Len(to.cells),
         NEW fs \in Seq(Frame), fs # <<>> => Last(fs).i < Last(fs).len,
         NEW B, NEW C, Copied(B, C, from'.cells, current', cells, fs),
         NEW w \in Word, Points(w, to.arena, C), Deliver(w, fs, cells)
  PROVE  IInv'
<1>1. CASE fs = <<>>
  BY <1>1, ToRoot
<1>2. CASE fs # <<>>
  BY <1>2, ToFrame
<1> QED  BY <1>1, <1>2

-----------------------------------------------------------------------------------
(* gc_copy.                                                                        *)

(* The word of an object's header is overwritten.                                  *)
Marked(B, cells, arena, o, v, now) ==
  /\ now \in Seq(Word) /\ Len(now) = Len(cells) /\ Body(B, now, arena, {})
  /\ now[o - 1] = v /\ \A p \in DOMAIN B : p # o => now[p - 1] = cells[p - 1]

(* A forward pointer in a header disturbs no other header and no component.        *)
LEMMA MarkKeeps ==
  ASSUME NEW B, NEW n \in Nat, NEW cells \in Seq(Word), NEW arena, NEW v \in Word,
         Layout(B, n), Body(B, cells, arena, {}), n <= Len(cells), NEW o \in DOMAIN B,
         NEW now, now = [cells EXCEPT ![o - 1] = v]
  PROVE  Marked(B, cells, arena, o, v, now)
<1>1. o \in Nat /\ o - 1 \in Lo(B, o) + 1 .. Hi(B, o) /\ o - 1 \in 1 .. n
  BY BlockFacts
<1>2. PICK x : x = o - 1
  OBVIOUS
<1>3. /\ now \in Seq(Word) /\ Len(now) = Len(cells) /\ x \in 1 .. Len(cells)
      /\ \A y \in 1 .. Len(cells) : now[y] = IF y = x THEN v ELSE cells[y]
  <2>1. now = [cells EXCEPT ![x] = v] /\ x \in 1 .. n
    BY <1>1, <1>2
  <2> QED  BY <2>1, PutFacts
<1>4. ASSUME NEW p \in DOMAIN B, NEW y \in Lo(B, p) + 1 .. Hi(B, p), y # x
      PROVE  now[y] = cells[y]
  <2>1. y \in 1 .. Len(cells)
    <3>1. y \in 1 .. n
      BY BlockFacts
    <3> QED  BY <3>1
  <2> QED  BY <1>3, <1>4, <2>1
<1>5. ASSUME NEW p \in DOMAIN B
      PROVE  /\ p # o => now[p - 1] = cells[p - 1]
             /\ B[p].a = SEXP_TAG => now[p - 2] = cells[p - 2]
             /\ \A y \in p .. Hi(B, p) : now[y] = cells[y]
  <2>1. /\ p - 1 \in Lo(B, p) + 1 .. Hi(B, p) /\ p \in Nat
        /\ B[p].a = SEXP_TAG => p - 2 \in Lo(B, p) + 1 .. Hi(B, p)
        /\ \A y \in p .. Hi(B, p) : y \in Lo(B, p) + 1 .. Hi(B, p)
    BY BlockFacts
  <2>2. p # o => x \notin Lo(B, p) + 1 .. Hi(B, p)
    BY <1>1, <1>2, BlocksApart
  <2>3. CASE p # o
    BY <1>4, <2>1, <2>2, <2>3
  <2>4. CASE p = o
    <3>1. p - 2 # x /\ \A y \in p .. Hi(B, p) : y # x
      BY <1>2, <2>1, <2>4
    <3> QED  BY <1>4, <2>1, <2>4, <3>1
  <2> QED  BY <2>3, <2>4
<1>6. Body(B, now, arena, {})
  BY <1>5 DEF Body
<1> QED  BY <1>2, <1>3, <1>5, <1>6 DEF Marked

More(C, D) == \A p \in DOMAIN C : p \in DOMAIN D /\ D[p] = C[p]

(* The copies that are being filled stay so when another one is added.             *)
LEMMA FramesGrow ==
  ASSUME NEW B, NEW C, NEW D, More(C, D), NEW fs, FramesOK(B, C, fs)
  PROVE  FramesOK(B, D, fs)
  BY DEF FramesOK, FrameOK, More

(* A root that leads to a copy still does when another one is added.               *)
LEMMA RootsGrow ==
  ASSUME NEW B, NEW C, NEW D, More(C, D), RootsOK(B, C)
  PROVE  RootsOK(B, D)
<1>1. \A w, r : RootOK(B, C, w, r) => RootOK(B, D, w, r)
  BY DEF RootOK, Points, More
<1> QED  BY <1>1 DEF RootsOK

(* Exactly the headers of the objects copied hold forward pointers, each to its    *)
(* copy.                                                                           *)
LEMMA ForwardingGrows ==
  ASSUME NEW B, NEW C, NEW D, More(C, D), NEW old, Forwarding(B, C, old),
         NEW o \in DOMAIN B, NEW c \in DOMAIN D, D[c] = B[o], NEW arena,
         NEW now, Marked(B, old, arena, o, Ptr(to.arena, c), now)
  PROVE  Forwarding(B, D, now)
<1> SUFFICES ASSUME NEW p \in DOMAIN B
             PROVE  \/ now[p - 1] = B[p]
                    \/ \E d \in DOMAIN D : D[d] = B[p] /\ now[p - 1] = Ptr(to.arena, d)
  BY DEF Forwarding
<1>1. CASE p = o
  BY <1>1 DEF Marked
<1>2. CASE p # o
  BY <1>2 DEF Marked, Forwarding, More
<1> QED  BY <1>1, <1>2

(* The words behind the copies become those of an object with header h, of which   *)
(* the components are to come.                                                     *)
Room(h, now, fs) ==
  /\ \A x \in 1 .. current : now[x] = to.cells[x] /\ (x \in Pending(frames) => x \in Pending(fs))
  /\ now[current + HeaderWords(h)] = h
  /\ h.a = SEXP_TAG => now[current + 1].t = "raw"
  /\ h.a = STRING_TAG => \A x \in First(current, h) .. current + Words(h) : now[x].t # "ptr"
  /\ h.a = STRING_TAG \/ \A x \in First(current, h) .. current + Words(h) : x \in Pending(fs)

ForwardedAt(o, copy) == [from.cells EXCEPT ![o - 1] = Ptr(to.arena, copy)]

(* The object o, which has not been copied yet, becomes a copy, and its header     *)
(* leads there.                                                                    *)
LEMMA CopyMade ==
  ASSUME IInv, status = "run", Moving(pc), NEW B, NEW C, Copying(B, C),
         NEW o \in DOMAIN B, from.cells[o - 1] = B[o],
         NEW h, h = B[o], NEW copy, copy = First(current, h), NEW D, D = With(C, current, h),
         NEW marked, marked = ForwardedAt(o, copy),
         NEW now, NEW fs, Room(h, now, fs), FramesOK(B, D, fs)
  PROVE  /\ Copied(B, D, marked, current + Words(h), now, fs)
         /\ marked \in Seq(Word) /\ Len(marked) = Len(from.cells) /\ copy \in DOMAIN D
<1>1. /\ TypeOK /\ used \in Nat /\ current \in Nat /\ Len(from.cells) \in Nat /\ copy \in Nat
      /\ from.cells \in Seq(Word) /\ used <= Len(from.cells) /\ to.arena \in Nat
      /\ h \in Heads /\ Layout(B, used) /\ Words(h) \in Nat
  <2>1. /\ TypeOK /\ used \in Nat /\ current \in Nat /\ Len(from.cells) \in Nat
        /\ from.cells \in Seq(Word) /\ used <= Len(from.cells) /\ to.arena \in Nat
    BY Types DEF IInv
  <2>2. Layout(B, used)
    BY DEF Copying, Copied
  <2>3. h \in Heads
    BY <2>1, <2>2, BlockFacts
  <2> QED  BY <2>1, <2>2, <2>3, HeadFacts DEF First
<1>2. /\ Body(B, from.cells, from.arena, {}) /\ Forwarding(B, C, from.cells)
      /\ Space(C, current, to.cells, to.arena, Pending(frames))
      /\ Cardinality(Spent(B, Moved(B, from.cells))) = current
      /\ RootsOK(B, C) /\ Stale(stack[Len(stack)]) /\ Stale(making.captured)
  BY DEF Copying, Copied
<1>3. Appended(C, current, h, copy, D)
  BY <1>1, <1>2, WithFacts DEF Space
<1>4. More(C, D) /\ copy \in DOMAIN D /\ D[copy] = B[o]
  BY <1>3 DEF Appended, More
<1>5. PICK v : v = Ptr(to.arena, copy)
  OBVIOUS
<1>6. v \in Word /\ v.t = "ptr"
  BY <1>1, <1>5, WordFacts
<1>7. Marked(B, from.cells, from.arena, o, v, marked)
  <2>1. marked = [from.cells EXCEPT ![o - 1] = v]
    BY <1>5 DEF ForwardedAt
  <2> QED  BY <1>1, <1>2, <1>6, <2>1, MarkKeeps
<1>8. Forwarding(B, D, marked)
  BY <1>2, <1>4, <1>5, <1>7, ForwardingGrows
<1>9. Moved(B, marked) = Moved(B, from.cells) \cup {o} /\ o \notin Moved(B, from.cells)
  <2>1. B[o].t # "ptr"
    BY <1>1, HeadFacts
  <2> QED  BY <1>6, <1>7, <2>1 DEF Moved, Marked
<1>10. /\ Cardinality(Spent(B, Moved(B, marked))) = current + Words(h)
       /\ current + Words(h) <= used
  <2>1. Moved(B, from.cells) \in SUBSET DOMAIN B
    BY DEF Moved
  <2>2. /\ Cardinality(Spent(B, Moved(B, from.cells) \cup {o}))
             = Cardinality(Spent(B, Moved(B, from.cells))) + Words(B[o])
        /\ Cardinality(Spent(B, Moved(B, from.cells) \cup {o})) <= used
    BY <1>1, <1>9, <2>1, SpentGrows
  <2> QED  BY <1>2, <1>9, <2>2
<1>11. Space(D, current + Words(h), now, to.arena, Pending(fs))
  <2>1. \A x \in First(current, h) .. current + Words(h) :
          x \in Pending(fs) \/ Points(now[x], to.arena, D)
    BY DEF Points, Room
  <2>2. /\ \A x \in 1 .. current : now[x] = to.cells[x] /\ (x \in Pending(frames) => x \in Pending(fs))
        /\ now[current + HeaderWords(h)] = h
        /\ h.a = SEXP_TAG => now[current + 1].t = "raw"
        /\ h.a = STRING_TAG => \A x \in First(current, h) .. current + Words(h) : now[x].t # "ptr"
    BY DEF Room
  <2> QED  BY <1>1, <1>2, <2>1, <2>2, SpaceGrows
<1>12. RootsOK(B, D)
  BY <1>2, <1>4, RootsGrow
<1>13. Copied(B, D, marked, current + Words(h), now, fs)
  BY <1>1, <1>2, <1>7, <1>8, <1>10, <1>11, <1>12 DEF Copied, Marked
<1> QED  BY <1>4, <1>7, <1>13 DEF Marked

(* copy_elements is entered for f.                                                 *)
LEMMA PushFacts ==
  ASSUME NEW B, NEW C, NEW fs \in Seq(Frame), FramesOK(B, C, fs), NEW f \in Frame,
         FrameOK(B, C, f), fs # <<>> => Last(fs).i < Last(fs).len, NEW gs, gs = Append(fs, f)
  PROVE  /\ gs \in Seq(Frame) /\ gs # <<>> /\ FramesOK(B, C, gs)
         /\ \A x \in Pending(fs) : x \in Pending(gs)
         /\ \A x \in Nat : f.copy + f.i <= x /\ x < f.copy + f.len => x \in Pending(gs)
<1>1. /\ gs \in Seq(Frame) /\ Len(gs) = Len(fs) + 1 /\ gs # <<>>
      /\ DOMAIN gs = 1 .. Len(fs) + 1 /\ gs[Len(fs) + 1] = f
      /\ \A k \in 1 .. Len(fs) : gs[k] = fs[k]
  BY FrameAppend
<1>2. Len(fs) \in Nat /\ DOMAIN fs = 1 .. Len(fs)
  OBVIOUS
<1>3. Len(fs) + 1 \in DOMAIN gs /\ \A k \in DOMAIN fs : k \in DOMAIN gs /\ gs[k] = fs[k]
  BY <1>1, <1>2
<1>4. \A x \in Pending(fs) : x \in Pending(gs)
  BY <1>3 DEF Pending
<1>5. \A x \in Nat : f.copy + f.i <= x /\ x < f.copy + f.len => x \in Pending(gs)
  BY <1>1, <1>3 DEF Pending
<1>6. FramesOK(B, C, gs)
  <2> SUFFICES ASSUME NEW k \in DOMAIN gs
               PROVE  FrameOK(B, C, gs[k]) /\ (k < Len(gs) => gs[k].i < gs[k].len)
    BY DEF FramesOK
  <2>1. CASE k = Len(fs) + 1
    BY <1>1, <1>2, <2>1
  <2>2. CASE k # Len(fs) + 1
    <3>1. k \in DOMAIN fs /\ gs[k] = fs[k]
      BY <1>1, <1>2, <2>2
    <3>2. k = Len(fs) => fs # <<>> /\ Last(fs) = fs[k]
      BY <3>1 DEF Last
    <3>3. k = Len(fs) \/ k < Len(fs)
      BY <1>2, <3>1
    <3> QED  BY <3>1, <3>2, <3>3 DEF FramesOK
  <2> QED  BY <2>1, <2>2
<1> QED  BY <1>1, <1>4, <1>5, <1>6

(* gc_copy copies the words before the first component, and those of a string.     *)
HeaderMoved(cells, new, n, skip, o) ==
  [k \in 1 .. Len(new) |-> IF k \in n + 1 .. n + skip THEN cells[o - skip - 1 + (k - n)] ELSE new[k]]

TextMoved(cells, new, now, n, h, o) ==
  [k \in 1 .. Len(new) |->
     IF k \in First(n, h) .. n + Words(h) THEN cells[o + (k - First(n, h))] ELSE now[k]]

HeaderThere(cells, new, n, h, o, now) ==
  /\ now \in Seq(Word) /\ Len(now) = Len(new) /\ \A x \in 1 .. n : now[x] = new[x]
  /\ now[n + HeaderWords(h)] = h /\ (h.a = SEXP_TAG => now[n + 1] = cells[o - 2])

TextThere(n, h, now, text) ==
  /\ text \in Seq(Word) /\ Len(text) = Len(now)
  /\ \A x \in 1 .. n + HeaderWords(h) : text[x] = now[x]
  /\ \A x \in First(n, h) .. n + Words(h) : text[x].t # "ptr"

(* The header, with the hash of an S-expression, arrives in front of the copy.     *)
LEMMA HeaderCopied ==
  ASSUME NEW cells \in Seq(Word), NEW new \in Seq(Word), NEW m \in Nat, m <= Len(cells),
         NEW n \in Nat, NEW B, Layout(B, m), NEW o \in DOMAIN B, cells[o - 1] = B[o],
         n + Words(B[o]) <= Len(new),
         NEW now, now = HeaderMoved(cells, new, n, HeaderWords(B[o]), o)
  PROVE  HeaderThere(cells, new, n, B[o], o, now)
<1>1. PICK s : s = HeaderWords(B[o])
  OBVIOUS
<1>2. /\ s \in {1, 2} /\ Len(new) \in Nat /\ Len(cells) \in Nat /\ Words(B[o]) \in Nat
      /\ s <= Words(B[o]) /\ (B[o].a = SEXP_TAG => s = 2) /\ o \in Nat
      /\ Lo(B, o) = o - 1 - s /\ Lo(B, o) \in Nat /\ o - 1 <= m
  <2>1. /\ B[o] \in Heads /\ o \in Nat /\ Lo(B, o) \in Nat /\ Lo(B, o) = o - 1 - s
        /\ o - 1 \in Lo(B, o) + 1 .. Hi(B, o)
        /\ \A x \in Lo(B, o) + 1 .. Hi(B, o) : x \in 1 .. m
    BY <1>1, BlockFacts
  <2>2. s \in {1, 2} /\ Words(B[o]) \in Nat /\ s <= Words(B[o]) /\ (B[o].a = SEXP_TAG => s = 2)
    BY <1>1, <2>1, HeadFacts
  <2>3. o - 1 \in 1 .. m
    BY <2>1
  <2> QED  BY <2>1, <2>2, <2>3
<1>3. now = [k \in 1 .. Len(new) |->
               IF k \in n + 1 .. n + s THEN cells[o - s - 1 + (k - n)] ELSE new[k]]
  BY <1>1 DEF HeaderMoved
<1>4. ASSUME NEW k \in n + 1 .. n + s
      PROVE  k \in 1 .. Len(new) /\ o - s - 1 + (k - n) \in 1 .. Len(cells)
  <2>1. k \in Int /\ n + 1 <= k /\ k <= n + s
    BY <1>2
  <2>2. k <= Len(new)
    BY <1>2, <2>1
  <2>3. 1 <= o - s - 1 + (k - n)
    BY <1>2, <2>1
  <2>4. o - s - 1 + (k - n) <= Len(cells)
    BY <1>2, <2>1
  <2> QED  BY <1>2, <2>1, <2>2, <2>3, <2>4
<1>5. now \in [1 .. Len(new) -> Word]
  BY <1>3, <1>4
<1>6. now \in Seq(Word) /\ Len(now) = Len(new)
  BY <1>2, <1>5, FunctionIsWords
<1>7. \A x \in 1 .. n : now[x] = new[x]
  <2> SUFFICES ASSUME NEW x \in 1 .. n PROVE now[x] = new[x]
    OBVIOUS
  <2>1. x \in 1 .. Len(new) /\ x \notin n + 1 .. n + s
    BY <1>2
  <2> QED  BY <1>3, <2>1
<1>8. \A k \in n + 1 .. n + s : now[k] = cells[o - s - 1 + (k - n)]
  BY <1>3, <1>4
<1>9. now[n + s] = B[o]
  <2>1. n + s \in n + 1 .. n + s /\ o - s - 1 + ((n + s) - n) = o - 1
    BY <1>2
  <2>2. now[n + s] = cells[o - s - 1 + ((n + s) - n)]
    BY <1>8, <2>1
  <2> QED  BY <2>1, <2>2
<1>10. B[o].a = SEXP_TAG => now[n + 1] = cells[o - 2]
  <2> SUFFICES ASSUME s = 2 PROVE now[n + 1] = cells[o - 2]
    BY <1>2
  <2>1. n + 1 \in n + 1 .. n + s /\ o - s - 1 + ((n + 1) - n) = o - 2
    BY <1>2
  <2>2. now[n + 1] = cells[o - s - 1 + ((n + 1) - n)]
    BY <1>8, <2>1
  <2> QED  BY <2>1, <2>2
<1> QED  BY <1>1, <1>6, <1>7, <1>9, <1>10 DEF HeaderThere

(* The words of a string arrive behind its header.                                 *)
LEMMA TextCopied ==
  ASSUME NEW cells \in Seq(Word), NEW new \in Seq(Word), NEW m \in Nat, m <= Len(cells),
         NEW n \in Nat, NEW B, Layout(B, m), NEW arena, Body(B, cells, arena, {}),
         NEW o \in DOMAIN B, B[o].a = STRING_TAG,
         n + Words(B[o]) <= Len(new),
         NEW now \in Seq(Word), Len(now) = Len(new),
         NEW text, text = TextMoved(cells, new, now, n, B[o], o)
  PROVE  TextThere(n, B[o], now, text)
<1>1. PICK c : c = First(n, B[o])
  OBVIOUS
<1>2. PICK e : e = n + Words(B[o])
  OBVIOUS
<1>3. /\ c \in Nat /\ c = n + HeaderWords(B[o]) + 1 /\ HeaderWords(B[o]) \in {1, 2} /\ e \in Nat
      /\ o \in Nat /\ o >= 2 /\ Hi(B, o) = o - 1 - HeaderWords(B[o]) + Words(B[o])
      /\ Words(B[o]) \in Nat /\ HeaderWords(B[o]) <= Words(B[o])
      /\ Hi(B, o) <= m /\ Len(new) \in Nat /\ Len(cells) \in Nat
  <2>1. /\ B[o] \in Heads /\ o \in Nat /\ o >= 2 /\ Hi(B, o) <= m
        /\ Hi(B, o) = Lo(B, o) + Words(B[o]) /\ Lo(B, o) = o - 1 - HeaderWords(B[o])
    BY BlockFacts
  <2>2. HeaderWords(B[o]) \in {1, 2} /\ Words(B[o]) \in Nat /\ HeaderWords(B[o]) <= Words(B[o])
    BY <2>1, HeadFacts
  <2>3. /\ c = n + HeaderWords(B[o]) + 1 /\ e = n + Words(B[o])
        /\ Hi(B, o) = o - 1 - HeaderWords(B[o]) + Words(B[o])
    BY <1>1, <1>2, <2>1 DEF First
  <2>4. c \in Nat /\ e \in Nat
    <3>1. \A s \in {1, 2} : n + s + 1 \in Nat
      OBVIOUS
    <3> QED  BY <2>2, <2>3, <3>1
  <2>5. Len(new) \in Nat /\ Len(cells) \in Nat
    OBVIOUS
  <2> QED  BY <2>1, <2>2, <2>3, <2>4, <2>5
<1>4. text = [k \in 1 .. Len(new) |-> IF k \in c .. e THEN cells[o + (k - c)] ELSE now[k]]
  BY <1>1, <1>2 DEF TextMoved
<1>5. ASSUME NEW k \in c .. e
      PROVE  /\ k \in 1 .. Len(new) /\ o + (k - c) \in 1 .. Len(cells)
             /\ o + (k - c) \in o .. Hi(B, o)
  <2>1. PICK s, t : s = HeaderWords(B[o]) /\ t = Words(B[o])
    OBVIOUS
  <2>2. PICK hi : hi = Hi(B, o)
    OBVIOUS
  <2>3. /\ s \in {1, 2} /\ t \in Nat /\ c = n + s + 1 /\ hi = o - 1 - s + t /\ hi <= m
        /\ e = n + t /\ e <= Len(new)
    BY <1>2, <1>3, <2>1, <2>2
  <2>4. PICK l, u : l = Len(new) /\ u = Len(cells)
    OBVIOUS
  <2>5. l \in Nat /\ u \in Nat /\ e <= l /\ m <= u /\ o \in Nat /\ o >= 2
    BY <1>3, <2>3, <2>4
  <2>6. k \in 1 .. l /\ o + (k - c) \in 1 .. u /\ o + (k - c) \in o .. hi
    BY <2>3, <2>5
  <2> QED  BY <2>2, <2>4, <2>6
<1>6. text \in [1 .. Len(new) -> Word]
  BY <1>4, <1>5
<1>7. text \in Seq(Word) /\ Len(text) = Len(new)
  BY <1>3, <1>6, FunctionIsWords
<1>8. \A x \in 1 .. n + HeaderWords(B[o]) : text[x] = now[x]
  <2> SUFFICES ASSUME NEW x \in 1 .. n + HeaderWords(B[o]) PROVE text[x] = now[x]
    OBVIOUS
  <2>1. x \in 1 .. Len(new) /\ x \notin c .. e
    BY <1>3
  <2> QED  BY <1>4, <2>1
<1>9. \A x \in c .. e : text[x].t # "ptr"
  <2> SUFFICES ASSUME NEW x \in c .. e PROVE text[x].t # "ptr"
    OBVIOUS
  <2>1. text[x] = cells[o + (x - c)] /\ o + (x - c) \in o .. Hi(B, o)
    BY <1>4, <1>5
  <2> QED  BY <2>1 DEF Body
<1> QED  BY <1>1, <1>2, <1>7, <1>8, <1>9 DEF TextThere

(* gc_copy: an object copied before is not copied again, and the copy of another   *)
(* one fits.                                                                       *)
LEMMA GcCopyKeeps ==
  ASSUME IInv, status = "run", Moving(pc), UNCHANGED <<code, making>>,
         frames # <<>> => Last(frames).i < Last(frames).len,
         NEW B, NEW C, Copying(B, C), NEW o \in DOMAIN B, gc_copy(o)
  PROVE  IInv'
<1>1. PICK header : header = from.cells[o - 1]
  OBVIOUS
<1>2. PICK copy : copy = First(current, header)
  OBVIOUS
<1>3. PICK moved : moved = HeaderMoved(from.cells, to.cells, current, HeaderWords(header), o)
  OBVIOUS
<1>4. PICK text : text = TextMoved(from.cells, to.cells, moved, current, header, o)
  OBVIOUS
<1>5. PICK D : D = With(C, current, header)
  OBVIOUS
<1>6. PICK marked : marked = ForwardedAt(o, copy)
  OBVIOUS
<1>7. PICK f : f = [obj |-> o, len |-> header.b, i |-> 0, copy |-> copy]
  OBVIOUS
<1>8. \/ current > Len(to.cells)
      \/ /\ IsForwardPtr(header) /\ Deliver(header, frames, to.cells)
         /\ UNCHANGED <<from, used, current, space, arenas, request, status>>
      \/ header.t # "header" /\ ~IsForwardPtr(header)
      \/ /\ header.t = "header"
         /\ current' = current + Words(header)
         /\ from' = [from EXCEPT !.cells = marked]
         /\ IF current + Words(header) > Len(to.cells)
            THEN TRUE
            ELSE IF header.a = STRING_TAG
            THEN Deliver(Ptr(to.arena, copy), frames, text) /\ UNCHANGED status
            ELSE /\ to' = [to EXCEPT !.cells = moved] /\ frames' = Append(frames, f)
                 /\ pc' = "copy" /\ UNCHANGED <<stack, extra, root, status>>
         /\ UNCHANGED <<used, space, arenas, request>>
  BY <1>1, <1>2, <1>3, <1>4, <1>6, <1>7
     DEF gc_copy, First, HeaderMoved, TextMoved, Forwarded, ForwardedAt
<1>9. /\ TypeOK /\ used \in Nat /\ current \in Nat /\ Len(from.cells) \in Nat
      /\ Len(to.cells) \in Nat /\ from.cells \in Seq(Word) /\ to.cells \in Seq(Word)
      /\ from \in Pools /\ to \in Pools /\ frames \in Seq(Frame) /\ to.arena \in Nat
      /\ stack \in Seq(Word) /\ extra \in Seq(Word) /\ root \in Nat \ {0}
      /\ used < Len(from.cells) /\ Len(from.cells) <= Len(to.cells)
  BY Types, MovingFacts DEF IInv
<1>10. /\ Layout(B, used) /\ Body(B, from.cells, from.arena, {}) /\ Forwarding(B, C, from.cells)
       /\ Space(C, current, to.cells, to.arena, Pending(frames)) /\ Layout(C, current)
       /\ FramesOK(B, C, frames) /\ current <= used
       /\ Cardinality(Spent(B, Moved(B, from.cells))) = current
  BY DEF Copying, Copied, Space
<1>11. B[o] \in Heads /\ B[o].t = "header" /\ o \in Nat /\ o - 1 \in 1 .. used
  <2>1. B[o] \in Heads /\ o \in Nat /\ o - 1 \in Lo(B, o) + 1 .. Hi(B, o)
        /\ \A x \in Lo(B, o) + 1 .. Hi(B, o) : x \in 1 .. used
    BY <1>9, <1>10, BlockFacts
  <2> QED  BY <2>1, HeadFacts
<1>12. header \in Word
  BY <1>1, <1>9, <1>11
<1>13. \/ header = B[o]
       \/ \E c \in DOMAIN C : C[c] = B[o] /\ header = Ptr(to.arena, c)
  BY <1>1, <1>10 DEF Forwarding
<1>14. ASSUME NEW c \in DOMAIN C
       PROVE  IsForwardPtr(Ptr(to.arena, c)) /\ Points(Ptr(to.arena, c), to.arena, C)
  <2>1. c \in Nat /\ c - 1 <= Hi(C, c) /\ Hi(C, c) <= current /\ Hi(C, c) \in Nat
    BY <1>9, <1>10, BlockFacts
  <2>2. c <= Len(to.cells)
    BY <1>9, <1>10, <2>1
  <2>3. Ptr(to.arena, c).t = "ptr" /\ Ptr(to.arena, c).a = to.arena /\ Ptr(to.arena, c).b = c
    BY <1>9, <2>1, PtrFacts
  <2> QED  BY <2>2, <2>3 DEF IsForwardPtr, Points
<1>15. CASE header.t # "header"
  <2>1. PICK c \in DOMAIN C : header = Ptr(to.arena, c)
    BY <1>11, <1>13, <1>15
  <2>2. /\ Deliver(header, frames, to.cells)
        /\ UNCHANGED <<from, used, current, space, arenas, request, status>>
    BY <1>8, <1>9, <1>10, <1>14, <1>15, <2>1
  <2>3. Copied(B, C, from'.cells, current', to.cells, frames)
    BY <2>2 DEF Copying
  <2>4. Points(header, to.arena, C)
    BY <1>14, <2>1
  <2> QED  BY <1>9, <1>12, <2>2, <2>3, <2>4, DeliverKeeps
<1>16. CASE header.t = "header"
  <2>1. header = B[o] /\ o \notin Moved(B, from.cells)
    <3>1. \A c \in DOMAIN C : Ptr(to.arena, c).t = "ptr"
      BY <1>14 DEF IsForwardPtr
    <3> QED  BY <1>1, <1>13, <1>16, <3>1 DEF Moved
  <2>2. current + Words(header) <= used /\ Words(header) \in Nat
    <3>1. Moved(B, from.cells) \in SUBSET DOMAIN B
      BY DEF Moved
    <3>2. /\ Cardinality(Spent(B, Moved(B, from.cells) \cup {o})) = current + Words(header)
          /\ Cardinality(Spent(B, Moved(B, from.cells) \cup {o})) <= used
      BY <1>9, <1>10, <2>1, <3>1, SpentGrows
    <3> QED  BY <1>11, <2>1, <3>2, HeadFacts
  <2>3. current + Words(header) <= Len(to.cells)
    BY <1>9, <2>2
  <2>4. ~IsForwardPtr(header)
    BY <1>16 DEF IsForwardPtr
  <2>5. /\ current' = current + Words(header) /\ from' = [from EXCEPT !.cells = marked]
        /\ IF header.a = STRING_TAG
           THEN Deliver(Ptr(to.arena, copy), frames, text)
           ELSE /\ to' = [to EXCEPT !.cells = moved] /\ frames' = Append(frames, f)
                /\ pc' = "copy" /\ UNCHANGED <<stack, extra, root>>
        /\ UNCHANGED <<used, space, arenas, request, status>>
    <3>1. ~(current > Len(to.cells)) /\ ~(current + Words(header) > Len(to.cells))
      BY <1>9, <1>10, <2>2, <2>3
    <3> QED  BY <1>8, <1>16, <2>4, <3>1
  <2>6. /\ moved \in Seq(Word) /\ Len(moved) = Len(to.cells)
        /\ \A x \in 1 .. current : moved[x] = to.cells[x]
        /\ moved[current + HeaderWords(header)] = header
        /\ header.a = SEXP_TAG => moved[current + 1].t = "raw"
    <3>1. /\ moved \in Seq(Word) /\ Len(moved) = Len(to.cells)
          /\ \A x \in 1 .. current : moved[x] = to.cells[x]
          /\ moved[current + HeaderWords(header)] = header
          /\ header.a = SEXP_TAG => moved[current + 1] = from.cells[o - 2]
      <4>1. /\ used <= Len(from.cells) /\ current + Words(B[o]) <= Len(to.cells)
            /\ from.cells[o - 1] = B[o]
            /\ moved = HeaderMoved(from.cells, to.cells, current, HeaderWords(B[o]), o)
        BY <1>1, <1>3, <1>9, <2>1, <2>3
      <4>2. HeaderThere(from.cells, to.cells, current, B[o], o, moved)
        BY <1>9, <1>10, <4>1, HeaderCopied
      <4> QED  BY <2>1, <4>2 DEF HeaderThere
    <3>2. header.a = SEXP_TAG => from.cells[o - 2].t = "raw"
      BY <1>10, <2>1 DEF Body
    <3> QED  BY <3>1, <3>2
  <2>7. HeaderWords(header) \in {1, 2} /\ copy = current + HeaderWords(header) + 1 /\ copy \in Nat
    <3>1. HeaderWords(header) \in {1, 2}
      BY <1>11, <2>1, HeadFacts
    <3>2. copy = current + HeaderWords(header) + 1
      BY <1>2 DEF First
    <3> QED  BY <1>9, <3>1, <3>2
  <2>8. Appended(C, current, header, copy, D) /\ More(C, D)
    <3>1. Appended(C, current, header, copy, D)
      BY <1>2, <1>5, <1>9, <1>10, <1>11, <2>1, WithFacts
    <3> QED  BY <3>1 DEF Appended, More
  <2>9. FramesOK(B, D, frames)
    BY <1>10, <2>8, FramesGrow
  <2>10. current' \in Nat
    BY <1>9, <2>2, <2>5
  <2>11. marked \in Seq(Word) /\ Len(marked) = Len(from.cells) =>
           from' \in Pools /\ from'.cells = marked /\ from'.arena = from.arena
    BY <1>9, <2>5 DEF Pools
  <2>12. CASE header.a = STRING_TAG
    <3>1. /\ text \in Seq(Word) /\ Len(text) = Len(to.cells)
          /\ \A x \in 1 .. current + HeaderWords(header) : text[x] = moved[x]
          /\ \A x \in copy .. current + Words(header) : text[x].t # "ptr"
      <4>1. /\ used <= Len(from.cells) /\ current + Words(B[o]) <= Len(to.cells)
            /\ B[o].a = STRING_TAG
            /\ text = TextMoved(from.cells, to.cells, moved, current, B[o], o)
        BY <1>4, <1>9, <2>1, <2>3, <2>12
      <4>2. TextThere(current, B[o], moved, text)
        BY <1>9, <1>10, <2>6, <4>1, TextCopied
      <4> QED  BY <1>2, <2>1, <2>6, <4>2 DEF TextThere
    <3>2. \A x \in 1 .. current : text[x] = to.cells[x] /\ (x \in Pending(frames) => x \in Pending(frames))
      <4> SUFFICES ASSUME NEW x \in 1 .. current PROVE text[x] = to.cells[x]
        OBVIOUS
      <4>1. x \in 1 .. current + HeaderWords(header)
        BY <1>9, <2>7
      <4> QED  BY <2>6, <3>1, <4>1
    <3>3. text[current + HeaderWords(header)] = header
      <4>1. current + HeaderWords(header) \in 1 .. current + HeaderWords(header)
        BY <1>9, <2>7
      <4> QED  BY <2>6, <3>1, <4>1
    <3>4. header.a # SEXP_TAG
      BY <2>12 DEF STRING_TAG, SEXP_TAG
    <3>5. /\ Copied(B, D, marked, current + Words(header), text, frames)
          /\ marked \in Seq(Word) /\ Len(marked) = Len(from.cells) /\ copy \in DOMAIN D
      <4>1. from.cells[o - 1] = B[o]
        BY <1>1, <2>1
      <4>2. Room(header, text, frames)
        BY <1>2, <2>12, <3>1, <3>2, <3>3, <3>4 DEF Room
      <4>3. header = B[o]
        BY <2>1
      <4> QED  BY <1>2, <1>5, <1>6, <2>9, <4>1, <4>2, <4>3, CopyMade
    <3>6. Ptr(to.arena, copy) \in Word /\ Points(Ptr(to.arena, copy), to.arena, D)
      <4>1. /\ Ptr(to.arena, copy) \in Word /\ Ptr(to.arena, copy).a = to.arena
            /\ Ptr(to.arena, copy).b = copy
        <5>1. to.arena \in Nat /\ copy \in Nat
          BY <1>9, <2>7
        <5> QED  BY <5>1, PtrFacts
      <4> QED  BY <3>5, <4>1 DEF Points
    <3>7. from' \in Pools /\ from'.cells = marked /\ from'.arena = from.arena
      BY <2>11, <3>5
    <3>8. Copied(B, D, from'.cells, current', text, frames)
      BY <2>5, <3>5, <3>7
    <3>9. Deliver(Ptr(to.arena, copy), frames, text)
      BY <2>5, <2>12
    <3> QED  BY <1>9, <2>5, <2>10, <3>1, <3>5, <3>6, <3>7, <3>8, <3>9, DeliverKeeps
  <2>13. CASE header.a # STRING_TAG
    <3>1. Words(header) = HeaderWords(header) + header.b /\ header.b \in Nat
      BY <1>11, <2>1, <2>13, HeadFacts
    <3>2. /\ f \in Frame /\ f.obj = o /\ f.len = header.b /\ f.i = 0 /\ f.copy = copy
      BY <1>7, <1>11, <2>7, <3>1 DEF Frame
    <3>3. FrameOK(B, D, f)
      BY <2>1, <2>8, <2>13, <3>1, <3>2 DEF FrameOK, Appended
    <3>4. PICK gs : gs = Append(frames, f)
      OBVIOUS
    <3>5. /\ gs \in Seq(Frame) /\ gs # <<>> /\ FramesOK(B, D, gs)
          /\ \A x \in Pending(frames) : x \in Pending(gs)
          /\ \A x \in Nat : f.copy + f.i <= x /\ x < f.copy + f.len => x \in Pending(gs)
      BY <1>9, <2>9, <3>2, <3>3, <3>4, PushFacts
    <3>6. \A x \in copy .. current + Words(header) : x \in Pending(gs)
      <4> SUFFICES ASSUME NEW x \in copy .. current + Words(header) PROVE x \in Pending(gs)
        OBVIOUS
      <4>1. x \in Nat /\ copy + 0 <= x /\ x < copy + header.b
        <5>1. PICK k, l, n : k = HeaderWords(header) /\ l = header.b /\ n = Words(header)
          OBVIOUS
        <5>2. k \in {1, 2} /\ l \in Nat /\ copy = current + k + 1 /\ n = k + l /\ copy \in Nat
              /\ current \in Nat /\ x \in copy .. current + n
          BY <1>9, <2>7, <3>1, <5>1
        <5>3. x \in Nat /\ copy + 0 <= x /\ x < copy + l
          BY <5>2
        <5> QED  BY <5>1, <5>3
      <4> QED  BY <3>2, <3>5, <4>1
    <3>7. /\ Copied(B, D, marked, current + Words(header), moved, gs)
          /\ marked \in Seq(Word) /\ Len(marked) = Len(from.cells)
      <4>1. from.cells[o - 1] = B[o]
        BY <1>1, <2>1
      <4>2. Room(header, moved, gs)
        BY <1>2, <2>6, <2>13, <3>5, <3>6 DEF Room
      <4>3. header = B[o] /\ FramesOK(B, D, gs)
        BY <2>1, <3>5
      <4> QED  BY <1>2, <1>5, <1>6, <4>1, <4>2, <4>3, CopyMade
    <3>8. from' \in Pools /\ from'.cells = marked /\ from'.arena = from.arena
      BY <2>11, <3>7
    <3>9. /\ to' = [to EXCEPT !.cells = moved] /\ frames' = gs
          /\ pc' = "copy" /\ UNCHANGED <<stack, extra, root>>
      BY <2>5, <2>13, <3>4
    <3>10. to' \in Pools /\ to'.cells = moved /\ to'.arena = to.arena
      BY <1>9, <2>6, <3>9 DEF Pools
    <3>11. Copying(B, D)'
      BY <2>5, <3>7, <3>8, <3>9, <3>10
         DEF Copying, Copied, Stale, Forwarding, RootsOK, RootOK
    <3> QED  BY <1>9, <2>5, <2>6, <2>10, <3>5, <3>7, <3>8, <3>9, <3>10, <3>11, GoesOn DEF Moving
  <2> QED  BY <2>12, <2>13
<1> QED  BY <1>15, <1>16

-----------------------------------------------------------------------------------
(* The other steps of the collector.                                               *)
LEMMA CopyingFacts ==
  ASSUME IInv, status = "run", Moving(pc)
  PROVE  /\ TypeOK /\ used \in Nat /\ current \in Nat /\ Len(from.cells) \in Nat
         /\ Len(to.cells) \in Nat /\ from.cells \in Seq(Word) /\ to.cells \in Seq(Word)
         /\ from \in Pools /\ to \in Pools /\ frames \in Seq(Frame) /\ to.arena \in Nat
         /\ from.arena \in Nat /\ stack \in Seq(Word) /\ extra \in Seq(Word)
         /\ root \in Nat \ {0} /\ Len(stack) \in Nat \ {0} /\ Len(extra) \in Nat
         /\ used < Len(from.cells) /\ Len(from.cells) <= Len(to.cells)
         /\ from.arena < to.arena
         /\ pc = "copy" <=> frames # <<>>
<1>1. TypeOK /\ (pc = "copy" <=> frames # <<>>)
  BY DEF IInv, TypeOK
<1> QED  BY <1>1, Types, MovingFacts

LEMMA ScanRootKeeps ==
  ASSUME IInv, status = "run", ScanRoot, UNCHANGED <<code, making>>
  PROVE  IInv'
<1>1. pc = "roots" /\ root <= Roots /\ Moving(pc)
  BY DEF ScanRoot, Moving
<1>2. PICK B, C : Copying(B, C)
  BY <1>1, MovingFacts
<1>3. PICK w : w = RootWord(root)
  OBVIOUS
<1>4. /\ TypeOK /\ from \in Pools /\ to \in Pools /\ current \in Nat /\ root \in Nat \ {0}
      /\ Len(stack) \in Nat \ {0} /\ Len(extra) \in Nat /\ stack \in Seq(Word)
      /\ extra \in Seq(Word) /\ used < Len(from.cells) /\ from.arena < to.arena /\ frames = <<>>
      /\ to.cells \in Seq(Word)
  BY <1>1, CopyingFacts
<1>5. RootsOK(B, C) /\ Layout(B, used)
  BY <1>2 DEF Copying, Copied
<1>6. w \in Word /\ Points(w, from.arena, B)
  <2>1. CASE OnStack(root)
    <3>1. PICK k : k = Len(stack) - root
      OBVIOUS
    <3>2. k \in 1 .. Len(stack) - 1 /\ Len(stack) - k = root /\ w = stack[k]
      BY <1>3, <1>4, <2>1, <3>1 DEF OnStack, RootWord
    <3>3. RootOK(B, C, w, root)
      BY <1>5, <3>2 DEF RootsOK
    <3> QED  BY <1>4, <3>2, <3>3 DEF RootOK
  <2>2. CASE ~OnStack(root)
    <3>1. PICK k : k = root - Len(stack) + 1
      OBVIOUS
    <3>2. k \in DOMAIN extra /\ Len(stack) - 1 + k = root /\ w = extra[k]
      BY <1>1, <1>3, <1>4, <2>2, <3>1 DEF OnStack, RootWord, Roots
    <3>3. RootOK(B, C, w, root)
      BY <1>5, <3>2 DEF RootsOK
    <3> QED  BY <1>4, <3>2, <3>3 DEF RootOK
  <2> QED  BY <2>1, <2>2
<1>7. CASE IsValidHeapPointer(w)
  <2>1. w.b \in DOMAIN B
    BY <1>4, <1>5, <1>6, <1>7, OldWord
  <2>2. gc_copy(w.b)
    BY <1>3, <1>7 DEF ScanRoot
  <2> QED  BY <1>1, <1>2, <1>4, <2>1, <2>2, GcCopyKeeps
<1>8. CASE ~IsValidHeapPointer(w)
  <2>1. Points(w, to.arena, C)
    BY <1>4, <1>5, <1>6, <1>8, OldWord
  <2>2. /\ root' = root + 1
        /\ UNCHANGED <<from, used, to, current, space, arenas, pc, frames, request, status,
                       stack, extra>>
    BY <1>3, <1>8 DEF ScanRoot, pools
  <2>3. Deliver(w, <<>>, to.cells)
    <3>1. to = [to EXCEPT !.cells = to.cells]
      BY <1>4 DEF Pools
    <3>2. OnStack(root) => stack = [stack EXCEPT ![Len(stack) - root] = w]
      BY <1>3, <1>4 DEF RootWord
    <3>3. ~OnStack(root) => extra = [extra EXCEPT ![root - Len(stack) + 1] = w]
      BY <1>3, <1>4 DEF RootWord
    <3> QED  BY <1>1, <1>4, <2>2, <3>1, <3>2, <3>3 DEF Deliver
  <2>4. Copied(B, C, from'.cells, current', to.cells, <<>>)
    BY <1>2, <1>4, <2>2 DEF Copying
  <2> QED  BY <1>1, <1>4, <1>6, <2>1, <2>2, <2>3, <2>4, ToRoot
<1> QED  BY <1>7, <1>8

LEMMA CopyElementKeeps ==
  ASSUME IInv, status = "run", CopyElement, UNCHANGED <<code, making>>
  PROVE  IInv'
<1>1. pc = "copy" /\ Moving(pc)
  BY DEF CopyElement, Moving
<1>2. PICK B, C : Copying(B, C)
  BY <1>1, MovingFacts
<1>3. PICK f : f = Last(frames)
  OBVIOUS
<1>4. PICK w : w = from.cells[f.obj + f.i]
  OBVIOUS
<1>5. /\ f.i < f.len
      /\ IF IsValidHeapPointer(w) THEN gc_copy(w.b)
         ELSE /\ Deliver(w, frames, to.cells)
              /\ UNCHANGED <<from, used, current, space, arenas, request, status>>
  BY <1>3, <1>4 DEF CopyElement
<1>6. /\ TypeOK /\ from \in Pools /\ to \in Pools /\ current \in Nat /\ used \in Nat
      /\ used < Len(from.cells) /\ Len(from.cells) \in Nat /\ from.arena < to.arena
      /\ frames \in Seq(Frame) /\ frames # <<>> /\ to.cells \in Seq(Word)
      /\ from.cells \in Seq(Word)
  BY <1>1, CopyingFacts
<1>7. /\ Layout(B, used) /\ Body(B, from.cells, from.arena, {}) /\ FramesOK(B, C, frames)
  BY <1>2 DEF Copying, Copied
<1>8. /\ f \in Frame /\ FrameOK(B, C, f)
  BY <1>3, <1>6, <1>7, FrontFacts DEF FramesOK
<1>9. f.obj \in DOMAIN B /\ B[f.obj].a # STRING_TAG /\ f.len = B[f.obj].b
      /\ f.i \in Nat /\ f.len \in Nat /\ f.obj \in Nat
  BY <1>8, FrameFacts DEF FrameOK
<1>10. f.obj + f.i \in f.obj .. Hi(B, f.obj) /\ f.obj + f.i \in 1 .. Len(from.cells)
  <2>1. /\ Hi(B, f.obj) = f.obj - 1 + f.len
    BY <1>6, <1>7, <1>9, ObjectEnd
  <2>2. Hi(B, f.obj) <= used /\ f.obj >= 2
    BY <1>6, <1>7, <1>9, BlockFacts
  <2> QED  BY <1>5, <1>6, <1>9, <2>1, <2>2
<1>11. w \in Word /\ Points(w, from.arena, B)
  BY <1>4, <1>6, <1>7, <1>9, <1>10 DEF Body
<1>12. CASE IsValidHeapPointer(w)
  <2>1. w.b \in DOMAIN B
    BY <1>6, <1>7, <1>11, <1>12, OldWord
  <2>2. gc_copy(w.b)
    BY <1>5, <1>12
  <2> QED  BY <1>1, <1>2, <1>3, <1>5, <2>1, <2>2, GcCopyKeeps
<1>13. CASE ~IsValidHeapPointer(w)
  <2>1. Points(w, to.arena, C)
    BY <1>6, <1>7, <1>11, <1>13, OldWord
  <2>2. /\ Deliver(w, frames, to.cells)
        /\ UNCHANGED <<from, used, current, space, arenas, request, status>>
    BY <1>5, <1>13
  <2>3. Copied(B, C, from'.cells, current', to.cells, frames)
    BY <1>2, <2>2 DEF Copying
  <2> QED  BY <1>1, <1>3, <1>5, <1>6, <1>11, <2>1, <2>2, <2>3, DeliverKeeps
<1> QED  BY <1>12, <1>13

(* The innermost activation of copy_elements has nothing left to do.               *)
LEMMA PopFacts ==
  ASSUME NEW B, NEW C, NEW fs \in Seq(Frame), fs # <<>>, FramesOK(B, C, fs),
         Last(fs).i = Last(fs).len, NEW gs, gs = Front(fs)
  PROVE  /\ gs \in Seq(Frame) /\ FramesOK(B, C, gs) /\ Pending(fs) \subseteq Pending(gs)
         /\ gs # <<>> => Last(gs).i < Last(gs).len
<1>1. /\ Last(fs) = fs[Len(fs)] /\ Len(fs) \in DOMAIN fs /\ Last(fs) \in Frame
      /\ gs \in Seq(Frame) /\ Len(gs) = Len(fs) - 1 /\ Len(fs) \in Nat \ {0}
      /\ DOMAIN fs = 1 .. Len(fs) /\ DOMAIN gs = 1 .. Len(fs) - 1
      /\ \A k \in 1 .. Len(fs) - 1 : gs[k] = fs[k]
  BY FrontFacts
<1>2. ASSUME NEW k \in DOMAIN gs
      PROVE  k \in DOMAIN fs /\ k < Len(fs) /\ gs[k] = fs[k]
  BY <1>1
<1>3. FramesOK(B, C, gs)
  BY <1>1, <1>2 DEF FramesOK
<1>4. Pending(fs) \subseteq Pending(gs)
  <2> SUFFICES ASSUME NEW x \in Nat, NEW k \in DOMAIN fs,
                      fs[k].copy + fs[k].i <= x, x < fs[k].copy + fs[k].len
               PROVE  k \in DOMAIN gs
    BY <1>2 DEF Pending
  <2>1. k # Len(fs)
    <3>1. Last(fs).copy \in Nat /\ Last(fs).len \in Nat
      BY <1>1, FrameFacts
    <3> QED  BY <1>1, <3>1
  <2> QED  BY <1>1, <2>1
<1>5. gs # <<>> => Last(gs).i < Last(gs).len
  <2> SUFFICES ASSUME gs # <<>> PROVE Last(gs).i < Last(gs).len
    OBVIOUS
  <2>1. Last(gs) = gs[Len(gs)] /\ Len(gs) \in DOMAIN gs
    BY <1>1, FrontFacts
  <2> QED  BY <1>2, <2>1 DEF FramesOK
<1> QED  BY <1>1, <1>3, <1>4, <1>5

LEMMA CopyDoneKeeps ==
  ASSUME IInv, status = "run", CopyDone, UNCHANGED <<code, making>>
  PROVE  IInv'
<1>1. pc = "copy" /\ Moving(pc)
  BY DEF CopyDone, Moving
<1>2. PICK B, C : Copying(B, C)
  BY <1>1, MovingFacts
<1>3. PICK f : f = Last(frames)
  OBVIOUS
<1>4. PICK gs : gs = Front(frames)
  OBVIOUS
<1>5. /\ f.i = f.len /\ Deliver(Ptr(to.arena, f.copy), gs, to.cells)
      /\ UNCHANGED <<from, used, current, space, arenas, request, status>>
  BY <1>3, <1>4 DEF CopyDone
<1>6. /\ TypeOK /\ from \in Pools /\ to \in Pools /\ current \in Nat
      /\ frames \in Seq(Frame) /\ frames # <<>> /\ to.cells \in Seq(Word) /\ to.arena \in Nat
  BY <1>1, CopyingFacts
<1>7. FramesOK(B, C, frames) /\ Space(C, current, to.cells, to.arena, Pending(frames))
  BY <1>2 DEF Copying, Copied
<1>8. f \in Frame /\ f.copy \in DOMAIN C /\ f.copy \in Nat
  <2>1. f \in Frame /\ FrameOK(B, C, f)
    BY <1>3, <1>6, <1>7, FrontFacts DEF FramesOK
  <2> QED  BY <2>1, FrameFacts DEF FrameOK
<1>9. /\ gs \in Seq(Frame) /\ FramesOK(B, C, gs) /\ Pending(frames) \subseteq Pending(gs)
      /\ gs # <<>> => Last(gs).i < Last(gs).len
  BY <1>3, <1>4, <1>5, <1>6, <1>7, PopFacts
<1>10. Space(C, current, to.cells, to.arena, Pending(gs))
  BY <1>7, <1>9 DEF Space, Body
<1>11. Copied(B, C, from'.cells, current', to.cells, gs)
  BY <1>2, <1>5, <1>9, <1>10 DEF Copying, Copied
<1>12. Ptr(to.arena, f.copy) \in Word /\ Points(Ptr(to.arena, f.copy), to.arena, C)
  <2>1. /\ Ptr(to.arena, f.copy) \in Word /\ Ptr(to.arena, f.copy).a = to.arena
        /\ Ptr(to.arena, f.copy).b = f.copy
    BY <1>6, <1>8, PtrFacts
  <2> QED  BY <1>8, <2>1 DEF Points
<1> QED  BY <1>1, <1>5, <1>6, <1>9, <1>11, <1>12, DeliverKeeps

LEMMA RootsDoneKeeps ==
  ASSUME IInv, status = "run", RootsDone, UNCHANGED <<code, making>>
  PROVE  IInv'
<1>1. pc = "roots" /\ root > Roots /\ Moving(pc) /\ UNCHANGED <<stack, extra>>
  BY DEF RootsDone, Moving
<1>2. PICK B, C : Copying(B, C)
  BY <1>1, MovingFacts
<1>3. /\ TypeOK /\ from \in Pools /\ to \in Pools /\ current \in Nat /\ used \in Nat
      /\ stack \in Seq(Word) /\ extra \in Seq(Word) /\ frames = <<>> /\ root \in Nat \ {0}
      /\ Len(from.cells) \in Nat /\ Len(to.cells) \in Nat
      /\ used < Len(from.cells) /\ Len(from.cells) <= Len(to.cells) /\ frames \in Seq(Frame)
  BY <1>1, CopyingFacts
<1>4. current <= used
  BY <1>2 DEF Copying, Copied
<1>5. InPassiveSpace(current)
  BY <1>3, <1>4 DEF InPassiveSpace
<1>6. /\ pc' = "room"
      /\ UNCHANGED <<from, used, to, current, space, arenas, root, frames, request, status>>
  BY <1>5 DEF RootsDone, pools
<1>7. Copying(B, C)'
  BY <1>1, <1>2, <1>6 DEF Copying, Copied, Stale, Forwarding, RootsOK, RootOK
<1>8. root' > Roots'
  BY <1>1, <1>6 DEF Roots
<1> QED  BY <1>1, <1>3, <1>6, <1>7, <1>8, GoesOn DEF Moving

(* When all roots are scanned.                                                     *)
LEMMA RoomFacts ==
  ASSUME IInv, status = "run", pc = "room"
  PROVE  /\ Moving(pc) /\ TypeOK /\ Waiting /\ Len(to.cells) = space /\ frames = <<>>
         /\ root > Roots /\ current < Len(to.cells) /\ to.arena <= arenas /\ arenas \in Nat
         /\ code \in Progs /\ from.arena < to.arena /\ from.arena \in Nat /\ to.arena \in Nat
         /\ space \in Nat /\ current \in Nat /\ request \in Nat /\ to \in Pools
         /\ to.cells \in Seq(Word) /\ used < Len(from.cells) /\ from.arena <= arenas
         /\ \E B, C : Copying(B, C)
<1>1. Moving(pc)
  BY DEF Moving
<1>2. PICK B, C : Copying(B, C)
  BY <1>1, MovingFacts
<1>3. current <= used
  BY <1>2 DEF Copying, Copied
<1>4. current < Len(to.cells) /\ frames = <<>>
  BY <1>1, <1>3, CopyingFacts
<1>5. root > Roots
  BY <1>1 DEF IInv
<1> QED  BY <1>1, <1>2, <1>4, <1>5, MovingFacts, CopyingFacts, Types DEF IInv

(* Words behind the objects are of no account.                                     *)
LEMMA SpaceAgrees ==
  ASSUME NEW B, NEW n \in Nat, NEW cells, NEW arena, NEW P, Space(B, n, cells, arena, P),
         NEW now, \A x \in 1 .. n : now[x] = cells[x]
  PROVE  Space(B, n, now, arena, P)
<1>1. Layout(B, n) /\ InPlace(B, cells) /\ Body(B, cells, arena, P)
  BY DEF Space
<1>2. ASSUME NEW o \in DOMAIN B
      PROVE  /\ now[o - 1] = cells[o - 1] /\ (B[o].a = SEXP_TAG => now[o - 2] = cells[o - 2])
             /\ \A x \in o .. Hi(B, o) : now[x] = cells[x]
  <2>1. /\ o - 1 \in 1 .. n /\ (B[o].a = SEXP_TAG => o - 2 \in 1 .. n)
        /\ \A x \in o .. Hi(B, o) : x \in 1 .. n
    BY <1>1, BlockFacts
  <2> QED  BY <2>1
<1>3. InPlace(B, now)
  BY <1>1, <1>2 DEF InPlace
<1>4. Body(B, now, arena, P)
  BY <1>1, <1>2 DEF Body
<1> QED  BY <1>1, <1>3, <1>4 DEF Space

LEMMA ExtendKeeps ==
  ASSUME IInv, status = "run", Extend, UNCHANGED <<code, making>>
  PROVE  IInv'
<1> DEFINE now == to.cells \o Zeros(space)
<1>1. /\ pc = "room" /\ to' = [to EXCEPT !.cells = now] /\ space' = 2 * space
      /\ UNCHANGED <<from, used, current, arenas, pc, root, frames, request, status, stack, extra>>
  BY DEF Extend, collector
<1>2. /\ TypeOK /\ Waiting /\ Len(to.cells) = space /\ root > Roots /\ current < Len(to.cells)
      /\ to.arena <= arenas /\ code \in Progs /\ from.arena < to.arena /\ space \in Nat
      /\ current \in Nat /\ to \in Pools /\ to.cells \in Seq(Word) /\ used < Len(from.cells)
      /\ from.arena <= arenas
  BY <1>1, RoomFacts
<1>3. PICK B, C : Copying(B, C)
  BY <1>1, RoomFacts
<1>4. /\ now \in Seq(Word) /\ Len(now) = 2 * space
      /\ \A x \in 1 .. current : now[x] = to.cells[x]
  <2>1. Zeros(space) \in Seq(Word) /\ Len(Zeros(space)) = space
    BY <1>2, FreshCells
  <2> HIDE DEF now
  <2>2. /\ now \in Seq(Word) /\ Len(now) = Len(to.cells) + Len(Zeros(space))
        /\ \A x \in 1 .. Len(to.cells) : now[x] = to.cells[x]
    BY <1>2, <2>1 DEF now
  <2> QED  BY <1>2, <2>1, <2>2
<1>5. to' \in Pools /\ to'.cells = now /\ to'.arena = to.arena
  BY <1>1, <1>2, <1>4 DEF Pools
<1> HIDE DEF now
<1>6. Space(C, current, now, to.arena, Pending(frames))
  <2>1. Space(C, current, to.cells, to.arena, Pending(frames))
    BY <1>3 DEF Copying, Copied
  <2> QED  BY <1>2, <1>4, <2>1, SpaceAgrees
<1>7. Copying(B, C)'
  BY <1>1, <1>3, <1>5, <1>6 DEF Copying, Copied, Stale, Forwarding, RootsOK, RootOK
<1>8. TypeOK'
  BY <1>1, <1>2, <1>4, <1>5 DEF TypeOK
<1>9. Waiting' /\ root' > Roots' /\ frames' \in Seq(Frame) /\ NoInternalError'
  BY <1>1, <1>2 DEF Waiting, Roots, IInv, NoInternalError
<1> QED  BY <1>1, <1>2, <1>4, <1>5, <1>7, <1>8, <1>9 DEF IInv, Moving

(* When all roots are scanned, the words of the program lead to copies.            *)
LEMMA AllScanned ==
  ASSUME IInv, status = "run", pc = "room", NEW B, NEW C, Copying(B, C)
  PROVE  /\ Space(C, current, to.cells, to.arena, {})
         /\ \A k \in 1 .. Len(stack) - 1 : Points(stack[k], to.arena, C)
         /\ \A k \in DOMAIN extra : Points(extra[k], to.arena, C)
         /\ Stale(stack[Len(stack)]) /\ Stale(making.captured)
<1>1. /\ frames = <<>> /\ root > Roots /\ root \in Nat /\ Len(stack) \in Nat \ {0}
      /\ Len(extra) \in Nat /\ stack \in Seq(Word) /\ extra \in Seq(Word)
  BY RoomFacts, CopyingFacts
<1>2. /\ Space(C, current, to.cells, to.arena, Pending(frames)) /\ RootsOK(B, C)
      /\ Stale(stack[Len(stack)]) /\ Stale(making.captured)
  BY DEF Copying, Copied
<1>3. Pending(frames) = {}
  BY <1>1 DEF Pending
<1>4. ASSUME NEW k \in 1 .. Len(stack) - 1
      PROVE  Points(stack[k], to.arena, C)
  <2>1. Len(stack) - k < root
    BY <1>1 DEF Roots
  <2> QED  BY <1>2, <2>1 DEF RootsOK, RootOK
<1>5. ASSUME NEW k \in DOMAIN extra
      PROVE  Points(extra[k], to.arena, C)
  <2>1. k \in 1 .. Len(extra)
    BY <1>1
  <2>2. Len(stack) - 1 + k < root
    BY <1>1, <2>1 DEF Roots
  <2> QED  BY <1>2, <2>2 DEF RootsOK, RootOK
<1> QED  BY <1>2, <1>3, <1>4, <1>5

LEMMA NoPoolFacts == NoPool \in Pools /\ Len(NoPool.cells) = 0
  BY SpaceAssumption DEF NoPool, Pools

LEMMA FinishKeeps ==
  ASSUME IInv, status = "run", Finish, UNCHANGED <<code, making>>
  PROVE  IInv'
<1>1. /\ pc = "room" /\ ~Lacking /\ from' = to /\ to' = NoPool /\ used' = current + request
      /\ pc' = "resume"
      /\ UNCHANGED <<current, space, arenas, root, frames, request, status, stack, extra>>
  BY DEF Finish
<1>2. /\ TypeOK /\ Waiting /\ Len(to.cells) = space /\ frames = <<>>
      /\ to.arena <= arenas /\ code \in Progs /\ space \in Nat /\ request \in Nat
      /\ current \in Nat /\ to \in Pools /\ to.cells \in Seq(Word)
  BY <1>1, RoomFacts
<1>3. PICK B, C : Copying(B, C)
  BY <1>1, RoomFacts
<1>4. /\ Space(C, current, to.cells, to.arena, {})
      /\ \A k \in 1 .. Len(stack) - 1 : Points(stack[k], to.arena, C)
      /\ \A k \in DOMAIN extra : Points(extra[k], to.arena, C)
      /\ Stale(stack[Len(stack)]) /\ Stale(making.captured)
  BY <1>1, <1>3, AllScanned
<1>5. current + request < Len(to.cells)
  BY <1>1, <1>2 DEF Lacking
<1>6. \A w : Stale(w) => Points(w, to.arena, C)
  BY DEF Stale, Points
<1>7. \A k \in DOMAIN stack : Points(stack[k], to.arena, C)
  <2>1. stack \in Seq(Word) /\ Len(stack) \in Nat \ {0}
    BY <1>2, Types
  <2>2. \A k \in DOMAIN stack : k \in 1 .. Len(stack) - 1 \/ k = Len(stack)
    BY <2>1
  <2> QED  BY <1>4, <1>6, <2>2
<1>8. Granted(C)'
  BY <1>1, <1>4, <1>6, <1>7 DEF Granted, RootsPoint
<1>9. TypeOK'
  <2>1. to' \in Pools /\ Len(to'.cells) = 0
    BY <1>1, NoPoolFacts
  <2>2. used' \in 0 .. Len(from'.cells)
    BY <1>1, <1>2, <1>5
  <2> QED  BY <1>1, <1>2, <2>1, <2>2 DEF TypeOK
<1>10. Waiting' /\ frames' \in Seq(Frame) /\ NoInternalError'
  BY <1>1, <1>2 DEF Waiting, IInv, NoInternalError
<1> QED  BY <1>1, <1>2, <1>5, <1>8, <1>9, <1>10 DEF IInv, Moving

(* mremap failed: the to-space becomes the from-space and the collection starts    *)
(* again.                                                                          *)
LEMMA RestartKeeps ==
  ASSUME IInv, status = "run", Restart, UNCHANGED <<code, making>>
  PROVE  IInv'
<1>1. /\ pc = "room" /\ from' = to /\ used' = current /\ space' = 2 * space
      /\ UNCHANGED <<stack, extra>>
      /\ IF CanMap(2 * space)
         THEN /\ to' = Fresh(2 * space) /\ arenas' = arenas + 1
              /\ Begin /\ UNCHANGED <<request, status>>
         ELSE /\ to' = NoPool /\ status' = "mmap failed"
              /\ UNCHANGED <<current, arenas, pc, root, frames, request>>
  BY DEF Restart
<1>2. /\ TypeOK /\ Waiting /\ Len(to.cells) = space /\ frames = <<>> /\ current < Len(to.cells)
      /\ to.arena <= arenas /\ arenas \in Nat /\ code \in Progs /\ space \in Nat
      /\ current \in Nat /\ to \in Pools /\ to.cells \in Seq(Word) /\ to.arena \in Nat
  BY <1>1, RoomFacts
<1>3. PICK B, C : Copying(B, C)
  BY <1>1, RoomFacts
<1>4. /\ Space(C, current, to.cells, to.arena, {})
      /\ \A k \in 1 .. Len(stack) - 1 : Points(stack[k], to.arena, C)
      /\ \A k \in DOMAIN extra : Points(extra[k], to.arena, C)
      /\ Stale(stack[Len(stack)]) /\ Stale(making.captured)
  BY <1>1, <1>3, AllScanned
<1>5. 2 * space \in Nat /\ space <= 2 * space
  BY <1>2
<1>6. CASE ~CanMap(2 * space)
  <2>1. /\ to' = NoPool /\ status' = "mmap failed"
        /\ UNCHANGED <<current, arenas, pc, root, frames, request>>
    BY <1>1, <1>6
  <2>2. to' \in Pools /\ Len(to'.cells) = 0
    BY <2>1, NoPoolFacts
  <2>3. TypeOK'
    <3>1. used' \in 0 .. Len(from'.cells) /\ Len(from'.cells) <= space'
      <4>1. used' = current /\ Len(from'.cells) = space /\ space' = 2 * space
        BY <1>1, <1>2
      <4>2. current \in 0 .. space
        BY <1>2
      <4> QED  BY <1>5, <4>1, <4>2
    <3>2. Len(to'.cells) \in {0, space'} /\ space' \in Nat
      BY <1>1, <1>5, <2>2
    <3> QED  BY <1>1, <1>2, <2>1, <2>2, <3>1, <3>2 DEF TypeOK
  <2> QED  BY <1>1, <1>2, <2>1, <2>3 DEF IInv, NoInternalError, Moving
<1>7. CASE CanMap(2 * space)
  <2>1. /\ to' = Fresh(2 * space) /\ arenas' = arenas + 1
        /\ current' = 0 /\ pc' = "roots" /\ root' = 1 /\ frames' = <<>>
        /\ UNCHANGED <<request, status>>
    BY <1>1, <1>7 DEF Begin
  <2>2. /\ to'.arena = arenas + 1 /\ to'.cells = Zeros(2 * space)
        /\ Zeros(2 * space) \in Seq(Word) /\ Len(to'.cells) = 2 * space /\ arenas < MaxArenas
        /\ to'.arena = arenas + 1
    BY <1>5, <1>7, <2>1, FreshCells DEF Fresh, CanMap
  <2>3. to' \in Pools
    BY <1>2, <2>1, <2>2, SpaceAssumption DEF Pools, Fresh
  <2>4. TypeOK'
    BY <1>1, <1>2, <1>5, <2>1, <2>2, <2>3, SpaceAssumption DEF TypeOK
  <2>5. /\ Layout(C, current) /\ InPlace(C, to.cells) /\ Body(C, to.cells, to.arena, {})
    BY <1>4 DEF Space
  <2>0. PICK new : new = to.cells
    OBVIOUS
  <2>6. Forwarding(C, NoObjects, new)'
    BY <2>0, <2>5 DEF Forwarding, InPlace
  <2>7. Cardinality(Spent(C, Moved(C, to.cells))) = 0
    <3>1. \A o \in DOMAIN C : C[o] \in Heads
      BY <2>5 DEF Layout
    <3>2. Moved(C, to.cells) = {}
      BY <2>5, <3>1, HeadFacts DEF Moved, InPlace
    <3> QED  BY <3>2, NothingSpent
  <2>8. RootsOK(C, NoObjects)'
    <3>1. stack \in Seq(Word) /\ Len(stack) \in Nat \ {0} /\ extra \in Seq(Word)
      BY <1>2, Types
    <3>2. \A k \in 1 .. Len(stack) - 1 : ~(Len(stack) - k < 1)
      BY <3>1
    <3>3. \A k \in DOMAIN extra : ~(Len(stack) - 1 + k < 1)
      BY <3>1
    <3> QED  BY <1>1, <1>4, <2>1, <3>2, <3>3 DEF RootsOK, RootOK
  <2>9. Stale(making.captured)' /\ Stale(stack[Len(stack)])'
    <3>1. \A w \in Word : w.a \in Int
      BY DEF Word
    <3>2. \A w \in Word : w.a < to.arena => w.a < arenas + 1
      BY <1>2, <3>1
    <3>3. making.captured \in Word /\ stack[Len(stack)] \in Word
      BY <1>2, Types DEF Waiting
    <3> QED  BY <1>1, <1>4, <2>2, <3>2, <3>3 DEF Stale
  <2>10. Copying(C, NoObjects)'
    <3>1. Space(NoObjects, 0, to'.cells, to'.arena, Pending(frames'))
      BY EmptySpace
    <3>2. FramesOK(C, NoObjects, <<>>)
      BY DEF FramesOK
    <3>3. from'.cells = new /\ from'.cells = to.cells /\ from'.arena = to.arena
      BY <1>1, <2>0
    <3>4. Forwarding(C, NoObjects, from.cells)'
      BY <2>6, <3>3 DEF Forwarding
    <3>5. Cardinality(Spent(C, Moved(C, from'.cells))) = 0
      BY <2>7, <3>3
    <3>6. /\ Layout(C, used') /\ Body(C, from'.cells, from'.arena, {}) /\ current' = 0
          /\ current' <= used' /\ FramesOK(C, NoObjects, frames')
      BY <1>1, <1>2, <2>1, <2>5, <3>2, <3>3
    <3> QED  BY <2>8, <2>9, <3>1, <3>4, <3>5, <3>6 DEF Copying, Copied
  <2>11. Waiting' /\ frames' \in Seq(Frame) /\ NoInternalError'
    BY <1>1, <1>2, <2>1 DEF Waiting, IInv, NoInternalError
  <2>12. from'.arena < to'.arena /\ from'.arena <= arenas' /\ to'.arena <= arenas'
    BY <1>1, <1>2, <2>1, <2>2
  <2> QED  BY <1>1, <1>2, <2>1, <2>2, <2>4, <2>10, <2>11, <2>12 DEF IInv, Moving
<1> QED  BY <1>6, <1>7

-----------------------------------------------------------------------------------
(* Every step of the program.                                                      *)
LEMMA ExecuteKeeps ==
  ASSUME IInv, NEW op, NEW n \in Nat, op \in {"LD", "ST", "CLOSURE"} => n > 0, Execute(op, n)
  PROVE  IInv'
<1>1. Len(stack) \in Nat /\ stack \in Seq(Word)
  BY Types DEF IInv
<1>2. CASE op = "CONST" /\ Const
  BY <1>2, ConstKeeps
<1>3. CASE op = "DROP" /\ Drop
  BY <1>3, DropKeeps
<1>4. CASE op = "LD" /\ n <= Depth /\ Ld(n)
  <2>1. n \in DOMAIN stack
    BY <1>1, <1>4 DEF Depth
  <2> QED  BY <1>4, <2>1, LdKeeps
<1>5. CASE op = "ST" /\ n <= Depth /\ St(n)
  BY <1>5, StKeeps
<1>6. CASE op = "ELEM" /\ Elem(n)
  BY <1>6, ElemKeeps
<1>7. CASE op = "STA" /\ Sta(n)
  BY <1>7, StaKeeps
<1>8. CASE op = "BARRAY" /\ NewArray(n)
  BY <1>8, NewArrayKeeps
<1>9. CASE op = "SEXP" /\ NewSexp(n)
  BY <1>9, NewSexpKeeps
<1>10. CASE op = "STRING" /\ NewString(n)
  BY <1>10, NewStringKeeps
<1>11. CASE op = "LSTRING" /\ Show(n)
  BY <1>11, ShowKeeps
<1>12. CASE op = "CLOSURE" /\ n <= Depth /\ NewClosure(n)
  <2>1. n \in DOMAIN stack
    BY <1>1, <1>12 DEF Depth
  <2> QED  BY <1>12, <2>1, NewClosureKeeps
<1> QED  BY <1>2, <1>3, <1>4, <1>5, <1>6, <1>7, <1>8, <1>9, <1>10, <1>11, <1>12 DEF Execute

LEMMA MoveKeeps ==
  ASSUME IInv, Move
  PROVE  IInv'
  BY ScanRootKeeps, CopyElementKeeps, CopyDoneKeeps, RootsDoneKeeps, ExtendKeeps, RestartKeeps,
     FinishKeeps DEF Move, Collect

LEMMA StepKeeps == IInv /\ [Next]_vars => IInv'
<1> SUFFICES ASSUME IInv, [Next]_vars PROVE IInv'
  OBVIOUS
<1>1. CASE Resume
  BY <1>1, ResumeKeeps
<1>2. CASE Move
  BY <1>2, MoveKeeps
<1>3. ASSUME NEW i \in code.ops, Execute(i[1], i[2])
      PROVE  IInv'
  <2>1. i[2] \in Nat /\ (i[1] \in {"LD", "ST", "CLOSURE"} => i[2] > 0)
    BY ProgsAssumption DEF IInv
  <2> QED  BY <1>3, <2>1, ExecuteKeeps
<1>4. CASE UNCHANGED vars
  <2>1. UNCHANGED <<from, used, to, current, space, arenas, pc, root, frames, request, status,
                   stack, extra, code, making>>
    BY <1>4 DEF vars, memory, pools, collector
  <2>2. /\ TypeOK' = TypeOK /\ Waiting' = Waiting /\ Roots' = Roots
        /\ NoInternalError' = NoInternalError /\ Moving(pc') = Moving(pc)
    BY <2>1 DEF TypeOK, Waiting, Roots, NoInternalError, Moving
  <2>3. (\E B : Settled(B))' = \E B : Settled(B)
    BY <2>1 DEF Settled, RootsPoint
  <2>4. (\E B : Granted(B))' = \E B : Granted(B)
    BY <2>1 DEF Granted, RootsPoint
  <2>5. (\E B, C : Copying(B, C))' = \E B, C : Copying(B, C)
    BY <2>1 DEF Copying, Copied, Stale, Forwarding, RootsOK, RootOK
  <2> QED  BY <2>1, <2>2, <2>3, <2>4, <2>5 DEF IInv
<1> QED  BY <1>1, <1>2, <1>3, <1>4 DEF Next

(* The inductive invariant of the collector and its client, in every reachable     *)
(* state: outside a collection and in the middle of one.                           *)
THEOREM HeapInvariant == Spec => []IInv
  BY InitIsGood, StepKeeps, PTL DEF Spec

(* Every variable has its type, and no space is longer than SPACE_SIZE or shorter  *)
(* than what is in use (init_to_space, extend_spaces, gc_swap_spaces).             *)
THEOREM TypeCorrect == Spec => []TypeOK
<1>1. IInv => TypeOK
  BY DEF IInv
<1> QED  BY <1>1, HeapInvariant, PTL

(* gc_copy never finds its space full or a word that is no header, and never runs  *)
(* over the end of the space: the copies take no more words than what is copied.   *)
THEOREM CopiesFit == Spec => []NoInternalError
<1>1. IInv => NoInternalError
  BY DEF IInv
<1> QED  BY <1>1, HeapInvariant, PTL

-----------------------------------------------------------------------------------
(* The walk over the words in use finds the objects of the invariant.              *)
LEMMA LeastNumber ==
  ASSUME NEW S \in SUBSET Nat, S # {}
  PROVE  \E m \in S : \A k \in S : m <= k
<1> DEFINE T == {1 .. k : k \in S}
<1>1. IsWellFoundedOn(StrictSubsetOrdering(Nat), FiniteSubsetsOf(Nat))
  BY FS_StrictSubsetOrderingWellFounded
<1>2. T \subseteq FiniteSubsetsOf(Nat) /\ T # {}
  <2>1. \A k \in Nat : 1 .. k \in SUBSET Nat /\ IsFiniteSet(1 .. k)
    BY FS_Interval
  <2> QED  BY <2>1 DEF FiniteSubsetsOf
<1>3. \E x \in T : \A y \in T : <<y, x>> \notin StrictSubsetOrdering(Nat)
  <2> HIDE DEF T
  <2> QED  BY <1>1, <1>2, WFMin, Zenon
<1>4. PICK m \in S : \A k \in S : <<1 .. k, 1 .. m>> \notin StrictSubsetOrdering(Nat)
  BY <1>3
<1>5. ASSUME NEW k \in S, k < m
      PROVE  FALSE
  <2>1. 1 .. k \in SUBSET Nat /\ 1 .. m \in SUBSET Nat /\ 1 .. k \subseteq 1 .. m
    BY <1>5
  <2>2. m \in 1 .. m /\ m \notin 1 .. k
    BY <1>5
  <2>3. <<1 .. k, 1 .. m>> \in StrictSubsetOrdering(Nat)
    BY <2>1, <2>2 DEF StrictSubsetOrdering
  <2> QED  BY <1>4, <2>3
<1> QED  BY <1>5

(* Begins is what its definition says: the walk may be taken any number of steps.  *)
Walk(f, m) == f = [n \in 0 .. m |-> IF n = 0 THEN 0 ELSE Behind(f[n - 1])]

LEMMA WalkExists ==
  ASSUME NEW m \in Nat
  PROVE  \E f : Walk(f, m)
<1> DEFINE Bad == {k \in Nat : ~\E f : Walk(f, k)}
<1> SUFFICES ASSUME Bad # {} PROVE FALSE
  OBVIOUS
<1>1. PICK k \in Bad : \A j \in Bad : k <= j
  <2> HIDE DEF Bad
  <2>1. Bad \in SUBSET Nat
    BY DEF Bad
  <2> QED  BY <2>1, LeastNumber
<1>2. CASE k = 0
  <2>1. Walk([n \in 0 .. 0 |-> 0], 0)
    BY DEF Walk
  <2> QED  BY <1>2, <2>1
<1>3. CASE k # 0
  <2>1. k \in Nat /\ k - 1 \in Nat /\ ~(k <= k - 1)
    BY <1>3
  <2>2. PICK f : Walk(f, k - 1)
    BY <1>1, <2>1
  <2>3. PICK g : g = [n \in 0 .. k |-> IF n = k THEN Behind(f[k - 1]) ELSE f[n]]
    OBVIOUS
  <2>4. \A n \in 0 .. k - 1 : f[n] = IF n = 0 THEN 0 ELSE Behind(f[n - 1])
    BY <2>2 DEF Walk
  <2>5. ASSUME NEW n \in 0 .. k
        PROVE  g[n] = IF n = 0 THEN 0 ELSE Behind(g[n - 1])
    <3>1. CASE n = 0
      BY <2>1, <2>3, <2>4, <3>1
    <3>2. CASE n = k
      <4>1. n - 1 \in 0 .. k /\ n - 1 # k /\ n # 0
        BY <2>1, <3>2
      <4> QED  BY <2>3, <3>2, <4>1
    <3>3. CASE n # 0 /\ n # k
      <4>1. n \in 0 .. k - 1 /\ n - 1 \in 0 .. k /\ n - 1 # k
        BY <2>1, <3>3
      <4> QED  BY <2>3, <2>4, <3>3, <4>1
    <3> QED  BY <3>1, <3>2, <3>3
  <2>6. Walk(g, k)
    BY <2>3, <2>5 DEF Walk
  <2> QED  BY <2>6
<1> QED  BY <1>2, <1>3

LEMMA BeginsIsWalk ==
  ASSUME used \in Nat
  PROVE  /\ Begins[0] = 0
         /\ \A n \in 1 .. used : Begins[n] = Behind(Begins[n - 1])
<1>1. \E f : Walk(f, used)
  BY WalkExists
<1>2. Begins = CHOOSE f : Walk(f, used)
  BY DEF Begins, Walk
<1>3. Walk(Begins, used)
  BY <1>1, <1>2
<1> QED  BY <1>3 DEF Walk

(* Each object's block is one step of the walk.                                    *)
LEMMA BlockIsStep ==
  ASSUME IInv, NEW B, Settled(B), NEW o \in DOMAIN B
  PROVE  /\ HeaderAt(Lo(B, o)) = B[o] /\ Behind(Lo(B, o)) = Hi(B, o)
         /\ Lo(B, o) \in Nat /\ Hi(B, o) \in Nat /\ Lo(B, o) < Hi(B, o) /\ Hi(B, o) <= used
         /\ o = Lo(B, o) + HeaderWords(B[o]) + 1 /\ B[o] \in Heads
<1>1. /\ Layout(B, used) /\ InPlace(B, from.cells) /\ Body(B, from.cells, from.arena, {})
      /\ used \in Nat
  BY Types DEF Settled, Space, IInv
<1>2. PICK e, s : e = Lo(B, o) /\ s = HeaderWords(B[o])
  OBVIOUS
<1>3. /\ o \in Nat /\ B[o] \in Heads /\ e \in Nat /\ e = o - 1 - s
      /\ Hi(B, o) = e + Words(B[o]) /\ Hi(B, o) \in Nat /\ Hi(B, o) <= used
  BY <1>1, <1>2, BlockFacts
<1>4. /\ s \in {1, 2} /\ Words(B[o]) \in Nat /\ s <= Words(B[o]) /\ (B[o].a = SEXP_TAG <=> s = 2)
      /\ B[o].t # "raw"
  BY <1>2, <1>3, HeadFacts
<1>5. e < Hi(B, o) /\ e < used /\ o = e + s + 1
  <2>1. PICK t, hi : t = Words(B[o]) /\ hi = Hi(B, o)
    OBVIOUS
  <2>2. e < hi /\ e < used /\ o = e + s + 1
    <3>1. /\ o \in Nat /\ e \in Nat /\ e = o - 1 - s /\ hi = e + t /\ hi <= used
          /\ s \in {1, 2} /\ t \in Nat /\ s <= t
      BY <1>3, <1>4, <2>1
    <3> QED  BY <1>1, <3>1
  <2> QED  BY <2>1, <2>2
<1>6. from.cells[o - 1] = B[o] /\ (B[o].a = SEXP_TAG => from.cells[o - 2].t = "raw")
  BY <1>1 DEF InPlace, Body
<1>7. HeaderAt(e) = B[o]
  <2>1. CASE s = 2
    <3>1. e + 1 = o - 2 /\ e + 2 = o - 1
      BY <1>3, <1>5, <2>1
    <3> QED  BY <1>4, <1>6, <2>1, <3>1 DEF HeaderAt
  <2>2. CASE s = 1
    <3>1. e + 1 = o - 1
      BY <1>3, <1>5, <2>2
    <3> QED  BY <1>4, <1>6, <3>1 DEF HeaderAt
  <2> QED  BY <1>4, <2>1, <2>2
<1>8. Behind(e) = Hi(B, o)
  BY <1>3, <1>5, <1>7 DEF Behind
<1> QED  BY <1>2, <1>3, <1>5, <1>7, <1>8

(* The walk goes from block to block until the end of the words in use.            *)
AtBlock(B, n, e) ==
  \/ e = used
  \/ e >= n /\ \E o \in DOMAIN B : Lo(B, o) = e

LEMMA WalkMeetsBlocks ==
  ASSUME IInv, NEW B, Settled(B), NEW n \in 0 .. used
  PROVE  AtBlock(B, n, Begins[n])
<1>1. used \in Nat /\ Layout(B, used)
  BY Types DEF Settled, Space, IInv
<1> DEFINE Bad == {k \in 0 .. used : ~AtBlock(B, k, Begins[k])}
<1> SUFFICES ASSUME Bad # {} PROVE FALSE
  OBVIOUS
<1>2. PICK k \in Bad : \A j \in Bad : k <= j
  <2> HIDE DEF Bad
  <2>1. Bad \in SUBSET Nat
    BY <1>1 DEF Bad
  <2> QED  BY <2>1, LeastNumber
<1>3. CASE k = 0
  <2>1. Begins[0] = 0
    BY <1>1, BeginsIsWalk
  <2>2. used = 0 \/ \E o \in DOMAIN B : Lo(B, o) = 0
    BY <1>1 DEF Layout
  <2> QED  BY <1>2, <1>3, <2>1, <2>2 DEF AtBlock
<1>4. CASE k # 0
  <2>1. k \in 1 .. used /\ k - 1 \in 0 .. used /\ ~(k <= k - 1) /\ k \in Nat
    BY <1>1, <1>4
  <2>2. AtBlock(B, k - 1, Begins[k - 1])
    BY <1>2, <2>1
  <2>3. Begins[k] = Behind(Begins[k - 1])
    BY <1>1, <2>1, BeginsIsWalk
  <2>4. CASE Begins[k - 1] = used
    <3>1. Begins[k] = used
      BY <1>1, <2>3, <2>4 DEF Behind
    <3> QED  BY <1>2, <3>1 DEF AtBlock
  <2>5. ASSUME NEW o \in DOMAIN B, Lo(B, o) = Begins[k - 1], Begins[k - 1] >= k - 1
        PROVE  FALSE
    <3>1. Begins[k] = Hi(B, o) /\ Hi(B, o) \in Nat /\ Lo(B, o) \in Nat /\ Lo(B, o) < Hi(B, o)
      BY <2>3, <2>5, BlockIsStep
    <3>2. Begins[k] >= k
      BY <2>1, <2>5, <3>1
    <3>3. Hi(B, o) = used \/ \E p \in DOMAIN B : Lo(B, p) = Hi(B, o)
      BY <1>1 DEF Layout
    <3> QED  BY <1>2, <3>1, <3>2, <3>3 DEF AtBlock
  <2> QED  BY <2>2, <2>4, <2>5 DEF AtBlock
<1> QED  BY <1>3, <1>4

(* No object is passed over.                                                       *)
LEMMA BlocksAreMet ==
  ASSUME IInv, NEW B, Settled(B), NEW o \in DOMAIN B
  PROVE  \E n \in 0 .. used : Begins[n] = Lo(B, o)
<1>1. used \in Nat /\ Layout(B, used)
  BY Types DEF Settled, Space, IInv
<1> DEFINE IsBegin(e) == \E n \in 0 .. used : Begins[n] = e
           Bad == {e \in Nat : (\E p \in DOMAIN B : Lo(B, p) = e) /\ ~IsBegin(e)}
<1>2. Lo(B, o) \in Nat
  BY BlockIsStep
<1> SUFFICES ASSUME Bad # {} PROVE FALSE
  BY <1>2
<1>3. PICK e \in Bad : \A d \in Bad : e <= d
  <2> HIDE DEF Bad
  <2>1. Bad \in SUBSET Nat
    BY DEF Bad
  <2> QED  BY <2>1, LeastNumber
<1>4. PICK p \in DOMAIN B : Lo(B, p) = e
  OBVIOUS
<1>5. CASE e = 0
  <2>1. Begins[0] = 0 /\ 0 \in 0 .. used
    BY <1>1, BeginsIsWalk
  <2> QED  BY <1>5, <2>1
<1>6. CASE e # 0
  <2>1. PICK q \in DOMAIN B : Hi(B, q) = e
    BY <1>1, <1>4, <1>6 DEF Layout
  <2>2. PICK d : d = Lo(B, q)
    OBVIOUS
  <2>3. d \in Nat /\ d < e /\ e <= used /\ Behind(d) = e /\ e \in Nat
    BY <2>1, <2>2, BlockIsStep
  <2>4. d \notin Bad
    BY <1>3, <2>3
  <2>5. PICK n \in 0 .. used : Begins[n] = d
    BY <2>2, <2>3, <2>4
  <2>6. AtBlock(B, n, d)
    BY <2>5, WalkMeetsBlocks
  <2>7. n <= d
    BY <1>1, <2>3, <2>6 DEF AtBlock
  <2>8. n + 1 \in 1 .. used /\ (n + 1) - 1 = n /\ n + 1 \in 0 .. used
    BY <1>1, <2>3, <2>7
  <2>9. Begins[n + 1] = e
    <3>1. Begins[n + 1] = Behind(Begins[(n + 1) - 1])
      BY <1>1, <2>8, BeginsIsWalk
    <3> QED  BY <2>3, <2>5, <2>8, <3>1
  <2> QED  BY <2>8, <2>9
<1> QED  BY <1>5, <1>6

LEMMA WalkFindsObjects ==
  ASSUME IInv, NEW B, Settled(B)
  PROVE  /\ Objects = DOMAIN B /\ Begins[used] = used
         /\ \A e \in Starts : HeaderAt(e).t = "header"
<1>1. used \in Nat /\ used \in 0 .. used
  BY Types DEF IInv
<1>2. ASSUME NEW e \in Starts
      PROVE  \E o \in DOMAIN B : Lo(B, o) = e
  <2>1. PICK n \in 0 .. used : e = Begins[n] /\ e # used
    BY DEF Starts
  <2> QED  BY <2>1, WalkMeetsBlocks DEF AtBlock
<1>3. ASSUME NEW e \in Starts
      PROVE  HeaderAt(e).t = "header" /\ e + HeaderWords(HeaderAt(e)) + 1 \in DOMAIN B
  <2>1. PICK o \in DOMAIN B : Lo(B, o) = e
    BY <1>2
  <2> QED  BY <2>1, BlockIsStep, HeadFacts
<1>4. ASSUME NEW o \in DOMAIN B
      PROVE  o \in Objects
  <2>1. Lo(B, o) \in Starts
    <3>1. Lo(B, o) # used
      BY <1>1, BlockIsStep
    <3> QED  BY <3>1, BlocksAreMet DEF Starts
  <2> QED  BY <2>1, BlockIsStep DEF Objects
<1>5. Begins[used] = used
  <2>1. AtBlock(B, used, Begins[used])
    BY <1>1, WalkMeetsBlocks
  <2>2. \A o \in DOMAIN B : ~(Lo(B, o) >= used)
    BY <1>1, BlockIsStep
  <2> QED  BY <2>1, <2>2 DEF AtBlock
<1> QED  BY <1>3, <1>4, <1>5 DEF Objects

(* The words in use are exactly the objects, one behind the other: the sizes the   *)
(* constructors ask alloc for are those gc_copy works out from the headers.        *)
THEOREM HeapIsTiled == Spec => []HeapTiled
<1>1. IInv => HeapTiled
  <2> SUFFICES ASSUME IInv, pc = "idle"
               PROVE  Begins[used] = used /\ \A e \in Starts : HeaderAt(e).t = "header"
    BY DEF HeapTiled
  <2>1. PICK B : Settled(B)
    BY DEF IInv
  <2> QED  BY <2>1, WalkFindsObjects
<1> QED  BY <1>1, HeapInvariant, PTL

LEMMA PointerIsLive ==
  ASSUME IInv, NEW B, Settled(B), Careful, NEW w, Points(w, from.arena, B)
  PROVE  LiveObject(w)
<1> SUFFICES ASSUME w.t = "ptr" PROVE IsValidHeapPointer(w) /\ w.b \in Objects
  BY DEF LiveObject
<1>1. w.a = from.arena /\ w.b \in DOMAIN B
  BY DEF Points
<1>2. /\ Layout(B, used) /\ used \in Nat /\ used <= Len(from.cells) /\ Len(from.cells) \in Nat
      /\ used < Len(from.cells)
  BY Types DEF Settled, Space, IInv
<1>3. w.b \in Nat /\ w.b - 1 <= Hi(B, w.b) /\ Hi(B, w.b) <= used /\ Hi(B, w.b) \in Nat
  BY <1>1, <1>2, BlockFacts
<1>4. w.b <= Len(from.cells)
  BY <1>2, <1>3
<1> QED  BY <1>1, <1>4, WalkFindsObjects DEF IsValidHeapPointer

(* The components of an object are the words from its position to its end.         *)
LEMMA ComponentsAreBody ==
  ASSUME IInv, NEW B, Settled(B), NEW b \in DOMAIN B, NEW j \in DOMAIN Components(from, b)
  PROVE  Points(Components(from, b)[j], from.arena, B)
<1>1. /\ Layout(B, used) /\ InPlace(B, from.cells) /\ Body(B, from.cells, from.arena, {})
      /\ used \in Nat /\ from.cells \in Seq(Word)
  BY Types DEF Settled, Space, IInv
<1>2. PICK h : h = B[b]
  OBVIOUS
<1>3. /\ b \in Nat /\ b >= 2 /\ h \in Heads /\ Hi(B, b) = Lo(B, b) + Words(h)
      /\ Lo(B, b) = b - 1 - HeaderWords(h)
  BY <1>1, <1>2, BlockFacts
<1>4. HeaderOf(from, b) = h /\ h.t = "header" /\ h.b \in Nat
  <2>1. from.cells[b - 1] = h
    BY <1>1, <1>2 DEF InPlace
  <2> QED  BY <1>3, <2>1, HeadFacts DEF HeaderOf
<1>5. PICK n : n = IF h.a = STRING_TAG THEN h.b \div 4 + 1 ELSE h.b
  OBVIOUS
<1>6. n \in Nat
  BY <1>4, <1>5
<1>7. Hi(B, b) = b - 1 + n
  <2>1. CASE h.a # STRING_TAG
    BY <1>1, <1>2, <1>5, <2>1, ObjectEnd
  <2>2. CASE h.a = STRING_TAG
    <3>1. Words(h) = (h.b + 4) \div 4 + 1 /\ HeaderWords(h) = 1
      BY <2>2 DEF Words, HeaderWords, STRING_TAG, SEXP_TAG
    <3>2. (h.b + 4) \div 4 = h.b \div 4 + 1
      BY <1>4
    <3>3. Words(h) = n + 1
      BY <1>5, <2>2, <3>1, <3>2
    <3> QED  BY <1>3, <1>6, <3>1, <3>3
  <2> QED  BY <2>1, <2>2
<1>8. Components(from, b) = SubSeq(from.cells, b, b - 1 + n)
  BY <1>4, <1>5 DEF Components
<1>9. PICK e : e = b - 1 + n
  OBVIOUS
<1>10. j \in 1 .. e - b + 1 /\ Components(from, b)[j] = from.cells[b + j - 1]
  <2>1. b \in Int /\ e \in Int
    BY <1>3, <1>6, <1>9
  <2>2. SubSeq(from.cells, b, e) = [i \in 1 .. e - b + 1 |-> from.cells[b + i - 1]]
    BY <1>1, <2>1
  <2> QED  BY <1>8, <1>9, <2>2
<1>11. b + j - 1 \in b .. Hi(B, b)
  <2>1. j \in 1 .. n
    BY <1>3, <1>6, <1>9, <1>10
  <2> QED  BY <1>3, <1>6, <1>7, <2>1
<1> QED  BY <1>1, <1>10, <1>11 DEF Body

(* No pointer dangles, however often and at whatever moment objects are moved, if  *)
(* the client keeps its pointers where the collector looks for them (alloc, gc,    *)
(* gc_copy, copy_elements).                                                        *)
THEOREM NothingDangles == Careful => (Spec => []NoDangling)
<1>1. Careful /\ IInv => NoDangling
  <2> SUFFICES ASSUME Careful, IInv, pc = "idle"
               PROVE  /\ \A k \in 1 .. Depth : LiveObject(stack[k])
                      /\ \A b \in Objects : \A j \in DOMAIN Components(from, b) :
                           LiveObject(Components(from, b)[j])
    BY DEF NoDangling
  <2>1. PICK B : Settled(B)
    BY DEF IInv
  <2>2. \A k \in 1 .. Depth : LiveObject(stack[k])
    <3>1. \A k \in 1 .. Depth : k \in DOMAIN stack
      BY Types DEF IInv, Depth
    <3>2. \A k \in DOMAIN stack : Points(stack[k], from.arena, B)
      BY <2>1 DEF Settled, RootsPoint
    <3> QED  BY <2>1, <3>1, <3>2, PointerIsLive
  <2>3. ASSUME NEW b \in Objects, NEW j \in DOMAIN Components(from, b)
        PROVE  LiveObject(Components(from, b)[j])
    <3>1. b \in DOMAIN B
      BY <2>1, WalkFindsObjects
    <3> QED  BY <2>1, <2>3, <3>1, ComponentsAreBody, PointerIsLive
  <2> QED  BY <2>2, <2>3
<1> SUFFICES ASSUME Careful PROVE Spec => []NoDangling
  OBVIOUS
<1>2. IInv => NoDangling
  BY <1>1
<1> QED  BY <1>2, HeapInvariant, PTL
===================================================================================
