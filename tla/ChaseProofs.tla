-------------------------------- MODULE ChaseProofs --------------------------------
(***********************************************************************************)
(* The rings of L1-memory: whatever the shuffle, the loop that follows a ring reads*)
(* each of its indices once before it comes back to the first, which rings leave   *)
(* the array, and how often a timed round misses follows from where the indices are.*)
(* From such measurements the probe finds the size and the ways of the cache.      *)
(***********************************************************************************)
EXTENDS PointerChase, L1Probe, SequenceTheorems, FiniteSetTheorems, TLAPS

(* A buffer in front of the shuffle, and behind it.                                *)
IsRing(b) ==
  /\ b \in Seq(Nat) /\ Len(b) >= 1 /\ b[1] = 0
  /\ \A i, j \in 1 .. Len(b) : b[i] = b[j] => i = j

-----------------------------------------------------------------------------------
(* Products, quotients and remainders.                                             *)
LEMMA ProductOrder ==
  ASSUME NEW a \in Nat, NEW b \in Nat, NEW d \in Nat, a <= b
  PROVE  a * d <= b * d /\ a * d \in Nat /\ b * d \in Nat
<1>1. PICK e \in Nat : b = a + e
  <2>1. b - a \in Nat /\ b = a + (b - a)
    OBVIOUS
  <2>2. QED BY <2>1
<1>2. b * d = a * d + e * d
  BY <1>1
<1>3. e * d >= 0 /\ a * d >= 0 /\ b * d >= 0 /\ a * d \in Int /\ b * d \in Int /\ e * d \in Int
  BY <1>1
<1>4. QED BY <1>2, <1>3

LEMMA Divided ==
  ASSUME NEW t \in Nat, NEW w \in Nat, w >= 1
  PROVE  /\ t \div w \in Nat /\ t % w \in Nat /\ t % w < w
         /\ t = (t \div w) * w + (t % w)
  OBVIOUS

(* Quotient and remainder are determined by the sum.                               *)
LEMMA Unique ==
  ASSUME NEW w \in Nat, NEW p \in Nat, NEW q \in Nat, NEW r \in Nat, NEW s \in Nat,
         r < w, s < w, p * w + r = q * w + s
  PROVE  p = q /\ r = s
<1>1. ASSUME NEW x \in Nat, NEW y \in Nat, NEW u \in Nat, NEW v \in Nat, u < w, v < w,
             x * w + u = y * w + v
      PROVE  ~(x < y)
  <2> SUFFICES ASSUME x < y PROVE FALSE
    OBVIOUS
  <2>1. x + 1 \in Nat /\ x + 1 <= y
    OBVIOUS
  <2>2. (x + 1) * w <= y * w /\ y * w \in Nat
    BY <2>1, ProductOrder
  <2>3. (x + 1) * w = x * w + w /\ x * w \in Nat
    BY <1>1
  <2>4. QED BY <1>1, <2>2, <2>3
<1>2. ~(p < q) /\ ~(q < p)
  BY <1>1
<1>3. p = q
  BY <1>2
<1>4. QED BY <1>3

(* The remainder alone, of a sum that is given.                                    *)
LEMMA RemainderOf ==
  ASSUME NEW y \in Nat, NEW w \in Nat, NEW p \in Nat, NEW r \in Nat, r < w, y = p * w + r
  PROVE  y % w = r
<1>1. w >= 1
  OBVIOUS
<1>2. PICK q \in Nat, s \in Nat : q = y \div w /\ s = y % w /\ s < w /\ y = q * w + s
  BY <1>1, Divided
<1>3. s < w /\ p * w + r = q * w + s
  BY <1>2
<1>4. r = s
  BY <1>3, Unique
<1>5. QED BY <1>2, <1>4

LEMMA Quotient ==
  ASSUME NEW x \in Nat, NEW a \in Nat, a >= 1
  PROVE  (x * a) \div a = x
<1>1. x * a \in Nat
  BY ProductOrder
<1>2. PICK t \in Nat : t = x * a
  BY <1>1
<1>3. t \div a \in Nat /\ t % a \in Nat /\ t % a < a /\ t = (t \div a) * a + (t % a)
  BY Divided
<1>4. x * a + 0 = (t \div a) * a + (t % a) /\ 0 < a
  BY <1>2, <1>3
<1>5. x = t \div a
  BY <1>3, <1>4, Unique
<1>6. QED BY <1>2, <1>5

-----------------------------------------------------------------------------------
LEMMA EvenlyIsRing ==
  ASSUME NEW ring \in Rings
  PROVE  IsRing(Evenly(ring[1], ring[2]))
<1>1. PICK n, d : n = ring[1] /\ d = ring[2] \div sizeof
  OBVIOUS
<1>2. n \in Nat /\ n >= 1 /\ d \in Nat /\ d >= 1
  <2>1. n \in Nat /\ n >= 1 /\ ring[2] \in Nat /\ ring[2] >= 4
    BY <1>1, RingsAssumption DEF sizeof
  <2>2. QED BY <1>1, <2>1 DEF sizeof
<1>3. PICK b : b = Evenly(ring[1], ring[2])
  OBVIOUS
<1>4. b = [i \in 1 .. n |-> (i - 1) * d]
  BY <1>1, <1>3 DEF Evenly
<1>5. ASSUME NEW i \in 1 .. n
      PROVE  b[i] = (i - 1) * d /\ b[i] \in Nat
  <2>1. i - 1 \in Nat
    BY <1>2
  <2>2. (i - 1) * d \in Nat
    BY <1>2, <2>1, ProductOrder
  <2>3. QED BY <1>4, <2>2
<1>6. b \in [1 .. n -> Nat]
  BY <1>4, <1>5
<1>7. b \in Seq(Nat) /\ Len(b) = n
  BY <1>2, <1>6
<1>8. b[1] = 0
  BY <1>2, <1>5
<1>9. ASSUME NEW i \in 1 .. n, NEW j \in 1 .. n, b[i] = b[j]
      PROVE  i = j
  <2>1. i - 1 \in Nat /\ j - 1 \in Nat
    BY <1>2
  <2>2. (i - 1) * d + 0 = (j - 1) * d + 0 /\ 0 < d
    BY <1>2, <1>5, <1>9
  <2>3. i - 1 = j - 1
    BY <1>2, <2>1, <2>2, Unique
  <2>4. QED BY <2>3
<1>10. QED BY <1>2, <1>3, <1>7, <1>8, <1>9 DEF IsRing

(* A ring with fewer bytes than the array has is inside it.                        *)
LEMMA EvenlyIsInside ==
  ASSUME NEW ring \in Rings, ring[1] * ring[2] < sizeof * MAX_SIZE,
         NEW s \in ToSet(Evenly(ring[1], ring[2]))
  PROVE  s < MAX_SIZE
<1>1. PICK n, d, m : n = ring[1] /\ d = ring[2] \div sizeof /\ m = MAX_SIZE
  OBVIOUS
<1>2. n \in Nat /\ n >= 1 /\ m \in Nat /\ d \in Nat /\ d >= 1 /\ n * d <= m
  <2>1. /\ n \in Nat /\ n >= 1 /\ ring[2] \in Nat /\ ring[2] >= 4 /\ m \in Nat
        /\ n * ring[2] < 4 * m
    BY <1>1, RingsAssumption DEF sizeof
  <2>2. PICK z \in Nat : z = ring[2]
    BY <2>1
  <2>3. d \in Nat /\ d >= 1 /\ 4 * d <= z
    BY <1>1, <2>1, <2>2 DEF sizeof
  <2>4. (4 * d) * n <= z * n /\ z * n \in Nat
    BY <2>1, <2>3, ProductOrder
  <2>5. (4 * d) * n = 4 * (n * d) /\ z * n = n * z /\ n * d \in Nat
    BY <2>1, <2>3
  <2>6. QED BY <2>1, <2>2, <2>3, <2>4, <2>5
<1>3. PICK i \in 1 .. n : s = (i - 1) * d
  BY <1>1 DEF Evenly, ToSet
<1>4. i - 1 \in Nat /\ i \in Nat /\ i <= n
  BY <1>2
<1>5. i * d <= n * d /\ i * d \in Nat /\ n * d \in Nat
  BY <1>2, <1>4, ProductOrder
<1>6. (i - 1) * d = i * d - d
  BY <1>2, <1>4
<1>7. QED BY <1>1, <1>2, <1>3, <1>5, <1>6

(* Word t of a ring for the line, whose lines have w words, is word Word(t, w) of a *)
(* line; that line is the one numbered Way(t, w), in the place Row(t, w, a) of a way:*)
(* the code goes on to the next way after each line, a times for each row.          *)
Word(t, w)   == t % w
Way(t, w)    == t \div w
Row(t, w, a) == (t \div w) \div a
PlaceOf(t, w, a, c) ==
  LET i == Row(t, w, a)
      j == Way(t, w) % a
      offset == ((j + i * a) * c) \div a
  IN  Word(t, w) + (i * (4 * w) + offset) \div 4

(* A cache of c bytes in a ways of n lines of w words.                             *)
IsCache(n, a, w, c) ==
  /\ n \in Nat /\ a \in Nat /\ w \in Nat /\ n >= 1 /\ a >= 1 /\ w >= 1
  /\ c = n * (4 * w) * a

LEMMA WordOfLine ==
  ASSUME NEW n, NEW a, NEW w, NEW c, IsCache(n, a, w, c), NEW t \in Nat
  PROVE  /\ PlaceOf(t, w, a, c) = (Way(t, w) * n + Row(t, w, a)) * w + Word(t, w)
         /\ Way(t, w) \in Nat /\ Row(t, w, a) \in Nat /\ Word(t, w) \in Nat
         /\ Word(t, w) < w /\ t = Way(t, w) * w + Word(t, w)
         /\ \E j \in Nat : j < a /\ Way(t, w) = Row(t, w, a) * a + j
<1>0. /\ n \in Nat /\ a \in Nat /\ w \in Nat /\ n >= 1 /\ a >= 1 /\ w >= 1
      /\ c = n * (4 * w) * a
  BY DEF IsCache
<1>1. PICK m \in Nat, k \in Nat : m = t \div w /\ k = t % w /\ k < w /\ t = m * w + k
  BY <1>0, Divided
<1>2. PICK i \in Nat, j \in Nat : i = m \div a /\ j = m % a /\ j < a /\ m = i * a + j
  BY <1>0, Divided
<1>3. j + i * a = m
  BY <1>0, <1>2
<1>4. PICK x \in Nat : x = m * (n * (4 * w))
  <2>1. n * (4 * w) \in Nat
    BY <1>0, ProductOrder
  <2>2. QED BY <2>1, ProductOrder
<1>5. m * c = x * a
  BY <1>0, <1>4
<1>6. (m * c) \div a = x
  BY <1>0, <1>5, Quotient
<1>7. PICK y \in Nat : y = (m * n + i) * w
  <2>1. m * n \in Nat
    BY <1>0, ProductOrder
  <2>2. m * n + i \in Nat
    BY <2>1
  <2>3. QED BY <1>0, <2>2, ProductOrder
<1>8. i * (4 * w) + x = y * 4
  BY <1>0, <1>4, <1>7
<1>9. (i * (4 * w) + x) \div 4 = y
  BY <1>0, <1>8
<1>10. k + y = y + k
  OBVIOUS
<1>11. Way(t, w) = m /\ Word(t, w) = k /\ Row(t, w, a) = i
  BY <1>1, <1>2 DEF Way, Word, Row
<1>12. PlaceOf(t, w, a, c) = k + y
  BY <1>2, <1>3, <1>6, <1>9, <1>11 DEF PlaceOf
<1>13. QED BY <1>1, <1>2, <1>7, <1>10, <1>11, <1>12

(* The buffer b reaches to the end of x bytes and not beyond them.                 *)
ReachesTo(b, x) ==
  \E y \in Nat : x = 4 * y /\ (\A s \in ToSet(b) : s < y) /\ y - 1 \in ToSet(b)

LEMMA ByLinesIsRing ==
  ASSUME NEW ring \in LineRings
  PROVE  /\ IsRing(ByLines(ring[1], ring[2], ring[3]))
         /\ ReachesTo(ByLines(ring[1], ring[2], ring[3]), Reach(ring[1], ring[2], ring[3]))
<1>1. PICK c, a, w, n :
        /\ c = ring[1] /\ a = ring[2] /\ w = ring[3] \div sizeof
        /\ n = (ring[1] \div ring[2]) \div ring[3]
  OBVIOUS
<1>2. /\ n \in Nat /\ n >= 1 /\ a \in Nat /\ a >= 1 /\ w \in Nat /\ w >= 1
      /\ ring[3] = 4 * w /\ c = n * (4 * w) * a
  <2>1. /\ ring[1] \in Nat /\ ring[2] \in Nat /\ ring[3] \in Nat
        /\ n >= 1 /\ a >= 1 /\ ring[3] >= 4 /\ ring[3] % 4 = 0
        /\ c = n * ring[3] * a
    BY <1>1, RingsAssumption DEF sizeof
  <2>2. w \in Nat /\ w >= 1 /\ ring[3] = 4 * w
    BY <1>1, <2>1 DEF sizeof
  <2>3. n \in Nat
    <3>1. ring[1] \div ring[2] \in Nat
      BY <1>1, <2>1, Divided
    <3>2. QED BY <1>1, <2>1, <3>1, Divided
  <2>4. QED BY <1>1, <2>1, <2>2, <2>3
<1>3. PICK b : b = ByLines(ring[1], ring[2], ring[3])
  OBVIOUS
<1>4. PICK r, l, u : r = n * a /\ l = r * w /\ u = r * n
  OBVIOUS
<1>5. /\ r \in Nat /\ r >= 1 /\ l \in Nat /\ l >= 1 /\ u \in Nat /\ u * w \in Nat
      /\ n * c = 4 * (u * w)
  <2>1. 1 * a <= n * a /\ n * a \in Nat
    BY <1>2, ProductOrder
  <2>2. r \in Nat /\ r >= 1
    BY <1>2, <1>4, <2>1
  <2>3. 1 * w <= r * w /\ r * w \in Nat /\ r * n \in Nat
    BY <1>2, <2>2, ProductOrder
  <2>4. u \in Nat /\ u * w \in Nat
    BY <1>2, <1>4, <2>3, ProductOrder
  <2>5. n * c = 4 * (u * w)
    BY <1>2, <1>4
  <2>6. QED BY <1>2, <1>4, <2>2, <2>3, <2>4, <2>5
<1>50. PICK m \in Nat : m = u * w /\ n * c = 4 * m
  BY <1>5
<1>6. \A t \in Nat :
        /\ PlaceOf(t, w, a, c) = (Way(t, w) * n + Row(t, w, a)) * w + Word(t, w)
        /\ Way(t, w) \in Nat /\ Row(t, w, a) \in Nat /\ Word(t, w) \in Nat
        /\ Word(t, w) < w /\ t = Way(t, w) * w + Word(t, w)
        /\ \E j \in Nat : j < a /\ Way(t, w) = Row(t, w, a) * a + j
  <2>1. IsCache(n, a, w, c)
    BY <1>2 DEF IsCache
  <2>2. QED BY <2>1, WordOfLine
<1>8. b = [q \in 1 .. l |-> PlaceOf(q - 1, w, a, c)]
  <2>1. (n * a) * w = l
    BY <1>4
  <2>2. b = [q \in 1 .. (n * a) * w |-> PlaceOf(q - 1, w, a, c)]
    BY <1>1, <1>2, <1>3 DEF ByLines, PlaceOf, Way, Word, Row, sizeof
  <2>3. QED BY <2>1, <2>2
<1>9. ASSUME NEW t \in Nat, t < l
      PROVE  /\ Row(t, w, a) < n /\ Way(t, w) * n + Row(t, w, a) \in Nat
             /\ (Way(t, w) * n + Row(t, w, a)) * w + Word(t, w) \in Nat
             /\ (Way(t, w) * n + Row(t, w, a)) * w + Word(t, w) < m
  <2>1. PICK p \in Nat, i \in Nat, k \in Nat :
          /\ p = Way(t, w) /\ i = Row(t, w, a) /\ k = Word(t, w) /\ k < w /\ t = p * w + k
          /\ \E j \in Nat : j < a /\ p = i * a + j
    <3>1. PICK p, i, k : p = Way(t, w) /\ i = Row(t, w, a) /\ k = Word(t, w)
      OBVIOUS
    <3>2. /\ p \in Nat /\ i \in Nat /\ k \in Nat /\ k < w /\ t = p * w + k
          /\ \E j \in Nat : j < a /\ p = i * a + j
      BY <1>6, <3>1
    <3>3. QED BY <3>1, <3>2
  <2>2. p < r
    <3>1. CASE r <= p
      <4>1. r * w <= p * w /\ p * w \in Nat
        BY <1>2, <1>5, <3>1, ProductOrder
      <4>2. QED BY <1>4, <1>5, <1>9, <2>1, <4>1
    <3>2. QED BY <1>5, <3>1
  <2>3. i < n
    <3>1. CASE n <= i
      <4>1. n * a <= i * a /\ i * a \in Nat
        BY <1>2, <3>1, ProductOrder
      <4>2. PICK j \in Nat : p = i * a + j
        BY <2>1
      <4>3. QED BY <1>4, <1>5, <2>2, <4>1, <4>2
    <3>2. QED BY <1>2, <3>1
  <2>4. p + 1 \in Nat /\ p + 1 <= r
    BY <1>5, <2>2
  <2>5. (p + 1) * n <= u /\ p * n \in Nat /\ (p + 1) * n = p * n + n
    <3>1. (p + 1) * n <= r * n /\ p * n \in Nat
      BY <1>2, <1>5, <2>4, ProductOrder
    <3>2. QED BY <1>2, <1>4, <3>1
  <2>6. PICK v \in Nat : v = p * n + i
    BY <2>5
  <2>7. v + 1 \in Nat /\ v + 1 <= u
    BY <1>2, <1>5, <2>3, <2>5, <2>6
  <2>8. (v + 1) * w <= u * w /\ v * w \in Nat /\ u * w \in Nat
    BY <1>2, <1>5, <2>7, ProductOrder
  <2>9. (v + 1) * w = v * w + w
    BY <1>2
  <2>10. v * w + k \in Nat /\ v * w + k < m
    <3>1. PICK y \in Nat, z \in Nat : y = v * w /\ z = u * w
      BY <2>8
    <3>2. y + w <= z /\ z = m /\ k < w
      BY <1>50, <2>1, <2>8, <2>9, <3>1
    <3>3. y + k \in Nat /\ y + k < m
      BY <1>2, <3>1, <3>2
    <3>4. QED BY <3>1, <3>3
  <2>11. QED BY <2>1, <2>3, <2>6, <2>10
<1>10. ASSUME NEW q \in 1 .. l
       PROVE  /\ q - 1 \in Nat /\ q - 1 < l
              /\ b[q] = (Way(q - 1, w) * n + Row(q - 1, w, a)) * w + Word(q - 1, w)
              /\ b[q] \in Nat /\ b[q] < m
  <2>1. q - 1 \in Nat /\ q - 1 < l
    BY <1>5
  <2>2. b[q] = (Way(q - 1, w) * n + Row(q - 1, w, a)) * w + Word(q - 1, w)
    BY <1>6, <1>8, <2>1
  <2>3. QED BY <1>9, <2>1, <2>2
<1>11. b \in Seq(Nat) /\ Len(b) = l
  <2>1. b \in [1 .. l -> Nat]
    BY <1>8, <1>10
  <2>2. QED BY <1>5, <2>1
<1>12. b[1] = 0
  <2>1. b[1] = (Way(0, w) * n + Row(0, w, a)) * w + Word(0, w)
    BY <1>5, <1>10
  <2>2. 0 \div w = 0 /\ 0 % w = 0 /\ 0 \div a = 0
    BY <1>2
  <2>3. Way(0, w) = 0 /\ Row(0, w, a) = 0 /\ Word(0, w) = 0
    BY <2>2 DEF Way, Row, Word
  <2>4. (0 * n + 0) * w + 0 = 0
    BY <1>2
  <2>5. QED BY <2>1, <2>3, <2>4
<1>13. ASSUME NEW q \in 1 .. l, NEW s \in 1 .. l, b[q] = b[s]
       PROVE  q = s
  <2>1. PICK x \in Nat, y \in Nat : x = q - 1 /\ y = s - 1 /\ x < l /\ y < l
    BY <1>10
  <2>2. PICK f, g :
          f = Way(x, w) * n + Row(x, w, a) /\ g = Way(y, w) * n + Row(y, w, a)
    OBVIOUS
  <2>3. f \in Nat /\ g \in Nat /\ f * w + Word(x, w) = g * w + Word(y, w)
    BY <1>9, <1>10, <1>13, <2>1, <2>2
  <2>4. f = g /\ Word(x, w) = Word(y, w)
    <3>1. /\ Word(x, w) \in Nat /\ Word(y, w) \in Nat /\ Word(x, w) < w /\ Word(y, w) < w
      BY <1>6
    <3>2. QED BY <1>2, <2>3, <3>1, Unique
  <2>5. Way(x, w) = Way(y, w)
    <3>1. /\ Row(x, w, a) < n /\ Row(y, w, a) < n
          /\ Way(x, w) * n + Row(x, w, a) = Way(y, w) * n + Row(y, w, a)
      BY <1>9, <2>1, <2>2, <2>4
    <3>2. /\ Row(x, w, a) \in Nat /\ Row(y, w, a) \in Nat
          /\ Way(x, w) \in Nat /\ Way(y, w) \in Nat
      BY <1>6
    <3>3. QED BY <1>2, <3>1, <3>2, Unique
  <2>6. x = y
    <3>1. x = Way(x, w) * w + Word(x, w) /\ y = Way(y, w) * w + Word(y, w)
      BY <1>6
    <3>2. QED BY <2>4, <2>5, <3>1
  <2>7. QED BY <2>1, <2>6
<1>14. b[l] = m - 1
  <2>1. PICK t \in Nat : t = l - 1
    BY <1>5
  <2>2. PICK e \in Nat, f \in Nat, g \in Nat : e = r - 1 /\ f = w - 1 /\ g = n - 1
    BY <1>2, <1>5
  <2>3. Way(t, w) = e /\ Word(t, w) = f
    <3>1. t = e * w + f
      BY <1>2, <1>4, <1>5, <2>1, <2>2
    <3>2. /\ Way(t, w) \in Nat /\ Word(t, w) \in Nat /\ Word(t, w) < w
          /\ t = Way(t, w) * w + Word(t, w)
      BY <1>6
    <3>3. f < w
      BY <1>2, <2>2
    <3>4. QED BY <1>2, <3>1, <3>2, <3>3, Unique
  <2>4. Row(t, w, a) = g
    <3>1. PICK j \in Nat : j < a /\ e = Row(t, w, a) * a + j
      BY <1>6, <2>3
    <3>2. Row(t, w, a) \in Nat
      BY <1>6
    <3>3. PICK h \in Nat : h = a - 1
      BY <1>2
    <3>4. e = g * a + h /\ h < a
      BY <1>2, <1>4, <1>5, <2>2, <3>3
    <3>5. QED BY <1>2, <3>1, <3>2, <3>4, Unique
  <2>5. b[l] = (e * n + g) * w + f
    <3>1. l \in 1 .. l
      BY <1>5
    <3>2. QED BY <1>10, <2>1, <2>3, <2>4, <3>1
  <2>6. e * n + g = u - 1
    <3>1. (e + 1) * n = e * n + n /\ e + 1 = r /\ e * n \in Int
      BY <1>2, <1>5, <2>2
    <3>2. QED BY <1>2, <1>4, <1>5, <2>2, <3>1
  <2>7. (u - 1) * w = u * w - w
    BY <1>2, <1>5
  <2>8. QED BY <1>2, <1>50, <2>2, <2>5, <2>6, <2>7
<1>15. ReachesTo(b, Reach(ring[1], ring[2], ring[3]))
  <2>1. Reach(ring[1], ring[2], ring[3]) = 4 * m
    BY <1>1, <1>50 DEF Reach
  <2>2. ToSet(b) = {b[q] : q \in 1 .. l}
    BY <1>11 DEF ToSet
  <2>3. \A q \in 1 .. l : b[q] < m
    BY <1>10
  <2>4. l \in 1 .. l
    BY <1>5
  <2>5. QED BY <1>14, <2>1, <2>2, <2>3, <2>4 DEF ReachesTo
<1>16. QED BY <1>1, <1>3, <1>5, <1>10, <1>11, <1>12, <1>13, <1>15 DEF IsRing

(* So the array's size is compared with what the ring reaches, or with its last    *)
(* element: it is the same.                                                        *)
LEMMA LineOverruns ==
  ASSUME NEW ring \in LineRings
  PROVE  /\ LineSlots[ring] = ToSet(ByLines(ring[1], ring[2], ring[3]))
         /\ LineSlots[ring] # {}
         /\ (\E s \in LineSlots[ring] : s >= MAX_SIZE)
              <=> Reach(ring[1], ring[2], ring[3]) > sizeof * MAX_SIZE
<1>1. LineSlots[ring] = ToSet(ByLines(ring[1], ring[2], ring[3]))
  BY DEF LineSlots
<1>2. PICK y \in Nat : /\ Reach(ring[1], ring[2], ring[3]) = 4 * y
                       /\ \A s \in LineSlots[ring] : s < y
                       /\ y - 1 \in LineSlots[ring]
  BY <1>1, ByLinesIsRing DEF ReachesTo
<1>3. MAX_SIZE \in Nat
  BY RingsAssumption
<1>4. \A s \in LineSlots[ring] : s \in Nat
  <2>1. IsRing(ByLines(ring[1], ring[2], ring[3]))
    BY ByLinesIsRing
  <2>2. QED BY <1>1, <2>1 DEF IsRing, ToSet
<1>5. QED BY <1>1, <1>2, <1>3, <1>4 DEF sizeof

-----------------------------------------------------------------------------------
LEMMA ShuffledIsRing ==
  ASSUME NEW b, IsRing(b), NEW order \in Bijection(1 .. Len(b) - 1, 1 .. Len(b) - 1)
  PROVE  /\ IsRing(Shuffled(b, order)) /\ Len(Shuffled(b, order)) = Len(b)
         /\ ToSet(Shuffled(b, order)) = ToSet(b)
<1>1. PICK n \in Nat : n = Len(b) - 1
  BY DEF IsRing
<1>2. /\ b \in Seq(Nat) /\ Len(b) = n + 1 /\ DOMAIN b = 1 .. n + 1
      /\ \A i \in 1 .. n : i + 1 \in 1 .. n + 1
      /\ \A i \in 1 .. n + 1 : b[i] \in Nat
  BY <1>1 DEF IsRing
<1>3. /\ order \in [1 .. n -> 1 .. n]
      /\ \A i, j \in 1 .. n : order[i] = order[j] => i = j
      /\ \A k \in 1 .. n : \E i \in 1 .. n : order[i] = k
  <2>1. order \in Bijection(1 .. n, 1 .. n)
    BY <1>1
  <2>2. QED BY <2>1 DEF Bijection, Injection, Surjection, IsInjective
<1>4. PICK rest : rest = [i \in 1 .. n |-> b[order[i] + 1]]
  OBVIOUS
<1>5. \A i \in 1 .. n : order[i] \in 1 .. n /\ order[i] + 1 \in 1 .. n + 1 /\ rest[i] = b[order[i] + 1]
  BY <1>2, <1>3, <1>4
<1>6. rest \in Seq(Nat) /\ Len(rest) = n
  <2>1. rest \in [1 .. n -> Nat]
    BY <1>2, <1>4, <1>5
  <2>2. QED BY <2>1
<1>7. PICK s : s = Shuffled(b, order)
  OBVIOUS
<1>8. s = <<b[1]>> \o rest
  <2>1. Head(b) = b[1]
    BY <1>2
  <2>2. QED BY <1>1, <1>2, <1>4, <1>7, <2>1 DEF Shuffled
<1>9. /\ s \in Seq(Nat) /\ Len(s) = n + 1 /\ s[1] = b[1]
      /\ \A i \in 1 .. n : s[i + 1] = rest[i]
  <2>1. b[1] \in Nat
    BY <1>2
  <2>2. QED BY <1>6, <1>8, <2>1
<1>10. ASSUME NEW i \in 1 .. n + 1
       PROVE  i = 1 \/ (i - 1 \in 1 .. n /\ s[i] = b[order[i - 1] + 1] /\ order[i - 1] \in 1 .. n)
  <2>1. i = 1 \/ (i - 1 \in 1 .. n /\ (i - 1) + 1 = i)
    OBVIOUS
  <2>2. QED BY <1>5, <1>9, <2>1
<1>11. ASSUME NEW i \in 1 .. n + 1
       PROVE  \E k \in 1 .. n + 1 : s[i] = b[k] /\ (k = 1 <=> i = 1)
  <2>1. CASE i = 1
    BY <1>9, <2>1
  <2>2. CASE i # 1
    <3>1. s[i] = b[order[i - 1] + 1] /\ order[i - 1] \in 1 .. n
      BY <1>10, <2>2
    <3>2. order[i - 1] + 1 \in 1 .. n + 1 /\ order[i - 1] + 1 # 1
      BY <3>1
    <3>3. QED BY <2>2, <3>1, <3>2
  <2>3. QED BY <2>1, <2>2
<1>12. ASSUME NEW k \in 1 .. n + 1
       PROVE  \E i \in 1 .. n + 1 : s[i] = b[k]
  <2>1. CASE k = 1
    BY <1>9, <2>1
  <2>2. CASE k # 1
    <3>1. k - 1 \in 1 .. n /\ (k - 1) + 1 = k
      BY <2>2
    <3>2. PICK i \in 1 .. n : order[i] = k - 1
      BY <1>3, <3>1
    <3>3. s[i + 1] = b[k]
      <4>1. order[i] + 1 = k
        BY <3>1, <3>2
      <4>2. QED BY <1>5, <1>9, <4>1
    <3>4. QED BY <1>2, <3>3
  <2>3. QED BY <2>1, <2>2
<1>13. ASSUME NEW i \in 1 .. n + 1, NEW j \in 1 .. n + 1, s[i] = s[j]
       PROVE  i = j
  <2>1. i = 1 <=> j = 1
    <3>1. PICK k \in 1 .. n + 1 : s[i] = b[k] /\ (k = 1 <=> i = 1)
      BY <1>11
    <3>2. PICK l \in 1 .. n + 1 : s[j] = b[l] /\ (l = 1 <=> j = 1)
      BY <1>11
    <3>3. k = l
      BY <1>2, <1>13, <3>1, <3>2 DEF IsRing
    <3>4. QED BY <3>1, <3>2, <3>3
  <2>2. CASE i # 1
    <3>1. PICK x, y : x = i - 1 /\ y = j - 1
      OBVIOUS
    <3>2. /\ x \in 1 .. n /\ y \in 1 .. n /\ s[i] = b[order[x] + 1] /\ s[j] = b[order[y] + 1]
          /\ order[x] \in 1 .. n /\ order[y] \in 1 .. n
      BY <1>10, <2>1, <2>2, <3>1
    <3>3. order[x] + 1 = order[y] + 1
      BY <1>2, <1>13, <3>2 DEF IsRing
    <3>4. order[x] = order[y]
      BY <3>2, <3>3
    <3>5. x = y
      BY <1>3, <3>2, <3>4
    <3>6. QED BY <3>1, <3>5
  <2>3. QED BY <2>1, <2>2
<1>14. DOMAIN s = 1 .. n + 1
  BY <1>9
<1>15. ToSet(s) = ToSet(b)
  <2>1. ASSUME NEW x \in ToSet(s) PROVE x \in ToSet(b)
    <3>1. PICK i \in 1 .. n + 1 : x = s[i]
      BY <1>14, <2>1 DEF ToSet
    <3>2. QED BY <1>2, <1>11, <3>1 DEF ToSet
  <2>2. ASSUME NEW x \in ToSet(b) PROVE x \in ToSet(s)
    <3>1. PICK i \in 1 .. n + 1 : x = b[i]
      BY <1>2, <2>2 DEF ToSet
    <3>2. QED BY <1>12, <1>14, <3>1 DEF ToSet
  <2>3. QED BY <2>1, <2>2
<1>16. IsRing(s)
  <2>1. n + 1 >= 1
    OBVIOUS
  <2>2. QED BY <1>2, <1>9, <1>13, <2>1 DEF IsRing
<1>17. QED BY <1>2, <1>7, <1>9, <1>15, <1>16

(* The array leads from each index of the buffer to the one behind it.             *)
LEMMA LinkedFacts ==
  ASSUME NEW b, IsRing(b)
  PROVE  /\ DOMAIN Linked(b) = ToSet(b)
         /\ \A i \in 1 .. Len(b) : b[i] \in ToSet(b) /\ Linked(b)[b[i]] = b[(i % Len(b)) + 1]
<1>1. DOMAIN b = 1 .. Len(b)
  BY DEF IsRing
<1>2. ASSUME NEW i \in 1 .. Len(b)
      PROVE  b[i] \in ToSet(b) /\ Linked(b)[b[i]] = b[(i % Len(b)) + 1]
  <2>1. b[i] \in ToSet(b)
    BY <1>1 DEF ToSet
  <2>2. \A k \in DOMAIN b : b[k] = b[i] <=> k = i
    BY <1>1 DEF IsRing
  <2>3. (CHOOSE k \in DOMAIN b : b[k] = b[i]) = i
    BY <1>1, <2>2
  <2>4. QED BY <2>1, <2>3 DEF Linked
<1>3. QED BY <1>2 DEF Linked

-----------------------------------------------------------------------------------
(* Both loops follow the ring of buffer b, of which the first has done all but left*)
(* iterations.                                                                     *)
Followed(b) ==
  /\ IsRing(b) /\ slots = ToSet(b)
  /\ \A i \in 1 .. Len(b) : array[b[i]] = b[(i % Len(b)) + 1]
  /\ left \in 0 .. Len(b)
  /\ left > 0 => index = b[Len(b) - left + 1]
  /\ seen = {b[i] : i \in 1 .. Len(b) - left}

ChaseInv ==
  /\ ArrayBounds
  /\ (rings = 0 /\ left = 0) \/ \E b : Followed(b)

LEMMA InitFollows == Init => ChaseInv
<1> SUFFICES ASSUME Init PROVE ChaseInv
  OBVIOUS
<1>1. DOMAIN <<>> = {}
  OBVIOUS
<1>2. ~Overrun /\ slots = {}
  BY <1>1 DEF Init, Overrun
<1>3. ArrayBounds
  BY <1>2, LineOverruns DEF ArrayBounds
<1>4. QED BY <1>3 DEF Init, ChaseInv

LEMMA BuildFollows ==
  ASSUME NEW buffer \in Buffers, IsRing(buffer), Build(buffer)
  PROVE  /\ \E b : Followed(b)' /\ left' = Len(b)
         /\ slots' = ToSet(buffer) /\ (Overrun' <=> \E s \in ToSet(buffer) : s >= MAX_SIZE)
<1>1. PICK order \in Shuffles(Len(buffer) - 1) :
        array' = [s \in DOMAIN Linked(Shuffled(buffer, order)) \cup DOMAIN array |->
                    IF s \in DOMAIN Linked(Shuffled(buffer, order))
                    THEN Linked(Shuffled(buffer, order))[s] ELSE array[s]]
  BY DEF Build
<1>2. order \in Bijection(1 .. Len(buffer) - 1, 1 .. Len(buffer) - 1)
  BY ShufflesAssumption
<1>3. PICK b : b = Shuffled(buffer, order)
  OBVIOUS
<1>4. IsRing(b) /\ Len(b) = Len(buffer) /\ ToSet(b) = ToSet(buffer)
  BY <1>2, <1>3, ShuffledIsRing
<1>5. PICK n \in Nat : n = Len(b) /\ n >= 1 /\ DOMAIN b = 1 .. n
  BY <1>4 DEF IsRing
<1>6. /\ DOMAIN Linked(b) = ToSet(b)
      /\ \A i \in 1 .. n : b[i] \in ToSet(b) /\ Linked(b)[b[i]] = b[(i % n) + 1]
  BY <1>4, <1>5, LinkedFacts
<1>7. \A i \in 1 .. n : array'[b[i]] = b[(i % n) + 1]
  BY <1>1, <1>3, <1>6
<1>8. Overrun' <=> \E s \in ToSet(buffer) : s >= MAX_SIZE
  <2>1. DOMAIN array' = ToSet(b) \cup DOMAIN array
    BY <1>1, <1>3, <1>6
  <2>2. ~Overrun
    BY DEF Build
  <2>3. QED BY <1>4, <2>1, <2>2 DEF Overrun
<1>9. slots' = ToSet(b) /\ left' = n /\ index' = 0 /\ seen' = {}
  BY <1>4, <1>5 DEF Build
<1>10. left' \in 0 .. n /\ n - left' + 1 = 1 /\ 1 .. n - left' = {}
  BY <1>5, <1>9
<1>11. index' = b[n - left' + 1] /\ seen' = {b[i] : i \in 1 .. n - left'}
  BY <1>4, <1>9, <1>10 DEF IsRing
<1>12. Followed(b)'
  BY <1>4, <1>5, <1>7, <1>9, <1>10, <1>11 DEF Followed
<1>13. QED BY <1>4, <1>5, <1>8, <1>9, <1>12

LEMMA WarmFollows ==
  ASSUME NEW b, Followed(b), Warm
  PROVE  Followed(b)' /\ index = b[Len(b) - left + 1]
<1>1. PICK n \in Nat : n = Len(b)
  BY DEF Followed, IsRing
<1>2. PICK p \in Nat : p = n - left + 1 /\ p \in 1 .. n /\ left \in 1 .. n
  <2>1. left > 0 /\ left \in 0 .. n
    BY <1>1 DEF Followed, Warm
  <2>2. n - left + 1 \in Nat /\ n - left + 1 \in 1 .. n /\ left \in 1 .. n
    BY <2>1
  <2>3. QED BY <2>2
<1>3. index = b[p]
  BY <1>1, <1>2 DEF Followed
<1>4. left' = left - 1 /\ seen' = seen \cup {b[p]} /\ UNCHANGED <<array, slots>>
  BY <1>3 DEF Warm
<1>5. /\ left' \in 0 .. n /\ n - left' = p /\ n - left = p - 1
      /\ \A i \in 1 .. p : i = p \/ i \in 1 .. p - 1
      /\ p \in 1 .. p /\ \A i \in 1 .. p - 1 : i \in 1 .. p
  BY <1>2, <1>4
<1>6. seen' = {b[i] : i \in 1 .. n - left'}
  <2>1. seen = {b[i] : i \in 1 .. p - 1}
    BY <1>1, <1>5 DEF Followed
  <2>2. QED BY <1>4, <1>5, <2>1
<1>7. ASSUME left' > 0
      PROVE  index' = b[n - left' + 1]
  <2>1. left # 1 /\ p < n
    BY <1>2, <1>4, <1>7
  <2>2. p % n = p
    BY <1>2, <2>1
  <2>3. index' = array[b[p]]
    BY <1>3, <2>1 DEF Warm
  <2>4. array[b[p]] = b[(p % n) + 1]
    BY <1>1, <1>2 DEF Followed
  <2>5. QED BY <1>5, <2>2, <2>3, <2>4
<1>8. Followed(b)'
  BY <1>1, <1>4, <1>5, <1>6, <1>7 DEF Followed
<1>9. QED BY <1>1, <1>2, <1>3, <1>8

LEMMA ChaseKeeps == ChaseInv /\ [Next]_chaseVars => ChaseInv'
<1> SUFFICES ASSUME ChaseInv, [Next]_chaseVars PROVE ChaseInv'
  OBVIOUS
<1>1. CASE generate_test_array
  <2>1. PICK ring \in Rings :
          ring[1] * ring[2] < sizeof * MAX_SIZE /\ Build(Evenly(ring[1], ring[2]))
    BY <1>1 DEF generate_test_array
  <2>2. PICK buffer \in Buffers : buffer = Evenly(ring[1], ring[2])
    BY DEF Buffers
  <2>3. /\ \E b : Followed(b)'
        /\ slots' = ToSet(buffer) /\ (Overrun' <=> \E s \in ToSet(buffer) : s >= MAX_SIZE)
    BY <2>1, <2>2, EvenlyIsRing, BuildFollows
  <2>4. \A s \in slots' : s \in Nat /\ s < MAX_SIZE
    <3>1. \A s \in ToSet(buffer) : s < MAX_SIZE
      BY <2>1, <2>2, EvenlyIsInside
    <3>2. \A s \in ToSet(buffer) : s \in Nat
      BY <2>2, EvenlyIsRing DEF IsRing, ToSet
    <3>3. QED BY <2>3, <3>1, <3>2
  <2>5. \A s \in slots' : ~(s >= MAX_SIZE)
    BY <2>4, RingsAssumption
  <2>6. ArrayBounds'
    BY <2>3, <2>5, LineOverruns DEF ArrayBounds
  <2>7. QED BY <2>3, <2>6 DEF ChaseInv
<1>2. CASE generate_test_array_for_line
  <2>1. PICK ring \in LineRings : Build(ByLines(ring[1], ring[2], ring[3]))
    BY <1>2 DEF generate_test_array_for_line
  <2>2. ByLines(ring[1], ring[2], ring[3]) \in Buffers
    BY DEF Buffers
  <2>3. /\ \E b : Followed(b)'
        /\ slots' = LineSlots[ring] /\ (Overrun' <=> \E s \in LineSlots[ring] : s >= MAX_SIZE)
    BY <2>1, <2>2, ByLinesIsRing, LineOverruns, BuildFollows
  <2>4. ArrayBounds'
    BY <2>3, LineOverruns DEF ArrayBounds
  <2>5. QED BY <2>3, <2>4 DEF ChaseInv
<1>3. CASE Warm
  <2>1. PICK b : Followed(b)
    BY <1>3 DEF ChaseInv, Warm
  <2>2. QED BY <1>3, <2>1, WarmFollows DEF ChaseInv, ArrayBounds, Overrun, Warm
<1>4. CASE Loop \/ UNCHANGED chaseVars
  <2>1. UNCHANGED <<array, slots, left, seen, rings>> /\ (left > 0 => index' = index)
    <3>1. CASE Loop
      <4>1. left = 0
        BY <3>1 DEF Loop, Warmed
      <4>2. QED BY <3>1, <4>1 DEF Loop
    <3>2. CASE UNCHANGED chaseVars
      BY <3>2 DEF chaseVars
    <3>3. QED BY <1>4, <3>1, <3>2
  <2>2. ASSUME NEW b, Followed(b) PROVE Followed(b)'
    BY <2>1, <2>2 DEF Followed
  <2>3. QED BY <2>1, <2>2 DEF ChaseInv, ArrayBounds, Overrun
<1>5. QED BY <1>1, <1>2, <1>3, <1>4 DEF Next

(* Whatever the sizes of the rings, their orders and what was in the array before, *)
(* the loop that fills the cache has read every index of the ring when it ends, and*)
(* no other (generate_test_array, generate_test_array_for_line, measure).          *)
THEOREM RingsAreWhole == Spec => []WholeRing
<1>1. ChaseInv => WholeRing
  <2> SUFFICES ASSUME ChaseInv, rings > 0, left = 0 PROVE seen = slots
    BY DEF WholeRing
  <2>1. PICK b : Followed(b)
    <3>1. rings # 0
      OBVIOUS
    <3>2. QED BY <3>1 DEF ChaseInv
  <2>2. PICK n \in Nat : n = Len(b) /\ DOMAIN b = 1 .. n
    BY <2>1 DEF Followed, IsRing
  <2>3. n - left = n
    BY <2>2
  <2>4. seen = {b[i] : i \in 1 .. n} /\ slots = {b[i] : i \in 1 .. n}
    BY <2>1, <2>2, <2>3 DEF Followed, ToSet
  <2>5. QED BY <2>4
<1>2. QED BY <1>1, InitFollows, ChaseKeeps, PTL DEF Spec

(* Whatever the rings, and however many are built one after another: as long as the*)
(* array is left by none for the line that reaches beyond its end, it is left by   *)
(* none, and by that ring it is (get_cache_size_and_associativity,                 *)
(* generate_test_array, generate_test_array_for_line).                             *)
THEOREM RingsThatOverrun == Spec => []ArrayBounds
<1>1. ChaseInv => ArrayBounds
  BY DEF ChaseInv
<1>2. QED BY <1>1, InitFollows, ChaseKeeps, PTL DEF Spec

-----------------------------------------------------------------------------------
(* A set of the cache, in view of some lines D that have been read and the order R *)
(* in which each was read last: behind one of D there are only such as were read   *)
(* later; if one of D is missing, the set is full of such.                         *)
Lru(q, low, high, D, R) ==
  /\ q \in Seq(Nat) /\ Len(q) <= high
  /\ \A i, j \in 1 .. Len(q) : q[i] = q[j] => i = j
  /\ \A i, j \in 1 .. Len(q) : i < j /\ q[i] \in D => q[j] \in D /\ <<q[i], q[j]>> \in R
  /\ \A x \in D : (\A i \in 1 .. Len(q) : q[i] # x) =>
       Len(q) >= low /\ \A j \in 1 .. Len(q) : q[j] \in D /\ <<x, q[j]>> \in R

LEMMA RemovedAt ==
  ASSUME NEW q \in Seq(Nat), NEW k \in 1 .. Len(q)
  PROVE  /\ RemoveAt(q, k) \in Seq(Nat) /\ Len(RemoveAt(q, k)) = Len(q) - 1
         /\ \A i \in 1 .. Len(q) - 1 : RemoveAt(q, k)[i] = IF i < k THEN q[i] ELSE q[i + 1]
<1>1. Len(q) \in Nat /\ k \in Nat /\ k >= 1 /\ k <= Len(q)
  OBVIOUS
<1> DEFINE a == SubSeq(q, 1, k - 1)
           c == SubSeq(q, k + 1, Len(q))
<1>2. a \in Seq(Nat) /\ Len(a) = k - 1 /\ \A i \in 1 .. k - 1 : a[i] = q[i]
  <2>1. \A i \in 1 .. k - 1 : q[i] \in Nat
    BY <1>1, ElementOfSeq
  <2>2. QED BY <1>1, <2>1, SubSeqProperties
<1>3. /\ c \in Seq(Nat) /\ Len(c) = Len(q) - k
      /\ \A i \in 1 .. Len(q) - k : c[i] = q[k + i]
  <2>1. PICK m \in Int : m = k + 1
    BY <1>1
  <2>0. \A i \in m .. Len(q) : q[i] \in Nat
    BY <1>1, <2>1, ElementOfSeq
  <2>2. /\ c \in Seq(Nat) /\ Len(c) = (IF k + 1 <= Len(q) THEN Len(q) - (k + 1) + 1 ELSE 0)
        /\ \A i \in 1 .. Len(q) - (k + 1) + 1 : c[i] = q[(k + 1) + i - 1]
    <3>1. /\ SubSeq(q, m, Len(q)) \in Seq(Nat)
          /\ Len(SubSeq(q, m, Len(q))) = (IF m <= Len(q) THEN Len(q) - m + 1 ELSE 0)
          /\ \A i \in 1 .. Len(q) - m + 1 : SubSeq(q, m, Len(q))[i] = q[m + i - 1]
      BY <1>1, <2>0, SubSeqProperties
    <3>2. QED BY <2>1, <3>1
  <2>3. (IF k + 1 <= Len(q) THEN Len(q) - (k + 1) + 1 ELSE 0) = Len(q) - k
    BY <1>1
  <2>4. Len(q) - (k + 1) + 1 = Len(q) - k /\ \A i \in 1 .. Len(q) - k : (k + 1) + i - 1 = k + i
    BY <1>1
  <2> HIDE DEF c
  <2>5. QED BY <2>2, <2>3, <2>4
<1>4. RemoveAt(q, k) = a \o c
  BY DEF RemoveAt
<1> HIDE DEF a, c
<1>5. /\ a \o c \in Seq(Nat) /\ Len(a \o c) = Len(a) + Len(c)
      /\ \A i \in 1 .. Len(a) + Len(c) :
           (a \o c)[i] = IF i <= Len(a) THEN a[i] ELSE c[i - Len(a)]
  BY <1>2, <1>3, ConcatProperties
<1>6. Len(a) + Len(c) = Len(q) - 1
  BY <1>1, <1>2, <1>3
<1>7. ASSUME NEW i \in 1 .. Len(q) - 1
      PROVE  (a \o c)[i] = IF i < k THEN q[i] ELSE q[i + 1]
  <2>1. CASE i < k
    <3>1. i <= Len(a) /\ i \in 1 .. k - 1
      BY <1>1, <1>2, <2>1
    <3>2. QED BY <1>2, <1>5, <1>6, <2>1, <3>1
  <2>2. CASE ~(i < k)
    <3>1. ~(i <= Len(a)) /\ i - Len(a) = i - (k - 1)
      BY <1>1, <1>2, <2>2
    <3>2. i - (k - 1) \in 1 .. Len(q) - k /\ k + (i - (k - 1)) = i + 1
      BY <1>1, <2>2
    <3>3. c[i - (k - 1)] = q[i + 1]
      BY <1>3, <3>2
    <3>4. QED BY <1>5, <1>6, <2>2, <3>1, <3>3
  <2>3. QED BY <2>1, <2>2
<1>8. QED BY <1>4, <1>5, <1>6, <1>7

Distinct(q) == \A i, j \in 1 .. Len(q) : q[i] = q[j] => i = j

(* r is what is left of q: the elements of it that are not x, in their order.      *)
Without(r, q, x) ==
  /\ r \in Seq(Nat) /\ Len(r) \in {Len(q), Len(q) - 1}
  /\ \E g \in [1 .. Len(r) -> 1 .. Len(q)] :
       /\ \A i \in 1 .. Len(r) : r[i] = q[g[i]] /\ q[g[i]] # x
       /\ \A i, j \in 1 .. Len(r) : i < j => g[i] < g[j]
  /\ \A k \in 1 .. Len(q) : q[k] # x => \E i \in 1 .. Len(r) : r[i] = q[k]

LEMMA RemovedFirst ==
  ASSUME NEW q \in Seq(Nat), NEW x, Distinct(q)
  PROVE  Without(RemoveFirst(q, x), q, x)
<1>1. CASE \E i \in 1 .. Len(q) : q[i] = x
  <2>1. PICK k \in 1 .. Len(q) : q[k] = x
    BY <1>1
  <2>2. \A i \in 1 .. Len(q) : q[i] = x <=> i = k
    BY <2>1 DEF Distinct
  <2>3. SelectInSeq(q, LAMBDA v : v = x) = k
    <3>1. {i \in 1 .. Len(q) : q[i] = x} = {k}
      BY <2>2
    <3>2. Min({k}) = k
      <4>1. \A y \in {k} : (\A z \in {k} : y <= z) <=> y = k
        BY <2>1
      <4>2. QED BY <4>1 DEF Min
    <3>3. QED BY <3>1, <3>2 DEF SelectInSeq
  <2>4. PICK r : r = RemoveFirst(q, x)
    OBVIOUS
  <2>5. r = RemoveAt(q, k)
    BY <1>1, <2>3, <2>4 DEF RemoveFirst
  <2>6. /\ r \in Seq(Nat) /\ Len(r) = Len(q) - 1 /\ Len(q) \in Nat /\ k \in Nat
        /\ \A i \in 1 .. Len(q) - 1 : r[i] = IF i < k THEN q[i] ELSE q[i + 1]
    <3>1. Len(q) \in Nat /\ k \in Nat
      OBVIOUS
    <3>2. QED BY <2>5, <3>1, RemovedAt, Zenon
  <2>7. PICK g : g = [i \in 1 .. Len(r) |-> IF i < k THEN i ELSE i + 1]
    OBVIOUS
  <2>8. g \in [1 .. Len(r) -> 1 .. Len(q)]
    BY <2>6, <2>7
  <2>9. ASSUME NEW i \in 1 .. Len(r)
        PROVE  r[i] = q[g[i]] /\ q[g[i]] # x
    <3>1. g[i] = (IF i < k THEN i ELSE i + 1) /\ g[i] # k /\ g[i] \in 1 .. Len(q)
      BY <2>6, <2>7, <2>8
    <3>2. r[i] = q[g[i]]
      BY <2>6, <3>1
    <3>3. QED BY <2>2, <3>1, <3>2
  <2>10. ASSUME NEW i \in 1 .. Len(r), NEW j \in 1 .. Len(r), i < j
         PROVE  g[i] < g[j]
    <3>1. g[i] = (IF i < k THEN i ELSE i + 1) /\ g[j] = (IF j < k THEN j ELSE j + 1)
      BY <2>7
    <3>2. i \in Int /\ j \in Int /\ k \in Int
      BY <2>6
    <3>3. QED BY <2>10, <3>1, <3>2
  <2>11. ASSUME NEW l \in 1 .. Len(q), q[l] # x
         PROVE  \E i \in 1 .. Len(r) : r[i] = q[l]
    <3>1. l # k
      BY <2>1, <2>11
    <3>2. CASE l < k
      <4>1. l \in 1 .. Len(r)
        BY <2>6, <3>2
      <4>2. QED BY <2>6, <3>2, <4>1
    <3>3. CASE l > k
      <4>1. l - 1 \in 1 .. Len(r) /\ ~(l - 1 < k) /\ l - 1 + 1 = l
        BY <2>6, <3>3
      <4>2. r[l - 1] = q[l]
        BY <2>6, <4>1
      <4>3. QED BY <4>1, <4>2
    <3>4. QED BY <2>6, <3>1, <3>2, <3>3
  <2>12. QED BY <2>4, <2>6, <2>8, <2>9, <2>10, <2>11 DEF Without
<1>2. CASE ~\E i \in 1 .. Len(q) : q[i] = x
  <2>1. RemoveFirst(q, x) = q
    BY <1>2 DEF RemoveFirst
  <2>2. PICK g : g = [i \in 1 .. Len(q) |-> i]
    OBVIOUS
  <2>3. g \in [1 .. Len(q) -> 1 .. Len(q)] /\ \A i \in 1 .. Len(q) : g[i] = i
    BY <2>2
  <2>4. QED BY <1>2, <2>1, <2>3 DEF Without
<1>3. QED BY <1>1, <1>2

(* What is read is taken out of the set, if it is there: one more may be missing.  *)
LEMMA LruRemoves ==
  ASSUME NEW q, NEW w \in Nat, NEW D, NEW R, Lru(q, w, w, D, R), NEW x
  PROVE  /\ Lru(RemoveFirst(q, x), w - 1, w, D \ {x}, R)
         /\ \A i \in 1 .. Len(RemoveFirst(q, x)) : RemoveFirst(q, x)[i] # x
<1>1. /\ q \in Seq(Nat) /\ Len(q) \in Nat /\ Len(q) <= w
      /\ \A i, j \in 1 .. Len(q) : q[i] = q[j] => i = j
      /\ \A i, j \in 1 .. Len(q) : i < j /\ q[i] \in D => q[j] \in D /\ <<q[i], q[j]>> \in R
      /\ \A y \in D : (\A i \in 1 .. Len(q) : q[i] # y) =>
           Len(q) >= w /\ \A j \in 1 .. Len(q) : q[j] \in D /\ <<y, q[j]>> \in R
  BY DEF Lru
<1>0. q \in Seq(Nat) /\ Distinct(q)
  BY <1>1 DEF Distinct
<1>2. PICK r : r = RemoveFirst(q, x)
  OBVIOUS
<1>12. Without(r, q, x)
  BY <1>0, <1>2, RemovedFirst
<1>3. /\ r \in Seq(Nat) /\ Len(r) \in {Len(q), Len(q) - 1} /\ Len(r) \in Nat
      /\ \A k \in 1 .. Len(q) : q[k] # x => \E i \in 1 .. Len(r) : r[i] = q[k]
  <2>1. /\ r \in Seq(Nat) /\ Len(r) \in {Len(q), Len(q) - 1}
        /\ \A k \in 1 .. Len(q) : q[k] # x => \E i \in 1 .. Len(r) : r[i] = q[k]
    BY <1>12 DEF Without
  <2>2. Len(r) \in Nat
    BY <2>1
  <2>3. QED BY <2>1, <2>2
<1>4. PICK g \in [1 .. Len(r) -> 1 .. Len(q)] :
        /\ \A i \in 1 .. Len(r) : r[i] = q[g[i]] /\ q[g[i]] # x
        /\ \A i, j \in 1 .. Len(r) : i < j => g[i] < g[j]
  BY <1>12 DEF Without
<1>5. \A i \in 1 .. Len(r) : g[i] \in 1 .. Len(q) /\ r[i] = q[g[i]] /\ r[i] # x
  BY <1>4
<1>6. Len(r) <= w
  BY <1>1, <1>3
<1>7. ASSUME NEW i \in 1 .. Len(r), NEW j \in 1 .. Len(r), r[i] = r[j]
      PROVE  i = j
  <2>1. g[i] = g[j]
    BY <1>1, <1>5, <1>7
  <2>2. ~(g[i] < g[j]) /\ ~(g[j] < g[i])
    BY <1>5, <2>1
  <2>3. ~(i < j) /\ ~(j < i)
    BY <1>4, <2>2
  <2>4. QED BY <1>3, <2>3
<1>8. ASSUME NEW i \in 1 .. Len(r), NEW j \in 1 .. Len(r), i < j, r[i] \in D \ {x}
      PROVE  r[j] \in D \ {x} /\ <<r[i], r[j]>> \in R
  <2>1. g[i] < g[j] /\ q[g[i]] \in D
    BY <1>4, <1>5, <1>8
  <2>2. q[g[j]] \in D /\ <<q[g[i]], q[g[j]]>> \in R
    BY <1>1, <1>5, <2>1
  <2>3. QED BY <1>5, <2>2
<1>9. ASSUME NEW y \in D \ {x}, \A i \in 1 .. Len(r) : r[i] # y
      PROVE  Len(r) >= w - 1 /\ \A j \in 1 .. Len(r) : r[j] \in D \ {x} /\ <<y, r[j]>> \in R
  <2>1. \A k \in 1 .. Len(q) : q[k] # y
    BY <1>3, <1>9
  <2>2. Len(q) >= w /\ \A j \in 1 .. Len(q) : q[j] \in D /\ <<y, q[j]>> \in R
    BY <1>1, <2>1
  <2>3. Len(r) >= w - 1
    BY <1>1, <1>3, <2>2
  <2>4. \A j \in 1 .. Len(r) : r[j] \in D \ {x} /\ <<y, r[j]>> \in R
    BY <1>5, <2>2
  <2>5. QED BY <2>3, <2>4
<1>10. Lru(r, w - 1, w, D \ {x}, R)
  BY <1>3, <1>6, <1>7, <1>8, <1>9 DEF Lru
<1>11. QED BY <1>2, <1>5, <1>10

(* If the set is full, the line read longest ago goes.                             *)
LEMMA LruEvicts ==
  ASSUME NEW q, NEW w \in Nat \ {0}, NEW D, NEW R, Lru(q, w - 1, w, D, R), Len(q) = w
  PROVE  /\ Lru(Tail(q), w - 1, w - 1, D, R)
         /\ \A i \in 1 .. Len(Tail(q)) : \E k \in 1 .. Len(q) : Tail(q)[i] = q[k]
<1>1. /\ q \in Seq(Nat)
      /\ \A i, j \in 1 .. Len(q) : q[i] = q[j] => i = j
      /\ \A i, j \in 1 .. Len(q) : i < j /\ q[i] \in D => q[j] \in D /\ <<q[i], q[j]>> \in R
      /\ \A y \in D : (\A i \in 1 .. Len(q) : q[i] # y) =>
           Len(q) >= w - 1 /\ \A j \in 1 .. Len(q) : q[j] \in D /\ <<y, q[j]>> \in R
  BY DEF Lru
<1>2. q # <<>>
  BY <1>1, EmptySeq
<1>3. PICK t : t = Tail(q)
  OBVIOUS
<1>4. t \in Seq(Nat) /\ Len(t) = w - 1 /\ \A i \in 1 .. w - 1 : t[i] = q[i + 1]
  BY <1>1, <1>2, <1>3, HeadTailProperties
<1>5. \A i \in 1 .. Len(t) : i + 1 \in 1 .. Len(q) /\ t[i] = q[i + 1] /\ 1 < i + 1
  BY <1>4
<1>6. ASSUME NEW i \in 1 .. Len(t), NEW j \in 1 .. Len(t), t[i] = t[j]
      PROVE  i = j
  <2>1. i + 1 = j + 1
    BY <1>1, <1>5, <1>6
  <2>2. QED BY <2>1
<1>7. ASSUME NEW i \in 1 .. Len(t), NEW j \in 1 .. Len(t), i < j, t[i] \in D
      PROVE  t[j] \in D /\ <<t[i], t[j]>> \in R
  <2>1. i + 1 < j + 1
    BY <1>7
  <2>2. QED BY <1>1, <1>5, <1>7, <2>1
<1>8. ASSUME NEW y \in D, \A i \in 1 .. Len(t) : t[i] # y
      PROVE  Len(t) >= w - 1 /\ \A j \in 1 .. Len(t) : t[j] \in D /\ <<y, t[j]>> \in R
  <2>1. CASE q[1] = y
    <3>1. 1 \in 1 .. Len(q)
      OBVIOUS
    <3>2. QED BY <1>1, <1>4, <1>5, <2>1, <3>1
  <2>2. CASE q[1] # y
    <3>1. ASSUME NEW k \in 1 .. Len(q) PROVE q[k] # y
      <4>1. k = 1 \/ (k - 1 \in 1 .. Len(t) /\ k - 1 + 1 = k)
        BY <1>4
      <4>2. QED BY <1>5, <1>8, <2>2, <4>1
    <3>2. \A j \in 1 .. Len(q) : q[j] \in D /\ <<y, q[j]>> \in R
      BY <1>1, <3>1
    <3>3. \A j \in 1 .. Len(t) : t[j] \in D /\ <<y, t[j]>> \in R
      BY <1>5, <3>2
    <3>4. Len(t) >= w - 1
      BY <1>4
    <3>5. QED BY <3>3, <3>4
  <2>3. QED BY <2>1, <2>2
<1>9. Lru(t, w - 1, w - 1, D, R)
  <2>1. t \in Seq(Nat) /\ Len(t) <= w - 1
    BY <1>4
  <2>2. QED BY <1>6, <1>7, <1>8, <2>1, Zenon DEF Lru
<1>10. QED BY <1>3, <1>5, <1>9

(* What is read comes last, and is the one read latest.                            *)
LEMMA LruAppends ==
  ASSUME NEW q, NEW w \in Nat \ {0}, NEW D, NEW R, NEW x \in Nat,
         Lru(q, w - 1, w - 1, D \ {x}, R), \A i \in 1 .. Len(q) : q[i] # x,
         NEW S, \A y \in D \ {x} : <<y, x>> \in S,
         \A y, z \in D \ {x} : <<y, z>> \in R => <<y, z>> \in S
  PROVE  Lru(Append(q, x), w, w, D \cup {x}, S)
<1>1. /\ q \in Seq(Nat) /\ Len(q) <= w - 1 /\ Len(q) \in Nat
      /\ \A i, j \in 1 .. Len(q) : q[i] = q[j] => i = j
      /\ \A i, j \in 1 .. Len(q) :
           i < j /\ q[i] \in D \ {x} => q[j] \in D \ {x} /\ <<q[i], q[j]>> \in R
      /\ \A y \in D \ {x} : (\A i \in 1 .. Len(q) : q[i] # y) =>
           Len(q) >= w - 1 /\ \A j \in 1 .. Len(q) : q[j] \in D \ {x} /\ <<y, q[j]>> \in R
  BY DEF Lru
<1>2. PICK a : a = Append(q, x)
  OBVIOUS
<1>3. PICK n \in Nat : n = Len(q)
  BY <1>1
<1>4. /\ a \in Seq(Nat) /\ Len(a) = n + 1 /\ a[n + 1] = x
      /\ \A i \in 1 .. n : a[i] = q[i] /\ a[i] # x
  BY <1>1, <1>2, <1>3, AppendProperties
<1>5. \A i \in 1 .. n + 1 : i = n + 1 \/ i \in 1 .. n
  OBVIOUS
<1>6. n + 1 <= w
  BY <1>1, <1>3
<1>7. ASSUME NEW i \in 1 .. n + 1, NEW j \in 1 .. n + 1, a[i] = a[j]
      PROVE  i = j
  BY <1>1, <1>3, <1>4, <1>5, <1>7
<1>8. ASSUME NEW i \in 1 .. n + 1, NEW j \in 1 .. n + 1, i < j, a[i] \in D \cup {x}
      PROVE  a[j] \in D \cup {x} /\ <<a[i], a[j]>> \in S
  <2>1. i \in 1 .. n /\ a[i] \in D \ {x}
    BY <1>4, <1>8
  <2>2. CASE j = n + 1
    BY <1>4, <2>1, <2>2
  <2>3. CASE j \in 1 .. n
    <3>1. q[j] \in D \ {x} /\ <<q[i], q[j]>> \in R
      BY <1>1, <1>3, <1>4, <1>8, <2>1, <2>3
    <3>2. QED BY <1>4, <2>1, <2>3, <3>1
  <2>4. QED BY <1>5, <2>2, <2>3
<1>9. ASSUME NEW y \in D \cup {x}, \A i \in 1 .. n + 1 : a[i] # y
      PROVE  n + 1 >= w /\ \A j \in 1 .. n + 1 : a[j] \in D \cup {x} /\ <<y, a[j]>> \in S
  <2>1. y # x
    <3>1. n + 1 \in 1 .. n + 1
      OBVIOUS
    <3>2. QED BY <1>4, <1>9, <3>1
  <2>2. \A i \in 1 .. n : q[i] # y
    <3>1. \A i \in 1 .. n : i \in 1 .. n + 1
      OBVIOUS
    <3>2. QED BY <1>4, <1>9, <3>1
  <2>3. n >= w - 1 /\ \A j \in 1 .. n : q[j] \in D \ {x} /\ <<y, q[j]>> \in R
    BY <1>1, <1>3, <2>1, <2>2
  <2>4. ASSUME NEW j \in 1 .. n + 1 PROVE a[j] \in D \cup {x} /\ <<y, a[j]>> \in S
    BY <1>4, <1>5, <2>1, <2>3
  <2>5. QED BY <2>3, <2>4
<1>10. Lru(a, w, w, D \cup {x}, S)
  BY <1>4, <1>6, <1>7, <1>8, <1>9 DEF Lru
<1>11. QED BY <1>2, <1>10

(* What holds of D and R holds of lines read before, in an order of which R is part.*)
LEMMA LruWeaker ==
  ASSUME NEW q, NEW w, NEW D, NEW R, Lru(q, w, w, D, R),
         NEW S, \A y, z \in D : <<y, z>> \in R => <<y, z>> \in S
  PROVE  Lru(q, w, w, D, S) /\ Lru(q, w, w, {}, S)
<1>1. \A i, j \in 1 .. Len(q) : i < j /\ q[i] \in D => q[j] \in D /\ <<q[i], q[j]>> \in S
  BY DEF Lru
<1>2. \A x \in D : (\A i \in 1 .. Len(q) : q[i] # x) =>
        Len(q) >= w /\ \A j \in 1 .. Len(q) : q[j] \in D /\ <<x, q[j]>> \in S
  BY DEF Lru
<1>3. QED BY <1>1, <1>2 DEF Lru

(* A set q of w lines when line x has been read.                                   *)
Reads(q, w, x) ==
  Append(IF Len(RemoveFirst(q, x)) = w THEN Tail(RemoveFirst(q, x)) ELSE RemoveFirst(q, x), x)

LEMMA LruReads ==
  ASSUME NEW q, NEW w \in Nat \ {0}, NEW D, NEW R, Lru(q, w, w, D, R), NEW x \in Nat,
         NEW S, \A y \in D \ {x} : <<y, x>> \in S,
         \A y, z \in D \ {x} : <<y, z>> \in R => <<y, z>> \in S
  PROVE  Lru(Reads(q, w, x), w, w, D \cup {x}, S) /\ Reads(q, w, x) \in Seq(Nat)
<1>1. PICK r : r = RemoveFirst(q, x)
  OBVIOUS
<1>2. Lru(r, w - 1, w, D \ {x}, R) /\ \A i \in 1 .. Len(r) : r[i] # x
  BY <1>1, LruRemoves
<1>3. PICK k : k = IF Len(r) = w THEN Tail(r) ELSE r
  OBVIOUS
<1>4. Lru(k, w - 1, w - 1, D \ {x}, R) /\ \A i \in 1 .. Len(k) : k[i] # x
  <2>1. CASE Len(r) = w
    <3>1. /\ Lru(Tail(r), w - 1, w - 1, D \ {x}, R)
          /\ \A i \in 1 .. Len(Tail(r)) : \E l \in 1 .. Len(r) : Tail(r)[i] = r[l]
      BY <1>2, <2>1, LruEvicts
    <3>2. QED BY <1>2, <1>3, <2>1, <3>1
  <2>2. CASE Len(r) # w
    <3>1. r \in Seq(Nat) /\ Len(r) <= w
      BY <1>2 DEF Lru
    <3>2. Len(r) <= w - 1
      BY <2>2, <3>1
    <3>3. Lru(r, w - 1, w - 1, D \ {x}, R)
      BY <1>2, <3>2 DEF Lru
    <3>4. QED BY <1>2, <1>3, <2>2, <3>3
  <2>3. QED BY <2>1, <2>2
<1>5. Lru(Append(k, x), w, w, D \cup {x}, S)
  BY <1>4, LruAppends
<1>6. Reads(q, w, x) = Append(k, x)
  BY <1>1, <1>3 DEF Reads
<1>7. QED BY <1>5, <1>6 DEF Lru

-----------------------------------------------------------------------------------
LEMMA AtLeast ==
  ASSUME NEW n \in Nat, NEW T, IsFiniteSet(T), NEW f \in [1 .. n -> T],
         \A i, j \in 1 .. n : f[i] = f[j] => i = j
  PROVE  n <= Cardinality(T)
<1>1. f \in Injection(1 .. n, T)
  BY DEF Injection, IsInjective
<1>2. Cardinality(1 .. n) <= Cardinality(T)
  BY <1>1, FS_Injection
<1>3. Cardinality(1 .. n) = n
  BY FS_Interval
<1>4. QED BY <1>2, <1>3

LEMMA AtMost ==
  ASSUME NEW n \in Nat, NEW T, NEW f, \A t \in T : \E i \in 1 .. n : f[i] = t
  PROVE  IsFiniteSet(T) /\ Cardinality(T) \in Nat /\ Cardinality(T) <= n
<1>1. PICK g : g = [t \in T |-> CHOOSE i \in 1 .. n : f[i] = t]
  OBVIOUS
<1>2. \A t \in T : g[t] \in 1 .. n /\ f[g[t]] = t
  BY <1>1
<1>3. g \in [T -> 1 .. n]
  BY <1>1, <1>2
<1>4. g \in Injection(T, 1 .. n)
  BY <1>2, <1>3 DEF Injection, IsInjective
<1>5. IsFiniteSet(1 .. n) /\ Cardinality(1 .. n) = n
  BY FS_Interval
<1>6. IsFiniteSet(T) /\ Cardinality(T) <= Cardinality(1 .. n)
  BY <1>4, <1>5, FS_Injection
<1>7. QED BY <1>5, <1>6, FS_CardinalityType

(* The line that was read longest ago is still there just if the set can hold all  *)
(* that are read.                                                                  *)
LEMMA LruHit ==
  ASSUME NEW q, NEW w \in Nat \ {0}, NEW D, NEW R, Lru(q, w, w, D, R), IsFiniteSet(D),
         NEW x \in D, \A y : <<y, x>> \notin R
  PROVE  (\E k \in 1 .. Len(q) : q[k] = x) <=> ~(Cardinality(D) > w)
<1>1. /\ q \in Seq(Nat) /\ Len(q) \in Nat /\ Len(q) <= w
      /\ \A i, j \in 1 .. Len(q) : q[i] = q[j] => i = j
      /\ \A y \in D : (\A i \in 1 .. Len(q) : q[i] # y) =>
           Len(q) >= w /\ \A j \in 1 .. Len(q) : q[j] \in D /\ <<y, q[j]>> \in R
  BY DEF Lru
<1>2. Cardinality(D) \in Nat
  BY FS_CardinalityType
<1>3. PICK n \in Nat : n = Len(q)
  BY <1>1
<1>4. CASE \E k \in 1 .. n : q[k] = x
  <2>1. PICK k \in 1 .. n : q[k] = x
    BY <1>4
  <2>2. \A y \in D : \E i \in 1 .. n : q[i] = y
    BY <1>1, <1>3, <2>1
  <2>3. Cardinality(D) <= n
    BY <2>2, AtMost
  <2>4. QED BY <1>1, <1>2, <1>3, <1>4, <2>3
<1>5. CASE ~\E k \in 1 .. n : q[k] = x
  <2>1. n = w /\ \A j \in 1 .. n : q[j] \in D
    <3>1. Len(q) >= w /\ \A j \in 1 .. Len(q) : q[j] \in D
      BY <1>1, <1>3, <1>5, Zenon
    <3>2. n = w
      BY <1>1, <1>3, <3>1
    <3>3. QED BY <1>3, <3>1, <3>2
  <2>2. PICK f : f = [i \in 1 .. n + 1 |-> IF i = n + 1 THEN x ELSE q[i]]
    OBVIOUS
  <2>3. ASSUME NEW i \in 1 .. n + 1
        PROVE  (i = n + 1 /\ f[i] = x) \/ (i \in 1 .. n /\ f[i] = q[i])
    BY <2>2
  <2>4. f \in [1 .. n + 1 -> D]
    BY <2>1, <2>2, <2>3
  <2>5. ASSUME NEW i \in 1 .. n + 1, NEW j \in 1 .. n + 1, f[i] = f[j]
        PROVE  i = j
    BY <1>1, <1>3, <1>5, <2>3, <2>5
  <2>6. n + 1 <= Cardinality(D)
    <3>1. n + 1 \in Nat
      OBVIOUS
    <3>2. QED BY <2>4, <2>5, <3>1, AtLeast
  <2>7. QED BY <1>2, <1>3, <1>5, <2>1, <2>6
<1>6. QED BY <1>3, <1>4, <1>5

-----------------------------------------------------------------------------------
Sets == 0 .. (machine.way \div LineSize) - 1

LEMMA LineTypes ==
  ASSUME Geometry
  PROVE  /\ machine.ways \in Nat \ {0}
         /\ \A i \in Nat : LineOf(i) \in Nat /\ SetOf(LineOf(i)) \in Sets
<1>1. machine.ways \in Nat \ {0} /\ machine.way \in Nat
  BY DEF Geometry
<1>2. LineSize \in Nat /\ LineSize >= 1 /\ machine.way >= LineSize
  BY DEF Geometry
<1>3. PICK k : k = machine.way \div LineSize
  OBVIOUS
<1>4. k \in Nat /\ k >= 1
  <2>1. PICK m \in Nat, l \in Nat : m = machine.way /\ l = LineSize
    BY <1>1, <1>2
  <2>2. k \in Nat /\ m % l \in Nat /\ m % l < l /\ m = k * l + (m % l)
    BY <1>2, <1>3, <2>1, Divided
  <2>3. k # 0
    <3>1. CASE k = 0
      <4>1. k * l = 0
        BY <3>1
      <4>2. QED BY <1>2, <2>1, <2>2, <4>1
    <3>2. QED BY <3>1
  <2>4. QED BY <2>2, <2>3
<1>5. ASSUME NEW i \in Nat
      PROVE  LineOf(i) \in Nat /\ SetOf(LineOf(i)) \in Sets
  <2>1. PICK a \in Nat : a = 4 * i
    OBVIOUS
  <2>2. a \div LineSize \in Nat
    BY <1>2, Divided
  <2>3. PICK l \in Nat : l = LineOf(i)
    BY <2>1, <2>2 DEF LineOf, sizeof
  <2>4. l % k \in Nat /\ l % k < k
    BY <1>4, Divided
  <2>5. SetOf(l) \in Sets
    BY <1>3, <1>4, <2>4 DEF SetOf, Sets
  <2>6. QED BY <2>3, <2>5
<1>6. QED BY <1>1, <1>5

LEMMA AccessReads ==
  ASSUME Geometry, NEW c \in [Sets -> Seq(Nat)], NEW i \in Nat
  PROVE  /\ \A s \in Sets : Access(c, i)[s] =
              IF s = SetOf(LineOf(i)) THEN Reads(c[s], machine.ways, LineOf(i)) ELSE c[s]
         /\ DOMAIN Access(c, i) = Sets
<1>1. PICK x, s : x = LineOf(i) /\ s = SetOf(LineOf(i))
  OBVIOUS
<1>2. Access(c, i) = [c EXCEPT ![s] = Reads(c[s], machine.ways, x)]
  BY <1>1 DEF Access, Reads
<1>3. DOMAIN c = Sets
  OBVIOUS
<1>4. QED BY <1>1, <1>2, <1>3

-----------------------------------------------------------------------------------
(* The positions of a buffer b in the order in which the loop has read them last,  *)
(* when it has read p of them in its present round and all in the one before.      *)
Rank(n, p, i) == IF i <= p THEN i + n ELSE i

Order(b, p) ==
  {d \in Nat \X Nat : \E i, j \in 1 .. Len(b) :
     /\ d = <<LineOf(b[i]), LineOf(b[j])>>
     /\ Rank(Len(b), p, i) < Rank(Len(b), p, j)}

After(b, p) == IF p + 1 = Len(b) THEN 0 ELSE p + 1

Apart(b) == \A i, j \in 1 .. Len(b) : LineOf(b[i]) = LineOf(b[j]) => i = j

LEMMA OrderTurns ==
  ASSUME Geometry, NEW b, IsRing(b), Apart(b), NEW p \in 0 .. Len(b) - 1,
         NEW x, x = LineOf(b[p + 1])
  PROVE  /\ \A y : <<y, x>> \notin Order(b, p)
         /\ \A i \in 1 .. Len(b) : LineOf(b[i]) # x => <<LineOf(b[i]), x>> \in Order(b, After(b, p))
         /\ \A y, z : y # x /\ z # x /\ <<y, z>> \in Order(b, p) => <<y, z>> \in Order(b, After(b, p))
<1>1. PICK n \in Nat : n = Len(b) /\ n >= 1 /\ p \in Nat /\ p + 1 \in 1 .. n
  BY DEF IsRing
<1>2. \A i \in 1 .. n : b[i] \in Nat /\ LineOf(b[i]) \in Nat
  <2>1. \A i \in 1 .. n : b[i] \in Nat
    BY <1>1 DEF IsRing
  <2>2. QED BY <2>1, LineTypes
<1>3. PICK a : a = After(b, p) /\ a = IF p + 1 = n THEN 0 ELSE p + 1
  BY <1>1 DEF After
<1>4. \A y, z, t : <<y, z>> \in Order(b, t) <=>
        \E i, j \in 1 .. n : /\ y = LineOf(b[i]) /\ z = LineOf(b[j])
                             /\ Rank(n, t, i) < Rank(n, t, j)
  BY <1>1, <1>2 DEF Order
<1>5. \A i \in 1 .. n : LineOf(b[i]) = x <=> i = p + 1
  BY <1>1 DEF Apart
<1>6. ASSUME NEW y PROVE <<y, x>> \notin Order(b, p)
  <2> SUFFICES ASSUME <<y, x>> \in Order(b, p) PROVE FALSE
    OBVIOUS
  <2>1. PICK i \in 1 .. n, j \in 1 .. n : x = LineOf(b[j]) /\ Rank(n, p, i) < Rank(n, p, j)
    BY <1>4
  <2>2. j = p + 1
    BY <1>5, <2>1
  <2>3. ~(Rank(n, p, i) < Rank(n, p, p + 1))
    BY <1>1 DEF Rank
  <2>4. QED BY <2>1, <2>2, <2>3
<1>7. ASSUME NEW i \in 1 .. n, LineOf(b[i]) # x
      PROVE  <<LineOf(b[i]), x>> \in Order(b, a)
  <2>1. i # p + 1
    BY <1>7
  <2>2. Rank(n, a, i) < Rank(n, a, p + 1)
    BY <1>1, <1>3, <2>1 DEF Rank
  <2>3. QED BY <1>1, <1>4, <2>2
<1>8. ASSUME NEW y, NEW z, y # x, z # x, <<y, z>> \in Order(b, p)
      PROVE  <<y, z>> \in Order(b, a)
  <2>1. PICK i \in 1 .. n, j \in 1 .. n :
          y = LineOf(b[i]) /\ z = LineOf(b[j]) /\ Rank(n, p, i) < Rank(n, p, j)
    BY <1>4, <1>8
  <2>2. i # p + 1 /\ j # p + 1
    BY <1>8, <2>1
  <2>3. Rank(n, a, i) < Rank(n, a, j)
    BY <1>1, <1>3, <2>1, <2>2 DEF Rank
  <2>4. QED BY <1>4, <2>1, <2>3
<1>9. QED BY <1>1, <1>3, <1>6, <1>7, <1>8

-----------------------------------------------------------------------------------
(* The lines of set s that the positions P of buffer b are in.                     *)
LinesOf(b, P, s) == {LineOf(b[i]) : i \in {k \in P : SetOf(LineOf(b[k])) = s}}

(* Cache c after the positions P have been read, the one after p longest ago.      *)
Aged(c, b, P, p) ==
  \A s \in Sets : Lru(c[s], machine.ways, machine.ways, LinesOf(b, P, s), Order(b, p))

LEMMA AgedMoves ==
  ASSUME Geometry, NEW c \in [Sets -> Seq(Nat)], NEW b, IsRing(b), Apart(b),
         NEW p \in 0 .. Len(b) - 1, NEW P \in SUBSET (1 .. Len(b)), Aged(c, b, P, p)
  PROVE  Aged(Access(c, b[p + 1]), b, P \cup {p + 1}, After(b, p))
<1>1. p + 1 \in 1 .. Len(b) /\ b[p + 1] \in Nat
  BY DEF IsRing
<1>2. PICK x \in Nat : x = LineOf(b[p + 1]) /\ SetOf(x) \in Sets
  BY <1>1, LineTypes
<1>3. PICK a : a = After(b, p)
  OBVIOUS
<1>4. PICK w \in Nat \ {0} : w = machine.ways
  BY LineTypes
<1>5. /\ \A i \in 1 .. Len(b) : LineOf(b[i]) # x => <<LineOf(b[i]), x>> \in Order(b, a)
      /\ \A y, z : y # x /\ z # x /\ <<y, z>> \in Order(b, p) => <<y, z>> \in Order(b, a)
  BY <1>2, <1>3, OrderTurns
<1>6. SUFFICES ASSUME NEW s \in Sets
               PROVE  Lru(Access(c, b[p + 1])[s], w, w, LinesOf(b, P \cup {p + 1}, s), Order(b, a))
  BY <1>3, <1>4 DEF Aged
<1>0. PICK D : D = LinesOf(b, P, s)
  OBVIOUS
<1>7. D = LinesOf(b, P, s) /\ \A y \in D : \E i \in 1 .. Len(b) : y = LineOf(b[i])
  BY <1>0 DEF LinesOf
<1>8. Lru(c[s], w, w, D, Order(b, p))
  BY <1>4, <1>7 DEF Aged
<1>9. Access(c, b[p + 1])[s] = IF s = SetOf(x) THEN Reads(c[s], w, x) ELSE c[s]
  <2>1. PICK i \in Nat : i = b[p + 1]
    BY <1>1
  <2>2. \A t \in Sets : Access(c, i)[t] =
          IF t = SetOf(LineOf(i)) THEN Reads(c[t], machine.ways, LineOf(i)) ELSE c[t]
    BY AccessReads
  <2>3. QED BY <1>2, <1>4, <2>1, <2>2
<1>10. CASE s = SetOf(x)
  <2>1. LinesOf(b, P \cup {p + 1}, s) = D \cup {x}
    BY <1>2, <1>7, <1>10 DEF LinesOf
  <2>2. \A y \in D \ {x} : <<y, x>> \in Order(b, a)
    BY <1>5, <1>7
  <2>3. \A y, z \in D \ {x} : <<y, z>> \in Order(b, p) => <<y, z>> \in Order(b, a)
    BY <1>5
  <2>4. Lru(Reads(c[s], w, x), w, w, D \cup {x}, Order(b, a))
    BY <1>8, <2>2, <2>3, LruReads
  <2>5. QED BY <1>9, <1>10, <2>1, <2>4
<1>11. CASE s # SetOf(x)
  <2>1. LinesOf(b, P \cup {p + 1}, s) = D
    BY <1>2, <1>7, <1>11 DEF LinesOf
  <2>2. ASSUME NEW y \in D, NEW z \in D, <<y, z>> \in Order(b, p)
        PROVE  <<y, z>> \in Order(b, a)
    <3>1. \A v \in D : v # x
      BY <1>7, <1>11 DEF LinesOf
    <3>2. QED BY <1>5, <2>2, <3>1
  <2>3. Lru(c[s], w, w, D, Order(b, a))
    BY <1>8, <2>2, LruWeaker
  <2>4. QED BY <1>9, <1>11, <2>1, <2>3
<1>12. QED BY <1>10, <1>11

(* A read misses just if the index is in a set that cannot hold the lines of all.  *)
LEMMA MissesCrowded ==
  ASSUME Geometry, NEW c \in [Sets -> Seq(Nat)], NEW b, IsRing(b), Apart(b),
         NEW p \in 0 .. Len(b) - 1, Aged(c, b, 1 .. Len(b), p)
  PROVE  Hit(c, b[p + 1]) <=> b[p + 1] \notin Crowded(ToSet(b))
<1>1. PICK n \in Nat : n = Len(b) /\ DOMAIN b = 1 .. n /\ p + 1 \in 1 .. n /\ b[p + 1] \in Nat
  BY DEF IsRing
<1>2. PICK x \in Nat, s \in Sets : x = LineOf(b[p + 1]) /\ s = SetOf(x)
  BY <1>1, LineTypes
<1>3. PICK w \in Nat \ {0} : w = machine.ways
  BY LineTypes
<1>4. PICK D : D = LinesOf(b, 1 .. n, s)
  OBVIOUS
<1>5. Lru(c[s], w, w, D, Order(b, p))
  BY <1>1, <1>3, <1>4 DEF Aged
<1>6. IsFiniteSet(D)
  <2>1. PICK f : f = [i \in 1 .. n |-> LineOf(b[i])]
    OBVIOUS
  <2>2. \A y \in D : \E i \in 1 .. n : f[i] = y
    BY <1>4, <2>1 DEF LinesOf
  <2>3. QED BY <2>2, AtMost
<1>7. x \in D
  BY <1>1, <1>2, <1>4 DEF LinesOf
<1>8. \A y : <<y, x>> \notin Order(b, p)
  BY <1>2, OrderTurns
<1>9. (\E k \in 1 .. Len(c[s]) : c[s][k] = x) <=> ~(Cardinality(D) > w)
  BY <1>5, <1>6, <1>7, <1>8, LruHit
<1>10. Hit(c, b[p + 1]) <=> \E k \in 1 .. Len(c[s]) : c[s][k] = x
  <2>1. DOMAIN c[s] = 1 .. Len(c[s])
    BY <1>2
  <2>2. QED BY <1>2, <2>1 DEF Hit
<1>11. b[p + 1] \in Crowded(ToSet(b)) <=> Cardinality(D) > w
  <2>1. b[p + 1] \in ToSet(b)
    BY <1>1 DEF ToSet
  <2>2. {LineOf(k) : k \in {j \in ToSet(b) : SetOf(LineOf(j)) = SetOf(LineOf(b[p + 1]))}} = D
    BY <1>1, <1>2, <1>4 DEF LinesOf, ToSet
  <2>3. QED BY <1>3, <2>1, <2>2 DEF Crowded
<1>12. QED BY <1>9, <1>10, <1>11

-----------------------------------------------------------------------------------
(* How many of the first p indices of buffer b are in C.                           *)
Counted(b, C, p) == Cardinality({i \in 1 .. p : b[i] \in C})

LEMMA Counts ==
  ASSUME NEW b, IsRing(b), NEW C \in SUBSET ToSet(b)
  PROVE  /\ Cardinality(C) \in Nat /\ Counted(b, C, 0) = 0
         /\ Counted(b, C, Len(b)) = Cardinality(C)
         /\ \A p \in 0 .. Len(b) :
              /\ Counted(b, C, p) \in Nat /\ Counted(b, C, p) <= p
              /\ Counted(b, C, p) <= Cardinality(C)
         /\ \A p \in 0 .. Len(b) - 1 :
              Counted(b, C, p + 1) = Counted(b, C, p) + (IF b[p + 1] \in C THEN 1 ELSE 0)
<1>1. PICK n \in Nat : /\ n = Len(b) /\ DOMAIN b = 1 .. n /\ n >= 1
                       /\ \A i, j \in 1 .. n : b[i] = b[j] => i = j
  BY DEF IsRing
<1>2. \A x \in C : \E i \in 1 .. n : b[i] = x
  BY <1>1 DEF ToSet
<1>3. IsFiniteSet(C) /\ Cardinality(C) \in Nat
  BY <1>2, AtMost
<1>4. ASSUME NEW p \in Nat
      PROVE  /\ IsFiniteSet({i \in 1 .. p : b[i] \in C})
             /\ Counted(b, C, p) \in Nat /\ Counted(b, C, p) <= p
  <2>1. IsFiniteSet(1 .. p) /\ Cardinality(1 .. p) = p
    BY FS_Interval
  <2>2. {i \in 1 .. p : b[i] \in C} \in SUBSET (1 .. p)
    OBVIOUS
  <2>3. /\ IsFiniteSet({i \in 1 .. p : b[i] \in C})
        /\ Cardinality({i \in 1 .. p : b[i] \in C}) <= Cardinality(1 .. p)
    BY <2>1, <2>2, FS_Subset
  <2>4. QED BY <2>1, <2>3, FS_CardinalityType DEF Counted
<1>5. ASSUME NEW p \in 0 .. n
      PROVE  Counted(b, C, p) <= Cardinality(C)
  <2>1. PICK S : S = {i \in 1 .. p : b[i] \in C}
    OBVIOUS
  <2>2. PICK f : f = [i \in S |-> b[i]]
    OBVIOUS
  <2>3. f \in Injection(S, C)
    BY <1>1, <2>1, <2>2 DEF Injection, IsInjective
  <2>4. Cardinality(S) <= Cardinality(C)
    BY <1>3, <2>3, FS_Injection
  <2>5. QED BY <2>1, <2>4 DEF Counted
<1>6. Cardinality(C) <= Counted(b, C, n)
  <2>1. PICK S : S = {i \in 1 .. n : b[i] \in C}
    OBVIOUS
  <2>2. PICK f : f = [i \in S |-> b[i]]
    OBVIOUS
  <2>3. f \in Surjection(S, C)
    BY <1>2, <2>1, <2>2 DEF Surjection
  <2>4. Cardinality(C) <= Cardinality(S)
    BY <1>4, <2>1, <2>3, FS_Surjection
  <2>5. QED BY <2>1, <2>4 DEF Counted
<1>7. ASSUME NEW p \in 0 .. n - 1
      PROVE  Counted(b, C, p + 1) = Counted(b, C, p) + (IF b[p + 1] \in C THEN 1 ELSE 0)
  <2>1. PICK S : S = {i \in 1 .. p : b[i] \in C} /\ IsFiniteSet(S) /\ p + 1 \notin S
    <3>1. p \in Nat /\ p + 1 \notin 1 .. p
      OBVIOUS
    <3>2. QED BY <1>4, <3>1
  <2>2. {i \in 1 .. p + 1 : b[i] \in C} = IF b[p + 1] \in C THEN S \cup {p + 1} ELSE S
    <3>1. \A i : i \in 1 .. p + 1 <=> i = p + 1 \/ i \in 1 .. p
      BY <1>1
    <3>2. QED BY <2>1, <3>1
  <2>3. Cardinality(S \cup {p + 1}) = Cardinality(S) + 1 /\ Cardinality(S) \in Nat
    BY <2>1, FS_AddElement, FS_CardinalityType
  <2>4. Counted(b, C, p) = Cardinality(S)
    BY <2>1 DEF Counted
  <2>5. Counted(b, C, p + 1) = Cardinality(IF b[p + 1] \in C THEN S \cup {p + 1} ELSE S)
    BY <2>2 DEF Counted
  <2>6. CASE b[p + 1] \in C
    BY <2>3, <2>4, <2>5, <2>6
  <2>7. CASE b[p + 1] \notin C
    BY <2>3, <2>4, <2>5, <2>7
  <2>8. QED BY <2>6, <2>7
<1>8. Counted(b, C, 0) = 0
  <2>1. Counted(b, C, 0) \in Nat /\ Counted(b, C, 0) <= 0
    BY <1>4
  <2>2. QED BY <2>1
<1>9. Counted(b, C, n) = Cardinality(C)
  <2>0. n \in 0 .. n
    OBVIOUS
  <2>1. n \in 0 .. n /\ Counted(b, C, n) \in Nat
    BY <1>4, <2>0
  <2>2. Counted(b, C, n) <= Cardinality(C)
    BY <1>5, <2>1
  <2>3. QED BY <1>3, <1>6, <2>1, <2>2
<1>10. ASSUME NEW p \in 0 .. n PROVE Counted(b, C, p) \in Nat /\ Counted(b, C, p) <= p
  <2>1. p \in Nat
    OBVIOUS
  <2>2. QED BY <1>4, <2>1
<1>11. QED BY <1>1, <1>3, <1>5, <1>7, <1>8, <1>9, <1>10

(* One more iteration of the second loop, of n in a round.                         *)
LEMMA Rounds ==
  ASSUME NEW l \in Nat, NEW n \in Nat, n >= 1
  PROVE  /\ l \div n \in Nat /\ l % n \in 0 .. n - 1
         /\ (l % n) + 1 = n => (l + 1) \div n = (l \div n) + 1 /\ (l + 1) % n = 0
         /\ (l % n) + 1 # n => (l + 1) \div n = l \div n /\ (l + 1) % n = (l % n) + 1
<1>1. PICK q \in Nat, r \in Nat : q = l \div n /\ r = l % n /\ r < n /\ l = q * n + r
  BY Divided
<1>2. PICK t \in Nat, u \in Nat : t = (l + 1) \div n /\ u = (l + 1) % n /\ u < n /\ l + 1 = t * n + u
  <2>1. l + 1 \in Nat
    OBVIOUS
  <2>2. QED BY <2>1, Divided
<1>3. CASE r + 1 = n
  <2>1. (q + 1) * n = q * n + n /\ q * n \in Nat /\ q + 1 \in Nat /\ 0 \in Nat /\ 0 < n
    BY ProductOrder
  <2>2. (q + 1) * n + 0 = t * n + u
    BY <1>1, <1>2, <1>3, <2>1
  <2>3. t = q + 1 /\ u = 0
    BY <1>2, <2>1, <2>2, Unique
  <2>4. QED BY <1>1, <1>2, <1>3, <2>3
<1>4. CASE r + 1 # n
  <2>1. r + 1 \in Nat /\ r + 1 < n /\ q * n \in Nat
    BY <1>1, <1>4, ProductOrder
  <2>2. q * n + (r + 1) = t * n + u
    BY <1>1, <1>2, <2>1
  <2>3. t = q /\ u = r + 1
    BY <1>2, <2>1, <2>2, Unique
  <2>4. QED BY <1>1, <1>2, <1>4, <2>3
<1>5. QED BY <1>3, <1>4

-----------------------------------------------------------------------------------
(* Of the ring b the positions P have been read, in the present round the first p. *)
Timed(b, p, P) ==
  /\ p \in 0 .. Len(b) - 1 /\ loop \in Nat
  /\ left > 0 => p = Len(b) - left /\ P = 1 .. p /\ loop = 0
  /\ left = 0 => p = loop % Len(b) /\ P = 1 .. Len(b) /\ index = b[p + 1]
  /\ Apart(b) =>
       /\ Aged(cache, b, P, p)
       /\ misses = (loop \div Len(b)) * Cardinality(Crowded(slots))
                   + Counted(b, Crowded(slots), loop % Len(b))

(* A cache whose sets have no more lines than they can hold, and each line once.   *)
IsCacheOf(c) ==
  /\ c \in [Sets -> Seq(Nat)]
  /\ \A s \in Sets : Lru(c[s], machine.ways, machine.ways, {}, {})

TimedInv ==
  /\ Geometry /\ IsCacheOf(cache)
  /\ \/ rings = 0 /\ left = 0 /\ loop = LoopSize
     \/ \E b : Followed(b) /\ \E p, P : Timed(b, p, P)

(* The machine stays what it is.                                                   *)
LEMMA SameMachine ==
  ASSUME machine' = machine
  PROVE  /\ Geometry' <=> Geometry
         /\ \A c : IsCacheOf(c)' <=> IsCacheOf(c)
         /\ \A c, b, P, p : Aged(c, b, P, p)' <=> Aged(c, b, P, p)
         /\ \A C : Crowded(C)' = Crowded(C)
<1>1. Sets' = Sets
  BY DEF Sets
<1>2. \A l : SetOf(l)' = SetOf(l)
  BY DEF SetOf
<1>3. ASSUME NEW b, NEW P, NEW s PROVE LinesOf(b, P, s)' = LinesOf(b, P, s)
  BY <1>2 DEF LinesOf
<1>4. ASSUME NEW C PROVE Crowded(C)' = Crowded(C)
  BY <1>2 DEF Crowded
<1>5. ASSUME NEW c PROVE IsCacheOf(c)' <=> IsCacheOf(c)
  BY <1>1 DEF IsCacheOf
<1>6. ASSUME NEW c, NEW b, NEW P, NEW p PROVE Aged(c, b, P, p)' <=> Aged(c, b, P, p)
  BY <1>1, <1>3 DEF Aged
<1>7. Geometry' <=> Geometry
  BY DEF Geometry
<1>8. QED BY <1>4, <1>5, <1>6, <1>7

LEMMA AccessIsCache ==
  ASSUME Geometry, NEW c, IsCacheOf(c), NEW i \in Nat
  PROVE  IsCacheOf(Access(c, i))
<1>1. PICK a : a = Access(c, i)
  OBVIOUS
<1>2. c \in [Sets -> Seq(Nat)] /\ machine.ways \in Nat \ {0} /\ LineOf(i) \in Nat
  BY LineTypes DEF IsCacheOf
<1>3. a = [s \in Sets |-> IF s = SetOf(LineOf(i)) THEN Reads(c[s], machine.ways, LineOf(i)) ELSE c[s]]
  <2>1. PICK x, t : x = LineOf(i) /\ t = SetOf(LineOf(i))
    OBVIOUS
  <2>2. a = [c EXCEPT ![t] = Reads(c[t], machine.ways, x)]
    BY <1>1, <2>1 DEF Access, Reads
  <2>3. QED BY <1>2, <2>1, <2>2
<1>4. ASSUME NEW s \in Sets
      PROVE  a[s] \in Seq(Nat) /\ Lru(a[s], machine.ways, machine.ways, {}, {})
  <2>1. CASE s = SetOf(LineOf(i))
    <3>1. PICK q \in Seq(Nat), w \in Nat \ {0}, x \in Nat : q = c[s] /\ w = machine.ways /\ x = LineOf(i)
      BY <1>2
    <3>2. PICK E : E = {} /\ Lru(q, w, w, E, E)
      BY <3>1 DEF IsCacheOf
    <3>3. /\ \A y \in E \ {x} : <<y, x>> \in E
          /\ \A y, z \in E \ {x} : <<y, z>> \in E => <<y, z>> \in E
      BY <3>2
    <3>4. Lru(Reads(q, w, x), w, w, E \cup {x}, E) /\ Reads(q, w, x) \in Seq(Nat)
      BY <3>2, <3>3, LruReads
    <3>6. Lru(Reads(q, w, x), w, w, {}, E)
      BY <3>4, LruWeaker
    <3>7. QED BY <1>3, <2>1, <3>1, <3>2, <3>4, <3>6
  <2>2. CASE s # SetOf(LineOf(i))
    BY <1>2, <1>3, <2>2 DEF IsCacheOf
  <2>3. QED BY <2>1, <2>2
<1>5. a \in [Sets -> Seq(Nat)]
  BY <1>3, <1>4
<1>6. QED BY <1>1, <1>4, <1>5 DEF IsCacheOf

LEMMA InitTimes == Geometry /\ Init => TimedInv
<1> SUFFICES ASSUME Geometry, Init PROVE TimedInv
  OBVIOUS
<1>1. EmptyCache = [s \in Sets |-> <<>>]
  BY DEF EmptyCache, Sets
<1>2. machine.ways \in Nat
  BY DEF Geometry
<1>3. Lru(<<>>, machine.ways, machine.ways, {}, {})
  BY <1>2 DEF Lru
<1>4. IsCacheOf(EmptyCache)
  BY <1>1, <1>3 DEF IsCacheOf
<1>5. QED BY <1>4 DEF Init, TimedInv

LEMMA BuildTimes ==
  ASSUME TimedInv, NEW buffer \in Buffers, IsRing(buffer), Build(buffer)
  PROVE  TimedInv'
<1>1. PICK b : Followed(b)' /\ left' = Len(b)
  BY BuildFollows
<1>2. /\ loop' = 0 /\ misses' = 0 /\ cache' = cache /\ machine' = machine
  BY DEF Build
<1>3. PICK n \in Nat : n = Len(b) /\ n >= 1 /\ IsRing(b)
  <2>1. IsRing(b)
    BY <1>1 DEF Followed
  <2>2. QED BY <2>1 DEF IsRing
<1>4. PICK C : C = Crowded(slots)' /\ C \in SUBSET ToSet(b)
  <2>1. slots' = ToSet(b)
    BY <1>1 DEF Followed
  <2>2. Crowded(slots)' \in SUBSET (slots')
    BY DEF Crowded
  <2>3. QED BY <2>1, <2>2
<1>5. Aged(cache, b, {}, 0)
  <2> SUFFICES ASSUME NEW s \in Sets
               PROVE  Lru(cache[s], machine.ways, machine.ways, LinesOf(b, {}, s), Order(b, 0))
    BY DEF Aged
  <2>1. LinesOf(b, {}, s) = {}
    BY DEF LinesOf
  <2>2. Lru(cache[s], machine.ways, machine.ways, {}, {})
    BY DEF TimedInv, IsCacheOf
  <2>3. Lru(cache[s], machine.ways, machine.ways, {}, Order(b, 0))
    BY <2>2, LruWeaker
  <2>4. QED BY <2>1, <2>3
<1>6. 0 = 0 * Cardinality(C) + Counted(b, C, 0)
  BY <1>3, <1>4, Counts
<1>7. 0 \div n = 0 /\ 0 % n = 0 /\ 1 .. 0 = {} /\ 0 \in 0 .. n - 1 /\ n - n = 0
  BY <1>3
<1>8. PICK c : c = cache
  OBVIOUS
<1>9. Aged(c, b, {}, 0)' /\ IsCacheOf(c)' /\ Geometry'
  BY <1>2, <1>5, <1>8, SameMachine DEF TimedInv
<1>10. Aged(cache, b, {}, 0)' /\ IsCacheOf(cache)'
  BY <1>2, <1>8, <1>9 DEF Aged, IsCacheOf
<1>11. Timed(b, 0, {})'
  BY <1>1, <1>2, <1>3, <1>4, <1>6, <1>7, <1>10 DEF Timed
<1>12. QED BY <1>1, <1>9, <1>10, <1>11 DEF TimedInv

LEMMA WarmTimes ==
  ASSUME TimedInv, Warm
  PROVE  TimedInv'
<1>1. PICK b : Followed(b) /\ \E p, P : Timed(b, p, P)
  BY DEF TimedInv, Warm
<1>2. PICK p, P : Timed(b, p, P)
  BY <1>1
<1>3. PICK n \in Nat : n = Len(b) /\ n >= 1 /\ IsRing(b) /\ left \in 0 .. n /\ b[1] = 0
  BY <1>1 DEF Followed, IsRing
<1>4. /\ p \in 0 .. n - 1 /\ p = n - left /\ P = 1 .. p /\ loop = 0
      /\ left \in 1 .. n /\ left' = left - 1
  BY <1>2, <1>3 DEF Timed, Warm
<1>5. Followed(b)' /\ index = b[p + 1] /\ b[p + 1] \in Nat
  <2>1. p + 1 \in 1 .. n /\ n - left + 1 = p + 1
    BY <1>4
  <2>2. QED BY <1>1, <1>3, <2>1, WarmFollows DEF IsRing
<1>6. PICK c : c = Access(cache, index) /\ c = Access(cache, b[p + 1])
  BY <1>5
<1>7. IsCacheOf(c) /\ (Apart(b) => Aged(c, b, P \cup {p + 1}, After(b, p)))
  <2>1. IsCacheOf(c)
    BY <1>5, <1>6, AccessIsCache DEF TimedInv
  <2>2. P \in SUBSET (1 .. Len(b))
    BY <1>3, <1>4
  <2>3. ASSUME Apart(b) PROVE Aged(c, b, P \cup {p + 1}, After(b, p))
    BY <1>2, <1>3, <1>4, <1>6, <2>2, <2>3, AgedMoves DEF TimedInv, Timed, IsCacheOf
  <2>4. QED BY <2>1, <2>3
<1>8. UNCHANGED <<machine, slots, loop, misses>> /\ cache' = c
  BY <1>6 DEF Warm
<1>9. /\ Geometry' /\ IsCacheOf(c)'
      /\ Apart(b) => Aged(c, b, P \cup {p + 1}, After(b, p))'
  BY <1>7, <1>8, SameMachine DEF TimedInv
<1>10. PICK C : C = Crowded(slots)
  OBVIOUS
<1>11. C = Crowded(slots)'
  BY <1>8, <1>10, SameMachine
<1>12. Apart(b) =>
         misses' = (loop' \div Len(b)) * Cardinality(C) + Counted(b, C, loop' % Len(b))
  BY <1>2, <1>8, <1>10 DEF Timed
<1>13. PICK a : a = After(b, p)
  OBVIOUS
<1>14. /\ a \in 0 .. n - 1 /\ loop' = 0 /\ P \cup {p + 1} = 1 .. p + 1
       /\ left' > 0 => a = n - left' /\ a = p + 1
       /\ left' = 0 => a = 0 % n /\ p + 1 = n /\ a = 0
  <2>1. \A i : i \in 1 .. p + 1 <=> i = p + 1 \/ i \in 1 .. p
    BY <1>4
  <2>2. 0 % n = 0
    BY <1>3
  <2>3. QED BY <1>3, <1>4, <1>8, <1>13, <2>1, <2>2 DEF After
<1>15. left' = 0 => index' = b[a + 1]
  <2>1. left' = 0 => left = 1
    BY <1>4
  <2>2. QED BY <1>3, <1>14, <2>1 DEF Warm
<1>16. Apart(b) => Aged(c, b, P \cup {p + 1}, a)'
  BY <1>9, <1>13
<1>17. IsCacheOf(cache)' /\ (Apart(b) => Aged(cache, b, P \cup {p + 1}, a)')
  BY <1>8, <1>9, <1>16 DEF IsCacheOf, Aged
<1>18. Timed(b, a, P \cup {p + 1})'
  BY <1>3, <1>11, <1>12, <1>14, <1>15, <1>17 DEF Timed
<1>19. QED BY <1>5, <1>9, <1>17, <1>18 DEF TimedInv

LEMMA LoopTimes ==
  ASSUME TimedInv, Loop
  PROVE  TimedInv'
<1>1. PICK b : Followed(b) /\ \E p, P : Timed(b, p, P)
  <2>1. loop # LoopSize
    BY RingsAssumption DEF Loop
  <2>2. QED BY <2>1 DEF TimedInv
<1>2. PICK p, P : Timed(b, p, P)
  BY <1>1
<1>3. PICK n \in Nat : n = Len(b) /\ n >= 1 /\ IsRing(b)
  <2>1. IsRing(b)
    BY <1>1 DEF Followed
  <2>2. QED BY <2>1 DEF IsRing
<1>4. /\ p \in 0 .. n - 1 /\ p = loop % n /\ P = 1 .. n /\ loop \in Nat /\ left = 0
      /\ index = b[p + 1] /\ p + 1 \in 1 .. n /\ b[p + 1] \in Nat
  <2>1. /\ p \in 0 .. n - 1 /\ p = loop % n /\ P = 1 .. n /\ loop \in Nat /\ left = 0
        /\ index = b[p + 1]
    BY <1>2, <1>3 DEF Timed, Loop, Warmed
  <2>2. p + 1 \in 1 .. n
    BY <2>1
  <2>3. QED BY <1>3, <2>1, <2>2 DEF IsRing
<1>5. PICK c : c = Access(cache, index) /\ c = Access(cache, b[p + 1])
  BY <1>4
<1>6. PICK a : a = After(b, p)
  OBVIOUS
<1>7. IsCacheOf(c) /\ (Apart(b) => Aged(c, b, P, a))
  <2>1. IsCacheOf(c)
    BY <1>4, <1>5, AccessIsCache DEF TimedInv
  <2>2. P \in SUBSET (1 .. Len(b)) /\ P \cup {p + 1} = P
    BY <1>3, <1>4
  <2>3. ASSUME Apart(b) PROVE Aged(c, b, P \cup {p + 1}, After(b, p))
    BY <1>2, <1>3, <1>4, <1>5, <2>2, <2>3, AgedMoves DEF TimedInv, Timed, IsCacheOf
  <2>4. QED BY <1>6, <2>1, <2>2, <2>3
<1>8. /\ UNCHANGED <<machine, array, slots, left, seen, rings>> /\ cache' = c
      /\ index' = array[b[p + 1]] /\ loop' = loop + 1
      /\ misses' = misses + (IF Hit(cache, b[p + 1]) THEN 0 ELSE 1)
  BY <1>4, <1>5 DEF Loop
<1>9. Followed(b)'
  BY <1>1, <1>4, <1>8 DEF Followed
<1>10. PICK C : C = Crowded(slots) /\ slots = ToSet(b) /\ C \in SUBSET ToSet(b)
  <2>1. Crowded(slots) \in SUBSET slots
    BY DEF Crowded
  <2>2. QED BY <1>1, <2>1 DEF Followed
<1>11. C = Crowded(slots)'
  BY <1>8, <1>10, SameMachine
<1>12. /\ loop \div n \in Nat /\ a \in 0 .. n - 1 /\ (loop + 1) % n = a
       /\ p + 1 = n => (loop + 1) \div n = (loop \div n) + 1 /\ a = 0
       /\ p + 1 # n => (loop + 1) \div n = loop \div n /\ a = p + 1
  <2>1. PICK l \in Nat : l = loop
    BY <1>4
  <2>2. /\ l \div n \in Nat /\ l % n \in 0 .. n - 1
        /\ (l % n) + 1 = n => (l + 1) \div n = (l \div n) + 1 /\ (l + 1) % n = 0
        /\ (l % n) + 1 # n => (l + 1) \div n = l \div n /\ (l + 1) % n = (l % n) + 1
    BY <1>3, Rounds
  <2>3. a = IF p + 1 = n THEN 0 ELSE p + 1
    BY <1>3, <1>6 DEF After
  <2>4. a \in 0 .. n - 1
    BY <1>3, <1>4, <2>3
  <2>5. QED BY <1>4, <2>1, <2>2, <2>3, <2>4
<1>13. index' = b[a + 1]
  <2>1. array[b[p + 1]] = b[((p + 1) % n) + 1]
    BY <1>1, <1>3, <1>4 DEF Followed
  <2>2. (p + 1) % n = a
    <3>1. n % n = 0 /\ (p + 1 # n => (p + 1) % n = p + 1)
      BY <1>3, <1>4
    <3>2. QED BY <1>12, <3>1
  <2>3. QED BY <1>8, <2>1, <2>2
<1>14. ASSUME Apart(b)
       PROVE  misses' = (loop' \div n) * Cardinality(C) + Counted(b, C, loop' % n)
  <2>1. misses = (loop \div n) * Cardinality(C) + Counted(b, C, p)
    BY <1>2, <1>3, <1>4, <1>10, <1>14 DEF Timed
  <2>2. Hit(cache, b[p + 1]) <=> b[p + 1] \notin C
    <3>1. Aged(cache, b, 1 .. Len(b), p)
      BY <1>2, <1>3, <1>4, <1>14 DEF Timed
    <3>2. QED BY <1>3, <1>4, <1>10, <1>14, <3>1, MissesCrowded DEF TimedInv, IsCacheOf
  <2>3. /\ Cardinality(C) \in Nat /\ Counted(b, C, 0) = 0 /\ Counted(b, C, n) = Cardinality(C)
        /\ Counted(b, C, p) \in Nat
        /\ Counted(b, C, p + 1) = Counted(b, C, p) + (IF b[p + 1] \in C THEN 1 ELSE 0)
    <3>1. p \in 0 .. n
      BY <1>4
    <3>2. /\ Cardinality(C) \in Nat /\ Counted(b, C, 0) = 0
          /\ Counted(b, C, Len(b)) = Cardinality(C)
          /\ \A k \in 0 .. Len(b) : Counted(b, C, k) \in Nat
          /\ \A k \in 0 .. Len(b) - 1 :
               Counted(b, C, k + 1) = Counted(b, C, k) + (IF b[k + 1] \in C THEN 1 ELSE 0)
      BY <1>3, <1>10, Counts
    <3>3. QED BY <1>3, <1>4, <3>1, <3>2
  <2>4. misses' = (loop \div n) * Cardinality(C) + Counted(b, C, p + 1)
    <3>1. PICK m \in Nat : m = (loop \div n) * Cardinality(C)
      BY <1>12, <2>3, ProductOrder
    <3>2. QED BY <1>8, <2>1, <2>2, <2>3, <3>1
  <2>5. CASE p + 1 = n
    <3>1. ((loop \div n) + 1) * Cardinality(C) = (loop \div n) * Cardinality(C) + Cardinality(C)
      BY <1>12, <2>3
    <3>2. ((loop \div n) + 1) * Cardinality(C) \in Nat
      BY <1>12, <2>3, ProductOrder
    <3>3. QED BY <1>8, <1>12, <2>3, <2>4, <2>5, <3>1, <3>2
  <2>6. CASE p + 1 # n
    BY <1>8, <1>12, <2>4, <2>6
  <2>7. QED BY <2>5, <2>6
<1>15. /\ Geometry' /\ IsCacheOf(c)' /\ (Apart(b) => Aged(c, b, P, a)')
  BY <1>7, <1>8, SameMachine DEF TimedInv
<1>16. IsCacheOf(cache)' /\ (Apart(b) => Aged(cache, b, P, a)')
  BY <1>8, <1>15 DEF IsCacheOf, Aged
<1>17. Timed(b, a, P)'
  <2>1. loop' \in Nat /\ left' = 0 /\ a = loop' % n
    BY <1>4, <1>8, <1>12
  <2>2. QED BY <1>3, <1>4, <1>11, <1>12, <1>13, <1>14, <1>16, <2>1 DEF Timed
<1>18. QED BY <1>9, <1>15, <1>16, <1>17 DEF TimedInv

LEMMA TimedKeeps == ChaseInv /\ TimedInv /\ [Next]_chaseVars => TimedInv'
<1> SUFFICES ASSUME ChaseInv, TimedInv, [Next]_chaseVars PROVE TimedInv'
  OBVIOUS
<1>1. CASE generate_test_array
  <2>1. PICK ring \in Rings : Build(Evenly(ring[1], ring[2]))
    BY <1>1 DEF generate_test_array
  <2>2. Evenly(ring[1], ring[2]) \in Buffers
    BY DEF Buffers
  <2>3. QED BY <2>1, <2>2, EvenlyIsRing, BuildTimes
<1>2. CASE generate_test_array_for_line
  <2>1. PICK ring \in LineRings : Build(ByLines(ring[1], ring[2], ring[3]))
    BY <1>2 DEF generate_test_array_for_line
  <2>2. ByLines(ring[1], ring[2], ring[3]) \in Buffers
    BY DEF Buffers
  <2>3. QED BY <2>1, <2>2, ByLinesIsRing, BuildTimes
<1>3. CASE Warm
  BY <1>3, WarmTimes
<1>4. CASE Loop
  BY <1>4, LoopTimes
<1>5. CASE UNCHANGED chaseVars
  <2>1. UNCHANGED <<machine, array, slots, left, loop, index, cache, seen, misses, rings>>
    BY <1>5 DEF chaseVars
  <2>2. PICK c, C : c = cache /\ C = Crowded(slots)
    OBVIOUS
  <2>3. /\ Geometry' /\ IsCacheOf(c)' /\ C = Crowded(slots)'
        /\ \A b, P, p : Aged(c, b, P, p) => Aged(c, b, P, p)'
    BY <2>1, <2>2, SameMachine DEF TimedInv
  <2>4. IsCacheOf(cache)'
    BY <2>1, <2>2, <2>3 DEF IsCacheOf
  <2>5. ASSUME NEW b, NEW P, NEW p, Aged(cache, b, P, p) PROVE Aged(cache, b, P, p)'
    <3>1. Aged(c, b, P, p)'
      BY <2>2, <2>3, <2>5
    <3>2. QED BY <2>1, <2>2, <3>1 DEF Aged
  <2>6. ASSUME NEW b, NEW P, NEW p, Timed(b, p, P) PROVE Timed(b, p, P)'
    BY <2>1, <2>2, <2>3, <2>5, <2>6 DEF Timed
  <2>7. ASSUME NEW b, Followed(b) PROVE Followed(b)'
    BY <2>1, <2>7 DEF Followed
  <2>8. QED BY <2>1, <2>3, <2>4, <2>6, <2>7 DEF TimedInv
<1>6. QED BY <1>1, <1>2, <1>3, <1>4, <1>5 DEF Next

LEMMA RingSize ==
  ASSUME NEW b, IsRing(b)
  PROVE  Cardinality(ToSet(b)) = Len(b)
<1>1. PICK n \in Nat : /\ n = Len(b) /\ DOMAIN b = 1 .. n /\ b \in [1 .. n -> ToSet(b)]
                       /\ \A i, j \in 1 .. n : b[i] = b[j] => i = j
  <2>1. DOMAIN b = 1 .. Len(b) /\ Len(b) \in Nat /\ b = [i \in 1 .. Len(b) |-> b[i]]
    BY DEF IsRing
  <2>2. \A i \in 1 .. Len(b) : b[i] \in ToSet(b)
    BY <2>1 DEF ToSet
  <2>3. QED BY <2>1, <2>2 DEF IsRing
<1>2. \A t \in ToSet(b) : \E i \in 1 .. n : b[i] = t
  BY <1>1 DEF ToSet
<1>3. IsFiniteSet(ToSet(b)) /\ Cardinality(ToSet(b)) \in Nat /\ Cardinality(ToSet(b)) <= n
  BY <1>2, AtMost
<1>4. n <= Cardinality(ToSet(b))
  BY <1>1, <1>3, AtLeast
<1>5. QED BY <1>1, <1>3, <1>4

(* Whatever the machine, the rings, their orders, the rounds and what was in the   *)
(* cache before: each round of the timed loop misses as often as there are indices *)
(* in sets with too many lines (generate_test_array, measure).                     *)
THEOREM MissesAreByPlace == Geometry /\ Spec => []MissesByPlace
<1>1. TimedInv => MissesByPlace
  <2> SUFFICES ASSUME TimedInv, rings > 0, \A i, j \in slots : LineOf(i) = LineOf(j) => i = j
               PROVE  misses - (loop \div Cardinality(slots)) * Cardinality(Crowded(slots))
                        \in 0 .. Min({loop % Cardinality(slots), Cardinality(Crowded(slots))})
    BY DEF MissesByPlace
  <2>1. PICK b : Followed(b) /\ \E p, P : Timed(b, p, P)
    <3>1. rings # 0
      OBVIOUS
    <3>2. QED BY <3>1 DEF TimedInv
  <2>2. PICK n \in Nat : n = Len(b) /\ n >= 1 /\ IsRing(b) /\ slots = ToSet(b)
    <3>1. IsRing(b) /\ slots = ToSet(b)
      BY <2>1 DEF Followed
    <3>2. QED BY <3>1 DEF IsRing
  <2>3. Cardinality(slots) = n
    BY <2>2, RingSize
  <2>4. Apart(b)
    <3>1. DOMAIN b = 1 .. Len(b)
      BY <2>2 DEF IsRing
    <3>2. \A i \in 1 .. Len(b) : b[i] \in slots
      BY <2>2, <3>1 DEF ToSet
    <3>3. \A i, j \in 1 .. Len(b) : b[i] = b[j] => i = j
      BY <2>2 DEF IsRing
    <3>4. QED BY <3>2, <3>3 DEF Apart
  <2>5. PICK C : C = Crowded(slots) /\ C \in SUBSET ToSet(b)
    <3>1. Crowded(slots) \in SUBSET slots
      BY DEF Crowded
    <3>2. QED BY <2>2, <3>1
  <2>6. PICK l \in Nat : l = loop
    BY <2>1 DEF Timed
  <2>7. misses = (l \div n) * Cardinality(C) + Counted(b, C, l % n)
    BY <2>1, <2>2, <2>4, <2>5, <2>6 DEF Timed
  <2>8. l % n \in 0 .. n /\ l % n \in Nat /\ l \div n \in Nat
    BY <2>2, Divided
  <2>9. /\ Counted(b, C, l % n) \in Nat /\ Counted(b, C, l % n) <= l % n
        /\ Counted(b, C, l % n) <= Cardinality(C) /\ Cardinality(C) \in Nat
    BY <2>2, <2>5, <2>8, Counts
  <2>10. (l \div n) * Cardinality(C) \in Nat
    BY <2>8, <2>9, ProductOrder
  <2>11. Min({l % n, Cardinality(C)}) = IF l % n <= Cardinality(C) THEN l % n ELSE Cardinality(C)
    <3>1. PICK u \in Nat, v \in Nat : u = l % n /\ v = Cardinality(C)
      BY <2>8, <2>9
    <3>2. PICK m : m = IF u <= v THEN u ELSE v
      OBVIOUS
    <3>3. \A x \in {u, v} : (\A y \in {u, v} : x <= y) <=> x = m
      BY <3>2
    <3>4. m \in {u, v}
      BY <3>2
    <3>5. Min({u, v}) = m
      BY <3>3, <3>4 DEF Min
    <3>6. QED BY <3>1, <3>2, <3>5
  <2>12. misses - (l \div n) * Cardinality(C) = Counted(b, C, l % n)
    BY <2>7, <2>9, <2>10
  <2>13. QED BY <2>3, <2>5, <2>6, <2>8, <2>9, <2>11, <2>12
<1>2. Geometry /\ Init => ChaseInv /\ TimedInv
  BY InitFollows, InitTimes
<1>3. ChaseInv /\ TimedInv /\ [Next]_chaseVars => (ChaseInv /\ TimedInv)'
  BY ChaseKeeps, TimedKeeps
<1>4. QED BY <1>1, <1>2, <1>3, PTL DEF Spec

-----------------------------------------------------------------------------------
(* What a measurement tells: how many of a ring's indices are in sets with too many*)
(* lines.                                                                          *)

LEMMA Multiples ==
  ASSUME NEW n \in Nat, NEW d \in Nat, d >= 1, NEW T, \A i \in 0 .. n - 1 : i * d \in T,
         IsFiniteSet(T)
  PROVE  n <= Cardinality(T)
<1> DEFINE f == [i \in 1 .. n |-> (i - 1) * d]
<1>1. ASSUME NEW i \in 1 .. n PROVE f[i] = (i - 1) * d /\ i - 1 \in 0 .. n - 1 /\ f[i] \in T
  <2>1. i - 1 \in 0 .. n - 1
    OBVIOUS
  <2>2. f[i] = (i - 1) * d
    OBVIOUS
  <2>3. QED BY <2>1, <2>2
<1>2. f \in [1 .. n -> T]
  BY <1>1
<1>3. ASSUME NEW i \in 1 .. n, NEW j \in 1 .. n, f[i] = f[j] PROVE i = j
  <2>1. i - 1 \in Nat /\ j - 1 \in Nat
    OBVIOUS
  <2>2. (i - 1) * d = (j - 1) * d
    BY <1>1, <1>3
  <2>3. (i - 1) * d + 0 = (j - 1) * d + 0
    BY <2>2
  <2>4. i - 1 = j - 1
    BY <2>1, <2>3, Unique
  <2>5. QED BY <2>4
<1> HIDE DEF f
<1>4. QED BY <1>2, <1>3, AtLeast

(* A remainder of multiples.                                                       *)
LEMMA Scaled ==
  ASSUME NEW a \in Nat, NEW r \in Nat, NEW u \in Nat, r >= 1, u >= 1
  PROVE  (a * u) % (r * u) = (a % r) * u
<1>1. PICK q \in Nat, m \in Nat : q = a \div r /\ m = a % r /\ m < r /\ a = q * r + m
  BY Divided
<1>2. m + 1 <= r /\ m + 1 \in Nat
  BY <1>1
<1>3. (m + 1) * u <= r * u /\ r * u \in Nat /\ m * u \in Nat /\ a * u \in Nat
  BY <1>2, ProductOrder
<1>4. (m + 1) * u = m * u + u
  BY <1>1
<1>5. PICK g \in Nat, x \in Nat, y \in Nat : g = r * u /\ x = m * u /\ y = a * u
  BY <1>3
<1>6. x < g /\ g >= 1
  BY <1>3, <1>4, <1>5
<1>7. y = q * g + x
  <2>1. a * u = (q * r) * u + m * u
    BY <1>1
  <2>2. (q * r) * u = q * (r * u)
    BY <1>1
  <2>3. QED BY <1>5, <2>1, <2>2
<1>8. y \div g \in Nat /\ y % g \in Nat /\ y % g < g /\ y = (y \div g) * g + (y % g)
  BY <1>5, <1>6, Divided
<1>9. x = y % g
  BY <1>6, <1>7, RemainderOf
<1>10. QED BY <1>1, <1>5, <1>9

(* A ring of size indices step bytes apart: its slots and their lines, u apart.    *)
Slots(size, step) == {i * (step \div sizeof) : i \in 0 .. size - 1}

(* Index i of the ring is the i-th multiple, and so is its line.                   *)
Spaced(w, v, u, g) ==
  /\ w \in Nat /\ v \in Nat /\ u \in Nat /\ g \in Nat /\ v >= 1 /\ u >= 1 /\ g >= 1
  /\ w \div sizeof = v /\ machine.way \div LineSize = g
  /\ \A i \in Nat : i * v \in Nat /\ i * u \in Nat /\ LineOf(i * v) = i * u
  /\ \A l \in Nat : SetOf(l) = l % g

SpacedBy(w, k, n) ==
  \E v, u, g, m \in Nat : Spaced(w, v, u, g) /\ m >= 1 /\ u = k * m /\ g = n * m

LEMMA WaysSpaced ==
  ASSUME Geometry, NEW k \in Nat, k >= 1, NEW n \in Nat, n >= 1,
         NEW w, w = MIN_WAY_SIZE * k, machine.way = MIN_WAY_SIZE * n
  PROVE  SpacedBy(w, k, n)
<1>1. PICK x \in Nat : MIN_WAY_SIZE = 4 * x /\ x >= 1
  <2>1. MIN_WAY_SIZE \in Nat /\ MIN_WAY_SIZE >= 1 /\ MIN_WAY_SIZE % 4 = 0
    BY ProbeAssumption DEF sizeof
  <2>2. MIN_WAY_SIZE = (MIN_WAY_SIZE \div 4) * 4 + (MIN_WAY_SIZE % 4) /\ MIN_WAY_SIZE \div 4 \in Nat
    BY <2>1, Divided
  <2>3. QED BY <2>1, <2>2
<1>2. PICK L \in Nat : L = LineSize /\ L >= 1
  BY DEF Geometry
<1>3. PICK m \in Nat : MIN_WAY_SIZE = m * L /\ m >= 1
  <2>1. MIN_WAY_SIZE \in Nat /\ MIN_WAY_SIZE >= 1 /\ MIN_WAY_SIZE % L = 0
    BY <1>2, ProbeAssumption
  <2>2. MIN_WAY_SIZE = (MIN_WAY_SIZE \div L) * L + (MIN_WAY_SIZE % L) /\ MIN_WAY_SIZE \div L \in Nat
    BY <1>2, <2>1, Divided
  <2>3. PICK m \in Nat : m = MIN_WAY_SIZE \div L
    BY <2>2
  <2>4. MIN_WAY_SIZE = m * L
    BY <2>1, <2>2, <2>3
  <2>5. m # 0
    <3>1. 0 * L = 0
      BY <1>2
    <3>2. QED BY <2>1, <2>4, <3>1
  <2>6. QED BY <2>4, <2>5
<1> DEFINE v == k * x
           u == k * m
           g == n * m
<1>4. /\ v \in Nat /\ u \in Nat /\ g \in Nat /\ v >= 1 /\ u >= 1 /\ g >= 1
  <2>1. 1 * x <= k * x /\ k * x \in Nat
    BY ProductOrder
  <2>2. 1 * m <= k * m /\ k * m \in Nat
    BY ProductOrder
  <2>3. 1 * m <= n * m /\ n * m \in Nat
    BY ProductOrder
  <2>4. QED BY <1>1, <1>3, <2>1, <2>2, <2>3
<1>5. MIN_WAY_SIZE * k = v * 4 /\ MIN_WAY_SIZE * k = u * L
  <2>1. (4 * x) * k = (k * x) * 4
    OBVIOUS
  <2>2. (m * L) * k = (k * m) * L
    OBVIOUS
  <2>3. QED BY <1>1, <1>3, <2>1, <2>2
<1>6. machine.way = g * L
  <2>1. (m * L) * n = (n * m) * L
    OBVIOUS
  <2>2. QED BY <1>3, <2>1
<1> HIDE DEF v, u, g
<1>7. MIN_WAY_SIZE * k \in Nat /\ (MIN_WAY_SIZE * k) \div sizeof = v
  <2>1. v * 4 \in Nat /\ (v * 4) \div 4 = v
    BY <1>4
  <2>2. QED BY <1>5, <2>1 DEF sizeof
<1>8. machine.way \div LineSize = g
  BY <1>2, <1>4, <1>6, Quotient
<1>9. ASSUME NEW i \in Nat PROVE i * v \in Nat /\ i * u \in Nat /\ LineOf(i * v) = i * u
  <2>1. i * v \in Nat /\ i * u \in Nat
    BY <1>4, ProductOrder
  <2>2. 4 * (i * v) = (i * u) * L
    <3>1. 4 * (i * v) = i * (v * 4)
      BY <1>4
    <3>2. i * (u * L) = (i * u) * L
      BY <1>4
    <3>3. QED BY <1>5, <3>1, <3>2
  <2>3. ((i * u) * L) \div L = i * u
    BY <1>2, <2>1, Quotient
  <2>4. QED BY <1>2, <2>1, <2>2, <2>3 DEF LineOf, sizeof
<1>10. Spaced(w, v, u, g)
  BY <1>4, <1>7, <1>8, <1>9 DEF Spaced, SetOf
<1>11. QED BY <1>3, <1>4, <1>10 DEF SpacedBy, u, g

(* The lines that share the set of an index.                                       *)
SameSet(C, i) == {LineOf(k) : k \in {j \in C : SetOf(LineOf(j)) = SetOf(LineOf(i))}}

LEMMA CrowdedBy ==
  ASSUME NEW C
  PROVE  Crowded(C) = {i \in C : Cardinality(SameSet(C, i)) > machine.ways}
  BY DEF Crowded, SameSet

LEMMA SlotsAre ==
  ASSUME NEW w, NEW v, NEW u, NEW g, Spaced(w, v, u, g), NEW s \in Nat
  PROVE  /\ Slots(s, w) = {i * v : i \in 0 .. s - 1}
         /\ IsFiniteSet(Slots(s, w)) /\ Cardinality(Slots(s, w)) = s
<1>1. Slots(s, w) = {i * v : i \in 0 .. s - 1}
  BY DEF Slots, Spaced
<1>2. PICK T : T = {i * v : i \in 0 .. s - 1}
  OBVIOUS
<1>3. \A t \in T : \E i \in 1 .. s : [j \in 1 .. s |-> (j - 1) * v][i] = t
  <2>1. SUFFICES ASSUME NEW t \in T
                 PROVE  \E i \in 1 .. s : [j \in 1 .. s |-> (j - 1) * v][i] = t
    OBVIOUS
  <2>2. PICK i \in 0 .. s - 1 : t = i * v
    BY <1>2
  <2>3. i + 1 \in 1 .. s /\ (i + 1) - 1 = i
    OBVIOUS
  <2>4. [j \in 1 .. s |-> (j - 1) * v][i + 1] = i * v
    BY <2>3
  <2>5. QED BY <2>2, <2>3, <2>4
<1>4. IsFiniteSet(T) /\ Cardinality(T) \in Nat /\ Cardinality(T) <= s
  BY <1>3, AtMost
<1>5. s <= Cardinality(T)
  <2>1. v \in Nat /\ v >= 1
    BY DEF Spaced
  <2>2. \A i \in 0 .. s - 1 : i * v \in T
    BY <1>2
  <2>3. QED BY <1>4, <2>1, <2>2, Multiples
<1>6. QED BY <1>1, <1>2, <1>4, <1>5

(* Where the step is a part of a way, there are as many sets as times it fits.     *)
LEMMA SetOfSlot ==
  ASSUME NEW w, NEW v, NEW u, NEW g, Spaced(w, v, u, g), NEW r \in Nat, r >= 1, g = r * u,
         NEW i \in Nat
  PROVE  SetOf(LineOf(i * v)) = (i % r) * u
<1>1. LineOf(i * v) = i * u /\ i * u \in Nat /\ u \in Nat /\ u >= 1
  BY DEF Spaced
<1>2. SetOf(i * u) = (i * u) % (r * u)
  BY <1>1 DEF Spaced
<1>3. QED BY <1>1, <1>2, Scaled

LEMMA NoneCrowded ==
  ASSUME Geometry, NEW w, NEW v, NEW u, NEW g, Spaced(w, v, u, g), NEW r \in Nat, r >= 1, g = r * u,
         NEW s \in Nat, s <= r * machine.ways
  PROVE  Crowded(Slots(s, w)) = {}
<1> DEFINE C == Slots(s, w)
           A == machine.ways
<1>1. C = {i * v : i \in 0 .. s - 1} /\ A \in Nat
  BY SlotsAre DEF Geometry
<1> HIDE DEF C
<1>2. ASSUME NEW c \in C PROVE ~(Cardinality(SameSet(C, c)) > A)
  <2>1. PICK a \in 0 .. s - 1 : c = a * v
    BY <1>1
  <2>2. PICK m \in Nat : m = a % r /\ m < r
    BY Divided
  <2>3. ASSUME NEW t \in SameSet(C, c)
        PROVE  \E q \in 1 .. A : [j \in 1 .. A |-> ((j - 1) * r + m) * u][q] = t
    <3>1. PICK k \in C : SetOf(LineOf(k)) = SetOf(LineOf(c)) /\ t = LineOf(k)
      BY DEF SameSet
    <3>2. PICK b \in 0 .. s - 1 : k = b * v
      BY <1>1, <3>1
    <3>3. (b % r) * u = m * u
      <4>1. SetOf(LineOf(b * v)) = (b % r) * u /\ SetOf(LineOf(a * v)) = (a % r) * u
        BY SetOfSlot
      <4>2. QED BY <2>1, <2>2, <3>1, <3>2, <4>1
    <3>4. PICK d \in Nat, n \in Nat : d = b \div r /\ n = b % r /\ n < r /\ b = d * r + n
      <4>1. b \in Nat
        OBVIOUS
      <4>2. b \div r \in Nat /\ b % r \in Nat /\ b % r < r /\ b = (b \div r) * r + (b % r)
        BY <4>1, Divided
      <4>3. QED BY <4>2
    <3>5. u \in Nat /\ u >= 1
      BY DEF Spaced
    <3>6. n = m
      <4>1. n * u + 0 = m * u + 0
        BY <3>3, <3>4
      <4>2. QED BY <3>5, <4>1, Unique
    <3>7. d < A
      <4>1. SUFFICES ASSUME A <= d PROVE FALSE
        BY <1>1
      <4>2. A * r <= d * r /\ A * r \in Nat /\ d * r \in Nat
        BY <1>1, <4>1, ProductOrder
      <4>3. r * A = A * r
        BY <1>1
      <4>4. b < s /\ b >= d * r
        BY <3>4, <4>2
      <4>5. QED BY <4>2, <4>3, <4>4
    <3>8. t = b * u
      BY <3>1, <3>2 DEF Spaced
    <3>9. d + 1 \in 1 .. A /\ (d + 1) - 1 = d
      BY <1>1, <3>7
    <3>10. [j \in 1 .. A |-> ((j - 1) * r + m) * u][d + 1] = (d * r + m) * u
      BY <3>9
    <3>11. QED BY <3>4, <3>6, <3>8, <3>9, <3>10
  <2>4. Cardinality(SameSet(C, c)) \in Nat /\ Cardinality(SameSet(C, c)) <= A
    <3>1. PICK f : f = [j \in 1 .. A |-> ((j - 1) * r + m) * u]
      OBVIOUS
    <3>2. \A t \in SameSet(C, c) : \E q \in 1 .. A : f[q] = t
      BY <2>3, <3>1
    <3>3. PICK n \in Nat : n = A
      BY <1>1
    <3>4. \A t \in SameSet(C, c) : \E q \in 1 .. n : f[q] = t
      BY <3>2, <3>3
    <3>5. QED BY <3>3, <3>4, AtMost
  <2>5. QED BY <1>1, <2>4
<1>3. Crowded(C) = {}
  BY <1>2, CrowdedBy
<1>4. QED BY <1>3 DEF C

LEMMA SomeCrowded ==
  ASSUME Geometry, NEW w, NEW v, NEW u, NEW g, Spaced(w, v, u, g), NEW r \in Nat, r >= 1, g = r * u,
         NEW s \in Nat, s > r * machine.ways
  PROVE  Cardinality(Crowded(Slots(s, w))) \in Nat /\ Cardinality(Crowded(Slots(s, w))) > machine.ways
<1> DEFINE C == Slots(s, w)
           A == machine.ways
<1>1. C = {i * v : i \in 0 .. s - 1} /\ A \in Nat /\ IsFiniteSet(C)
  BY SlotsAre DEF Geometry
<1>2. u \in Nat /\ u >= 1 /\ v \in Nat /\ v >= 1
  BY DEF Spaced
<1> HIDE DEF C
<1>3. ASSUME NEW q \in 0 .. A
      PROVE  /\ q * r \in 0 .. s - 1 /\ (q * r) * v \in C
             /\ LineOf((q * r) * v) = (q * r) * u /\ SetOf(LineOf((q * r) * v)) = 0
  <2>1. q * r <= A * r /\ q * r \in Nat /\ A * r \in Nat
    <3>1. q \in Nat /\ A \in Nat /\ q <= A
      BY <1>1
    <3>2. QED BY <3>1, ProductOrder
  <2>2. r * A = A * r
    BY <1>1
  <2>3. q * r \in 0 .. s - 1
    BY <2>1, <2>2
  <2>4. LineOf((q * r) * v) = (q * r) * u
    BY <2>1 DEF Spaced
  <2>5. SetOf(LineOf((q * r) * v)) = ((q * r) % r) * u
    BY <2>1, SetOfSlot
  <2>6. (q * r) % r = 0
    <3>1. PICK y \in Nat : y = q * r
      BY <2>1
    <3>2. y % r = 0
      BY <3>1, RemainderOf
    <3>3. QED BY <3>1, <3>2
  <2>7. 0 * u = 0
    BY <1>2
  <2>8. QED BY <1>1, <2>3, <2>4, <2>5, <2>6, <2>7
<1>4. ASSUME NEW q \in 0 .. A
      PROVE  (q * r) * v \in Crowded(C)
  <2>1. PICK c : c = (q * r) * v /\ c \in C /\ SetOf(LineOf(c)) = 0
    BY <1>3
  <2>2. ASSUME NEW p \in 0 .. A PROVE p * (r * u) \in SameSet(C, c)
    <3>1. (p * r) * u \in SameSet(C, c)
      BY <1>3, <2>1 DEF SameSet
    <3>2. (p * r) * u = p * (r * u)
      BY <1>2
    <3>3. QED BY <3>1, <3>2
  <2>3. IsFiniteSet(SameSet(C, c))
    <3>1. PICK f : f = [j \in 1 .. s |-> LineOf((j - 1) * v)]
      OBVIOUS
    <3>2. ASSUME NEW t \in SameSet(C, c) PROVE \E j \in 1 .. s : f[j] = t
      <4>1. PICK b \in 0 .. s - 1 : t = LineOf(b * v)
        BY <1>1 DEF SameSet
      <4>2. b + 1 \in 1 .. s /\ (b + 1) - 1 = b
        OBVIOUS
      <4>3. f[b + 1] = LineOf(b * v)
        BY <3>1, <4>2
      <4>4. QED BY <4>1, <4>2, <4>3
    <3>3. QED BY <3>2, AtMost
  <2>4. r * u \in Nat /\ r * u >= 1
    <3>1. 1 * u <= r * u /\ r * u \in Nat
      BY <1>2, ProductOrder
    <3>2. QED BY <1>2, <3>1
  <2>5. A + 1 <= Cardinality(SameSet(C, c))
    <3>1. (A + 1) - 1 = A /\ A + 1 \in Nat
      BY <1>1
    <3>2. \A p \in 0 .. (A + 1) - 1 : p * (r * u) \in SameSet(C, c)
      BY <2>2, <3>1
    <3>3. PICK d \in Nat : d = r * u /\ d >= 1
      BY <2>4
    <3>4. \A p \in 0 .. (A + 1) - 1 : p * d \in SameSet(C, c)
      BY <3>2, <3>3
    <3>5. QED BY <2>3, <3>1, <3>3, <3>4, Multiples
  <2>6. Cardinality(SameSet(C, c)) \in Nat
    BY <2>3, FS_CardinalityType
  <2>7. Cardinality(SameSet(C, c)) > A
    BY <1>1, <2>5, <2>6
  <2>8. QED BY <2>1, <2>7, CrowdedBy
<1>5. IsFiniteSet(Crowded(C)) /\ Cardinality(Crowded(C)) \in Nat
  <2>1. Crowded(C) \in SUBSET C
    BY CrowdedBy
  <2>2. QED BY <1>1, <2>1, FS_Subset, FS_CardinalityType
<1>6. A + 1 <= Cardinality(Crowded(C))
  <2>1. (A + 1) - 1 = A /\ A + 1 \in Nat
    BY <1>1
  <2>2. r * v \in Nat /\ r * v >= 1
    <3>1. 1 * v <= r * v /\ r * v \in Nat
      BY <1>2, ProductOrder
    <3>2. QED BY <1>2, <3>1
  <2>3. ASSUME NEW q \in 0 .. A PROVE q * (r * v) \in Crowded(C)
    <3>1. q * (r * v) = (q * r) * v
      BY <1>2
    <3>2. QED BY <1>4, <3>1
  <2>4. PICK d \in Nat : d = r * v /\ d >= 1
    BY <2>2
  <2>5. \A q \in 0 .. (A + 1) - 1 : q * d \in Crowded(C)
    BY <2>1, <2>3, <2>4
  <2>6. QED BY <1>5, <2>1, <2>4, <2>5, Multiples
<1>7. QED BY <1>1, <1>5, <1>6 DEF C

(* Where it is a way or several, there is one set for all.                         *)
LEMMA OneSet ==
  ASSUME Geometry, NEW w, NEW v, NEW u, NEW g, Spaced(w, v, u, g), NEW r \in Nat, r >= 1, u = r * g,
         NEW s \in Nat
  PROVE  Cardinality(Crowded(Slots(s, w))) = IF s > machine.ways THEN s ELSE 0
<1> DEFINE C == Slots(s, w)
           A == machine.ways
<1>1. C = {i * v : i \in 0 .. s - 1} /\ A \in Nat /\ IsFiniteSet(C) /\ Cardinality(C) = s
  BY SlotsAre DEF Geometry
<1>2. u \in Nat /\ u >= 1 /\ v \in Nat /\ v >= 1 /\ g \in Nat /\ g >= 1
  BY DEF Spaced
<1> HIDE DEF C
<1>3. ASSUME NEW i \in Nat
      PROVE  LineOf(i * v) = i * u /\ SetOf(LineOf(i * v)) = 0
  <2>1. LineOf(i * v) = i * u /\ i * u \in Nat
    BY DEF Spaced
  <2>2. i * u = (i * r) * g
    BY <1>2
  <2>3. i * r \in Nat
    BY ProductOrder
  <2>4. PICK y \in Nat, z \in Nat : y = i * u /\ z = i * r /\ y = z * g
    BY <2>1, <2>2, <2>3
  <2>5. y % g = 0
    BY <1>2, <2>4, RemainderOf
  <2>6. SetOf(y) = y % g
    BY <2>4 DEF Spaced
  <2>7. QED BY <2>1, <2>4, <2>5, <2>6
<1>4. ASSUME NEW c \in C PROVE Cardinality(SameSet(C, c)) = s
  <2>1. SetOf(LineOf(c)) = 0
    <3>1. PICK i \in 0 .. s - 1 : c = i * v
      BY <1>1
    <3>2. i \in Nat
      OBVIOUS
    <3>3. QED BY <1>3, <3>1, <3>2
  <2>2. SameSet(C, c) = {i * u : i \in 0 .. s - 1}
    <3>1. ASSUME NEW t \in SameSet(C, c) PROVE t \in {i * u : i \in 0 .. s - 1}
      <4>1. PICK i \in 0 .. s - 1 : t = LineOf(i * v)
        BY <1>1 DEF SameSet
      <4>2. i \in Nat
        OBVIOUS
      <4>3. QED BY <1>3, <4>1, <4>2
    <3>2. ASSUME NEW i \in 0 .. s - 1 PROVE i * u \in SameSet(C, c)
      <4>1. i \in Nat /\ i * v \in C
        BY <1>1
      <4>2. LineOf(i * v) = i * u /\ SetOf(LineOf(i * v)) = SetOf(LineOf(c))
        BY <1>3, <2>1, <4>1
      <4>3. QED BY <4>1, <4>2 DEF SameSet
    <3>3. QED BY <3>1, <3>2
  <2>3. PICK T : T = {i * u : i \in 0 .. s - 1}
    OBVIOUS
  <2>4. IsFiniteSet(T) /\ Cardinality(T) \in Nat /\ Cardinality(T) <= s
    <3>1. PICK f : f = [j \in 1 .. s |-> (j - 1) * u]
      OBVIOUS
    <3>2. ASSUME NEW t \in T PROVE \E j \in 1 .. s : f[j] = t
      <4>1. PICK b \in 0 .. s - 1 : t = b * u
        BY <2>3
      <4>2. b + 1 \in 1 .. s /\ (b + 1) - 1 = b
        OBVIOUS
      <4>3. f[b + 1] = b * u
        BY <3>1, <4>2
      <4>4. QED BY <4>1, <4>2, <4>3
    <3>3. QED BY <3>2, AtMost
  <2>5. s <= Cardinality(T)
    <3>1. \A i \in 0 .. s - 1 : i * u \in T
      BY <2>3
    <3>2. QED BY <1>2, <2>4, <3>1, Multiples
  <2>6. QED BY <2>2, <2>3, <2>4, <2>5
<1>5. Crowded(C) = IF s > A THEN C ELSE {}
  BY <1>4, CrowdedBy
<1>6. Cardinality({}) = 0
  BY FS_EmptySet
<1>7. QED BY <1>1, <1>5, <1>6 DEF C

(* The times of the rings whose step is a part of a way, a way or several ways.    *)
LEMMA TimeIs ==
  ASSUME NEW s, NEW w
  PROVE  Time(s, w) = <<s + (MissTime - 1) * Cardinality(Crowded(Slots(s, w))), s>>
  BY DEF Time, Slots

LEMMA Cancelled ==
  ASSUME NEW x \in Nat, NEW y \in Nat, NEW w \in Nat, w >= 1, w * x = w * y
  PROVE  x = y
<1>1. x * w + 0 = y * w + 0
  OBVIOUS
<1>2. QED BY <1>1, Unique

(* w is one of the sizes of a way.                                                 *)
IsWay(w) == \E k \in Nat : k >= 1 /\ w = MIN_WAY_SIZE * k

LEMMA PartOfWay ==
  ASSUME Geometry, IsWay(machine.way), NEW w, IsWay(w), NEW r \in Nat, r >= 1, w * r = machine.way
  PROVE  \E v, u, g \in Nat : Spaced(w, v, u, g) /\ g = r * u
<1>1. PICK k \in Nat : k >= 1 /\ w = MIN_WAY_SIZE * k
  BY DEF IsWay
<1>2. PICK n \in Nat : n >= 1 /\ machine.way = MIN_WAY_SIZE * n
  BY DEF IsWay
<1>3. PICK v, u, g, m \in Nat : Spaced(w, v, u, g) /\ m >= 1 /\ u = k * m /\ g = n * m
  <2>1. w = MIN_WAY_SIZE * k
    BY <1>1
  <2>2. machine.way = MIN_WAY_SIZE * n
    BY <1>2
  <2>3. k >= 1
    BY <1>1
  <2>4. n >= 1
    BY <1>2
  <2>5. SpacedBy(w, k, n)
    BY <2>1, <2>2, <2>3, <2>4, WaysSpaced
  <2>6. QED BY <2>5 DEF SpacedBy
<1>4. MIN_WAY_SIZE \in Nat /\ MIN_WAY_SIZE >= 1
  BY ProbeAssumption
<1>5. k * r = n
  <2>1. MIN_WAY_SIZE * (k * r) = MIN_WAY_SIZE * n
    <3>1. MIN_WAY_SIZE * (k * r) = (MIN_WAY_SIZE * k) * r
      BY <1>4
    <3>2. QED BY <1>1, <1>2, <3>1
  <2>2. k * r \in Nat
    BY ProductOrder
  <2>3. QED BY <1>4, <2>1, <2>2, Cancelled
<1>6. g = r * u
  <2>1. (k * r) * m = r * (k * m)
    OBVIOUS
  <2>2. QED BY <1>3, <1>5, <2>1
<1>7. QED BY <1>3, <1>6

LEMMA ManyWays ==
  ASSUME Geometry, IsWay(machine.way), NEW w, IsWay(w), NEW r \in Nat, r >= 1, w = machine.way * r
  PROVE  \E v, u, g \in Nat : Spaced(w, v, u, g) /\ u = r * g
<1>1. PICK k \in Nat : k >= 1 /\ w = MIN_WAY_SIZE * k
  BY DEF IsWay
<1>2. PICK n \in Nat : n >= 1 /\ machine.way = MIN_WAY_SIZE * n
  BY DEF IsWay
<1>3. PICK v, u, g, m \in Nat : Spaced(w, v, u, g) /\ m >= 1 /\ u = k * m /\ g = n * m
  <2>1. w = MIN_WAY_SIZE * k
    BY <1>1
  <2>2. machine.way = MIN_WAY_SIZE * n
    BY <1>2
  <2>3. k >= 1
    BY <1>1
  <2>4. n >= 1
    BY <1>2
  <2>5. SpacedBy(w, k, n)
    BY <2>1, <2>2, <2>3, <2>4, WaysSpaced
  <2>6. QED BY <2>5 DEF SpacedBy
<1>4. MIN_WAY_SIZE \in Nat /\ MIN_WAY_SIZE >= 1
  BY ProbeAssumption
<1>5. k = n * r
  <2>1. MIN_WAY_SIZE * k = MIN_WAY_SIZE * (n * r)
    <3>1. MIN_WAY_SIZE * (n * r) = (MIN_WAY_SIZE * n) * r
      BY <1>4
    <3>2. QED BY <1>1, <1>2, <3>1
  <2>2. n * r \in Nat
    BY ProductOrder
  <2>3. QED BY <1>4, <2>1, <2>2, Cancelled
<1>6. u = r * g
  <2>1. (n * r) * m = r * (n * m)
    OBVIOUS
  <2>2. QED BY <1>3, <1>5, <2>1
<1>7. QED BY <1>3, <1>6

(* Up to the associativity times the parts, nothing misses.                        *)
LEMMA TimeWithin ==
  ASSUME Geometry, IsWay(machine.way), NEW w, IsWay(w), NEW r \in Nat, r >= 1, w * r = machine.way,
         NEW s \in Nat, s <= r * machine.ways
  PROVE  Time(s, w) = <<s, s>>
<1>1. PICK v \in Nat, u \in Nat, g \in Nat : Spaced(w, v, u, g) /\ g = r * u
  BY PartOfWay
<1>2. Crowded(Slots(s, w)) = {}
  BY <1>1, NoneCrowded
<1>3. Cardinality(Crowded(Slots(s, w))) = 0
  BY <1>2, FS_EmptySet
<1>4. (MissTime - 1) * 0 = 0
  BY ProbeAssumption
<1>5. s + 0 = s
  OBVIOUS
<1>6. QED BY <1>3, <1>4, <1>5, TimeIs

(* Beyond, one set too many lines of which miss.                                   *)
LEMMA TimeBeyond ==
  ASSUME Geometry, IsWay(machine.way), NEW w, IsWay(w), NEW r \in Nat, r >= 1, w * r = machine.way,
         NEW s \in Nat, s > r * machine.ways
  PROVE  \E c \in Nat : c > machine.ways /\ Time(s, w) = <<s + (MissTime - 1) * c, s>>
<1>1. PICK v \in Nat, u \in Nat, g \in Nat : Spaced(w, v, u, g) /\ g = r * u
  BY PartOfWay
<1>2. Cardinality(Crowded(Slots(s, w))) \in Nat /\ Cardinality(Crowded(Slots(s, w))) > machine.ways
  BY <1>1, SomeCrowded
<1>3. QED BY <1>2, TimeIs

(* At steps of ways all miss or none.                                              *)
LEMMA TimeOfWays ==
  ASSUME Geometry, IsWay(machine.way), NEW w, IsWay(w), NEW r \in Nat, r >= 1, w = machine.way * r,
         NEW s \in Nat
  PROVE  Time(s, w) = IF s > machine.ways THEN <<MissTime * s, s>> ELSE <<s, s>>
<1>1. PICK v \in Nat, u \in Nat, g \in Nat : Spaced(w, v, u, g) /\ u = r * g
  BY ManyWays
<1>2. Cardinality(Crowded(Slots(s, w))) = IF s > machine.ways THEN s ELSE 0
  BY <1>1, OneSet
<1>3. s + (MissTime - 1) * 0 = s /\ s + (MissTime - 1) * s = MissTime * s
  BY ProbeAssumption
<1>4. CASE s > machine.ways
  BY <1>2, <1>3, <1>4, TimeIs
<1>5. CASE ~(s > machine.ways)
  BY <1>2, <1>3, <1>5, TimeIs
<1>6. QED BY <1>4, <1>5

(* Without misses, and with nothing but misses, a larger ring is not slower.       *)
LEMMA NotSlower ==
  ASSUME NEW s \in Nat, NEW p \in Nat
  PROVE  /\ ~Slower(<<s, s>>, <<p, p>>)
         /\ ~Slower(<<MissTime * s, s>>, <<MissTime * p, p>>)
<1>1. MissTime \in Nat
  BY ProbeAssumption
<1>2. s * p \in Nat
  BY ProductOrder
<1>3. 10 * s * p = 10 * (s * p) /\ 12 * p * s = 12 * (s * p)
  OBVIOUS
<1>4. PICK x \in Nat : x = s * p
  BY <1>2
<1>5. ~(10 * s * p > 12 * p * s)
  BY <1>3, <1>4
<1>6. MissTime * (s * p) \in Nat
  BY <1>1, <1>2, ProductOrder
<1>7. 10 * (MissTime * s) * p = 10 * (MissTime * (s * p)) /\ 12 * (MissTime * p) * s = 12 * (MissTime * (s * p))
  BY <1>1
<1>8. PICK y \in Nat : y = MissTime * (s * p)
  BY <1>6
<1>9. ~(10 * (MissTime * s) * p > 12 * (MissTime * p) * s)
  BY <1>7, <1>8
<1>10. QED BY <1>5, <1>9 DEF Slower

(* The first ring too large for its sets is slower.                                *)
LEMMA FirstSlower ==
  ASSUME NEW a \in Nat, a >= 1, NEW r \in Nat, r \in {1, 2, 4}, NEW c \in Nat, c > a
  PROVE  Slower(<<r * a + 2 + (MissTime - 1) * c, r * a + 2>>, <<r * a, r * a>>)
<1>1. MissTime - 1 \in Nat /\ MissTime - 1 >= 1
  BY ProbeAssumption
<1>2. 1 * c <= (MissTime - 1) * c /\ (MissTime - 1) * c \in Nat
  BY <1>1, ProductOrder
<1>3. PICK d \in Nat : d = (MissTime - 1) * c
  BY <1>2
<1>4. d >= c
  BY <1>2, <1>3
<1>5. PICK p \in Nat : p = r * a
  BY ProductOrder
<1>6. p <= 4 * a /\ p >= 1
  BY <1>5
<1>7. PICK e \in Nat : e = 5 * d - p - 2 /\ e >= 1
  <2>1. 5 * d - p - 2 \in Nat /\ 5 * d - p - 2 >= 1
    BY <1>4, <1>6
  <2>2. QED BY <2>1
<1>8. 10 * (p + 2 + d) = 12 * (p + 2) + 2 * e
  BY <1>7
<1>9. 10 * (p + 2 + d) * p = 12 * p * (p + 2) + 2 * (e * p)
  <2>1. (12 * (p + 2) + 2 * e) * p = 12 * p * (p + 2) + 2 * (e * p)
    OBVIOUS
  <2>2. QED BY <1>8, <2>1
<1>10. 1 * p <= e * p /\ e * p \in Nat
  BY <1>7, ProductOrder
<1>11. 12 * p * (p + 2) \in Nat
  <2>1. p * (p + 2) \in Nat
    BY ProductOrder
  <2>2. 12 * p * (p + 2) = 12 * (p * (p + 2))
    OBVIOUS
  <2>3. PICK x \in Nat : x = p * (p + 2)
    BY <2>1
  <2>4. 12 * x \in Nat
    OBVIOUS
  <2>5. QED BY <2>2, <2>3, <2>4
<1>12. PICK x \in Nat, y \in Nat : x = 12 * p * (p + 2) /\ y = e * p /\ y >= 1
  <2>1. e * p >= 1
    BY <1>6, <1>10
  <2>2. QED BY <1>10, <1>11, <2>1
<1>13. 10 * (p + 2 + d) * p > 12 * p * (p + 2)
  BY <1>9, <1>12
<1>14. QED BY <1>3, <1>5, <1>13 DEF Slower

-----------------------------------------------------------------------------------
(* An epoch in which nothing else ran.                                             *)

Right == machine.ways * machine.way

(* w is tried on the way from the smallest size of a way to the largest.           *)
Aligned(w) ==
  /\ IsWay(w)
  /\ (\E r \in Doublings : w * r = machine.way) \/ (\E r \in Nat : r >= 1 /\ w = machine.way * r)

(* How often a jump told each size.                                                *)
Jumps == [size \in Nat |-> IF size \in DOMAIN counter_for_cache THEN counter_for_cache[size] ELSE 0]

(* The machine's own size has as many jumps as any other, and none is smaller: when*)
(* steps are shorter than a way each has a jump there before it can have any other.*)
(* With its jump at steps of a way it is ahead of all those larger, and each of    *)
(* the longer steps has one jump at most, at the number of ways.                   *)
Ahead(c, a, way, w, p) ==
  /\ c \in [Nat -> Nat]
  /\ \A size \in Nat : /\ size < a * way => c[size] = 0
                       /\ c[size] <= c[a * way]
  /\ w < way /\ p * w > a * way => \A size \in Nat : size >= p * w => c[size] < c[a * way]
  /\ w > way \/ (w = way /\ p > a) =>
       \A size \in Nat :
         size # a * way /\ (size > a * w \/ (size = a * w /\ p <= a)) => c[size] < c[a * way]

Past == way_size > machine.way \/ (way_size = machine.way /\ prev_assoc > machine.ways)

EpochInv ==
  /\ Aligned(way_size)
  /\ \E k \in Nat : prev_assoc = MIN_ASSOC + 2 * k
  /\ \/ assoc = MIN_ASSOC /\ prev_assoc = MIN_ASSOC
     \/ /\ assoc = prev_assoc + 2 /\ prev_assoc \in DOMAIN measurements
        /\ measurements[prev_assoc] = Time(prev_assoc, way_size)
  /\ DOMAIN counter_for_cache \subseteq Nat
  /\ Ahead(Jumps, machine.ways, machine.way, way_size, prev_assoc)
  /\ Past => Right \in DOMAIN min_assoc_for_cache /\ min_assoc_for_cache[Right] = machine.ways

LEMMA Machine ==
  ASSUME Geometry, Measurable
  PROVE  /\ machine.ways \in Nat /\ machine.way \in Nat /\ machine.ways >= 1 /\ machine.way >= 1
         /\ IsWay(machine.way) /\ MIN_WAY_SIZE \in Nat /\ MIN_WAY_SIZE >= 1
         /\ MIN_ASSOC \in Nat /\ MIN_ASSOC >= 1 /\ MIN_ASSOC % 2 = 0 /\ MAX_ASSOC \in Nat
         /\ MAX_ASSOC <= 8 * MIN_ASSOC + 2 /\ MAX_WAY_SIZE \in Nat /\ MAX_SIZE \in Nat
         /\ \E n \in Nat : machine.ways = MIN_ASSOC + 2 * n
<1>1. machine.ways \in Nat /\ machine.way \in Nat /\ machine.ways >= 1 /\ machine.way >= 1
  BY DEF Geometry
<1>2. /\ MIN_WAY_SIZE \in Nat /\ MIN_WAY_SIZE >= 1
      /\ MIN_ASSOC \in Nat /\ MIN_ASSOC >= 1 /\ MIN_ASSOC % 2 = 0 /\ MAX_ASSOC \in Nat
      /\ MAX_ASSOC <= 8 * MIN_ASSOC + 2 /\ MAX_WAY_SIZE \in Nat /\ MAX_SIZE \in Nat
  BY ProbeAssumption
<1>3. IsWay(machine.way)
  <2>1. PICK n \in Doublings : machine.way = MIN_WAY_SIZE * n
    BY DEF Measurable
  <2>2. n \in Nat /\ n >= 1
    BY DEF Doublings
  <2>3. QED BY <2>1, <2>2 DEF IsWay
<1>4. \E n \in Nat : machine.ways = MIN_ASSOC + 2 * n
  BY <1>2 DEF Measurable
<1>5. QED BY <1>1, <1>2, <1>3, <1>4

LEMMA WayTypes ==
  ASSUME NEW w, IsWay(w)
  PROVE  w \in Nat /\ w >= 1
<1>1. PICK k \in Nat : k >= 1 /\ w = MIN_WAY_SIZE * k
  BY DEF IsWay
<1>2. MIN_WAY_SIZE \in Nat /\ MIN_WAY_SIZE >= 1
  BY ProbeAssumption
<1>3. 1 * k <= MIN_WAY_SIZE * k /\ MIN_WAY_SIZE * k \in Nat
  BY <1>2, ProductOrder
<1>4. QED BY <1>1, <1>3

(* A step shorter than a way, and one that is not.                                 *)
LEMMA ShortStep ==
  ASSUME Geometry, Measurable, NEW w, Aligned(w), w < machine.way
  PROVE  \E r \in Doublings : r \in Nat /\ r >= 2 /\ r % 2 = 0 /\ w * r = machine.way
<1>1. machine.way \in Nat /\ w \in Nat
  BY Machine, WayTypes DEF Aligned
<1>2. ASSUME NEW r \in Nat, r >= 1, w = machine.way * r PROVE FALSE
  <2>1. 1 * machine.way <= r * machine.way
    BY <1>1, <1>2, ProductOrder
  <2>2. r * machine.way = machine.way * r
    BY <1>1
  <2>3. QED BY <1>1, <1>2, <2>1, <2>2
<1>3. PICK r \in Doublings : w * r = machine.way
  BY <1>2 DEF Aligned
<1>4. r # 1
  <2>1. w * 1 = w
    BY <1>1
  <2>2. QED BY <1>1, <1>3, <2>1
<1>5. r \in Nat /\ r >= 2 /\ r % 2 = 0
  BY <1>4 DEF Doublings
<1>6. QED BY <1>3, <1>5

LEMMA LongStep ==
  ASSUME Geometry, Measurable, NEW w, Aligned(w), w >= machine.way
  PROVE  \E r \in Nat : r >= 1 /\ w = machine.way * r
<1>1. machine.way \in Nat /\ machine.way >= 1 /\ w \in Nat /\ w >= 1
  BY Machine, WayTypes DEF Aligned
<1>2. ASSUME NEW r \in Doublings, w * r = machine.way PROVE w = machine.way * 1
  <2>1. r \in Nat /\ r >= 1
    BY DEF Doublings
  <2>2. CASE r >= 2
    <3>1. 2 * w <= r * w /\ r * w = w * r
      BY <1>1, <2>1, <2>2, ProductOrder
    <3>2. QED BY <1>1, <1>2, <3>1
  <2>3. CASE r = 1
    BY <1>1, <1>2, <2>3
  <2>4. QED BY <2>1, <2>2, <2>3
<1>3. QED BY <1>2 DEF Aligned

(* What the lemmas about Ahead know of its products.                               *)
LEMMA Products ==
  ASSUME NEW a \in Nat, NEW way \in Nat, NEW w \in Nat, NEW p \in Nat, a >= 1, way >= 1, w >= 1
  PROVE  \E own, x, z, y \in Nat :
           /\ own = a * way /\ x = p * w /\ z = (p + 2) * w /\ y = a * w
           /\ x < z /\ (p = a => x = y) /\ (w = way => y = own) /\ (w > way => y > own)
<1>1. PICK own \in Nat, x \in Nat, z \in Nat, y \in Nat :
        own = a * way /\ x = p * w /\ z = (p + 2) * w /\ y = a * w
  <2>1. a * way \in Nat /\ p * w \in Nat /\ (p + 2) * w \in Nat /\ a * w \in Nat
    BY ProductOrder
  <2>2. QED BY <2>1
<1>2. x < z
  <2>1. (p + 2) * w = p * w + 2 * w
    OBVIOUS
  <2>2. QED BY <1>1, <2>1
<1>3. p = a => x = y
  BY <1>1
<1>4. w = way => y = own
  BY <1>1
<1>5. ASSUME w > way PROVE y > own
  <2>1. (way + 1) * a <= w * a /\ (way + 1) * a = a * way + a /\ w * a = a * w
    BY <1>5, ProductOrder
  <2>2. QED BY <1>1, <2>1
<1>6. QED BY <1>1, <1>2, <1>3, <1>4, <1>5

(* After a measurement with another one before it in the same way.                 *)
LEMMA AheadOfNext ==
  ASSUME NEW a \in Nat, NEW way \in Nat, NEW w \in Nat, NEW p \in Nat, a >= 1, way >= 1, w >= 1,
         NEW c, Ahead(c, a, way, w, p), NEW j \in BOOLEAN,
         NEW d, d = IF j THEN [c EXCEPT ![p * w] = c[p * w] + 1] ELSE c,
         w < way => /\ p * w < a * way => ~j /\ (p + 2) * w <= a * way
                    /\ p * w = a * way => j,
         w >= way => /\ p < a => ~j /\ p + 2 <= a
                     /\ p > a => ~j
                     /\ p = a /\ w = way => j
  PROVE  Ahead(d, a, way, w, p + 2)
<1>1. PICK own \in Nat, x \in Nat, z \in Nat, y \in Nat :
        /\ own = a * way /\ x = p * w /\ z = (p + 2) * w /\ y = a * w
        /\ x < z /\ (p = a => x = y) /\ (w = way => y = own) /\ (w > way => y > own)
  BY Products
<1>2. /\ c \in [Nat -> Nat]
      /\ \A size \in Nat : (size < own => c[size] = 0) /\ c[size] <= c[own]
      /\ w < way /\ x > own => \A size \in Nat : size >= x => c[size] < c[own]
      /\ w > way \/ (w = way /\ p > a) =>
           \A size \in Nat : size # own /\ (size > y \/ (size = y /\ p <= a)) => c[size] < c[own]
  BY <1>1 DEF Ahead
<1>3. /\ w < way => (x < own => ~j /\ z <= own) /\ (x = own => j)
      /\ w >= way => (p < a => ~j /\ p + 2 <= a) /\ (p > a => ~j) /\ (p = a /\ w = way => j)
  BY <1>1
<1>4. d = IF j THEN [c EXCEPT ![x] = c[x] + 1] ELSE c
  BY <1>1
<1>5. SUFFICES /\ d \in [Nat -> Nat]
               /\ \A size \in Nat : (size < own => d[size] = 0) /\ d[size] <= d[own]
               /\ w < way /\ z > own => \A size \in Nat : size >= z => d[size] < d[own]
               /\ w > way \/ (w = way /\ p + 2 > a) =>
                    \A size \in Nat :
                      size # own /\ (size > y \/ (size = y /\ p + 2 <= a)) => d[size] < d[own]
  BY <1>1 DEF Ahead
<1>6. CASE ~j
  <2>1. d = c
    BY <1>4, <1>6
  <2>2. w < way /\ z > own => x > own
    BY <1>3, <1>6
  <2>3. w = way /\ p + 2 > a => p > a
    BY <1>3, <1>6
  <2>4. QED BY <1>1, <1>2, <2>1, <2>2, <2>3
<1>7. CASE j
  <2>1. /\ d \in [Nat -> Nat] /\ d[x] = c[x] + 1
        /\ \A size \in Nat : size # x => d[size] = c[size]
    BY <1>2, <1>4, <1>7
  <2>2. \A size \in Nat : c[size] \in Nat
    BY <1>2
  <2>3. CASE w <= way /\ x = own
    <3>1. \A size \in Nat : size # own => d[size] < d[own]
      BY <1>2, <2>1, <2>2, <2>3
    <3>2. w < way => z > own
      BY <1>1, <2>3
    <3>3. QED BY <1>1, <1>2, <2>1, <2>2, <2>3, <3>1
  <2>4. CASE w < way /\ x > own
    <3>1. \A size \in Nat : size >= x => c[size] < c[own]
      BY <1>2, <2>4
    <3>2. d[own] = c[own] /\ d[x] <= d[own]
      BY <2>1, <2>2, <2>4, <3>1
    <3>3. \A size \in Nat : size >= z => d[size] < d[own]
      BY <1>1, <2>1, <3>1, <3>2
    <3>4. \A size \in Nat : (size < own => d[size] = 0) /\ d[size] <= d[own]
      BY <1>2, <2>1, <2>4, <3>2
    <3>5. QED BY <2>1, <2>4, <3>3, <3>4
  <2>5. CASE w > way
    <3>1. p = a /\ x = y /\ y > own
      BY <1>1, <1>3, <1>7, <2>5
    <3>2. \A size \in Nat : size >= y => c[size] < c[own]
      BY <1>2, <2>5, <3>1
    <3>3. d[own] = c[own] /\ d[x] <= d[own]
      BY <2>1, <2>2, <3>1, <3>2
    <3>4. \A size \in Nat : (size < own => d[size] = 0) /\ d[size] <= d[own]
      BY <1>2, <2>1, <3>1, <3>3
    <3>5. \A size \in Nat : size > y => d[size] < d[own]
      BY <2>1, <3>1, <3>2, <3>3
    <3>6. ~(p + 2 <= a) /\ ~(w < way)
      BY <2>5, <3>1
    <3>7. QED BY <2>1, <3>4, <3>5, <3>6
  <2>6. (w <= way /\ x = own) \/ (w < way /\ x > own) \/ w > way
    <3>1. CASE w < way
      BY <1>3, <1>7, <3>1
    <3>2. CASE w = way
      <4>1. p = a
        BY <1>3, <1>7, <3>2
      <4>2. QED BY <1>1, <3>2, <4>1
    <3>3. QED BY <3>1, <3>2
  <2>7. QED BY <2>3, <2>4, <2>5, <2>6
<1>8. QED BY <1>6, <1>7

(* With the next size of a way.                                                    *)
LEMMA AheadOfWay ==
  ASSUME NEW a \in Nat, NEW way \in Nat, NEW w \in Nat, NEW p \in Nat, a >= 1, way >= 1, w >= 1,
         NEW c, Ahead(c, a, way, w, p), NEW m \in Nat, m <= a,
         w < way => w * 2 <= way, w = way => p > a
  PROVE  Ahead(c, a, way, w * 2, m)
<1>1. PICK own \in Nat, y \in Nat, t \in Nat, s \in Nat :
        own = a * way /\ y = a * w /\ t = a * (w * 2) /\ s = m * (w * 2)
  <2>1. w * 2 \in Nat
    OBVIOUS
  <2>2. a * way \in Nat /\ a * w \in Nat /\ a * (w * 2) \in Nat /\ m * (w * 2) \in Nat
    BY <2>1, ProductOrder
  <2>3. QED BY <2>2
<1>2. s <= t
  BY <1>1, ProductOrder
<1>3. t > y
  <2>1. a * (w * 2) = a * w + a * w
    OBVIOUS
  <2>2. 1 * w <= a * w
    BY ProductOrder
  <2>3. QED BY <1>1, <2>1, <2>2
<1>4. w < way => t <= own
  <2> SUFFICES ASSUME w < way PROVE t <= own
    OBVIOUS
  <2>1. (w * 2) * a <= way * a /\ (w * 2) * a = a * (w * 2) /\ way * a = a * way
    BY ProductOrder
  <2>2. QED BY <1>1, <2>1
<1>5. /\ c \in [Nat -> Nat]
      /\ \A size \in Nat : (size < own => c[size] = 0) /\ c[size] <= c[own]
      /\ w > way \/ (w = way /\ p > a) =>
           \A size \in Nat : size # own /\ (size > y \/ (size = y /\ p <= a)) => c[size] < c[own]
  BY <1>1 DEF Ahead
<1>6. SUFFICES /\ w * 2 < way /\ s > own => \A size \in Nat : size >= s => c[size] < c[own]
               /\ w * 2 > way \/ (w * 2 = way /\ m > a) =>
                    \A size \in Nat :
                      size # own /\ (size > t \/ (size = t /\ m <= a)) => c[size] < c[own]
  BY <1>1, <1>5 DEF Ahead
<1>7. w * 2 < way => s <= own
  BY <1>2, <1>4
<1>8. w * 2 > way => w > way \/ (w = way /\ p > a)
  OBVIOUS
<1>9. QED BY <1>3, <1>5, <1>7, <1>8

LEMMA AheadAtFirst ==
  ASSUME NEW a \in Nat, NEW way \in Nat, NEW w \in Nat, NEW m \in Nat, m <= a, w <= way,
         NEW c, c = [size \in Nat |-> 0]
  PROVE  Ahead(c, a, way, w, m)
<1>1. PICK own \in Nat, y \in Nat, s \in Nat : own = a * way /\ y = a * w /\ s = m * w
  <2>1. a * way \in Nat /\ a * w \in Nat /\ m * w \in Nat
    BY ProductOrder
  <2>2. QED BY <2>1
<1>2. s <= y
  BY <1>1, ProductOrder
<1>3. y <= own
  <2>1. w * a <= way * a /\ w * a = a * w /\ way * a = a * way
    BY ProductOrder
  <2>2. QED BY <1>1, <2>1
<1>4. c \in [Nat -> Nat] /\ \A size \in Nat : c[size] = 0
  OBVIOUS
<1>5. ~(s > own)
  BY <1>2, <1>3
<1>6. QED BY <1>1, <1>4, <1>5 DEF Ahead

(* At the end of the epoch.                                                        *)
LEMMA AheadAtLast ==
  ASSUME NEW a \in Nat, NEW way \in Nat, NEW w \in Nat, NEW p \in Nat, a >= 1, way >= 1, w > way,
         NEW c, Ahead(c, a, way, w, p)
  PROVE  /\ a * way \in Nat /\ c[a * way] \in Nat /\ c[a * way] >= 1
         /\ \A size \in Nat : /\ c[size] \in Nat /\ c[size] <= c[a * way]
                              /\ c[size] = c[a * way] => size >= a * way
<1>1. PICK own \in Nat, y \in Nat : own = a * way /\ y = a * w /\ y > own
  BY Products
<1>2. /\ c \in [Nat -> Nat]
      /\ \A size \in Nat : (size < own => c[size] = 0) /\ c[size] <= c[own]
      /\ \A size \in Nat : size # own /\ (size > y \/ (size = y /\ p <= a)) => c[size] < c[own]
  BY <1>1 DEF Ahead
<1>3. c[y + 1] < c[own] /\ c[y + 1] \in Nat /\ c[own] \in Nat
  BY <1>1, <1>2
<1>4. c[own] >= 1
  BY <1>3
<1>5. \A size \in Nat : c[size] = c[own] => size >= own
  BY <1>2, <1>4
<1>6. QED BY <1>1, <1>2, <1>4, <1>5

(* A jump is counted at the size it tells.                                         *)
LEMMA JumpCounted ==
  ASSUME Measure, DOMAIN counter_for_cache \subseteq Nat, NEW x \in Nat, x = CacheSize,
         NEW j \in BOOLEAN, j <=> Jumped, NEW c, c = Jumps
  PROVE  /\ Jumps' = IF j THEN [c EXCEPT ![x] = c[x] + 1] ELSE c
         /\ DOMAIN counter_for_cache' \subseteq Nat
<1>1. c = [size \in Nat |-> IF size \in DOMAIN counter_for_cache THEN counter_for_cache[size] ELSE 0]
  BY DEF Jumps
<1>2. Jumps' = [size \in Nat |-> IF size \in DOMAIN counter_for_cache' THEN counter_for_cache'[size] ELSE 0]
  BY DEF Jumps
<1>3. CASE ~j
  <2>1. counter_for_cache' = counter_for_cache
    BY <1>3 DEF Measure
  <2>2. QED BY <1>1, <1>2, <1>3, <2>1
<1>4. CASE j
  <2>1. counter_for_cache' = Incremented(counter_for_cache, x)
    BY <1>4 DEF Measure
  <2>2. /\ DOMAIN counter_for_cache' = DOMAIN counter_for_cache \cup {x}
        /\ counter_for_cache'[x] = IF x \in DOMAIN counter_for_cache THEN counter_for_cache[x] + 1 ELSE 1
        /\ \A size \in DOMAIN counter_for_cache :
             size # x => counter_for_cache'[size] = counter_for_cache[size]
    BY <2>1 DEF Incremented, Plus
  <2>3. c[x] + 1 = counter_for_cache'[x]
    BY <1>1, <2>2
  <2>4. ASSUME NEW size \in Nat PROVE Jumps'[size] = [c EXCEPT ![x] = c[x] + 1][size]
    BY <1>1, <1>2, <2>2, <2>3
  <2>5. Jumps' = [c EXCEPT ![x] = c[x] + 1]
    BY <1>1, <1>2, <2>4
  <2>6. QED BY <1>4, <2>2, <2>5
<1>5. QED BY <1>3, <1>4

(* And the associativity before it is noted there.                                 *)
LEMMA JumpNoted ==
  ASSUME Measure, NEW x, x = CacheSize
  PROVE  /\ Jumped => x \in DOMAIN min_assoc_for_cache' /\ min_assoc_for_cache'[x] = prev_assoc
         /\ \A size \in DOMAIN min_assoc_for_cache :
              ~Jumped \/ size # x =>
                /\ size \in DOMAIN min_assoc_for_cache'
                /\ min_assoc_for_cache'[size] = min_assoc_for_cache[size]
<1>1. CASE Jumped
  BY <1>1 DEF Measure, Plus
<1>2. CASE ~Jumped
  <2>1. min_assoc_for_cache' = min_assoc_for_cache
    BY <1>2 DEF Measure
  <2>2. QED BY <1>2, <2>1
<1>3. QED BY <1>1, <1>2

(* The measurements of an epoch in which nothing else runs.                        *)
Undisturbed == measurements' = Plus(measurements, assoc, Time(assoc, way_size))

LEMMA JumpIs ==
  ASSUME EpochInv, Undisturbed, assoc # MIN_ASSOC, MIN_ASSOC \in Nat
  PROVE  /\ assoc = prev_assoc + 2 /\ prev_assoc \in Nat
         /\ Jumped <=> Slower(Time(prev_assoc + 2, way_size), Time(prev_assoc, way_size))
<1>1. assoc = prev_assoc + 2 /\ prev_assoc \in Nat /\ measurements[prev_assoc] = Time(prev_assoc, way_size)
  BY DEF EpochInv
<1>2. measurements'[assoc] = Time(assoc, way_size)
  BY DEF Undisturbed, Plus
<1>3. QED BY <1>1, <1>2 DEF Jumped

LEMMA JumpsAtLong ==
  ASSUME Geometry, Measurable, NEW w, Aligned(w), w >= machine.way,
         NEW p \in Nat, NEW k \in Nat, p = MIN_ASSOC + 2 * k
  PROVE  /\ p < machine.ways => ~Slower(Time(p + 2, w), Time(p, w)) /\ p + 2 <= machine.ways
         /\ p > machine.ways => ~Slower(Time(p + 2, w), Time(p, w))
         /\ p = machine.ways /\ w = machine.way => Slower(Time(p + 2, w), Time(p, w))
<1>1. PICK n \in Nat, a \in Nat, m \in Nat : a = machine.ways /\ a = m + 2 * n /\ m = MIN_ASSOC /\ a >= 1
  BY Machine
<1>2. PICK r \in Nat : r >= 1 /\ w = machine.way * r
  BY LongStep
<1>3. IsWay(machine.way) /\ IsWay(w) /\ machine.way \in Nat
  BY Machine DEF Aligned
<1>4. \A s \in Nat : Time(s, w) = IF s > a THEN <<MissTime * s, s>> ELSE <<s, s>>
  BY <1>1, <1>2, <1>3, TimeOfWays
<1>5. p + 2 \in Nat
  OBVIOUS
<1>6. p < a => p + 2 <= a
  BY <1>1
<1>7. ASSUME p < a PROVE ~Slower(Time(p + 2, w), Time(p, w))
  <2>1. Time(p + 2, w) = <<p + 2, p + 2>> /\ Time(p, w) = <<p, p>>
    BY <1>1, <1>4, <1>5, <1>6, <1>7
  <2>2. ~Slower(<<p + 2, p + 2>>, <<p, p>>)
    BY <1>5, NotSlower
  <2>3. QED BY <2>1, <2>2
<1>8. ASSUME p > a PROVE ~Slower(Time(p + 2, w), Time(p, w))
  <2>1. Time(p + 2, w) = <<MissTime * (p + 2), p + 2>> /\ Time(p, w) = <<MissTime * p, p>>
    BY <1>1, <1>4, <1>5, <1>8
  <2>2. ~Slower(<<MissTime * (p + 2), p + 2>>, <<MissTime * p, p>>)
    BY <1>5, NotSlower
  <2>3. QED BY <2>1, <2>2
<1>9. ASSUME p = a, w = machine.way PROVE Slower(Time(p + 2, w), Time(p, w))
  <2>1. w * 1 = machine.way
    BY <1>3, <1>9
  <2>2. 1 * a = a /\ p + 2 > 1 * a
    BY <1>9
  <2>3. PICK c \in Nat : c > a /\ Time(p + 2, w) = <<p + 2 + (MissTime - 1) * c, p + 2>>
    BY <1>1, <1>3, <1>5, <2>1, <2>2, TimeBeyond
  <2>4. Time(p, w) = <<p, p>>
    <3>1. ~(p > a)
      BY <1>9
    <3>2. QED BY <1>4, <3>1
  <2>5. Slower(<<1 * a + 2 + (MissTime - 1) * c, 1 * a + 2>>, <<1 * a, 1 * a>>)
    BY <1>1, <2>3, FirstSlower
  <2>6. QED BY <1>9, <2>2, <2>3, <2>4, <2>5
<1>10. QED BY <1>1, <1>6, <1>7, <1>8, <1>9

LEMMA JumpsAtShort ==
  ASSUME Geometry, Measurable, NEW w, Aligned(w), w < machine.way,
         NEW p \in Nat, NEW k \in Nat, p = MIN_ASSOC + 2 * k, p + 2 < MAX_ASSOC
  PROVE  /\ p * w < machine.ways * machine.way =>
              /\ ~Slower(Time(p + 2, w), Time(p, w))
              /\ (p + 2) * w <= machine.ways * machine.way
         /\ p * w = machine.ways * machine.way => Slower(Time(p + 2, w), Time(p, w))
<1>1. PICK n \in Nat, a \in Nat, m \in Nat, way \in Nat :
        /\ a = machine.ways /\ a = m + 2 * n /\ m = MIN_ASSOC /\ a >= 1 /\ m % 2 = 0
        /\ way = machine.way /\ way >= 1 /\ MAX_ASSOC \in Nat /\ MAX_ASSOC <= 8 * m + 2
  BY Machine
<1>2. PICK r \in Doublings : r \in Nat /\ r >= 2 /\ r % 2 = 0 /\ w * r = way
  BY <1>1, ShortStep
<1>3. IsWay(machine.way) /\ IsWay(w) /\ w \in Nat /\ w >= 1
  BY Machine, WayTypes DEF Aligned
<1>4. PICK b \in Nat : b = r * a
  BY <1>2, ProductOrder
<1>5. a * way = b * w
  <2>1. a * (w * r) = (r * a) * w
    BY <1>2, <1>3
  <2>2. QED BY <1>2, <1>4, <2>1
<1>6. p < b => p + 2 <= b
  <2>1. PICK q \in Nat, h \in Nat : r = 2 * q /\ m = 2 * h
    <3>1. r = 2 * (r \div 2) /\ m = 2 * (m \div 2) /\ r \div 2 \in Nat /\ m \div 2 \in Nat
      BY <1>1, <1>2
    <3>2. QED BY <3>1
  <2>2. PICK t \in Nat : t = q * a
    BY ProductOrder
  <2>3. b = 2 * t
    <3>1. (2 * q) * a = 2 * (q * a)
      OBVIOUS
    <3>2. QED BY <1>4, <2>1, <2>2, <3>1
  <2>4. p = 2 * (h + k)
    BY <1>1, <2>1
  <2>5. QED BY <2>3, <2>4
<1>7. p + 2 \in Nat
  OBVIOUS
<1>8. r \in Nat /\ r >= 1
  BY <1>2
<1>9. w * r = machine.way
  BY <1>1, <1>2
<1>10. ASSUME NEW s \in Nat, s <= b PROVE Time(s, w) = <<s, s>>
  <2>1. s <= r * machine.ways
    BY <1>1, <1>4, <1>10
  <2>2. QED BY <1>3, <1>8, <1>9, <2>1, TimeWithin
<1>11. ASSUME NEW s \in Nat, s > b
       PROVE  \E c \in Nat : c > machine.ways /\ Time(s, w) = <<s + (MissTime - 1) * c, s>>
  <2>1. s > r * machine.ways
    BY <1>1, <1>4, <1>11
  <2>2. QED BY <1>3, <1>8, <1>9, <2>1, TimeBeyond
<1>12. ASSUME p * w < a * way PROVE ~Slower(Time(p + 2, w), Time(p, w)) /\ (p + 2) * w <= a * way
  <2>1. p < b
    <3>1. b <= p => b * w <= p * w
      BY <1>3, ProductOrder
    <3>2. p * w \in Nat /\ b * w \in Nat
      BY <1>3, ProductOrder
    <3>3. QED BY <1>5, <1>12, <3>1, <3>2
  <2>2. p + 2 <= b
    BY <1>6, <2>1
  <2>3. (p + 2) * w <= b * w
    BY <1>3, <1>7, <2>2, ProductOrder
  <2>4. Time(p + 2, w) = <<p + 2, p + 2>>
    BY <1>7, <1>10, <2>2
  <2>5. Time(p, w) = <<p, p>>
    BY <1>10, <2>1
  <2>6. ~Slower(<<p + 2, p + 2>>, <<p, p>>)
    BY <1>7, NotSlower
  <2>7. QED BY <1>5, <2>3, <2>4, <2>5, <2>6
<1>13. ASSUME p * w = a * way PROVE Slower(Time(p + 2, w), Time(p, w))
  <2>1. p = b
    <3>1. w * p = w * b
      BY <1>3, <1>5, <1>13
    <3>2. QED BY <1>3, <3>1, Cancelled
  <2>2. r < 8
    <3>1. p < 8 * a
      BY <1>1
    <3>2. 8 <= r => 8 * a <= r * a
      BY <1>2, ProductOrder
    <3>3. QED BY <1>2, <1>4, <2>1, <3>1, <3>2
  <2>3. r \in {1, 2, 4}
    BY <2>2 DEF Doublings
  <2>4. PICK c \in Nat : c > a /\ Time(p + 2, w) = <<p + 2 + (MissTime - 1) * c, p + 2>>
    <3>1. p + 2 > b
      BY <2>1
    <3>2. QED BY <1>1, <1>7, <1>11, <3>1
  <2>5. Time(p, w) = <<p, p>>
    BY <1>10, <2>1
  <2>6. Slower(<<r * a + 2 + (MissTime - 1) * c, r * a + 2>>, <<r * a, r * a>>)
    BY <1>1, <1>2, <2>3, <2>4, FirstSlower
  <2>7. QED BY <1>4, <2>1, <2>4, <2>5, <2>6
<1>14. QED BY <1>1, <1>12, <1>13

LEMMA MeasureKeeps ==
  ASSUME Geometry, Measurable, EpochInv, Measure, Undisturbed
  PROVE  EpochInv'
<1>1. PICK a \in Nat, way \in Nat, w \in Nat, p \in Nat, c \in {Jumps} :
        /\ a = machine.ways /\ way = machine.way /\ w = way_size /\ p = prev_assoc /\ c = Jumps
        /\ a >= 1 /\ way >= 1 /\ w >= 1 /\ MIN_ASSOC \in Nat
  <2>1. MIN_ASSOC \in Nat /\ machine.ways \in Nat /\ machine.way \in Nat /\ machine.ways >= 1 /\ machine.way >= 1
    BY Machine
  <2>2. way_size \in Nat /\ way_size >= 1
    BY WayTypes DEF EpochInv, Aligned
  <2>3. prev_assoc \in Nat
    BY <2>1 DEF EpochInv
  <2>4. QED BY <2>1, <2>2, <2>3
<1>2. /\ machine' = machine /\ way_size' = way_size /\ prev_assoc' = assoc /\ assoc' = assoc + 2
      /\ assoc < MAX_ASSOC
  BY DEF Measure, InRange
<1>3. Aligned(w) /\ Aligned(way_size)'
  BY <1>1, <1>2 DEF EpochInv, Aligned, IsWay
<1>4. PICK k \in Nat : p = MIN_ASSOC + 2 * k
  BY <1>1 DEF EpochInv
<1>5. \E n \in Nat : prev_assoc' = MIN_ASSOC + 2 * n
  <2>1. CASE assoc = MIN_ASSOC
    BY <1>1, <1>2, <1>4, <2>1 DEF EpochInv
  <2>2. CASE assoc = p + 2
    <3>1. p + 2 = MIN_ASSOC + 2 * (k + 1)
      BY <1>1, <1>4
    <3>2. k + 1 \in Nat /\ prev_assoc' = p + 2
      BY <1>2, <2>2
    <3>3. QED BY <3>1, <3>2
  <2>3. QED BY <1>1, <2>1, <2>2 DEF EpochInv
<1>6. prev_assoc' \in DOMAIN measurements' /\ measurements'[prev_assoc'] = Time(prev_assoc, way_size)'
  <2>1. PICK t : t = assoc
    OBVIOUS
  <2>2. Time(t, w)' = Time(t, w)
    BY <1>2, SameMachine DEF Time
  <2>3. assoc \in DOMAIN measurements' /\ measurements'[assoc] = Time(assoc, way_size)
    BY DEF Undisturbed, Plus
  <2>4. Time(prev_assoc, way_size)' = Time(t, w)'
    BY <1>1, <1>2, <2>1
  <2>5. QED BY <1>1, <1>2, <2>1, <2>2, <2>3, <2>4
<1>7. PICK x \in Nat : x = p * w /\ x = CacheSize
  <2>1. p * w \in Nat
    BY ProductOrder
  <2>2. QED BY <1>1, <2>1 DEF CacheSize
<1>8. PICK j \in BOOLEAN : j <=> Jumped
  OBVIOUS
<1>9. Ahead(c, a, way, w, p) /\ DOMAIN counter_for_cache \subseteq Nat
  BY <1>1 DEF EpochInv
<1>10. PICK d : /\ d = Jumps' /\ d = (IF j THEN [c EXCEPT ![x] = c[x] + 1] ELSE c)
                /\ DOMAIN counter_for_cache' \subseteq Nat
  BY <1>1, <1>7, <1>8, <1>9, JumpCounted
<1>11. Right' = Right /\ Right = a * way
  BY <1>1, <1>2 DEF Right
<1>12. SUFFICES /\ Ahead(d, a, way, w, prev_assoc')
                /\ Past' => /\ Right \in DOMAIN min_assoc_for_cache'
                            /\ min_assoc_for_cache'[Right] = a
  BY <1>1, <1>2, <1>3, <1>5, <1>6, <1>10, <1>11 DEF EpochInv
<1>13. Past' <=> (w > way \/ (w = way /\ prev_assoc' > a))
  BY <1>1, <1>2 DEF Past
<1>14. Past <=> (w > way \/ (w = way /\ p > a))
  BY <1>1 DEF Past
<1>15. /\ Jumped => x \in DOMAIN min_assoc_for_cache' /\ min_assoc_for_cache'[x] = p
       /\ Past /\ (~Jumped \/ x # Right) =>
            Right \in DOMAIN min_assoc_for_cache' /\ min_assoc_for_cache'[Right] = a
  BY <1>1, <1>7, JumpNoted DEF EpochInv
<1>16. CASE assoc = MIN_ASSOC
  <2>1. prev_assoc' = p /\ ~Jumped
    BY <1>1, <1>2, <1>16 DEF EpochInv, Jumped
  <2>2. d = c
    BY <1>8, <1>10, <2>1
  <2>3. QED BY <1>9, <1>13, <1>14, <1>15, <2>1, <2>2
<1>17. CASE assoc # MIN_ASSOC
  <2>1. prev_assoc' = p + 2 /\ p + 2 < MAX_ASSOC /\ (j <=> Slower(Time(p + 2, w), Time(p, w)))
    BY <1>1, <1>2, <1>8, <1>17, JumpIs
  <2>2. w < way => /\ p * w < a * way => ~j /\ (p + 2) * w <= a * way
                   /\ p * w = a * way => j
    BY <1>1, <1>3, <1>4, <2>1, JumpsAtShort
  <2>3. w >= way => /\ p < a => ~j /\ p + 2 <= a
                    /\ p > a => ~j
                    /\ p = a /\ w = way => j
    BY <1>1, <1>3, <1>4, <2>1, JumpsAtLong
  <2>4. d = (IF j THEN [c EXCEPT ![p * w] = c[p * w] + 1] ELSE c)
    BY <1>7, <1>10
  <2>5. Ahead(d, a, way, w, p + 2)
    BY <1>1, <1>9, <2>2, <2>3, <2>4, AheadOfNext
  <2>6. ASSUME Past' PROVE Right \in DOMAIN min_assoc_for_cache' /\ min_assoc_for_cache'[Right] = a
    <3>1. CASE w > way
      <4>1. j => x # Right
        <5>1. j => p = a
          BY <2>3, <3>1
        <5>2. a * w # a * way
          BY <1>1, <3>1, Products
        <5>3. QED BY <1>7, <1>11, <5>1, <5>2
      <4>2. QED BY <1>8, <1>14, <1>15, <3>1, <4>1
    <3>2. CASE w = way /\ p = a
      BY <1>7, <1>8, <1>11, <1>15, <2>3, <3>2
    <3>3. CASE w = way /\ p > a
      BY <1>8, <1>14, <1>15, <2>3, <3>3
    <3>4. w > way \/ (w = way /\ p = a) \/ (w = way /\ p > a)
      BY <1>13, <2>1, <2>3, <2>6
    <3>5. QED BY <3>1, <3>2, <3>3, <3>4
  <2>7. QED BY <2>1, <2>5, <2>6
<1>18. QED BY <1>16, <1>17

LEMMA NextWayKeeps ==
  ASSUME Geometry, Measurable, EpochInv, NextWay
  PROVE  EpochInv'
<1>1. PICK a \in Nat, way \in Nat, w \in Nat, p \in Nat, m \in Nat, c \in {Jumps} :
        /\ a = machine.ways /\ way = machine.way /\ w = way_size /\ p = prev_assoc /\ c = Jumps
        /\ a >= 1 /\ way >= 1 /\ w >= 1 /\ m = MIN_ASSOC /\ m <= a
  <2>1. /\ MIN_ASSOC \in Nat /\ machine.ways \in Nat /\ machine.way \in Nat
        /\ machine.ways >= 1 /\ machine.way >= 1 /\ MIN_ASSOC <= machine.ways
    BY Machine
  <2>2. way_size \in Nat /\ way_size >= 1
    BY WayTypes DEF EpochInv, Aligned
  <2>3. prev_assoc \in Nat
    BY <2>1 DEF EpochInv
  <2>4. QED BY <2>1, <2>2, <2>3
<1>2. /\ machine' = machine /\ way_size' = w * 2 /\ prev_assoc' = m /\ assoc' = m
      /\ counter_for_cache' = counter_for_cache /\ min_assoc_for_cache' = min_assoc_for_cache
      /\ ~InRange
  BY <1>1 DEF NextWay
<1>3. Aligned(w)
  BY <1>1 DEF EpochInv
<1>4. IsWay(w * 2)
  <2>1. PICK k \in Nat : k >= 1 /\ w = MIN_WAY_SIZE * k
    BY <1>3 DEF Aligned, IsWay
  <2>2. (MIN_WAY_SIZE * k) * 2 = MIN_WAY_SIZE * (k * 2)
    BY Machine
  <2>3. k * 2 \in Nat /\ k * 2 >= 1
    BY <2>1
  <2>4. QED BY <2>1, <2>2, <2>3 DEF IsWay
<1>5. w < way => w * 2 <= way /\ \E r \in Doublings : (w * 2) * r = way
  <2> SUFFICES ASSUME w < way PROVE w * 2 <= way /\ \E r \in Doublings : (w * 2) * r = way
    OBVIOUS
  <2>1. PICK r \in Doublings : r \in Nat /\ r >= 2 /\ w * r = way
    BY <1>1, <1>3, ShortStep
  <2>2. PICK q \in Doublings : r = 2 * q
    BY <2>1 DEF Doublings
  <2>3. q \in Nat
    BY DEF Doublings
  <2>4. (w * 2) * q = w * (2 * q)
    BY <2>3
  <2>5. 2 * w <= r * w /\ r * w = w * r
    BY <2>1, ProductOrder
  <2>6. QED BY <2>1, <2>2, <2>4, <2>5
<1>6. w >= way => \E r \in Nat : r >= 1 /\ w * 2 = way * r
  <2> SUFFICES ASSUME w >= way PROVE \E r \in Nat : r >= 1 /\ w * 2 = way * r
    OBVIOUS
  <2>1. PICK r \in Nat : r >= 1 /\ w = way * r
    BY <1>1, <1>3, LongStep
  <2>2. (way * r) * 2 = way * (r * 2)
    OBVIOUS
  <2>3. r * 2 \in Nat /\ r * 2 >= 1
    BY <2>1
  <2>4. QED BY <2>1, <2>2, <2>3
<1>7. Aligned(way_size)'
  <2>1. w < way \/ w >= way
    OBVIOUS
  <2>2. IsWay(way_size)'
    BY <1>2, <1>4 DEF IsWay
  <2>3. QED BY <1>1, <1>2, <1>5, <1>6, <2>1, <2>2 DEF Aligned
<1>8. w = way => p > a
  <2> SUFFICES ASSUME w = way, ~(p > a) PROVE FALSE
    OBVIOUS
  <2>1. assoc \in Nat /\ assoc <= a + 2
    BY <1>1 DEF EpochInv
  <2>2. /\ a + 2 \in Nat /\ a + 2 < MAX_ASSOC /\ (a + 2) * way < sizeof * MAX_SIZE
        /\ MAX_ASSOC \in Nat /\ MAX_SIZE \in Nat
    BY <1>1, Machine DEF Measurable
  <2>3. assoc * way <= (a + 2) * way /\ assoc * way \in Nat /\ (a + 2) * way \in Nat
    BY <2>1, <2>2, ProductOrder
  <2>4. PICK t \in Nat, u \in Nat : t = assoc * way /\ u = (a + 2) * way
    BY <2>3
  <2>5. t < sizeof * MAX_SIZE
    BY <2>2, <2>3, <2>4 DEF sizeof
  <2>6. InRange
    BY <1>1, <2>1, <2>2, <2>4, <2>5 DEF InRange
  <2>7. QED BY <1>2, <2>6
<1>9. Jumps' = c
  BY <1>1, <1>2 DEF Jumps
<1>10. Ahead(c, a, way, w, p)
  BY <1>1 DEF EpochInv
<1>11. Ahead(c, a, way, w * 2, m)
  BY <1>1, <1>5, <1>8, <1>10, AheadOfWay
<1>12. Past' => Past
  BY <1>1, <1>2, <1>5, <1>8 DEF Past
<1>13. Right' = Right
  BY <1>2 DEF Right
<1>14. prev_assoc' = MIN_ASSOC + 2 * 0
  BY <1>1, <1>2
<1>15. QED
  BY <1>1, <1>2, <1>7, <1>9, <1>11, <1>12, <1>13, <1>14 DEF EpochInv

(* The smallest size of a way is where an epoch starts.                            *)
LEMMA Smallest ==
  ASSUME Geometry, Measurable, NEW w, w = MIN_WAY_SIZE
  PROVE  /\ IsWay(w) /\ Aligned(w) /\ MIN_ASSOC = MIN_ASSOC + 2 * 0
         /\ ~(w > machine.way) /\ ~(MIN_ASSOC > machine.ways)
         /\ Ahead([size \in Nat |-> 0], machine.ways, machine.way, w, MIN_ASSOC)
<1>1. PICK a \in Nat, way \in Nat, v \in Nat, m \in Nat :
        /\ a = machine.ways /\ way = machine.way /\ v = MIN_WAY_SIZE /\ m = MIN_ASSOC /\ m <= a
        /\ v >= 1
  BY Machine
<1>2. PICK n \in Doublings : way = v * n
  BY <1>1 DEF Measurable
<1>3. n \in Nat /\ n >= 1
  BY DEF Doublings
<1>4. v = v * 1
  OBVIOUS
<1>5. IsWay(w) /\ Aligned(w)
  BY <1>1, <1>2, <1>4 DEF Aligned, IsWay
<1>6. v <= way
  <2>1. 1 * v <= n * v /\ n * v = v * n /\ 1 * v = v
    BY <1>3, ProductOrder
  <2>2. QED BY <1>2, <2>1
<1>7. Ahead([size \in Nat |-> 0], a, way, v, m)
  BY <1>1, <1>6, AheadAtFirst
<1>8. QED BY <1>1, <1>5, <1>6, <1>7

(* The answer of such an epoch.                                                    *)
LEMMA AnswerIsRight ==
  ASSUME Geometry, Measurable, EpochInv, way_size >= MAX_WAY_SIZE
  PROVE  Answer = <<Right, machine.ways, 0>>
<1>1. PICK a \in Nat, way \in Nat, w \in Nat, p \in Nat, own \in Nat, c \in {Jumps} :
        /\ a = machine.ways /\ way = machine.way /\ w = way_size /\ p = prev_assoc /\ c = Jumps
        /\ a >= 1 /\ way >= 1 /\ w > way /\ own = a * way /\ own = Right
  <2>1. /\ MIN_ASSOC \in Nat /\ machine.ways \in Nat /\ machine.way \in Nat
        /\ machine.ways >= 1 /\ machine.way >= 1 /\ MAX_WAY_SIZE \in Nat
    BY Machine
  <2>2. way_size \in Nat /\ way_size > machine.way
    BY <2>1, WayTypes DEF EpochInv, Aligned, Measurable
  <2>3. prev_assoc \in Nat
    BY <2>1 DEF EpochInv
  <2>4. machine.ways * machine.way \in Nat
    BY <2>1, ProductOrder
  <2>5. QED BY <2>1, <2>2, <2>3, <2>4 DEF Right
<1>2. Ahead(c, a, way, w, p)
  BY <1>1 DEF EpochInv
<1>3. /\ c[own] \in Nat /\ c[own] >= 1
      /\ \A size \in Nat : c[size] \in Nat /\ c[size] <= c[own] /\ (c[size] = c[own] => size >= own)
  <2>1. a >= 1 /\ way >= 1 /\ w > way
    BY <1>1
  <2>2. /\ c[a * way] \in Nat /\ c[a * way] >= 1
        /\ \A size \in Nat : /\ c[size] \in Nat /\ c[size] <= c[a * way]
                             /\ c[size] = c[a * way] => size >= a * way
    BY <1>2, <2>1, AheadAtLast
  <2>3. own = a * way
    BY <1>1
  <2>4. QED BY <2>2, <2>3
<1>4. DOMAIN counter_for_cache \subseteq Nat
  BY DEF EpochInv
<1>5. \A size \in DOMAIN counter_for_cache : counter_for_cache[size] = c[size]
  BY <1>1, <1>4 DEF Jumps
<1>6. own \in DOMAIN counter_for_cache
  BY <1>1, <1>3 DEF Jumps
<1>7. PICK most : most = {s \in DOMAIN counter_for_cache :
                            \A k \in DOMAIN counter_for_cache : counter_for_cache[k] <= counter_for_cache[s]}
  OBVIOUS
<1>8. own \in most
  BY <1>3, <1>4, <1>5, <1>6, <1>7
<1>9. ASSUME NEW s \in most PROVE s \in Nat /\ s >= own
  <2>1. s \in DOMAIN counter_for_cache /\ s \in Nat /\ counter_for_cache[own] <= counter_for_cache[s]
    BY <1>4, <1>6, <1>7
  <2>2. c[own] <= c[s]
    BY <1>5, <1>6, <2>1
  <2>3. c[s] = c[own]
    BY <1>3, <2>1, <2>2
  <2>4. QED BY <1>3, <2>1, <2>3
<1>10. Min(most) = own
  <2>1. \A s \in most : (\A t \in most : s <= t) <=> s = own
    BY <1>8, <1>9
  <2>2. QED BY <1>8, <2>1 DEF Min
<1>11. min_assoc_for_cache[own] = a
  BY <1>1 DEF EpochInv, Past
<1>12. most # {}
  BY <1>8
<1>13. QED BY <1>1, <1>7, <1>10, <1>11, <1>12 DEF Answer

-----------------------------------------------------------------------------------
(* The answers of the epochs.  An epoch without disturbance gives the right one, so*)
(* no other is given by more epochs than there were disturbances.                  *)

RightAnswer == <<Right, machine.ways, 0>>

(* wrong of n answers may be wrong.                                                *)
Tally(map, n, wrong) ==
  /\ \A a \in DOMAIN map : map[a] \in Nat /\ (a # RightAnswer => map[a] <= wrong)
  /\ IF RightAnswer \in DOMAIN map THEN map[RightAnswer] + wrong = n ELSE wrong = n

EpochsInv ==
  /\ epoch \in Nat /\ epoch < EPOCHS /\ disturbed \in Nat /\ disturbed <= Disturbances
  /\ \E wrong \in Nat : /\ wrong <= disturbed /\ Tally(counter, epoch, wrong)
                        /\ wrong = disturbed => EpochInv

IsFound(a) == \E line \in Nat : a = <<Right, machine.ways, line>>

FoundInv == IsFound(result) /\ \A a \in DOMAIN counter : IsFound(a)

ProbeInv ==
  /\ Geometry /\ cache_line \in Nat
  /\ Measurable => IF phase = "size" THEN EpochsInv ELSE FoundInv

LEMMA ProbeStarts == Geometry /\ ProbeInit => ProbeInv
<1> SUFFICES ASSUME Geometry, ProbeInit, Measurable PROVE EpochsInv
  BY ProbeAssumption DEF ProbeInv, ProbeInit
<1>1. /\ epoch = 0 /\ counter = <<>> /\ disturbed = 0 /\ way_size = MIN_WAY_SIZE
      /\ assoc = MIN_ASSOC /\ prev_assoc = MIN_ASSOC /\ counter_for_cache = <<>>
  BY DEF ProbeInit
<1>2. Jumps = [size \in Nat |-> 0]
  BY <1>1 DEF Jumps
<1>3. EpochInv
  <2>1. /\ Aligned(way_size) /\ prev_assoc = MIN_ASSOC + 2 * 0
        /\ Ahead(Jumps, machine.ways, machine.way, way_size, prev_assoc)
        /\ ~(way_size > machine.way) /\ ~(prev_assoc > machine.ways)
    BY <1>1, <1>2, Smallest
  <2>2. DOMAIN counter_for_cache \subseteq Nat
    BY <1>1
  <2>3. QED BY <1>1, <2>1, <2>2 DEF EpochInv, Past
<1>4. Tally(counter, epoch, 0)
  BY <1>1 DEF Tally
<1>5. EPOCHS \in Nat /\ Disturbances \in Nat /\ EPOCHS > 2 * Disturbances
  BY ProbeAssumption
<1>6. QED BY <1>1, <1>3, <1>4, <1>5 DEF EpochsInv

(* A change of nothing but the state of an epoch.                                  *)
LEMMA WithinEpoch ==
  ASSUME Geometry, Measurable, EpochsInv, Measure \/ NextWay
  PROVE  EpochsInv'
<1>1. PICK wrong \in Nat : /\ wrong <= disturbed /\ Tally(counter, epoch, wrong)
                           /\ wrong = disturbed => EpochInv
  BY DEF EpochsInv
<1>2. machine' = machine /\ counter' = counter /\ epoch' = epoch
  BY DEF Measure, NextWay
<1>3. Tally(counter, epoch, wrong)'
  <2>1. RightAnswer' = RightAnswer
    BY <1>2 DEF RightAnswer, Right
  <2>2. QED BY <1>1, <1>2, <2>1 DEF Tally
<1>4. epoch \in Nat /\ epoch < EPOCHS /\ disturbed \in Nat /\ disturbed <= Disturbances /\ Disturbances \in Nat
  BY ProbeAssumption DEF EpochsInv
<1>5. CASE Measure
  <2>1. \/ Undisturbed /\ disturbed' = disturbed
        \/ disturbed < Disturbances /\ disturbed' = disturbed + 1
    BY <1>5 DEF Measure, Noisy, Undisturbed
  <2>2. CASE Undisturbed /\ disturbed' = disturbed
    <3>1. wrong = disturbed' => EpochInv'
      BY <1>1, <1>5, <2>2, MeasureKeeps
    <3>2. QED BY <1>1, <1>2, <1>3, <1>4, <2>2, <3>1 DEF EpochsInv
  <2>3. CASE disturbed < Disturbances /\ disturbed' = disturbed + 1
    <3>1. wrong <= disturbed' /\ wrong # disturbed' /\ disturbed' \in Nat /\ disturbed' <= Disturbances
      BY <1>1, <1>4, <2>3
    <3>2. QED BY <1>2, <1>3, <1>4, <3>1 DEF EpochsInv
  <2>4. QED BY <2>1, <2>2, <2>3
<1>6. CASE NextWay
  <2>1. disturbed' = disturbed
    BY <1>6 DEF NextWay
  <2>2. wrong = disturbed' => EpochInv'
    BY <1>1, <1>6, <2>1, NextWayKeeps
  <2>3. QED BY <1>1, <1>2, <1>3, <1>4, <2>1, <2>2 DEF EpochsInv
<1>7. QED BY <1>5, <1>6

LEMMA AnswerCounted ==
  ASSUME NEW map, NEW n \in Nat, NEW wrong \in Nat, Tally(map, n, wrong), NEW answer,
         NEW v \in Nat, v = IF answer = RightAnswer THEN wrong ELSE wrong + 1
  PROVE  Tally(Incremented(map, answer), n + 1, v)
<1>1. PICK all : all = Incremented(map, answer)
  OBVIOUS
<1>2. /\ DOMAIN all = DOMAIN map \cup {answer}
      /\ all[answer] = IF answer \in DOMAIN map THEN map[answer] + 1 ELSE 1
      /\ \A a \in DOMAIN map : a # answer => all[a] = map[a]
  BY <1>1 DEF Incremented, Plus
<1>3. PICK right : right = RightAnswer
  OBVIOUS
<1>4. /\ \A a \in DOMAIN map : map[a] \in Nat /\ (a # right => map[a] <= wrong)
      /\ IF right \in DOMAIN map THEN map[right] + wrong = n ELSE wrong = n
  BY <1>3 DEF Tally
<1>5. \A a \in DOMAIN all : all[a] \in Nat /\ (a # right => all[a] <= v)
  BY <1>2, <1>3, <1>4
<1>6. CASE answer = right
  <2>1. right \in DOMAIN all /\ v = wrong
    BY <1>2, <1>3, <1>6
  <2>2. all[right] + v = n + 1
    BY <1>2, <1>4, <1>6, <2>1
  <2>3. QED BY <1>1, <1>3, <1>5, <2>1, <2>2 DEF Tally
<1>7. CASE answer # right
  <2>1. v = wrong + 1 /\ (right \in DOMAIN all <=> right \in DOMAIN map)
    BY <1>2, <1>3, <1>7
  <2>2. IF right \in DOMAIN all THEN all[right] + v = n + 1 ELSE v = n + 1
    BY <1>2, <1>4, <1>7, <2>1
  <2>3. QED BY <1>1, <1>3, <1>5, <2>2 DEF Tally
<1>8. QED BY <1>6, <1>7

(* Most epochs gave the right answer.                                              *)
LEMMA MajorityWins ==
  ASSUME NEW map, NEW wrong \in Nat, wrong <= Disturbances, Tally(map, EPOCHS, wrong)
  PROVE  MostFrequent(map) = RightAnswer
<1>1. PICK n \in Nat, d \in Nat, right \in {RightAnswer} : n = EPOCHS /\ d = Disturbances /\ n > 2 * d /\ right = RightAnswer
  BY ProbeAssumption
<1>2. /\ \A a \in DOMAIN map : map[a] \in Nat /\ (a # right => map[a] <= wrong)
      /\ IF right \in DOMAIN map THEN map[right] + wrong = n ELSE wrong = n
  BY <1>1 DEF Tally
<1>3. right \in DOMAIN map /\ map[right] \in Nat /\ map[right] > wrong
  <2>1. wrong # n
    BY <1>1
  <2>2. right \in DOMAIN map /\ map[right] + wrong = n /\ map[right] \in Nat
    BY <1>2, <2>1
  <2>3. QED BY <1>1, <2>2
<1>4. \A a \in DOMAIN map : a # right => map[a] \in Nat /\ map[a] < map[right]
  BY <1>2, <1>3
<1>5. PICK most : most = {a \in DOMAIN map : \A b \in DOMAIN map : map[b] <= map[a]}
  OBVIOUS
<1>6. most = {right}
  <2>1. right \in most
    BY <1>2, <1>3, <1>4, <1>5
  <2>2. \A a \in most : a = right
    BY <1>3, <1>4, <1>5
  <2>3. QED BY <2>1, <2>2
<1>7. (CHOOSE a \in most : \A b \in most \ {a} : Before(a, b)) = right
  BY <1>6
<1>8. QED BY <1>1, <1>5, <1>6, <1>7 DEF MostFrequent

LEMMA EndOfSizeEpochKeeps ==
  ASSUME Geometry, Measurable, EpochsInv, EndOfSizeEpoch
  PROVE  IF phase' = "size" THEN EpochsInv' ELSE FoundInv'
<1>1. PICK wrong \in Nat : /\ wrong <= disturbed /\ Tally(counter, epoch, wrong)
                           /\ wrong = disturbed => EpochInv
  BY DEF EpochsInv
<1>2. /\ epoch \in Nat /\ epoch < EPOCHS /\ disturbed \in Nat /\ disturbed <= Disturbances
      /\ EPOCHS \in Nat /\ Disturbances \in Nat
  BY ProbeAssumption DEF EpochsInv
<1>3. /\ machine' = machine /\ disturbed' = disturbed /\ way_size >= MAX_WAY_SIZE
      /\ epoch' = (epoch + 1) % EPOCHS
      /\ way_size' = MIN_WAY_SIZE /\ assoc' = MIN_ASSOC /\ prev_assoc' = MIN_ASSOC
      /\ counter_for_cache' = <<>>
  BY DEF EndOfSizeEpoch
<1>4. PICK v \in Nat : v = (IF Answer = RightAnswer THEN wrong ELSE wrong + 1)
  OBVIOUS
<1>5. v <= disturbed
  <2>1. CASE wrong = disturbed
    <3>1. Answer = RightAnswer
      BY <1>1, <1>3, <2>1, AnswerIsRight DEF RightAnswer
    <3>2. QED BY <1>1, <1>4, <3>1
  <2>2. CASE wrong # disturbed
    BY <1>1, <1>2, <1>4, <2>2
  <2>3. QED BY <2>1, <2>2
<1>6. PICK all : all = Incremented(counter, Answer)
  OBVIOUS
<1>7. Tally(all, epoch + 1, v)
  BY <1>1, <1>2, <1>4, <1>6, AnswerCounted
<1>8. Right' = Right /\ RightAnswer' = RightAnswer
  BY <1>3 DEF RightAnswer, Right
<1>9. CASE epoch + 1 = EPOCHS
  <2>1. phase' = "line" /\ result' = MostFrequent(all) /\ counter' = <<>>
    BY <1>6, <1>9 DEF EndOfSizeEpoch
  <2>2. v <= Disturbances
    BY <1>2, <1>5
  <2>3. MostFrequent(all) = RightAnswer
    BY <1>7, <1>9, <2>2, MajorityWins
  <2>4. result' = <<Right, machine.ways, 0>>
    BY <2>1, <2>3 DEF RightAnswer
  <2>5. IsFound(result)'
    BY <1>3, <1>8, <2>4 DEF IsFound
  <2>6. QED BY <2>1, <2>5 DEF FoundInv
<1>10. CASE epoch + 1 # EPOCHS
  <2>1. phase' = "size" /\ counter' = all
    BY <1>6, <1>10 DEF EndOfSizeEpoch, EpochsInv
  <2>2. epoch' = epoch + 1 /\ epoch' \in Nat /\ epoch' < EPOCHS
    BY <1>2, <1>3, <1>10
  <2>3. Tally(counter, epoch, v)'
    BY <1>7, <1>8, <2>1, <2>2 DEF Tally
  <2>4. Jumps' = [size \in Nat |-> 0]
    BY <1>3 DEF Jumps
  <2>5. EpochInv'
    <3>1. PICK w : w = MIN_WAY_SIZE
      OBVIOUS
    <3>2. /\ Aligned(w) /\ MIN_ASSOC = MIN_ASSOC + 2 * 0
          /\ Ahead([size \in Nat |-> 0], machine.ways, machine.way, w, MIN_ASSOC)
          /\ ~(w > machine.way) /\ ~(MIN_ASSOC > machine.ways)
      BY <3>1, Smallest
    <3>3. Aligned(way_size)'
      BY <1>3, <3>1, <3>2 DEF Aligned, IsWay
    <3>4. Ahead(Jumps, machine.ways, machine.way, way_size, prev_assoc)'
      BY <1>3, <2>4, <3>1, <3>2 DEF Ahead
    <3>5. ~Past'
      BY <1>3, <3>1, <3>2 DEF Past
    <3>6. DOMAIN counter_for_cache' \subseteq Nat
      BY <1>3
    <3>7. QED BY <1>3, <3>2, <3>3, <3>4, <3>5, <3>6 DEF EpochInv
  <2>6. QED BY <1>2, <1>3, <1>5, <2>1, <2>2, <2>3, <2>5 DEF EpochsInv
<1>11. QED BY <1>9, <1>10

(* Of the answers that most epochs gave there is a first.                          *)
LEMMA Least ==
  ASSUME NEW S \in SUBSET Nat, NEW n \in S
  PROVE  \E m \in S : \A k \in S : m <= k
<1> DEFINE R == {ss \in Nat \X Nat : ss[1] < ss[2]}
<1>1. IsWellFoundedOn(R, Nat)
  BY NatLessThanWellFounded DEF OpToRel
<1>2. ASSUME NEW x \in Nat, NEW y \in Nat, ~(<<y, x>> \in R) PROVE x <= y
  <2>1. <<y, x>> \in Nat \X Nat
    OBVIOUS
  <2>2. <<y, x>>[1] = y /\ <<y, x>>[2] = x
    OBVIOUS
  <2>3. ~(y < x)
    BY <1>2, <2>1, <2>2
  <2>4. QED BY <2>3
<1> HIDE DEF R
<1>3. \E x \in S : \A y \in S : ~ (<<y, x>> \in R)
  BY <1>1, WFMin
<1>4. QED BY <1>2, <1>3

LEMMA FirstIsFound ==
  ASSUME NEW map, \A a \in DOMAIN map : IsFound(a), IsFound(result)
  PROVE  IsFound(MostFrequent(map))
<1>1. PICK most : most = {a \in DOMAIN map : \A b \in DOMAIN map : map[b] <= map[a]}
  OBVIOUS
<1>2. \A a \in most : \E line \in Nat : a = <<Right, machine.ways, line>>
  BY <1>1 DEF IsFound
<1>3. CASE most = {}
  BY <1>1, <1>3 DEF MostFrequent
<1>4. CASE most # {}
  <2> DEFINE S == {line \in Nat : <<Right, machine.ways, line>> \in most}
  <2>1. PICK n : n \in S
    BY <1>2, <1>4
  <2>2. S \in SUBSET Nat
    OBVIOUS
  <2>3. PICK m \in S : \A k \in S : m <= k
    BY <2>1, <2>2, Least
  <2>4. PICK a : a = <<Right, machine.ways, m>>
    OBVIOUS
  <2>5. a \in most /\ m \in Nat
    BY <2>3, <2>4
  <2>6. ASSUME NEW b \in most \ {a} PROVE Before(a, b)
    <3>1. PICK k \in Nat : b = <<Right, machine.ways, k>>
      BY <1>2
    <3>2. k \in S /\ k # m
      BY <2>4, <3>1
    <3>3. m < k
      BY <2>3, <2>5, <3>1, <3>2
    <3>4. /\ a[1] = Right /\ a[2] = machine.ways /\ a[3] = m
          /\ b[1] = Right /\ b[2] = machine.ways /\ b[3] = k
      BY <2>4, <3>1
    <3>5. QED BY <3>3, <3>4 DEF Before
  <2>7. (CHOOSE x \in most : \A b \in most \ {x} : Before(x, b)) \in most
    BY <2>5, <2>6
  <2>8. MostFrequent(map) \in most
    BY <1>1, <1>4, <2>7 DEF MostFrequent
  <2>9. QED BY <1>2, <2>8 DEF IsFound
<1>5. QED BY <1>3, <1>4

LEMMA LineEpochKeeps ==
  ASSUME Geometry, FoundInv, NEW line \in Nat, EndOfLineEpoch(line), machine' = machine
  PROVE  FoundInv' /\ phase' # "size"
<1>1. phase' # "size"
  BY DEF EndOfLineEpoch
<1>2. IsFound(<<result[1], result[2], line>>)
  BY DEF FoundInv, IsFound
<1>3. PICK all : all = counter'
  OBVIOUS
<1>4. \A a \in DOMAIN all : IsFound(a)
  <2>1. all = Incremented(counter, <<result[1], result[2], line>>)
    BY <1>3 DEF EndOfLineEpoch
  <2>2. DOMAIN all = DOMAIN counter \cup {<<result[1], result[2], line>>}
    BY <2>1 DEF Incremented, Plus
  <2>3. QED BY <1>2, <2>2 DEF FoundInv
<1>5. IsFound(result')
  <2> DEFINE found == {a \in DOMAIN all : LineCounts(a)}
  <2>1. result' = result \/ result' = MostFrequent([a \in found |-> all[a]])
    BY <1>3 DEF EndOfLineEpoch
  <2>2. IsFound(MostFrequent([a \in found |-> all[a]]))
    BY <1>4, FirstIsFound DEF FoundInv
  <2>3. QED BY <2>1, <2>2 DEF FoundInv
<1>6. \A a : IsFound(a)' <=> IsFound(a)
  BY DEF IsFound, Right
<1>7. QED BY <1>1, <1>3, <1>4, <1>5, <1>6 DEF FoundInv, IsFound, Right

LEMMA ProbeKeeps == ProbeInv /\ [ProbeNext]_probeVars => ProbeInv'
<1> SUFFICES ASSUME ProbeInv, [ProbeNext]_probeVars PROVE ProbeInv'
  OBVIOUS
<1>1. machine' = machine
  BY DEF ProbeNext, Measure, NextWay, EndOfSizeEpoch, Trap, Outside, TryLine, probeVars
<1>2. Geometry' /\ (Measurable' <=> Measurable)
  BY <1>1 DEF ProbeInv, Geometry, Measurable
<1>3. cache_line' \in Nat
  <2>1. cache_line \in Nat /\ MIN_CACHE_LINE \in Nat /\ 2 * cache_line \in Nat
    BY ProbeAssumption DEF ProbeInv
  <2>2. cache_line' = cache_line \/ cache_line' = MIN_CACHE_LINE \/ cache_line' = 2 * cache_line
    BY DEF ProbeNext, Measure, NextWay, EndOfSizeEpoch, Trap, Outside, TryLine, EndOfLineEpoch,
           probeVars
  <2>3. QED BY <2>1, <2>2
<1>4. SUFFICES ASSUME Measurable PROVE IF phase' = "size" THEN EpochsInv' ELSE FoundInv'
  BY <1>2, <1>3 DEF ProbeInv
<1>5. Geometry /\ cache_line \in Nat /\ IF phase = "size" THEN EpochsInv ELSE FoundInv
  BY <1>4 DEF ProbeInv
<1>6. CASE Measure \/ NextWay
  <2>1. phase = "size" /\ phase' = "size"
    BY <1>6 DEF Measure, NextWay
  <2>2. QED BY <1>4, <1>5, <1>6, <2>1, WithinEpoch
<1>7. CASE EndOfSizeEpoch
  <2>1. phase = "size"
    BY <1>7 DEF EndOfSizeEpoch
  <2>2. QED BY <1>4, <1>5, <1>7, <2>1, EndOfSizeEpochKeeps
<1>8. ASSUME phase # "size", phase' # "size", UNCHANGED <<counter, result>> PROVE FoundInv'
  BY <1>1, <1>5, <1>8 DEF FoundInv, IsFound, Right
<1>9. CASE Trap \/ Outside
  <2>1. phase # "size" /\ phase' # "size" /\ UNCHANGED <<counter, result>>
    BY <1>9 DEF Trap, Outside, HasRing
  <2>2. QED BY <1>8, <2>1
<1>10. CASE TryLine
  <2>1. phase = "line" /\ FoundInv
    BY <1>5, <1>10 DEF TryLine
  <2>2. CASE EndOfLineEpoch(0)
    BY <1>1, <1>5, <2>1, <2>2, LineEpochKeeps
  <2>3. CASE EndOfLineEpoch(cache_line * sizeof)
    <3>1. PICK line \in Nat : line = cache_line * sizeof
      BY <1>5 DEF sizeof
    <3>2. EndOfLineEpoch(line)
      BY <2>3, <3>1
    <3>3. QED BY <1>1, <1>5, <2>1, <3>2, LineEpochKeeps
  <2>4. CASE UNCHANGED <<epoch, counter, result, phase>>
    BY <1>8, <2>1, <2>4
  <2>5. QED BY <1>10, <2>2, <2>3, <2>4 DEF TryLine
<1>11. CASE UNCHANGED probeVars
  <2>1. CASE phase # "size"
    BY <1>8, <1>11, <2>1 DEF probeVars
  <2>2. CASE phase = "size"
    <3>1. UNCHANGED <<machine, phase, epoch, way_size, assoc, prev_assoc, measurements,
                      counter_for_cache, min_assoc_for_cache, counter, disturbed>>
      BY <1>11 DEF probeVars
    <3>2. EpochsInv
      BY <1>5, <2>2
    <3>3. PICK wrong \in Nat : /\ wrong <= disturbed /\ Tally(counter, epoch, wrong)
                               /\ wrong = disturbed => EpochInv
      BY <3>2 DEF EpochsInv
    <3>4. RightAnswer' = RightAnswer /\ Right' = Right
      BY <3>1 DEF RightAnswer, Right
    <3>5. Tally(counter, epoch, wrong)'
      BY <3>1, <3>3, <3>4 DEF Tally
    <3>6. ASSUME EpochInv PROVE EpochInv'
      <4>1. PICK w, p : w = way_size /\ p = prev_assoc
        OBVIOUS
      <4>2. Time(p, w)' = Time(p, w)
        BY <3>1, SameMachine DEF Time
      <4>3. Time(prev_assoc, way_size)' = Time(prev_assoc, way_size)
        BY <3>1, <4>1, <4>2
      <4>4. Aligned(way_size)' /\ (Past' <=> Past) /\ Jumps' = Jumps
        BY <3>1, <3>6 DEF EpochInv, Aligned, IsWay, Past, Jumps
      <4>5. Ahead(Jumps, machine.ways, machine.way, way_size, prev_assoc)'
        BY <3>1, <3>6, <4>4 DEF EpochInv, Ahead
      <4>6. QED BY <3>1, <3>4, <3>6, <4>3, <4>4, <4>5 DEF EpochInv
    <3>7. QED BY <2>2, <3>1, <3>2, <3>3, <3>5, <3>6 DEF EpochsInv
  <2>3. QED BY <2>1, <2>2
<1>12. QED BY <1>6, <1>7, <1>9, <1>10, <1>11 DEF ProbeNext

(* Whatever the ways and the sets of the machine, as long as they are among those  *)
(* tried, the lengths of a line, of a miss and of the array, and the measurements  *)
(* that were disturbed, if in most epochs there were none: the size and the number *)
(* of ways are the machine's (get_cache_size_and_associativity,                    *)
(* get_info_about_L1_memory).                                                      *)
THEOREM SizeIsRight == Geometry /\ ProbeSpec => []SizeRight
<1>1. ProbeInv => SizeRight
  <2> SUFFICES ASSUME ProbeInv, Measurable, phase # "size"
               PROVE  result[1] = machine.ways * machine.way /\ result[2] = machine.ways
    BY DEF SizeRight
  <2>1. IsFound(result)
    BY DEF ProbeInv, FoundInv
  <2>2. QED BY <2>1 DEF IsFound, Right
<1>2. Geometry /\ ProbeInit => ProbeInv
  BY ProbeStarts
<1>3. ProbeInv /\ [ProbeNext]_probeVars => ProbeInv'
  BY ProbeKeeps
<1>4. QED BY <1>1, <1>2, <1>3, PTL DEF ProbeSpec

-----------------------------------------------------------------------------------
(* The ring for the smallest line, the first that is built, stays in the array.    *)
FirstFits == Reach(Right, machine.ways, MIN_CACHE_LINE) <= sizeof * MAX_SIZE

(* Behind the first ring it is known whether it stayed there.                      *)
ForeseenInv ==
  /\ cache_line \in Nat /\ cache_line >= MIN_CACHE_LINE
  /\ phase = "size" => cache_line = MIN_CACHE_LINE
  /\ phase = "line" => FirstFits \/ cache_line = MIN_CACHE_LINE
  /\ phase = "outside" => ~FirstFits
  /\ phase = "done" => FirstFits

(* Twice as long a line makes no longer ring, and a line longer than a way none.   *)
LEMMA ShorterReach ==
  ASSUME Geometry, NEW l \in Nat, NEW k \in Nat, k >= 1, k <= l
  PROVE  /\ Right \div machine.ways = machine.way
         /\ Reach(Right, machine.ways, l) <= Reach(Right, machine.ways, k)
         /\ Reach(Right, machine.ways, l) \in Nat /\ Reach(Right, machine.ways, k) \in Nat
         /\ l > machine.way => Reach(Right, machine.ways, l) = 0
<1>1. PICK a \in Nat, w \in Nat : a = machine.ways /\ w = machine.way /\ a >= 1
  BY DEF Geometry
<1>2. PICK c \in Nat : c = Right /\ c = w * a
  <2>1. w * a \in Nat /\ w * a = a * w
    BY ProductOrder
  <2>2. QED BY <1>1, <2>1 DEF Right
<1>3. c \div a = w
  BY <1>1, <1>2, Quotient
<1>4. PICK p \in Nat, q \in Nat, r \in Nat, t \in Nat :
        /\ p = w \div l /\ r < l /\ w = p * l + r
        /\ q = w \div k /\ t < k /\ w = q * k + t
  <2>1. w \div l \in Nat /\ w % l \in Nat /\ w % l < l /\ w = (w \div l) * l + (w % l)
    BY Divided
  <2>2. w \div k \in Nat /\ w % k \in Nat /\ w % k < k /\ w = (w \div k) * k + (w % k)
    BY Divided
  <2>3. QED BY <2>1, <2>2
<1>5. p <= q
  <2>1. CASE q + 1 <= p
    <3>1. (q + 1) * k <= p * k /\ p * k \in Nat /\ (q + 1) * k = q * k + k
      BY <2>1, ProductOrder
    <3>2. k * p <= l * p /\ k * p = p * k /\ l * p = p * l /\ p * l \in Nat
      BY ProductOrder
    <3>3. PICK x \in Nat, y \in Nat, z \in Nat : x = p * l /\ y = p * k /\ z = q * k
      <4>1. q * k \in Nat
        BY ProductOrder
      <4>2. QED BY <3>1, <3>2, <4>1
    <3>4. z + k <= y /\ y <= x /\ x + r = z + t
      BY <1>4, <3>1, <3>2, <3>3
    <3>5. t < k
      BY <1>4
    <3>6. QED BY <3>3, <3>4, <3>5
  <2>2. QED BY <2>1
<1>6. p * c <= q * c /\ p * c \in Nat /\ q * c \in Nat
  BY <1>5, ProductOrder
<1>7. l > w => p = 0
  <2>1. CASE p >= 1
    <3>1. 1 * l <= p * l /\ p * l \in Nat
      BY <2>1, ProductOrder
    <3>2. QED BY <1>4, <3>1
  <2>2. QED BY <2>1
<1>8. 0 * c = 0
  OBVIOUS
<1>9. Reach(Right, machine.ways, l) = p * c /\ Reach(Right, machine.ways, k) = q * c
  BY <1>1, <1>2, <1>3, <1>4 DEF Reach
<1>10. QED BY <1>1, <1>2, <1>3, <1>6, <1>7, <1>8, <1>9

LEMMA ForeseenKeeps ==
  ASSUME ProbeInv, Measurable, ForeseenInv, [ProbeNext]_probeVars
  PROVE  ForeseenInv'
<1>1. machine' = machine
  BY DEF ProbeNext, Measure, NextWay, EndOfSizeEpoch, Trap, Outside, TryLine, probeVars
<1>2. FirstFits' <=> FirstFits
  BY <1>1 DEF FirstFits, Right
<1>3. MIN_CACHE_LINE \in Nat /\ MIN_CACHE_LINE >= 1 /\ Geometry /\ MAX_SIZE \in Nat
  BY ProbeAssumption DEF ProbeInv
<1>4. ASSUME phase # "size"
      PROVE  result[1] = Right /\ result[2] = machine.ways
  BY <1>4 DEF ProbeInv, FoundInv, IsFound
<1>5. CASE Measure \/ NextWay
  BY <1>5 DEF Measure, NextWay, ForeseenInv
<1>6. CASE EndOfSizeEpoch
  <2>1. phase = "size" /\ phase' \in {"size", "line"} /\ cache_line' = cache_line
    BY <1>6 DEF EndOfSizeEpoch
  <2>2. QED BY <2>1 DEF ForeseenInv
<1>7. CASE Trap
  BY <1>7 DEF Trap, ForeseenInv
<1>8. CASE Outside
  <2>1. /\ phase = "line" /\ phase' = "outside" /\ cache_line' = cache_line
        /\ ~(Reach(Right, machine.ways, cache_line) <= sizeof * MAX_SIZE)
    BY <1>4, <1>8 DEF Outside, HasRing, Fits
  <2>2. ~FirstFits
    <3>1. /\ Reach(Right, machine.ways, cache_line) <= Reach(Right, machine.ways, MIN_CACHE_LINE)
          /\ Reach(Right, machine.ways, cache_line) \in Nat
          /\ Reach(Right, machine.ways, MIN_CACHE_LINE) \in Nat
      BY <1>3, ShorterReach DEF ForeseenInv
    <3>2. QED BY <1>3, <2>1, <3>1 DEF FirstFits, sizeof
  <2>3. QED BY <1>2, <2>1, <2>2 DEF ForeseenInv
<1>9. CASE TryLine
  <2>1. phase = "line" /\ result[1] = Right /\ result[2] = machine.ways
    BY <1>4, <1>9 DEF TryLine
  <2>2. ASSUME NEW line, EndOfLineEpoch(line), FirstFits
        PROVE  ForeseenInv'
    <3>1. cache_line' = MIN_CACHE_LINE /\ phase' \in {"line", "done"}
      BY <2>2 DEF EndOfLineEpoch
    <3>2. QED BY <1>2, <1>3, <2>2, <3>1 DEF ForeseenInv
  <2>3. CASE cache_line > result[1] \div result[2] /\ EndOfLineEpoch(0)
    <3>1. cache_line > machine.way
      BY <1>3, <2>1, <2>3, ShorterReach
    <3>2. CASE cache_line = MIN_CACHE_LINE
      <4>1. Reach(Right, machine.ways, MIN_CACHE_LINE) = 0
        BY <1>3, <3>1, <3>2, ShorterReach
      <4>2. FirstFits
        BY <1>3, <4>1 DEF FirstFits, sizeof
      <4>3. QED BY <2>2, <2>3, <4>2
    <3>3. CASE FirstFits
      BY <2>2, <2>3, <3>3
    <3>4. QED BY <2>1, <3>2, <3>3 DEF ForeseenInv
  <2>4. CASE cache_line # MIN_CACHE_LINE /\ EndOfLineEpoch(cache_line * sizeof)
    BY <2>1, <2>2, <2>4 DEF ForeseenInv
  <2>5. CASE Fits /\ cache_line' = 2 * cache_line /\ UNCHANGED <<epoch, counter, result, phase>>
    <3>1. FirstFits
      BY <2>1, <2>5 DEF ForeseenInv, Fits, FirstFits
    <3>2. 2 * cache_line \in Nat /\ 2 * cache_line >= MIN_CACHE_LINE
      BY <1>3 DEF ForeseenInv
    <3>3. QED BY <1>2, <2>1, <2>5, <3>1, <3>2 DEF ForeseenInv
  <2>6. QED BY <1>9, <2>3, <2>4, <2>5 DEF TryLine
<1>10. CASE UNCHANGED probeVars
  BY <1>2, <1>10 DEF probeVars, ForeseenInv
<1>11. QED BY <1>5, <1>6, <1>7, <1>8, <1>9, <1>10 DEF ProbeNext

(* On a machine whose sizes are among those tried it depends on the machine alone  *)
(* whether a ring for the line leaves the array: either the first one does, before *)
(* any answer, or none does in any epoch (get_cache_line,                          *)
(* generate_test_array_for_line).                                                  *)
THEOREM OverrunIsForeseen == Geometry /\ ProbeSpec => []OverrunForeseen
<1> DEFINE Inv == ProbeInv /\ (Measurable => ForeseenInv)
<1>1. Inv => OverrunForeseen
  <2> SUFFICES ASSUME Inv, Measurable
               PROVE  /\ phase = "outside" =>
                           Reach(Right, machine.ways, MIN_CACHE_LINE) > sizeof * MAX_SIZE
                      /\ phase = "done" =>
                           Reach(Right, machine.ways, MIN_CACHE_LINE) <= sizeof * MAX_SIZE
    BY DEF OverrunForeseen, Right
  <2>1. MIN_CACHE_LINE \in Nat /\ MIN_CACHE_LINE >= 1 /\ Geometry /\ MAX_SIZE \in Nat
    BY ProbeAssumption DEF ProbeInv
  <2>2. Reach(Right, machine.ways, MIN_CACHE_LINE) \in Nat
    BY <2>1, ShorterReach
  <2>3. QED BY <2>1, <2>2 DEF ForeseenInv, FirstFits, sizeof
<1>2. Geometry /\ ProbeInit => Inv
  <2>1. ProbeInit => ForeseenInv
    BY ProbeAssumption DEF ProbeInit, ForeseenInv
  <2>2. QED BY <2>1, ProbeStarts
<1>3. Inv /\ [ProbeNext]_probeVars => Inv'
  <2> SUFFICES ASSUME Inv, [ProbeNext]_probeVars PROVE Inv'
    OBVIOUS
  <2>1. ProbeInv'
    BY ProbeKeeps
  <2>2. Measurable' => Measurable
    <3>1. machine' = machine
      BY DEF ProbeNext, Measure, NextWay, EndOfSizeEpoch, Trap, Outside, TryLine, probeVars
    <3>2. QED BY <3>1 DEF Measurable
  <2>3. QED BY <2>1, <2>2, ForeseenKeeps
<1> HIDE DEF Inv
<1>4. QED BY <1>1, <1>2, <1>3, PTL DEF ProbeSpec
===================================================================================
