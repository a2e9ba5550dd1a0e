------------------------------- MODULE PointerChase -------------------------------
(***********************************************************************************)
(* The rings of L1-memory and the loop that follows them: array[index] is the index*)
(* to read next, in an order shuffled so that the hardware cannot predict it.      *)
(***********************************************************************************)
EXTENDS L1Cache, SequencesExt, Functions

CONSTANTS LoopSize,           \* loop_size
          Rings,              \* <<size, step>> the runs build, in bytes
          LineRings,          \* <<cache_size, associativity, cache_line>> likewise
          MaxRings,           \* bound: rings one after the other
          Shuffles(_)         \* the orders of std::shuffle that the runs look at

VARIABLES array,              \* what has been written to the array
          slots,              \* indices written for the last ring
          left,               \* iterations of the first loop of measure still to do
          loop,               \* iterations of the second loop done
          index,              \* the index both loops follow
          cache,
          seen,               \* history: indices the first loop has read
          misses,             \* misses of the second loop
          rings               \* rings built

chaseVars == <<machine, array, slots, left, loop, index, cache, seen, misses, rings>>

(* The first element stays where it is; order tells how the others are arranged.   *)
Shuffled(buffer, order) ==
  <<Head(buffer)>> \o [i \in 1 .. Len(buffer) - 1 |-> buffer[order[i] + 1]]

(* Mutant of Linked: the order of the buffer is stored, not the way along it.      *)
Linked_Permutation(buffer) ==
  [s \in ToSet(buffer) |-> buffer[1 + Cardinality({k \in ToSet(buffer) : k < s})]]

(* array[buffer[i]] = buffer[(i + 1) % size].                                      *)
Linked(buffer) ==
  [s \in ToSet(buffer) |->
     LET i == CHOOSE k \in DOMAIN buffer : buffer[k] = s IN buffer[(i % Len(buffer)) + 1]]

(* Mutant of Evenly: the step is taken for a number of indices.                    *)
Evenly_Bytes(size, step) == [i \in 1 .. size |-> (i - 1) * step]

(* generate_test_array: every step bytes an index.                                 *)
Evenly(size, step) == [i \in 1 .. size |-> (i - 1) * (step \div sizeof)]

(* generate_test_array_for_line: cache_line bytes in each of associativity ways, for*)
(* as many places in a way as there are guessed lines in it.                       *)
ByLines(cache_size, associativity, cache_line) ==
  LET indices == (cache_size \div associativity) \div cache_line
      words   == cache_line \div sizeof
      At(n) == LET k == n % words
                   j == (n \div words) % associativity
                   i == (n \div words) \div associativity
                   offset == ((j + i * associativity) * cache_size) \div associativity
               IN  k + (i * cache_line + offset) \div sizeof
  IN  [n \in 1 .. indices * associativity * words |-> At(n - 1)]

(* A ring for the line consists of whole lines, of which a way is a multiple.      *)
ASSUME RingsAssumption ==
  /\ MAX_SIZE \in Nat /\ LoopSize \in Nat
  /\ Rings \subseteq Nat \X Nat
  /\ \A ring \in Rings : ring[1] >= 1 /\ ring[2] >= sizeof
  /\ LineRings \subseteq Nat \X Nat \X Nat
  /\ \A ring \in LineRings :
       LET indices == (ring[1] \div ring[2]) \div ring[3] IN
       /\ indices >= 1 /\ ring[2] >= 1 /\ ring[3] >= sizeof /\ ring[3] % sizeof = 0
       /\ ring[1] = indices * ring[3] * ring[2]

(* std::shuffle rearranges.                                                        *)
Buffers ==
  {Evenly(ring[1], ring[2]) : ring \in Rings}
  \cup {ByLines(ring[1], ring[2], ring[3]) : ring \in LineRings}

ASSUME ShufflesAssumption ==
  \A buffer \in Buffers :
    Shuffles(Len(buffer) - 1) \subseteq Bijection(1 .. Len(buffer) - 1, 1 .. Len(buffer) - 1)

-----------------------------------------------------------------------------------
Init ==
  /\ array = <<>> /\ slots = {} /\ left = 0 /\ loop = LoopSize /\ index = 0
  /\ cache = EmptyCache /\ seen = {} /\ misses = 0 /\ rings = 0

(* A ring has been written beyond the end of the array.  C defines nothing of what *)
(* follows, and nothing is followed.                                               *)
Overrun == \E s \in DOMAIN array : s >= MAX_SIZE

Build(buffer) ==
  /\ ~Overrun /\ loop = LoopSize /\ left = 0 /\ rings < MaxRings
  /\ \E order \in Shuffles(Len(buffer) - 1) :
       LET ring == Linked(Shuffled(buffer, order))
       IN  array' = [s \in DOMAIN ring \cup DOMAIN array |->
                       IF s \in DOMAIN ring THEN ring[s] ELSE array[s]]
  /\ slots' = ToSet(buffer) /\ left' = Len(buffer) /\ loop' = 0 /\ index' = 0
  /\ seen' = {} /\ misses' = 0 /\ rings' = rings + 1 /\ UNCHANGED <<machine, cache>>

(* get_cache_size_and_associativity compares the ring with the array before; in    *)
(* get_cache_line nothing is compared.                                             *)
generate_test_array ==
  \E ring \in Rings :
    ring[1] * ring[2] < sizeof * MAX_SIZE /\ Build(Evenly(ring[1], ring[2]))

generate_test_array_for_line == \E ring \in LineRings : Build(ByLines(ring[1], ring[2], ring[3]))

(* The first loop, which brings the ring into the cache; behind it index is 0.     *)
Warm ==
  /\ ~Overrun /\ left > 0 /\ left' = left - 1
  /\ cache' = Access(cache, index) /\ seen' = seen \cup {index}
  /\ index' = IF left = 1 THEN 0 ELSE array[index]
  /\ UNCHANGED <<machine, array, slots, loop, misses, rings>>

(* Mutant of Warmed: the clock starts at once.                                     *)
Warmed_AtOnce == left \in 0 .. Cardinality(slots)

Warmed == left = 0

(* The second loop, between the two readings of the clock.                         *)
Loop ==
  /\ ~Overrun /\ Warmed /\ loop < LoopSize /\ loop' = loop + 1
  /\ misses' = misses + (IF Hit(cache, index) THEN 0 ELSE 1)
  /\ cache' = Access(cache, index) /\ index' = array[index]
  /\ UNCHANGED <<machine, array, slots, left, seen, rings>>

Next == generate_test_array \/ generate_test_array_for_line \/ Warm \/ Loop

Spec == Init /\ [][Next]_chaseVars

-----------------------------------------------------------------------------------
(* However it is shuffled the ring is one cycle: the loop that fills the cache has *)
(* read every index of it once, and no other, although an earlier and larger ring  *)
(* is still in the array (generate_test_array, generate_test_array_for_line).      *)
WholeRing == rings > 0 /\ left = 0 => seen = slots

(* The array is left exactly by those rings for the line whose Reach is beyond it, *)
(* of which the code compares nothing: by no ring of the size phase, and by no     *)
(* element of a shorter ring for the line (generate_test_array,                    *)
(* generate_test_array_for_line, get_cache_line).                                  *)
LineSlots == [ring \in LineRings |-> ToSet(ByLines(ring[1], ring[2], ring[3]))]
ArrayBounds ==
  Overrun <=> \E ring \in LineRings :
                slots = LineSlots[ring] /\ Reach(ring[1], ring[2], ring[3]) > sizeof * MAX_SIZE

(* What is timed depends on the places of the ring's indices alone: not on their   *)
(* order, nor on what the measurement before left in the cache.  In each round as  *)
(* many reads miss as indices are in sets with too many lines, and in a round that *)
(* is not over no more than that or than have been read (measure).                 *)
MissesByPlace ==
  (rings > 0 /\ \A i, j \in slots : LineOf(i) = LineOf(j) => i = j) =>
    LET n       == Cardinality(slots)
        crowded == Cardinality(Crowded(slots))
    IN  misses - (loop \div n) * crowded \in 0 .. Min({loop % n, crowded})
===================================================================================
