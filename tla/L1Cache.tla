---------------------------------- MODULE L1Cache ----------------------------------
(************************************************************************************)
(* The cache that L1-memory measures: sets of lines, of which the one least recently*)
(* used is replaced.  Sizes and addresses are in bytes; index i of the array is at  *)
(* address 4 * i.                                                                   *)
(************************************************************************************)
EXTENDS Integers, Sequences, FiniteSets, SequencesExt

CONSTANTS LineSize,       \* COHERENCY-SIZE of the machine
          MAX_SIZE        \* indices of the array

VARIABLE machine          \* [ways, way]: associativity, and bytes of a way

sizeof == 4               \* sizeof(uint32_t)

LineOf(i) == (sizeof * i) \div LineSize
SetOf(line) == line % (machine.way \div LineSize)

(* The bytes up to the end of generate_test_array_for_line's last line: each of the *)
(* lines guessed in a way is one way further on than the one before, in each way.   *)
Reach(cache_size, associativity, cache_line) ==
  ((cache_size \div associativity) \div cache_line) * cache_size

(* A machine has sets of at least one line and at least one set.                    *)
Geometry ==
  /\ machine \in [ways : Nat \ {0}, way : Nat]
  /\ LineSize \in Nat \ {0} /\ machine.way >= LineSize

EmptyCache == [s \in 0 .. (machine.way \div LineSize) - 1 |-> <<>>]

Hit(cache, i) == \E k \in DOMAIN cache[SetOf(LineOf(i))] : cache[SetOf(LineOf(i))][k] = LineOf(i)

(* A set lists its lines, the one used last at the end.                             *)
Access(cache, i) ==
  LET line == LineOf(i)
      rest == RemoveFirst(cache[SetOf(line)], line)
      kept == IF Len(rest) = machine.ways THEN Tail(rest) ELSE rest
  IN  [cache EXCEPT ![SetOf(line)] = Append(kept, line)]

(* Of indices that are read round and round, those whose set cannot hold its lines. *)
Crowded(indices) ==
  LET sameSet(i) == {LineOf(k) : k \in {j \in indices : SetOf(LineOf(j)) = SetOf(LineOf(i))}}
  IN  {i \in indices : Cardinality(sameSet(i)) > machine.ways}
====================================================================================
