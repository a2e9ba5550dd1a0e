---------------------------------- MODULE L1Probe ----------------------------------
(************************************************************************************)
(* What L1-memory concludes from its measurements: in each epoch the size and the   *)
(* associativity at which most ways of stepping through memory become slower, then  *)
(* the answer most epochs gave, then the same for the size of a line.               *)
(************************************************************************************)
EXTENDS L1Cache, FiniteSetsExt, Functions

CONSTANTS MIN_ASSOC, MAX_ASSOC, MIN_WAY_SIZE, MAX_WAY_SIZE, EPOCHS, MIN_CACHE_LINE,
          MissTime,           \* time of a miss, that of a hit being 1
          Disturbances        \* bound: measurements during which something else runs

(* Of associativities less than three doublings are tried, ways consist of lines, a *)
(* miss takes longer than a hit, and fewer than half of the epochs are disturbed.   *)
ASSUME ProbeAssumption ==
  /\ MAX_SIZE \in Nat /\ MAX_WAY_SIZE \in Nat /\ MIN_CACHE_LINE \in Nat \ {0}
  /\ MIN_ASSOC \in Nat \ {0} /\ MIN_ASSOC % 2 = 0
  /\ MAX_ASSOC \in Nat /\ MAX_ASSOC <= 8 * MIN_ASSOC + 2
  /\ MIN_WAY_SIZE \in Nat \ {0} /\ MIN_WAY_SIZE % sizeof = 0 /\ MIN_WAY_SIZE % LineSize = 0
  /\ MissTime \in Nat /\ MissTime >= 2
  /\ EPOCHS \in Nat /\ Disturbances \in Nat /\ EPOCHS > 2 * Disturbances

VARIABLES phase,              \* "size", "line", "done", "trap" or "outside"
          epoch,
          way_size, assoc, prev_assoc, measurements,
          counter_for_cache, min_assoc_for_cache,
          counter,            \* answers of the epochs, and how many gave each
          result,             \* <<cache_size, associativity, cache_line>>
          cache_line,
          disturbed           \* measurements that were disturbed

probeVars == <<machine, phase, epoch, way_size, assoc, prev_assoc, measurements, counter_for_cache,
               min_assoc_for_cache, counter, result, cache_line, disturbed>>

Plus(map, key, n) == [k \in DOMAIN map \cup {key} |-> IF k = key THEN n ELSE map[k]]
Incremented(map, key) == Plus(map, key, IF key \in DOMAIN map THEN map[key] + 1 ELSE 1)

(* nano_per_loop > TIME_THRESHOLD * nano_per_loop; a time is the sum of a round and *)
(* the reads of a round.                                                            *)
Slower(t, than) == 10 * t[1] * than[2] > 12 * than[1] * t[2]

(* measure, for a ring of size indices step bytes apart (module PointerChase).      *)
Time(size, step) ==
  LET slots == {i * (step \div sizeof) : i \in 0 .. size - 1}
  IN  <<size + (MissTime - 1) * Cardinality(Crowded(slots)), size>>

InRange == assoc < MAX_ASSOC /\ assoc * way_size < sizeof * MAX_SIZE

(* The size that a jump at assoc tells.                                             *)
CacheSize == prev_assoc * way_size

(* Mutant of Answer: the largest of the sizes that are as frequent as any.          *)
Answer_Last ==
  LET most == {s \in DOMAIN counter_for_cache :
                 \A k \in DOMAIN counter_for_cache : counter_for_cache[k] <= counter_for_cache[s]}
  IN  IF most = {} THEN <<0, 0, 0>> ELSE <<Max(most), min_assoc_for_cache[Max(most)], 0>>

(* The loop over counter_for_cache, in the order of the sizes.                      *)
Answer ==
  LET most == {s \in DOMAIN counter_for_cache :
                 \A k \in DOMAIN counter_for_cache : counter_for_cache[k] <= counter_for_cache[s]}
  IN  IF most = {} THEN <<0, 0, 0>> ELSE <<Min(most), min_assoc_for_cache[Min(most)], 0>>

(* operator< of info_L1.                                                            *)
Before(a, b) ==
  \/ a[1] < b[1]
  \/ a[1] = b[1] /\ (a[2] < b[2] \/ (a[2] = b[2] /\ a[3] < b[3]))

(* The first of the answers most epochs gave, if any gave one.                      *)
MostFrequent(map) ==
  LET most == {a \in DOMAIN map : \A b \in DOMAIN map : map[b] <= map[a]}
  IN  IF most = {} THEN result ELSE CHOOSE a \in most : \A b \in most \ {a} : Before(a, b)

------------------------------------------------------------------------------------
ProbeInit ==
  /\ phase = "size" /\ epoch = 0 /\ result = <<0, 0, 0>> /\ counter = <<>> /\ disturbed = 0
  /\ way_size = MIN_WAY_SIZE /\ assoc = MIN_ASSOC /\ prev_assoc = MIN_ASSOC
  /\ measurements = <<>> /\ counter_for_cache = <<>> /\ min_assoc_for_cache = <<>>
  /\ cache_line = MIN_CACHE_LINE

(* Something else runs during the measurement, or nothing does.                     *)
Noisy(time) ==
  \/ measurements' = Plus(measurements, assoc, time) /\ UNCHANGED disturbed
  \/ /\ disturbed < Disturbances /\ disturbed' = disturbed + 1
     /\ measurements' = Plus(measurements, assoc, <<MissTime * time[1], time[2]>>)

(* The time is longer than that of the associativity before, in the same way.      *)
Jumped == assoc # MIN_ASSOC /\ Slower(measurements'[assoc], measurements[prev_assoc])

(* One round of the inner loop of get_cache_size_and_associativity.                 *)
Measure ==
  /\ phase = "size" /\ way_size < MAX_WAY_SIZE /\ InRange
  /\ Noisy(Time(assoc, way_size))
  /\ IF Jumped
       THEN /\ min_assoc_for_cache' = Plus(min_assoc_for_cache, CacheSize, prev_assoc)
            /\ counter_for_cache' = Incremented(counter_for_cache, CacheSize)
       ELSE UNCHANGED <<min_assoc_for_cache, counter_for_cache>>
  /\ prev_assoc' = assoc /\ assoc' = assoc + 2
  /\ UNCHANGED <<machine, phase, epoch, way_size, counter, result, cache_line>>

NextWay ==
  /\ phase = "size" /\ way_size < MAX_WAY_SIZE /\ ~InRange
  /\ way_size' = way_size * 2 /\ assoc' = MIN_ASSOC /\ prev_assoc' = MIN_ASSOC
  /\ UNCHANGED <<machine, phase, epoch, measurements, counter_for_cache, min_assoc_for_cache,
                 counter, result, cache_line, disturbed>>

(* get_cache_size_and_associativity returns to get_info_about_L1_memory.            *)
EndOfSizeEpoch ==
  /\ phase = "size" /\ way_size >= MAX_WAY_SIZE /\ epoch' = (epoch + 1) % EPOCHS
  /\ LET all == Incremented(counter, Answer)
         last == epoch + 1 = EPOCHS
     IN  /\ result' = IF last THEN MostFrequent(all) ELSE result
         /\ counter' = IF last THEN <<>> ELSE all
         /\ phase' = IF last THEN "line" ELSE "size"
  /\ way_size' = MIN_WAY_SIZE /\ assoc' = MIN_ASSOC /\ prev_assoc' = MIN_ASSOC
  /\ measurements' = <<>> /\ counter_for_cache' = <<>> /\ min_assoc_for_cache' = <<>>
  /\ UNCHANGED <<machine, cache_line, disturbed>>

(* Without a jump in most epochs get_cache_line divides by zero.                    *)
Trap ==
  /\ phase = "line" /\ result[2] = 0 /\ phase' = "trap"
  /\ UNCHANGED <<machine, epoch, way_size, assoc, prev_assoc, measurements, counter_for_cache,
                 min_assoc_for_cache, counter, result, cache_line, disturbed>>

(* The ring for the next size of line.                                              *)
HasRing == phase = "line" /\ result[2] # 0 /\ cache_line <= result[1] \div result[2]

(* Mutant of Fits: the ring for each line begins again where the first one did.     *)
Fits_OneRow == result[1] <= sizeof * MAX_SIZE

Fits == Reach(result[1], result[2], cache_line) <= sizeof * MAX_SIZE

(* generate_test_array_for_line writes the ring without a look at the array's size; *)
(* what happens behind a write beyond its end is not followed.                      *)
Outside ==
  /\ HasRing /\ ~Fits /\ phase' = "outside"
  /\ UNCHANGED <<machine, epoch, way_size, assoc, prev_assoc, measurements, counter_for_cache,
                 min_assoc_for_cache, counter, result, cache_line, disturbed>>

(* An epoch that found no line does not count.                                      *)
LineCounts(answer) == answer[3] # 0

EndOfLineEpoch(line) ==
  /\ epoch' = (epoch + 1) % EPOCHS /\ cache_line' = MIN_CACHE_LINE
  /\ counter' = Incremented(counter, <<result[1], result[2], line>>)
  /\ LET found == {a \in DOMAIN counter' : LineCounts(a)}
     IN  result' = IF epoch + 1 = EPOCHS THEN MostFrequent([a \in found |-> counter'[a]]) ELSE result
  /\ phase' = IF epoch + 1 = EPOCHS THEN "done" ELSE "line"

(* One round of get_cache_line: the loops over two sizes of line may take any time. *)
TryLine ==
  /\ phase = "line" /\ result[2] # 0
  /\ \/ cache_line > result[1] \div result[2] /\ EndOfLineEpoch(0)
     \/ /\ HasRing /\ Fits
        /\ \/ cache_line # MIN_CACHE_LINE /\ EndOfLineEpoch(cache_line * sizeof)
           \/ cache_line' = 2 * cache_line /\ UNCHANGED <<epoch, counter, result, phase>>
  /\ UNCHANGED <<machine, way_size, assoc, prev_assoc, measurements, counter_for_cache,
                 min_assoc_for_cache, disturbed>>

ProbeNext == Measure \/ NextWay \/ EndOfSizeEpoch \/ Trap \/ Outside \/ TryLine

ProbeSpec == ProbeInit /\ [][ProbeNext]_probeVars

------------------------------------------------------------------------------------
Doublings == {1, 2, 4, 8, 16, 32, 64, 128, 256}

(* The size of a way is tried, and with it the associativity and the next one tried.*)
Measurable ==
  /\ \E n \in Doublings : machine.way = MIN_WAY_SIZE * n
  /\ \E n \in 0 .. MAX_ASSOC : machine.ways = MIN_ASSOC + 2 * n
  /\ machine.way < MAX_WAY_SIZE /\ machine.ways + 2 < MAX_ASSOC
  /\ (machine.ways + 2) * machine.way < sizeof * MAX_SIZE

(* On a measurable machine that replaces the line least recently used the answer is *)
(* right, although the jump is seen at several sizes of a way and other jumps with  *)
(* it, and although a measurement was disturbed; nothing is divided by zero         *)
(* (get_cache_size_and_associativity, get_info_about_L1_memory).                    *)
SizeRight ==
  Measurable /\ phase \in {"line", "done", "trap", "outside"} =>
    result[1] = machine.ways * machine.way /\ result[2] = machine.ways

(* Whether the rings for the line stay in the array is decided by the machine and   *)
(* seen at the first of them, however the measurements were disturbed: on one whose *)
(* first ring is too long no answer is ever given, and on the others no ring leaves *)
(* the array in any epoch (get_cache_line).                                         *)
OverrunForeseen ==
  Measurable =>
    LET reach == Reach(machine.ways * machine.way, machine.ways, MIN_CACHE_LINE)
    IN  /\ phase = "outside" => reach > sizeof * MAX_SIZE
        /\ phase = "done" => reach <= sizeof * MAX_SIZE
====================================================================================
