--------------------------------- MODULE MCL1Probe ---------------------------------
(************************************************************************************)
(* Either the program's conclusions from measurements are followed, or the loops of *)
(* its measurements step by step.                                                   *)
(************************************************************************************)
EXTENDS PointerChase, L1Probe

chaseRest == <<array, slots, left, loop, index, cache, seen, misses, rings>>
probeRest == <<phase, epoch, way_size, assoc, prev_assoc, measurements, counter_for_cache,
               min_assoc_for_cache, counter, result, cache_line, disturbed>>

(* Every order of up to three words, some orders of more: multiples modulo a number *)
(* that is prime to them, and rotations; of the longest rings one.                  *)
MCShuffles(n) ==
  IF n <= 3 THEN {f \in [1 .. n -> 1 .. n] : {f[i] : i \in 1 .. n} = 1 .. n}
  ELSE IF n > 16 THEN {[i \in 1 .. n |-> n + 1 - i]}
  ELSE LET spread == {k \in 1 .. n : {(k * i) % (n + 1) : i \in 1 .. n} = 1 .. n}
       IN  {[i \in 1 .. n |-> (k * i) % (n + 1)] : k \in spread}
           \cup {[i \in 1 .. n |-> 1 + ((i + k) % n)] : k \in 1 .. 4}

(* Of the first, those that the probe can measure are the greater part.             *)
MCMachines == {[ways |-> a, way |-> w] : a \in {4, 6, 8, 10, 12, 16}, w \in {16, 32, 64, 128}}
ChaseMachines == {m \in MCMachines : m.ways \in {4, 6} /\ m.way \in {16, 32}}

(* The code refuses the last two rings of the size phase, and the last two for the  *)
(* line fill the array and leave it.                                                *)
MCRings == {<<4, 16>>, <<6, 16>>, <<6, 32>>, <<12, 128>>, <<25, 64>>, <<14, 128>>}
MCLineRings == {<<64, 4, 8>>, <<64, 4, 16>>, <<160, 2, 8>>, <<256, 4, 8>>}

MCInit ==
  /\ machine \in MCMachines
  /\ \/ ProbeInit
     \/ /\ machine \in ChaseMachines /\ phase = "none"
        /\ epoch = 0 /\ result = <<0, 0, 0>> /\ counter = <<>> /\ disturbed = 0
        /\ way_size = MIN_WAY_SIZE /\ assoc = MIN_ASSOC /\ prev_assoc = MIN_ASSOC
        /\ measurements = <<>> /\ counter_for_cache = <<>> /\ min_assoc_for_cache = <<>>
        /\ cache_line = MIN_CACHE_LINE
  /\ Init

MCNext ==
  \/ phase # "none" /\ ProbeNext /\ UNCHANGED chaseRest
  \/ phase = "none" /\ Next /\ UNCHANGED probeRest

MCSpec == MCInit /\ [][MCNext]_<<machine, probeRest, chaseRest>>
====================================================================================
