------------------------------ MODULE StaticAnalyzer ------------------------------
(***********************************************************************************)
(* The frequencies of the instructions of a byte code file (static-analyzer): main *)
(* walks over the code with disassemble_instruction, which prints nothing then and *)
(* returns where the next instruction begins, counts each in a std::map ordered by *)
(* the instructions' bytes, and prints the map sorted by the counts.               *)
(***********************************************************************************)
EXTENDS Integers, Sequences, SequencesExt, FiniteSets, FiniteSetsExt, Functions

CONSTANT Programs     \* the instructions of the files' code, as byte sequences

(* INT, of four bytes, the lowest first: like a char, an int has a sign.           *)
IntAt(c, i) ==
  LET byte(k) == c[i + k] % 256
  IN  byte(0) + 256 * byte(1) + 65536 * byte(2) + 16777216 * c[i + 3]

(* What the compiler writes: the opcodes that none, one or two ints follow; CLOSURE*)
(* with its address, the number of captured variables, and a byte for the kind and *)
(* an int for each; and bytes that are no opcode, which may end the walk.  A file  *)
(* of code ends with STOP.                                                         *)
Opcodes ==
  <<(1 .. 13) \cup {19, 20} \cup (22 .. 27) \cup (96 .. 102) \cup (112 .. 115),
    {16, 17, 21, 80, 81, 85, 88, 90, 116} \cup (32 .. 35) \cup (48 .. 51) \cup (64 .. 67),
    {18, 82, 83, 86, 87, 89}>>
CLOSURE == 84
STOP    == -1

Plain(c)   == \E n \in 1 .. 3 : c[1] \in Opcodes[n] /\ Len(c) = 4 * n - 3
Closure(c) == LET n == IntAt(c, 6)
              IN  /\ c[1] = CLOSURE /\ Len(c) >= 9 /\ n \in Nat /\ Len(c) = 9 + 5 * n
                  /\ \A k \in 0 .. n - 1 : c[10 + 5 * k] \in 0 .. 3
Unknown(c) == /\ Len(c) = 1 /\ c[1] # CLOSURE /\ \A n \in 1 .. 3 : c[1] \notin Opcodes[n]
              /\ c[1] \notin -16 .. -1

ASSUME ProgramsAssumption ==
  \A p \in Programs :
    /\ p \in Seq(Seq(-128 .. 127)) /\ Len(p) > 0 /\ p[Len(p)] = <<STOP>>
    /\ \A i \in 1 .. Len(p) - 1 : Plain(p[i]) \/ Closure(p[i]) \/ Unknown(p[i])

VARIABLES program,    \* the instructions that were compiled
          ip,         \* index in code of the byte ip points to
          counter,    \* the map: <<name, len>> -> count
          sorted,     \* sorted_instr: pairs of a key and its count
          printed,    \* what is printed: pairs of a count and an instruction
          phase       \* "walk", "sort", "print", "done", or "failed"

analyzerVars == <<program, ip, counter, sorted, printed, phase>>

code == FlattenSeq(program)

Null == 0
Bad  == -1            \* FAIL ends the process

(* The variables a closure captures are a byte for the kind and an int each.       *)
AfterCaptured(i, n) ==
  IF \A k \in 0 .. n - 1 : code[i + 5 * k] \in 0 .. 3 THEN i + 5 * Max({n, 0}) ELSE Bad

(* Mutant of Operands: FAIL has one number.                                        *)
Operands_ShortFail(h, l) ==
  CASE h \in {0, 6}    -> 0
    [] h = 1           -> IF l = 2 THEN 2 ELSE IF l \in {0, 1, 5} THEN 1
                          ELSE IF l <= 11 THEN 0 ELSE Bad
    [] h \in {2, 3, 4} -> IF l <= 3 THEN 1 ELSE Bad
    [] h = 5           -> IF l \in {2, 3, 6, 7} THEN 2
                          ELSE IF l \in {0, 1, 4, 5, 8, 9, 10} THEN 1 ELSE Bad
    [] h = 7           -> IF l = 4 THEN 1 ELSE IF l <= 3 THEN 0 ELSE Bad
    [] OTHER           -> Bad

(* The number of ints that follow the opcode h-l.                                  *)
Operands(h, l) ==
  CASE h \in {0, 6}    -> 0
    [] h = 1           -> IF l = 2 THEN 2 ELSE IF l \in {0, 1, 5} THEN 1
                          ELSE IF l <= 11 THEN 0 ELSE Bad
    [] h \in {2, 3, 4} -> IF l <= 3 THEN 1 ELSE Bad
    [] h = 5           -> IF l \in {2, 3, 6, 7, 9} THEN 2
                          ELSE IF l \in {0, 1, 4, 5, 8, 10} THEN 1 ELSE Bad
    [] h = 7           -> IF l = 4 THEN 1 ELSE IF l <= 3 THEN 0 ELSE Bad
    [] OTHER           -> Bad

disassemble_instruction(i) ==
  LET h == (code[i] % 256) \div 16
      l == code[i] % 16
  IN  IF h = 15 THEN Null
      ELSE IF Operands(h, l) = Bad THEN Bad
      ELSE IF h = 5 /\ l = 4 THEN AfterCaptured(i + 9, IntAt(code, i + 5))
      ELSE i + 1 + 4 * Operands(h, l)

-----------------------------------------------------------------------------------
(* The bytes a key of the map points to.                                           *)
Named(key)   == SubSeq(code, key[1], key[1] + key[2] - 1)
Byte(key, k) == code[key[1] + k - 1]

(* Mutant of Less: only the opcodes and the lengths are compared.                  *)
Less_Opcodes(a, b) ==
  \/ Byte(a, 1) < Byte(b, 1)
  \/ Byte(a, 1) = Byte(b, 1) /\ a[2] < b[2]

(* operator< of instructions: the first byte that differs, or else the length.     *)
Less(a, b) ==
  LET differ == {k \in 1 .. Min({a[2], b[2]}) : Byte(a, k) # Byte(b, k)}
  IN  IF differ # {} THEN Byte(a, Min(differ)) < Byte(b, Min(differ)) ELSE a[2] < b[2]

(* counter[key]++: std::map takes two keys for one when neither is less.           *)
Counted(key) ==
  LET same == {other \in DOMAIN counter : ~Less(key, other) /\ ~Less(other, key)}
  IN  IF same = {} THEN [k \in DOMAIN counter \cup {key} |-> IF k = key THEN 1 ELSE counter[k]]
      ELSE [counter EXCEPT ![CHOOSE k \in same : TRUE] = @ + 1]

(* Mutant of Before: statistics with equal counts are not ordered.                 *)
Before_CountsOnly(s, t) == s[2] > t[2]

(* operator< of statistics.                                                        *)
Before(s, t) ==
  \/ s[2] > t[2]
  \/ s[2] = t[2] /\ Less(s[1], t[1])

-----------------------------------------------------------------------------------
(* ip begins at the code, as main means it to.  What read_file makes of code_ptr   *)
(* with the analyzer's struct, which is something else, is in Bytefile.            *)
AnalyzerInit ==
  /\ program \in Programs
  /\ ip = 1 /\ counter = <<>> /\ sorted = <<>> /\ printed = <<>> /\ phase = "walk"

(* One round of the loop.                                                          *)
Walk ==
  /\ phase = "walk" /\ ip <= Len(code) /\ disassemble_instruction(ip) \notin {Null, Bad}
  /\ counter' = Counted(<<ip, disassemble_instruction(ip) - ip>>)
  /\ ip' = disassemble_instruction(ip)
  /\ UNCHANGED <<program, sorted, printed, phase>>

(* The end of the loop, and the instruction that ended it.                         *)
Stop ==
  /\ phase = "walk" /\ (IF ip <= Len(code) THEN disassemble_instruction(ip) = Null ELSE TRUE)
  /\ counter' = Counted(<<ip, 1>>)
  /\ phase' = "sort" /\ UNCHANGED <<program, ip, sorted, printed>>

Fail ==
  /\ phase = "walk" /\ ip <= Len(code) /\ disassemble_instruction(ip) = Bad
  /\ phase' = "failed" /\ UNCHANGED <<program, ip, counter, sorted, printed>>

(* The vector is filled from the map in its order; std::sort may leave statistics  *)
(* that are not ordered in any order.                                              *)
Sort ==
  /\ phase = "sort" /\ phase' = "print"
  /\ LET statistics == {<<key, counter[key]>> : key \in DOMAIN counter}
     IN  sorted' \in {s \in SetToSeqs(statistics) :
                        \A i, j \in DOMAIN s : i < j => ~Before(s[j], s[i])}
  /\ UNCHANGED <<program, ip, counter, printed>>

Report ==
  /\ phase = "print" /\ sorted # <<>>
  /\ printed' = Append(printed, <<Head(sorted)[2], Named(Head(sorted)[1])>>)
  /\ sorted' = Tail(sorted) /\ UNCHANGED <<program, ip, counter, phase>>

Finish == /\ phase = "print" /\ sorted = <<>> /\ phase' = "done"
          /\ UNCHANGED <<program, ip, counter, sorted, printed>>

AnalyzerNext == Walk \/ Stop \/ Fail \/ Sort \/ Report \/ Finish

AnalyzerSpec == AnalyzerInit /\ [][AnalyzerNext]_analyzerVars

-----------------------------------------------------------------------------------
Occurrences(instr) == Cardinality({i \in DOMAIN program : program[i] = instr})

(* The walk never leaves the instructions' boundaries: what it has counted are the *)
(* instructions that were compiled up to there, each with the number of times it   *)
(* has been seen (main, disassemble_instruction).                                  *)
InStep ==
  phase = "walk" =>
    \E n \in 0 .. Len(program) - 1 :
      /\ ip = Len(FlattenSeq(SubSeq(program, 1, n))) + 1
      /\ {Named(key) : key \in DOMAIN counter} = {program[i] : i \in 1 .. n}
      /\ \A key \in DOMAIN counter :
           counter[key] = Cardinality({i \in 1 .. n : program[i] = Named(key)})

(* The report names every instruction of the file once, STOP included, with the    *)
(* number of its occurrences.                                                      *)
ReportComplete ==
  phase = "done" =>
    /\ IsInjective([i \in DOMAIN printed |-> printed[i][2]])
    /\ ToSet(printed) = {<<Occurrences(instr), instr>> : instr \in ToSet(program)}

(* The order of the instructions' bytes, the shorter of two that begin alike first.*)
Precedes(a, b) ==
  \E k \in DOMAIN b :
    /\ \A m \in 1 .. k - 1 : m \in DOMAIN a /\ a[m] = b[m]
    /\ k \in DOMAIN a => a[k] < b[k]

(* The same file gives the same report: the most frequent instructions first, and  *)
(* among those as frequent the one with the lesser bytes.                          *)
ReportOrdered ==
  phase = "done" =>
    \A i, j \in DOMAIN printed : i < j =>
      \/ printed[i][1] > printed[j][1]
      \/ printed[i][1] = printed[j][1] /\ Precedes(printed[i][2], printed[j][2])
===================================================================================
