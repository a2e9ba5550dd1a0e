-------------------------------- MODULE MCAnalyzer --------------------------------
(***********************************************************************************)
(* The two programs that read byte code files: the interpreter reads one with its  *)
(* struct of the header, the analyzer walks over the code of one.                  *)
(***********************************************************************************)
EXTENDS MCBytefile, StaticAnalyzer

Int4(n) == <<n, 0, 0, 0>>

(* CONST 1, CONST 257, CONST -1, FAIL, CLOSURE with none and one captured variable,*)
(* DUP, and an opcode that does not exist.                                         *)
Const1   == <<16>> \o Int4(1)
Const257 == <<16, 1, 1, 0, 0>>
ConstM1  == <<16, -1, -1, -1, -1>>
FailAt   == <<89>> \o Int4(25) \o Int4(3)
Closure0 == <<84>> \o Int4(30) \o Int4(0)
Closure1 == <<84>> \o Int4(30) \o Int4(1) \o <<2>> \o Int4(0)
Dup      == <<25>>
NoOpcode == <<28>>
StopCode == <<STOP>>

MCInstructions == {Const1, Const257, ConstM1, FailAt, Closure0, Closure1, Dup}
(* Every opcode of the stack machine, before zeros.                                *)
Zeros(n) == [i \in 1 .. 4 * n |-> 0]
EachInstruction == UNION {{<<x>> \o Zeros(n - 1) : x \in Opcodes[n]} : n \in 1 .. 3}

MCPrograms ==
  {<<p, q, StopCode>> : p \in EachInstruction, q \in EachInstruction} \cup
  {Append(p, StopCode) : p \in BoundedSeq(MCInstructions, 3)}
  \cup {Append(p, StopCode) : p \in BoundedSeq({Const1, Const257, Closure0}, 4)}
  \cup {<<Dup, NoOpcode, StopCode>>, <<Closure1, NoOpcode, Dup, StopCode>>}

(* Either program runs; the other one's variables stay as they are.                *)
MCInit ==
  \/ AnalyzerInit /\ file = <<>> /\ block = <<>> /\ ptr = <<>> /\ state = "none"
  \/ /\ Init /\ program = <<StopCode>> /\ ip = 1 /\ counter = <<>> /\ sorted = <<>>
     /\ printed = <<>> /\ phase = "none"

MCNext ==
  \/ AnalyzerNext /\ UNCHANGED vars
  \/ Next /\ UNCHANGED analyzerVars

MCSpec == MCInit /\ [][MCNext]_<<vars, analyzerVars>>
===================================================================================
