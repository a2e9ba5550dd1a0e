------------------------------ MODULE MCStackMachine ------------------------------
(***********************************************************************************)
(* Small programs for StackMachine.  In AnyProg one address of each body may hold  *)
(* any of the listed instructions, and the next one jumps back to it: it stands for*)
(* every program made of those instructions.  The other two are programs with a    *)
(* known result, with the code the compiler emits for them.                        *)
(***********************************************************************************)
EXTENDS StackRefinement, TLC

MCStrings == {<<0>>}
NoStrings == {}

Function(argc, nloc, ncap, closure) ==
  [argc |-> argc, nloc |-> nloc, ncap |-> ncap, closure |-> closure]

(* main chooses one of three sections, each with functions of its own.  In the     *)
(* second, an operand that nothing takes lies below, and in the third one operand  *)
(* and two locals: fewer words of the stack are left.                              *)
AnyEntry == [p \in 1 .. 22 |-> IF p < 12 THEN 1 ELSE IF p < 15 THEN 12
                               ELSE IF p < 18 THEN 15
                               ELSE IF p < 21 THEN 18 ELSE 21]
AnyCode  == 1 :> Function(2, 0, 0, FALSE) @@ 12 :> Function(2, 1, 0, FALSE)
            @@ 15 :> Function(1, 0, 1, TRUE) @@ 18 :> Function(0, 2, 0, FALSE)
            @@ 21 :> Function(0, 0, 2, TRUE)
AnyProg  ==
  LET section ==
        1 :> {<<"BEGIN", 2, 0>>} @@ 2 :> {<<"JMP", 3>>, <<"JMP", 5>>, <<"JMP", 9>>}
        \* Calls of a function of two arguments and one local; addresses of variables.
        @@ 3 :> {<<"CONST", 1>>, <<"LDA", "A", 0>>, <<"STA">>, <<"CALL", 12, 2>>, <<"END">>}
        @@ 12 :> {<<"BEGIN", 2, 1>>}
        @@ 13 :> {<<"CONST", 1>>, <<"BINOP", "SUB">>, <<"SWAP">>, <<"LD", "A", 1>>,
                  <<"ST", "L", 0>>, <<"LDA", "A", 0>>, <<"LDA", "L", 0>>, <<"STA">>,
                  <<"CJMPZ", 14>>, <<"CALL", 12, 2>>, <<"END">>}
        \* Closures: a function of one argument and one captured variable.
        @@ 5 :> {<<"CONST", 1>>} @@ 6 :> {<<"LINE">>}
        @@ 7 :> {<<"CONST", 1>>, <<"CLOSURE", 15, <<<<"G", 0>>>>>>, <<"ST", "G", 0>>,
                 <<"CALLC", 1>>, <<"END">>}
        @@ 15 :> {<<"CBEGIN", 1, 0>>}
        @@ 16 :> {<<"LD", "C", 0>>, <<"ST", "C", 0>>, <<"LDA", "C", 0>>, <<"LD", "A", 0>>,
                  <<"STA">>, <<"CLOSURE", 15, <<<<"A", 0>>>>>>, <<"CALLC", 1>>, <<"END">>}
        \* Objects, built-in calls and the ways to stop.
        @@ 9 :> {<<"STRING", <<0>>>>} @@ 10 :> {<<"CALL", 18, 0>>} @@ 11 :> {<<"END">>}
        @@ 18 :> {<<"BEGIN", 0, 2>>}
        @@ 19 :> {<<"CONST", 0>>, <<"STRING", <<0>>>>, <<"SEXP", 2, TRUE>>, <<"SEXP", 0, FALSE>>,
                  <<"BARRAY", 1>>, <<"STA">>, <<"ELEM">>, <<"TAG", TRUE>>, <<"TAG", FALSE>>,
                  <<"ARRAY">>, <<"PATT", 2>>, <<"LREAD">>, <<"LWRITE">>, <<"LLENGTH">>,
                  <<"LSTRING">>, <<"LINE">>, <<"DROP">>, <<"DUP">>, <<"BINOP", "DIV">>,
                  <<"LD", "G", 0>>, <<"CLOSURE", 21, <<<<"G", 0>>, <<"G", 0>>>>>>,
                  <<"CJMPNZ", 19>>, <<"END">>, <<"FAIL">>, <<"STOP">>}
        \* A function that captures one variable more than CLOSURE takes.
        @@ 21 :> {<<"CBEGIN", 0, 0>>} @@ 22 :> {<<"END">>}
  IN  [p \in 1 .. 22 |-> IF p \in DOMAIN section THEN section[p] ELSE {<<"JMP", p - 1>>}]

(* Two programs with one main, which begins by a jump to the one or the other.     *)
(*                                                                                 *)
(* fun fact (n) { if n == 0 then 1 else n * fact (n - 1) fi }                      *)
(* g := read (); fact (g)                                                          *)
(*                                                                                 *)
(* fun make (a, b) { fun (x) { a := a - x; a - b } }                               *)
(* g := [read (), 3]; c := make (g[0], 2); c (g[1]); c (g[1])                      *)
ProgramsCode == 1 :> Function(2, 0, 0, FALSE) @@ 31 :> Function(1, 0, 0, FALSE)
                @@ 45 :> Function(2, 0, 0, FALSE) @@ 48 :> Function(1, 0, 2, TRUE)
ProgramsEntry == [p \in 1 .. 56 |-> IF p < 31 THEN 1 ELSE IF p < 45 THEN 31
                                    ELSE IF p < 48 THEN 45 ELSE 48]
ProgramsText ==
  <<<<"BEGIN", 2, 0>>, <<"JMP", 3>>,
    <<"LREAD">>, <<"ST", "G", 0>>, <<"DROP">>, <<"LD", "G", 0>>, <<"CALL", 31, 1>>, <<"END">>,
    <<"LREAD">>, <<"CONST", 3>>, <<"BARRAY", 2>>, <<"ST", "G", 0>>, <<"DROP">>,
    <<"LD", "G", 0>>, <<"CONST", 0>>, <<"ELEM">>, <<"CONST", 2>>,
    <<"CALL", 45, 2>>, <<"ST", "G", 1>>,
    <<"LD", "G", 0>>, <<"CONST", 1>>, <<"ELEM">>, <<"CALLC", 1>>, <<"DROP">>,
    <<"LD", "G", 1>>, <<"LD", "G", 0>>, <<"CONST", 1>>, <<"ELEM">>, <<"CALLC", 1>>, <<"END">>,
    <<"BEGIN", 1, 0>>, <<"LD", "A", 0>>, <<"CONST", 0>>, <<"BINOP", "EQUAL">>,
    <<"CJMPZ", 38>>, <<"CONST", 1>>, <<"JMP", 44>>,
    <<"LD", "A", 0>>, <<"LD", "A", 0>>, <<"CONST", 1>>, <<"BINOP", "SUB">>,
    <<"CALL", 31, 1>>, <<"BINOP", "PROD">>, <<"END">>,
    <<"BEGIN", 2, 0>>, <<"CLOSURE", 48, <<<<"A", 0>>, <<"A", 1>>>>>>, <<"END">>,
    <<"CBEGIN", 1, 0>>, <<"LD", "C", 0>>, <<"LD", "A", 0>>, <<"BINOP", "SUB">>,
    <<"ST", "C", 0>>, <<"LD", "C", 1>>, <<"BINOP", "SUB">>, <<"LINE">>, <<"END">>>>
ProgramsProg == [p \in 1 .. 56 |-> {ProgramsText[p]} \cup (IF p = 2 THEN {<<"JMP", 9>>} ELSE {})]

(* The recursive factorial computes the factorial of what was read, in machine     *)
(* integers.  Reading a negative number recurses until the stack is full, or until *)
(* n - 1 wraps to a positive one.                                                  *)
Factorial == LET fact[n \in 0 .. Half] == IF n = 0 THEN 1 ELSE Wrap(n * fact[n - 1])
             IN  fact
FactorialResult ==
  globals[1].t = "int" /\ globals[1].v >= 0 =>
    /\ status = "run"
    /\ ip = 0 /\ heap = <<>> => stack[1] = IntW(Factorial[globals[1].v])

(* The variable a belongs to the closure, is decremented by 3 twice, and the second*)
(* call returns it less b.  Element 0 of the array is the number read.             *)
CounterResult ==
  ip = 0 /\ heap # <<>> => stack[1] = IntW(Wrap(heap[globals[1].v].elems[1].v - 8))

(* The program ends for every input: it returns or the stack overflows.            *)
Terminates == <>(ip = 0 \/ status # "run")
===================================================================================
