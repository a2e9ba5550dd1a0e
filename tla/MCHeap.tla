---------------------------------- MODULE MCHeap ----------------------------------
(***********************************************************************************)
(* Instruction sets for HeapClient.                                                *)
(***********************************************************************************)
EXTENDS HeapSafety, TLC

(* Arrays, with sharing and cycles.                                                *)
GraphProg == [ops |-> {<<"CONST", 0>>, <<"DROP", 0>>, <<"LD", 2>>, <<"STA", 1>>,
                       <<"BARRAY", 0>>, <<"BARRAY", 2>>}, depth |-> 4]

(* Objects of every kind, with string lengths on both sides of a word boundary.    *)
KindsProg == [ops |-> {<<"CONST", 0>>, <<"DROP", 0>>, <<"SEXP", 0>>, <<"SEXP", 2>>,
                       <<"STRING", 3>>, <<"STRING", 4>>, <<"LSTRING", 4>>, <<"CLOSURE", 1>>,
                       <<"BARRAY", 1>>, <<"ELEM", 1>>, <<"ST", 1>>}, depth |-> 3]

(* What is enough to lose a value: two objects, one after the other.               *)
PairProg == [ops |-> {<<"BARRAY", 0>>, <<"STRING", 3>>}, depth |-> 3]

AllProgs  == {GraphProg, KindsProg}
PairProgs == {PairProg}
===================================================================================
