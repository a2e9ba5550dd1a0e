--------------------------------- MODULE Patterns ---------------------------------
(***********************************************************************************)
(* The pattern instructions: PATT, TAG and ARRAY of eval (iterative_interpreter.cpp*)
(* eval_patt, eval_tag, eval_array) over the tests of the runtime (runtime.c, the  *)
(* B..._patt functions and Btag).  A match pushes values, tests the top one or two *)
(* and branches on the answer; what it pushes is left open here.                   *)
(***********************************************************************************)
EXTENDS Naturals, Sequences, SequencesExt

CONSTANTS Ints,       \* unboxed values
          Contents,   \* contents of strings
          Tags,       \* hashes of constructor names
          MaxLen,     \* bound: components of an array or an S-expression
          MaxDepth    \* bound: values on the stack

(* A test answers with the integer 0 or 1.                                         *)
ASSUME AnswersAssumption == {0, 1} \subseteq Ints

Sizes == 0 .. MaxLen

(* Values by what the tests look at: the low bit, the kind and the length in the   *)
(* header, the constructor's hash, the contents of a string.  The raw 0 of Lwrite  *)
(* is even, and no object.                                                         *)
Null   == [kind |-> "null"]
Boxed  == [kind : {"string"}, of : Contents] \cup [kind : {"array"}, len : Sizes]
          \cup [kind : {"sexp"}, tag : Tags, len : Sizes] \cup [kind : {"fun"}]
Values == [kind : {"val"}, of : Ints] \cup Boxed \cup {Null}

VARIABLES ops,      \* the operands, top last
          status,   \* "run", "failed" (an assertion) or "trapped" (a bad address)
          tested    \* history: the last test, the operands it found, its answer

vars == <<ops, status, tested>>

(* The disassembler's names for the instructions 0x60 .. 0x66.                     *)
pats == <<"=str", "#string", "#array", "#sexp", "#ref", "#val", "#fun">>

-----------------------------------------------------------------------------------
(* The tests of the runtime.                                                       *)
UNBOXED(x) == x.kind = "val"

(* Mutant of Btag: the number of components is not compared.                       *)
Btag_AnyLength(d, t, n) == d.kind = "sexp" /\ d.tag = t

Btag(d, t, n)     == d.kind = "sexp" /\ d.tag = t /\ d.len = n
Barray_patt(d, n) == d.kind = "array" /\ d.len = n

(* eval_patt: the test that answers instruction 0x60 + k.                          *)
TagTest(k, x) ==
  CASE k = 1 -> x.kind = "string"
    [] k = 2 -> x.kind = "array"
    [] k = 3 -> ~UNBOXED(x)
    [] k = 4 -> x.kind = "sexp"
    [] k = 5 -> UNBOXED(x)
    [] k = 6 -> x.kind = "fun"

-----------------------------------------------------------------------------------
Init == ops = <<>> /\ status = "run" /\ tested = <<>>

Push(v) ==
  /\ Len(ops) < MaxDepth /\ ops' = Append(ops, v)
  /\ UNCHANGED <<status, tested>>

(* n operands are popped and the answer is pushed, boxed.                          *)
Reply(n, test, yes) ==
  LET r == IF yes THEN 1 ELSE 0 IN
  /\ ops' = Append(SubSeq(ops, 1, Len(ops) - n), [kind |-> "val", of |-> r])
  /\ tested' = [test |-> test, found |-> ops, answer |-> r]
  /\ UNCHANGED status

End(how) == status' = how /\ UNCHANGED <<ops, tested>>

(* A test of the top word; one that reads its header traps on the raw 0.           *)
Unary(test, readsHeader, yes(_)) ==
  /\ ops # <<>>
  /\ IF readsHeader /\ Last(ops) = Null
     THEN End("trapped") ELSE Reply(1, test, yes(Last(ops)))

Tag(t, n) == Unary(<<"TAG", t, n>>, TRUE, LAMBDA d : Btag(d, t, n))
Array(n)  == Unary(<<"ARRAY", n>>, TRUE, LAMBDA d : Barray_patt(d, n))
Patt(k)   == Unary(<<pats[k + 1]>>, k \notin {3, 5}, LAMBDA d : TagTest(k, d))

(* Mutant of StringPatt: without the assertion and the test of x's kind, another   *)
(* object's contents are compared, and may agree.                                  *)
StringPatt_Unchecked ==
  /\ Len(ops) >= 2
  /\ LET x == ops[Len(ops)]
         y == ops[Len(ops) - 1]
     IN  IF {x.kind, y.kind} \cap {"val", "null"} # {} THEN End("trapped")
         ELSE Reply(2, <<pats[1]>>, {x.kind, y.kind} = {"string"} => x.of = y.of)

(* =str is Bstring_patt(x, y) with x the top word and y the one below.  First y,   *)
(* unless unboxed, is asserted to be a string; then x is tested; an unboxed y is   *)
(* not noticed before its contents are compared.                                   *)
StringPatt ==
  /\ Len(ops) >= 2
  /\ LET x == ops[Len(ops)]
         y == ops[Len(ops) - 1]
     IN  IF y = Null THEN End("trapped")
         ELSE IF y.kind \notin {"val", "string"} THEN End("failed")
         ELSE IF x = Null \/ (x.kind = "string" /\ UNBOXED(y)) THEN End("trapped")
         ELSE Reply(2, <<pats[1]>>, x.kind = "string" /\ x.of = y.of)

Next ==
  /\ status = "run"
  /\ \/ \E v \in Values : Push(v)
     \/ \E t \in Tags, n \in Sizes : Tag(t, n)
     \/ \E n \in Sizes : Array(n)
     \/ \E k \in 1 .. 6 : Patt(k)
     \/ StringPatt

Spec == Init /\ [][Next]_vars

-----------------------------------------------------------------------------------
(* The values each pattern stands for, the literal of =str being the top word.     *)
Matching(test, literal) ==
  CASE test[1] = "TAG"     -> {[kind |-> "sexp", tag |-> test[2], len |-> test[3]]}
    [] test[1] = "ARRAY"   -> {[kind |-> "array", len |-> test[2]]}
    [] test[1] = "=str"    -> {literal}
    [] test[1] = "#string" -> {v \in Boxed : v.kind = "string"}
    [] test[1] = "#array"  -> {v \in Boxed : v.kind = "array"}
    [] test[1] = "#sexp"   -> {v \in Boxed : v.kind = "sexp"}
    [] test[1] = "#fun"    -> {v \in Boxed : v.kind = "fun"}
    [] test[1] = "#ref"    -> Boxed \cup {Null}
    [] test[1] = "#val"    -> {v \in Values : UNBOXED(v)}

Correct(t) ==
  LET literal == Last(t.found)
      value   == IF t.test[1] = "=str" THEN t.found[Len(t.found) - 1] ELSE literal
  IN  t.answer = 1 <=> value \in Matching(t.test, literal)

Tested(names) == tested # <<>> /\ tested.test[1] \in names

(* The tests of constructors, arrays and kinds answer for the whole value: its     *)
(* kind, its constructor and its number of components, and no test takes the raw   *)
(* fields of one kind for those of another (Btag, Barray_patt, the tag tests).     *)
KindsTested ==
  Tested({"TAG", "ARRAY", "#string", "#array", "#val", "#fun"}) => Correct(tested)

(* A match of a string literal (the top word) answers for strings only: given any  *)
(* other scrutinee Bstring_patt, called with the literal as its first argument,    *)
(* ends the process instead of answering no.                                       *)
StringsOnly ==
  Tested({"=str"}) /\ Last(tested.found).kind = "string" =>
    /\ tested.found[Len(tested.found) - 1].kind = "string"
    /\ Correct(tested)

(* Each instruction 0x61 .. 0x66 tests what the disassembler calls it              *)
(* (byterun.c, pats).                                                              *)
NamesRight ==
  Tested(ToSet(pats) \ {"=str"}) /\ Last(tested.found) # Null => Correct(tested)
===================================================================================
