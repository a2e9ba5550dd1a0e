------------------------------- MODULE ObjectWords --------------------------------
(***********************************************************************************)
(* The words of the heap and the graph they lead to.                               *)
(***********************************************************************************)
EXTENDS Integers, Sequences, SequencesExt

(* Words.  Integers and headers are odd; code addresses and constructor hashes are *)
(* never taken for pointers into the heap.                                         *)
STRING_TAG  == 1
ARRAY_TAG   == 3
SEXP_TAG    == 5
CLOSURE_TAG == 7

W(t, a, b)       == [t |-> t, a |-> a, b |-> b]
IntW(n)          == W("int", n, 0)
Header(tag, len) == W("header", tag, len)
Raw(n)           == W("raw", n, 0)     \* a hash, a label, or four characters
Zero             == W("zero", 0, 0)    \* fresh memory
Ptr(arena, at)   == W("ptr", arena, at)

(* The names of the objects that the words ws lead to, in the order in which a     *)
(* breadth-first walk meets them.  Named(w) says whether w leads to an object,     *)
(* whose name is w.b; Object(b) is its header, its hash and its components.        *)
Met(ws, Named(_), Object(_)) ==
  LET Names(words) == [k \in DOMAIN SelectSeq(words, Named) |-> SelectSeq(words, Named)[k].b]
      walk[queue \in Seq(Nat), met \in Seq(Nat)] ==
        IF queue = <<>> THEN met
        ELSE IF Head(queue) \in ToSet(met) THEN walk[Tail(queue), met]
        ELSE walk[Tail(queue) \o Names(Object(Head(queue))[3]), Append(met, Head(queue))]
  IN  walk[Names(ws), <<>>]

(* The graph that ws lead to, in a form that does not depend on where the objects  *)
(* are: each is numbered by its place in the walk.                                 *)
Canonical(ws, Named(_), Object(_)) ==
  LET numbered[met \in Seq(Nat)] ==
        LET Renamed(words) ==
              [k \in DOMAIN words |->
                 IF Named(words[k]) THEN Ptr(0, SelectInSeq(met, LAMBDA b : b = words[k].b))
                 ELSE words[k]]
        IN  [roots   |-> Renamed(ws),
             objects |-> [k \in DOMAIN met |->
                            LET o == Object(met[k]) IN <<o[1], o[2], Renamed(o[3])>>]]
  IN  numbered[Met(ws, Named, Object)]

===================================================================================
