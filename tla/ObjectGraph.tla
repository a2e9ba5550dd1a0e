------------------------------- MODULE ObjectGraph --------------------------------
(***********************************************************************************)
(* What the allocator and its collector promise to the program: a stack of words   *)
(* and a graph of objects, with no addresses, no spaces and no collections.  The   *)
(* graph is kept in a form of its own: its objects are numbered in the order in    *)
(* which a breadth-first walk from the stack meets them, and what the walk does not*)
(* meet is not there.                                                              *)
(***********************************************************************************)
EXTENDS ObjectWords

CONSTANT Progs     \* the programs: [ops, depth], see HeapClient

VARIABLES
  code,      \* the program that is run
  graph,     \* [roots, objects]: the stack, and <<header, hash, components>> of each object
  making     \* the constructor that waits for memory: [op, n]

vars == <<code, graph, making>>

-----------------------------------------------------------------------------------
Leads(w) == w.t = "ptr"
Walked(roots, objects) == Canonical(roots, Leads, LAMBDA b : objects[b])

-----------------------------------------------------------------------------------
Depth    == Len(graph.roots)
Peek(k)  == graph.roots[Depth - k]
Below(n) == SubSeq(graph.roots, 1, Depth - n)
Top(n)   == SubSeq(graph.roots, Depth - n + 1, Depth)

Nothing == [op |-> "none", n |-> 0]

Becomes(roots, objects) ==
  graph' = Walked(roots, objects) /\ UNCHANGED <<code, making>>

Const   == Becomes(Append(graph.roots, IntW(0)), graph.objects)
Drop    == Becomes(Below(1), graph.objects)
Ld(i)   == Becomes(Append(graph.roots, graph.roots[i]), graph.objects)
St(i)   == Becomes([graph.roots EXCEPT ![i] = Peek(0)], graph.objects)

(* w is an array or an S-expression with a component k.                            *)
Has(w, k) == Leads(w) /\ graph.objects[w.b][1].a \in {ARRAY_TAG, SEXP_TAG} /\ k < graph.objects[w.b][1].b

Elem(k) ==
  /\ Has(Peek(0), k)
  /\ Becomes(Append(Below(1), graph.objects[Peek(0).b][3][k + 1]), graph.objects)

Sta(k) ==
  /\ Depth >= 2 /\ Has(Peek(1), k)
  /\ Becomes(Append(Below(2), Peek(0)),
             [graph.objects EXCEPT ![Peek(1).b][3][k + 1] = Peek(0)])

Execute(op, n) ==
  \/ op = "CONST" /\ Const
  \/ op = "DROP"  /\ Drop
  \/ op = "LD"    /\ n <= Depth /\ Ld(n)
  \/ op = "ST"    /\ n <= Depth /\ St(n)
  \/ op = "ELEM"  /\ Elem(n)
  \/ op = "STA"   /\ Sta(n)

(* An instruction that makes an object asks for memory and may never get it; when  *)
(* it does, the object stands where its operands were, in the order they were      *)
(* pushed, and nothing else has changed.                                           *)
Ask(op, n) == making' = [op |-> op, n |-> n] /\ UNCHANGED <<code, graph>>

Made(taken, object) ==
  /\ graph' = Walked(Append(Below(taken), Ptr(0, Len(graph.objects) + 1)),
                     Append(graph.objects, object))
  /\ making' = Nothing /\ UNCHANGED code

Make ==
  LET n    == making.n
      text == <<Header(STRING_TAG, n), Zero, [j \in 1 .. n \div 4 + 1 |-> Raw(2)]>>
  IN
  \/ making.op = "BARRAY"  /\ Made(n, <<Header(ARRAY_TAG, n), Zero, Top(n)>>)
  \/ making.op = "SEXP"    /\ Made(n, <<Header(SEXP_TAG, n), Raw(0), Top(n)>>)
  \/ making.op = "CLOSURE" /\ Made(0, <<Header(CLOSURE_TAG, 2), Zero, <<Raw(1), graph.roots[n]>>>>)
  \/ making.op = "STRING"  /\ Made(0, text)
  \/ making.op = "LSTRING" /\ Made(1, text)

Init ==
  /\ code \in Progs /\ making = Nothing
  /\ graph = [roots |-> <<IntW(2)>>, objects |-> <<>>]

Next == \/ making = Nothing /\ \E i \in code.ops : Execute(i[1], i[2]) \/ Ask(i[1], i[2])
        \/ Make

Spec == Init /\ [][Next]_vars
===================================================================================
