--------------------------------- MODULE MCLibrary --------------------------------
(***********************************************************************************)
(* Words of 8 bits: numbers from -64 to 63, with those at the bounds of what is    *)
(* compared rightly.  The hash keeps 5 bits, the buffer begins with 2 bytes.       *)
(***********************************************************************************)
EXTENDS LibraryValues

I(n)       == [kind |-> "int", n |-> n]
S(bytes)   == [kind |-> "string", bytes |-> bytes]
A(elems)   == [kind |-> "array", elems |-> elems]
X(t, elems) == [kind |-> "sexp", tag |-> t, elems |-> elems]
C(code, elems) == [kind |-> "closure", tag |-> code, elems |-> elems]

Numbers == {I(n) : n \in {-64, -32, -1, 0, 31, 32, 63}}
Strings == {S(s) : s \in {<<>>, <<65>>, <<66>>, <<65, 66>>, <<65, 0, 66>>, <<65, 0, 67>>, <<0>>,
                          <<65, 66, 65, 66, 65, 66, 65, 66, 65>>}}
Members   == {I(-16), I(15), I(16), S(<<65, 0, 66>>), S(<<65, 0, 67>>), S(<<65>>)}

List == X(7, <<I(1), X(7, <<S(<<65, 66, 67>>), I(0)>>)>>)
Deep == {A(<<A(<<I(n)>>)>>) : n \in {-8, 7, 8}}
        \cup {A(<<X(t, <<>>)>>) : t \in {1, 31, 32, 60}}
        \cup {A(<<A(<<A(<<A(<<I(n)>>)>>)>>)>>) : n \in {0, 1}}

MCValues ==
  Numbers \cup Strings \cup Deep
  \cup {A(<<p>>) : p \in Members} \cup {A(<<p, I(0)>>) : p \in Members} \cup {A(<<>>)}
  \cup {X(t, <<>>) : t \in {1, 60}} \cup {X(1, <<p>>) : p \in Members} \cup {List}
  \cup {C(c, <<>>) : c \in {8, 40}} \cup {C(8, <<p>>) : p \in Members}

(* And their parts.                                                                *)
WithParts(values) == values \cup UNION {ToSet(Parts(v)) : v \in values}
MCData == WithParts(WithParts(WithParts(WithParts(MCValues))))

levels[v \in MCData] ==
  Max({0} \cup {levels[Parts(v)[i]] + 1 : i \in DOMAIN Parts(v)})
MCNesting(v) == levels[v]

(* What strcmp returns is from 1 to 3 away from 0.                                 *)
MCApart(s, t) == 1 + ((Len(s) + 2 * Len(t)) % 3)

(* The characters those are printed with.                                          *)
MCPrintable ==
  ({"char"} \X {65, 66, 67}) \cup ({"number"} \X (-64 .. 63)) \cup ({"name"} \X (0 .. 63))
  \cup ({"punct"} \X {"'", "[", "]", "{", "}", " (", ")", ", ", "<closure ", ">",
                      "*** non-list tag: ", "*** invalid tag: ", " ***"})

MCNames == BoundedSeq({0, 1, 63, 64}, 6)
===================================================================================
