-------------------------------- MODULE LamaValues --------------------------------
(***********************************************************************************)
(* The functions of runtime.c that print a value: printValue and stringcat.        *)
(***********************************************************************************)
EXTENDS ValueComparison

CONSTANT
  ConsTag        \* the constructor of list cells, "cons"

(* The calls of printStringBuf for a value, as the texts they print: a number, a   *)
(* constructor's name and a piece of punctuation count as one character each.      *)
Punct(s)    == <<<<"punct", s>>>>
Number(n)   == <<<<"number", n>>>>
Name(v)     == <<<<"name", v.tag>>>>
Contents(v) == [i \in DOMAIN Chars(v.bytes) |-> <<"char", Chars(v.bytes)[i]>>]

(* The elements of a list: its cells end at the first tail that is not boxed.      *)
IsCell(v) == v.kind = "sexp" /\ v.tag = ConsTag
RECURSIVE Elements(_)
Elements(cell) == IF IsCell(cell) THEN <<cell.elems[1]>> \o Elements(cell.elems[2]) ELSE <<>>

Separated(groups) ==
  FlattenSeq([i \in DOMAIN groups |->
                IF i = Len(groups) THEN groups[i] ELSE Append(groups[i], Punct(", "))])

RECURSIVE printValue(_)
printValue(v) ==
  LET inside(elems) == Separated([i \in DOMAIN elems |-> printValue(elems[i])])
  IN  CASE v.kind = "int"     -> <<Number(v.n)>>
        [] v.kind = "string"  -> <<Punct("'") \o Contents(v) \o Punct("'")>>
        [] v.kind = "array"   -> <<Punct("[")>> \o inside(v.elems) \o <<Punct("]")>>
        [] v.kind = "closure" ->
             <<Punct("<closure ")>> \o Separated(<<<<Number(v.tag)>>>>
               \o [i \in DOMAIN v.elems |-> printValue(v.elems[i])]) \o <<Punct(">")>>
        [] IsCell(v)          -> <<Punct("{")>> \o inside(Elements(v)) \o <<Punct("}")>>
        [] OTHER              ->
             <<Name(v)>> \o (IF v.elems = <<>> THEN <<>>
                             ELSE <<Punct(" (")>> \o inside(v.elems) \o <<Punct(")")>>)

RECURSIVE stringcat(_)
stringcat(v) ==
  CASE v.kind = "int"    -> <<>>
    [] v.kind = "string" -> <<Contents(v)>>
    [] IsCell(v)         ->
         FlattenSeq([i \in DOMAIN Elements(v) |-> stringcat(Elements(v)[i])])
    [] v.kind = "sexp"   -> <<Punct("*** non-list tag: ") \o Name(v) \o Punct(" ***")>>
    [] OTHER             -> <<Punct("*** invalid tag: ") \o Number(KindTag[v.kind]) \o Punct(" ***")>>
===================================================================================
