------------------------------ MODULE RuntimeLibrary ------------------------------
(***********************************************************************************)
(* The functions of runtime.c that allocate, as sequences of the steps of module   *)
(* RuntimeCalls.  Of a variable number of arguments, or an array of them, one word *)
(* stands for all.  C buffers and numbers are left out; the name "" stands for an  *)
(* argument that is one.                                                           *)
(***********************************************************************************)
EXTENDS Integers, Sequences, SequencesExt, TLC

CONSTANT Captures     \* numbers of variables a closure may capture

pre      == [op |-> "pre",    v |-> "", f |-> "", args |-> <<>>]
post     == [op |-> "post",   v |-> "", f |-> "", args |-> <<>>]
push(v)  == [op |-> "push",   v |-> v,  f |-> "", args |-> <<>>]
pop(v)   == [op |-> "pop",    v |-> v,  f |-> "", args |-> <<>>]
alloc(v) == [op |-> "alloc",  v |-> v,  f |-> "", args |-> <<>>]
read(v)  == [op |-> "read",   v |-> v,  f |-> "", args |-> <<>>]
let(v)   == [op |-> "let",    v |-> v,  f |-> "", args |-> <<>>]
global(v) == [op |-> "global", v |-> v, f |-> "", args |-> <<>>]
call(v, f, args) == [op |-> "call", v |-> v, f |-> f, args |-> args]

-----------------------------------------------------------------------------------
LmakeArray  == <<pre, alloc("r"), read("r"), post>>
LmakeString == <<pre, alloc("r"), read("r"), post>>

Bstring ==
  <<read("p"), pre, push("p"), call("s", "LmakeString", <<>>), pop("p"),
    read("p"), read("s"), post>>

Lstring ==
  <<pre, read("p"), push("p"), call("s", "Bstring", <<"">>), pop("p"), post>>
Lstringcat ==
  <<pre, read("p"), push("p"), call("s", "Bstring", <<"">>), pop("p"), post>>
Lsprintf ==
  <<read("fmt"), pre, push("fmt"), call("s", "Bstring", <<"">>), pop("fmt"), post>>
LgetEnv   == <<read("var"), pre, call("s", "Bstring", <<"">>), post>>
LreadLine == <<call("s", "Bstring", <<"">>)>>

(* The name is read again if the file cannot be read.                              *)
Lfread == <<read("fname"), call("s", "LmakeString", <<>>), read("s"), read("fname")>>

Lsubstring ==
  <<read("subj"), pre, push("subj"), alloc("r"), pop("subj"), read("r"), read("subj"), post>>

(* Li__Infix_4343.                                                                 *)
Strcat ==
  <<read("a"), read("b"), pre, push("a"), push("b"), alloc("d"), pop("b"), pop("a"),
    read("d"), read("a"), read("b"), post>>

(* Ls__Infix_58 passes its operands to Bsexp, whose copies of them are not roots.  *)
ConsCell ==
  <<pre, push("p"), push("q"), call("res", "Bsexp", <<"p", "q">>), pop("q"), pop("p"), post>>

(* Lclone, of an unboxed value, of a string, and of any other object.              *)
CloneUnboxed == <<pre>>
CloneString  ==
  <<pre, read("p"), push("p"), call("res", "Bstring", <<"p">>), pop("p"), post>>
CloneObject  ==
  <<pre, read("p"), push("p"), alloc("res"), read("p"), read("res"), pop("p"), post>>

Barray    == <<pre, alloc("r"), read("r"), read("first"), post>>
Bsexp     == <<pre, alloc("r"), read("r"), read("first"), read("second"), post>>

(* The interpreter's array of operands is a piece of its own stack.                *)
Barray_arr == <<pre, alloc("r"), read("r"), post>>
Bsexp_arr  == <<pre, alloc("r"), read("r"), post>>

(* A closure pushes one root for each captured variable, but the words it pushes   *)
(* are some that lie further up the C stack.                                       *)
Above(n) == [i \in 1 .. n |-> <<"w1", "w2", "w3", "w4", "w5">>[i]]
Pushed(n) == [i \in 1 .. n |-> push(Above(n)[i])]
Popped(n) == [i \in 1 .. n |-> pop(Above(n)[n + 1 - i])]

Bclosure(n) ==
  <<pre>> \o Pushed(n) \o <<alloc("r"), read("r")>>
  \o (IF n > 0 THEN <<read("first")>> ELSE <<>>) \o <<post>> \o Popped(n)

Bclosure_arr(n) ==
  <<pre>> \o Pushed(n) \o <<alloc("r"), read("r")>>
  \o (IF n > 0 THEN <<read("values")>> ELSE <<>>) \o <<post>> \o Popped(n)

(* eval_closure copies the captured variables to an array of its own.              *)
eval_closure(f) == <<let("args"), call("", f, <<"args">>)>>

(* set_args with two arguments.  C does not say whether p is read before Bstring   *)
(* is called or after it.                                                          *)
StoreAfter  == <<call("s", "Bstring", <<"">>), read("p")>>
StoreBefore == <<let("t"), call("s", "Bstring", <<"">>), read("t")>>

set_args(store) ==
  <<pre, call("p", "LmakeArray", <<>>), push("p")>> \o store \o store
  \o <<pop("p"), post, global("sysargs")>>

-----------------------------------------------------------------------------------
(* The tables of module RuntimeCalls.                                              *)
Named(n, prefix) == prefix \o ToString(n)

LibraryBody ==
  "LmakeArray" :> LmakeArray @@ "LmakeString" :> LmakeString @@ "Bstring" :> Bstring
  @@ "Lstring" :> Lstring @@ "Lstringcat" :> Lstringcat @@ "Lsprintf" :> Lsprintf
  @@ "LgetEnv" :> LgetEnv @@ "LreadLine" :> LreadLine @@ "Lfread" :> Lfread
  @@ "Lsubstring" :> Lsubstring @@ "Li__Infix_4343" :> Strcat @@ "Ls__Infix_58" :> ConsCell
  @@ "Lclone_unboxed" :> CloneUnboxed @@ "Lclone_string" :> CloneString
  @@ "Lclone_object" :> CloneObject @@ "Barray" :> Barray @@ "Bsexp" :> Bsexp
  @@ "Barray_arr" :> Barray_arr @@ "Bsexp_arr" :> Bsexp_arr
  @@ "set_args" :> set_args(StoreAfter) @@ "set_args_early" :> set_args(StoreBefore)
  @@ [f \in {Named(n, "Bclosure") : n \in Captures} |->
        Bclosure(CHOOSE n \in Captures : Named(n, "Bclosure") = f)]
  @@ [f \in {Named(n, "Bclosure_arr") : n \in Captures} |->
        Bclosure_arr(CHOOSE n \in Captures : Named(n, "Bclosure_arr") = f)]
  @@ [f \in {Named(n, "eval_closure") : n \in Captures} |->
        eval_closure(Named(CHOOSE n \in Captures : Named(n, "eval_closure") = f, "Bclosure_arr"))]

LibraryFunctions == DOMAIN LibraryBody

LibraryStarters == {"set_args", "set_args_early"}

LibraryParams ==
  [f \in {"Bstring", "Lstring", "Lstringcat", "Lclone_unboxed", "Lclone_string",
          "Lclone_object"} |-> <<"p">>]
  @@ "Lsprintf" :> <<"fmt">> @@ "LgetEnv" :> <<"var">> @@ "Lfread" :> <<"fname">>
  @@ "Lsubstring" :> <<"subj">> @@ "Li__Infix_4343" :> <<"a", "b">>
  @@ "Ls__Infix_58" :> <<"p", "q">> @@ "Barray" :> <<"first">> @@ "Bsexp" :> <<"first", "second">>
  @@ [f \in {Named(n, "Bclosure") : n \in Captures} |-> <<"first">>]
  @@ [f \in {Named(n, "Bclosure_arr") : n \in Captures} |-> <<"values">>]
  @@ [f \in LibraryFunctions \cup {"code", "eval"} |-> <<>>]

(* A function of compiled code keeps a pointer on the C stack, eval none.          *)
LibraryVariables ==
  [f \in LibraryFunctions |->
     (ToSet(LibraryParams[f]) \cup {LibraryBody[f][i].v : i \in DOMAIN LibraryBody[f]}) \ {""}]
  @@ "code" :> {"x"} @@ "eval" :> {}

(* The interpreter calls five functions; compiled code calls any but those written *)
(* for the interpreter.                                                            *)
ForEval == {"Bstring", "Lstring", "Barray_arr", "Bsexp_arr"}
           \cup {Named(n, "eval_closure") : n \in Captures}
ForCode == LibraryFunctions \ (LibraryStarters \cup {"Barray_arr", "Bsexp_arr"}
           \cup {Named(n, "eval_closure") : n \in Captures}
           \cup {Named(n, "Bclosure_arr") : n \in Captures})
LibraryCalls == "eval" :> ForEval @@ "code" :> ForCode \cup {"code"}

HeldBy(body) ==
  LET held[i \in 1 .. Len(body) + 1] ==
        IF i = 1 THEN <<>>
        ELSE CASE body[i - 1].op = "push" -> Append(held[i - 1], body[i - 1].v)
               [] body[i - 1].op = "pop" /\ held[i - 1] # <<>> -> Front(held[i - 1])
               [] OTHER -> held[i - 1]
  IN  held
LibraryHeld == [f \in LibraryFunctions |-> HeldBy(LibraryBody[f])]

(* Bstring is called with one root of the caller's in the pool, LmakeString with   *)
(* one of Bstring's besides, Bsexp with the two operands of Ls__Infix_58, each     *)
(* behind the global root.                                                         *)
LibraryBefore ==
  "Bstring" :> 2 @@ [f \in {"LmakeString", "Bsexp"} |-> 3] @@ [f \in LibraryStarters |-> 0]
  @@ [f \in LibraryFunctions |-> 1]

(* Its variables that may be stale before each step of a body, called with fresh   *)
(* arguments, where those of scanned are found by every collection in it.          *)
StaleBy(f, scanned) ==
  LET stale[i \in 1 .. Len(LibraryBody[f]) + 1] ==
        IF i = 1 THEN {}
        ELSE LET step    == LibraryBody[f][i - 1]
                 exposed == LibraryVariables[f] \ (ToSet(LibraryHeld[f][i - 1]) \cup scanned)
             IN  CASE step.op \in {"alloc", "call"} -> (stale[i - 1] \cup exposed) \ {step.v}
                   [] step.op = "let" -> stale[i - 1] \ {step.v}
                   [] OTHER -> stale[i - 1]
  IN  stale
LibraryStaleAt    == [f \in LibraryFunctions |-> StaleBy(f, ToSet(LibraryParams[f]))]
LibraryStaleAbove == [f \in LibraryFunctions |-> StaleBy(f, {})]

(* What the code does with stale variables: Ls__Infix_58 passes its operands on to *)
(* Bsexp, eval_closure keeps the variables it captures in an array, and set_args   *)
(* may read the address of its array before the call that moves it.                *)
LibraryOffenders ==
  {<<"Ls__Infix_58", "Bsexp">>, <<"", "set_args_early">>}
  \cup {<<Named(n, "eval_closure"), Named(n, "Bclosure_arr")>> : n \in Captures}
===================================================================================
