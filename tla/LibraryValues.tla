------------------------------- MODULE LibraryValues ------------------------------
(***********************************************************************************)
(* A call of one of the functions of runtime.c that compare, hash or print values. *)
(***********************************************************************************)
EXTENDS LamaValues, StringBuffer, ConstructorTags

(* Values are printed as texts of such characters.                                 *)
ASSUME PrintedAssumption ==
  \A v \in Data : {printValue(v), stringcat(v)} \subseteq Seq(Seq(Printable))

vars == <<bufferVars, answer, tagged>>

Init == BufferInit /\ TagInit /\ CompareInit

-----------------------------------------------------------------------------------
(* Bound: one call.  None leaves anything behind for the next.                     *)
Ready == answer.fn = "" /\ tagged = <<>> /\ printed = <<>>

Lstring    == \E v \in Data : Open(printValue(v))
Lstringcat == \E v \in Data : Open(stringcat(v))

Next ==
  \/ Ready /\ (Compare \/ Hash) /\ UNCHANGED <<bufferVars, tagged>>
  \/ Ready /\ HashName /\ UNCHANGED <<bufferVars, answer>>
  \/ Ready /\ (Lstring \/ Lstringcat) /\ UNCHANGED <<answer, tagged>>
  \/ Working /\ UNCHANGED <<answer, tagged>>

Spec == Init /\ [][Next]_vars /\ WF_vars(Working /\ UNCHANGED <<answer, tagged>>)
===================================================================================
