-------------------------------- MODULE MCRootScan --------------------------------
(***********************************************************************************)
(* A stack of four words at 32 .. 44, the code at 8 .. 15, the from-space at       *)
(* 60 .. 67 with objects at 60 and 64.  The words are null, a raw argument count,  *)
(* a code address, a saved frame pointer, the bottom itself, the two objects, an   *)
(* odd word and one with the bits of an address in the heap.                       *)
(***********************************************************************************)
EXTENDS RootScan, TLC

MCWords == {0, 2, 12, 40, 48, 60, 61, 64, 1}
MCCopy  == 60 :> 92 @@ 61 :> 0 @@ 64 :> 96
===================================================================================
