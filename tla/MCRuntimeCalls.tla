------------------------------ MODULE MCRuntimeCalls ------------------------------
(***********************************************************************************)
(* The functions of module RuntimeLibrary, run by RuntimeCalls with a pool of four *)
(* roots in place of 32.                                                           *)
(***********************************************************************************)
EXTENDS RuntimeCalls, RuntimeLibrary

MCCaptures == {0, 2, 4}
===================================================================================
