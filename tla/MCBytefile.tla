-------------------------------- MODULE MCBytefile --------------------------------
(***********************************************************************************)
(* Files with up to two public symbols, for the struct of either program.          *)
(***********************************************************************************)
EXTENDS Bytefile

MCPublics == BoundedSeq({<<0, 0>>, <<5, 12>>}, 2)
MCFiles   == [strings : {5, 8}, globals : {0, 3}, publics : MCPublics, code : {4, 9}]
===================================================================================
