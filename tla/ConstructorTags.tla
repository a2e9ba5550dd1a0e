------------------------------ MODULE ConstructorTags ------------------------------
(***********************************************************************************)
(* The hashes by which S-expressions carry the names of their constructors: six    *)
(* bits a character, five characters at most (LtagHash and de_hash of runtime.c).  *)
(***********************************************************************************)
EXTENDS Integers, Sequences, FiniteSetsExt

CONSTANT
  Names              \* the constructor names in programs

(* A name is a sequence of positions in the table chars; position 64 stands for a  *)
(* character that is not in it.                                                    *)
Alphabet == 0 .. 63

ASSUME NamesAssumption == Names \subseteq Seq(Alphabet \cup {64})

VARIABLE
  tagged       \* the last call of LtagHash: its name and its hash

(* What a character is worth in a hash, by the number of those behind it.          *)
Weights == <<1, 64, 64 * 64, 64 * 64 * 64, 64 * 64 * 64 * 64, 64 * 64 * 64 * 64 * 64>>

(* The name of a hash: as many characters as it takes for nothing to be left of h. *)
de_hash(h) ==
  LET n == Min({k \in 0 .. 5 : h < Weights[k + 1]})
  IN  [i \in 1 .. n |-> (h \div Weights[n - i + 1]) % 64]

(* The hash of the first characters of a name, as many as the limit allows, or -1  *)
(* if one of them is not in the table, or if the hash is not that of the name.     *)
HashWithin(name, limit) ==
  LET hash[k \in 0 .. limit] ==
        IF k = 0 THEN 0 ELSE IF k > Len(name) THEN hash[k - 1] ELSE 64 * hash[k - 1] + name[k]
      found == \A i \in DOMAIN name : i <= limit => name[i] \in Alphabet
  IN  IF found /\ de_hash(hash[limit]) = name THEN hash[limit] ELSE -1

(* Mutant of LtagHash: the limit is off by one.                                    *)
LtagHash_FourCharacters(name) == HashWithin(name, 4)

LtagHash(name) == HashWithin(name, 5)

-----------------------------------------------------------------------------------
TagInit == tagged = <<>>

HashName == \E name \in Names : tagged' = <<name, LtagHash(name)>>

TagSpec == TagInit /\ [][HashName]_tagged

(* A constructor has a hash, of 30 bits, exactly if it has at most five letters of *)
(* the alphabet and does not begin with `_' (LtagHash, de_hash).                   *)
TagNames ==
  tagged # <<>> =>
    LET name == tagged[1]  hash == tagged[2] IN
    /\ hash \in -1 .. Weights[6] - 1
    /\ hash >= 0 <=>
         /\ Len(name) <= 5 /\ \A i \in DOMAIN name : name[i] \in Alphabet
         /\ name # <<>> => name[1] # 0
===================================================================================
