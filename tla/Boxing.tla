---------------------------------- MODULE Boxing ----------------------------------
(***********************************************************************************)
(* Integers of the Lama machine (include/box.h and eval_binop).  A value word      *)
(* keeps its number shifted left by one with the low bit set, so a number that     *)
(* goes through box loses its top bit: the machine computes with the signed        *)
(* integers of one bit less than the word.  Half is 2^30 in the program.           *)
(***********************************************************************************)
EXTENDS Integers

CONSTANT Half

ASSUME HalfAssumption == Half \in Nat \ {0}

(* The numbers that fit a boxed word: the results of unbox.                        *)
Ints == -Half .. Half - 1

(* unbox(box(n)): what is left of an int32 once it is boxed (n << 1 | 1, then >> 1). *)
Wrap(n) == ((n + Half) % (2 * Half)) - Half

(* C's division truncates towards zero; its remainder has the dividend's sign.     *)
Magnitude(n) == IF n < 0 THEN -n ELSE n
Quotient(x, y) ==
  LET q == Magnitude(x) \div Magnitude(y)
  IN  IF (x < 0) = (y < 0) THEN q ELSE -q
Remainder(x, y) == x - y * Quotient(x, y)

Bit(b) == IF b THEN 1 ELSE 0

BinopNames == {"ADD", "SUB", "PROD", "DIV", "MOD", "LESS", "ELESS", "GREATER",
               "EGREATER", "EQUAL", "NEQUAL", "AND", "OR"}

(* The x86 division instruction traps on a zero divisor; C leaves it undefined.    *)
Traps(op, y) == op \in {"DIV", "MOD"} /\ y = 0

(* The number eval_binop boxes for operands x (pushed first) and y.                *)
Compute(op, x, y) ==
  CASE op = "ADD"      -> x + y
    [] op = "SUB"      -> x - y
    [] op = "PROD"     -> x * y
    [] op = "DIV"      -> Quotient(x, y)
    [] op = "MOD"      -> Remainder(x, y)
    [] op = "LESS"     -> Bit(x < y)
    [] op = "ELESS"    -> Bit(x <= y)
    [] op = "GREATER"  -> Bit(x > y)
    [] op = "EGREATER" -> Bit(x >= y)
    [] op = "EQUAL"    -> Bit(x = y)
    [] op = "NEQUAL"   -> Bit(x # y)
    [] op = "AND"      -> Bit(x # 0 /\ y # 0)
    [] op = "OR"       -> Bit(x # 0 \/ y # 0)
===================================================================================
