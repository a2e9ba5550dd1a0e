------------------------------- MODULE StringBuffer --------------------------------
(***********************************************************************************)
(* The buffer of runtime.c into which Lstring and Lstringcat print the text of a   *)
(* value, one call of printStringBuf at a time: a block that is doubled until the  *)
(* text fits (createStringBuf, vprintStringBuf, extendStringBuf).                  *)
(***********************************************************************************)
EXTENDS Integers, Sequences, SequencesExt

CONSTANTS
  Printable,         \* the characters texts are made of
  StringBufInit      \* STRINGBUF_INIT

VARIABLES
  stringBuf,   \* [contents, ptr, len]; contents from 0 on
  pending,     \* the texts of the calls of printStringBuf to come
  printed,     \* history: the texts of all the calls since the buffer was created
  returned     \* the text returned last

bufferVars == <<stringBuf, pending, printed, returned>>

Nul   == <<"nul">>         \* the character 0
Junk  == <<"junk">>        \* what realloc found in the block's new part
NoBuf == [contents |-> <<>>, ptr |-> 0, len |-> 0]

ASSUME PrintableAssumption == {Nul, Junk} \cap Printable = {}
ASSUME StringBufAssumption == StringBufInit \in Nat \ {0}

(* The string that begins with the block: what Bstring copies of it.               *)
TextOf(buf) ==
  LET ends == {i \in 0 .. buf.len - 1 : buf.contents[i] = Nul}
  IN  [i \in 1 .. Min(ends) |-> buf.contents[i - 1]]

BufferInit == stringBuf = NoBuf /\ pending = <<>> /\ printed = <<>> /\ returned = <<>>

-----------------------------------------------------------------------------------
(* createStringBuf.                                                                *)
createStringBuf ==
  stringBuf' = [contents |-> [i \in 0 .. StringBufInit - 1 |-> Nul], ptr |-> 0,
                len |-> StringBufInit]

(* A function that will print these texts begins.                                  *)
Open(texts) ==
  /\ stringBuf.len = 0 /\ createStringBuf
  /\ pending' = texts /\ printed' = texts /\ UNCHANGED returned

(* Mutant of extendStringBuf: the block stays as long as it was.                   *)
extendStringBuf_Stays(buf) == buf

extendStringBuf(buf) ==
  [buf EXCEPT !.len = 2 * @,
              !.contents = [i \in 0 .. 2 * buf.len - 1 |-> IF i < buf.len THEN @[i] ELSE Junk]]

(* How much of a text vsnprintf prints: at most rest - 1 characters.               *)
CutAt(buf, text) == Min({buf.len - buf.ptr - 1, Len(text)})

(* vsnprintf: so many characters and a 0.                                          *)
vsnprintf(buf, text) ==
  LET n == CutAt(buf, text)
  IN  [buf EXCEPT !.contents =
         [i \in DOMAIN @ |-> IF i \in buf.ptr .. buf.ptr + n - 1 THEN text[i - buf.ptr + 1]
                             ELSE IF i = buf.ptr + n THEN Nul ELSE @[i]]]

Printing == pending # <<>>

(* Mutant of Fits: the 0 behind the text is forgotten.                             *)
Fits_WithoutNul(buf, text) == Len(text) <= buf.len - buf.ptr

(* written < rest.                                                                 *)
Fits(buf, text) == Len(text) < buf.len - buf.ptr

(* Mutant of PrintAgain: the text that was cut off is not printed again.           *)
PrintAgain_Never ==
  /\ Printing /\ ~Fits(stringBuf, Head(pending))
  /\ stringBuf' = [extendStringBuf(vsnprintf(stringBuf, Head(pending)))
                     EXCEPT !.ptr = stringBuf.len - 1]
  /\ pending' = Tail(pending) /\ UNCHANGED <<printed, returned>>

(* vprintStringBuf: the text does not fit, and is printed again after the block has*)
(* been extended; or it does.                                                      *)
PrintAgain ==
  /\ Printing /\ ~Fits(stringBuf, Head(pending))
  /\ stringBuf' = extendStringBuf(vsnprintf(stringBuf, Head(pending)))
  /\ UNCHANGED <<pending, printed, returned>>

Print1 ==
  /\ Printing /\ Fits(stringBuf, Head(pending))
  /\ stringBuf' = [vsnprintf(stringBuf, Head(pending)) EXCEPT !.ptr = @ + Len(Head(pending))]
  /\ pending' = Tail(pending) /\ UNCHANGED <<printed, returned>>

(* Bstring of the contents, and deleteStringBuf.                                   *)
Return ==
  /\ stringBuf.len # 0 /\ pending = <<>> /\ stringBuf' = NoBuf
  /\ returned' = TextOf(stringBuf) /\ UNCHANGED <<pending, printed>>

Working == PrintAgain \/ Print1 \/ Return

(* Texts of any kind and number, printed by any number of calls.                   *)
BufferNext == Working \/ \E texts \in Seq(Seq(Printable)) : Open(texts)

BufferSpec == BufferInit /\ [][BufferNext]_bufferVars

-----------------------------------------------------------------------------------
(* The text of a value is all there, however often the buffer had to be extended   *)
(* on the way (vprintStringBuf).                                                   *)
TextComplete == stringBuf.len = 0 => returned = FlattenSeq(printed)

(* At any time the buffer begins with a string that ends where the next text will  *)
(* be put, inside the block.                                                       *)
BufferRoom ==
  stringBuf.len # 0 =>
    /\ stringBuf.ptr < stringBuf.len
    /\ \A i \in 0 .. stringBuf.ptr - 1 : stringBuf.contents[i] \notin {Nul, Junk}

(* A text of any length is printed in the end.                                     *)
TextPrinted == stringBuf.len # 0 ~> stringBuf.len = 0
===================================================================================
