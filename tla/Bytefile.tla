--------------------------------- MODULE Bytefile ---------------------------------
(***********************************************************************************)
(* Reading a byte code file (read_file of iterative-interpreter/src/byterun.c and  *)
(* of static-analyzer/src/byterun.c): the file is read in one piece behind the four*)
(* pointers of the struct bytefile, and the pointers are computed from the header  *)
(* fields as the struct lays them out.  The two programs declare different structs.*)
(***********************************************************************************)
EXTENDS Integers, Sequences, SequencesExt

CONSTANTS Fields,      \* the integer fields of the struct, in order
          Files,       \* the files: [strings, globals, publics, code]
          TextWords    \* the numbers four bytes of strings or code may look like

(* The two structs, the pointers left out.                                         *)
InterpreterFields == <<"stringtab_size", "global_area_size", "public_symbols_number">>
AnalyzerFields    == <<"stringtab_size", "global_area_size", "bytecode_size",
                       "public_symbols_number">>

(* What the compiler writes: sizes in bytes of the string table and of the code,   *)
(* words of the global area, a pair of offsets for each public symbol.             *)
ASSUME FilesAssumption ==
  \A f \in Files : /\ f.strings \in Nat /\ f.globals \in Nat /\ f.code \in Nat \ {0}
                   /\ f.publics \in Seq(Nat \X Nat)

VARIABLES file,     \* the file named on the command line
          block,    \* byte offset -> word: the words of the struct and its buffer
          ptr,      \* the four pointers, as offsets in the block
          state     \* "start", "read", "loaded", or "failed"

vars == <<file, block, ptr, state>>

Header(f)  == <<f.strings, f.globals, Len(f.publics)>> \o FlattenSeq(f.publics)
Size(f)    == 4 * Len(Header(f)) + f.strings + f.code

(* &file->stringtab_size, and where the other fields and the buffer lie.           *)
First == 16
Field(name) == block[First + 4 * (SelectInSeq(Fields, LAMBDA g : g = name) - 1)]
Buffer      == First + 4 * Len(Fields)

Init ==
  /\ file \in Files /\ block = <<>> /\ ptr = <<>> /\ state = "start"

(* fopen, malloc, fread: word i of the file lands 4 * i bytes behind the first     *)
(* field.  The words after the header are text or code.                            *)
fread ==
  /\ state = "start"
  /\ LET words == {First + 4 * i : i \in 0 .. Len(Header(file)) + 1}
     IN  \E text \in TextWords :
           block' = [a \in words |->
                       LET i == (a - First) \div 4 + 1
                       IN  IF i <= Len(Header(file)) THEN Header(file)[i] ELSE text]
  /\ state' = "read" /\ UNCHANGED <<file, ptr>>

(* The file cannot be opened, allocated for, or read in full.                      *)
failure == state = "start" /\ state' = "failed" /\ UNCHANGED <<file, block, ptr>>

(* Mutant of Publics: a public symbol takes one word.                              *)
Publics_OneWord == Field("public_symbols_number") * 4

Publics == Field("public_symbols_number") * 2 * 4

(* The pointers; the analyzer then stores the size of the code in its own field.   *)
unpack ==
  /\ state = "read" /\ state' = "loaded"
  /\ LET strings == Buffer + Publics
         code    == strings + Field("stringtab_size")
     IN  /\ ptr' = [string_ptr |-> strings, public_ptr |-> Buffer, code_ptr |-> code,
                    globals |-> Field("global_area_size")]
         /\ block' = IF "bytecode_size" \in ToSet(Fields)
                     THEN [block EXCEPT ![First + 8] = First + Size(file) - code]
                     ELSE block
  /\ UNCHANGED file

Next == fread \/ failure \/ unpack

Spec == Init /\ [][Next]_vars

-----------------------------------------------------------------------------------
(* Where the parts of the file are, in the block.                                  *)
PublicsAt == First + 12
StringsAt == PublicsAt + 8 * Len(file.publics)
CodeAt    == StringsAt + file.strings

(* The pointers lead to the beginning of the string table, of the publics table    *)
(* and of the byte code of the file that was read (the comments on the fields of   *)
(* struct bytefile), whatever the file holds.                                      *)
PointersRight == state = "loaded" =>
  /\ ptr.public_ptr = PublicsAt
  /\ ptr.string_ptr = StringsAt
  /\ ptr.code_ptr = CodeAt
  /\ ptr.globals = file.globals
===================================================================================
