--------------------------------- MODULE MarkCopy ---------------------------------
(***********************************************************************************)
(* The allocator and the copying collector of runtime.c (alloc, gc, gc_copy,       *)
(* copy_elements, the two pools).  The mutator (module HeapClient) calls alloc with*)
(* pc = "idle" and goes on at pc = "resume"; in between the collector runs one step*)
(* at a time, with the recursion of gc_copy and copy_elements as a stack of frames.*)
(*                                                                                 *)
(* Memory is counted in words.  A mapped region is an arena; a pointer is an arena *)
(* and a position in it, which for a heap object is that of its first component,   *)
(* behind the header (TO_DATA).  free_pool passes a number of words to munmap,     *)
(* which takes bytes: most of a freed region stays mapped, so that no later mmap   *)
(* returns it, and arenas are numbered in the order in which they are mapped.      *)
(***********************************************************************************)
EXTENDS ObjectWords

CONSTANTS InitialSpace,   \* SPACE_SIZE at the start
          MaxSpace,       \* bound: the largest region mmap or mremap grants
          MaxArenas       \* bound: regions that fit in the address space

ASSUME SpaceAssumption ==
  InitialSpace \in Nat \ {0} /\ MaxSpace \in Nat /\ MaxArenas \in Nat \ {0}

VARIABLES
  from,      \* from_space: [arena, cells]
  used,      \* from_space.current - from_space.begin
  to,        \* to_space: [arena, cells]
  current,   \* words copied to to_space; once alloc returns, where the block is
  space,     \* SPACE_SIZE
  arenas,    \* regions mapped so far
  stack,     \* the machine's stack of words, top last
  extra,     \* the words the extra roots point to
  pc,        \* "idle", "roots", "copy", "room" or "resume"
  root,      \* the root gc is scanning
  frames,    \* activations of gc_copy in copy_elements, innermost last
  request,   \* words alloc was asked for
  status     \* "run", or why the process ended

pools     == <<from, used, to, current, space, arenas>>
collector == <<pc, root, frames, request, status>>
memory    == <<pools, collector, stack, extra>>

-----------------------------------------------------------------------------------
Zeros(n)  == [k \in 1 .. n |-> Zero]
NoPool    == [arena |-> 0, cells |-> <<>>]
Fresh(n)  == [arena |-> arenas + 1, cells |-> Zeros(n)]

IsValidHeapPointer(w) == w.t = "ptr" /\ w.a = from.arena /\ w.b <= Len(from.cells)
IsForwardPtr(w)       == w.t = "ptr" /\ w.a = to.arena /\ w.b <= Len(to.cells)
InPassiveSpace(at)    == at < Len(to.cells)

(* Words an object takes: gc_copy's computation from its header.                   *)
(* Mutant: a string whose terminating zero starts a word of its own is cut short.  *)
Words_ShortString(h) ==
  CASE h.a = STRING_TAG -> (h.b + 3) \div 4 + 1
    [] h.a = SEXP_TAG   -> h.b + 2
    [] OTHER            -> h.b + 1

Words(h) ==
  CASE h.a = STRING_TAG -> (h.b + 4) \div 4 + 1
    [] h.a = SEXP_TAG   -> h.b + 2
    [] OTHER            -> h.b + 1

HeaderWords(h) == IF h.a = SEXP_TAG THEN 2 ELSE 1

-----------------------------------------------------------------------------------
(* alloc.                                                                          *)

Die(why) == status' = why /\ UNCHANGED <<pools, pc, root, frames, request>>

(* gc begins: nothing is copied, the first root is next.                           *)
Begin == current' = 0 /\ pc' = "roots" /\ root' = 1 /\ frames' = <<>>

(* init_to_space: mmap gives a region or the process exits.                        *)
CanMap(n) == arenas < MaxArenas /\ n <= MaxSpace

(* Mutant of Fits: an empty object may lie at the very end of the space.           *)
Fits_ToTheEnd(n) == used + n <= Len(from.cells)

Fits(n) == used + n < Len(from.cells)

(* alloc(n): the stack and the extra roots are the caller's to change.             *)
alloc(n) ==
  /\ pc = "idle" /\ status = "run"
  /\ \/ /\ Fits(n)
        /\ current' = used /\ used' = used + n /\ pc' = "resume" /\ request' = n
        /\ UNCHANGED <<from, to, space, arenas, root, frames, status>>
     \/ /\ ~Fits(n) /\ CanMap(space)
        /\ to' = Fresh(space) /\ arenas' = arenas + 1 /\ request' = n
        /\ Begin /\ UNCHANGED <<from, used, space, status>>
     \/ ~Fits(n) /\ ~CanMap(space) /\ Die("mmap failed")

-----------------------------------------------------------------------------------
(* gc_copy and copy_elements.                                                      *)

(* Roots, in the order gc scans them: the stack from the word below its top down   *)
(* (module RootScan), then the extra roots.                                        *)
Roots   == Len(stack) - 1 + Len(extra)
OnStack(r) == r < Len(stack)
RootWord(r) == IF OnStack(r) THEN stack[Len(stack) - r] ELSE extra[r - Len(stack) + 1]

(* A value comes back to gc_test_and_copy_root, or to copy_elements, which stores  *)
(* it in the copy's next component; fs are the frames that are left, cells the     *)
(* words of the to-space.                                                          *)
Deliver(w, fs, cells) ==
  IF fs = <<>>
  THEN /\ stack' = IF OnStack(root) THEN [stack EXCEPT ![Len(stack) - root] = w] ELSE stack
       /\ extra' = IF OnStack(root) THEN extra
                   ELSE [extra EXCEPT ![root - Len(stack) + 1] = w]
       /\ root' = root + 1 /\ pc' = "roots" /\ frames' = fs
       /\ to' = [to EXCEPT !.cells = cells]
  ELSE LET f == Last(fs) IN
       /\ to' = [to EXCEPT !.cells = [cells EXCEPT ![f.copy + f.i] = w]]
       /\ frames' = Append(Front(fs), [f EXCEPT !.i = @ + 1])
       /\ pc' = "copy" /\ UNCHANGED <<stack, extra, root>>

(* Mutant of Forwarded: the forward pointer leads to the copy's header.            *)
Forwarded_ToHeader(copy) == Ptr(to.arena, copy - 1)

Forwarded(copy) == Ptr(to.arena, copy)

(* gc_copy(obj): o is the position of obj.                                         *)
gc_copy(o) ==
  LET header == from.cells[o - 1]
      skip   == HeaderWords(header)
      copy   == current + skip + 1
      moved  == [k \in 1 .. Len(to.cells) |->
                   IF k \in current + 1 .. current + skip
                   THEN from.cells[o - skip - 1 + (k - current)]
                   ELSE to.cells[k]]
      text   == [k \in 1 .. Len(to.cells) |->
                   IF k \in copy .. current + Words(header)
                   THEN from.cells[o + (k - copy)] ELSE moved[k]]
  IN
  \/ /\ current > Len(to.cells) /\ Die("out of space") /\ UNCHANGED <<stack, extra>>
  \/ /\ current <= Len(to.cells) /\ IsForwardPtr(header)
     /\ Deliver(header, frames, to.cells)
     /\ UNCHANGED <<from, used, current, space, arenas, request, status>>
  \/ /\ current <= Len(to.cells) /\ header.t # "header" /\ ~IsForwardPtr(header)
     /\ Die("weird tag") /\ UNCHANGED <<stack, extra>>
  \/ /\ current <= Len(to.cells) /\ header.t = "header"
     /\ current' = current + Words(header)
     /\ from' = [from EXCEPT !.cells[o - 1] = Forwarded(copy)]
     /\ IF current + Words(header) > Len(to.cells)
        THEN /\ status' = "overrun"
             /\ UNCHANGED <<to, stack, extra, pc, root, frames>>
        ELSE IF header.a = STRING_TAG
        THEN Deliver(Ptr(to.arena, copy), frames, text) /\ UNCHANGED status
        ELSE /\ to' = [to EXCEPT !.cells = moved]
             /\ frames' = Append(frames, [obj |-> o, len |-> header.b, i |-> 0, copy |-> copy])
             /\ pc' = "copy" /\ UNCHANGED <<stack, extra, root, status>>
     /\ UNCHANGED <<used, space, arenas, request>>

(* Mutant of ScanRoot: a root that is no pointer is not stepped over.              *)
ScanRoot_Stuck ==
  /\ pc = "roots" /\ root <= Roots
  /\ LET w == RootWord(root) IN
     IF IsValidHeapPointer(w) THEN gc_copy(w.b)
     ELSE UNCHANGED memory

(* gc_test_and_copy_root.                                                          *)
ScanRoot ==
  /\ pc = "roots" /\ root <= Roots
  /\ LET w == RootWord(root) IN
     IF IsValidHeapPointer(w) THEN gc_copy(w.b)
     ELSE /\ root' = root + 1
          /\ UNCHANGED <<pools, pc, frames, request, status, stack, extra>>

(* copy_elements: the next component, then the return to the caller.               *)
CopyElement ==
  /\ pc = "copy"
  /\ LET f == Last(frames) IN
     /\ f.i < f.len
     /\ LET w == from.cells[f.obj + f.i] IN
        IF IsValidHeapPointer(w) THEN gc_copy(w.b)
        ELSE /\ Deliver(w, frames, to.cells)
             /\ UNCHANGED <<from, used, current, space, arenas, request, status>>

CopyDone ==
  /\ pc = "copy"
  /\ LET f == Last(frames) IN
     f.i = f.len /\ Deliver(Ptr(to.arena, f.copy), Front(frames), to.cells)
  /\ UNCHANGED <<from, used, current, space, arenas, request, status>>

-----------------------------------------------------------------------------------
(* The end of gc: make room for the request in the new space.                      *)

RootsDone ==
  /\ pc = "roots" /\ root > Roots
  /\ IF InPassiveSpace(current)
     THEN pc' = "room" /\ UNCHANGED <<pools, root, frames, request, status>>
     ELSE Die("assert")
  /\ UNCHANGED <<stack, extra>>

(* Mutant of Lacking: the block may end where the space ends.                      *)
Lacking_ToTheEnd == current + request > Len(to.cells)

Lacking == current + request >= Len(to.cells)

(* Mutant of Extend: SPACE_SIZE is not doubled.                                    *)
Extend_SameSize ==
  /\ pc = "room" /\ Lacking /\ 2 * space <= MaxSpace
  /\ to' = [to EXCEPT !.cells = @ \o Zeros(space)]
  /\ UNCHANGED <<from, used, current, space, arenas, collector, stack, extra>>

(* extend_spaces: mremap grows the region where it is.                             *)
Extend ==
  /\ pc = "room" /\ Lacking /\ 2 * space <= MaxSpace
  /\ to' = [to EXCEPT !.cells = @ \o Zeros(space)]
  /\ space' = 2 * space
  /\ UNCHANGED <<from, used, current, arenas, collector, stack, extra>>

(* mremap fails: the copy becomes the from-space and all is copied once more, to a *)
(* region twice the size.                                                          *)
Restart ==
  /\ pc = "room" /\ Lacking
  /\ from' = to /\ used' = current
  /\ space' = 2 * space
  /\ IF CanMap(2 * space)
     THEN /\ to' = Fresh(2 * space) /\ arenas' = arenas + 1
          /\ Begin /\ UNCHANGED <<request, status>>
     ELSE /\ to' = NoPool /\ status' = "mmap failed"
          /\ UNCHANGED <<current, arenas, pc, root, frames, request>>
  /\ UNCHANGED <<stack, extra>>

(* gc_swap_spaces, and the block is taken behind the copies.                       *)
Finish ==
  /\ pc = "room" /\ ~Lacking
  /\ from' = to /\ to' = NoPool /\ used' = current + request
  /\ pc' = "resume"
  /\ UNCHANGED <<current, space, arenas, root, frames, request, status, stack, extra>>

(* __init.                                                                         *)
InitHeap ==
  /\ from = [arena |-> 1, cells |-> Zeros(InitialSpace)] /\ used = 0
  /\ to = NoPool /\ current = 0 /\ space = InitialSpace /\ arenas = 1
  /\ extra = <<>> /\ pc = "idle" /\ root = 1 /\ frames = <<>> /\ request = 0
  /\ status = "run"

Collect ==
  /\ status = "run"
  /\ ScanRoot \/ CopyElement \/ CopyDone \/ RootsDone \/ Extend \/ Restart \/ Finish
===================================================================================
