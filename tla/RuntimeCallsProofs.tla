---------------------------- MODULE RuntimeCallsProofs ----------------------------
(***********************************************************************************)
(* The pool of extra roots is a stack that every function of the runtime leaves as *)
(* it found it.  The inductive invariant cuts the pool into one segment for each   *)
(* frame, from its base to the base of the frame above it, which holds exactly the *)
(* variables that the table Held gives for the frame's next step.  The last part   *)
(* bounds what is stale in each frame by the tables StaleAt and StaleAbove, and by *)
(* what a collection in the call the frame is at may add.                          *)
(***********************************************************************************)
EXTENDS RuntimeCalls, SequenceTheorems, TLAPS

IsFunction(k) == frames[k].fn \in Functions
HeldNow(k) == IF IsFunction(k) THEN Held[frames[k].fn][frames[k].at] ELSE <<>>
End(k)     == IF k = Depth THEN Len(roots) ELSE frames[k + 1].base

(* Every frame is at a step of its body or at its end; one that is not the         *)
(* innermost is at a call.  The program starts only once, and the runtime does not *)
(* call the program back.                                                          *)
Calling ==
  \A k \in 1 .. Depth :
    /\ IsFunction(k) => frames[k].at \in 1 .. Len(Body[frames[k].fn]) + 1
    /\ IsFunction(k) /\ k < Depth =>
         frames[k].at <= Len(Body[frames[k].fn]) /\ Body[frames[k].fn][frames[k].at].op = "call"
    /\ frames[k].fn \in Starters => k = 1
    /\ k > 1 /\ frames[k].fn \in Mutators => frames[k - 1].fn \in Mutators

Segments ==
  /\ \A k \in 1 .. Depth :
       /\ frames[k].base + Len(HeldNow(k)) = End(k)
       /\ \A j \in 1 .. Len(HeldNow(k)) : roots[frames[k].base + j] = <<k, HeldNow(k)[j]>>
  /\ \A j, k \in 1 .. Depth : j <= k => frames[j].base <= frames[k].base

(* Below the first frame's base are the global roots; every frame of the program   *)
(* has the same base.                                                              *)
Globals ==
  /\ \A i \in 1 .. frames[1].base : roots[i][1] = 0
  /\ \A k \in 1 .. Depth : frames[k].fn \in Mutators => frames[k].base = frames[1].base

Structure == Calling /\ Segments /\ Globals

Matched == status \in {"run", "overflow"}

IInv == TypeOK /\ Structure /\ Matched

-----------------------------------------------------------------------------------
LEMMA FrameFacts ==
  ASSUME TypeOK
  PROVE  /\ Depth \in Nat /\ Depth >= 1 /\ Len(frames) = Depth
         /\ \A k \in 1 .. Depth : /\ frames[k] \in Frame
                                  /\ frames[k].fn \in Functions \cup Mutators
                                  /\ frames[k].at \in Nat /\ frames[k].base \in Nat
                                  /\ frames[k].stale \in SUBSET Var
         /\ Current = frames[Depth]
         /\ Len(roots) \in Nat
<1>1. frames \in Seq(Frame) /\ frames # <<>> /\ roots \in Seq(Nat \X Var)
  BY DEF TypeOK
<1>2. Len(frames) \in Nat /\ Len(frames) >= 1 /\ Len(roots) \in Nat
  BY <1>1, EmptySeq, LenProperties
<1>3. \A k \in 1 .. Len(frames) : frames[k] \in Frame
  BY <1>1, ElementOfSeq
<1>4. QED BY <1>2, <1>3 DEF Depth, Current, Frame

LEMMA HeldFacts ==
  ASSUME NEW f \in Functions
  PROVE  /\ Body[f] \in Seq(Steps) /\ Len(Body[f]) \in Nat
         /\ \A i \in 1 .. Len(Body[f]) + 1 : Held[f][i] \in Seq(Var) /\ Len(Held[f][i]) \in Nat
         /\ Held[f][1] = <<>> /\ Held[f][Len(Body[f]) + 1] = <<>>
<1>1. Body[f] \in Seq(Steps)
  BY TablesAssumption
<1>2. Held[f] \in [1 .. Len(Body[f]) + 1 -> Seq(Var)] /\ Held[f][1] = <<>>
      /\ Held[f][Len(Body[f]) + 1] = <<>>
  BY HeldAssumption
<1>3. \A i \in 1 .. Len(Body[f]) + 1 : Held[f][i] \in Seq(Var)
  BY <1>2
<1>4. QED BY <1>1, <1>2, <1>3, LenProperties

(* What the tables say of the current step.                                        *)
LEMMA ThisStep ==
  ASSUME TypeOK, Calling, InBody
  PROVE  /\ Current.fn \in Functions /\ This \in Steps
         /\ Current.at \in 1 .. Len(Body[Current.fn])
         /\ HeldNow(Depth) = Held[Current.fn][Current.at]
         /\ HeldNow(Depth) \in Seq(Var)
         /\ Held[Current.fn][Current.at + 1] \in Seq(Var)
         /\ This.op \in {"push", "pop", "alloc", "read", "let", "global"} => This.v \in Var
         /\ This.op = "call" => This.f \in Functions \ Starters
         /\ This.op = "global" => Current.fn \in Starters /\ HeldNow(Depth) = <<>>
         /\ This.op = "push" => Held[Current.fn][Current.at + 1] = Append(HeldNow(Depth), This.v)
         /\ This.op = "pop"  => HeldNow(Depth) = Append(Held[Current.fn][Current.at + 1], This.v)
         /\ This.op \notin {"push", "pop"} => Held[Current.fn][Current.at + 1] = HeldNow(Depth)
<1>1. Depth \in 1 .. Depth /\ Current = frames[Depth] /\ Current \in Frame
  BY FrameFacts
<1>2. Current.fn \in Functions /\ Current.at <= Len(Body[Current.fn])
  BY DEF InBody
<1>3. Body[Current.fn] \in Seq(Steps) /\ Len(Body[Current.fn]) \in Nat
  BY <1>2, HeldFacts
<1>4. Current.at \in 1 .. Len(Body[Current.fn]) + 1
  BY <1>1, <1>2 DEF Calling, IsFunction
<1>5. Current.at \in 1 .. Len(Body[Current.fn])
  BY <1>2, <1>3, <1>4
<1>6. This \in Steps /\ This = Body[Current.fn][Current.at]
  BY <1>3, <1>5, ElementOfSeq DEF This
<1>7. HeldNow(Depth) = Held[Current.fn][Current.at]
  BY <1>1, <1>2 DEF HeldNow, IsFunction
<1>8. /\ This.op \in {"push", "pop", "alloc", "read", "let", "global"} => This.v \in Var
      /\ This.op = "call" => This.f \in Functions \ Starters
      /\ This.op = "global" =>
           Current.fn \in Starters /\ Held[Current.fn][Current.at] = <<>>
      /\ This.op = "push" =>
           Held[Current.fn][Current.at + 1] = Append(Held[Current.fn][Current.at], This.v)
      /\ This.op = "pop"  =>
           Held[Current.fn][Current.at] = Append(Held[Current.fn][Current.at + 1], This.v)
      /\ This.op \notin {"push", "pop"} =>
           Held[Current.fn][Current.at + 1] = Held[Current.fn][Current.at]
  BY <1>2, <1>5, <1>6, HeldAssumption
<1>9. Held[Current.fn][Current.at] \in Seq(Var) /\ Held[Current.fn][Current.at + 1] \in Seq(Var)
  <2>1. Current.at \in 1 .. Len(Body[Current.fn]) + 1
        /\ Current.at + 1 \in 1 .. Len(Body[Current.fn]) + 1
    BY <1>3, <1>5
  <2>2. QED BY <1>2, <2>1, HeldFacts
<1>10. QED BY <1>2, <1>5, <1>6, <1>7, <1>8, <1>9

(* Where the segments of the invariant lie.                                        *)
LEMMA SegmentFacts ==
  ASSUME TypeOK, Structure
  PROVE  /\ \A k \in 1 .. Depth : Len(HeldNow(k)) \in Nat
         /\ \A k \in 1 .. Depth : frames[k].base <= Current.base
         /\ \A k \in 1 .. Depth - 1 : frames[k].base + Len(HeldNow(k)) <= Current.base
         /\ Current.base + Len(HeldNow(Depth)) = Len(roots)
         /\ frames[1].base <= Current.base
<1>1. \A k \in 1 .. Depth : Len(HeldNow(k)) \in Nat
  <2>1. ASSUME NEW k \in 1 .. Depth, IsFunction(k)
        PROVE  Len(HeldNow(k)) \in Nat
    <3>1. frames[k].fn \in Functions /\ frames[k].at \in 1 .. Len(Body[frames[k].fn]) + 1
      BY <2>1 DEF Structure, Calling, IsFunction
    <3>2. QED BY <2>1, <3>1, HeldFacts DEF HeldNow
  <2>2. ASSUME NEW k \in 1 .. Depth, ~IsFunction(k)
        PROVE  Len(HeldNow(k)) \in Nat
    BY <2>2 DEF HeldNow
  <2>3. QED BY <2>1, <2>2
<1>2. Depth \in Nat /\ Depth \in 1 .. Depth /\ 1 \in 1 .. Depth /\ Current = frames[Depth]
  BY FrameFacts
<1>3. \A k \in 1 .. Depth : frames[k].base <= Current.base
  BY <1>2 DEF Structure, Segments
<1>4. ASSUME NEW k \in 1 .. Depth - 1
      PROVE  frames[k].base + Len(HeldNow(k)) <= Current.base
  <2>1. k \in 1 .. Depth /\ k + 1 \in 1 .. Depth /\ k # Depth
    BY <1>2
  <2>2. frames[k].base + Len(HeldNow(k)) = frames[k + 1].base
    BY <2>1 DEF Structure, Segments, End
  <2>3. QED BY <1>3, <2>1, <2>2
<1>5. Current.base + Len(HeldNow(Depth)) = Len(roots)
  BY <1>2 DEF Structure, Segments, End
<1>6. QED BY <1>1, <1>2, <1>3, <1>4, <1>5

(* The innermost frame goes on to its next step, and has in the pool what the table*)
(* says it has there.                                                              *)
Onward ==
  /\ Len(frames') = Depth
  /\ \A k \in 1 .. Depth : frames'[k].fn = frames[k].fn /\ frames'[k].base = frames[k].base
  /\ \A k \in 1 .. Depth - 1 : frames'[k].at = frames[k].at
  /\ frames'[Depth].at = Current.at + 1

PoolAsHeld ==
  /\ Len(roots') = Current.base + Len(Held[Current.fn][Current.at + 1])
  /\ \A i \in 1 .. Current.base : roots'[i] = roots[i]
  /\ \A j \in 1 .. Len(Held[Current.fn][Current.at + 1]) :
       roots'[Current.base + j] = <<Depth, Held[Current.fn][Current.at + 1][j]>>

LEMMA Advance ==
  ASSUME TypeOK, TypeOK', Structure, InBody, Onward, PoolAsHeld
  PROVE  Structure'
<1>1. Depth' = Depth /\ Depth \in Nat /\ Depth >= 1 /\ Current = frames[Depth]
      /\ \A k \in 1 .. Depth : frames[k].base \in Nat
  BY FrameFacts DEF Depth, Onward
<1>2. Current.fn \in Functions /\ Current.at \in 1 .. Len(Body[Current.fn])
      /\ Len(Body[Current.fn]) \in Nat
  BY ThisStep, HeldFacts DEF Structure
<1>3. \A k \in 1 .. Depth : IsFunction(k)' <=> IsFunction(k)
  BY DEF IsFunction, Onward
<1>4. Calling'
  <2> SUFFICES ASSUME NEW k \in 1 .. Depth
               PROVE  /\ IsFunction(k) => frames'[k].at \in 1 .. Len(Body[frames[k].fn]) + 1
                      /\ IsFunction(k) /\ k < Depth =>
                           /\ frames'[k].at <= Len(Body[frames[k].fn])
                           /\ Body[frames[k].fn][frames'[k].at].op = "call"
                      /\ frames[k].fn \in Starters => k = 1
                      /\ k > 1 /\ frames[k].fn \in Mutators => frames'[k - 1].fn \in Mutators
    BY <1>1, <1>3, SMTT(20) DEF Calling, Onward
  <2>1. CASE k = Depth
    <3>1. frames'[k].at \in 1 .. Len(Body[frames[k].fn]) + 1
      BY <1>1, <1>2, <2>1 DEF Onward
    <3>2. k > 1 => k - 1 \in 1 .. Depth
      BY <1>1
    <3>3. QED BY <2>1, <3>1, <3>2 DEF Structure, Calling, Onward
  <2>2. CASE k # Depth
    <3>1. k \in 1 .. Depth - 1 /\ (k > 1 => k - 1 \in 1 .. Depth)
      BY <1>1, <2>2
    <3>2. frames'[k].at = frames[k].at
      BY <3>1 DEF Onward
    <3>3. QED BY <3>1, <3>2 DEF Structure, Calling, Onward
  <2>3. QED BY <2>1, <2>2
<1>5. \A k \in 1 .. Depth - 1 : HeldNow(k)' = HeldNow(k)
  BY <1>1, <1>3 DEF HeldNow, Onward
<1>6. HeldNow(Depth)' = Held[Current.fn][Current.at + 1]
  BY <1>1, <1>2 DEF HeldNow, IsFunction, Onward
<1>7. Segments'
  <2>1. ASSUME NEW k \in 1 .. Depth - 1
        PROVE  /\ frames'[k].base + Len(HeldNow(k)') = End(k)'
               /\ \A j \in 1 .. Len(HeldNow(k)') :
                    roots'[frames'[k].base + j] = <<k, HeldNow(k)'[j]>>
    <3>1. k \in 1 .. Depth /\ k + 1 \in 1 .. Depth /\ k # Depth
      BY <1>1
    <3>2. End(k)' = End(k)
      BY <1>1, <3>1 DEF End, Onward
    <3>3. /\ frames[k].base + Len(HeldNow(k)) = End(k)
          /\ \A j \in 1 .. Len(HeldNow(k)) : roots[frames[k].base + j] = <<k, HeldNow(k)[j]>>
      BY <3>1 DEF Structure, Segments
    <3>4. frames'[k].base = frames[k].base /\ HeldNow(k)' = HeldNow(k)
      BY <1>5, <3>1 DEF Onward
    <3>5. \A j \in 1 .. Len(HeldNow(k)) : frames[k].base + j \in 1 .. Current.base
      <4>1. /\ Len(HeldNow(k)) \in Nat /\ frames[k].base \in Nat /\ Current.base \in Nat
            /\ frames[k].base + Len(HeldNow(k)) <= Current.base
        BY <1>1, <3>1, SegmentFacts
      <4>2. QED BY <4>1
    <3>6. QED BY <3>2, <3>3, <3>4, <3>5 DEF PoolAsHeld
  <2>2. /\ frames'[Depth].base + Len(HeldNow(Depth)') = End(Depth)'
        /\ \A j \in 1 .. Len(HeldNow(Depth)') :
             roots'[frames'[Depth].base + j] = <<Depth, HeldNow(Depth)'[j]>>
    <3>1. frames'[Depth].base = Current.base /\ End(Depth)' = Len(roots')
      BY <1>1 DEF End, Onward
    <3>2. QED BY <1>6, <3>1 DEF PoolAsHeld
  <2>3. \A j, k \in 1 .. Depth : j <= k => frames'[j].base <= frames'[k].base
    BY DEF Structure, Segments, Onward
  <2>4. \A k \in 1 .. Depth : k \in 1 .. Depth - 1 \/ k = Depth
    BY <1>1
  <2>5. \A k \in 1 .. Depth :
          /\ frames'[k].base + Len(HeldNow(k)') = End(k)'
          /\ \A j \in 1 .. Len(HeldNow(k)') :
               roots'[frames'[k].base + j] = <<k, HeldNow(k)'[j]>>
    <3>1. ASSUME NEW k \in 1 .. Depth, k = Depth
          PROVE  /\ frames'[k].base + Len(HeldNow(k)') = End(k)'
                 /\ \A j \in 1 .. Len(HeldNow(k)') :
                      roots'[frames'[k].base + j] = <<k, HeldNow(k)'[j]>>
      BY <1>1, <2>2, <3>1 DEF HeldNow, IsFunction, End
    <3>2. QED BY <2>1, <2>4, <3>1, Zenon
  <2>6. QED BY <1>1, <2>3, <2>5, Zenon DEF Segments
<1>8. Globals'
  <2>1. frames'[1].base = frames[1].base /\ frames[1].base \in Nat /\ Current.base \in Nat
        /\ frames[1].base <= Current.base
    BY <1>1, SegmentFacts DEF Onward
  <2>2. \A i \in 1 .. frames[1].base : i \in 1 .. Current.base
    BY <2>1
  <2>3. \A i \in 1 .. frames'[1].base : roots'[i][1] = 0
    BY <2>1, <2>2 DEF Structure, Globals, PoolAsHeld
  <2>4. \A k \in 1 .. Depth : frames'[k].fn \in Mutators => frames'[k].base = frames'[1].base
    BY <2>1 DEF Structure, Globals, Onward
  <2>5. QED BY <1>1, <2>3, <2>4 DEF Globals
<1>9. QED BY <1>4, <1>7, <1>8 DEF Structure

-----------------------------------------------------------------------------------
LEMMA StepOfFrame ==
  ASSUME NEW c \in Frame, NEW stale \in SUBSET Var
  PROVE  LET new == [c EXCEPT !.at = @ + 1, !.stale = stale]
         IN  new \in Frame /\ new.fn = c.fn /\ new.base = c.base /\ new.at = c.at + 1
<1>1. [c EXCEPT !.at = @ + 1] \in Frame
  BY DEF Frame
<1>2. [[c EXCEPT !.at = @ + 1] EXCEPT !.stale = stale] \in Frame
  BY <1>1 DEF Frame
<1>3. [c EXCEPT !.at = @ + 1, !.stale = stale] \in Frame
  BY <1>2
<1>4. [c EXCEPT !.at = @ + 1, !.stale = stale].fn = c.fn
  BY DEF Frame
<1>5. [c EXCEPT !.at = @ + 1, !.stale = stale].base = c.base
  BY DEF Frame
<1>6. [c EXCEPT !.at = @ + 1, !.stale = stale].at = c.at + 1
  BY DEF Frame
<1>7. QED BY <1>3, <1>4, <1>5, <1>6

(* A step of the innermost frame that sets at, and perhaps other fields, keeps the *)
(* types.                                                                          *)
LEMMA DoneFacts ==
  ASSUME TypeOK, NEW stale \in SUBSET Var, Done(stale)
  PROVE  /\ frames' \in Seq(Frame) \ {<<>>}
         /\ Len(frames') = Depth
         /\ \A k \in 1 .. Depth : frames'[k].fn = frames[k].fn /\ frames'[k].base = frames[k].base
         /\ \A k \in 1 .. Depth - 1 : frames'[k].at = frames[k].at
         /\ frames'[Depth].at = Current.at + 1
<1> DEFINE new == [Current EXCEPT !.at = @ + 1, !.stale = stale]
<1>1. /\ Depth \in Nat /\ Depth >= 1 /\ Len(frames) = Depth /\ Depth \in 1 .. Len(frames)
      /\ Current = frames[Depth] /\ Current \in Frame /\ frames \in Seq(Frame)
  <2>1. frames \in Seq(Frame)
    BY DEF TypeOK
  <2>2. QED BY <2>1, FrameFacts
<1>2. new \in Frame /\ new.fn = Current.fn /\ new.base = Current.base /\ new.at = Current.at + 1
  <2>1. Current \in Frame
    BY <1>1
  <2>2. QED BY <2>1, StepOfFrame
<1>3. frames' = [frames EXCEPT ![Depth] = new]
  BY DEF Done
<1> HIDE DEF new
<1>4. /\ frames' \in Seq(Frame) /\ Len(frames') = Len(frames)
      /\ \A j \in 1 .. Len(frames) : frames'[j] = IF j = Depth THEN new ELSE frames[j]
  BY <1>1, <1>2, <1>3, ExceptSeq
<1>5. frames' # <<>>
  BY <1>1, <1>4, EmptySeq
<1>6. QED BY <1>1, <1>2, <1>4, <1>5

(* A step that leaves the pool and its table alone.                                *)
LEMMA QuietStep ==
  ASSUME IInv, InBody, This.op \notin {"push", "pop"}, TypeOK',
         Len(frames') = Depth,
         \A k \in 1 .. Depth : frames'[k].fn = frames[k].fn /\ frames'[k].base = frames[k].base,
         \A k \in 1 .. Depth - 1 : frames'[k].at = frames[k].at,
         frames'[Depth].at = Current.at + 1,
         UNCHANGED <<roots, status>>
  PROVE  IInv'
<1>1. Held[Current.fn][Current.at + 1] = HeldNow(Depth)
  BY ThisStep DEF IInv, Structure
<1>2. Depth \in 1 .. Depth /\ Current = frames[Depth] /\ Current.base \in Nat
  BY FrameFacts DEF IInv
<1>3. Len(roots) = Current.base + Len(HeldNow(Depth)) /\ Len(HeldNow(Depth)) \in Nat
  BY <1>2, SegmentFacts DEF IInv
<1>4. \A j \in 1 .. Len(HeldNow(Depth)) : roots[Current.base + j] = <<Depth, HeldNow(Depth)[j]>>
  BY <1>2 DEF IInv, Structure, Segments
<1>5. Structure'
  BY <1>1, <1>3, <1>4, Advance DEF IInv, Onward, PoolAsHeld
<1>6. QED BY <1>5 DEF IInv, Matched

LEMMA CurrentFacts ==
  ASSUME TypeOK
  PROVE  /\ Depth \in 1 .. Depth /\ Depth \in Nat /\ Current = frames[Depth]
         /\ Current \in Frame /\ Current.stale \in SUBSET Var /\ Current.base \in Nat
         /\ Len(roots) \in Nat /\ roots \in Seq(Nat \X Var) /\ Len(roots) <= MaxRoots
<1>1. roots \in Seq(Nat \X Var) /\ Len(roots) <= MaxRoots
  BY DEF TypeOK
<1>2. QED BY <1>1, FrameFacts

LEMMA PreKeeps == ASSUME IInv, Pre, misread' = NoMisread PROVE IInv'
<1>1. InBody /\ This.op = "pre"
  BY DEF Pre, Doing
<1>2. Depth \in Nat /\ Current.stale \in SUBSET Var
  BY CurrentFacts DEF IInv
<1>3. Done(Current.stale)
  BY DEF Pre
<1>4. /\ frames' \in Seq(Frame) \ {<<>>} /\ Len(frames') = Depth
      /\ \A k \in 1 .. Depth : frames'[k].fn = frames[k].fn /\ frames'[k].base = frames[k].base
      /\ \A k \in 1 .. Depth - 1 : frames'[k].at = frames[k].at
      /\ frames'[Depth].at = Current.at + 1
  BY <1>2, <1>3, DoneFacts DEF IInv
<1>5. UNCHANGED <<roots, left, status>> /\ top' \in {top, Depth}
  BY DEF Pre
<1>6. TypeOK'
  BY <1>2, <1>4, <1>5 DEF IInv, TypeOK, NoMisread
<1>7. QED BY <1>1, <1>4, <1>5, <1>6, QuietStep

LEMMA PostKeeps == ASSUME IInv, Post, misread' = NoMisread PROVE IInv'
<1>1. InBody /\ This.op = "post"
  BY DEF Post, Doing
<1>2. Current.stale \in SUBSET Var
  BY CurrentFacts DEF IInv
<1>3. Done(Current.stale)
  BY DEF Post
<1>4. /\ frames' \in Seq(Frame) \ {<<>>} /\ Len(frames') = Depth
      /\ \A k \in 1 .. Depth : frames'[k].fn = frames[k].fn /\ frames'[k].base = frames[k].base
      /\ \A k \in 1 .. Depth - 1 : frames'[k].at = frames[k].at
      /\ frames'[Depth].at = Current.at + 1
  BY <1>2, <1>3, DoneFacts DEF IInv
<1>5. UNCHANGED <<roots, status>> /\ top' \in {top, None} /\ left' \in {left, ""}
  BY DEF Post
<1>6. TypeOK'
  BY <1>4, <1>5 DEF IInv, TypeOK, NoMisread
<1>7. QED BY <1>1, <1>4, <1>5, <1>6, QuietStep

LEMMA LetKeeps == ASSUME IInv, Let, misread' = NoMisread PROVE IInv'
<1>1. InBody /\ This.op = "let"
  BY DEF Let, Doing
<1>2. Current.stale \ {This.v} \in SUBSET Var
  BY CurrentFacts DEF IInv
<1>3. Done(Current.stale \ {This.v}) /\ UNCHANGED <<roots, top, left, status>>
  BY DEF Let
<1>4. /\ frames' \in Seq(Frame) \ {<<>>} /\ Len(frames') = Depth
      /\ \A k \in 1 .. Depth : frames'[k].fn = frames[k].fn /\ frames'[k].base = frames[k].base
      /\ \A k \in 1 .. Depth - 1 : frames'[k].at = frames[k].at
      /\ frames'[Depth].at = Current.at + 1
  BY <1>2, <1>3, DoneFacts DEF IInv
<1>5. TypeOK'
  BY <1>3, <1>4 DEF IInv, TypeOK, NoMisread
<1>6. QED BY <1>1, <1>3, <1>4, <1>5, QuietStep

(* Who is to blame has a name.                                                     *)
LEMMA MisreadFacts ==
  ASSUME TypeOK, NEW v \in Var
  PROVE  Misread(v) \in [by : Functions \cup Mutators \cup {""},
                         fn : Functions \cup Mutators \cup {""}, v : Var \cup {""}]
<1>1. Current \in Frame /\ Depth \in Nat
  BY CurrentFacts
<1>2. Caller \in Functions \cup Mutators \cup {""}
  <2>1. CASE Depth > 1
    <3>1. Depth - 1 \in 1 .. Depth
      BY <1>1, <2>1
    <3>2. QED BY <2>1, <3>1, FrameFacts DEF Caller
  <2>2. CASE ~(Depth > 1)
    BY <2>2 DEF Caller
  <2>3. QED BY <2>1, <2>2
<1>3. Current.fn \in Functions \cup Mutators
  BY <1>1 DEF Frame
<1>4. left \in Functions \cup {""}
  BY DEF TypeOK
<1>5. QED BY <1>2, <1>3, <1>4 DEF Misread

LEMMA ReadKeeps == ASSUME IInv, Read PROVE IInv'
<1>1. InBody /\ This.op = "read"
  BY DEF Read, Doing
<1>2. Current.stale \in SUBSET Var /\ This.v \in Var
  BY <1>1, CurrentFacts, ThisStep DEF IInv, Structure
<1>3. Done(Current.stale) /\ UNCHANGED <<roots, top, left, status>>
      /\ misread' \in {Misread(This.v), NoMisread}
  BY DEF Read
<1>4. /\ frames' \in Seq(Frame) \ {<<>>} /\ Len(frames') = Depth
      /\ \A k \in 1 .. Depth : frames'[k].fn = frames[k].fn /\ frames'[k].base = frames[k].base
      /\ \A k \in 1 .. Depth - 1 : frames'[k].at = frames[k].at
      /\ frames'[Depth].at = Current.at + 1
  BY <1>2, <1>3, DoneFacts DEF IInv
<1>5. misread' \in [by : Functions \cup Mutators \cup {""},
                    fn : Functions \cup Mutators \cup {""}, v : Var \cup {""}]
  <2>1. Misread(This.v) \in [by : Functions \cup Mutators \cup {""},
                             fn : Functions \cup Mutators \cup {""}, v : Var \cup {""}]
    BY <1>2, MisreadFacts DEF IInv
  <2>2. NoMisread \in [by : Functions \cup Mutators \cup {""},
                       fn : Functions \cup Mutators \cup {""}, v : Var \cup {""}]
    BY DEF NoMisread
  <2>3. QED BY <1>3, <2>1, <2>2
<1>6. TypeOK'
  BY <1>3, <1>4, <1>5 DEF IInv, TypeOK
<1>7. QED BY <1>1, <1>3, <1>4, <1>6, QuietStep

-----------------------------------------------------------------------------------
LEMMA Overflow ==
  ASSUME IInv, status' = "overflow", misread' = NoMisread, UNCHANGED <<frames, roots, top, left>>
  PROVE  IInv'
<1>1. TypeOK'
  BY DEF IInv, TypeOK, NoMisread
<1>2. Structure'
  BY DEF IInv, Structure, Calling, Segments, Globals, HeldNow, IsFunction, End, Depth
<1>3. QED BY <1>1, <1>2 DEF IInv, Matched

LEMMA PushKeeps == ASSUME IInv, Push, misread' = NoMisread PROVE IInv'
<1>1. CASE Len(roots) >= MaxRoots
  BY <1>1, Overflow DEF Push
<1>2. CASE ~(Len(roots) >= MaxRoots)
  <2>1. InBody /\ This.op = "push"
    BY DEF Push, Doing
  <2>2. /\ roots' = Append(roots, <<Depth, This.v>>) /\ Done(Current.stale)
        /\ UNCHANGED <<top, left, status>>
    BY <1>2 DEF Push
  <2>3. /\ This.v \in Var /\ HeldNow(Depth) \in Seq(Var)
        /\ Held[Current.fn][Current.at + 1] = Append(HeldNow(Depth), This.v)
    BY <2>1, ThisStep DEF IInv, Structure
  <2>4. /\ Depth \in Nat /\ Depth \in 1 .. Depth /\ Current = frames[Depth]
        /\ Current.stale \in SUBSET Var /\ Current.base \in Nat
        /\ Len(roots) \in Nat /\ roots \in Seq(Nat \X Var)
    BY CurrentFacts DEF IInv
  <2>5. /\ frames' \in Seq(Frame) \ {<<>>} /\ Len(frames') = Depth
        /\ \A k \in 1 .. Depth : frames'[k].fn = frames[k].fn /\ frames'[k].base = frames[k].base
        /\ \A k \in 1 .. Depth - 1 : frames'[k].at = frames[k].at
        /\ frames'[Depth].at = Current.at + 1
    BY <2>2, <2>4, DoneFacts DEF IInv
  <2>6. /\ roots' \in Seq(Nat \X Var) /\ Len(roots') = Len(roots) + 1
        /\ \A i \in 1 .. Len(roots) : roots'[i] = roots[i]
        /\ roots'[Len(roots) + 1] = <<Depth, This.v>>
    <3>1. <<Depth, This.v>> \in Nat \X Var
      BY <2>3, <2>4
    <3>2. QED BY <2>2, <2>4, <3>1, AppendProperties
  <2>7. /\ Len(Held[Current.fn][Current.at + 1]) = Len(HeldNow(Depth)) + 1
        /\ Len(HeldNow(Depth)) \in Nat
        /\ \A j \in 1 .. Len(HeldNow(Depth)) :
             Held[Current.fn][Current.at + 1][j] = HeldNow(Depth)[j]
        /\ Held[Current.fn][Current.at + 1][Len(HeldNow(Depth)) + 1] = This.v
    BY <2>3, AppendProperties, LenProperties
  <2>8. /\ Current.base \in Nat /\ Len(HeldNow(Depth)) \in Nat /\ Len(roots) \in Nat
        /\ Current.base + Len(HeldNow(Depth)) = Len(roots)
    <3>1. Current.base + Len(HeldNow(Depth)) = Len(roots)
      BY SegmentFacts DEF IInv
    <3>2. QED BY <2>4, <2>7, <3>1
  <2>9. \A j \in 1 .. Len(HeldNow(Depth)) : roots[Current.base + j] = <<Depth, HeldNow(Depth)[j]>>
    BY <2>4 DEF IInv, Structure, Segments
  <2>10. \A j \in 1 .. Len(Held[Current.fn][Current.at + 1]) :
           roots'[Current.base + j] = <<Depth, Held[Current.fn][Current.at + 1][j]>>
    <3>1. ASSUME NEW j \in 1 .. Len(HeldNow(Depth))
          PROVE  roots'[Current.base + j] = <<Depth, Held[Current.fn][Current.at + 1][j]>>
      <4>1. Current.base + j \in 1 .. Len(roots)
        BY <2>8
      <4>2. QED BY <2>6, <2>7, <2>9, <4>1
    <3>2. roots'[Current.base + (Len(HeldNow(Depth)) + 1)] =
            <<Depth, Held[Current.fn][Current.at + 1][Len(HeldNow(Depth)) + 1]>>
      <4>1. Current.base + (Len(HeldNow(Depth)) + 1) = Len(roots) + 1
        BY <2>8
      <4>2. QED BY <2>6, <2>7, <4>1
    <3>3. \A j \in 1 .. Len(Held[Current.fn][Current.at + 1]) :
            j \in 1 .. Len(HeldNow(Depth)) \/ j = Len(HeldNow(Depth)) + 1
      BY <2>7
    <3>4. QED BY <3>1, <3>2, <3>3
  <2>11. TypeOK'
    <3>1. MaxRoots \in Nat
      BY TablesAssumption
    <3>2. Len(roots') <= MaxRoots
      BY <1>2, <2>4, <2>6, <3>1
    <3>3. QED BY <2>2, <2>5, <2>6, <3>2 DEF IInv, TypeOK, NoMisread
  <2>12. Structure'
    <3>1. Len(roots') = Current.base + Len(Held[Current.fn][Current.at + 1])
      <4>1. Len(roots') = Len(roots) + 1
        BY <2>6
      <4>2. Len(Held[Current.fn][Current.at + 1]) = Len(HeldNow(Depth)) + 1
        BY <2>7
      <4>3. QED BY <2>8, <4>1, <4>2
    <3>2. \A i \in 1 .. Current.base : roots'[i] = roots[i]
      <4>1. \A i \in 1 .. Current.base : i \in 1 .. Len(roots)
        BY <2>8
      <4>2. QED BY <2>6, <4>1
    <3>3. QED BY <2>1, <2>5, <2>10, <2>11, <3>1, <3>2, Advance DEF IInv, Onward, PoolAsHeld
  <2>13. QED BY <2>2, <2>11, <2>12 DEF IInv, Matched
<1>3. QED BY <1>1, <1>2

LEMMA FrontFacts ==
  ASSUME NEW S, NEW s \in Seq(S), Len(s) >= 1
  PROVE  /\ Front(s) \in Seq(S) /\ Len(Front(s)) = Len(s) - 1
         /\ \A i \in 1 .. Len(s) - 1 : Front(s)[i] = s[i]
         /\ Last(s) = s[Len(s)]
<1>1. Len(s) \in Nat /\ \A i \in 1 .. Len(s) - 1 : s[i] \in S
  <2>1. Len(s) \in Nat
    BY LenProperties
  <2>2. \A i \in 1 .. Len(s) - 1 : i \in 1 .. Len(s)
    BY <2>1
  <2>3. QED BY <2>1, <2>2, ElementOfSeq
<1>2. /\ SubSeq(s, 1, Len(s) - 1) \in Seq(S)
      /\ Len(SubSeq(s, 1, Len(s) - 1)) =
           IF 1 <= Len(s) - 1 THEN (Len(s) - 1) - 1 + 1 ELSE 0
      /\ \A i \in 1 .. (Len(s) - 1) - 1 + 1 : SubSeq(s, 1, Len(s) - 1)[i] = s[1 + i - 1]
  BY <1>1, SubSeqProperties
<1>3. /\ Len(SubSeq(s, 1, Len(s) - 1)) = Len(s) - 1
      /\ \A i \in 1 .. Len(s) - 1 : SubSeq(s, 1, Len(s) - 1)[i] = s[i]
  <2>1. (Len(s) - 1) - 1 + 1 = Len(s) - 1 /\ (1 <= Len(s) - 1 \/ Len(s) - 1 = 0)
    <3>1. \A n \in Nat : n >= 1 => (n - 1) - 1 + 1 = n - 1 /\ (1 <= n - 1 \/ n - 1 = 0)
      OBVIOUS
    <3>2. QED BY <1>1, <3>1
  <2>2. \A i \in Int : 1 + i - 1 = i
    OBVIOUS
  <2>3. QED BY <1>2, <2>1, <2>2
<1>4. QED BY <1>2, <1>3 DEF Front, Last

LEMMA PopKeeps == ASSUME IInv, Pop, misread' = NoMisread PROVE IInv'
<1>1. InBody /\ This.op = "pop"
  BY DEF Pop, Doing
<1>2. /\ Held[Current.fn][Current.at + 1] \in Seq(Var) /\ This.v \in Var
      /\ HeldNow(Depth) = Append(Held[Current.fn][Current.at + 1], This.v)
  BY <1>1, ThisStep DEF IInv, Structure
<1> DEFINE next == Held[Current.fn][Current.at + 1]
<1> HIDE DEF next
<1>3. /\ Depth \in Nat /\ Depth \in 1 .. Depth /\ Current = frames[Depth]
      /\ Current.stale \in SUBSET Var /\ Current.base \in Nat
      /\ Len(roots) \in Nat /\ roots \in Seq(Nat \X Var)
  BY CurrentFacts DEF IInv
<1>4. /\ Len(next) \in Nat /\ Len(HeldNow(Depth)) = Len(next) + 1
      /\ \A j \in 1 .. Len(next) : HeldNow(Depth)[j] = next[j]
      /\ HeldNow(Depth)[Len(next) + 1] = This.v
  BY <1>2, AppendProperties, LenProperties, SMTT(20) DEF next
<1>5. Current.base + Len(HeldNow(Depth)) = Len(roots)
  BY SegmentFacts DEF IInv
<1>6. \A j \in 1 .. Len(HeldNow(Depth)) : roots[Current.base + j] = <<Depth, HeldNow(Depth)[j]>>
  BY <1>3 DEF IInv, Structure, Segments
<1>7. /\ Len(roots) >= 1 /\ Current.base + Len(next) = Len(roots) - 1
      /\ Current.base + (Len(next) + 1) = Len(roots)
  <2>1. Current.base \in Nat /\ Len(next) \in Nat /\ Len(roots) \in Nat
        /\ Current.base + (Len(next) + 1) = Len(roots)
    BY <1>3, <1>4, <1>5
  <2>2. QED BY <2>1
<1>8. /\ Front(roots) \in Seq(Nat \X Var) /\ Len(Front(roots)) = Len(roots) - 1
      /\ \A i \in 1 .. Len(roots) - 1 : Front(roots)[i] = roots[i]
      /\ Last(roots) = roots[Len(roots)]
  BY <1>3, <1>7, FrontFacts
<1>9. Last(roots) = <<Depth, This.v>>
  <2>1. roots[Current.base + (Len(next) + 1)] = <<Depth, HeldNow(Depth)[Len(next) + 1]>>
    <3>1. Len(next) + 1 \in 1 .. Len(HeldNow(Depth))
      BY <1>4
    <3>2. QED BY <1>6, <3>1
  <2>2. QED BY <1>4, <1>7, <1>8, <2>1
<1>10. roots # <<>>
  BY <1>7, EmptySeq
<1>11. /\ roots' = Front(roots) /\ Done(Current.stale) /\ UNCHANGED <<top, left, status>>
  BY <1>9, <1>10 DEF Pop
<1>12. /\ frames' \in Seq(Frame) \ {<<>>} /\ Len(frames') = Depth
       /\ \A k \in 1 .. Depth : frames'[k].fn = frames[k].fn /\ frames'[k].base = frames[k].base
       /\ \A k \in 1 .. Depth - 1 : frames'[k].at = frames[k].at
       /\ frames'[Depth].at = Current.at + 1
  BY <1>3, <1>11, DoneFacts DEF IInv
<1>13. TypeOK'
  <2>1. MaxRoots \in Nat /\ Len(roots) <= MaxRoots
    BY TablesAssumption DEF IInv, TypeOK
  <2>2. Len(roots') <= MaxRoots
    BY <1>3, <1>8, <1>11, <2>1
  <2>3. QED BY <1>8, <1>11, <1>12, <2>2 DEF IInv, TypeOK, NoMisread
<1>14. Structure'
  <2>1. \A i \in 1 .. Current.base + Len(next) : roots'[i] = roots[i]
    BY <1>7, <1>8, <1>11
  <2>2. \A i \in 1 .. Current.base : roots'[i] = roots[i]
    BY <1>3, <1>4, <2>1
  <2>3. ASSUME NEW j \in 1 .. Len(next)
        PROVE  roots'[Current.base + j] = <<Depth, next[j]>>
    <3>1. j \in 1 .. Len(HeldNow(Depth)) /\ Current.base + j \in 1 .. Current.base + Len(next)
      BY <1>3, <1>4
    <3>2. QED BY <1>4, <1>6, <2>1, <3>1
  <2>4. Len(roots') = Current.base + Len(next)
    BY <1>7, <1>8, <1>11
  <2>5. QED BY <1>1, <1>12, <1>13, <2>2, <2>3, <2>4, Advance DEF IInv, Onward, PoolAsHeld, next
<1>15. QED BY <1>11, <1>13, <1>14 DEF IInv, Matched

-----------------------------------------------------------------------------------
(* A collection changes what is stale; every frame stays where it is, but for the  *)
(* innermost one, which goes on.                                                   *)
LEMMA AllocFacts ==
  ASSUME TypeOK, Alloc
  PROVE  /\ frames' \in Seq(Frame) \ {<<>>}
         /\ Len(frames') = Depth
         /\ \A k \in 1 .. Depth : frames'[k].fn = frames[k].fn /\ frames'[k].base = frames[k].base
         /\ \A k \in 1 .. Depth - 1 : frames'[k].at = frames[k].at
         /\ frames'[Depth].at = Current.at + 1
<1>2. Depth \in Nat /\ Depth \in 1 .. Depth /\ Current = frames[Depth]
      /\ \A k \in 1 .. Depth : frames[k] \in Frame
  BY FrameFacts, CurrentFacts
<1>3. PICK collects \in BOOLEAN :
        frames' = [i \in 1 .. Depth |->
                     LET frame == IF collects THEN Collected(i) ELSE frames[i] IN
                     IF i = Depth THEN [frame EXCEPT !.at = @ + 1, !.stale = @ \ {This.v}]
                     ELSE frame]
  BY DEF Alloc
<1>4. ASSUME NEW k \in 1 .. Depth
      PROVE  LET frame == IF collects THEN Collected(k) ELSE frames[k] IN
             frame \in Frame /\ frame.fn = frames[k].fn /\ frame.base = frames[k].base
             /\ frame.at = frames[k].at
  <2>1. frames[k] \in Frame /\ Variables[frames[k].fn] \subseteq Var
    BY <1>2 DEF Frame, Var
  <2>2. /\ Collected(k) \in Frame /\ Collected(k).fn = frames[k].fn
        /\ Collected(k).base = frames[k].base /\ Collected(k).at = frames[k].at
    BY <2>1 DEF Collected, Frame
  <2>3. QED BY <2>1, <2>2
<1>5. ASSUME NEW c \in Frame
      PROVE  LET new == [c EXCEPT !.at = @ + 1, !.stale = @ \ {This.v}]
             IN  new \in Frame /\ new.fn = c.fn /\ new.base = c.base /\ new.at = c.at + 1
  <2>1. c.stale \ {This.v} \in SUBSET Var
    BY DEF Frame
  <2>2. QED BY <2>1, StepOfFrame
<1>6. ASSUME NEW k \in 1 .. Depth
      PROVE  /\ frames'[k] \in Frame /\ frames'[k].fn = frames[k].fn
             /\ frames'[k].base = frames[k].base
             /\ frames'[k].at = IF k = Depth THEN frames[k].at + 1 ELSE frames[k].at
  <2> DEFINE frame == IF collects THEN Collected(k) ELSE frames[k]
  <2>1. frame \in Frame /\ frame.fn = frames[k].fn /\ frame.base = frames[k].base
        /\ frame.at = frames[k].at
    BY <1>4
  <2>2. frames'[k] =
          IF k = Depth THEN [frame EXCEPT !.at = @ + 1, !.stale = @ \ {This.v}] ELSE frame
    BY <1>3
  <2> HIDE DEF frame
  <2>3. CASE k = Depth
    <3>1. frames'[k] = [frame EXCEPT !.at = @ + 1, !.stale = @ \ {This.v}]
      BY <2>2, <2>3
    <3>2. /\ frames'[k] \in Frame /\ frames'[k].fn = frame.fn
          /\ frames'[k].base = frame.base /\ frames'[k].at = frame.at + 1
      BY <1>5, <2>1, <3>1
    <3>3. QED BY <2>1, <2>3, <3>2
  <2>4. CASE k # Depth
    BY <2>1, <2>2, <2>4
  <2>5. QED BY <2>3, <2>4
<1>7. frames' \in Seq(Frame) /\ Len(frames') = Depth
  <2>1. frames' = [i \in 1 .. Depth |-> frames'[i]]
    BY <1>3
  <2>2. frames' \in [1 .. Depth -> Frame]
    BY <1>6, <2>1
  <2>3. frames' \in Seq(Frame)
    BY <1>2, <2>2, SeqDef
  <2>4. QED BY <1>2, <2>2, <2>3, LenProperties
<1>8. frames' # <<>>
  BY <1>2, <1>7, EmptySeq
<1>10. \A k \in 1 .. Depth - 1 : frames'[k].at = frames[k].at
  <2>1. \A k \in 1 .. Depth - 1 : k \in 1 .. Depth /\ k # Depth
    BY <1>2
  <2>2. QED BY <1>6, <2>1
<1>11. frames'[Depth].at = Current.at + 1
  BY <1>2, <1>6
<1>12. QED BY <1>6, <1>7, <1>8, <1>10, <1>11

LEMMA AllocKeeps == ASSUME IInv, Alloc, misread' = NoMisread PROVE IInv'
<1>1. InBody /\ This.op = "alloc" /\ UNCHANGED <<roots, top, left, status>>
  BY DEF Alloc, Doing
<1>2. /\ frames' \in Seq(Frame) \ {<<>>} /\ Len(frames') = Depth
      /\ \A k \in 1 .. Depth : frames'[k].fn = frames[k].fn /\ frames'[k].base = frames[k].base
      /\ \A k \in 1 .. Depth - 1 : frames'[k].at = frames[k].at
      /\ frames'[Depth].at = Current.at + 1
  BY AllocFacts DEF IInv
<1>3. TypeOK'
  BY <1>1, <1>2 DEF IInv, TypeOK, NoMisread
<1>4. QED BY <1>1, <1>2, <1>3, QuietStep

-----------------------------------------------------------------------------------
LEMMA GlobalKeeps == ASSUME IInv, Global, misread' = NoMisread PROVE IInv'
<1>1. CASE Len(roots) >= MaxRoots
  BY <1>1, Overflow DEF Global
<1>2. CASE ~(Len(roots) >= MaxRoots)
  <2>1. InBody /\ This.op = "global"
    BY DEF Global, Doing
  <2>2. /\ roots' = Append(roots, <<0, This.v>>)
        /\ frames' = [frames EXCEPT ![Depth] = [Current EXCEPT !.at = @ + 1, !.base = @ + 1]]
        /\ UNCHANGED <<top, left, status>>
    BY <1>2 DEF Global
  <2>3. /\ This.v \in Var /\ Current.fn \in Starters /\ HeldNow(Depth) = <<>>
        /\ Current.fn \in Functions /\ Current.at \in 1 .. Len(Body[Current.fn])
        /\ Held[Current.fn][Current.at + 1] = <<>>
    BY <2>1, ThisStep DEF IInv, Structure
  <2>4. /\ Depth \in Nat /\ Depth \in 1 .. Depth /\ Current = frames[Depth]
        /\ Current \in Frame /\ Current.base \in Nat
        /\ Len(roots) \in Nat /\ roots \in Seq(Nat \X Var)
    BY CurrentFacts DEF IInv
  <2>5. Depth = 1 /\ frames[1] = Current /\ Len(frames) = 1 /\ frames \in Seq(Frame)
    <3>1. Depth = 1
      BY <2>3, <2>4 DEF IInv, Structure, Calling
    <3>2. frames \in Seq(Frame)
      BY DEF IInv, TypeOK
    <3>3. QED BY <2>4, <3>1, <3>2 DEF Depth
  <2> DEFINE new == [Current EXCEPT !.at = @ + 1, !.base = @ + 1]
  <2>6. new \in Frame /\ new.fn = Current.fn /\ new.base = Current.base + 1
        /\ new.at = Current.at + 1
    <3>1. Current \in Frame
      BY <2>4
    <3>2. ASSUME NEW c \in Frame
          PROVE  [c EXCEPT !.at = @ + 1, !.base = @ + 1] \in Frame
      <4>1. [c EXCEPT !.at = @ + 1] \in Frame
        BY DEF Frame
      <4>2. [[c EXCEPT !.at = @ + 1] EXCEPT !.base = @ + 1] \in Frame
        <5>1. ASSUME NEW d \in Frame PROVE [d EXCEPT !.base = @ + 1] \in Frame
          BY DEF Frame
        <5>2. QED BY <4>1, <5>1
      <4>3. QED BY <4>2
    <3>3. ASSUME NEW c \in Frame
          PROVE  [c EXCEPT !.at = @ + 1, !.base = @ + 1].fn = c.fn
      BY DEF Frame
    <3>4. ASSUME NEW c \in Frame
          PROVE  [c EXCEPT !.at = @ + 1, !.base = @ + 1].base = c.base + 1
      BY DEF Frame
    <3>5. ASSUME NEW c \in Frame
          PROVE  [c EXCEPT !.at = @ + 1, !.base = @ + 1].at = c.at + 1
      BY DEF Frame
    <3>6. QED BY <3>1, <3>2, <3>3, <3>4, <3>5
  <2>7. frames' = [frames EXCEPT ![1] = new]
    <3>1. frames' = [frames EXCEPT ![Depth] = new]
      BY <2>2
    <3>2. QED BY <2>5, <3>1
  <2> HIDE DEF new
  <2>8. frames' \in Seq(Frame) /\ Len(frames') = 1 /\ frames'[1] = new
    BY <2>5, <2>6, <2>7, ExceptSeq
  <2>9. /\ roots' \in Seq(Nat \X Var) /\ Len(roots') = Len(roots) + 1
        /\ \A i \in 1 .. Len(roots) : roots'[i] = roots[i]
        /\ roots'[Len(roots) + 1] = <<0, This.v>>
    <3>1. <<0, This.v>> \in Nat \X Var
      BY <2>3
    <3>2. QED BY <2>2, <2>4, <3>1, AppendProperties
  <2>10. TypeOK'
    <3>1. MaxRoots \in Nat
      BY TablesAssumption
    <3>2. Len(roots') <= MaxRoots
      BY <1>2, <2>4, <2>9, <3>1
    <3>3. frames' # <<>>
      BY <2>8, EmptySeq
    <3>4. QED BY <2>2, <2>8, <2>9, <3>2, <3>3 DEF IInv, TypeOK, NoMisread
  <2>11. Current.base = Len(roots)
    BY <2>3, <2>4, SegmentFacts DEF IInv
  <2>12. Depth' = 1 /\ \A k \in 1 .. Depth' : k = 1
    BY <2>8 DEF Depth
  <2>13. Calling'
    <3>1. new.at \in 1 .. Len(Body[new.fn]) + 1
      BY <2>3, <2>6, HeldFacts
    <3>2. QED BY <2>8, <2>12, <3>1 DEF Calling
  <2>14. HeldNow(1)' = <<>>
    BY <2>3, <2>6, <2>8 DEF HeldNow, IsFunction
  <2>15. Segments'
    <3>1. frames'[1].base + Len(HeldNow(1)') = Len(roots')
      BY <2>4, <2>6, <2>8, <2>9, <2>11, <2>14
    <3>2. frames'[1].base + Len(HeldNow(1)') = End(1)'
      BY <2>12, <3>1 DEF End
    <3>3. \A j \in 1 .. Len(HeldNow(1)') : FALSE
      BY <2>14
    <3>4. frames'[1].base <= frames'[1].base
      BY <2>6, <2>8, <2>4
    <3>5. QED BY <2>12, <3>2, <3>3, <3>4 DEF Segments
  <2>16. Globals'
    <3>1. \A i \in 1 .. Len(roots) : roots[i][1] = 0
      BY <2>5, <2>11 DEF IInv, Structure, Globals
    <3>2. \A i \in 1 .. Len(roots) + 1 : i \in 1 .. Len(roots) \/ i = Len(roots) + 1
      BY <2>4
    <3>3. \A i \in 1 .. Len(roots) + 1 : roots'[i][1] = 0
      BY <2>9, <3>1, <3>2
    <3>4. frames'[1].base = Len(roots) + 1
      BY <2>6, <2>8, <2>11
    <3>5. QED BY <2>12, <3>3, <3>4 DEF Globals
  <2>17. QED BY <2>2, <2>10, <2>13, <2>15, <2>16 DEF IInv, Structure, Matched
<1>3. QED BY <1>1, <1>2

-----------------------------------------------------------------------------------
(* A function of the program has nothing in the pool.                              *)
LEMMA MutatorHolds ==
  ASSUME NEW k, frames[k].fn \in Mutators
  PROVE  HeldNow(k) = <<>>
  BY TablesAssumption DEF HeldNow, IsFunction

(* A call, at a step that is one or from the program.                              *)
LEMMA EnterKeeps ==
  ASSUME IInv, NEW f \in (Functions \ Starters) \cup Mutators, NEW stale \in SUBSET Var,
         f \in Mutators => Current.fn \in Mutators,
         Current.fn \in Functions => InBody /\ This.op = "call",
         Enter(f, stale), misread' = NoMisread
  PROVE  IInv'
<1> DEFINE new == [fn |-> f, at |-> 1, base |-> Len(roots), stale |-> stale]
<1>1. /\ Depth \in Nat /\ Depth >= 1 /\ Depth \in 1 .. Depth /\ 1 \in 1 .. Depth
      /\ Current = frames[Depth]
      /\ Current \in Frame /\ Current.base \in Nat /\ Len(roots) \in Nat /\ Len(frames) = Depth
  BY FrameFacts, CurrentFacts DEF IInv
<1>2. /\ frames' = Append(frames, new) /\ UNCHANGED <<roots, top, left, status>>
  BY DEF Enter
<1>3. new \in Frame /\ new.fn = f /\ new.at = 1 /\ new.base = Len(roots)
  BY <1>1 DEF Frame
<1> HIDE DEF new
<1>4. /\ frames' \in Seq(Frame) /\ Len(frames') = Depth + 1
      /\ \A k \in 1 .. Depth : frames'[k] = frames[k]
      /\ frames'[Depth + 1] = new
  <2>1. frames \in Seq(Frame)
    BY DEF IInv, TypeOK
  <2>2. QED BY <1>1, <1>2, <1>3, <2>1, AppendProperties
<1>5. TypeOK'
  <2>1. frames' # <<>>
    BY <1>1, <1>4, EmptySeq
  <2>2. QED BY <1>2, <1>4, <2>1 DEF IInv, TypeOK, NoMisread
<1>6. Depth' = Depth + 1 /\ \A k \in 1 .. Depth' : k \in 1 .. Depth \/ k = Depth + 1
  BY <1>1, <1>4 DEF Depth
<1>7. f \notin Starters /\ (f \in Mutators => f \notin Functions)
  BY TablesAssumption
<1>8. Calling'
  <2>1. ASSUME NEW k \in 1 .. Depth
        PROVE  /\ IsFunction(k)' => frames'[k].at \in 1 .. Len(Body[frames'[k].fn]) + 1
               /\ IsFunction(k)' =>
                    frames'[k].at <= Len(Body[frames'[k].fn])
                    /\ Body[frames'[k].fn][frames'[k].at].op = "call"
               /\ frames'[k].fn \in Starters => k = 1
               /\ k > 1 /\ frames'[k].fn \in Mutators => frames'[k - 1].fn \in Mutators
    <3>1. frames'[k] = frames[k] /\ (k > 1 => frames'[k - 1] = frames[k - 1])
      <4>1. k > 1 => k - 1 \in 1 .. Depth
        BY <1>1
      <4>2. QED BY <1>4, <4>1
    <3>2. /\ IsFunction(k) => frames[k].at \in 1 .. Len(Body[frames[k].fn]) + 1
          /\ IsFunction(k) /\ k < Depth =>
               frames[k].at <= Len(Body[frames[k].fn])
               /\ Body[frames[k].fn][frames[k].at].op = "call"
          /\ frames[k].fn \in Starters => k = 1
          /\ k > 1 /\ frames[k].fn \in Mutators => frames[k - 1].fn \in Mutators
      BY DEF IInv, Structure, Calling
    <3>3. IsFunction(k) /\ k = Depth =>
            frames[k].at <= Len(Body[frames[k].fn])
            /\ Body[frames[k].fn][frames[k].at].op = "call"
      BY <1>1 DEF InBody, This, IsFunction
    <3>4. k < Depth \/ k = Depth
      BY <1>1
    <3>5. QED BY <3>1, <3>2, <3>3, <3>4 DEF IsFunction
  <2>2. ASSUME NEW k, k = Depth + 1
        PROVE  /\ IsFunction(k)' => frames'[k].at \in 1 .. Len(Body[frames'[k].fn]) + 1
               /\ frames'[k].fn \notin Starters
               /\ frames'[k].fn \in Mutators => frames'[k - 1].fn \in Mutators
    <3>1. frames'[k] = new /\ frames'[k - 1] = Current
      <4>1. k - 1 = Depth
        BY <1>1, <2>2
      <4>2. QED BY <1>1, <1>4, <2>2, <4>1
    <3>2. f \in Functions => 1 \in 1 .. Len(Body[f]) + 1
      BY HeldFacts
    <3>3. QED BY <1>3, <1>7, <3>1, <3>2 DEF IsFunction
  <2>3. \A k \in 1 .. Depth' : k < Depth' => k \in 1 .. Depth
    BY <1>1, <1>6
  <2>4. QED BY <1>6, <2>1, <2>2, <2>3, Zenon DEF Calling
<1>9. /\ Current.base + Len(HeldNow(Depth)) = Len(roots)
      /\ \A k \in 1 .. Depth : frames[k].base <= Current.base
      /\ \A k \in 1 .. Depth : Len(HeldNow(k)) \in Nat
      /\ \A k \in 1 .. Depth : frames[k].base \in Nat
  BY SegmentFacts, FrameFacts DEF IInv
<1>10. ASSUME NEW k \in 1 .. Depth
       PROVE  HeldNow(k)' = HeldNow(k) /\ frames'[k].base = frames[k].base
  BY <1>4 DEF HeldNow, IsFunction
<1>11. ASSUME NEW k, k = Depth + 1
       PROVE  HeldNow(k)' = <<>> /\ frames'[k].base = Len(roots) /\ frames'[k].fn = f
  <2>1. frames'[k] = new
    BY <1>4, <1>11
  <2>2. f \in Functions => Held[f][1] = <<>>
    BY HeldFacts
  <2>3. QED BY <1>3, <2>1, <2>2 DEF HeldNow, IsFunction
<1>12. Segments'
  <2>1. ASSUME NEW k \in 1 .. Depth
        PROVE  /\ frames'[k].base + Len(HeldNow(k)') = End(k)'
               /\ \A j \in 1 .. Len(HeldNow(k)') :
                    roots'[frames'[k].base + j] = <<k, HeldNow(k)'[j]>>
    <3>1. k # Depth' /\ (k # Depth => k + 1 \in 1 .. Depth)
      BY <1>1, <1>6
    <3>2. End(k)' = End(k)
      <4>1. CASE k = Depth
        <5>1. frames'[k + 1].base = Len(roots)
          BY <1>11, <4>1
        <5>2. QED BY <3>1, <4>1, <5>1 DEF End
      <4>2. CASE k # Depth
        <5>1. frames'[k + 1].base = frames[k + 1].base
          BY <1>10, <3>1, <4>2
        <5>2. QED BY <3>1, <4>2, <5>1 DEF End
      <4>3. QED BY <4>1, <4>2
    <3>3. /\ frames[k].base + Len(HeldNow(k)) = End(k)
          /\ \A j \in 1 .. Len(HeldNow(k)) : roots[frames[k].base + j] = <<k, HeldNow(k)[j]>>
      BY DEF IInv, Structure, Segments
    <3>4. QED BY <1>2, <1>10, <3>2, <3>3
  <2>2. ASSUME NEW k, k = Depth + 1
        PROVE  /\ frames'[k].base + Len(HeldNow(k)') = End(k)'
               /\ \A j \in 1 .. Len(HeldNow(k)') :
                    roots'[frames'[k].base + j] = <<k, HeldNow(k)'[j]>>
    <3>1. End(k)' = Len(roots) /\ frames'[k].base = Len(roots) /\ HeldNow(k)' = <<>>
      BY <1>2, <1>6, <1>11, <2>2 DEF End
    <3>2. Len(<<>>) = 0 /\ Len(roots) + 0 = Len(roots) /\ 1 .. 0 = {}
      BY <1>1
    <3>3. QED BY <3>1, <3>2
  <2>3. ASSUME NEW j \in 1 .. Depth', NEW k \in 1 .. Depth', j <= k
        PROVE  frames'[j].base <= frames'[k].base
    <3>1. Current.base <= Len(roots)
      BY <1>1, <1>9
    <3>2. CASE k \in 1 .. Depth
      <4>1. j \in 1 .. Depth
        BY <1>1, <2>3, <3>2
      <4>2. frames[j].base <= frames[k].base
        BY <2>3, <3>2, <4>1 DEF IInv, Structure, Segments
      <4>3. QED BY <1>10, <3>2, <4>1, <4>2
    <3>3. CASE k = Depth + 1
      <4>1. frames'[k].base = Len(roots)
        BY <1>11, <3>3
      <4>2. CASE j \in 1 .. Depth
        <5>1. frames'[j].base \in Nat /\ frames'[j].base <= Current.base
          BY <1>9, <1>10, <4>2
        <5>2. QED BY <1>1, <3>1, <4>1, <5>1
      <4>3. CASE j = Depth + 1
        BY <1>1, <3>3, <4>1, <4>3
      <4>4. QED BY <1>6, <4>2, <4>3
    <3>4. QED BY <1>6, <3>2, <3>3
  <2>4. QED BY <1>6, <2>1, <2>2, <2>3, Zenon DEF Segments
<1>13. Globals'
  <2>1. frames'[1] = frames[1]
    BY <1>1, <1>4
  <2>2. f \in Mutators => Len(roots) = frames[1].base
    <3>1. SUFFICES ASSUME f \in Mutators PROVE Len(roots) = frames[1].base
      OBVIOUS
    <3>2. HeldNow(Depth) = <<>>
      BY <1>1, <3>1, MutatorHolds
    <3>3. Current.base = frames[1].base
      BY <1>1, <3>1 DEF IInv, Structure, Globals
    <3>4. Len(<<>>) = 0
      OBVIOUS
    <3>5. QED BY <1>1, <1>9, <3>2, <3>3, <3>4
  <2>3. ASSUME NEW k \in 1 .. Depth, frames'[k].fn \in Mutators
        PROVE  frames'[k].base = frames'[1].base
    BY <1>4, <2>1, <2>3 DEF IInv, Structure, Globals
  <2>4. ASSUME NEW k, k = Depth + 1, frames'[k].fn \in Mutators
        PROVE  frames'[k].base = frames'[1].base
    BY <1>11, <2>1, <2>2, <2>4
  <2>5. \A i \in 1 .. frames'[1].base : roots'[i][1] = 0
    BY <1>2, <2>1 DEF IInv, Structure, Globals
  <2>6. QED BY <1>6, <2>3, <2>4, <2>5, Zenon DEF Globals
<1>14. QED BY <1>2, <1>5, <1>8, <1>12, <1>13 DEF IInv, Structure, Matched

LEMMA CallKeeps == ASSUME IInv, Call, misread' = NoMisread PROVE IInv'
<1>1. InBody /\ This.op = "call" /\ Enter(This.f, Passed(This.f, This.args, Current.stale))
  BY DEF Call, Doing
<1>2. This.f \in Functions \ Starters /\ Current.fn \in Functions
  BY <1>1, ThisStep DEF IInv, Structure
<1>3. Passed(This.f, This.args, Current.stale) \in SUBSET Var
  <2>1. Params[This.f] \in Seq(Var)
    BY <1>2, TablesAssumption
  <2>2. \A k \in 1 .. Len(Params[This.f]) : Params[This.f][k] \in Var
    BY <2>1, ElementOfSeq
  <2>3. QED BY <2>2 DEF Passed
<1>4. This.f \notin Mutators
  BY <1>2, TablesAssumption
<1>5. QED BY <1>1, <1>2, <1>3, <1>4, EnterKeeps

LEMMA MutatorCallsKeeps == ASSUME IInv, MutatorCalls, misread' = NoMisread PROVE IInv'
<1>1. Current.fn \in Mutators /\ Current.fn \notin Functions
  BY TablesAssumption DEF MutatorCalls, Running
<1>2. PICK f \in Calls[Current.fn] :
        Enter(f, IF Current.stale = {} \/ f \in Mutators THEN {} ELSE ToSet(Params[f]))
  BY DEF MutatorCalls
<1>3. f \in (Functions \ Starters) \cup Mutators
  BY <1>1, TablesAssumption
<1>4. ToSet(Params[f]) \in SUBSET Var
  <2>1. Params[f] \in Seq(Var)
    BY <1>3, TablesAssumption
  <2>2. \A k \in 1 .. Len(Params[f]) : Params[f][k] \in Var
    BY <2>1, ElementOfSeq
  <2>3. DOMAIN Params[f] = 1 .. Len(Params[f])
    BY <2>1, LenProperties
  <2>4. QED BY <2>2, <2>3 DEF ToSet
<1>5. (IF Current.stale = {} \/ f \in Mutators THEN {} ELSE ToSet(Params[f])) \in SUBSET Var
  BY <1>4
<1>6. QED BY <1>1, <1>2, <1>3, <1>5, EnterKeeps

-----------------------------------------------------------------------------------
LEMMA Positions ==
  ASSUME NEW d \in Nat, d > 1
  PROVE  /\ d \in 1 .. d /\ d - 1 \in 1 .. d /\ d - 1 \in 1 .. d - 1 /\ d - 1 \in 0 .. d
         /\ d - 1 < d /\ d - 1 # d /\ (d - 1) + 1 = d /\ 1 \in 1 .. d - 1
         /\ d - 1 \in Nat /\ d - 1 # 0
         /\ \A k \in 1 .. d - 1 :
              /\ k \in 1 .. d - 2 \/ k = d - 1
              /\ k \in 1 .. d /\ k # d /\ k < d
              /\ k < d - 1 => k \in 1 .. d - 2
              /\ k > 1 => k - 1 \in 1 .. d - 2
              /\ k # d - 1 => k < d - 1 /\ k + 1 \in 1 .. d - 1
         /\ \A k \in 1 .. d - 2 : k \in 1 .. d - 1
  OBVIOUS

LEMMA BelowLast ==
  ASSUME NEW d \in Nat
  PROVE  \A k \in 1 .. d : k # d => k \in 1 .. d - 1
  OBVIOUS

LEMMA NotAtEnd ==
  ASSUME NEW n \in Nat, NEW j \in 1 .. n + 1, j <= n
  PROVE  j \in 1 .. n /\ j + 1 \in 1 .. n + 1
  OBVIOUS

LEMMA NoneHeld == ASSUME NEW h, h = <<>> PROVE Len(h) = 0
  OBVIOUS

LEMMA AddNone == ASSUME NEW b \in Nat, NEW r \in Nat, NEW n, n = 0, b + n = r PROVE r = b
  OBVIOUS

(* A return: the innermost frame goes, and the one below it goes on.               *)
LEMMA DropKeeps ==
  ASSUME IInv, Depth > 1, HeldNow(Depth) = <<>>,
         frames' \in Seq(Frame), Len(frames') = Depth - 1,
         \A k \in 1 .. Depth - 2 : frames'[k] = frames[k],
         frames'[Depth - 1].fn = frames[Depth - 1].fn,
         frames'[Depth - 1].base = frames[Depth - 1].base,
         frames[Depth - 1].fn \in Functions => frames'[Depth - 1].at = frames[Depth - 1].at + 1,
         UNCHANGED <<roots, top, status>>, left' \in Functions \cup {""}, misread' = NoMisread
  PROVE  IInv'
<1>1. /\ Depth \in Nat /\ Depth \in 1 .. Depth /\ Current = frames[Depth]
      /\ Current.base \in Nat /\ Len(roots) \in Nat
      /\ \A k \in 1 .. Depth : frames[k].base \in Nat
  BY FrameFacts, CurrentFacts DEF IInv
<1>2. /\ Depth' = Depth - 1
      /\ Depth \in 1 .. Depth /\ Depth - 1 \in 1 .. Depth /\ Depth - 1 \in 1 .. Depth - 1
      /\ Depth - 1 < Depth /\ Depth - 1 # Depth /\ (Depth - 1) + 1 = Depth
      /\ 1 \in 1 .. Depth' /\ Depth - 1 \in Nat /\ Depth - 1 # 0
      /\ \A k \in 1 .. Depth' :
           /\ k \in 1 .. Depth - 2 \/ k = Depth - 1
           /\ k \in 1 .. Depth /\ k # Depth /\ k < Depth
           /\ k < Depth' => k \in 1 .. Depth - 2
           /\ k > 1 => k - 1 \in 1 .. Depth - 2
           /\ k # Depth - 1 => k < Depth' /\ k + 1 \in 1 .. Depth'
  <2>1. Depth' = Depth - 1
    BY DEF Depth
  <2>2. QED BY <1>1, <2>1, Positions, Zenon
<1>3. TypeOK'
  <2>1. frames' # <<>>
    BY <1>2, EmptySeq
  <2>2. QED BY <2>1 DEF IInv, TypeOK, NoMisread
<1>4. ASSUME frames[Depth - 1].fn \in Functions
      PROVE  LET f == frames[Depth - 1].fn  i == frames[Depth - 1].at IN
             /\ i \in 1 .. Len(Body[f]) /\ i + 1 \in 1 .. Len(Body[f]) + 1
             /\ Held[f][i + 1] = Held[f][i]
  <2> DEFINE f == frames[Depth - 1].fn
             i == frames[Depth - 1].at
  <2>1. Depth - 1 \in 1 .. Depth /\ Depth - 1 < Depth
    BY <1>2
  <2>2. i \in 1 .. Len(Body[f]) + 1 /\ i <= Len(Body[f]) /\ Body[f][i].op = "call"
    BY <1>4, <2>1 DEF IInv, Structure, Calling, IsFunction
  <2>3. Len(Body[f]) \in Nat
    BY <1>4, HeldFacts
  <2> HIDE DEF i
  <2>4. i \in 1 .. Len(Body[f]) /\ i + 1 \in 1 .. Len(Body[f]) + 1
    BY <2>2, <2>3, NotAtEnd, Zenon
  <2>5. Held[f][i + 1] = Held[f][i]
    BY <1>4, <2>2, <2>4, HeldAssumption
  <2>6. QED BY <2>4, <2>5 DEF i
<1>5. ASSUME NEW k, k = Depth - 1
      PROVE  HeldNow(k)' = HeldNow(k) /\ frames'[k].base = frames[k].base
  BY <1>4, <1>5 DEF HeldNow, IsFunction
<1>6. ASSUME NEW k \in 1 .. Depth - 2
      PROVE  HeldNow(k)' = HeldNow(k) /\ frames'[k].base = frames[k].base
  BY DEF HeldNow, IsFunction
<1>7. \A k \in 1 .. Depth' : HeldNow(k)' = HeldNow(k) /\ frames'[k].base = frames[k].base
  BY <1>2, <1>5, <1>6
<1>8. \A k \in 1 .. Depth' : k \in 1 .. Depth /\ k # Depth
  BY <1>2
<1>9. Calling'
  <2>1. ASSUME NEW k \in 1 .. Depth'
        PROVE  frames'[k].fn = frames[k].fn /\ (k < Depth' => frames'[k].at = frames[k].at)
               /\ (k > 1 => frames'[k - 1].fn = frames[k - 1].fn)
    <3>1. k < Depth' => k \in 1 .. Depth - 2
      BY <1>2
    <3>2. k > 1 => k - 1 \in 1 .. Depth - 2
      BY <1>2
    <3>3. QED BY <1>2, <3>1, <3>2
  <2>2. ASSUME NEW k \in 1 .. Depth'
        PROVE  /\ IsFunction(k)' => frames'[k].at \in 1 .. Len(Body[frames'[k].fn]) + 1
               /\ IsFunction(k)' /\ k < Depth' =>
                    frames'[k].at <= Len(Body[frames'[k].fn])
                    /\ Body[frames'[k].fn][frames'[k].at].op = "call"
               /\ frames'[k].fn \in Starters => k = 1
               /\ k > 1 /\ frames'[k].fn \in Mutators => frames'[k - 1].fn \in Mutators
    <3>1. k \in 1 .. Depth /\ k < Depth
      BY <1>2
    <3>2. /\ IsFunction(k) => frames[k].at \in 1 .. Len(Body[frames[k].fn]) + 1
          /\ IsFunction(k) =>
               frames[k].at <= Len(Body[frames[k].fn])
               /\ Body[frames[k].fn][frames[k].at].op = "call"
          /\ frames[k].fn \in Starters => k = 1
          /\ k > 1 /\ frames[k].fn \in Mutators => frames[k - 1].fn \in Mutators
      BY <3>1 DEF IInv, Structure, Calling
    <3>3. IsFunction(k) /\ k = Depth - 1 => frames'[k].at \in 1 .. Len(Body[frames'[k].fn]) + 1
      BY <1>4 DEF IsFunction
    <3>4. k # Depth - 1 => k < Depth'
      BY <1>2
    <3>5. QED BY <2>1, <3>2, <3>3, <3>4 DEF IsFunction
  <2>3. QED BY <2>2 DEF Calling
<1>10. Segments'
  <2>1. ASSUME NEW k \in 1 .. Depth'
        PROVE  End(k)' = End(k)
    <3>1. CASE k = Depth - 1
      <4>1. Current.base + Len(HeldNow(Depth)) = Len(roots)
        BY SegmentFacts DEF IInv
      <4>2. Len(roots) = Current.base
        <5>1. Len(HeldNow(Depth)) = 0
          BY NoneHeld, Zenon
        <5>2. QED BY <1>1, <4>1, <5>1, AddNone, Zenon
      <4>3. k # Depth /\ k + 1 = Depth
        BY <1>2, <3>1
      <4>4. QED BY <1>1, <1>2, <3>1, <4>2, <4>3 DEF End
    <3>2. CASE k # Depth - 1
      <4>1. k + 1 \in 1 .. Depth'
        BY <1>2, <3>2
      <4>2. frames'[k + 1].base = frames[k + 1].base
        BY <1>7, <4>1
      <4>3. QED BY <1>2, <1>8, <3>2, <4>2 DEF End
    <3>3. QED BY <3>1, <3>2
  <2>2. ASSUME NEW k \in 1 .. Depth'
        PROVE  /\ frames'[k].base + Len(HeldNow(k)') = End(k)'
               /\ \A j \in 1 .. Len(HeldNow(k)') :
                    roots'[frames'[k].base + j] = <<k, HeldNow(k)'[j]>>
    <3>1. k \in 1 .. Depth
      BY <1>8
    <3>2. /\ frames[k].base + Len(HeldNow(k)) = End(k)
          /\ \A j \in 1 .. Len(HeldNow(k)) : roots[frames[k].base + j] = <<k, HeldNow(k)[j]>>
      BY <3>1 DEF IInv, Structure, Segments
    <3>3. QED BY <1>7, <2>1, <3>2
  <2>3. ASSUME NEW j \in 1 .. Depth', NEW k \in 1 .. Depth', j <= k
        PROVE  frames'[j].base <= frames'[k].base
    <3>1. frames[j].base <= frames[k].base
      BY <1>8, <2>3 DEF IInv, Structure, Segments
    <3>2. QED BY <1>7, <3>1
  <2>4. QED BY <2>2, <2>3 DEF Segments
<1>11. Globals'
  <2>1. 1 \in 1 .. Depth'
    BY <1>2
  <2>2. frames'[1].base = frames[1].base
    BY <1>7, <2>1
  <2>3. ASSUME NEW k \in 1 .. Depth', frames'[k].fn \in Mutators
        PROVE  frames'[k].base = frames'[1].base
    <3>1. frames'[k].fn = frames[k].fn
      BY <1>2
    <3>2. QED BY <1>7, <1>8, <2>2, <2>3, <3>1 DEF IInv, Structure, Globals
  <2>4. \A i \in 1 .. frames'[1].base : roots'[i][1] = 0
    BY <2>2 DEF IInv, Structure, Globals
  <2>5. QED BY <2>3, <2>4 DEF Globals
<1>12. QED BY <1>3, <1>9, <1>10, <1>11 DEF IInv, Structure, Matched

(* The first Depth - 1 frames.                                                     *)
LEMMA FramesBelow ==
  ASSUME TypeOK, NEW n \in 0 .. Depth
  PROVE  /\ SubSeq(frames, 1, n) \in Seq(Frame) /\ Len(SubSeq(frames, 1, n)) = n
         /\ \A k \in 1 .. n : SubSeq(frames, 1, n)[k] = frames[k]
<1>1. Depth \in Nat /\ n \in Int /\ \A k \in 1 .. n : frames[k] \in Frame
  <2>1. Depth \in Nat
    BY FrameFacts
  <2>2. \A k \in 1 .. n : k \in 1 .. Depth
    BY <2>1
  <2>3. QED BY <2>1, <2>2, FrameFacts
<1>2. /\ SubSeq(frames, 1, n) \in Seq(Frame)
      /\ Len(SubSeq(frames, 1, n)) = IF 1 <= n THEN n - 1 + 1 ELSE 0
      /\ \A k \in 1 .. n - 1 + 1 : SubSeq(frames, 1, n)[k] = frames[1 + k - 1]
  BY <1>1, SubSeqProperties
<1>3. n - 1 + 1 = n /\ (1 <= n \/ n = 0) /\ \A k \in Int : 1 + k - 1 = k
  BY <1>1
<1>4. QED BY <1>2, <1>3

LEMMA MutatorReturnsKeeps == ASSUME IInv, MutatorReturns, misread' = NoMisread PROVE IInv'
<1>1. /\ Current.fn \in Mutators /\ Depth > 1 /\ frames' = SubSeq(frames, 1, Depth - 1)
      /\ UNCHANGED <<roots, top, left, status>>
  BY DEF MutatorReturns, Running
<1>2. Depth \in Nat /\ Depth \in 1 .. Depth /\ Current = frames[Depth]
  BY CurrentFacts DEF IInv
<1>3. HeldNow(Depth) = <<>>
  BY <1>1, <1>2, MutatorHolds
<1>4. Depth - 1 \in 0 .. Depth /\ Depth - 1 \in 1 .. Depth - 1
      /\ \A k \in 1 .. Depth - 2 : k \in 1 .. Depth - 1
  BY <1>1, <1>2, Positions
<1>5. /\ frames' \in Seq(Frame) /\ Len(frames') = Depth - 1
      /\ \A k \in 1 .. Depth - 1 : frames'[k] = frames[k]
  BY <1>1, <1>4, FramesBelow DEF IInv
<1>6. frames[Depth - 1].fn \notin Functions
  <2>1. frames[Depth - 1].fn \in Mutators
    BY <1>1, <1>2 DEF IInv, Structure, Calling
  <2>2. QED BY <2>1, TablesAssumption
<1>7. left \in Functions \cup {""}
  BY DEF IInv, TypeOK
<1>8. QED BY <1>1, <1>3, <1>4, <1>5, <1>6, <1>7, DropKeeps

(* The result of a function of the runtime goes to its caller.                     *)
LEMMA ReturnKeeps == ASSUME IInv, Return, misread' = NoMisread PROVE IInv'
<1>1. /\ Current.fn \in Functions /\ Current.at = Len(Body[Current.fn]) + 1
      /\ UNCHANGED <<roots, top, status>>
  BY DEF Return
<1>2. /\ Depth \in Nat /\ Depth >= 1 /\ Depth \in 1 .. Depth /\ Current = frames[Depth]
      /\ Current.base \in Nat /\ Len(roots) \in Nat
      /\ \A k \in 1 .. Depth : frames[k] \in Frame
  BY FrameFacts, CurrentFacts DEF IInv
<1>3. HeldNow(Depth) = <<>>
  BY <1>1, <1>2, HeldFacts DEF HeldNow, IsFunction
<1>4. left' \in Functions \cup {""}
  <2>1. left' \in {Current.fn, left} /\ left \in Functions \cup {""}
    BY DEF Return, IInv, TypeOK
  <2>2. QED BY <1>1, <2>1
<1>5. CASE Depth > 1
  <2> DEFINE caller == frames[Depth - 1]
             new == IF caller.fn \in Mutators THEN [caller EXCEPT !.stale = {}]
                    ELSE [caller EXCEPT !.at = @ + 1,
                                        !.stale = @ \ {Body[caller.fn][caller.at].v}]
  <2>1. /\ Depth - 1 \in 1 .. Depth /\ Depth # 1
        /\ Depth - 2 \in 0 .. Depth /\ (Depth - 2) + 1 = Depth - 1
        /\ \A k \in 1 .. Depth - 2 : k \in 1 .. (Depth - 2)
    BY <1>2, <1>5
  <2>2. frames' = Append(SubSeq(frames, 1, Depth - 2), new)
    BY <2>1 DEF Return
  <2>3. caller \in Frame /\ caller.fn \in Functions \cup Mutators
    BY <1>2, <2>1 DEF Frame
  <2> HIDE DEF caller
  <2>4. /\ new \in Frame /\ new.fn = caller.fn /\ new.base = caller.base
        /\ caller.fn \in Functions => new.at = caller.at + 1
    <3>1. CASE caller.fn \in Mutators
      <4>1. new = [caller EXCEPT !.stale = {}]
        BY <3>1
      <4>2. caller.fn \notin Functions
        BY <3>1, TablesAssumption
      <4>3. ASSUME NEW c \in Frame
            PROVE  LET d == [c EXCEPT !.stale = {}] IN
                   d \in Frame /\ d.fn = c.fn /\ d.base = c.base
        BY DEF Frame
      <4>4. QED BY <2>3, <4>1, <4>2, <4>3
    <3>2. CASE caller.fn \notin Mutators
      <4> DEFINE fresh == caller.stale \ {Body[caller.fn][caller.at].v}
      <4>1. new = [caller EXCEPT !.at = @ + 1, !.stale = fresh]
        BY <3>2
      <4>2. fresh \in SUBSET Var
        BY <2>3 DEF Frame
      <4> HIDE DEF fresh
      <4>3. LET d == [caller EXCEPT !.at = @ + 1, !.stale = fresh]
            IN  d \in Frame /\ d.fn = caller.fn /\ d.base = caller.base /\ d.at = caller.at + 1
        BY <2>3, <4>2, StepOfFrame, Zenon
      <4>4. QED BY <4>1, <4>3, Zenon
    <3>3. QED BY <3>1, <3>2
  <2> HIDE DEF new
  <2>5. /\ SubSeq(frames, 1, Depth - 2) \in Seq(Frame)
        /\ Len(SubSeq(frames, 1, Depth - 2)) = Depth - 2
        /\ \A k \in 1 .. Depth - 2 : SubSeq(frames, 1, Depth - 2)[k] = frames[k]
    BY <2>1, FramesBelow DEF IInv
  <2>6. /\ frames' \in Seq(Frame) /\ Len(frames') = Depth - 1
        /\ \A k \in 1 .. Depth - 2 : frames'[k] = frames[k]
        /\ frames'[Depth - 1] = new
    <3>1. /\ frames' \in Seq(Frame) /\ Len(frames') = (Depth - 2) + 1
          /\ \A k \in 1 .. Depth - 2 : frames'[k] = SubSeq(frames, 1, Depth - 2)[k]
          /\ frames'[(Depth - 2) + 1] = new
      BY <2>2, <2>4, <2>5, AppendProperties
    <3>2. QED BY <2>1, <2>5, <3>1
  <2>7. QED BY <1>1, <1>3, <1>4, <1>5, <2>4, <2>6, DropKeeps DEF caller
<1>6. CASE ~(Depth > 1)
  <2> DEFINE new == [fn |-> "code", at |-> 1, base |-> Len(roots), stale |-> {}]
  <2>1. Depth = 1
    BY <1>2, <1>6
  <2>2. frames' = <<new>>
    BY <2>1 DEF Return
  <2>3. "code" \in Mutators /\ "code" \notin Functions /\ "code" \notin Starters
    BY TablesAssumption
  <2>4. new \in Frame /\ new.fn = "code" /\ new.base = Len(roots)
    BY <1>2, <2>3 DEF Frame
  <2> HIDE DEF new
  <2>5. frames' \in Seq(Frame) /\ Len(frames') = 1 /\ frames'[1] = new /\ frames' # <<>>
    BY <2>2, <2>4
  <2>6. Depth' = 1 /\ \A k \in 1 .. Depth' : k = 1
    BY <2>5 DEF Depth
  <2>7. TypeOK'
    BY <1>1, <1>4, <2>5 DEF IInv, TypeOK, NoMisread
  <2>8. Calling'
    BY <2>3, <2>4, <2>5, <2>6 DEF Calling, IsFunction
  <2>9. HeldNow(1)' = <<>>
    BY <2>3, <2>4, <2>5 DEF HeldNow, IsFunction
  <2>10. Segments'
    <3>1. End(1)' = Len(roots) /\ frames'[1].base = Len(roots)
      BY <1>1, <2>4, <2>5, <2>6 DEF End
    <3>2. Len(HeldNow(1)') = 0 /\ \A j \in 1 .. Len(HeldNow(1)') : FALSE
      BY <2>9
    <3>3. Len(roots) + 0 = Len(roots) /\ Len(roots) <= Len(roots)
      BY <1>2
    <3>4. QED BY <2>6, <3>1, <3>2, <3>3 DEF Segments
  <2>11. Globals'
    <3>1. Len(roots) = frames[1].base
      <4>1. Current.base + Len(HeldNow(Depth)) = Len(roots)
        BY SegmentFacts DEF IInv
      <4>2. Len(HeldNow(Depth)) = 0
        BY <1>3
      <4>3. Len(roots) = Current.base
        BY <1>2, <4>1, <4>2
      <4>4. QED BY <1>2, <2>1, <4>3
    <3>2. \A i \in 1 .. Len(roots) : roots'[i][1] = 0
      BY <1>1, <3>1 DEF IInv, Structure, Globals
    <3>3. QED BY <2>4, <2>5, <2>6, <3>2 DEF Globals
  <2>12. QED BY <1>1, <2>7, <2>8, <2>10, <2>11 DEF IInv, Structure, Matched
<1>7. QED BY <1>5, <1>6

LEMMA MutatorReadsKeeps == ASSUME IInv, MutatorReads PROVE IInv'
<1>1. UNCHANGED <<frames, roots, top, left, status>>
  BY DEF MutatorReads
<1>2. PICK v \in Current.stale : misread' = Misread(v)
  BY DEF MutatorReads
<1>3. v \in Var
  BY <1>2, CurrentFacts DEF IInv
<1>4. misread' \in [by : Functions \cup Mutators \cup {""},
                    fn : Functions \cup Mutators \cup {""}, v : Var \cup {""}]
  BY <1>2, <1>3, MisreadFacts DEF IInv
<1>5. TypeOK'
  BY <1>1, <1>4 DEF IInv, TypeOK
<1>6. Structure'
  BY <1>1 DEF IInv, Structure, Calling, Segments, Globals, HeldNow, IsFunction, End, Depth
<1>7. QED BY <1>1, <1>5, <1>6 DEF IInv, Matched

-----------------------------------------------------------------------------------
LEMMA InitHolds == Init => IInv
<1> SUFFICES ASSUME Init PROVE IInv
  OBVIOUS
<1>1. PICK f \in Starters \cup {"eval"} : frames = Started(f)
  BY DEF Init
<1>2. top \in {None, VM} /\ roots = <<>> /\ left = "" /\ misread = NoMisread /\ status = "run"
  BY DEF Init
<1>3. f \in Functions \cup Mutators /\ MaxRoots \in Nat
  BY TablesAssumption
<1> DEFINE new == [fn |-> f, at |-> 1, base |-> 0, stale |-> {}]
<1>4. new \in Frame /\ new.fn = f /\ new.at = 1 /\ new.base = 0
  BY <1>3 DEF Frame
<1>5. frames = <<new>>
  BY <1>1 DEF Started
<1> HIDE DEF new
<1>6. frames \in Seq(Frame) /\ Len(frames) = 1 /\ frames[1] = new /\ frames # <<>>
  BY <1>4, <1>5
<1>7. Depth = 1 /\ \A k \in 1 .. Depth : k = 1
  BY <1>6 DEF Depth
<1>8. roots \in Seq(Nat \X Var) /\ Len(roots) = 0
  BY <1>2, EmptySeq
<1>9. TypeOK
  <2>1. Len(roots) <= MaxRoots
    BY <1>3, <1>8
  <2>2. QED BY <1>2, <1>6, <1>8, <2>1 DEF TypeOK, NoMisread
<1>10. Calling
  <2>1. f \in Functions => 1 \in 1 .. Len(Body[f]) + 1
    BY HeldFacts
  <2>2. QED BY <1>4, <1>6, <1>7, <2>1 DEF Calling, IsFunction
<1>11. HeldNow(1) = <<>>
  <2>1. f \in Functions => Held[f][1] = <<>>
    BY HeldFacts
  <2>2. QED BY <1>4, <1>6, <2>1 DEF HeldNow, IsFunction
<1>12. Segments
  <2>1. End(1) = 0 /\ frames[1].base = 0
    BY <1>4, <1>6, <1>7, <1>8 DEF End
  <2>2. Len(HeldNow(1)) = 0
    BY <1>11
  <2>3. QED BY <1>7, <2>1, <2>2 DEF Segments
<1>13. Globals
  <2>1. 1 .. 0 = {}
    OBVIOUS
  <2>2. QED BY <1>4, <1>6, <1>7, <2>1 DEF Globals
<1>14. QED BY <1>2, <1>9, <1>10, <1>12, <1>13 DEF IInv, Structure, Matched

LEMMA NextKeeps == IInv /\ [Next]_vars => IInv'
<1> SUFFICES ASSUME IInv, [Next]_vars PROVE IInv'
  OBVIOUS
<1>1. CASE Read
  BY <1>1, ReadKeeps
<1>2. CASE MutatorReads
  BY <1>2, MutatorReadsKeeps
<1>3. CASE misread' = NoMisread /\ (Pre \/ Post \/ Let \/ Alloc)
  BY <1>3, PreKeeps, PostKeeps, LetKeeps, AllocKeeps
<1>4. CASE misread' = NoMisread /\ (Push \/ Pop \/ Global)
  BY <1>4, PushKeeps, PopKeeps, GlobalKeeps
<1>5. CASE misread' = NoMisread /\ (Call \/ Return \/ MutatorCalls \/ MutatorReturns)
  BY <1>5, CallKeeps, ReturnKeeps, MutatorCallsKeeps, MutatorReturnsKeeps
<1>6. CASE UNCHANGED vars
  <2>1. UNCHANGED <<frames, roots, top, left, misread, status>>
    BY <1>6 DEF vars
  <2>2. TypeOK'
    BY <2>1 DEF IInv, TypeOK
  <2>3. Calling'
    BY <2>1 DEF IInv, Structure, Calling, IsFunction, Depth
  <2>4. Segments'
    BY <2>1 DEF IInv, Structure, Segments, HeldNow, IsFunction, End, Depth
  <2>5. Globals'
    BY <2>1 DEF IInv, Structure, Globals, Depth
  <2>6. QED BY <2>1, <2>2, <2>3, <2>4, <2>5 DEF IInv, Structure, Matched
<1>7. QED BY <1>1, <1>2, <1>3, <1>4, <1>5, <1>6 DEF Next

(* The pool never holds more than MAX_EXTRA_ROOTS_NUMBER roots, and every variable *)
(* has its type.                                                                   *)
THEOREM TypeCorrect == Spec => []TypeOK
<1>1. IInv => TypeOK
  BY DEF IInv
<1>2. QED BY InitHolds, NextKeeps, <1>1, PTL DEF Spec

(* pop_extra_root finds the root it is called with, whichever functions call each  *)
(* other: if each body alone pops what it pushed, so does every nest of calls.  And*)
(* the program runs only with the global root in the pool.                         *)
THEOREM PoolStaysMatched == Spec => []PoolMatched
<1>1. IInv => PoolMatched
  <2> SUFFICES ASSUME IInv PROVE PoolMatched
    OBVIOUS
  <2>1. status \notin {"empty", "mismatch"}
    BY DEF IInv, Matched
  <2>2. ASSUME Running PROVE \A i \in DOMAIN roots : roots[i][1] = 0
    <3>1. Current.fn \in Mutators
      BY <2>2 DEF Running
    <3>2. /\ Depth \in 1 .. Depth /\ Current = frames[Depth] /\ Current.base \in Nat
          /\ Len(roots) \in Nat /\ roots \in Seq(Nat \X Var)
      BY CurrentFacts DEF IInv
    <3>3. Len(HeldNow(Depth)) = 0
      BY <3>1, <3>2, MutatorHolds, NoneHeld
    <3>4. Current.base + Len(HeldNow(Depth)) = Len(roots)
      BY SegmentFacts DEF IInv
    <3>5. Len(roots) = Current.base
      BY <3>2, <3>3, <3>4, AddNone
    <3>6. Current.base = frames[1].base
      BY <3>1, <3>2 DEF IInv, Structure, Globals
    <3>7. DOMAIN roots = 1 .. Len(roots)
      BY <3>2, LenProperties
    <3>8. QED BY <3>5, <3>6, <3>7 DEF IInv, Structure, Globals
  <2>3. QED BY <2>1, <2>2 DEF PoolMatched
<1>2. QED BY InitHolds, NextKeeps, <1>1, PTL DEF Spec

-----------------------------------------------------------------------------------
(* What a step does to the frames: the innermost one goes on, a frame is added, or *)
(* the innermost one is gone and the one below it goes on.                         *)
Same(n) == \A k \in 1 .. n : /\ frames'[k].fn = frames[k].fn /\ frames'[k].at = frames[k].at
                             /\ frames'[k].base = frames[k].base

GoesOn(bases) ==
  /\ InBody /\ Depth' = Depth /\ Same(Depth - 1)
  /\ frames'[Depth].fn = Current.fn /\ frames'[Depth].at = Current.at + 1
  /\ frames'[Depth].base = Current.base + bases

Enters(f) ==
  /\ Depth' = Depth + 1 /\ Same(Depth)
  /\ frames'[Depth + 1].fn = f /\ frames'[Depth + 1].at = 1
  /\ frames'[Depth + 1].base = Len(roots)

Leaves ==
  /\ Depth > 1 /\ Depth' = Depth - 1 /\ Same(Depth - 2)
  /\ frames'[Depth - 1].fn = frames[Depth - 1].fn
  /\ frames'[Depth - 1].base = frames[Depth - 1].base
  /\ frames[Depth - 1].fn \in Functions => frames'[Depth - 1].at = frames[Depth - 1].at + 1

Begins ==
  /\ Depth = 1 /\ Depth' = 1 /\ frames'[1].fn = "code" /\ frames'[1].base = Len(roots)

LEMMA DoneGoesOn ==
  ASSUME TypeOK, InBody, NEW stale \in SUBSET Var, Done(stale)
  PROVE  GoesOn(0)
<1>1. Depth \in Nat /\ Depth >= 1 /\ Current = frames[Depth] /\ Current.base \in Nat
  BY CurrentFacts, FrameFacts
<1>2. \A k \in 1 .. Depth - 1 : k \in 1 .. Depth
  BY <1>1
<1>3. Depth \in 1 .. Depth /\ Current.base + 0 = Current.base
  BY <1>1
<1>4. QED BY <1>1, <1>2, <1>3, DoneFacts DEF GoesOn, Same, Depth

LEMMA AllocGoesOn ==
  ASSUME TypeOK, Alloc
  PROVE  GoesOn(0)
<1>1. /\ Depth \in Nat /\ Depth >= 1 /\ Current = frames[Depth] /\ Depth \in 1 .. Depth
      /\ Current.base \in Nat /\ Current.base + 0 = Current.base
  BY CurrentFacts, FrameFacts
<1>2. \A k \in 1 .. Depth - 1 : k \in 1 .. Depth
  BY <1>1
<1>3. InBody
  BY DEF Alloc, Doing
<1>4. QED BY <1>1, <1>2, <1>3, AllocFacts DEF GoesOn, Same, Depth

LEMMA GlobalGoesOn ==
  ASSUME IInv, Global, Len(roots) < MaxRoots
  PROVE  GoesOn(1) /\ Current.fn \in Starters /\ This.op = "global" /\ UNCHANGED status
<1>1. InBody /\ This.op = "global"
  BY DEF Global, Doing
<1>2. Current.fn \in Starters
  BY <1>1, ThisStep DEF IInv, Structure
<1>3. /\ Depth \in Nat /\ Depth \in 1 .. Depth /\ Current = frames[Depth] /\ Current \in Frame
      /\ Len(roots) \in Nat
  BY CurrentFacts DEF IInv
<1>4. Depth = 1
  BY <1>2, <1>3 DEF IInv, Structure, Calling
<1>5. /\ frames' = [frames EXCEPT ![Depth] = [Current EXCEPT !.at = @ + 1, !.base = @ + 1]]
      /\ UNCHANGED status
  <2>1. ~(Len(roots) >= MaxRoots)
    <3>1. MaxRoots \in Nat
      BY TablesAssumption
    <3>2. QED BY <1>3, <3>1
  <2>2. QED BY <2>1 DEF Global
<1>6. ASSUME NEW c \in Frame
      PROVE  LET d == [c EXCEPT !.at = @ + 1, !.base = @ + 1] IN
             d.fn = c.fn /\ d.at = c.at + 1 /\ d.base = c.base + 1
  BY DEF Frame
<1>7. Len(frames') = Len(frames) /\ frames'[Depth] = [Current EXCEPT !.at = @ + 1, !.base = @ + 1]
  <2>1. DOMAIN frames = 1 .. Len(frames) /\ Depth = Len(frames)
    BY LenProperties DEF IInv, TypeOK, Depth
  <2>2. Len(frames') = Depth
    BY <1>3, <1>5, <2>1
  <2>3. QED BY <1>3, <1>5, <2>1, <2>2
<1>8. Same(Depth - 1)
  BY <1>4 DEF Same
<1>9. QED BY <1>1, <1>2, <1>3, <1>5, <1>6, <1>7, <1>8 DEF GoesOn, Depth

(* Every step but a call, a return and the last step of a process that fails goes  *)
(* on with the innermost frame.                                                    *)
LEMMA WithinGoesOn ==
  ASSUME IInv, IInv', Pre \/ Post \/ Push \/ Pop \/ Let \/ Read, status' = "run"
  PROVE  GoesOn(0)
<1>1. InBody
  BY DEF Pre, Post, Push, Pop, Let, Read, Doing
<1>2. Current.stale \in SUBSET Var /\ Current.stale \ {This.v} \in SUBSET Var
  BY CurrentFacts DEF IInv
<1>3. Done(Current.stale) \/ Done(Current.stale \ {This.v})
  BY DEF Pre, Post, Push, Pop, Let, Read
<1>4. QED BY <1>1, <1>2, <1>3, DoneGoesOn DEF IInv

LEMMA EnterEnters ==
  ASSUME IInv, NEW f, NEW stale, Enter(f, stale)
  PROVE  Enters(f) /\ UNCHANGED <<roots, top, left, status>>
<1> DEFINE new == [fn |-> f, at |-> 1, base |-> Len(roots), stale |-> stale]
<1>1. frames \in Seq(Frame \cup {new}) /\ Len(frames) \in Nat
  <2>1. frames \in Seq(Frame)
    BY DEF IInv, TypeOK
  <2> HIDE DEF new
  <2>2. QED BY <2>1
<1>2. frames' = Append(frames, new)
  BY DEF Enter
<1>3. /\ Len(frames') = Len(frames) + 1 /\ frames'[Len(frames) + 1] = new
      /\ \A k \in 1 .. Len(frames) : frames'[k] = frames[k]
  <2> HIDE DEF new
  <2>1. QED BY <1>1, <1>2, AppendProperties
<1>4. QED BY <1>3 DEF Enters, Enter, Same, Depth

LEMMA CallEnters ==
  ASSUME IInv, Call
  PROVE  /\ InBody /\ This.op = "call" /\ This.f \in Functions \ Starters
         /\ Enters(This.f) /\ UNCHANGED <<roots, top, left, status>>
<1>1. InBody /\ This.op = "call" /\ Enter(This.f, Passed(This.f, This.args, Current.stale))
  BY DEF Call, Doing
<1>2. QED BY <1>1, ThisStep, EnterEnters DEF IInv, Structure

LEMMA MutatorCallEnters ==
  ASSUME IInv, MutatorCalls
  PROVE  /\ Current.fn \in Mutators /\ UNCHANGED <<roots, top, left, status>>
         /\ \E f \in Calls[Current.fn] : Enters(f)
  BY EnterEnters DEF MutatorCalls, Running

LEMMA MutatorReturnLeaves ==
  ASSUME IInv, MutatorReturns
  PROVE  Leaves
<1>1. Depth > 1 /\ frames' = SubSeq(frames, 1, Depth - 1) /\ Depth \in Nat
  BY CurrentFacts DEF MutatorReturns, IInv
<1>2. Depth - 1 \in 0 .. Depth /\ Depth - 1 \in 1 .. Depth - 1
      /\ \A k \in 1 .. Depth - 2 : k \in 1 .. Depth - 1
  BY <1>1
<1>3. /\ Len(frames') = Depth - 1 /\ \A k \in 1 .. Depth - 1 : frames'[k] = frames[k]
  BY <1>1, <1>2, FramesBelow DEF IInv
<1>4. frames[Depth - 1].fn \notin Functions
  <2>1. Current.fn \in Mutators /\ Current = frames[Depth] /\ Depth \in 1 .. Depth
    BY CurrentFacts DEF MutatorReturns, Running, IInv
  <2>2. frames[Depth - 1].fn \in Mutators
    BY <1>1, <2>1 DEF IInv, Structure, Calling
  <2>3. QED BY <2>2, TablesAssumption
<1>5. QED BY <1>1, <1>2, <1>3, <1>4 DEF Leaves, Same, Depth

(* The last frame but one, which is at a call, has the result.                     *)
LEMMA ReturnLeaves ==
  ASSUME IInv, Return
  PROVE  Leaves \/ Begins
<1>1. /\ Depth \in Nat /\ Depth >= 1 /\ \A k \in 1 .. Depth : frames[k] \in Frame
  BY FrameFacts DEF IInv
<1>2. CASE Depth > 1
  <2> DEFINE caller == frames[Depth - 1]
             new == IF caller.fn \in Mutators THEN [caller EXCEPT !.stale = {}]
                    ELSE [caller EXCEPT !.at = @ + 1,
                                        !.stale = @ \ {Body[caller.fn][caller.at].v}]
  <2>1. /\ Depth - 1 \in 1 .. Depth /\ Depth # 1 /\ Depth - 2 \in 0 .. Depth
        /\ (Depth - 2) + 1 = Depth - 1 /\ Depth - 2 \in Nat
    BY <1>1, <1>2
  <2>2. frames' = Append(SubSeq(frames, 1, Depth - 2), new)
    BY <2>1 DEF Return
  <2>3. caller \in Frame /\ (caller.fn \in Functions => caller.fn \notin Mutators)
    BY <1>1, <2>1, TablesAssumption
  <2>4. ASSUME NEW c \in Frame, NEW x
        PROVE  /\ LET d == [c EXCEPT !.stale = x] IN
                  d.fn = c.fn /\ d.base = c.base /\ d.at = c.at
               /\ LET d == [c EXCEPT !.at = @ + 1, !.stale = x] IN
                  d.fn = c.fn /\ d.base = c.base /\ d.at = c.at + 1
    BY DEF Frame
  <2> HIDE DEF caller
  <2>5. /\ new.fn = caller.fn /\ new.base = caller.base
        /\ caller.fn \in Functions => new.at = caller.at + 1
    BY <2>3, <2>4
  <2> HIDE DEF new
  <2>6. /\ SubSeq(frames, 1, Depth - 2) \in Seq(Frame)
        /\ Len(SubSeq(frames, 1, Depth - 2)) = Depth - 2
        /\ \A k \in 1 .. Depth - 2 : SubSeq(frames, 1, Depth - 2)[k] = frames[k]
    BY <2>1, FramesBelow DEF IInv
  <2>7. PICK u \in Seq(Frame) : u = SubSeq(frames, 1, Depth - 2)
    BY <2>6
  <2>8. /\ Len(frames') = Depth - 1 /\ \A k \in 1 .. Depth - 2 : frames'[k] = frames[k]
        /\ frames'[Depth - 1] = new
    <3>1. /\ Len(Append(u, new)) = Len(u) + 1 /\ Append(u, new)[Len(u) + 1] = new
          /\ \A k \in 1 .. Len(u) : Append(u, new)[k] = u[k]
      OBVIOUS
    <3>2. QED BY <2>1, <2>2, <2>6, <2>7, <3>1
  <2>9. QED BY <1>2, <2>5, <2>8 DEF Leaves, Same, Depth, caller
<1>3. CASE ~(Depth > 1)
  <2>1. Depth = 1
    BY <1>1, <1>3
  <2>2. frames' = <<[fn |-> "code", at |-> 1, base |-> Len(roots), stale |-> {}]>>
    BY <2>1 DEF Return
  <2>3. QED BY <2>1, <2>2 DEF Begins, Depth
<1>4. QED BY <1>2, <1>3

-----------------------------------------------------------------------------------
LEMMA InsideStarts ==
  ASSUME NEW f, NEW i \in Nat \ {0}, Body[f][i].op = "pre"
  PROVE  Inside(f, i + 1)
<1>1. i \in 1 .. (i + 1) - 1 /\ i + 1 .. (i + 1) - 1 = {}
  OBVIOUS
<1>2. QED BY <1>1 DEF Inside

LEMMA InsideGoesOn ==
  ASSUME NEW f, NEW i \in Nat, Inside(f, i), Body[f][i].op # "post"
  PROVE  Inside(f, i + 1)
<1>1. PICK j \in 1 .. i - 1 :
        Body[f][j].op = "pre" /\ \A l \in j + 1 .. i - 1 : Body[f][l].op # "post"
  BY DEF Inside
<1>2. j \in 1 .. (i + 1) - 1 /\ \A l \in j + 1 .. (i + 1) - 1 : l \in j + 1 .. i - 1 \/ l = i
  OBVIOUS
<1>3. QED BY <1>1, <1>2 DEF Inside

(* A function ends outside.                                                        *)
LEMMA InsideEnds ==
  ASSUME NEW f \in Functions, f # "Lclone_unboxed"
  PROVE  ~Inside(f, Len(Body[f]) + 1)
<1> SUFFICES ASSUME NEW j \in 1 .. (Len(Body[f]) + 1) - 1, Body[f][j].op = "pre",
                    \A l \in j + 1 .. (Len(Body[f]) + 1) - 1 : Body[f][l].op # "post"
             PROVE  FALSE
  BY DEF Inside
<1>1. Len(Body[f]) \in Nat
  BY HeldFacts
<1>2. (Len(Body[f]) + 1) - 1 = Len(Body[f])
  BY <1>1
<1>3. \E l \in j + 1 .. Len(Body[f]) : Body[f][l].op = "post"
  BY <1>2, BracketsAssumption
<1>4. QED BY <1>2, <1>3

(* The frame at top is that of a function between its __pre_gc and its __post_gc.  *)
TopAt(k) == k \in 1 .. Depth /\ frames[k].fn \in Functions /\ Inside(frames[k].fn, frames[k].at)

TopRight == left = "" => top \in {None, VM} \/ TopAt(top)

(* The runtime calls no function of the program.                                   *)
ProgramBelow ==
  \A j, k \in 1 .. Depth : j <= k /\ frames[k].fn \in Mutators => frames[j].fn \in Mutators

TopInv == left \in {"", "Lclone_unboxed"} /\ TopRight /\ ProgramBelow

LEMMA TopGoesOn ==
  ASSUME IInv, TopInv, NEW b, GoesOn(b), This.op # "post", UNCHANGED <<top, left>>
  PROVE  TopInv'
<1>1. /\ Depth \in Nat /\ Depth \in 1 .. Depth /\ Current = frames[Depth] /\ Depth' = Depth
      /\ Current.at \in Nat /\ \A k \in 1 .. Depth : k = Depth \/ k \in 1 .. Depth - 1
  BY FrameFacts DEF IInv, GoesOn
<1>2. \A k \in 1 .. Depth : frames'[k].fn = frames[k].fn
  BY <1>1 DEF GoesOn, Same
<1>3. ASSUME NEW k, TopAt(k)
      PROVE  TopAt(k)'
  <2>1. CASE k = Depth
    <3>1. Inside(Current.fn, Current.at + 1)
      BY <1>1, <1>3, <2>1, InsideGoesOn DEF TopAt, This
    <3>2. QED BY <1>1, <1>2, <1>3, <2>1, <3>1 DEF TopAt, GoesOn, Inside
  <2>2. CASE k # Depth
    <3>1. frames'[k].at = frames[k].at /\ frames'[k].fn = frames[k].fn
      BY <1>1, <1>3, <2>2 DEF TopAt, GoesOn, Same
    <3>2. QED BY <1>1, <1>3, <3>1 DEF TopAt, Inside
  <2>3. QED BY <2>1, <2>2
<1>4. TopRight'
  BY <1>3 DEF TopInv, TopRight
<1>5. ProgramBelow'
  BY <1>1, <1>2 DEF TopInv, ProgramBelow
<1>6. QED BY <1>4, <1>5 DEF TopInv

(* __pre_gc sets top to the frame of a function that is inside from then on.       *)
LEMMA TopPre ==
  ASSUME IInv, TopInv, GoesOn(0), Pre
  PROVE  TopInv'
<1>1. This.op = "pre" /\ left' = left /\ top' = (IF top = None THEN Depth ELSE top)
  BY DEF Pre, Doing
<1>2. CASE top # None
  BY <1>1, <1>2, TopGoesOn
<1>3. CASE top = None
  <2>1. /\ Depth \in Nat /\ Depth \in 1 .. Depth /\ Current = frames[Depth] /\ Depth' = Depth
        /\ \A k \in 1 .. Depth : k = Depth \/ k \in 1 .. Depth - 1
    BY FrameFacts DEF IInv, GoesOn
  <2>2. \A k \in 1 .. Depth : frames'[k].fn = frames[k].fn
    BY <2>1 DEF GoesOn, Same
  <2>3. Current.fn \in Functions /\ Current.at \in Nat \ {0}
    <3>1. Current.at \in 1 .. Len(Body[Current.fn]) /\ Current.fn \in Functions
      BY ThisStep DEF IInv, Structure, GoesOn
    <3>2. QED BY <3>1, HeldFacts
  <2>4. Inside(Current.fn, Current.at + 1)
    BY <1>1, <2>3, InsideStarts DEF This
  <2>5. TopAt(Depth)'
    BY <2>1, <2>2, <2>3, <2>4 DEF TopAt, GoesOn, Inside
  <2>6. TopRight'
    BY <1>1, <1>3, <2>1, <2>5 DEF TopRight
  <2>7. ProgramBelow'
    BY <2>1, <2>2 DEF TopInv, ProgramBelow
  <2>8. QED BY <1>1, <2>6, <2>7 DEF TopInv
<1>4. QED BY <1>2, <1>3

(* __post_gc resets top if it is the frame of its function, and otherwise another  *)
(* function is inside.                                                             *)
LEMMA TopPost ==
  ASSUME IInv, TopInv, GoesOn(0), Post
  PROVE  TopInv'
<1>1. /\ Depth \in Nat /\ Depth \in 1 .. Depth /\ Current = frames[Depth] /\ Depth' = Depth
      /\ \A k \in 1 .. Depth : k = Depth \/ k \in 1 .. Depth - 1
  BY FrameFacts DEF IInv, GoesOn
<1>2. \A k \in 1 .. Depth : frames'[k].fn = frames[k].fn
  BY <1>1 DEF GoesOn, Same
<1>3. ProgramBelow'
  BY <1>1, <1>2 DEF TopInv, ProgramBelow
<1>4. CASE top = Depth /\ top' = None /\ left' = ""
  BY <1>3, <1>4 DEF TopInv, TopRight
<1>5. CASE (top # Depth \/ left # "") /\ UNCHANGED <<top, left>>
  <2>1. ASSUME top # Depth, TopAt(top)
        PROVE  TopAt(top)'
    <3>1. frames'[top].at = frames[top].at /\ frames'[top].fn = frames[top].fn /\ top' = top
      BY <1>1, <1>5, <2>1 DEF TopAt, GoesOn, Same
    <3>2. QED BY <1>1, <2>1, <3>1 DEF TopAt, Inside
  <2>2. TopRight'
    BY <1>5, <2>1 DEF TopInv, TopRight
  <2>3. QED BY <1>3, <1>5, <2>2 DEF TopInv
<1>6. QED BY <1>4, <1>5 DEF Post

LEMMA TopEnters ==
  ASSUME IInv, TopInv, NEW f, Enters(f), f \in Mutators => Current.fn \in Mutators,
         UNCHANGED <<top, left>>
  PROVE  TopInv'
<1>1. /\ Depth \in Nat /\ Depth \in 1 .. Depth /\ Current = frames[Depth] /\ Depth' = Depth + 1
      /\ \A k \in 1 .. Depth' : k = Depth + 1 \/ k \in 1 .. Depth
      /\ \A k \in 1 .. Depth : k \in 1 .. Depth' /\ k <= Depth
  BY FrameFacts DEF IInv, Enters
<1>2. \A k \in 1 .. Depth : frames'[k].fn = frames[k].fn /\ frames'[k].at = frames[k].at
  BY DEF Enters, Same
<1>3. ASSUME NEW k, TopAt(k)
      PROVE  TopAt(k)'
  BY <1>1, <1>2, <1>3 DEF TopAt, Inside
<1>4. TopRight'
  BY <1>3 DEF TopInv, TopRight
<1>5. ASSUME NEW j \in 1 .. Depth', NEW k \in 1 .. Depth', j <= k, frames'[k].fn \in Mutators
      PROVE  frames'[j].fn \in Mutators
  <2>1. CASE k \in 1 .. Depth
    <3>1. j \in 1 .. Depth
      BY <1>1, <1>5, <2>1
    <3>2. QED BY <1>2, <1>5, <2>1, <3>1 DEF TopInv, ProgramBelow
  <2>2. CASE k = Depth + 1
    <3>1. f \in Mutators /\ frames'[Depth + 1].fn = f
      BY <1>5, <2>2 DEF Enters
    <3>2. CASE j \in 1 .. Depth
      BY <1>1, <1>2, <3>1, <3>2 DEF TopInv, ProgramBelow
    <3>3. CASE j = Depth + 1
      BY <3>1, <3>3
    <3>4. QED BY <1>1, <3>2, <3>3
  <2>3. QED BY <1>1, <2>1, <2>2
<1>6. QED BY <1>4, <1>5 DEF TopInv, ProgramBelow

(* A frame that is gone was not the one at top, or left remembers its function.    *)
LEMMA TopLeaves ==
  ASSUME IInv, TopInv, Leaves, top' = top, left' \in {"", "Lclone_unboxed"},
         left' = "" => left = "" /\ (TopAt(top) => top # Depth)
  PROVE  TopInv'
<1>1. /\ Depth \in Nat /\ Depth > 1 /\ Depth' = Depth - 1
      /\ \A k \in 1 .. Depth' : k \in 1 .. Depth /\ k < Depth /\ (k = Depth - 1 \/ k \in 1 .. Depth - 2)
      /\ \A k \in 1 .. Depth : k # Depth => k \in 1 .. Depth'
  <2>1. Depth \in Nat /\ Depth > 1 /\ Depth' = Depth - 1
    BY FrameFacts DEF IInv, Leaves
  <2>2. /\ \A k \in 1 .. Depth - 1 : k \in 1 .. Depth - 2 \/ k = Depth - 1
        /\ \A k \in 1 .. Depth - 1 : k \in 1 .. Depth /\ k < Depth
    BY <2>1, Positions
  <2>3. \A k \in 1 .. Depth : k # Depth => k \in 1 .. Depth - 1
    BY <2>1, BelowLast
  <2>4. QED BY <2>1, <2>2, <2>3
<1>2. \A k \in 1 .. Depth' : frames'[k].fn = frames[k].fn
  BY <1>1 DEF Leaves, Same
<1>3. ASSUME NEW k, TopAt(k), k # Depth
      PROVE  TopAt(k)'
  <2>1. k \in 1 .. Depth' /\ frames'[k].fn = frames[k].fn /\ frames[k].fn \in Functions
    BY <1>1, <1>2, <1>3 DEF TopAt
  <2>2. CASE k = Depth - 1
    <3>1. /\ Body[frames[k].fn][frames[k].at].op = "call"
          /\ frames'[k].at = frames[k].at + 1
      BY <1>1, <2>1, <2>2 DEF Leaves, IInv, Structure, Calling, IsFunction
    <3>2. frames[k].at \in Nat
      BY <1>1, <2>1, FrameFacts DEF IInv
    <3>3. Inside(frames[k].fn, frames[k].at + 1)
      BY <1>3, <3>1, <3>2, InsideGoesOn DEF TopAt
    <3>4. QED BY <2>1, <3>1, <3>3 DEF TopAt, Inside
  <2>3. CASE k \in 1 .. Depth - 2
    <3>1. frames'[k].at = frames[k].at
      BY <2>3 DEF Leaves, Same
    <3>2. QED BY <1>3, <2>1, <3>1 DEF TopAt, Inside
  <2>4. QED BY <1>1, <2>1, <2>2, <2>3
<1>4. TopRight'
  BY <1>3 DEF TopInv, TopRight
<1>5. ProgramBelow'
  BY <1>1, <1>2 DEF TopInv, ProgramBelow
<1>6. QED BY <1>4, <1>5 DEF TopInv

LEMMA TopReturn ==
  ASSUME IInv, TopInv, Return
  PROVE  TopInv'
<1>1. /\ Current.fn \in Functions /\ Current.at = Len(Body[Current.fn]) + 1 /\ top' = top
      /\ left' = IF top = Depth /\ left = "" THEN Current.fn ELSE left
  BY DEF Return
<1>2. Depth \in Nat /\ Depth >= 1 /\ Current = frames[Depth]
  BY FrameFacts DEF IInv
<1>3. TopAt(Depth) => Current.fn = "Lclone_unboxed"
  BY <1>1, <1>2, InsideEnds DEF TopAt
<1>4. top = Depth /\ left = "" => TopAt(Depth)
  <2>1. Depth # None /\ Depth # VM
    BY <1>2 DEF None, VM
  <2>2. QED BY <2>1 DEF TopInv, TopRight
<1>5. left' \in {"", "Lclone_unboxed"}
  BY <1>1, <1>3, <1>4 DEF TopInv
<1>6. left' = "" => left = "" /\ top # Depth
  BY <1>1, <1>3, <1>4
<1>7. CASE Leaves
  BY <1>1, <1>5, <1>6, <1>7, TopLeaves
<1>8. CASE Begins
  <2>1. Depth = 1 /\ Depth' = 1 /\ "code" \in Mutators /\ \A k \in 1 .. Depth' : k = 1
    <3>1. "code" \in Mutators
      BY TablesAssumption
    <3>2. Depth = 1 /\ Depth' = 1
      BY <1>8 DEF Begins
    <3>3. \A k \in 1 .. 1 : k = 1
      OBVIOUS
    <3>4. QED BY <3>1, <3>2, <3>3
  <2>2. left' = "" => top' \in {None, VM}
    BY <1>1, <1>6, <2>1 DEF TopInv, TopRight, TopAt
  <2>3. ProgramBelow'
    BY <1>8, <2>1 DEF ProgramBelow, Begins
  <2>4. QED BY <1>5, <2>2, <2>3 DEF TopInv, TopRight
<1>9. QED BY <1>7, <1>8, ReturnLeaves

LEMMA TopMutatorReturns ==
  ASSUME IInv, TopInv, MutatorReturns
  PROVE  TopInv'
<1>1. Current.fn \in Mutators /\ UNCHANGED <<top, left>>
  BY DEF MutatorReturns, Running
<1>2. Current = frames[Depth]
  BY FrameFacts DEF IInv
<1>3. ~TopAt(Depth)
  BY <1>1, <1>2, TablesAssumption DEF TopAt
<1>4. left' \in {"", "Lclone_unboxed"}
  BY <1>1 DEF TopInv
<1>5. QED BY <1>1, <1>3, <1>4, MutatorReturnLeaves, TopLeaves

LEMMA TopUnchanged ==
  ASSUME TopInv, UNCHANGED <<frames, top, left>>
  PROVE  TopInv'
  BY DEF TopInv, TopRight, TopAt, ProgramBelow, Depth, Inside

(* A step after which the process goes on has changed frames as it should; after   *)
(* one that ends it nothing about them has changed.                                *)
LEMMA StatusRun ==
  ASSUME IInv, IInv', Push \/ Pop \/ Global
  PROVE  status' = "run" \/ UNCHANGED <<frames, top, left>>
<1>1. status = "run"
  BY DEF Push, Pop, Global, Doing
<1>2. CASE Push
  BY <1>1, <1>2 DEF Push
<1>3. CASE Pop
  BY <1>1, <1>3 DEF Pop
<1>4. CASE Global
  BY <1>1, <1>4 DEF Global
<1>5. QED BY <1>2, <1>3, <1>4

LEMMA TopKeeps ==
  ASSUME IInv, IInv', TopInv, [Next]_vars
  PROVE  TopInv'
<1>1. CASE UNCHANGED <<frames, top, left>>
  BY <1>1, TopUnchanged
<1>2. CASE MutatorReads \/ UNCHANGED vars
  BY <1>1, <1>2 DEF MutatorReads, vars
<1>3. CASE Pre \/ Post \/ Let \/ Read
  <2>1. status' = "run"
    BY <1>3 DEF Pre, Post, Let, Read, Doing
  <2>2. GoesOn(0)
    BY <1>3, <2>1, WithinGoesOn
  <2>3. CASE Let \/ Read
    BY <2>2, <2>3, TopGoesOn DEF Let, Read, Doing
  <2>4. QED BY <1>3, <2>2, <2>3, TopPre, TopPost
<1>4. CASE Alloc
  BY <1>4, AllocGoesOn, TopGoesOn DEF Alloc, Doing, IInv
<1>5. CASE (Push \/ Pop) /\ status' = "run"
  <2>1. GoesOn(0)
    BY <1>5, WithinGoesOn
  <2>2. UNCHANGED <<top, left>> /\ This.op # "post"
    BY <1>5 DEF Push, Pop, Doing
  <2>3. QED BY <2>1, <2>2, TopGoesOn
<1>6. CASE Global
  <2>1. UNCHANGED <<top, left>> /\ This.op # "post"
    BY <1>6 DEF Global, Doing
  <2>2. CASE Len(roots) >= MaxRoots
    BY <1>1, <1>6, <2>2 DEF Global
  <2>3. CASE ~(Len(roots) >= MaxRoots)
    <3>1. Len(roots) < MaxRoots
      <4>1. Len(roots) \in Nat /\ MaxRoots \in Nat
        BY CurrentFacts, TablesAssumption DEF IInv
      <4>2. QED BY <2>3, <4>1
    <3>2. QED BY <1>6, <2>1, <3>1, GlobalGoesOn, TopGoesOn
  <2>4. QED BY <2>2, <2>3
<1>7. CASE Call
  <2>1. Enters(This.f) /\ UNCHANGED <<top, left>> /\ This.f \in Functions
    BY <1>7, CallEnters
  <2>2. This.f \notin Mutators
    BY <2>1, TablesAssumption
  <2>3. QED BY <2>1, <2>2, TopEnters
<1>8. CASE MutatorCalls
  BY <1>8, MutatorCallEnters, TopEnters
<1>9. QED BY <1>1, <1>2, <1>3, <1>4, <1>5, <1>6, <1>7, <1>8, TopReturn, TopMutatorReturns, StatusRun
      DEF Next

LEMMA TopStarts == Init => TopInv
<1> SUFFICES ASSUME Init PROVE TopInv
  OBVIOUS
<1>1. PICK f \in Starters \cup {"eval"} : frames = Started(f)
  BY DEF Init
<1>2. Depth = 1 /\ \A k \in 1 .. Depth : k = 1
  BY <1>1 DEF Started, Depth
<1>3. left = "" /\ top \in {None, VM}
  BY DEF Init
<1>4. QED BY <1>2, <1>3 DEF TopInv, TopRight, ProgramBelow

(* The program never runs with __gc_stack_top set to a frame of the runtime: every *)
(* function that set it resets it, whatever it calls, but for the one that         *)
(* BracketsAssumption names (__pre_gc, __post_gc, Lclone).                         *)
THEOREM TopIsReset == Spec => []TopReset
<1>1. IInv /\ TopInv => TopReset
  <2> SUFFICES ASSUME IInv, TopInv PROVE TopReset
    OBVIOUS
  <2>1. Depth \in 1 .. Depth /\ Current = frames[Depth] /\ Depth \in Nat
    BY CurrentFacts DEF IInv
  <2>2. ASSUME Running, TopAt(top) PROVE FALSE
    <3>1. top \in 1 .. Depth /\ top <= Depth /\ Current.fn \in Mutators
      BY <2>1, <2>2 DEF TopAt, Running
    <3>2. frames[top].fn \in Mutators
      BY <2>1, <3>1 DEF TopInv, ProgramBelow
    <3>3. QED BY <2>2, <3>2, TablesAssumption DEF TopAt
  <2>3. QED BY <2>2 DEF TopInv, TopRight, TopReset
<1>2. Init => IInv /\ TopInv
  BY InitHolds, TopStarts
<1>3. (IInv /\ TopInv) /\ [Next]_vars => (IInv /\ TopInv)'
  BY NextKeeps, TopKeeps
<1>4. QED BY <1>1, <1>2, <1>3, PTL DEF Spec

-----------------------------------------------------------------------------------
(* How many roots may be in the pool below a frame of f that is at its step i.     *)
Below(f, i) ==
  IF f \in Mutators THEN 1
  ELSE IF f \in Starters THEN (IF i <= Len(Body[f]) THEN 0 ELSE 1)
  ELSE Before[f]

LowBases ==
  /\ frames[1].fn \in Starters \cup Mutators
  /\ \A k \in 1 .. Depth : frames[k].base <= Below(frames[k].fn, frames[k].at)

RootsInv == LowBases /\ RootsSuffice

LEMMA BelowFacts ==
  ASSUME NEW f \in Functions \cup Mutators, NEW i \in Nat
  PROVE  /\ Below(f, i) \in Nat /\ Below(f, i) <= Below(f, i + 1)
         /\ f \in Functions /\ i <= Len(Body[f]) => Below(f, i) <= Before[f]
<1>1. f \in Functions => Before[f] \in Nat /\ Len(Body[f]) \in Nat /\ f \notin Mutators
  BY BeforeAssumption, TablesAssumption, HeldFacts
<1>2. CASE f \in Mutators
  BY <1>1, <1>2 DEF Below
<1>3. CASE f \notin Mutators /\ f \in Starters
  BY <1>1, <1>3 DEF Below
<1>4. CASE f \notin Mutators /\ f \notin Starters
  BY <1>1, <1>4 DEF Below
<1>5. QED BY <1>2, <1>3, <1>4

(* What is in the pool at a step of a body.                                        *)
LEMMA PoolAtStep ==
  ASSUME IInv, LowBases, InBody
  PROVE  /\ Len(roots) <= Before[Current.fn] + Len(Held[Current.fn][Current.at])
         /\ Current.fn \in Functions /\ Current.at \in 1 .. Len(Body[Current.fn])
         /\ Len(roots) \in Nat /\ Before[Current.fn] + Len(Held[Current.fn][Current.at]) \in Nat
<1>1. /\ Depth \in 1 .. Depth /\ Current = frames[Depth] /\ Current.base \in Nat
      /\ Current.at \in Nat /\ Len(roots) \in Nat
  BY CurrentFacts, FrameFacts DEF IInv
<1>2. /\ Current.fn \in Functions /\ Current.at \in 1 .. Len(Body[Current.fn])
      /\ HeldNow(Depth) = Held[Current.fn][Current.at]
  BY ThisStep DEF IInv, Structure
<1>3. Len(HeldNow(Depth)) \in Nat /\ Current.base + Len(HeldNow(Depth)) = Len(roots)
  BY <1>1, SegmentFacts DEF IInv
<1>4. Current.base <= Below(Current.fn, Current.at)
  BY <1>1 DEF LowBases
<1>5. /\ Below(Current.fn, Current.at) \in Nat /\ Below(Current.fn, Current.at) <= Before[Current.fn]
      /\ Before[Current.fn] \in Nat
  BY <1>1, <1>2, BelowFacts, BeforeAssumption DEF InBody
<1>6. ASSUME NEW b \in Nat, NEW c \in Nat, NEW d \in Nat, NEW h \in Nat, NEW r, b <= c, c <= d, b + h = r
      PROVE  r <= d + h /\ d + h \in Nat
  BY <1>6
<1>7. /\ Len(roots) <= Before[Current.fn] + Len(HeldNow(Depth))
      /\ Before[Current.fn] + Len(HeldNow(Depth)) \in Nat
  <2>1. PICK b, c, d, h, r :
          /\ b = Current.base /\ c = Below(Current.fn, Current.at) /\ d = Before[Current.fn]
          /\ h = Len(HeldNow(Depth)) /\ r = Len(roots)
    OBVIOUS
  <2>2. /\ b \in Nat /\ c \in Nat /\ d \in Nat /\ h \in Nat
        /\ b <= c /\ c <= d /\ b + h = r
    BY <1>1, <1>3, <1>4, <1>5, <2>1
  <2>3. r <= d + h /\ d + h \in Nat
    BY <1>6, <2>2
  <2>4. QED BY <2>1, <2>3
<1>8. QED BY <1>1, <1>2, <1>7

(* A root more than there is room for is one of a function that pushes too many.   *)
LEMMA Overflows ==
  ASSUME IInv, LowBases, Push \/ Global, Len(roots) >= MaxRoots
  PROVE  Pushes(Current.fn) >= MaxRoots
<1>1. InBody /\ This.op \in {"push", "global"}
  BY DEF Push, Global, Doing
<1>2. /\ Len(roots) <= Before[Current.fn] + Len(Held[Current.fn][Current.at])
      /\ Current.fn \in Functions /\ Current.at \in 1 .. Len(Body[Current.fn])
      /\ Len(roots) \in Nat /\ Before[Current.fn] + Len(Held[Current.fn][Current.at]) \in Nat
  BY <1>1, PoolAtStep
<1>3. Before[Current.fn] + Len(Held[Current.fn][Current.at]) >= MaxRoots
  <2>1. MaxRoots \in Nat
    BY TablesAssumption
  <2>2. QED BY <1>2, <2>1
<1>4. QED BY <1>1, <1>2, <1>3, BeforeAssumption DEF This

LEMMA LowGoesOn ==
  ASSUME IInv, LowBases, NEW b \in {0, 1}, GoesOn(b),
         b = 1 => Current.fn \in Starters /\ This.op = "global"
  PROVE  LowBases'
<1>1. /\ Depth \in Nat /\ Depth \in 1 .. Depth /\ Current = frames[Depth] /\ Depth' = Depth
      /\ \A k \in 1 .. Depth : k = Depth \/ k \in 1 .. Depth - 1
      /\ 1 \in 1 .. Depth
  BY FrameFacts DEF IInv, GoesOn
<1>2. \A k \in 1 .. Depth : frames'[k].fn = frames[k].fn
  BY <1>1 DEF GoesOn, Same
<1>3. ASSUME NEW k \in 1 .. Depth - 1
      PROVE  frames'[k].base <= Below(frames'[k].fn, frames'[k].at)
  <2>1. k \in 1 .. Depth
    BY <1>1
  <2>2. /\ frames'[k].fn = frames[k].fn /\ frames'[k].at = frames[k].at
        /\ frames'[k].base = frames[k].base
    BY <1>3 DEF GoesOn, Same
  <2>3. QED BY <2>1, <2>2 DEF LowBases
<1>4. /\ Current.fn \in Functions /\ Current.at \in 1 .. Len(Body[Current.fn])
      /\ Current.at \in Nat /\ Current.base \in Nat
  BY <1>1, ThisStep, FrameFacts DEF IInv, Structure, GoesOn
<1>5. Current.base <= Below(Current.fn, Current.at)
  BY <1>1 DEF LowBases
<1>6. Current.base + b <= Below(Current.fn, Current.at + 1)
  <2>1. CASE b = 0
    <3>1. /\ Below(Current.fn, Current.at) \in Nat /\ Below(Current.fn, Current.at + 1) \in Nat
          /\ Below(Current.fn, Current.at) <= Below(Current.fn, Current.at + 1)
          /\ Current.base + b = Current.base
      <4>1. Current.at \in Nat /\ Current.at + 1 \in Nat /\ Current.fn \in Functions \cup Mutators
            /\ Current.base + b = Current.base
        BY <1>4, <2>1
      <4>2. QED BY <4>1, BelowFacts
    <3>2. QED BY <1>4, <1>5, <3>1
  <2>2. CASE b = 1
    <3>1. Current.at = Len(Body[Current.fn])
      BY <1>4, <2>2, BeforeAssumption DEF This
    <3>2. Current.fn \in Starters /\ Current.fn \notin Mutators
      BY <1>4, <2>2, TablesAssumption
    <3>3. Below(Current.fn, Current.at) = 0
      BY <1>4, <3>1, <3>2 DEF Below
    <3>4. ~(Current.at + 1 <= Len(Body[Current.fn]))
      BY <1>4, <3>1
    <3>5. Below(Current.fn, Current.at + 1) = 1
      BY <3>2, <3>4 DEF Below
    <3>6. QED BY <1>4, <1>5, <2>2, <3>3, <3>5
  <2>3. QED BY <2>1, <2>2
<1>7. frames'[Depth].base <= Below(frames'[Depth].fn, frames'[Depth].at)
  BY <1>6 DEF GoesOn
<1>8. \A k \in 1 .. Depth : frames'[k].base <= Below(frames'[k].fn, frames'[k].at)
  BY <1>1, <1>3, <1>7
<1>9. QED BY <1>1, <1>2, <1>8 DEF LowBases

LEMMA LowEnters ==
  ASSUME IInv, LowBases, NEW f, Enters(f), Len(roots) <= Below(f, 1)
  PROVE  LowBases'
<1>1. /\ Depth \in Nat /\ 1 \in 1 .. Depth /\ Depth' = Depth + 1
      /\ \A k \in 1 .. Depth' : k = Depth + 1 \/ k \in 1 .. Depth
  BY FrameFacts DEF IInv, Enters
<1>2. \A k \in 1 .. Depth : /\ frames'[k].fn = frames[k].fn /\ frames'[k].at = frames[k].at
                            /\ frames'[k].base = frames[k].base
  BY DEF Enters, Same
<1>3. ASSUME NEW k \in 1 .. Depth'
      PROVE  frames'[k].base <= Below(frames'[k].fn, frames'[k].at)
  <2>1. CASE k \in 1 .. Depth
    BY <1>2, <2>1 DEF LowBases
  <2>2. CASE k = Depth + 1
    BY <2>2 DEF Enters
  <2>3. QED BY <1>1, <2>1, <2>2
<1>4. QED BY <1>1, <1>2, <1>3 DEF LowBases

LEMMA LowCall ==
  ASSUME IInv, LowBases, Call
  PROVE  LowBases'
<1>1. /\ InBody /\ This.op = "call" /\ This.f \in Functions \ Starters /\ Enters(This.f)
  BY CallEnters
<1>2. /\ Len(roots) <= Before[Current.fn] + Len(Held[Current.fn][Current.at])
      /\ Current.fn \in Functions /\ Current.at \in 1 .. Len(Body[Current.fn])
      /\ Len(roots) \in Nat /\ Before[Current.fn] + Len(Held[Current.fn][Current.at]) \in Nat
  BY <1>1, PoolAtStep
<1>3. Before[Current.fn] + Len(Held[Current.fn][Current.at]) <= Before[This.f]
  BY <1>1, <1>2, BeforeAssumption DEF This
<1>4. Before[This.f] \in Nat /\ Before[This.f] = Below(This.f, 1)
  BY <1>1, BeforeAssumption, TablesAssumption DEF Below
<1>5. Len(roots) <= Below(This.f, 1)
  BY <1>2, <1>3, <1>4
<1>6. QED BY <1>1, <1>5, LowEnters

LEMMA LowMutatorCalls ==
  ASSUME IInv, LowBases, MutatorCalls
  PROVE  LowBases'
<1>1. Current.fn \in Mutators
  BY MutatorCallEnters
<1>2. PICK f \in Calls[Current.fn] : Enters(f)
  BY MutatorCallEnters
<1>3. /\ Depth \in 1 .. Depth /\ Current = frames[Depth] /\ Current.base \in Nat
      /\ Len(roots) \in Nat
  BY CurrentFacts, FrameFacts DEF IInv
<1>4. Len(HeldNow(Depth)) = 0 /\ Current.base + Len(HeldNow(Depth)) = Len(roots)
  <2>1. HeldNow(Depth) = <<>>
    BY <1>1, <1>3, MutatorHolds
  <2>2. QED BY <2>1, NoneHeld, SegmentFacts DEF IInv
<1>5. Len(roots) <= 1
  <2>1. Current.base <= 1
    BY <1>1, <1>3 DEF LowBases, Below
  <2>2. QED BY <1>3, <1>4, <2>1, AddNone
<1>6. f \in (Functions \ Starters) \cup Mutators
  BY <1>1, TablesAssumption
<1>7. Len(roots) <= Below(f, 1)
  <2>1. CASE f \in Mutators
    BY <1>5, <2>1 DEF Below
  <2>2. CASE f \notin Mutators
    <3>1. f \in Functions \ Starters
      BY <1>6, <2>2
    <3>2. Before[f] >= 1 /\ Before[f] \in Nat
      BY <1>1, <3>1, BeforeAssumption
    <3>3. Below(f, 1) = Before[f]
      BY <2>2, <3>1 DEF Below
    <3>4. QED BY <1>3, <1>5, <3>2, <3>3
  <2>3. QED BY <2>1, <2>2
<1>8. QED BY <1>2, <1>7, LowEnters

LEMMA LowLeaves ==
  ASSUME IInv, LowBases, Leaves
  PROVE  LowBases'
<1>1. Depth \in Nat /\ Depth > 1 /\ Depth' = Depth - 1
  BY FrameFacts DEF IInv, Leaves
<1>2. /\ \A k \in 1 .. Depth - 1 : k \in 1 .. Depth - 2 \/ k = Depth - 1
      /\ \A k \in 1 .. Depth - 1 : k \in 1 .. Depth /\ k < Depth
      /\ 1 \in 1 .. Depth - 1
  BY <1>1, Positions
<1>3. \A k \in 1 .. Depth - 1 : frames'[k].fn = frames[k].fn /\ frames'[k].base = frames[k].base
  BY <1>2 DEF Leaves, Same
<1>4. ASSUME NEW k \in 1 .. Depth - 1
      PROVE  Below(frames[k].fn, frames[k].at) <= Below(frames[k].fn, frames'[k].at)
  <2>1. k \in 1 .. Depth /\ frames[k].fn \in Functions \cup Mutators /\ frames[k].at \in Nat
    BY <1>2, FrameFacts DEF IInv
  <2>2. Below(frames[k].fn, frames[k].at) \in Nat
    BY <2>1, BelowFacts
  <2>3. CASE frames'[k].at = frames[k].at
    BY <2>2, <2>3
  <2>4. CASE frames[k].fn \in Mutators
    BY <2>4 DEF Below
  <2>5. CASE frames[k].fn \in Functions /\ frames'[k].at = frames[k].at + 1
    BY <2>1, <2>5, BelowFacts
  <2>6. QED BY <1>2, <2>1, <2>3, <2>4, <2>5 DEF Leaves, Same
<1>5. ASSUME NEW k \in 1 .. Depth - 1
      PROVE  frames'[k].base <= Below(frames'[k].fn, frames'[k].at)
  <2>1. k \in 1 .. Depth /\ frames[k].fn \in Functions \cup Mutators /\ frames[k].at \in Nat
        /\ frames[k].base \in Nat
    BY <1>2, FrameFacts DEF IInv
  <2>2. frames[k].base <= Below(frames[k].fn, frames[k].at)
    BY <2>1 DEF LowBases
  <2>3. Below(frames[k].fn, frames[k].at) \in Nat /\ Below(frames[k].fn, frames'[k].at) \in Nat
    BY <2>1, BelowFacts, BeforeAssumption, TablesAssumption DEF Below
  <2>4. frames[k].base <= Below(frames[k].fn, frames'[k].at)
    BY <1>4, <2>1, <2>2, <2>3
  <2>5. QED BY <1>3, <2>4
<1>6. QED BY <1>1, <1>2, <1>3, <1>5 DEF LowBases

LEMMA LowReturn ==
  ASSUME IInv, LowBases, Return
  PROVE  LowBases'
<1>1. CASE Leaves
  BY <1>1, LowLeaves
<1>2. CASE Begins
  <2>1. /\ Current.fn \in Functions /\ Current.at = Len(Body[Current.fn]) + 1
        /\ Len(Body[Current.fn]) \in Nat
    BY HeldFacts DEF Return
  <2>2. /\ Depth = 1 /\ 1 \in 1 .. Depth /\ Current = frames[1] /\ Current.base \in Nat
        /\ Depth \in 1 .. Depth /\ Len(roots) \in Nat
    BY <1>2, CurrentFacts, FrameFacts DEF IInv, Begins
  <2>3. Current.fn \in Starters /\ Current.fn \notin Mutators
    BY <2>1, <2>2, TablesAssumption DEF LowBases
  <2>4. ~(Current.at <= Len(Body[Current.fn]))
    BY <2>1
  <2>5. Current.base <= 1
    BY <2>2, <2>3, <2>4 DEF LowBases, Below
  <2>6. HeldNow(Depth) = <<>>
    BY <2>1, <2>2, HeldFacts DEF HeldNow, IsFunction
  <2>7. Len(HeldNow(Depth)) = 0 /\ Current.base + Len(HeldNow(Depth)) = Len(roots)
    BY <2>6, NoneHeld, SegmentFacts DEF IInv
  <2>8. Len(roots) <= 1
    BY <2>2, <2>5, <2>7, AddNone
  <2>9. "code" \in Mutators /\ Below("code", frames'[1].at) = 1
    <3>1. "code" \in Mutators
      BY TablesAssumption
    <3>2. QED BY <3>1 DEF Below
  <2>10. \A k \in 1 .. 1 : k = 1
    OBVIOUS
  <2>11. QED BY <1>2, <2>8, <2>9, <2>10 DEF LowBases, Begins
<1>3. QED BY <1>1, <1>2, ReturnLeaves

LEMMA LowUnchanged ==
  ASSUME LowBases, UNCHANGED frames
  PROVE  LowBases'
  BY DEF LowBases, Depth

LEMMA LowKeeps ==
  ASSUME IInv, IInv', LowBases, [Next]_vars
  PROVE  LowBases'
<1>1. CASE UNCHANGED frames
  BY <1>1, LowUnchanged
<1>2. CASE MutatorReads \/ UNCHANGED vars
  BY <1>1, <1>2 DEF MutatorReads, vars
<1>3. CASE Pre \/ Post \/ Let \/ Read
  <2>1. status' = "run"
    BY <1>3 DEF Pre, Post, Let, Read, Doing
  <2>2. QED BY <1>3, <2>1, WithinGoesOn, LowGoesOn
<1>4. CASE Alloc
  BY <1>4, AllocGoesOn, LowGoesOn DEF IInv
<1>5. CASE (Push \/ Pop) /\ status' = "run"
  BY <1>5, WithinGoesOn, LowGoesOn
<1>6. CASE Global
  <2>1. CASE Len(roots) >= MaxRoots
    BY <1>1, <1>6, <2>1 DEF Global
  <2>2. CASE ~(Len(roots) >= MaxRoots)
    <3>1. Len(roots) < MaxRoots
      <4>1. Len(roots) \in Nat /\ MaxRoots \in Nat
        BY CurrentFacts, TablesAssumption DEF IInv
      <4>2. QED BY <2>2, <4>1
    <3>2. QED BY <1>6, <3>1, GlobalGoesOn, LowGoesOn
  <2>3. QED BY <2>1, <2>2
<1>7. QED BY <1>1, <1>2, <1>3, <1>4, <1>5, <1>6, LowCall, LowReturn, LowMutatorCalls,
            MutatorReturnLeaves, LowLeaves, StatusRun
      DEF Next

(* The only steps that end the process in this way are a push and set_args.        *)
LEMMA SufficeKeeps ==
  ASSUME IInv, LowBases, RootsSuffice, [Next]_vars
  PROVE  RootsSuffice'
<1>1. CASE status = "overflow"
  <2>1. UNCHANGED vars
    BY <1>1 DEF Next, Pre, Post, Push, Pop, Global, Alloc, Let, Read, Call, Return,
                MutatorCalls, MutatorReturns, MutatorReads, Doing, Running
  <2>2. QED BY <2>1 DEF RootsSuffice, vars, Current, Depth
<1>2. CASE status # "overflow"
  <2> SUFFICES ASSUME status' = "overflow" PROVE Pushes(Current'.fn) >= MaxRoots
    BY DEF RootsSuffice, Pushes
  <2>1. /\ Push \/ Global
        /\ Len(roots) >= MaxRoots /\ UNCHANGED frames
    BY <1>2 DEF Next, vars, Pre, Post, Push, Pop, Global, Alloc, Let, Read, Call, Enter, Return,
                MutatorCalls, MutatorReturns, MutatorReads, Doing, Running
  <2>2. Pushes(Current.fn) >= MaxRoots
    BY <2>1, Overflows
  <2>3. QED BY <2>1, <2>2 DEF Current, Depth
<1>3. QED BY <1>1, <1>2

LEMMA LowStarts == Init => LowBases
<1> SUFFICES ASSUME Init PROVE LowBases
  OBVIOUS
<1>1. PICK f \in Starters \cup {"eval"} : frames = Started(f)
  BY DEF Init
<1>2. /\ Depth = 1 /\ \A k \in 1 .. Depth : k = 1
      /\ frames[1].fn = f /\ frames[1].base = 0 /\ frames[1].at = 1
  BY <1>1 DEF Started, Depth
<1>3. "eval" \in Mutators /\ Starters \subseteq Functions
  BY TablesAssumption
<1>4. f \in Starters \cup Mutators /\ f \in Functions \cup Mutators
  BY <1>3
<1>5. Below(f, 1) \in Nat
  BY <1>4, BelowFacts
<1>6. 0 <= Below(f, 1)
  BY <1>5
<1>7. QED BY <1>2, <1>4, <1>6 DEF LowBases

(* The pool of extra roots never overflows but in a function that pushes more roots *)
(* than the pool has room for, whoever called it and whatever the callers keep in   *)
(* the pool (push_extra_root, set_args).                                            *)
THEOREM RootsAreEnough == Spec => []RootsSuffice
<1>1. Init => IInv /\ RootsInv
  <2>1. Init => RootsSuffice
    BY DEF Init, RootsSuffice
  <2>2. QED BY <2>1, InitHolds, LowStarts DEF RootsInv
<1>2. (IInv /\ RootsInv) /\ [Next]_vars => (IInv /\ RootsInv)'
  BY NextKeeps, LowKeeps, SufficeKeeps DEF RootsInv
<1>3. RootsInv => RootsSuffice
  BY DEF RootsInv
<1>4. QED BY <1>1, <1>2, <1>3, PTL DEF Spec
-----------------------------------------------------------------------------------
(* Which variables are stale.  Outer frames are those called with top not set, and *)
(* the one that set it; of these and of the others the tables StaleAt and          *)
(* StaleAbove give what may be stale, with what a collection in the call they are  *)
(* at may add.                                                                     *)
Outer(k) == top = None \/ k <= top

Pending(k, scanned) ==
  IF k < Depth THEN Exposed(frames[k].fn, frames[k].at, scanned) ELSE {}
May(table, k, scanned) == table[frames[k].fn][frames[k].at] \cup Pending(k, scanned)

OuterStale(k) == frames[k].stale \subseteq May(StaleAt, k, ToSet(Params[frames[k].fn]))
InnerStale(k) == frames[k].stale \subseteq May(StaleAbove, k, {})

StaleOK(k) ==
  /\ IsFunction(k) /\ Outer(k) => OuterStale(k)
  /\ IsFunction(k) /\ ~Outer(k) /\ left = "" => InnerStale(k)
  /\ frames[k].fn \in Mutators /\ (left = "" \/ k < top) => frames[k].stale = {}

AllStale == \A k \in 1 .. Depth : StaleOK(k)

(* A function between its __pre_gc and its __post_gc has set top, or found it set  *)
(* by a frame below, unless it allocates no more.                                  *)
NextStep(k) == IF k < Depth THEN frames[k].at + 1 ELSE frames[k].at
Working(k) ==
  IsFunction(k) /\ Inside(frames[k].fn, frames[k].at) =>
    (top # None /\ top <= k) \/ Spent(frames[k].fn, NextStep(k))

AllWorking == left = "" => \A k \in 1 .. Depth : Working(k)

(* Each frame was called by the one below it.                                      *)
Called(k) ==
  /\ IsFunction(k) => frames[k + 1].fn = Body[frames[k].fn][frames[k].at].f
  /\ frames[k].fn \in Mutators => frames[k + 1].fn \in Calls[frames[k].fn]

AllCalled == \A k \in 1 .. Depth - 1 : Called(k)

(* The interpreter's top is set by eval, which is outermost; what the program      *)
(* starts with has returned when Lclone leaves top behind.                         *)
Beginning ==
  /\ left # "" => top \in Nat \ {0} /\ frames[1].fn \in Mutators
  /\ top = VM => frames[1].fn = "eval" /\ \A k \in 1 .. Depth : k = 1 \/ IsFunction(k)

StaleInv == AllStale /\ AllWorking /\ AllCalled /\ Beginning

-----------------------------------------------------------------------------------
LEMMA InsideEarlier ==
  ASSUME NEW f, NEW i \in Nat \ {0}, Inside(f, i + 1), Body[f][i].op # "pre"
  PROVE  Inside(f, i) /\ Body[f][i].op # "post"
<1>1. PICK j \in 1 .. (i + 1) - 1 :
        Body[f][j].op = "pre" /\ \A l \in j + 1 .. (i + 1) - 1 : Body[f][l].op # "post"
  BY DEF Inside
<1>2. j # i
  BY <1>1
<1>3. j \in 1 .. i - 1 /\ i \in j + 1 .. (i + 1) - 1
      /\ \A l \in j + 1 .. i - 1 : l \in j + 1 .. (i + 1) - 1
  BY <1>2
<1>4. QED BY <1>1, <1>3 DEF Inside

LEMMA NotInsideFirst == ASSUME NEW f PROVE ~Inside(f, 1)
  BY DEF Inside

LEMMA SpentLater ==
  ASSUME NEW f \in Functions, NEW i \in 1 .. Len(Body[f]), Spent(f, i)
  PROVE  Spent(f, i + 1) /\ Body[f][i].op \notin {"alloc", "call"}
<1>1. Len(Body[f]) \in Nat
  BY HeldFacts
<1>2. \A j \in i + 1 .. Len(Body[f]) : j \in i .. Len(Body[f])
  BY <1>1
<1>3. i \in i .. Len(Body[f])
  BY <1>1
<1>4. QED BY <1>2, <1>3 DEF Spent

(* A step of a body, by its table.                                                 *)
LEMMA TableStep ==
  ASSUME NEW f \in Functions, NEW i \in 1 .. Len(Body[f]), NEW table, NEW scanned,
         Covers(table, f, scanned), NEW stale,
         stale \subseteq table[f][i] \cup Exposed(f, i, scanned)
  PROVE  stale \ Renewed(Body[f][i]) \subseteq table[f][i + 1]
  BY DEF Covers

LEMMA TablesCover ==
  ASSUME NEW f \in Functions
  PROVE  Covers(StaleAt, f, ToSet(Params[f])) /\ Covers(StaleAbove, f, {})
  BY StaleAssumption

(* Where frames are, and the kinds of values top has.                              *)
LEMMA Indices ==
  ASSUME TypeOK
  PROVE  /\ Depth \in Nat /\ Depth >= 1 /\ Depth \in 1 .. Depth /\ ~(Depth < Depth)
         /\ Current = frames[Depth]
         /\ \A k \in 1 .. Depth : /\ k \in Nat /\ k # None
                                  /\ k = Depth \/ k \in 1 .. Depth - 1
                                  /\ k # Depth => k < Depth
         /\ \A k \in 1 .. Depth - 1 : /\ k \in 1 .. Depth /\ k < Depth /\ k # Depth
                                      /\ k + 1 \in 1 .. Depth
         /\ top \in Int
<1>1. Depth \in Nat /\ Depth >= 1 /\ Current = frames[Depth]
  BY FrameFacts
<1>2. top \in Int
  <2>1. top \in {None, VM} \cup Nat
    BY DEF TypeOK
  <2>2. None \in Int /\ VM \in Int
    BY DEF None, VM
  <2>3. QED BY <2>1, <2>2
<1>3. QED BY <1>1, <1>2 DEF None

LEMMA DoneStale ==
  ASSUME TypeOK, NEW stale \in SUBSET Var, Done(stale)
  PROVE  frames'[Depth].stale = stale /\ \A k \in 1 .. Depth - 1 : frames'[k] = frames[k]
<1> DEFINE new == [Current EXCEPT !.at = @ + 1, !.stale = stale]
<1>1. frames \in Seq(Frame) /\ Depth = Len(frames) /\ Depth \in 1 .. Len(frames)
      /\ Current \in Frame /\ \A k \in 1 .. Depth - 1 : k \in 1 .. Len(frames) /\ k # Depth
  <2>1. frames \in Seq(Frame)
    BY DEF TypeOK
  <2>2. QED BY <2>1, Indices, CurrentFacts DEF Depth
<1>2. new \in Frame /\ new.stale = stale
  <2>1. Current \in Frame
    BY <1>1
  <2>2. ASSUME NEW c \in Frame
        PROVE  [c EXCEPT !.at = @ + 1, !.stale = stale].stale = stale
    BY DEF Frame
  <2>3. QED BY <2>1, <2>2, StepOfFrame
<1>3. frames' = [frames EXCEPT ![Depth] = new]
  BY DEF Done
<1> HIDE DEF new
<1>4. \A j \in 1 .. Len(frames) : frames'[j] = IF j = Depth THEN new ELSE frames[j]
  BY <1>1, <1>2, <1>3, ExceptSeq
<1>5. QED BY <1>1, <1>2, <1>4

-----------------------------------------------------------------------------------
(* Each frame stays the one its caller called.                                     *)
LEMMA CalledGoesOn ==
  ASSUME IInv, AllCalled, NEW b, GoesOn(b)
  PROVE  AllCalled'
<1>1. /\ Depth' = Depth /\ frames'[Depth].fn = Current.fn /\ Current = frames[Depth]
      /\ \A k \in 1 .. Depth - 1 : /\ k + 1 = Depth \/ k + 1 \in 1 .. Depth - 1
                                   /\ frames'[k].fn = frames[k].fn /\ frames'[k].at = frames[k].at
  BY Indices DEF GoesOn, Same, IInv
<1>2. \A k \in 1 .. Depth - 1 : frames'[k + 1].fn = frames[k + 1].fn
  BY <1>1
<1>3. ASSUME NEW k \in 1 .. Depth - 1
      PROVE  Called(k)'
  BY <1>1, <1>2 DEF AllCalled, Called, IsFunction
<1>4. QED BY <1>1, <1>3 DEF AllCalled

LEMMA CalledEnters ==
  ASSUME IInv, AllCalled, NEW f, Enters(f),
         IsFunction(Depth) => f = This.f, Current.fn \in Mutators => f \in Calls[Current.fn]
  PROVE  AllCalled'
<1>1. /\ Depth' - 1 = Depth /\ frames'[Depth + 1].fn = f /\ Current = frames[Depth]
      /\ \A k \in 1 .. Depth : /\ k = Depth \/ k \in 1 .. Depth - 1
                               /\ frames'[k].fn = frames[k].fn /\ frames'[k].at = frames[k].at
      /\ \A k \in 1 .. Depth - 1 : k + 1 \in 1 .. Depth
  BY Indices DEF Enters, Same, IInv
<1>2. ASSUME NEW k \in 1 .. Depth
      PROVE  Called(k)'
  <2>1. CASE k = Depth
    BY <1>1, <2>1 DEF Called, IsFunction, This
  <2>2. CASE k \in 1 .. Depth - 1
    BY <1>1, <2>2 DEF AllCalled, Called, IsFunction
  <2>3. QED BY <1>1, <2>1, <2>2
<1>3. QED BY <1>1, <1>2 DEF AllCalled

LEMMA CalledLeaves ==
  ASSUME IInv, AllCalled, Leaves
  PROVE  AllCalled'
<1>1. /\ Depth' - 1 = Depth - 2
      /\ \A k \in 1 .. Depth - 2 : k \in 1 .. Depth - 1 /\ (k + 1 \in 1 .. Depth - 2 \/ k + 1 = Depth - 1)
  <2>1. Depth \in Nat /\ Depth > 1 /\ Depth' = Depth - 1
    BY Indices DEF Leaves, IInv
  <2>2. QED BY <2>1
<1>2. ASSUME NEW k \in 1 .. Depth - 2
      PROVE  Called(k)'
  <2>1. frames'[k].fn = frames[k].fn /\ frames'[k].at = frames[k].at
    BY DEF Leaves, Same
  <2>2. frames'[k + 1].fn = frames[k + 1].fn
    BY <1>1 DEF Leaves, Same
  <2>3. QED BY <1>1, <2>1, <2>2 DEF AllCalled, Called, IsFunction
<1>3. QED BY <1>1, <1>2 DEF AllCalled

LEMMA CalledUnchanged ==
  ASSUME AllCalled, UNCHANGED frames
  PROVE  AllCalled'
  BY DEF AllCalled, Called, IsFunction, Depth

LEMMA NotGlobalLimit ==
  ASSUME IInv, Global, Len(roots) >= MaxRoots \/ Len(roots) < MaxRoots
  PROVE  UNCHANGED <<frames, top, left>> \/ (GoesOn(1) /\ UNCHANGED <<top, left>>)
  BY GlobalGoesOn DEF Global

(* What a step does to the frames, all in one.                                     *)
LEMMA StepMoves ==
  ASSUME IInv, IInv', [Next]_vars
  PROVE  \/ UNCHANGED <<frames, top, left>>
         \/ (Pre \/ Post \/ Push \/ Pop \/ Let \/ Read) /\ GoesOn(0) /\ status' = "run"
         \/ Alloc /\ GoesOn(0)
         \/ Global /\ GoesOn(1) /\ UNCHANGED <<top, left>>
         \/ Call \/ MutatorCalls
         \/ MutatorReturns /\ Leaves
         \/ Return /\ (Leaves \/ Begins)
<1>1. CASE MutatorReads \/ UNCHANGED vars
  BY <1>1 DEF MutatorReads, vars
<1>2. CASE Pre \/ Post \/ Let \/ Read
  <2>1. status' = "run"
    BY <1>2 DEF Pre, Post, Let, Read, Doing
  <2>2. QED BY <1>2, <2>1, WithinGoesOn
<1>3. CASE Push \/ Pop
  <2>1. status' = "run" \/ UNCHANGED <<frames, top, left>>
    BY <1>3, StatusRun
  <2>2. QED BY <1>3, <2>1, WithinGoesOn
<1>4. CASE Alloc
  BY <1>4, AllocGoesOn DEF IInv
<1>5. CASE Global
  <2>1. Len(roots) \in Nat /\ MaxRoots \in Nat
    BY CurrentFacts, TablesAssumption DEF IInv
  <2>2. Len(roots) >= MaxRoots \/ Len(roots) < MaxRoots
    BY <2>1
  <2>3. QED BY <1>5, <2>2, NotGlobalLimit
<1>6. QED BY <1>1, <1>2, <1>3, <1>4, <1>5, MutatorReturnLeaves, ReturnLeaves DEF Next

LEMMA CallCalled ==
  ASSUME IInv, AllCalled, Call \/ MutatorCalls
  PROVE  AllCalled'
<1>1. CASE Call
  <2>1. Enters(This.f) /\ Current.fn \in Functions /\ Current = frames[Depth]
    BY <1>1, CallEnters, Indices DEF InBody, IInv
  <2>2. Current.fn \notin Mutators
    BY <2>1, TablesAssumption
  <2>3. QED BY <2>1, <2>2, CalledEnters
<1>2. CASE MutatorCalls
  <2>1. PICK f \in Calls[Current.fn] : Enters(f)
    BY <1>2, MutatorCallEnters
  <2>2. Current.fn \in Mutators /\ Current = frames[Depth]
    BY <1>2, MutatorCallEnters, Indices DEF IInv
  <2>3. ~IsFunction(Depth)
    BY <2>2, TablesAssumption DEF IsFunction
  <2>4. QED BY <2>1, <2>2, <2>3, CalledEnters
<1>3. QED BY <1>1, <1>2

LEMMA CalledKeeps ==
  ASSUME IInv, IInv', AllCalled, [Next]_vars
  PROVE  AllCalled'
<1>1. Begins => AllCalled'
  <2>1. ASSUME Begins PROVE Depth' = 1
    BY <2>1 DEF Begins
  <2>2. QED BY <2>1 DEF AllCalled
<1>2. QED BY <1>1, StepMoves, CalledUnchanged, CalledGoesOn, CallCalled, CalledLeaves

-----------------------------------------------------------------------------------
LEMMA BeginningUnchanged ==
  ASSUME Beginning, UNCHANGED <<frames, top, left>>
  PROVE  Beginning'
  BY DEF Beginning, IsFunction, Depth

(* Which functions the frames belong to, when none is added or removed.            *)
LEMMA FunctionsGoOn ==
  ASSUME IInv, NEW b, GoesOn(b)
  PROVE  /\ Depth' = Depth /\ 1 \in 1 .. Depth
         /\ \A k \in 1 .. Depth : frames'[k].fn = frames[k].fn
<1>1. /\ Depth' = Depth /\ frames'[Depth].fn = Current.fn /\ Current = frames[Depth]
      /\ 1 \in 1 .. Depth
      /\ \A k \in 1 .. Depth : k = Depth \/ k \in 1 .. Depth - 1
  BY Indices DEF GoesOn, IInv
<1>2. QED BY <1>1 DEF GoesOn, Same

LEMMA BeginningGoesOn ==
  ASSUME IInv, Beginning, NEW b, GoesOn(b),
         UNCHANGED <<top, left>> \/ Pre \/ Post
  PROVE  Beginning'
<1>1. /\ Depth' = Depth /\ 1 \in 1 .. Depth /\ frames'[1].fn = frames[1].fn
      /\ \A k \in 1 .. Depth : frames'[k].fn = frames[k].fn
  BY FunctionsGoOn
<1>2. CASE UNCHANGED <<top, left>>
  BY <1>1, <1>2 DEF Beginning, IsFunction
<1>3. CASE Pre
  <2>1. left' = left /\ (top # None => top' = top) /\ (top = None => top' = Depth)
    BY <1>3 DEF Pre
  <2>2. Depth # VM
    <3>1. Depth \in Nat
      BY Indices DEF IInv
    <3>2. QED BY <3>1 DEF VM
  <2>3. left # "" => top # None
    BY DEF Beginning, None
  <2>4. QED BY <1>1, <2>1, <2>2, <2>3 DEF Beginning, IsFunction
<1>4. CASE Post
  <2>1. UNCHANGED <<top, left>> \/ (top' = None /\ left' = "")
    BY <1>4 DEF Post
  <2>2. None # VM
    BY DEF None, VM
  <2>3. QED BY <1>2, <2>1, <2>2 DEF Beginning
<1>5. QED BY <1>2, <1>3, <1>4

LEMMA BeginningEnters ==
  ASSUME IInv, Beginning, NEW f, Enters(f), UNCHANGED <<top, left>>, top = VM => f \in Functions
  PROVE  Beginning'
<1>1. /\ Depth' = Depth + 1 /\ 1 \in 1 .. Depth /\ frames'[Depth + 1].fn = f
      /\ \A k \in 1 .. Depth + 1 : k = Depth + 1 \/ k \in 1 .. Depth
  BY Indices DEF Enters, IInv
<1>2. \A k \in 1 .. Depth : frames'[k].fn = frames[k].fn
  BY DEF Enters, Same
<1>3. frames'[1].fn = frames[1].fn
  BY <1>1, <1>2
<1>4. QED BY <1>1, <1>2, <1>3 DEF Beginning, IsFunction

LEMMA BeginningCalls ==
  ASSUME IInv, Beginning, Call \/ MutatorCalls
  PROVE  Beginning'
<1>1. CASE Call
  BY <1>1, CallEnters, BeginningEnters
<1>2. CASE MutatorCalls
  <2>1. /\ Current.fn \in Mutators /\ UNCHANGED <<top, left>>
        /\ Current = frames[Depth] /\ Depth \in 1 .. Depth
    BY <1>2, MutatorCallEnters, Indices DEF IInv
  <2>2. PICK f \in Calls[Current.fn] : Enters(f)
    BY <1>2, MutatorCallEnters
  <2>3. ASSUME top = VM
        PROVE  f \in Functions
    <3>1. Depth = 1 \/ IsFunction(Depth)
      BY <2>1, <2>3 DEF Beginning
    <3>2. ~IsFunction(Depth)
      BY <2>1, TablesAssumption DEF IsFunction
    <3>3. Current.fn = "eval"
      BY <2>1, <2>3, <3>1, <3>2 DEF Beginning
    <3>4. QED BY <2>2, <3>3, EvalAssumption
  <2>4. QED BY <2>1, <2>2, <2>3, BeginningEnters
<1>3. QED BY <1>1, <1>2

(* The call of a function by another one, by its step.                             *)
LEMMA CalledByFunction ==
  ASSUME IInv, AllCalled, NEW k \in 1 .. Depth - 1, IsFunction(k)
  PROVE  /\ frames[k].at \in 1 .. Len(Body[frames[k].fn])
         /\ Body[frames[k].fn][frames[k].at].op = "call"
         /\ frames[k + 1].fn = Body[frames[k].fn][frames[k].at].f
<1>1. k \in 1 .. Depth /\ k < Depth
  BY Indices DEF IInv
<1>2. /\ frames[k].at \in 1 .. Len(Body[frames[k].fn]) + 1
      /\ frames[k].at <= Len(Body[frames[k].fn])
      /\ Body[frames[k].fn][frames[k].at].op = "call"
  BY <1>1 DEF IInv, Structure, Calling
<1>3. Len(Body[frames[k].fn]) \in Nat
  BY HeldFacts DEF IsFunction
<1>4. frames[k].at \in 1 .. Len(Body[frames[k].fn])
  BY <1>2, <1>3
<1>5. QED BY <1>2, <1>4 DEF AllCalled, Called

(* Lclone of an unboxed value was called by the program.                           *)
LEMMA CalledByProgram ==
  ASSUME IInv, TopInv, AllCalled, Depth > 1, Current.fn = "Lclone_unboxed"
  PROVE  frames[1].fn \in Mutators
<1>1. Depth \in Nat /\ Current = frames[Depth]
  BY Indices DEF IInv
<1>2. /\ Depth - 1 \in 1 .. Depth - 1 /\ (Depth - 1) + 1 = Depth /\ Depth - 1 \in 1 .. Depth
      /\ 1 \in 1 .. Depth /\ 1 <= Depth - 1
  BY <1>1
<1>3. ~IsFunction(Depth - 1)
  <2> SUFFICES ASSUME IsFunction(Depth - 1) PROVE FALSE
    OBVIOUS
  <2> DEFINE caller == frames[Depth - 1].fn
             at == frames[Depth - 1].at
  <2>1. /\ at \in 1 .. Len(Body[caller]) /\ Body[caller][at].op = "call"
        /\ frames[Depth].fn = Body[caller][at].f /\ caller \in Functions
    BY <1>2, CalledByFunction DEF IsFunction
  <2> HIDE DEF caller, at
  <2>2. Body[caller][at].f # "Lclone_unboxed"
    BY <2>1, WorkAssumption
  <2>3. QED BY <1>1, <2>1, <2>2
<1>4. frames[Depth - 1].fn \in Mutators
  BY <1>2, <1>3, FrameFacts DEF IInv, IsFunction
<1>5. QED BY <1>2, <1>4 DEF TopInv, ProgramBelow

LEMMA BeginningReturn ==
  ASSUME IInv, TopInv, TopInv', AllCalled, Beginning, Return
  PROVE  Beginning'
<1>1. /\ Current.fn \in Functions /\ top' = top
      /\ left' = IF top = Depth /\ left = "" THEN Current.fn ELSE left
  BY DEF Return
<1>2. Depth \in Nat /\ Depth >= 1 /\ Current = frames[Depth] /\ Depth \in Nat \ {0}
  BY Indices DEF IInv
<1>3. left' # "" => top \in Nat \ {0}
  BY <1>1, <1>2 DEF Beginning
<1>4. CASE Leaves
  <2>1. Depth > 1
    BY <1>4 DEF Leaves
  <2>2. /\ Depth' = Depth - 1
        /\ \A k \in 1 .. Depth - 1 : k \in 1 .. Depth /\ (k \in 1 .. Depth - 2 \/ k = Depth - 1)
        /\ 1 \in 1 .. Depth - 1
    BY <1>2, <1>4, <2>1 DEF Leaves
  <2>3. \A k \in 1 .. Depth - 1 : frames'[k].fn = frames[k].fn
    BY <1>4, <2>2 DEF Leaves, Same
  <2>4. frames'[1].fn = frames[1].fn
    BY <2>2, <2>3
  <2>5. left' # "" => frames[1].fn \in Mutators
    <3>1. CASE left # ""
      BY <3>1 DEF Beginning
    <3>2. CASE left = ""
      <4>1. left' # "" => left' = Current.fn
        BY <1>1, <3>2
      <4>2. left' # "" => left' = "Lclone_unboxed"
        BY DEF TopInv
      <4>3. QED BY <2>1, <4>1, <4>2, CalledByProgram
    <3>3. QED BY <3>1, <3>2
  <2>6. QED BY <1>1, <1>3, <2>2, <2>3, <2>4, <2>5 DEF Beginning, IsFunction
<1>5. CASE Begins
  <2>1. "code" \in Mutators /\ "eval" \notin Functions
    BY TablesAssumption
  <2>2. Depth = 1 /\ frames'[1].fn = "code"
    BY <1>5 DEF Begins
  <2>3. top # VM
    BY <1>1, <1>2, <2>1, <2>2 DEF Beginning
  <2>4. QED BY <1>1, <1>3, <2>1, <2>2, <2>3 DEF Beginning
<1>6. QED BY <1>4, <1>5, ReturnLeaves

LEMMA BeginningMutatorReturns ==
  ASSUME IInv, Beginning, MutatorReturns, Leaves
  PROVE  Beginning'
<1>1. UNCHANGED <<top, left>>
  BY DEF MutatorReturns
<1>2. Depth \in Nat /\ Depth > 1 /\ Depth' = Depth - 1
  BY Indices DEF IInv, Leaves
<1>3. /\ \A k \in 1 .. Depth - 1 : k \in 1 .. Depth /\ (k \in 1 .. Depth - 2 \/ k = Depth - 1)
      /\ 1 \in 1 .. Depth - 1
  BY <1>2
<1>4. \A k \in 1 .. Depth - 1 : frames'[k].fn = frames[k].fn
  BY <1>3 DEF Leaves, Same
<1>5. frames'[1].fn = frames[1].fn
  BY <1>3, <1>4
<1>6. QED BY <1>1, <1>2, <1>3, <1>4, <1>5 DEF Beginning, IsFunction

LEMMA BeginningKeeps ==
  ASSUME IInv, IInv', TopInv, TopInv', AllCalled, Beginning, [Next]_vars
  PROVE  Beginning'
<1>1. CASE (Push \/ Pop \/ Let \/ Read \/ Alloc) /\ GoesOn(0)
  <2>1. UNCHANGED <<top, left>>
    BY <1>1 DEF Push, Pop, Let, Read, Alloc
  <2>2. QED BY <1>1, <2>1, BeginningGoesOn
<1>2. CASE Global /\ GoesOn(1) /\ UNCHANGED <<top, left>>
  BY <1>2, BeginningGoesOn
<1>3. QED BY <1>1, <1>2, StepMoves, BeginningUnchanged, BeginningGoesOn, BeginningCalls,
            BeginningReturn, BeginningMutatorReturns

-----------------------------------------------------------------------------------
LEMMA Heights ==
  ASSUME NEW d \in Nat, d >= 1
  PROVE  /\ d # None /\ VM <= d /\ d <= d /\ ~(d < d) /\ d < d + 1 /\ ~(d + 1 < d + 1)
         /\ \A t \in 1 .. d : t <= d
         /\ \A k \in 1 .. d - 1 : k < d /\ ~(d <= k) /\ k \in 1 .. d /\ k < d + 1
         /\ \A k \in 1 .. d + 1 : k = d + 1 \/ k = d \/ k \in 1 .. d - 1
  BY DEF None, VM

LEMMA Descent ==
  ASSUME NEW d \in Nat, d > 1
  PROVE  /\ ~(d - 1 < d - 1) /\ d - 1 \in 1 .. d - 1
         /\ \A k \in 1 .. d - 1 : k \in 1 .. d /\ k < d /\ (k = d - 1 \/ k \in 1 .. d - 2)
         /\ \A k \in 1 .. d - 2 : k < d - 1 /\ k \in 1 .. d - 1
  OBVIOUS

LEMMA AtStep ==
  ASSUME NEW n \in Nat, NEW j \in 1 .. n
  PROVE  j \in Nat \ {0}
  OBVIOUS

-----------------------------------------------------------------------------------
(* A function's work, at the next state.                                           *)
LEMMA WorkingNext ==
  ASSUME NEW k,
         /\ frames'[k].fn \in Functions /\ Inside(frames'[k].fn, frames'[k].at) =>
              \/ top' # None /\ top' <= k
              \/ Spent(frames'[k].fn, IF k < Depth' THEN frames'[k].at + 1 ELSE frames'[k].at)
  PROVE  Working(k)'
  BY DEF Working, IsFunction, Inside, Spent, NextStep

(* A frame below those a step is about.                                            *)
LEMMA WorkingBelow ==
  ASSUME NEW k, Working(k), frames'[k].fn = frames[k].fn, frames'[k].at = frames[k].at,
         (k < Depth') = (k < Depth), top' = top
  PROVE  Working(k)'
  BY WorkingNext DEF Working, IsFunction, NextStep

LEMMA NotMutator ==
  ASSUME NEW k, frames[k].fn \in Mutators
  PROVE  ~IsFunction(k)
  BY TablesAssumption DEF IsFunction

(* The frame that goes on, when its step is no __pre_gc.                           *)
LEMMA WorkingCurrent ==
  ASSUME IInv, NEW b, GoesOn(b), This.op # "pre", Inside(frames'[Depth].fn, frames'[Depth].at)
  PROVE  /\ This.op # "post" /\ Inside(Current.fn, Current.at)
         /\ Spent(Current.fn, Current.at) => Spent(frames'[Depth].fn, frames'[Depth].at)
<1>1. /\ Current.fn \in Functions /\ Current.at \in 1 .. Len(Body[Current.fn])
      /\ frames'[Depth].fn = Current.fn /\ frames'[Depth].at = Current.at + 1
  BY ThisStep DEF GoesOn, IInv, Structure
<1>2. Current.at \in Nat \ {0}
  <2>1. Len(Body[Current.fn]) \in Nat
    BY <1>1, HeldFacts
  <2>2. QED BY <1>1, <2>1
<1>3. Inside(Current.fn, Current.at + 1) /\ Body[Current.fn][Current.at].op # "pre"
  BY <1>1 DEF This
<1>4. Inside(Current.fn, Current.at) /\ Body[Current.fn][Current.at].op # "post"
  BY <1>2, <1>3, InsideEarlier
<1>5. Spent(Current.fn, Current.at) => Spent(Current.fn, Current.at + 1)
  BY <1>1, SpentLater
<1>6. QED BY <1>1, <1>4, <1>5 DEF This

LEMMA WorkGoesOn ==
  ASSUME IInv, AllWorking, NEW b, GoesOn(b), This.op # "pre", UNCHANGED <<top, left>>
  PROVE  AllWorking'
<1> SUFFICES ASSUME left' = "", NEW k \in 1 .. Depth' PROVE Working(k)'
  BY DEF AllWorking
<1>1. /\ Depth' = Depth /\ Current = frames[Depth] /\ Depth \in 1 .. Depth /\ ~(Depth < Depth)
      /\ k = Depth \/ k \in 1 .. Depth - 1
  BY Indices DEF GoesOn, IInv
<1>2. Working(k)
  BY <1>1 DEF AllWorking
<1>3. CASE k = Depth
  <2>1. ASSUME frames'[k].fn \in Functions, Inside(frames'[k].fn, frames'[k].at)
        PROVE  (top' # None /\ top' <= k) \/ Spent(frames'[k].fn, frames'[k].at)
    <3>1. /\ Inside(Current.fn, Current.at)
          /\ Spent(Current.fn, Current.at) => Spent(frames'[Depth].fn, frames'[Depth].at)
      BY <1>3, <2>1, WorkingCurrent
    <3>2. IsFunction(Depth) /\ NextStep(Depth) = Current.at
      BY <1>1, <1>3, <2>1 DEF IsFunction, NextStep, GoesOn
    <3>3. (top # None /\ top <= Depth) \/ Spent(Current.fn, Current.at)
      BY <1>1, <1>2, <1>3, <3>1, <3>2 DEF Working
    <3>4. QED BY <1>3, <3>1, <3>3
  <2>2. ~(k < Depth')
    BY <1>1, <1>3
  <2>3. QED BY <2>1, <2>2, WorkingNext
<1>4. CASE k \in 1 .. Depth - 1
  BY <1>1, <1>2, <1>4, WorkingBelow DEF GoesOn, Same
<1>5. QED BY <1>1, <1>3, <1>4

LEMMA WorkPre ==
  ASSUME IInv, TopInv, AllWorking, GoesOn(0), Pre
  PROVE  AllWorking'
<1> SUFFICES ASSUME left' = "", NEW k \in 1 .. Depth' PROVE Working(k)'
  BY DEF AllWorking
<1>1. /\ Depth' = Depth /\ Current = frames[Depth] /\ Depth \in 1 .. Depth
      /\ Depth \in Nat /\ Depth >= 1
      /\ k = Depth \/ k \in 1 .. Depth - 1
  BY Indices DEF GoesOn, IInv
<1>2. left = "" /\ (top # None => top' = top) /\ (top = None => top' = Depth)
  BY DEF Pre
<1>3. Working(k)
  BY <1>1, <1>2 DEF AllWorking
<1>4. CASE k = Depth
  <2>1. top' # None /\ top' <= Depth
    <3>1. CASE top = None
      BY <1>1, <1>2, <3>1, Heights
    <3>2. CASE top # None
      <4>1. top = VM \/ top \in 1 .. Depth
        BY <1>2, <3>2 DEF TopInv, TopRight, TopAt
      <4>2. VM <= Depth
        BY <1>1, Heights
      <4>3. top <= Depth
        BY <1>1, <4>1, <4>2, Heights
      <4>4. QED BY <1>2, <3>2, <4>3
    <3>3. QED BY <3>1, <3>2
  <2>2. QED BY <1>4, <2>1, WorkingNext
<1>5. CASE k \in 1 .. Depth - 1
  <2>1. frames'[k].fn = frames[k].fn /\ frames'[k].at = frames[k].at
    BY <1>5 DEF GoesOn, Same
  <2>2. CASE top # None
    BY <1>1, <1>2, <1>3, <2>1, <2>2, WorkingBelow
  <2>3. CASE top = None
    BY <1>1, <1>3, <2>1, <2>3, WorkingNext DEF Working, IsFunction, NextStep
  <2>4. QED BY <2>2, <2>3
<1>6. QED BY <1>1, <1>4, <1>5

(* When top is left behind, the functions below were called by the program.        *)
LEMMA CallsSpent ==
  ASSUME IInv, AllCalled, NEW k \in 1 .. Depth - 1, IsFunction(k), frames[1].fn \in Mutators
  PROVE  Spent(frames[k].fn, frames[k].at + 1)
<1>1. /\ frames[k].at \in 1 .. Len(Body[frames[k].fn]) /\ frames[k].fn \in Functions
      /\ Body[frames[k].fn][frames[k].at].op = "call"
  BY CalledByFunction DEF IsFunction
<1>2. frames[k].fn \notin Starters
  <2>1. k \in 1 .. Depth
    BY Indices DEF IInv
  <2>2. frames[k].fn \in Starters => k = 1
    BY <2>1 DEF IInv, Structure, Calling
  <2>3. frames[1].fn \notin Functions
    BY TablesAssumption
  <2>4. QED BY <1>1, <2>2, <2>3
<1>3. QED BY <1>1, <1>2, WorkAssumption

LEMMA WorkPost ==
  ASSUME IInv, AllWorking, AllCalled, Beginning, GoesOn(0), Post
  PROVE  AllWorking'
<1>1. This.op = "post"
  BY DEF Post, Doing
<1>2. CASE UNCHANGED <<top, left>>
  BY <1>1, <1>2, WorkGoesOn
<1>3. CASE top = Depth /\ top' = None /\ left' = ""
  <2> SUFFICES ASSUME NEW k \in 1 .. Depth' PROVE Working(k)'
    BY DEF AllWorking
  <2>1. /\ Depth' = Depth /\ Depth \in Nat /\ Depth >= 1 /\ Depth \in 1 .. Depth /\ Current = frames[Depth]
        /\ k \in 1 .. Depth /\ (k = Depth \/ k \in 1 .. Depth - 1)
    BY Indices DEF GoesOn, IInv
  <2>2. CASE k = Depth
    <3>1. ~Inside(frames'[k].fn, frames'[k].at)
      BY <1>1, <2>2, WorkingCurrent
    <3>2. QED BY <3>1, WorkingNext
  <2>3. CASE k \in 1 .. Depth - 1
    <3>1. frames'[k].fn = frames[k].fn /\ frames'[k].at = frames[k].at /\ k < Depth'
      BY <2>1, <2>3, Indices DEF GoesOn, Same, IInv
    <3>2. IsFunction(k) /\ Inside(frames[k].fn, frames[k].at) =>
            Spent(frames[k].fn, frames[k].at + 1)
      <4>1. CASE left = ""
        <5>1. ~(top <= k)
          BY <1>3, <2>1, <2>3, Heights
        <5>2. Working(k) /\ NextStep(k) = frames[k].at + 1
          BY <2>1, <3>1, <4>1 DEF AllWorking, NextStep
        <5>3. QED BY <5>1, <5>2 DEF Working
      <4>2. CASE left # ""
        BY <2>3, <4>2, CallsSpent DEF Beginning
      <4>3. QED BY <4>1, <4>2
    <3>3. QED BY <3>1, <3>2, WorkingNext DEF IsFunction
  <2>4. QED BY <2>1, <2>2, <2>3
<1>4. QED BY <1>2, <1>3 DEF Post

LEMMA WorkEnters ==
  ASSUME IInv, AllWorking, NEW f, Enters(f), UNCHANGED <<top, left>>,
         IsFunction(Depth) => InBody /\ This.op = "call"
  PROVE  AllWorking'
<1> SUFFICES ASSUME left' = "", NEW k \in 1 .. Depth' PROVE Working(k)'
  BY DEF AllWorking
<1>1. /\ Depth' = Depth + 1 /\ Depth \in Nat /\ Depth \in 1 .. Depth /\ Current = frames[Depth]
      /\ k = Depth + 1 \/ k = Depth \/ k \in 1 .. Depth - 1
      /\ ~(Depth < Depth) /\ Depth >= 1
  <2>1. /\ Depth' = Depth + 1 /\ Depth \in Nat /\ Depth >= 1 /\ Depth \in 1 .. Depth
        /\ Current = frames[Depth]
    BY Indices DEF Enters, IInv
  <2>2. k \in 1 .. Depth + 1
    BY <2>1
  <2>3. QED BY <2>1, <2>2, Heights
<1>2. CASE k = Depth + 1
  <2>1. frames'[k].at = 1
    BY <1>2 DEF Enters
  <2>2. ~Inside(frames'[k].fn, frames'[k].at)
    BY <2>1, NotInsideFirst
  <2>3. QED BY <2>2, WorkingNext
<1>3. CASE k = Depth
  <2>1. frames'[k].fn = frames[k].fn /\ frames'[k].at = frames[k].at
    BY <1>1, <1>3 DEF Enters, Same
  <2>2. Working(k) /\ NextStep(k) = frames[k].at
    BY <1>1, <1>3 DEF AllWorking, NextStep
  <2>3. IsFunction(k) => ~Spent(frames[k].fn, frames[k].at)
    <3> SUFFICES ASSUME IsFunction(k) PROVE ~Spent(frames[k].fn, frames[k].at)
      OBVIOUS
    <3>1. /\ Current.fn \in Functions /\ Current.at \in 1 .. Len(Body[Current.fn])
          /\ Body[Current.fn][Current.at].op = "call"
      BY <1>3, ThisStep DEF IInv, Structure, This
    <3>2. ~Spent(Current.fn, Current.at)
      BY <3>1, SpentLater
    <3>3. QED BY <1>1, <1>3, <3>2
  <2>4. QED BY <2>1, <2>2, <2>3, WorkingNext DEF Working, IsFunction
<1>4. CASE k \in 1 .. Depth - 1
  <2>1. frames'[k].fn = frames[k].fn /\ frames'[k].at = frames[k].at
        /\ (k < Depth') = (k < Depth) /\ k \in 1 .. Depth
    <3>1. k \in 1 .. Depth /\ k < Depth /\ k < Depth + 1
      BY <1>1, <1>4, Heights
    <3>2. QED BY <1>1, <3>1 DEF Enters, Same
  <2>2. QED BY <2>1, WorkingBelow DEF AllWorking
<1>5. QED BY <1>1, <1>2, <1>3, <1>4

LEMMA WorkCalls ==
  ASSUME IInv, AllWorking, Call \/ MutatorCalls
  PROVE  AllWorking'
<1>1. CASE Call
  BY <1>1, CallEnters, WorkEnters
<1>2. CASE MutatorCalls
  <2>1. Current.fn \in Mutators /\ UNCHANGED <<top, left>> /\ Current = frames[Depth]
        /\ \E f \in Calls[Current.fn] : Enters(f)
    BY <1>2, MutatorCallEnters, Indices DEF IInv
  <2>2. ~IsFunction(Depth)
    BY <2>1, NotMutator
  <2>3. QED BY <2>1, <2>2, WorkEnters
<1>3. QED BY <1>1, <1>2

LEMMA WorkLeaves ==
  ASSUME IInv, AllWorking, AllCalled, Leaves, top' = top, left' = "" => left = ""
  PROVE  AllWorking'
<1> SUFFICES ASSUME left' = "", NEW k \in 1 .. Depth' PROVE Working(k)'
  BY DEF AllWorking
<1>1. /\ Depth' = Depth - 1 /\ Depth \in Nat /\ Depth > 1
      /\ k = Depth - 1 \/ k \in 1 .. Depth - 2
  <2>1. Depth' = Depth - 1 /\ Depth \in Nat /\ Depth > 1
    BY Indices DEF Leaves, IInv
  <2>2. k \in 1 .. Depth - 1
    BY <2>1
  <2>3. QED BY <2>1, <2>2, Descent
<1>2. k \in 1 .. Depth /\ k < Depth /\ Working(k) /\ NextStep(k) = frames[k].at + 1
      /\ k \in 1 .. Depth - 1
  <2>1. k \in 1 .. Depth - 1
    BY <1>1
  <2>2. k \in 1 .. Depth /\ k < Depth
    BY <1>1, <2>1, Descent
  <2>3. Working(k)
    BY <2>2 DEF AllWorking
  <2>4. QED BY <2>1, <2>2, <2>3 DEF NextStep
<1>3. CASE k = Depth - 1
  <2>1. ~(k < Depth') /\ frames'[k].fn = frames[k].fn
        /\ (frames[k].fn \in Functions => frames'[k].at = frames[k].at + 1)
    <3>1. ~(Depth - 1 < Depth - 1)
      BY <1>1, Descent
    <3>2. QED BY <1>1, <1>3, <3>1 DEF Leaves
  <2>2. ASSUME IsFunction(k), Inside(frames[k].fn, frames[k].at + 1)
        PROVE  Inside(frames[k].fn, frames[k].at)
    <3>1. /\ frames[k].at \in 1 .. Len(Body[frames[k].fn]) /\ frames[k].fn \in Functions
          /\ Body[frames[k].fn][frames[k].at].op = "call"
      BY <1>2, <2>2, CalledByFunction DEF IsFunction
    <3>2. frames[k].at \in Nat \ {0}
      <4>1. Len(Body[frames[k].fn]) \in Nat
        BY <3>1, HeldFacts
      <4>2. QED BY <3>1, <4>1, AtStep
    <3>3. QED BY <2>2, <3>1, <3>2, InsideEarlier
  <2>3. QED BY <1>2, <2>1, <2>2, WorkingNext DEF Working, IsFunction
<1>4. CASE k \in 1 .. Depth - 2
  <2>1. (k < Depth') = (k < Depth)
    <3>1. k < Depth - 1
      BY <1>1, <1>4, Descent
    <3>2. QED BY <1>1, <1>2, <3>1
  <2>2. QED BY <1>2, <1>4, <2>1, WorkingBelow DEF Leaves, Same
<1>5. QED BY <1>1, <1>3, <1>4

LEMMA LeftStays ==
  ASSUME Return, left' = ""
  PROVE  left = ""
<1>1. Current.fn # ""
  BY TablesAssumption DEF Return
<1>2. QED BY <1>1 DEF Return

LEMMA WorkKeeps ==
  ASSUME IInv, IInv', TopInv, AllWorking, AllCalled, Beginning, [Next]_vars
  PROVE  AllWorking'
<1>1. CASE UNCHANGED <<frames, top, left>>
  <2>1. ASSUME NEW k, Working(k)
        PROVE  Working(k)'
    BY <1>1, <2>1, WorkingBelow DEF Depth
  <2>2. Depth' = Depth /\ left' = left
    BY <1>1 DEF Depth
  <2>3. QED BY <2>1, <2>2 DEF AllWorking
<1>2. CASE (Push \/ Pop \/ Let \/ Read \/ Alloc) /\ GoesOn(0)
  <2>1. UNCHANGED <<top, left>> /\ This.op # "pre"
    BY <1>2 DEF Push, Pop, Let, Read, Alloc, Doing
  <2>2. QED BY <1>2, <2>1, WorkGoesOn
<1>3. CASE Global /\ GoesOn(1) /\ UNCHANGED <<top, left>>
  <2>1. This.op # "pre"
    BY <1>3 DEF Global, Doing
  <2>2. QED BY <1>3, <2>1, WorkGoesOn
<1>4. CASE MutatorReturns /\ Leaves
  BY <1>4, WorkLeaves DEF MutatorReturns
<1>5. CASE Return /\ Leaves
  BY <1>5, WorkLeaves, LeftStays DEF Return
<1>6. CASE Begins
  <2>1. Depth' = 1 /\ frames'[1].fn = "code" /\ "code" \notin Functions
    BY <1>6, TablesAssumption DEF Begins
  <2>2. ASSUME NEW k \in 1 .. Depth' PROVE Working(k)'
    <3>1. k = 1
      BY <2>1
    <3>2. QED BY <2>1, <3>1 DEF Working, IsFunction
  <2>3. QED BY <2>2 DEF AllWorking
<1>7. QED BY <1>1, <1>2, <1>3, <1>4, <1>5, <1>6, StepMoves, WorkPre, WorkPost, WorkCalls

-----------------------------------------------------------------------------------
(* Stale variables, at the next state.                                             *)
LEMMA StaleNext ==
  ASSUME NEW k, NEW f, NEW i, NEW stale,
         frames'[k].fn = f, frames'[k].at = i, frames'[k].stale = stale,
         f \in Functions /\ Outer(k)' =>
           stale \subseteq StaleAt[f][i] \cup
                      (IF k < Depth' THEN Exposed(f, i, ToSet(Params[f])) ELSE {}),
         f \in Functions /\ ~Outer(k)' /\ left' = "" =>
           stale \subseteq StaleAbove[f][i] \cup (IF k < Depth' THEN Exposed(f, i, {}) ELSE {}),
         f \in Mutators /\ (left' = "" \/ k < top') => stale = {}
  PROVE  StaleOK(k)'
<1>1. IsFunction(k)' /\ Outer(k)' => OuterStale(k)'
  <2>1. OuterStale(k)' =
          (frames'[k].stale \subseteq StaleAt[frames'[k].fn][frames'[k].at] \cup
             (IF k < Depth' THEN Exposed(frames'[k].fn, frames'[k].at, ToSet(Params[frames'[k].fn]))
              ELSE {}))
    BY DEF OuterStale, May, Pending, Exposed, ToSet
  <2>2. QED BY <2>1 DEF IsFunction
<1>2. IsFunction(k)' /\ ~Outer(k)' /\ left' = "" => InnerStale(k)'
  BY DEF InnerStale, May, Pending, Exposed, IsFunction
<1>3. QED BY <1>1, <1>2 DEF StaleOK

(* What is stale in a frame whose call is not over, and in the innermost one.      *)
LEMMA StaleFacts ==
  ASSUME IInv, AllStale, NEW k \in 1 .. Depth, frames[k].fn \in Functions
  PROVE  LET f == frames[k].fn  i == frames[k].at  stale == frames[k].stale IN
         /\ Outer(k) => stale \subseteq StaleAt[f][i] \cup Exposed(f, i, ToSet(Params[f]))
         /\ ~Outer(k) /\ left = "" => stale \subseteq StaleAbove[f][i] \cup Exposed(f, i, {})
         /\ k = Depth /\ Outer(k) => stale \subseteq StaleAt[f][i]
         /\ k = Depth /\ ~Outer(k) /\ left = "" => stale \subseteq StaleAbove[f][i]
<1>1. StaleOK(k) /\ IsFunction(k) /\ ~(Depth < Depth)
  BY Indices DEF AllStale, IsFunction, IInv
<1>2. Outer(k) => OuterStale(k)
  BY <1>1 DEF StaleOK
<1>3. ~Outer(k) /\ left = "" => InnerStale(k)
  BY <1>1 DEF StaleOK
<1>4. QED BY <1>1, <1>2, <1>3 DEF OuterStale, InnerStale, May, Pending

(* The frame that has finished a step, by the tables.                              *)
LEMMA StaleOfStep ==
  ASSUME NEW k, NEW f \in Functions, NEW i \in 1 .. Len(Body[f]), NEW stale, NEW now,
         Outer(k)' => stale \subseteq StaleAt[f][i] \cup Exposed(f, i, ToSet(Params[f])),
         ~Outer(k)' /\ left' = "" => stale \subseteq StaleAbove[f][i] \cup Exposed(f, i, {}),
         now \subseteq stale \ Renewed(Body[f][i]),
         frames'[k].fn = f, frames'[k].at = i + 1, frames'[k].stale = now
  PROVE  StaleOK(k)'
<1>1. Outer(k)' => now \subseteq StaleAt[f][i + 1]
  <2>1. Outer(k)' => stale \ Renewed(Body[f][i]) \subseteq StaleAt[f][i + 1]
    BY TablesCover, TableStep
  <2>2. QED BY <2>1
<1>2. ~Outer(k)' /\ left' = "" => now \subseteq StaleAbove[f][i + 1]
  <2>1. ~Outer(k)' /\ left' = "" => stale \ Renewed(Body[f][i]) \subseteq StaleAbove[f][i + 1]
    BY TablesCover, TableStep
  <2>2. QED BY <2>1
<1>3. f \notin Mutators
  BY TablesAssumption
<1>4. QED BY <1>1, <1>2, <1>3, StaleNext

(* A frame below those a step is about.                                            *)
LEMMA StaleBelow ==
  ASSUME NEW k, StaleOK(k), frames'[k] = frames[k], Outer(k)' <=> Outer(k), (k < Depth') = (k < Depth),
         ~Outer(k) /\ left' = "" => left = "",
         frames[k].fn \in Mutators /\ (left' = "" \/ k < top') => left = "" \/ k < top
  PROVE  StaleOK(k)'
<1> DEFINE f == frames[k].fn
           i == frames[k].at
           stale == frames[k].stale
<1>1. f \in Functions /\ Outer(k)' =>
        stale \subseteq StaleAt[f][i] \cup (IF k < Depth' THEN Exposed(f, i, ToSet(Params[f])) ELSE {})
  BY DEF StaleOK, OuterStale, May, Pending, IsFunction
<1>2. f \in Functions /\ ~Outer(k)' /\ left = "" =>
        stale \subseteq StaleAbove[f][i] \cup (IF k < Depth' THEN Exposed(f, i, {}) ELSE {})
  BY DEF StaleOK, InnerStale, May, Pending, IsFunction
<1>3. f \in Mutators /\ (left' = "" \/ k < top') => stale = {}
  BY DEF StaleOK
<1>4. frames'[k].fn = f /\ frames'[k].at = i /\ frames'[k].stale = stale
      /\ (~Outer(k)' /\ left' = "" => left = "")
  OBVIOUS
<1> HIDE DEF f, i, stale
<1>5. QED BY <1>1, <1>2, <1>3, <1>4, StaleNext

LEMMA StaleGoesOn ==
  ASSUME IInv, AllStale, NEW b, GoesOn(b),
         frames'[Depth].stale = Current.stale \ Renewed(This),
         \A k \in 1 .. Depth - 1 : frames'[k] = frames[k],
         \A k \in 1 .. Depth : /\ Outer(k)' <=> Outer(k)
                               /\ ~Outer(k) /\ left' = "" => left = ""
                               /\ frames[k].fn \in Mutators /\ (left' = "" \/ k < top') =>
                                    left = "" \/ k < top
  PROVE  AllStale'
<1>1. /\ Depth' = Depth /\ Current = frames[Depth] /\ Depth \in 1 .. Depth
      /\ \A k \in 1 .. Depth : k = Depth \/ k \in 1 .. Depth - 1
      /\ \A k \in 1 .. Depth - 1 : k \in 1 .. Depth
  BY Indices DEF GoesOn, IInv
<1>2. ASSUME NEW k \in 1 .. Depth, k = Depth
      PROVE  StaleOK(k)'
  <2>1. /\ Current.fn \in Functions /\ Current.at \in 1 .. Len(Body[Current.fn])
        /\ frames'[k].fn = Current.fn /\ frames'[k].at = Current.at + 1
        /\ This = Body[Current.fn][Current.at]
    BY <1>2, ThisStep DEF GoesOn, IInv, Structure, This
  <2>2. PICK f \in Functions : f = Current.fn
    BY <2>1
  <2>3. PICK i \in 1 .. Len(Body[f]) : i = Current.at
    BY <2>1, <2>2
  <2>4. /\ Outer(k) => Current.stale \subseteq StaleAt[f][i] \cup Exposed(f, i, ToSet(Params[f]))
        /\ ~Outer(k) /\ left = "" =>
             Current.stale \subseteq StaleAbove[f][i] \cup Exposed(f, i, {})
    BY <1>1, <1>2, <2>2, <2>3, StaleFacts
  <2>5. /\ frames'[k].fn = f /\ frames'[k].at = i + 1 /\ This = Body[f][i]
        /\ (Outer(k)' <=> Outer(k)) /\ (~Outer(k) /\ left' = "" => left = "")
    BY <1>1, <2>1, <2>2, <2>3
  <2>6. PICK now : now = Current.stale \ Renewed(Body[f][i])
    OBVIOUS
  <2>7. frames'[k].stale = now /\ now \subseteq Current.stale \ Renewed(Body[f][i])
    BY <1>2, <2>5, <2>6
  <2>8. QED BY <2>4, <2>5, <2>7, StaleOfStep
<1>3. ASSUME NEW k \in 1 .. Depth - 1
      PROVE  StaleOK(k)'
  <2>1. StaleOK(k) /\ (k < Depth') = (k < Depth)
    BY <1>1 DEF AllStale
  <2>2. QED BY <1>1, <2>1, StaleBelow
<1>4. QED BY <1>1, <1>2, <1>3 DEF AllStale

-----------------------------------------------------------------------------------
LEMMA WithinStale ==
  ASSUME IInv, Pre \/ Post \/ Push \/ Pop \/ Let \/ Read, status' = "run"
  PROVE  /\ frames'[Depth].stale = Current.stale \ Renewed(This)
         /\ \A k \in 1 .. Depth - 1 : frames'[k] = frames[k]
<1>1. Current.stale \in SUBSET Var /\ Current.stale \ {This.v} \in SUBSET Var /\ TypeOK
  BY CurrentFacts DEF IInv
<1>2. CASE Let
  <2>1. Done(Current.stale \ {This.v}) /\ Renewed(This) = {This.v}
    BY <1>2 DEF Let, Doing, Renewed
  <2>2. QED BY <1>1, <2>1, DoneStale
<1>3. CASE Pre \/ Post \/ Push \/ Pop \/ Read
  <2>1. Done(Current.stale)
    BY <1>3 DEF Pre, Post, Push, Pop, Read
  <2>2. Renewed(This) = {}
    BY <1>3 DEF Pre, Post, Push, Pop, Read, Doing, Renewed
  <2>3. QED BY <1>1, <2>1, <2>2, DoneStale
<1>4. QED BY <1>2, <1>3

LEMMA GlobalStale ==
  ASSUME IInv, Global, GoesOn(1)
  PROVE  /\ frames'[Depth].stale = Current.stale \ Renewed(This)
         /\ \A k \in 1 .. Depth - 1 : frames'[k] = frames[k]
<1>1. Renewed(This) = {}
  BY DEF Global, Doing, Renewed
<1>2. frames' = [frames EXCEPT ![Depth] = [Current EXCEPT !.at = @ + 1, !.base = @ + 1]]
  <2>1. frames'[Depth].at = Current.at + 1 /\ Current = frames[Depth] /\ Current.at \in Nat
    BY FrameFacts, Indices DEF GoesOn, IInv
  <2>2. frames' # frames
    BY <2>1
  <2>3. QED BY <2>2 DEF Global
<1>3. /\ Current \in Frame /\ DOMAIN frames = 1 .. Depth /\ Depth \in 1 .. Depth
      /\ \A k \in 1 .. Depth - 1 : k \in 1 .. Depth /\ k # Depth
  <2>1. frames \in Seq(Frame)
    BY DEF IInv, TypeOK
  <2>2. DOMAIN frames = 1 .. Len(frames)
    BY <2>1, LenProperties
  <2>3. QED BY <2>2, CurrentFacts, Indices DEF IInv, Depth
<1>4. ASSUME NEW c \in Frame
      PROVE  [c EXCEPT !.at = @ + 1, !.base = @ + 1].stale = c.stale
  BY DEF Frame
<1>5. frames'[Depth] = [Current EXCEPT !.at = @ + 1, !.base = @ + 1]
  BY <1>2, <1>3
<1>6. \A k \in 1 .. Depth - 1 : frames'[k] = frames[k]
  BY <1>2, <1>3
<1>7. frames'[Depth].stale = Current.stale
  BY <1>3, <1>4, <1>5
<1>8. QED BY <1>1, <1>6, <1>7

(* A __pre_gc or __post_gc changes top, but not which frames are outer.            *)
LEMMA TopMoves ==
  ASSUME IInv, AllStale, Beginning, Pre \/ Post \/ UNCHANGED <<top, left>>, InBody,
         NEW k \in 1 .. Depth
  PROVE  /\ Outer(k)' <=> Outer(k)
         /\ ~Outer(k) /\ left' = "" => left = ""
         /\ frames[k].fn \in Mutators /\ (left' = "" \/ k < top') => left = "" \/ k < top
<1>1. Depth \in Nat /\ Depth >= 1 /\ Current = frames[Depth] /\ k \in Nat
  BY Indices DEF IInv
<1>2. k <= Depth /\ (k # Depth => k < Depth)
  BY <1>1
<1>3. CASE UNCHANGED <<top, left>>
  BY <1>3 DEF Outer
<1>4. CASE Pre
  <2>1. left' = left /\ (top # None => top' = top) /\ (top = None => top' = Depth)
    BY <1>4 DEF Pre
  <2>2. left # "" => top # None
    BY DEF Beginning, None
  <2>3. Outer(k)' <=> Outer(k)
    BY <1>2, <2>1 DEF Outer
  <2>4. QED BY <2>1, <2>2, <2>3
<1>5. CASE top = Depth /\ top' = None /\ left' = ""
  <2>1. Outer(k) /\ Outer(k)'
    BY <1>2, <1>5 DEF Outer
  <2>2. frames[k].fn \in Mutators => k # Depth
    BY <1>1, TablesAssumption DEF InBody
  <2>3. QED BY <1>2, <1>5, <2>1, <2>2
<1>6. QED BY <1>3, <1>4, <1>5 DEF Post

LEMMA StaleWithin ==
  ASSUME IInv, AllStale, Beginning, NEW b, GoesOn(b),
         \/ (Pre \/ Post \/ Push \/ Pop \/ Let \/ Read) /\ status' = "run"
         \/ Global /\ b = 1
  PROVE  AllStale'
<1>1. /\ frames'[Depth].stale = Current.stale \ Renewed(This)
      /\ \A k \in 1 .. Depth - 1 : frames'[k] = frames[k]
  BY WithinStale, GlobalStale
<1>2. Pre \/ Post \/ UNCHANGED <<top, left>>
  BY DEF Push, Pop, Let, Read, Global
<1>3. ASSUME NEW k \in 1 .. Depth
      PROVE  /\ Outer(k)' <=> Outer(k)
             /\ ~Outer(k) /\ left' = "" => left = ""
             /\ frames[k].fn \in Mutators /\ (left' = "" \/ k < top') => left = "" \/ k < top
  BY <1>2, TopMoves DEF GoesOn
<1>4. QED BY <1>1, <1>3, StaleGoesOn

-----------------------------------------------------------------------------------
LEMMA FramesEnter ==
  ASSUME IInv, NEW f, NEW stale, Enter(f, stale)
  PROVE  /\ \A k \in 1 .. Depth : frames'[k] = frames[k]
         /\ frames'[Depth + 1].stale = stale
<1> DEFINE new == [fn |-> f, at |-> 1, base |-> Len(roots), stale |-> stale]
<1>1. frames \in Seq(Frame \cup {new})
  <2>1. frames \in Seq(Frame)
    BY DEF IInv, TypeOK
  <2> HIDE DEF new
  <2>2. QED BY <2>1
<1>2. frames' = Append(frames, new)
  BY DEF Enter
<1>3. /\ frames'[Len(frames) + 1] = new
      /\ \A k \in 1 .. Len(frames) : frames'[k] = frames[k]
  <2> HIDE DEF new
  <2>1. QED BY <1>1, <1>2, AppendProperties
<1>4. QED BY <1>3 DEF Depth

LEMMA StaleEnters ==
  ASSUME IInv, AllStale, NEW f, NEW stale, Enter(f, stale), NEW above, above = Depth + 1,
         f \in Mutators => stale = {},
         f \in Functions /\ Outer(above) => stale \subseteq StaleAt[f][1],
         f \in Functions /\ ~Outer(above) /\ left = "" => stale \subseteq StaleAbove[f][1],
         IsFunction(Depth) => Body[Current.fn][Current.at].op = "call"
  PROVE  AllStale'
<1>1. /\ UNCHANGED <<roots, top, left, status>> /\ Depth' = above
      /\ frames'[above].fn = f /\ frames'[above].at = 1 /\ frames'[above].stale = stale
      /\ \A k \in 1 .. Depth : frames'[k] = frames[k]
  BY EnterEnters, FramesEnter DEF Enters
<1>2. /\ Current = frames[Depth] /\ ~(above < above)
      /\ \A k \in 1 .. above : k = above \/ k = Depth \/ k \in 1 .. Depth - 1
      /\ \A k \in 1 .. Depth - 1 : k < Depth /\ k < above /\ k \in 1 .. Depth
      /\ Depth < above /\ ~(Depth < Depth) /\ Depth \in 1 .. Depth
  <2>1. Depth \in Nat /\ Depth >= 1 /\ Current = frames[Depth] /\ ~(Depth < Depth)
        /\ Depth \in 1 .. Depth
    BY Indices DEF IInv
  <2>2. ~(above < above) /\ Depth < above
    BY <2>1, Heights
  <2>3. QED BY <2>1, <2>2, Heights
<1>3. \A k : Outer(k)' <=> Outer(k)
  BY <1>1 DEF Outer
<1>4. StaleOK(above)'
  <2>1. \A k : k = above => StaleOK(k)'
    <3> SUFFICES ASSUME NEW k, k = above PROVE StaleOK(k)'
      OBVIOUS
    <3>1. frames'[k].fn = f /\ frames'[k].at = 1 /\ frames'[k].stale = stale /\ ~(k < Depth')
          /\ left' = left
      BY <1>1, <1>2
    <3>2. f \in Functions /\ Outer(k)' => stale \subseteq StaleAt[f][1]
      BY <1>3
    <3>3. f \in Functions /\ ~Outer(k)' /\ left' = "" => stale \subseteq StaleAbove[f][1]
      BY <1>3, <3>1
    <3>4. QED BY <3>1, <3>2, <3>3, StaleNext
  <2>2. QED BY <2>1
<1>5. ASSUME NEW k \in 1 .. Depth, k = Depth
      PROVE  StaleOK(k)'
  <2>1. /\ frames'[k].fn = Current.fn /\ frames'[k].at = Current.at
        /\ frames'[k].stale = Current.stale /\ k < Depth'
    BY <1>1, <1>2, <1>5
  <2>2. Current.fn \in Functions /\ Outer(k)' =>
          Current.stale \subseteq StaleAt[Current.fn][Current.at] \cup
                                 Exposed(Current.fn, Current.at, ToSet(Params[Current.fn]))
    BY <1>2, <1>3, <1>5, StaleFacts
  <2>3. Current.fn \in Functions /\ ~Outer(k)' /\ left' = "" =>
          Current.stale \subseteq StaleAbove[Current.fn][Current.at] \cup
                                 Exposed(Current.fn, Current.at, {})
    BY <1>1, <1>2, <1>3, <1>5, StaleFacts
  <2>4. Current.fn \in Mutators /\ (left' = "" \/ k < top') => Current.stale = {}
    BY <1>1, <1>2, <1>5 DEF AllStale, StaleOK
  <2>5. QED BY <2>1, <2>2, <2>3, <2>4, StaleNext
<1>6. ASSUME NEW k \in 1 .. Depth - 1
      PROVE  StaleOK(k)'
  <2>1. k \in 1 .. Depth /\ k < Depth /\ k < Depth'
    BY <1>1, <1>2
  <2>2. StaleOK(k) /\ frames'[k] = frames[k]
    BY <1>1, <2>1 DEF AllStale
  <2>3. QED BY <1>1, <1>3, <2>1, <2>2, StaleBelow
<1>7. QED BY <1>1, <1>2, <1>4, <1>5, <1>6 DEF AllStale

(* A stale argument makes a stale parameter.                                       *)
LEMMA PassedGrows ==
  ASSUME NEW f, NEW args, NEW small, NEW large, small \subseteq large
  PROVE  Passed(f, args, small) \subseteq Passed(f, args, large)
  BY DEF Passed

(* What a callee's parameters may be, by the tables.                               *)
LEMMA PassedFits ==
  ASSUME NEW f \in Functions, NEW i \in 1 .. Len(Body[f]), Body[f][i].op = "call", NEW stale
  PROVE  LET step == Body[f][i]  passed == Passed(step.f, step.args, stale) IN
         /\ stale \subseteq StaleAt[f][i] =>
              passed \subseteq StaleAt[step.f][1] /\ passed \subseteq StaleAbove[step.f][1]
         /\ stale \subseteq StaleAbove[f][i] => passed \subseteq StaleAbove[step.f][1]
<1> DEFINE step == Body[f][i]
           Given(s) == Passed(step.f, step.args, s)
<1>1. /\ Given(StaleAt[f][i]) \subseteq StaleAt[step.f][1]
      /\ Given(StaleAt[f][i]) \cup Given(StaleAbove[f][i]) \subseteq StaleAbove[step.f][1]
  BY StaleAssumption
<1>2. /\ stale \subseteq StaleAt[f][i] => Given(stale) \subseteq Given(StaleAt[f][i])
      /\ stale \subseteq StaleAbove[f][i] => Given(stale) \subseteq Given(StaleAbove[f][i])
  BY PassedGrows
<1> HIDE DEF Given
<1>3. /\ stale \subseteq StaleAt[f][i] =>
           Given(stale) \subseteq StaleAt[step.f][1] /\ Given(stale) \subseteq StaleAbove[step.f][1]
      /\ stale \subseteq StaleAbove[f][i] => Given(stale) \subseteq StaleAbove[step.f][1]
  BY <1>1, <1>2
<1>4. QED BY <1>3 DEF Given

LEMMA OuterBelow ==
  ASSUME IInv, NEW above, above = Depth + 1
  PROVE  Outer(above) => Outer(Depth) /\ (top # None => Depth < top)
<1>1. Depth \in Nat /\ top \in Int
  BY Indices DEF IInv
<1>2. ASSUME NEW d \in Nat, NEW t \in Int, d + 1 <= t
      PROVE  d <= t /\ d < t
  BY <1>2
<1>3. QED BY <1>1, <1>2 DEF Outer

LEMMA StaleCall ==
  ASSUME IInv, AllStale, Call
  PROVE  AllStale'
<1>1. Enter(This.f, Passed(This.f, This.args, Current.stale)) /\ InBody /\ This.op = "call"
  BY DEF Call, Doing
<1>2. /\ Current.fn \in Functions /\ Current.at \in 1 .. Len(Body[Current.fn])
      /\ This.f \in Functions
  BY <1>1, ThisStep DEF IInv, Structure
<1>3. PICK g \in Functions : g = Current.fn
  BY <1>2
<1>4. PICK i \in 1 .. Len(Body[g]) : i = Current.at
  BY <1>2, <1>3
<1>5. This = Body[g][i] /\ Body[g][i].op = "call" /\ This.f \notin Mutators
  BY <1>1, <1>2, <1>3, <1>4, TablesAssumption DEF This
<1>6. /\ Outer(Depth) => Current.stale \subseteq StaleAt[g][i]
      /\ ~Outer(Depth) /\ left = "" => Current.stale \subseteq StaleAbove[g][i]
  <2>1. Depth \in 1 .. Depth /\ Current = frames[Depth]
    BY Indices DEF IInv
  <2>2. QED BY <1>3, <1>4, <2>1, StaleFacts
<1>7. PICK f, stale : f = This.f /\ stale = Passed(This.f, This.args, Current.stale)
  OBVIOUS
<1>8. /\ Current.stale \subseteq StaleAt[g][i] =>
           stale \subseteq StaleAt[f][1] /\ stale \subseteq StaleAbove[f][1]
      /\ Current.stale \subseteq StaleAbove[g][i] => stale \subseteq StaleAbove[f][1]
  BY <1>5, <1>7, PassedFits
<1>9. PICK above : above = Depth + 1
  OBVIOUS
<1>10. Outer(above) => Outer(Depth)
  BY <1>9, OuterBelow
<1>11. QED BY <1>1, <1>3, <1>4, <1>5, <1>6, <1>7, <1>8, <1>9, <1>10, StaleEnters

LEMMA StaleMutatorCalls ==
  ASSUME IInv, AllStale, Beginning, MutatorCalls
  PROVE  AllStale'
<1>1. PICK f \in Calls[Current.fn] :
        Enter(f, IF Current.stale = {} \/ f \in Mutators THEN {} ELSE ToSet(Params[f]))
  BY DEF MutatorCalls
<1>2. PICK stale : stale = IF Current.stale = {} \/ f \in Mutators THEN {} ELSE ToSet(Params[f])
  OBVIOUS
<1>3. Current.fn \in Mutators /\ Current = frames[Depth] /\ Depth \in 1 .. Depth
  BY Indices DEF MutatorCalls, Running, IInv
<1>4. left = "" \/ Depth < top => stale = {}
  <2>1. StaleOK(Depth)
    BY <1>3 DEF AllStale
  <2>2. left = "" \/ Depth < top => Current.stale = {}
    BY <1>3, <2>1 DEF StaleOK
  <2>3. QED BY <1>2, <2>2
<1>5. PICK above : above = Depth + 1
  OBVIOUS
<1>6. Outer(above) => stale = {}
  <2>1. Outer(above) => top = None \/ Depth < top
    BY <1>5, OuterBelow
  <2>2. top = None => left = ""
    BY DEF Beginning, None
  <2>3. QED BY <1>4, <2>1, <2>2
<1>7. ~IsFunction(Depth)
  BY <1>3, NotMutator
<1>8. f \in Mutators => stale = {}
  BY <1>2
<1>9. QED BY <1>1, <1>2, <1>4, <1>5, <1>6, <1>7, <1>8, StaleEnters

-----------------------------------------------------------------------------------
(* The frame below the one that is gone has the call's result.                     *)
LEMMA ReturnStale ==
  ASSUME IInv, Return, Depth > 1
  PROVE  /\ \A k \in 1 .. Depth - 2 : frames'[k] = frames[k]
         /\ frames[Depth - 1].fn \in Mutators => frames'[Depth - 1].stale = {}
         /\ frames[Depth - 1].fn \in Functions =>
              frames'[Depth - 1].stale = frames[Depth - 1].stale \
                 {Body[frames[Depth - 1].fn][frames[Depth - 1].at].v}
<1>1. Depth \in Nat /\ \A k \in 1 .. Depth : frames[k] \in Frame
  BY FrameFacts DEF IInv
<1> DEFINE caller == frames[Depth - 1]
           gone == {Body[caller.fn][caller.at].v}
           new == IF caller.fn \in Mutators THEN [caller EXCEPT !.stale = {}]
                  ELSE [caller EXCEPT !.at = @ + 1, !.stale = @ \ gone]
<1>2. /\ Depth - 1 \in 1 .. Depth /\ Depth # 1 /\ Depth - 2 \in 0 .. Depth
      /\ (Depth - 2) + 1 = Depth - 1 /\ Depth - 2 \in Nat
  BY <1>1
<1>3. frames' = Append(SubSeq(frames, 1, Depth - 2), new)
  BY <1>2 DEF Return
<1>4. caller \in Frame /\ (caller.fn \in Functions => caller.fn \notin Mutators)
  BY <1>1, <1>2, TablesAssumption
<1>5. ASSUME NEW c \in Frame, NEW x
      PROVE  /\ [c EXCEPT !.stale = {}].stale = {}
             /\ [c EXCEPT !.at = @ + 1, !.stale = @ \ x].stale = c.stale \ x
  BY DEF Frame
<1> HIDE DEF caller, gone
<1>6. /\ caller.fn \in Mutators => new.stale = {}
      /\ caller.fn \in Functions => new.stale = caller.stale \ gone
  BY <1>4, <1>5
<1> HIDE DEF new
<1>7. /\ SubSeq(frames, 1, Depth - 2) \in Seq(Frame)
      /\ Len(SubSeq(frames, 1, Depth - 2)) = Depth - 2
      /\ \A k \in 1 .. Depth - 2 : SubSeq(frames, 1, Depth - 2)[k] = frames[k]
  BY <1>2, FramesBelow DEF IInv
<1>8. PICK u \in Seq(Frame) : u = SubSeq(frames, 1, Depth - 2)
  BY <1>7
<1>9. /\ \A k \in 1 .. Depth - 2 : frames'[k] = frames[k]
      /\ frames'[Depth - 1] = new
  <2>1. /\ Append(u, new)[Len(u) + 1] = new
        /\ \A k \in 1 .. Len(u) : Append(u, new)[k] = u[k]
    OBVIOUS
  <2>2. QED BY <1>2, <1>3, <1>7, <1>8, <2>1
<1>10. QED BY <1>6, <1>9 DEF caller, gone

LEMMA StaleLeaves ==
  ASSUME IInv, AllStale, AllCalled, Leaves, top' = top, left' = "" => left = "",
         left' = left \/ left = "", NEW below, below = Depth - 1,
         \A k \in 1 .. Depth - 2 : frames'[k] = frames[k],
         frames[below].fn \in Mutators =>
           frames'[below].stale = {} \/ frames'[below].stale = frames[below].stale,
         frames[below].fn \in Functions =>
           frames'[below].stale = frames[below].stale \ {Body[frames[below].fn][frames[below].at].v}
  PROVE  AllStale'
<1>1. /\ Depth' = below /\ below \in 1 .. Depth - 1 /\ below \in 1 .. Depth /\ below < Depth
      /\ ~(below < below)
      /\ \A k \in 1 .. below : k = below \/ k \in 1 .. Depth - 2
      /\ \A k \in 1 .. Depth - 2 : k \in 1 .. Depth /\ k < Depth /\ k < below
  <2>1. Depth \in Nat /\ Depth > 1 /\ Depth' = below
    BY Indices DEF Leaves, IInv
  <2>2. below \in 1 .. Depth - 1 /\ \A k \in 1 .. Depth - 2 : k \in 1 .. Depth - 1
    BY <2>1, Descent
  <2>3. QED BY <2>1, <2>2, Descent
<1>2. \A k : Outer(k)' <=> Outer(k)
  BY DEF Outer
<1>3. \A k \in 1 .. Depth : frames[k].fn \in Mutators /\ (left' = "" \/ k < top') =>
        left = "" \/ k < top
  OBVIOUS
<1>4. ASSUME NEW k, k = below
      PROVE  StaleOK(k)'
  <2>1. StaleOK(k) /\ k \in 1 .. Depth
    BY <1>1, <1>4 DEF AllStale
  <2>2. frames'[k].fn = frames[k].fn
    BY <1>4 DEF Leaves
  <2>3. CASE frames[k].fn \in Mutators
    <3>1. frames[k].fn \notin Functions
      BY <2>3, TablesAssumption
    <3>2. left' = "" \/ k < top' => frames'[k].stale = {}
      BY <1>3, <1>4, <2>1, <2>3 DEF StaleOK
    <3>3. QED BY <2>2, <3>1, <3>2 DEF StaleOK, IsFunction
  <2>4. CASE frames[k].fn \in Functions
    <3>1. PICK f \in Functions : f = frames[k].fn
      BY <2>4
    <3>2. /\ frames[k].at \in 1 .. Len(Body[f]) /\ Body[f][frames[k].at].op = "call"
      BY <1>1, <1>4, <2>4, <3>1, CalledByFunction DEF IsFunction
    <3>3. PICK i \in 1 .. Len(Body[f]) : i = frames[k].at
      BY <3>2
    <3>4. /\ frames'[k].fn = f /\ frames'[k].at = i + 1
          /\ frames'[k].stale = frames[k].stale \ Renewed(Body[f][i])
      <4>1. frames'[k].at = frames[k].at + 1
        BY <1>4, <2>4 DEF Leaves
      <4>2. Renewed(Body[f][i]) = {Body[f][i].v}
        BY <3>2, <3>3 DEF Renewed
      <4>3. QED BY <1>4, <2>2, <3>1, <3>3, <4>1, <4>2
    <3>5. /\ Outer(k) => frames[k].stale \subseteq StaleAt[f][i] \cup Exposed(f, i, ToSet(Params[f]))
          /\ ~Outer(k) /\ left = "" =>
               frames[k].stale \subseteq StaleAbove[f][i] \cup Exposed(f, i, {})
      BY <2>1, <3>1, <3>3, StaleFacts
    <3>6. PICK stale, now : stale = frames[k].stale /\ now = stale \ Renewed(Body[f][i])
      OBVIOUS
    <3>7. /\ Outer(k)' => stale \subseteq StaleAt[f][i] \cup Exposed(f, i, ToSet(Params[f]))
          /\ ~Outer(k)' /\ left' = "" => stale \subseteq StaleAbove[f][i] \cup Exposed(f, i, {})
      BY <1>2, <3>5, <3>6
    <3>8. frames'[k].stale = now /\ now \subseteq stale \ Renewed(Body[f][i])
      BY <3>4, <3>6
    <3>9. QED BY <3>4, <3>7, <3>8, StaleOfStep
  <2>5. QED BY <2>1, <2>3, <2>4, FrameFacts DEF IInv
<1>5. ASSUME NEW k \in 1 .. Depth - 2
      PROVE  StaleOK(k)'
  <2>1. k \in 1 .. Depth /\ k < Depth /\ k < Depth'
    BY <1>1
  <2>2. StaleOK(k)
    BY <2>1 DEF AllStale
  <2>3. QED BY <1>2, <1>3, <2>1, <2>2, StaleBelow
<1>6. QED BY <1>1, <1>4, <1>5 DEF AllStale

LEMMA StaleReturn ==
  ASSUME IInv, AllStale, AllCalled, Return
  PROVE  AllStale'
<1>1. CASE Leaves
  <2>1. PICK below : below = Depth - 1
    OBVIOUS
  <2>2. Depth > 1
    BY <1>1 DEF Leaves
  <2>3. /\ \A k \in 1 .. Depth - 2 : frames'[k] = frames[k]
        /\ frames[below].fn \in Mutators => frames'[below].stale = {}
        /\ frames[below].fn \in Functions =>
             frames'[below].stale = frames[below].stale \ {Body[frames[below].fn][frames[below].at].v}
    BY <2>1, <2>2, ReturnStale
  <2>4. top' = top /\ (left' = "" => left = "") /\ (left' = left \/ left = "")
    BY LeftStays DEF Return
  <2>5. QED BY <1>1, <2>1, <2>3, <2>4, StaleLeaves
<1>2. CASE Begins
  <2>1. frames' = <<[fn |-> "code", at |-> 1, base |-> Len(roots), stale |-> {}]>>
    BY <1>2 DEF Begins, Return
  <2>2. frames'[1].stale = {} /\ frames'[1].fn = "code" /\ Depth' = 1
    BY <1>2, <2>1 DEF Begins
  <2>3. "code" \in Mutators /\ "code" \notin Functions
    BY TablesAssumption
  <2>4. ASSUME NEW k, k = 1
        PROVE  StaleOK(k)'
    BY <2>2, <2>3, <2>4 DEF StaleOK, IsFunction
  <2>5. \A k \in 1 .. 1 : k = 1
    OBVIOUS
  <2>6. QED BY <2>2, <2>4, <2>5 DEF AllStale
<1>3. QED BY <1>1, <1>2, ReturnLeaves

LEMMA StaleMutatorReturns ==
  ASSUME IInv, AllStale, AllCalled, MutatorReturns, Leaves
  PROVE  AllStale'
<1>1. PICK below : below = Depth - 1
  OBVIOUS
<1>2. Depth > 1 /\ frames' = SubSeq(frames, 1, Depth - 1) /\ Depth \in Nat
      /\ UNCHANGED <<top, left>>
  BY CurrentFacts DEF MutatorReturns, IInv
<1>3. Depth - 1 \in 0 .. Depth /\ Depth - 1 \in 1 .. Depth - 1
      /\ \A k \in 1 .. Depth - 2 : k \in 1 .. Depth - 1
  BY <1>2
<1>4. \A k \in 1 .. Depth - 1 : frames'[k] = frames[k]
  BY <1>2, <1>3, FramesBelow DEF IInv
<1>5. frames[below].fn \notin Functions
  <2>1. Current.fn \in Mutators /\ Current = frames[Depth] /\ Depth \in 1 .. Depth
    BY CurrentFacts DEF MutatorReturns, Running, IInv
  <2>2. frames[Depth - 1].fn \in Mutators
    BY <1>2, <2>1 DEF IInv, Structure, Calling
  <2>3. QED BY <1>1, <2>2, TablesAssumption
<1>6. /\ \A k \in 1 .. Depth - 2 : frames'[k] = frames[k]
      /\ frames'[below].stale = frames[below].stale
  BY <1>1, <1>3, <1>4
<1>7. QED BY <1>1, <1>2, <1>5, <1>6, StaleLeaves

-----------------------------------------------------------------------------------
(* A root that a frame holds is in the pool.                                       *)
LEMMA HeldInPool ==
  ASSUME IInv, NEW k \in 1 .. Depth, frames[k].fn \in Functions,
         NEW v \in ToSet(Held[frames[k].fn][frames[k].at])
  PROVE  <<k, v>> \in ToSet(roots)
<1>1. HeldNow(k) = Held[frames[k].fn][frames[k].at]
  BY DEF HeldNow, IsFunction
<1>2. frames[k].at \in 1 .. Len(Body[frames[k].fn]) + 1
  BY DEF IInv, Structure, Calling, IsFunction
<1>3. HeldNow(k) \in Seq(Var)
  BY <1>1, <1>2, HeldFacts
<1>4. PICK j \in 1 .. Len(HeldNow(k)) : HeldNow(k)[j] = v
  BY <1>1, <1>3 DEF ToSet
<1>5. roots[frames[k].base + j] = <<k, v>>
  BY <1>4 DEF IInv, Structure, Segments
<1>6. frames[k].base + j \in 1 .. Len(roots)
  <2>1. /\ frames[k].base \in Nat /\ Len(HeldNow(k)) \in Nat /\ Current.base \in Nat
        /\ Len(HeldNow(Depth)) \in Nat /\ Len(roots) \in Nat /\ Current = frames[Depth]
        /\ k = Depth \/ k \in 1 .. Depth - 1
    BY FrameFacts, SegmentFacts, CurrentFacts, Indices DEF IInv
  <2>2. /\ k \in 1 .. Depth - 1 => frames[k].base + Len(HeldNow(k)) <= Current.base
        /\ Current.base + Len(HeldNow(Depth)) = Len(roots)
    BY SegmentFacts DEF IInv
  <2>3. ASSUME NEW a \in Nat, NEW n \in Nat, NEW c \in Nat, NEW m \in Nat, NEW r \in Nat,
               NEW l \in 1 .. n, c + m = r, a + n <= c \/ (a = c /\ n = m)
        PROVE  a + l \in 1 .. r
    BY <2>3
  <2>4. \/ frames[k].base + Len(HeldNow(k)) <= Current.base
        \/ frames[k].base = Current.base /\ Len(HeldNow(k)) = Len(HeldNow(Depth))
    BY <2>1, <2>2
  <2>5. QED BY <2>1, <2>2, <2>3, <2>4
<1>7. DOMAIN roots = 1 .. Len(roots)
  <2>1. roots \in Seq(Nat \X Var)
    BY CurrentFacts DEF IInv
  <2>2. QED BY <2>1, LenProperties
<1>8. QED BY <1>5, <1>6, <1>7 DEF ToSet

(* An allocation happens with top set.                                             *)
LEMMA TopSet ==
  ASSUME IInv, TopInv, AllWorking, Beginning, Alloc
  PROVE  top # None
<1>1. InBody /\ This.op = "alloc" /\ Current = frames[Depth] /\ Depth \in 1 .. Depth
      /\ ~(Depth < Depth)
  BY Indices DEF Alloc, Doing, IInv
<1>2. /\ Current.fn \in Functions /\ Current.at \in 1 .. Len(Body[Current.fn])
      /\ Body[Current.fn][Current.at].op = "alloc"
  BY <1>1, ThisStep DEF IInv, Structure, This
<1>3. Inside(Current.fn, Current.at)
  BY <1>2, WorkAssumption
<1>4. ~Spent(Current.fn, Current.at)
  BY <1>2, SpentLater
<1>5. CASE left = ""
  <2>1. Working(Depth) /\ IsFunction(Depth) /\ NextStep(Depth) = Current.at
    BY <1>1, <1>2, <1>5 DEF AllWorking, IsFunction, NextStep
  <2>2. QED BY <1>1, <1>3, <1>4, <2>1 DEF Working
<1>6. CASE left # ""
  BY <1>6 DEF Beginning, None
<1>7. QED BY <1>5, <1>6

(* What a collection does not find of a frame.                                     *)
Unfound(k) == {v \in Variables[frames[k].fn] : ~Found(k, v)}

LEMMA UnfoundExposed ==
  ASSUME IInv, top # None, NEW k \in 1 .. Depth, frames[k].fn \in Functions,
         Body[frames[k].fn][frames[k].at].op \in {"alloc", "call"}
  PROVE  /\ Outer(k) => Unfound(k) \subseteq
              Exposed(frames[k].fn, frames[k].at, ToSet(Params[frames[k].fn]))
         /\ Unfound(k) \subseteq Exposed(frames[k].fn, frames[k].at, {})
<1>1. ASSUME NEW v \in Unfound(k)
      PROVE  /\ v \in Variables[frames[k].fn] /\ v \notin ToSet(Held[frames[k].fn][frames[k].at])
             /\ ~Scanned(k, v)
  BY <1>1, HeldInPool DEF Unfound, Found
<1>2. ASSUME Outer(k), NEW v \in Unfound(k)
      PROVE  v \notin ToSet(Params[frames[k].fn])
  <2>1. k <= top
    BY <1>2 DEF Outer
  <2>2. top # VM /\ (k < top \/ k = top)
    <3>1. k \in Nat /\ top \in Int
      BY Indices DEF IInv
    <3>2. QED BY <2>1, <3>1 DEF VM
  <2>3. QED BY <1>1, <2>2 DEF Scanned
<1>3. QED BY <1>1, <1>2 DEF Exposed

LEMMA TopOrder ==
  ASSUME NEW d \in Nat, NEW t \in Int
  PROVE  (d < t => t # VM) /\ (~(d < t) => t <= d)
  BY DEF VM

(* The program's frames are all on the part of the stack that is scanned.          *)
LEMMA MutatorsScanned ==
  ASSUME IInv, TopInv, Beginning, top # None, NEW k \in 1 .. Depth, frames[k].fn \in Mutators,
         left = "" \/ k < top
  PROVE  Unfound(k) = {}
<1>1. k \in Nat /\ top \in Int
  BY Indices DEF IInv
<1>2. CASE k < top
  <2>1. top # VM
    BY <1>1, <1>2, TopOrder
  <2>2. QED BY <1>2, <2>1 DEF Unfound, Found, Scanned
<1>3. CASE ~(k < top)
  <2>1. top = VM \/ TopAt(top)
    BY <1>3 DEF TopInv, TopRight
  <2>2. ~TopAt(top)
    <3> SUFFICES ASSUME TopAt(top) PROVE FALSE
      OBVIOUS
    <3>1. top \in 1 .. Depth /\ frames[top].fn \in Functions
      BY DEF TopAt
    <3>2. top <= k
      BY <1>1, <1>3, TopOrder
    <3>3. frames[top].fn \in Mutators
      BY <3>1, <3>2 DEF TopInv, ProgramBelow
    <3>4. QED BY <3>1, <3>3, TablesAssumption
  <2>3. frames[k].fn = "eval"
    <3>1. ~IsFunction(k)
      BY NotMutator
    <3>2. QED BY <2>1, <2>2, <3>1 DEF Beginning
  <2>4. QED BY <2>3, EvalAssumption DEF Unfound
<1>4. QED BY <1>2, <1>3

LEMMA AllocStale ==
  ASSUME IInv, Alloc, NEW k \in 1 .. Depth
  PROVE  frames'[k].stale \subseteq
           IF k = Depth THEN (frames[k].stale \cup Unfound(k)) \ {This.v}
           ELSE frames[k].stale \cup Unfound(k)
<1>1. PICK collects \in BOOLEAN :
        frames' = [i \in 1 .. Depth |->
                     LET frame == IF collects THEN Collected(i) ELSE frames[i] IN
                     IF i = Depth THEN [frame EXCEPT !.at = @ + 1, !.stale = @ \ {This.v}]
                     ELSE frame]
  BY DEF Alloc
<1> DEFINE frame == IF collects THEN Collected(k) ELSE frames[k]
<1>2. frames[k] \in Frame /\ Variables[frames[k].fn] \subseteq Var
  BY FrameFacts DEF IInv, Frame, Var
<1>3. frame \in Frame /\ frame.stale \subseteq frames[k].stale \cup Unfound(k)
  <2>1. Collected(k) \in Frame /\ Collected(k).stale = frames[k].stale \cup Unfound(k)
    BY <1>2 DEF Collected, Unfound, Frame
  <2>2. QED BY <1>2, <2>1
<1>4. frames'[k] = IF k = Depth THEN [frame EXCEPT !.at = @ + 1, !.stale = @ \ {This.v}] ELSE frame
  BY <1>1
<1>5. ASSUME NEW c \in Frame, NEW x
      PROVE  [c EXCEPT !.at = @ + 1, !.stale = @ \ x].stale = c.stale \ x
  BY DEF Frame
<1> HIDE DEF frame
<1>6. [frame EXCEPT !.at = @ + 1, !.stale = @ \ {This.v}].stale = frame.stale \ {This.v}
  BY <1>3, <1>5
<1>7. CASE k = Depth
  <2>1. frames'[k].stale = frame.stale \ {This.v}
    BY <1>4, <1>6, <1>7
  <2>2. QED BY <1>3, <1>7, <2>1
<1>8. CASE k # Depth
  BY <1>3, <1>4, <1>8
<1>9. QED BY <1>7, <1>8

LEMMA StaleAlloc ==
  ASSUME IInv, TopInv, AllStale, AllWorking, Beginning, Alloc
  PROVE  AllStale'
<1>1. /\ UNCHANGED <<top, left>> /\ top # None /\ This.op = "alloc" /\ InBody /\ GoesOn(0)
  BY TopSet, AllocGoesOn DEF Alloc, Doing, IInv
<1>2. /\ Depth' = Depth /\ Current = frames[Depth] /\ Depth \in 1 .. Depth
      /\ \A k \in 1 .. Depth : /\ k = Depth \/ k \in 1 .. Depth - 1
                               /\ k # Depth => k < Depth
  BY <1>1, Indices DEF GoesOn, IInv
<1>3. \A k : Outer(k)' <=> Outer(k)
  BY <1>1 DEF Outer
<1>4. ASSUME NEW k \in 1 .. Depth
      PROVE  StaleOK(k)'
  <2>1. frames'[k].fn = frames[k].fn /\ StaleOK(k)
    BY <1>1, <1>2, FunctionsGoOn DEF AllStale
  <2>2. CASE frames[k].fn \in Mutators
    <3>1. frames[k].fn \notin Functions /\ k # Depth
      BY <1>1, <1>2, <2>2, TablesAssumption DEF InBody
    <3>2. frames'[k].stale \subseteq frames[k].stale \cup Unfound(k)
      BY <3>1, AllocStale
    <3>3. left' = "" \/ k < top' => frames[k].stale = {} /\ Unfound(k) = {}
      BY <1>1, <2>1, <2>2, MutatorsScanned DEF StaleOK
    <3>4. left' = "" \/ k < top' => frames'[k].stale = {}
      BY <3>2, <3>3
    <3>5. QED BY <2>1, <3>1, <3>4 DEF StaleOK, IsFunction
  <2>3. CASE frames[k].fn \in Functions
    <3>1. PICK f \in Functions : f = frames[k].fn
      BY <2>3
    <3>2. frames[k].at \in 1 .. Len(Body[f]) /\ Body[f][frames[k].at].op \in {"alloc", "call"}
          /\ (k = Depth => Body[f][frames[k].at] = This)
      <4>1. CASE k = Depth
        BY <1>1, <1>2, <3>1, <4>1, ThisStep DEF IInv, Structure, This
      <4>2. CASE k # Depth
        <5>1. /\ frames[k].at \in 1 .. Len(Body[f]) + 1 /\ frames[k].at <= Len(Body[f])
              /\ Body[f][frames[k].at].op = "call"
          BY <1>2, <2>3, <3>1, <4>2 DEF IInv, Structure, Calling, IsFunction
        <5>2. Len(Body[f]) \in Nat
          BY HeldFacts
        <5>3. frames[k].at \in 1 .. Len(Body[f])
          BY <5>1, <5>2, NotAtEnd
        <5>4. QED BY <4>2, <5>1, <5>3
      <4>3. QED BY <4>1, <4>2
    <3>3. PICK i \in 1 .. Len(Body[f]) : i = frames[k].at
      BY <3>2
    <3>4. PICK stale : stale = frames[k].stale \cup Unfound(k)
      OBVIOUS
    <3>5. /\ Outer(k) => stale \subseteq StaleAt[f][i] \cup Exposed(f, i, ToSet(Params[f]))
          /\ ~Outer(k) /\ left = "" => stale \subseteq StaleAbove[f][i] \cup Exposed(f, i, {})
      <4>1. /\ Outer(k) => frames[k].stale \subseteq StaleAt[f][i] \cup
                                                    Exposed(f, i, ToSet(Params[f]))
            /\ ~Outer(k) /\ left = "" =>
                 frames[k].stale \subseteq StaleAbove[f][i] \cup Exposed(f, i, {})
        BY <3>1, <3>3, StaleFacts
      <4>2. /\ Outer(k) => Unfound(k) \subseteq Exposed(f, i, ToSet(Params[f]))
            /\ Unfound(k) \subseteq Exposed(f, i, {})
        BY <1>1, <3>1, <3>2, <3>3, UnfoundExposed
      <4>3. QED BY <3>4, <4>1, <4>2
    <3>6. CASE k = Depth
      <4>1. frames'[k].fn = f /\ frames'[k].at = i + 1
        BY <1>1, <1>2, <2>1, <3>1, <3>3, <3>6 DEF GoesOn
      <4>2. PICK now : now = frames'[k].stale
        OBVIOUS
      <4>3. now \subseteq stale \ Renewed(Body[f][i])
        <5>1. Renewed(Body[f][i]) = {This.v}
          BY <1>1, <3>2, <3>3, <3>6 DEF Renewed
        <5>2. frames'[k].stale \subseteq stale \ {This.v}
          BY <3>4, <3>6, AllocStale
        <5>3. QED BY <4>2, <5>1, <5>2
      <4>4. /\ Outer(k)' => stale \subseteq StaleAt[f][i] \cup Exposed(f, i, ToSet(Params[f]))
            /\ ~Outer(k)' /\ left' = "" => stale \subseteq StaleAbove[f][i] \cup Exposed(f, i, {})
        BY <1>1, <1>3, <3>5
      <4>5. QED BY <4>1, <4>2, <4>3, <4>4, StaleOfStep
    <3>7. CASE k # Depth
      <4>1. frames'[k].fn = f /\ frames'[k].at = i /\ k < Depth'
        BY <1>1, <1>2, <2>1, <3>1, <3>3, <3>7 DEF GoesOn, Same
      <4>2. PICK now : now = frames'[k].stale
        OBVIOUS
      <4>3. now \subseteq stale
        BY <3>4, <3>7, <4>2, AllocStale
      <4>4. /\ Outer(k)' => now \subseteq StaleAt[f][i] \cup Exposed(f, i, ToSet(Params[f]))
            /\ ~Outer(k)' /\ left' = "" => now \subseteq StaleAbove[f][i] \cup Exposed(f, i, {})
        BY <1>1, <1>3, <3>5, <4>3
      <4>5. f \notin Mutators
        BY TablesAssumption
      <4>6. QED BY <4>1, <4>2, <4>4, <4>5, StaleNext
    <3>8. QED BY <3>6, <3>7
  <2>4. QED BY <2>2, <2>3, FrameFacts DEF IInv
<1>5. QED BY <1>2, <1>4 DEF AllStale

LEMMA StaleKeeps ==
  ASSUME IInv, IInv', TopInv, StaleInv, [Next]_vars
  PROVE  AllStale'
<1>1. AllStale /\ AllWorking /\ AllCalled /\ Beginning
  BY DEF StaleInv
<1>2. CASE UNCHANGED <<frames, top, left>>
  <2>1. Depth' = Depth
    BY <1>2 DEF Depth
  <2>2. ASSUME NEW k, StaleOK(k)
        PROVE  StaleOK(k)'
    <3>1. Outer(k)' <=> Outer(k)
      BY <1>2 DEF Outer
    <3>2. QED BY <1>2, <2>1, <2>2, <3>1, StaleBelow
  <2>3. QED BY <1>1, <2>1, <2>2 DEF AllStale
<1>3. QED BY <1>1, <1>2, StepMoves, StaleWithin, StaleAlloc, StaleCall, StaleMutatorCalls,
            StaleReturn, StaleMutatorReturns

LEMMA One == (\A k \in 1 .. 1 : k = 1) /\ 1 .. 1 - 1 = {} /\ ~(1 > 1)
  OBVIOUS

(* No call has begun.                                                              *)
LEMMA StaleStarts == Init => StaleInv
<1> SUFFICES ASSUME Init PROVE StaleInv
  OBVIOUS
<1>1. PICK f \in Starters \cup {"eval"} : frames = Started(f) /\ (top = VM => f = "eval")
  <2>1. None # VM
    BY DEF None, VM
  <2>2. QED BY <2>1 DEF Init
<1>2. /\ Depth = 1 /\ \A k \in 1 .. Depth : k = 1
      /\ frames[1].fn = f /\ frames[1].at = 1 /\ frames[1].stale = {} /\ left = ""
  <2>1. frames = <<[fn |-> f, at |-> 1, base |-> 0, stale |-> {}]>> /\ left = ""
    BY <1>1 DEF Started, Init
  <2>2. Depth = 1
    BY <2>1 DEF Depth
  <2>3. QED BY <2>1, <2>2, One
<1>3. AllStale
  BY <1>2 DEF AllStale, StaleOK, OuterStale, InnerStale
<1>4. AllWorking
  BY <1>2, NotInsideFirst DEF AllWorking, Working
<1>5. AllCalled
  <2>1. 1 .. Depth - 1 = {}
    BY <1>2, One
  <2>2. QED BY <2>1 DEF AllCalled
<1>6. Beginning
  BY <1>1, <1>2 DEF Beginning
<1>7. QED BY <1>3, <1>4, <1>5, <1>6 DEF StaleInv

-----------------------------------------------------------------------------------
LEMMA Ordered ==
  ASSUME NEW d \in Nat, d >= 1, NEW t \in Int
  PROVE  /\ ~(d <= t) => t < d
         /\ d # 1 => d > 1
         /\ t \in 1 .. d /\ t < d => d > 1
         /\ d > 1 => d - 1 \in 1 .. d - 1 /\ (d - 1) + 1 = d /\ d - 1 \in 1 .. d
         /\ t < d => t <= d - 1
  OBVIOUS

(* Who is to blame for a stale variable that a function reads.                     *)
LEMMA Blamed ==
  ASSUME IInv, TopInv, StaleInv, InBody, This.op = "read", This.v \in Current.stale, left = ""
  PROVE  <<Caller, Current.fn>> \in Offenders
<1>1. Depth \in Nat /\ Depth >= 1 /\ Current = frames[Depth] /\ Depth \in 1 .. Depth /\ top \in Int
  BY Indices DEF IInv
<1>2. PICK f \in Functions : f = Current.fn
  BY DEF InBody
<1>3. PICK i \in 1 .. Len(Body[f]) : i = Current.at
  BY <1>2, ThisStep DEF IInv, Structure
<1>4. Body[f][i].op = "read" /\ Body[f][i].v \in Current.stale
  BY <1>2, <1>3 DEF This
<1>5. /\ Outer(Depth) => Current.stale \subseteq StaleAt[f][i]
      /\ ~Outer(Depth) => Current.stale \subseteq StaleAbove[f][i]
  BY <1>1, <1>2, <1>3, StaleFacts DEF StaleInv
<1>6. CASE Outer(Depth)
  <2>1. f \in Starters /\ <<"", f>> \in Offenders
    BY <1>4, <1>5, <1>6, StaleAssumption
  <2>2. Depth = 1
    BY <1>1, <1>2, <2>1 DEF IInv, Structure, Calling
  <2>3. ~(Depth > 1)
    BY <2>2, One
  <2>4. QED BY <1>2, <2>1, <2>3 DEF Caller
<1>7. CASE ~Outer(Depth)
  <2>1. ~Fresh(f)
    BY <1>4, <1>5, <1>7 DEF Fresh
  <2>2. top # None /\ top < Depth
    <3>1. top # None /\ ~(Depth <= top)
      BY <1>7 DEF Outer
    <3>2. QED BY <1>1, <3>1, Ordered
  <2>3. top = VM \/ TopAt(top)
    BY <2>2 DEF TopInv, TopRight
  <2>4. Depth > 1
    <3>1. CASE top = VM
      <4>1. frames[1].fn = "eval" /\ "eval" \notin Functions
        BY <3>1, TablesAssumption DEF StaleInv, Beginning
      <4>2. Depth # 1
        BY <1>1, <1>2, <4>1
      <4>3. QED BY <1>1, <4>2, Ordered
    <3>2. CASE TopAt(top)
      <4>1. top \in 1 .. Depth
        BY <3>2 DEF TopAt
      <4>2. QED BY <1>1, <2>2, <4>1, Ordered
    <3>3. QED BY <2>3, <3>1, <3>2
  <2>5. PICK k : k = Depth - 1
    OBVIOUS
  <2>6. k \in 1 .. Depth - 1 /\ k + 1 = Depth /\ k \in 1 .. Depth /\ (top < Depth => top <= k)
    <3>1. /\ Depth - 1 \in 1 .. Depth - 1 /\ (Depth - 1) + 1 = Depth /\ Depth - 1 \in 1 .. Depth
          /\ top < Depth => top <= Depth - 1
      BY <1>1, <2>4, Ordered
    <3>2. QED BY <2>5, <3>1
  <2>7. Caller = frames[k].fn
    BY <2>4, <2>5 DEF Caller
  <2>8. CASE IsFunction(k)
    <3>1. PICK g \in Functions : g = frames[k].fn
      BY <2>8 DEF IsFunction
    <3>2. /\ frames[k].at \in 1 .. Len(Body[g]) /\ Body[g][frames[k].at].op = "call"
          /\ f = Body[g][frames[k].at].f
      BY <1>1, <1>2, <2>6, <2>8, <3>1, CalledByFunction DEF StaleInv
    <3>3. PICK j \in 1 .. Len(Body[g]) : j = frames[k].at
      BY <3>2
    <3>4. <<g, Body[g][j].f>> \in Offenders \/ Fresh(Body[g][j].f)
      BY <3>2, <3>3, StaleAssumption
    <3>5. QED BY <1>2, <2>1, <2>7, <3>1, <3>2, <3>3, <3>4
  <2>9. CASE ~IsFunction(k)
    <3>1. frames[k].fn \in Mutators
      BY <2>6, <2>9, FrameFacts DEF IInv, IsFunction
    <3>2. f \in Calls[frames[k].fn]
      BY <1>1, <1>2, <2>6, <3>1 DEF StaleInv, AllCalled, Called
    <3>3. ~TopAt(top)
      <4> SUFFICES ASSUME TopAt(top) PROVE FALSE
        OBVIOUS
      <4>1. top \in 1 .. Depth /\ frames[top].fn \in Functions /\ top <= k
        BY <2>2, <2>6 DEF TopAt
      <4>2. frames[top].fn \in Mutators
        BY <2>6, <3>1, <4>1 DEF TopInv, ProgramBelow
      <4>3. QED BY <4>1, <4>2, TablesAssumption
    <3>4. frames[k].fn = "eval"
      BY <2>3, <2>6, <2>9, <3>3 DEF StaleInv, Beginning
    <3>5. <<"eval", f>> \in Offenders \/ Fresh(f)
      BY <3>2, <3>4, StaleAssumption
    <3>6. QED BY <1>2, <2>1, <2>7, <3>4, <3>5
  <2>10. QED BY <2>8, <2>9
<1>8. QED BY <1>6, <1>7

LEMMA MisreadBlames ==
  ASSUME TopInv, NEW v, left = "" => <<Caller, Current.fn>> \in Offenders
  PROVE  Misread(v).by = "Lclone_unboxed" \/ <<Misread(v).by, Misread(v).fn>> \in Offenders
<1>1. left # "" => left = "Lclone_unboxed"
  BY DEF TopInv
<1>2. QED BY <1>1 DEF Misread

LEMMA FreshKeeps ==
  ASSUME IInv, TopInv, StaleInv, ReadsFresh, [Next]_vars
  PROVE  ReadsFresh'
<1>1. CASE UNCHANGED vars
  BY <1>1 DEF vars, ReadsFresh, NoMisread
<1>2. CASE misread' = NoMisread
  BY <1>2 DEF ReadsFresh, NoMisread
<1>3. CASE Read
  <2>1. InBody /\ This.op = "read"
    BY <1>3 DEF Read, Doing
  <2>2. CASE This.v \in Current.stale
    <3>1. misread' = Misread(This.v)
      BY <1>3, <2>2 DEF Read
    <3>2. left = "" => <<Caller, Current.fn>> \in Offenders
      BY <2>1, <2>2, Blamed
    <3>3. misread'.by = "Lclone_unboxed" \/ <<misread'.by, misread'.fn>> \in Offenders
      BY <3>1, <3>2, MisreadBlames
    <3>4. QED BY <3>3 DEF ReadsFresh
  <2>3. CASE This.v \notin Current.stale
    BY <1>2, <1>3, <2>3 DEF Read
  <2>4. QED BY <2>2, <2>3
<1>4. CASE MutatorReads
  <2>1. Current.fn \in Mutators /\ Current.stale # {}
    BY <1>4 DEF MutatorReads, Running
  <2>2. left # ""
    <3>1. Current = frames[Depth] /\ Depth \in 1 .. Depth
      BY Indices DEF IInv
    <3>2. StaleOK(Depth)
      BY <3>1 DEF StaleInv, AllStale
    <3>3. QED BY <2>1, <3>1, <3>2 DEF StaleOK
  <2>3. PICK v \in Current.stale : misread' = Misread(v)
    BY <1>4 DEF MutatorReads
  <2>4. misread'.by = "Lclone_unboxed" \/ <<misread'.by, misread'.fn>> \in Offenders
    BY <2>2, <2>3, MisreadBlames
  <2>5. QED BY <2>4 DEF ReadsFresh
<1>5. QED BY <1>1, <1>2, <1>3, <1>4 DEF Next

LEMMA StaleInvKeeps ==
  ASSUME IInv, IInv', TopInv, TopInv', StaleInv, [Next]_vars
  PROVE  StaleInv'
<1>1. AllStale'
  BY StaleKeeps
<1>2. AllWorking'
  BY WorkKeeps DEF StaleInv
<1>3. AllCalled'
  BY CalledKeeps DEF StaleInv
<1>4. Beginning'
  BY BeginningKeeps DEF StaleInv
<1>5. QED BY <1>1, <1>2, <1>3, <1>4 DEF StaleInv

(* Whoever calls whom, and wherever collections happen, no function reads a        *)
(* variable that a collection has left behind, but for the calls in Offenders and  *)
(* for what comes after Lclone of an unboxed value: what the tables StaleAt and    *)
(* StaleAbove say of each body alone holds of all of them together (__pre_gc,      *)
(* __post_gc, push_extra_root, alloc).                                             *)
THEOREM OnlyOffendersMisread == Spec => []ReadsFresh
<1>1. Init => IInv /\ TopInv /\ StaleInv /\ ReadsFresh
  <2>1. Init => ReadsFresh
    BY DEF Init, ReadsFresh
  <2>2. QED BY <2>1, InitHolds, TopStarts, StaleStarts
<1>2. (IInv /\ TopInv /\ StaleInv /\ ReadsFresh) /\ [Next]_vars
        => (IInv /\ TopInv /\ StaleInv /\ ReadsFresh)'
  <2> SUFFICES ASSUME IInv, TopInv, StaleInv, ReadsFresh, [Next]_vars
               PROVE  IInv' /\ TopInv' /\ StaleInv' /\ ReadsFresh'
    OBVIOUS
  <2>1. IInv'
    BY NextKeeps
  <2>2. TopInv'
    BY <2>1, TopKeeps
  <2>3. StaleInv'
    BY <2>1, <2>2, StaleInvKeeps
  <2>4. QED BY <2>1, <2>2, <2>3, FreshKeeps
<1>3. QED BY <1>1, <1>2, PTL DEF Spec
===================================================================================
