------------------------------- MODULE StackFrames --------------------------------
(***********************************************************************************)
(* What the interpreter's stack must look like for END to find its way back: the   *)
(* properties of StackMachine, as predicates on one word or one frame at a time.   *)
(***********************************************************************************)
EXTENDS StackMachine

(* Every variable has its type; the stack keeps within the block stack::init       *)
(* allocates.                                                                      *)
Objects == [kind : {"string", "array", "sexp", "closure"}, elems : Seq(Word)]
TypeOK ==
  /\ stack \in Seq(Word) /\ Size <= Capacity
  /\ fp \in 0 .. Size /\ ip \in Ips \cup {0}
  /\ globals \in [1 .. NGlobals -> Word]
  /\ heap \in Seq(Objects)
  /\ status \in {"run", "failed", "trapped", "stopped", "astray"}

-----------------------------------------------------------------------------------
(* The predicates below speak of a stack s and a heap h.                           *)

(* A word that a program may hold: an integer or an object of the heap.            *)
ValueOK(h, w) == Plain(w) /\ (w.t = "obj" => w.v \in 1 .. Len(h))

(* A closure of the function with entry e.                                         *)
ClosureFor(h, w, e) ==
  /\ w.t = "obj" /\ w.v \in 1 .. Len(h)
  /\ h[w.v].kind = "closure" /\ h[w.v].elems[1].v = e

(* A closure object begins with the address of a function that captures as many    *)
(* values as the object has left; apart from that a heap object holds values, no   *)
(* address of a variable and no saved register.                                    *)
ObjectOK(h, o) ==
  LET obj == h[o] IN
  /\ obj.kind = "closure" =>
       /\ Len(obj.elems) >= 1 /\ obj.elems[1].v \in DOMAIN Code
       /\ Len(obj.elems) = Code[obj.elems[1].v].ncap + 1
  /\ \A j \in 1 .. Len(obj.elems) :
       ValueOK(h, obj.elems[j]) \/ (obj.kind = "closure" /\ j = 1)

(* The cells of the variables of the activation whose frame is f and that executes *)
(* function code at pc.                                                            *)
VarCells(f, pc) == ((f + 1) .. (f + NLoc(pc))) \cup
                   ((f - 2 - Code[Entry[pc]].argc) .. (f - 3))

(* What lies above the frame: values, and addresses of variables that are still    *)
(* there.                                                                          *)
AddressOK(h, w, f, pc) ==
  \/ w.t = "stk" /\ w.v \in VarCells(f, pc)
  \/ w.t = "glb" /\ w.v \in 1 .. NGlobals
  \/ w.t = "cap" /\ w.v \in 1 .. Len(h) /\ h[w.v].kind = "closure"
                 /\ w.s \in 2 .. Len(h[w.v].elems)
OperandOK(h, w, f, pc) == ValueOK(h, w) \/ AddressOK(h, w, f, pc)

(* The n arguments that lie below position b - 2 are those function e was compiled *)
(* for: CALLC adds the closure as the last one, and closure bodies need it.        *)
ArgumentsOK(s, h, b, n, e) ==
  /\ n \in {Code[e].argc, Code[e].argc + 1}
  /\ Code[e].closure => n = Code[e].argc + 1 /\ ClosureFor(h, s[b - 2 - n], e)

(* The activation with frame f, executing at pc, whose last word is at hi: locals  *)
(* and operands above the frame, no saved register among them.                     *)
ActivationOK(s, h, f, pc, hi) ==
  /\ f \in 1 .. hi /\ f >= 5 /\ s[f].t = "fp"
  /\ pc \in Ips /\ pc # Entry[pc]
  /\ f + NLoc(pc) <= hi
  /\ s[f - 1].v \in 0 .. f - 3
  /\ ArgumentsOK(s, h, f, s[f - 1].v, Entry[pc])
  /\ \A p \in (f + 1) .. hi : OperandOK(h, s[p], f, pc)
  /\ \A p \in VarCells(f, pc) : ValueOK(h, s[p])

(* The words below b are the return address and the argument count that a call     *)
(* pushed, the arguments lie below them, and below those ends an activation with   *)
(* frame q that the return address resumes -- or there is none, and END will leave *)
(* the loop with nothing but main's result on the stack.                           *)
Linked(s, h, b, q) ==
  LET n   == s[b - 1].v
      ret == s[b - 2].v
  IN /\ b >= 5 /\ b - 1 \in 1 .. Len(s)
     /\ s[b - 1].t = "argc" /\ s[b - 2].t = "ip"
     /\ n \in Nat /\ q \in 0 .. b - 3 - n
     /\ \A p \in (b - 2 - n) .. (b - 3) : ValueOK(h, s[p])
     /\ \/ q = 0 /\ ret = 0 /\ b = 5 /\ n = 2
        \/ q # 0 /\ ActivationOK(s, h, q, ret, b - 3 - n)

(* Every saved frame pointer of the stack is linked to the frame it names.         *)
FramesLinked(s, h) ==
  \A b \in 1 .. Len(s) : s[b].t = "fp" => Linked(s, h, b, s[b].v)

(* The registers agree with the stack: in a body the activation at fp reaches to   *)
(* the top; at an entry the call's two words are on top and no frame yet; once the *)
(* loop is left the stack holds main's result and nothing else.                    *)
InBody  == ip \in Ips /\ ip # Entry[ip]
AtEntry == ip \in Ips /\ ip = Entry[ip]
RegistersAgree ==
  /\ InBody => ActivationOK(stack, heap, fp, ip, Size)
  /\ AtEntry => /\ Linked(stack, heap, Size + 1, fp)
                /\ ArgumentsOK(stack, heap, Size + 1, stack[Size].v, ip)
  /\ ip = 0 => fp = 0 /\ Size = 1 /\ ValueOK(heap, stack[1])

(* The calling convention, by which the stack alone tells END where the caller's   *)
(* frame, its operands and its code are (eval_begin, eval_call, eval_callc,        *)
(* eval_end): inductive.                                                           *)
CallingConvention ==
  /\ FramesLinked(stack, heap) /\ RegistersAgree
  /\ \A o \in 1 .. Len(heap) : ObjectOK(heap, o)
  /\ \A g \in 1 .. NGlobals : ValueOK(heap, globals[g])

-----------------------------------------------------------------------------------
(* The address eval_lda took is used by eval_sta later, after any calls in         *)
(* between: it never outlives the activation whose variable it names.              *)
AddressesLive ==
  \A p \in 1 .. Size : stack[p].t = "stk" =>
    /\ stack[p].v \in 1 .. p - 1 /\ Plain(stack[stack[p].v])
    /\ \A b \in 1 .. p : stack[b].t = "fp" => stack[p].v >= b - 2 - stack[b - 1].v

(* Below the arguments of the running activation nothing changes and nothing is    *)
(* popped: whatever a callee does, its caller finds its operands, locals and saved *)
(* words as they were.                                                             *)
KeepsCaller ==
  LET low == fp - 3 - stack[fp - 1].v
  IN  Len(stack') >= low /\ SubSeq(stack', 1, low) = SubSeq(stack, 1, low)
CallerUntouched == [][InBody => KeepsCaller]_vars
===================================================================================
