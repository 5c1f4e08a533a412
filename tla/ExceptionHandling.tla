-------------------------- MODULE ExceptionHandling --------------------------
(***************************************************************************)
(* How exceptions are implemented: the compiler turns a Try statement into *)
(* enter and leave instructions (ebc/codegen/ILGen.cs) and the processor   *)
(* keeps a stack of exception handlers beside its call stack and its       *)
(* operand stack (evm/processor.h, evm/processor.cpp).                     *)
(*                                                                         *)
(* The instruction pointer of a call is abstracted to the path of Try      *)
(* bodies and Catch blocks the instruction is compiled in, together with   *)
(* the number of operands the compiled code has on the operand stack       *)
(* there.  The operand stack itself is its height.                         *)
(***************************************************************************)
EXTENDS Integers, Sequences

CONSTANTS
  Class, BaseClass, NoClass,   \* exception classes, as in StructuredExceptions
  PartLists,   \* the lists of Catch classes a Try statement of the program has
  Features,    \* what its Try bodies contain besides calls and throws
  Node,        \* addresses the elements of call_stack may have
  MaxBlocks, MaxTemps, MaxHeight   \* bounds on nesting, on the operands of an
                                   \* expression and on the operand stack

\* Exit Sub and Return; Exit For, Exit Loop and Continue; a read of an optional
\* parameter without a test that it was given.
ASSUME FeatureAssumption ==
  Features \subseteq {"return", "jump", "missing optional"}
ASSUME PartsAssumption == \A p \in PartLists : p \in Seq(Class)

VARIABLES
  call_stack,  \* active calls: address, instruction pointer, operands beneath
  handlers,    \* the exception handlers, the top one last
  height,      \* height of the operand stack
  status       \* "running", or how the process ended

vars == <<call_stack, handlers, height, status>>

TryBody(parts) == [kind |-> "try", parts |-> parts, part |-> 0]
CatchBlock(parts, k) == [kind |-> "catch", parts |-> parts, part |-> k]

\* isSubtypeOf follows getBaseClass.
Ancestors[c \in Class] ==
  {c} \cup (IF BaseClass[c] = NoClass THEN {} ELSE Ancestors[BaseClass[c]])
\* Mutant: only the class itself.
IsSubtypeOf_Exact(a, b) == a = b
IsSubtypeOf(a, b) == b \in Ancestors[a]

Frame(node, below) == [node |-> node, ip |-> <<>>, temps |-> 0, below |-> below]

Init ==
  /\ \E n \in Node : call_stack = <<Frame(n, 0)>>
  /\ handlers = <<>>
  /\ height = 0
  /\ status = "running"

Back == call_stack[Len(call_stack)]
Pop(s) == SubSeq(s, 1, Len(s) - 1)
RunOn(frame) == call_stack' = [call_stack EXCEPT ![Len(call_stack)] = frame]
AtStatement == status = "running" /\ Back.temps = 0

-----------------------------------------------------------------------------
(***************************************************************************)
(* Try statements.                                                         *)
(***************************************************************************)

\* One enter instruction per Catch part, the last part first, so that the
\* handler of the first part ends on top.
Entered(parts) ==
  [n \in DOMAIN parts |->
     LET k == Len(parts) + 1 - n IN
     [class |-> parts[k], frame |-> Back.node,
      entry |-> Append(Back.ip, CatchBlock(parts, k))]]

EnterTry(parts) ==
  /\ AtStatement
  /\ Len(Back.ip) < MaxBlocks
  /\ handlers' = handlers \o Entered(parts)
  /\ RunOn([Back EXCEPT !.ip = Append(@, TryBody(parts))])
  /\ UNCHANGED <<height, status>>

\* The end of the Try body: one leave instruction per Catch part.  A leave
\* pops whatever handler is on top; popping an empty stack is undefined.
LeaveTry ==
  /\ AtStatement
  /\ Back.ip # <<>>
  /\ LET region == Back.ip[Len(Back.ip)]
         count  == Len(region.parts)
     IN /\ region.kind = "try"
        /\ IF count <= Len(handlers)
           THEN /\ handlers' = SubSeq(handlers, 1, Len(handlers) - count)
                /\ UNCHANGED status
           ELSE /\ status' = "undefined"
                /\ UNCHANGED handlers
  /\ RunOn([Back EXCEPT !.ip = Pop(@)])
  /\ UNCHANGED height

\* The end of a Catch block jumps behind the Try statement.
EndCatch ==
  /\ AtStatement
  /\ Back.ip # <<>>
  /\ Back.ip[Len(Back.ip)].kind = "catch"
  /\ RunOn([Back EXCEPT !.ip = Pop(@)])
  /\ UNCHANGED <<handlers, height, status>>

\* Exit For, Exit Loop and Continue compile to a branch and nothing else.  A
\* Catch block may be left this way too.
MayLeave(path, depth, exit) ==
  exit \in Features \/ \A n \in DOMAIN path : n > depth => path[n].kind = "catch"

Jump(depth) ==
  /\ AtStatement
  /\ depth < Len(Back.ip)
  /\ MayLeave(Back.ip, depth, "jump")
  /\ RunOn([Back EXCEPT !.ip = SubSeq(@, 1, depth)])
  /\ UNCHANGED <<handlers, height, status>>

-----------------------------------------------------------------------------
(***************************************************************************)
(* Expressions and calls.                                                  *)
(***************************************************************************)
Push ==
  /\ status = "running"
  /\ Back.temps < MaxTemps /\ height < MaxHeight
  /\ RunOn([Back EXCEPT !.temps = @ + 1])
  /\ height' = height + 1
  /\ UNCHANGED <<handlers, status>>

Consume ==
  /\ status = "running"
  /\ Back.temps > 0
  /\ RunOn([Back EXCEPT !.temps = @ - 1])
  /\ height' = height - 1
  /\ UNCHANGED <<handlers, status>>

\* A call, its arguments already moved to its frame.
Call(node) ==
  /\ status = "running"
  /\ \A n \in DOMAIN call_stack : call_stack[n].node # node
  /\ call_stack' = Append(call_stack, Frame(node, height))
  /\ UNCHANGED <<handlers, height, status>>

\* ret leaves the result, if there is one, on the operand stack.
Return(results) ==
  /\ status = "running"
  /\ Back.temps = results
  /\ MayLeave(Back.ip, 0, "return")
  /\ IF Len(call_stack) = 1
     THEN /\ status' = "finished"
          /\ UNCHANGED <<call_stack, height>>
     ELSE /\ LET caller == call_stack[Len(call_stack) - 1] IN
             call_stack' = [Pop(call_stack) EXCEPT ![Len(call_stack) - 1] =
                              [caller EXCEPT !.temps = caller.temps + results]]
          /\ UNCHANGED <<height, status>>
  /\ UNCHANGED handlers

-----------------------------------------------------------------------------
(***************************************************************************)
(* throw, and the exceptions instructions raise (handleException).         *)
(***************************************************************************)
Accepts(n, c) == IsSubtypeOf(c, handlers[n].class)

\* The handler search returns: the topmost that accepts the class.  It and
\* those above it are popped.
Found(n, c) ==
  /\ n \in DOMAIN handlers /\ Accepts(n, c)
  /\ \A m \in DOMAIN handlers : m > n => ~Accepts(m, c)

\* The call stack is popped until its back is the frame of the handler; with
\* no such frame the loop pops an empty list, which is undefined.
Unwound(node) ==
  {SubSeq(call_stack, 1, i) :
     i \in {j \in DOMAIN call_stack : call_stack[j].node = node}}

\* Control goes to the Catch block; its first instruction takes the exception
\* handleException pushed.  The operand stack is not cut back.
Resume(frames, entry) ==
  [frames EXCEPT ![Len(frames)] =
     [frames[Len(frames)] EXCEPT !.ip = entry, !.temps = 0]]

\* Mutant: the handler that is found stays on the stack.
HandleException_KeepsFound(c) ==
  \/ \E n \in DOMAIN handlers :
       /\ Found(n, c)
       /\ handlers' = SubSeq(handlers, 1, n)
       /\ \E frames \in Unwound(handlers[n].frame) :
            call_stack' = Resume(frames, handlers[n].entry)
       /\ UNCHANGED status
  \/ /\ \A n \in DOMAIN handlers : ~Accepts(n, c)
     /\ handlers' = <<>>
     /\ status' = "unhandled"
     /\ UNCHANGED call_stack

HandleException(c) ==
  \/ \E n \in DOMAIN handlers :
       /\ Found(n, c)
       /\ handlers' = SubSeq(handlers, 1, n - 1)
       /\ \/ \E frames \in Unwound(handlers[n].frame) :
               /\ call_stack' = Resume(frames, handlers[n].entry)
               /\ UNCHANGED status
          \/ /\ Unwound(handlers[n].frame) = {}
             /\ status' = "undefined"
             /\ UNCHANGED call_stack
  \/ /\ \A n \in DOMAIN handlers : ~Accepts(n, c)
     /\ handlers' = <<>>
     /\ status' = "unhandled"
     /\ UNCHANGED call_stack

\* Mutant: the operand stack is cleared.
Throw_ClearsOperands(c, operands) ==
  /\ status = "running"
  /\ operands <= Back.temps
  /\ HandleException(c)
  /\ height' = 0

\* A throw statement, or an instruction whose check fails after it popped its operands
\* and that does no more then.  An element of a null array and a cast of null are not
\* among these: the process ends there (arrayAccessCheck runs after nullPointerCheck
\* failed, isInstanceOf has no check).
Throw(c, operands) ==
  /\ status = "running"
  /\ operands <= Back.temps
  /\ HandleException(c)
  /\ height' = height - operands

\* ldarg of an optional parameter that was not given ignores the outcome of
\* the check and goes on to push what it reads from the frame now running:
\* the Catch block takes that for the exception, which stays behind.
ReadMissingOptional(c) ==
  /\ status = "running"
  /\ "missing optional" \in Features
  /\ height < MaxHeight
  /\ HandleException(c)
  /\ height' = height + 1

-----------------------------------------------------------------------------
Next ==
  \/ \E p \in PartLists : EnterTry(p)
  \/ LeaveTry
  \/ EndCatch
  \/ \E d \in 0 .. MaxBlocks : Jump(d)
  \/ Push
  \/ Consume
  \/ \E n \in Node : Call(n)
  \/ \E r \in 0 .. 1 : Return(r)
  \/ \E c \in Class, d \in 0 .. MaxTemps : Throw(c, d)
  \/ \E c \in Class : ReadMissingOptional(c)

Spec == Init /\ [][Next]_vars

-----------------------------------------------------------------------------
(***************************************************************************)
(* What exception handling has to guarantee.                               *)
(***************************************************************************)

Region ==
  {TryBody(p) : p \in PartLists} \cup
  {CatchBlock(p, k) : p \in PartLists, k \in 1 .. 9}

\* Every variable keeps its type, and a call is never popped to nothing.
TypeOK ==
  /\ call_stack # <<>>
  /\ \A i \in DOMAIN call_stack :
       /\ call_stack[i].node \in Node
       /\ \A j \in DOMAIN call_stack[i].ip : call_stack[i].ip[j] \in Region
       /\ call_stack[i].temps \in Nat /\ call_stack[i].below \in Nat
  /\ \A n \in DOMAIN handlers :
       /\ handlers[n].class \in Class /\ handlers[n].frame \in Node
       /\ handlers[n].entry # <<>>
  /\ height \in Nat
  /\ status \in {"running", "finished", "unhandled", "undefined"}

-----------------------------------------------------------------------------
\* Part k of block j of call i is a Catch part of a Try body being executed.
OpenPart(i, j, k) ==
  /\ i \in DOMAIN call_stack /\ j \in DOMAIN call_stack[i].ip
  /\ call_stack[i].ip[j].kind = "try"
  /\ k \in DOMAIN call_stack[i].ip[j].parts

\* Handler n was entered for it.
HandlerOf(n, i, j, k) ==
  /\ OpenPart(i, j, k)
  /\ handlers[n].frame = call_stack[i].node
  /\ handlers[n].class = call_stack[i].ip[j].parts[k]
  /\ handlers[n].entry = Append(SubSeq(call_stack[i].ip, 1, j - 1),
                                CatchBlock(call_stack[i].ip[j].parts, k))

Outside(i, j, k, i2, j2, k2) ==
  i < i2 \/ (i = i2 /\ j < j2) \/ (i = i2 /\ j = j2 /\ k > k2)

Ips == {x \in (1 .. Len(call_stack)) \X (1 .. MaxBlocks) :
          x[2] \in DOMAIN call_stack[x[1]].ip}

\* The handlers are exactly those of the Try bodies being executed, from the
\* outermost to the innermost: none is missing, none has outlived its body,
\* and none of a call that has returned is left.  And leave never pops an empty
\* handler stack, and the frame of a handler that takes an exception is on the
\* call stack: either would be undefined.  (And every variable keeps its type.)
HandlersAreOpenParts ==
  /\ TypeOK
  /\ status # "undefined"
  /\ status = "running" =>
      /\ \A n \in DOMAIN handlers : \E i \in DOMAIN call_stack :
           \E j \in DOMAIN call_stack[i].ip : \E k \in DOMAIN call_stack[i].ip[j].parts :
             HandlerOf(n, i, j, k)
      /\ \A i \in DOMAIN call_stack : \A j \in DOMAIN call_stack[i].ip :
           \A k \in DOMAIN call_stack[i].ip[j].parts :
             OpenPart(i, j, k) => \E n \in DOMAIN handlers : HandlerOf(n, i, j, k)
      /\ \A n, m \in DOMAIN handlers : n < m =>
           \A x, y \in Ips :
             \A k \in DOMAIN call_stack[x[1]].ip[x[2]].parts :
             \A l \in DOMAIN call_stack[y[1]].ip[y[2]].parts :
               HandlerOf(n, x[1], x[2], k) /\ HandlerOf(m, y[1], y[2], l)
                 => Outside(x[1], x[2], k, y[1], y[2], l)

\* The operands a call's compiled code counts on are there, above those of
\* its caller: no exception makes a Catch block consume operands of a caller.
NoOperandUnderflow ==
  status = "running" =>
    /\ height >= Back.below + Back.temps
    /\ \A i \in 2 .. Len(call_stack) :
         call_stack[i].below >= call_stack[i-1].below + call_stack[i-1].temps

\* The theorems about handlers hold for programs whose Try statements have one
\* Catch part each and no early exits.
OneCatchEach == \A p \in PartLists : Len(p) = 1
NoEarlyExits == Features \subseteq {"missing optional"}

Source == INSTANCE StructuredExceptions WITH
  stack <- [i \in DOMAIN call_stack |-> call_stack[i].ip], outcome <- status

\* Throw transfers control to the Catch part the source text says.
ImplementsStructuredExceptions == Source!Spec
=============================================================================
