------------------------ MODULE StructuredExceptions ------------------------
(***************************************************************************)
(* What Throw, Try and Catch mean in a program's source: an exception      *)
(* leaves blocks and calls, innermost first, until it reaches a Try body   *)
(* one of whose Catch parts names a class of the exception; the first such *)
(* part runs in place of that body.                                        *)
(*                                                                         *)
(* A program point is the path of the Try bodies and Catch blocks it is    *)
(* nested in; the stack holds the point of every active call.              *)
(***************************************************************************)
EXTENDS Naturals, Sequences

CONSTANTS
  Class,      \* exception classes
  BaseClass,  \* the base class of each class
  NoClass,    \* the base class of a root class
  PartLists   \* the lists of Catch classes a Try statement of the program has

VARIABLES
  stack,      \* the program points of the active calls, the running one last
  outcome     \* "running", or how the program ended

vars == <<stack, outcome>>

\* isSubtypeOf: a class and those it inherits from.
Ancestors[c \in Class] ==
  {c} \cup (IF BaseClass[c] = NoClass THEN {} ELSE Ancestors[BaseClass[c]])
IsSubtype(a, b) == b \in Ancestors[a]

TryBody(parts) == [kind |-> "try", parts |-> parts, part |-> 0]
CatchBlock(parts, k) == [kind |-> "catch", parts |-> parts, part |-> k]

Outcomes == {"running", "finished", "unhandled"}

Init == stack = <<<<>>>> /\ outcome = "running"

Top == stack[Len(stack)]
GoTo(point) == stack' = [stack EXCEPT ![Len(stack)] = point]
Goes == outcome = "running" /\ UNCHANGED outcome

EnterTry(parts) == Goes /\ GoTo(Append(Top, TryBody(parts)))

\* A block ends, or Exit or Continue leaves it for an enclosing one.
Leave(depth) == Goes /\ depth < Len(Top) /\ GoTo(SubSeq(Top, 1, depth))

Call == Goes /\ stack' = Append(stack, <<>>)

Return ==
  /\ outcome = "running"
  /\ IF Len(stack) = 1
     THEN outcome' = "finished" /\ UNCHANGED stack
     ELSE stack' = SubSeq(stack, 1, Len(stack) - 1) /\ UNCHANGED outcome

\* Call i, block j of it and Catch part k that would take an exception.
Catches(c, i, j, k) ==
  /\ i \in DOMAIN stack /\ j \in DOMAIN stack[i]
  /\ stack[i][j].kind = "try"
  /\ k \in DOMAIN stack[i][j].parts
  /\ IsSubtype(c, stack[i][j].parts[k])

CatchesIn(c, i, j) == \E k \in 1 .. Len(stack[i][j].parts) : Catches(c, i, j, k)

\* It is the innermost call, the innermost block, the first part.
Innermost(c, i, j, k) ==
  /\ Catches(c, i, j, k)
  /\ \A i2 \in i .. Len(stack) : \A j2 \in DOMAIN stack[i2] :
       (i2 > i \/ j2 > j) => ~CatchesIn(c, i2, j2)
  /\ \A k2 \in 1 .. (k - 1) : ~Catches(c, i, j, k2)

Throw(c) ==
  /\ outcome = "running"
  /\ \/ \E i \in DOMAIN stack : \E j \in DOMAIN stack[i] :
          \E k \in DOMAIN stack[i][j].parts :
            /\ Innermost(c, i, j, k)
            /\ stack' = Append(SubSeq(stack, 1, i - 1),
                               Append(SubSeq(stack[i], 1, j - 1),
                                      CatchBlock(stack[i][j].parts, k)))
            /\ UNCHANGED outcome
     \/ /\ \A i \in DOMAIN stack : \A j \in DOMAIN stack[i] : ~CatchesIn(c, i, j)
        /\ outcome' = "unhandled"
        /\ UNCHANGED stack

Next ==
  \/ \E p \in PartLists : EnterTry(p)
  \/ \E d \in 0 .. Len(Top) : Leave(d)
  \/ Call
  \/ Return
  \/ \E c \in Class : Throw(c)

Spec == Init /\ [][Next]_vars
=============================================================================
