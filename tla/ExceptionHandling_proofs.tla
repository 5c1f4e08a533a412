----------------------- MODULE ExceptionHandling_proofs -----------------------
(***************************************************************************)
(* What the exception handlers guarantee, for every set of classes and     *)
(* calls of any depth.                                                     *)
(*                                                                         *)
(* A Try body being executed is known by its place, the call and the block *)
(* of its path.  The heart of the proofs is that there are functions row   *)
(* and col that give each handler such a place, in lexicographic order,    *)
(* and leave no open Try body out (Match).                                 *)
(***************************************************************************)
EXTENDS ExceptionHandling, TLAPS

RegionType ==
  {r \in [kind : {"try", "catch"}, parts : PartLists, part : Nat] :
     \/ r.kind = "try" /\ r.part = 0
     \/ r.kind = "catch" /\ r.part \in DOMAIN r.parts}
FrameType == [node : Node, ip : Seq(RegionType), temps : Nat, below : Nat]
HandlerType == [class : Class, frame : Node, entry : Seq(RegionType) \ {<<>>}]

\* Calls have addresses of their own, and what one leaves on the operand stack
\* lies above what those below it have there.
Calls(cs) ==
  /\ cs \in Seq(FrameType) /\ cs # <<>>
  /\ \A i, j \in DOMAIN cs : i < j =>
       cs[i].node # cs[j].node /\ cs[j].below >= cs[i].below + cs[i].temps

BasicInv ==
  /\ Calls(call_stack)
  /\ handlers \in Seq(HandlerType)
  /\ height \in Nat
  /\ status \in {"running", "finished", "unhandled", "undefined"}
  /\ status = "running" => height >= Back.below + Back.temps

-----------------------------------------------------------------------------
(***************************************************************************)
(* Types and operands.                                                     *)
(***************************************************************************)
\* The types of the active calls.
LEMMA FrameFacts ==
  ASSUME NEW cs, Calls(cs)
  PROVE  /\ cs \in Seq(FrameType)
         /\ Len(cs) \in Nat \ {0} /\ DOMAIN cs = 1 .. Len(cs)
         /\ \A i \in 1 .. Len(cs) :
              /\ cs[i] \in FrameType
              /\ cs[i].node \in Node /\ cs[i].ip \in Seq(RegionType)
              /\ cs[i].temps \in Nat /\ cs[i].below \in Nat
<1>1. cs \in Seq(FrameType) /\ Len(cs) \in Nat \ {0} /\ DOMAIN cs = 1 .. Len(cs)
  BY DEF Calls
<1>2. \A i \in 1 .. Len(cs) : cs[i] \in FrameType
  BY <1>1
<1> QED
  BY <1>1, <1>2 DEF FrameType

\* The running call goes on with another instruction pointer and other operands.
LEMMA RunOnCalls ==
  ASSUME NEW cs, Calls(cs),
         NEW frame \in FrameType, frame.node = cs[Len(cs)].node,
         frame.below = cs[Len(cs)].below
  PROVE  LET new == [cs EXCEPT ![Len(cs)] = frame]
         IN /\ Calls(new) /\ Len(new) = Len(cs) /\ new[Len(cs)] = frame
            /\ \A i \in 1 .. Len(cs) : i # Len(cs) => new[i] = cs[i]
<1> DEFINE new == [cs EXCEPT ![Len(cs)] = frame]
<1>1. /\ cs \in Seq(FrameType) /\ Len(cs) \in Nat \ {0} /\ DOMAIN cs = 1 .. Len(cs)
  BY FrameFacts
<1>2. /\ new \in Seq(FrameType) /\ Len(new) = Len(cs) /\ DOMAIN new = 1 .. Len(cs)
      /\ new[Len(cs)] = frame /\ \A i \in 1 .. Len(cs) : i # Len(cs) => new[i] = cs[i]
  BY <1>1
<1> HIDE DEF new
<1>3. ASSUME NEW i \in 1 .. Len(cs), NEW j \in 1 .. Len(cs), i < j
      PROVE  new[i].node # new[j].node /\ new[j].below >= new[i].below + new[i].temps
  <2>1. new[i] = cs[i]
    <3>1. i # Len(cs)
      <4>1. Len(cs) \in Nat
        BY <1>1
      <4> QED
        BY <4>1, <1>3
    <3> QED
      BY <3>1, <1>2
  <2>2. new[j].node = cs[j].node /\ new[j].below = cs[j].below
    BY <1>2
  <2>3. cs[i].node # cs[j].node /\ cs[j].below >= cs[i].below + cs[i].temps
    BY <1>1, <1>3 DEF Calls
  <2> QED
    BY <2>1, <2>2, <2>3
<1>4. new # <<>>
  BY <1>1, <1>2
<1> QED
  BY <1>2, <1>3, <1>4 DEF Calls, new

\* A call is made.
LEMMA PushCalls ==
  ASSUME NEW cs, Calls(cs), NEW frame \in FrameType,
         \A i \in 1 .. Len(cs) : cs[i].node # frame.node,
         frame.below >= cs[Len(cs)].below + cs[Len(cs)].temps
  PROVE  /\ Calls(Append(cs, frame))
         /\ Len(Append(cs, frame)) = Len(cs) + 1
         /\ Append(cs, frame)[Len(cs) + 1] = frame
         /\ \A i \in 1 .. Len(cs) : Append(cs, frame)[i] = cs[i]
<1> DEFINE new == Append(cs, frame)
<1>1. /\ cs \in Seq(FrameType) /\ Len(cs) \in Nat \ {0} /\ DOMAIN cs = 1 .. Len(cs)
  BY FrameFacts
<1>2. /\ new \in Seq(FrameType) /\ Len(new) = Len(cs) + 1 /\ DOMAIN new = 1 .. Len(cs) + 1
      /\ new[Len(cs) + 1] = frame /\ \A i \in 1 .. Len(cs) : new[i] = cs[i]
  BY <1>1
<1> HIDE DEF new
<1>3. ASSUME NEW i \in 1 .. Len(cs) + 1, NEW j \in 1 .. Len(cs) + 1, i < j
      PROVE  new[i].node # new[j].node /\ new[j].below >= new[i].below + new[i].temps
  <2>1. i \in 1 .. Len(cs) /\ new[i] = cs[i]
    BY <1>1, <1>2, <1>3
  <2>2. CASE j \in 1 .. Len(cs)
    <3>1. new[j] = cs[j]
      BY <2>2, <1>2
    <3> QED
      BY <1>1, <1>3, <2>1, <2>2, <3>1 DEF Calls
  <2>3. CASE j = Len(cs) + 1
    <3>1. new[j] = frame
      BY <2>3, <1>2
    <3>3. /\ cs[i].temps \in Nat /\ cs[i].below \in Nat
          /\ cs[Len(cs)].below \in Nat /\ cs[Len(cs)].temps \in Nat
      <4>1. Len(cs) \in 1 .. Len(cs)
        BY <1>1
      <4> QED
        BY <2>1, <4>1, FrameFacts
    <3>2. frame.below \in Nat
      BY DEF FrameType
    <3>4. frame.below >= cs[i].below + cs[i].temps
      <4>1. CASE i = Len(cs)
        BY <4>1
      <4>2. CASE i # Len(cs)
        <5>1. Len(cs) \in Nat
          BY <1>1
        <5>3. i < Len(cs) /\ Len(cs) \in 1 .. Len(cs)
          BY <5>1, <4>2, <2>1
        <5>2. cs[Len(cs)].below >= cs[i].below + cs[i].temps
          BY <5>3, <2>1, <1>1 DEF Calls
        <5> QED
          BY <5>2, <3>3, <3>2
      <4> QED
        BY <4>1, <4>2
    <3> QED
      BY <2>1, <3>1, <3>4
  <2> QED
    BY <1>1, <2>2, <2>3
<1>4. new # <<>>
  BY <1>1, <1>2
<1> QED
  BY <1>2, <1>3, <1>4 DEF Calls, new

\* Calls return, or an exception leaves them.
LEMMA CutCalls ==
  ASSUME NEW cs, Calls(cs), NEW n \in 1 .. Len(cs)
  PROVE  /\ Calls(SubSeq(cs, 1, n)) /\ Len(SubSeq(cs, 1, n)) = n
         /\ \A i \in 1 .. n : SubSeq(cs, 1, n)[i] = cs[i]
<1> DEFINE new == SubSeq(cs, 1, n)
<1>1. /\ cs \in Seq(FrameType) /\ Len(cs) \in Nat \ {0} /\ DOMAIN cs = 1 .. Len(cs)
  BY FrameFacts
<1>2. /\ new \in Seq(FrameType) /\ Len(new) = n /\ DOMAIN new = 1 .. n
      /\ \A i \in 1 .. n : new[i] = cs[i] /\ i \in 1 .. Len(cs)
  BY <1>1
<1> HIDE DEF new
<1>3. new # <<>>
  BY <1>2
<1> QED
  BY <1>1, <1>2, <1>3 DEF Calls, new

\* Nobody's operands lie below those of a caller.
LEMMA BackIsTop ==
  ASSUME NEW cs, Calls(cs), NEW i \in 1 .. Len(cs)
  PROVE  cs[Len(cs)].below >= cs[i].below
<1>1. Len(cs) \in Nat \ {0} /\ DOMAIN cs = 1 .. Len(cs)
  BY FrameFacts
<1>2. Len(cs) \in 1 .. Len(cs)
  BY <1>1
<1>3. /\ cs[i].temps \in Nat /\ cs[i].below \in Nat /\ cs[Len(cs)].below \in Nat
  BY <1>2, FrameFacts
<1>4. CASE i = Len(cs)
  BY <1>3, <1>4
<1>5. CASE i # Len(cs)
  <2>1. i < Len(cs)
    <3>1. Len(cs) \in Nat
      BY <1>1
    <3> QED
      BY <3>1, <1>5
  <2>2. cs[Len(cs)].below >= cs[i].below + cs[i].temps
    BY <2>1, <1>1, <1>2 DEF Calls
  <2> QED
    BY <2>2, <1>3
<1> QED
  BY <1>4, <1>5

\* The running call of the invariant.
LEMMA BackFacts ==
  ASSUME BasicInv
  PROVE  /\ Back \in FrameType /\ Back.node \in Node /\ Back.ip \in Seq(RegionType)
         /\ Back.temps \in Nat /\ Back.below \in Nat
         /\ Back = call_stack[Len(call_stack)] /\ Len(call_stack) \in Nat \ {0}
<1>1. Calls(call_stack)
  BY DEF BasicInv
<1>2. Len(call_stack) \in Nat \ {0}
  BY <1>1, FrameFacts
<1>3. Len(call_stack) \in 1 .. Len(call_stack)
  BY <1>2
<1>4. Back = call_stack[Len(call_stack)]
  BY DEF Back
<1> QED
  BY <1>1, <1>2, <1>3, <1>4, FrameFacts

\* Only the running call's instruction pointer changes, or the number of its
\* operands, and the operand stack is as high as that takes.
LEMMA RunOnBasic ==
  ASSUME BasicInv, NEW frame \in FrameType, RunOn(frame),
         frame.node = Back.node, frame.below = Back.below,
         handlers' \in Seq(HandlerType), height' \in Nat,
         status' \in {"running", "finished", "unhandled", "undefined"},
         status' = "running" => height' >= frame.below + frame.temps
  PROVE  BasicInv'
<1>1. Calls(call_stack)
  BY DEF BasicInv
<1>2. call_stack' = [call_stack EXCEPT ![Len(call_stack)] = frame]
  BY DEF RunOn
<1>3. frame.node = call_stack[Len(call_stack)].node
      /\ frame.below = call_stack[Len(call_stack)].below
  BY DEF Back
<1>4. /\ Calls(call_stack') /\ Len(call_stack') = Len(call_stack)
      /\ call_stack'[Len(call_stack)] = frame
  BY <1>1, <1>2, <1>3, RunOnCalls
<1>5. Back' = frame
  BY <1>4 DEF Back
<1> QED
  BY <1>4, <1>5 DEF BasicInv

\* What an update of one field of a call's record leaves alone.
LEMMA FrameUpdates ==
  ASSUME NEW f \in FrameType, NEW ip \in Seq(RegionType), NEW temps \in Nat
  PROVE  /\ [f EXCEPT !.ip = ip] \in FrameType
         /\ [f EXCEPT !.ip = ip].node = f.node
         /\ [f EXCEPT !.ip = ip].ip = ip
         /\ [f EXCEPT !.ip = ip].temps = f.temps
         /\ [f EXCEPT !.ip = ip].below = f.below
         /\ [f EXCEPT !.temps = temps] \in FrameType
         /\ [f EXCEPT !.temps = temps].node = f.node
         /\ [f EXCEPT !.temps = temps].ip = f.ip
         /\ [f EXCEPT !.temps = temps].temps = temps
         /\ [f EXCEPT !.temps = temps].below = f.below
  BY DEF FrameType

\* A path up to one of its blocks.
LEMMA CutPath ==
  ASSUME NEW ip \in Seq(RegionType), NEW d \in Nat, d <= Len(ip)
  PROVE  /\ SubSeq(ip, 1, d) \in Seq(RegionType) /\ Len(SubSeq(ip, 1, d)) = d
         /\ \A j \in 1 .. d : SubSeq(ip, 1, d)[j] = ip[j]
  OBVIOUS

\* The handlers of a Try statement, one for each of its Catch parts.
LEMMA EnteredType ==
  ASSUME BasicInv, NEW parts \in PartLists
  PROVE  /\ Entered(parts) \in Seq(HandlerType)
         /\ Len(Entered(parts)) = Len(parts)
<1>1. parts \in Seq(Class) /\ Len(parts) \in Nat /\ DOMAIN parts = 1 .. Len(parts)
  BY PartsAssumption
<1>2. ASSUME NEW n \in DOMAIN parts
      PROVE  [class |-> parts[Len(parts) + 1 - n], frame |-> Back.node,
              entry |-> Append(Back.ip, CatchBlock(parts, Len(parts) + 1 - n))]
                \in HandlerType
  <2> DEFINE k == Len(parts) + 1 - n
  <2>1. k \in 1 .. Len(parts)
    <3>1. Len(parts) \in Nat /\ n \in 1 .. Len(parts)
      BY <1>1
    <3> QED
      BY <3>1
  <2>2. parts[k] \in Class
    BY <1>1, <2>1
  <2>3. CatchBlock(parts, k) \in RegionType
    BY <1>1, <2>1 DEF CatchBlock, RegionType
  <2> HIDE DEF k
  <2>4. Append(Back.ip, CatchBlock(parts, k)) \in Seq(RegionType) \ {<<>>}
    BY <2>3, BackFacts
  <2>5. [class |-> parts[k], frame |-> Back.node,
         entry |-> Append(Back.ip, CatchBlock(parts, k))] \in HandlerType
    BY <2>2, <2>4, BackFacts DEF HandlerType
  <2> QED
    BY <2>5 DEF k
<1>3. Entered(parts) = [n \in 1 .. Len(parts) |->
          [class |-> parts[Len(parts) + 1 - n], frame |-> Back.node,
           entry |-> Append(Back.ip, CatchBlock(parts, Len(parts) + 1 - n))]]
  BY <1>1 DEF Entered
<1>4. Entered(parts) \in [1 .. Len(parts) -> HandlerType]
  BY <1>1, <1>2, <1>3
<1>5. ASSUME NEW n \in Nat, NEW f \in [1 .. n -> HandlerType]
      PROVE  f \in Seq(HandlerType) /\ Len(f) = n
  BY <1>5
<1> QED
  BY <1>1, <1>4, <1>5

\* Where the elements of a concatenation come from.
LEMMA ConcatenationType ==
  ASSUME NEW S, NEW s \in Seq(S), NEW u \in Seq(S)
  PROVE  /\ s \o u \in Seq(S) /\ Len(s \o u) = Len(s) + Len(u)
         /\ \A n \in 1 .. Len(s) : (s \o u)[n] = s[n]
         /\ \A n \in 1 .. Len(u) : (s \o u)[Len(s) + n] = u[n]
  OBVIOUS

\* An exception: the handler that takes it is in its place, or none takes it.
LEMMA HandleBasic ==
  ASSUME BasicInv, status = "running", NEW c \in Class, HandleException(c),
         height' \in Nat, height' >= Back.below
  PROVE  BasicInv'
<1>1. CASE \A n \in DOMAIN handlers : ~Accepts(n, c)
  <2>1. handlers' = <<>> /\ status' = "unhandled" /\ UNCHANGED call_stack
    BY <1>1 DEF HandleException, Found
  <2> QED
    BY <2>1 DEF BasicInv
<1>2. CASE \E n \in DOMAIN handlers :
             /\ Found(n, c)
             /\ handlers' = SubSeq(handlers, 1, n - 1)
             /\ \/ \E frames \in Unwound(handlers[n].frame) :
                     /\ call_stack' = Resume(frames, handlers[n].entry)
                     /\ UNCHANGED status
                \/ /\ Unwound(handlers[n].frame) = {}
                   /\ status' = "undefined"
                   /\ UNCHANGED call_stack
  <2>1. PICK n \in DOMAIN handlers :
             /\ handlers' = SubSeq(handlers, 1, n - 1)
             /\ \/ \E frames \in Unwound(handlers[n].frame) :
                     /\ call_stack' = Resume(frames, handlers[n].entry)
                     /\ UNCHANGED status
                \/ /\ status' = "undefined"
                   /\ UNCHANGED call_stack
    BY <1>2
  <2>2. handlers \in Seq(HandlerType) /\ n \in 1 .. Len(handlers) /\ Len(handlers) \in Nat
    BY DEF BasicInv
  <2>3. handlers' \in Seq(HandlerType)
    BY <2>1, <2>2
  <2>4. CASE status' = "undefined" /\ UNCHANGED call_stack
    BY <2>3, <2>4 DEF BasicInv
  <2>5. ASSUME NEW frames \in Unwound(handlers[n].frame),
               call_stack' = Resume(frames, handlers[n].entry), UNCHANGED status
        PROVE  BasicInv'
    <3>1. Calls(call_stack) /\ DOMAIN call_stack = 1 .. Len(call_stack)
      BY FrameFacts DEF BasicInv
    <3>2. PICK i \in 1 .. Len(call_stack) : frames = SubSeq(call_stack, 1, i)
      BY <3>1 DEF Unwound
    <3>3. Calls(frames) /\ Len(frames) = i /\ frames[i] = call_stack[i]
      BY <3>1, <3>2, CutCalls
    <3>4. handlers[n].entry \in Seq(RegionType)
      <4>1. handlers[n] \in HandlerType
        BY <2>2
      <4> QED
        BY <4>1 DEF HandlerType
    <3>5. frames[i] \in FrameType
      BY <3>1, <3>3, FrameFacts
    <3> DEFINE frame == [frames[i] EXCEPT !.ip = handlers[n].entry, !.temps = 0]
    <3>6. /\ frame \in FrameType /\ frame.node = frames[i].node
          /\ frame.below = frames[i].below /\ frame.temps = 0
      <4> DEFINE f == frames[i]
      <4> DEFINE ip == handlers[n].entry
      <4> HIDE DEF f, ip
      <4>1. f \in FrameType /\ ip \in Seq(RegionType) /\ 0 \in Nat
        BY <3>4, <3>5 DEF f, ip
      <4>2. LET g == [f EXCEPT !.ip = ip, !.temps = 0]
            IN g \in FrameType /\ g.node = f.node /\ g.below = f.below /\ g.temps = 0
        BY <4>1 DEF FrameType
      <4> QED
        BY <4>2 DEF f, ip
    <3>7. call_stack' = [frames EXCEPT ![Len(frames)] = frame]
      BY <2>5, <3>3 DEF Resume
    <3> HIDE DEF frame
    <3>8. /\ Calls(call_stack') /\ Len(call_stack') = i /\ call_stack'[i] = frame
      <4>1. frame.node = frames[Len(frames)].node /\ frame.below = frames[Len(frames)].below
        BY <3>3, <3>6
      <4>2. LET new == [frames EXCEPT ![Len(frames)] = frame]
            IN Calls(new) /\ Len(new) = Len(frames) /\ new[Len(frames)] = frame
        BY <3>3, <3>6, <4>1, RunOnCalls
      <4> QED
        BY <3>3, <3>7, <4>2
    <3>9. Back' = frame
      BY <3>8 DEF Back
    <3>10. height' >= frame.below + frame.temps
      <4>1. Back.below >= call_stack[i].below
        BY <3>1, BackIsTop DEF Back
      <4>2. Back.below \in Nat /\ call_stack[i].below \in Nat
        BY <3>1, BackFacts, FrameFacts
      <4> QED
        BY <4>1, <4>2, <3>3, <3>6
    <3> QED
      BY <2>3, <2>5, <3>8, <3>9, <3>10 DEF BasicInv
  <2> QED
    BY <2>1, <2>4, <2>5
<1> QED
  BY <1>1, <1>2 DEF HandleException

\* A process starts with one call and no handler.
LEMMA BasicInit == Init => BasicInv
<1> SUFFICES ASSUME Init PROVE BasicInv
  OBVIOUS
<1>1. PICK n \in Node : call_stack = <<Frame(n, 0)>>
  BY DEF Init
<1>2. Frame(n, 0) \in FrameType /\ Frame(n, 0).temps = 0 /\ Frame(n, 0).below = 0
  BY DEF Frame, FrameType
<1>3. call_stack \in Seq(FrameType) /\ Len(call_stack) = 1 /\ call_stack[1] = Frame(n, 0)
  BY <1>1, <1>2
<1>4. Back = Frame(n, 0)
  BY <1>3 DEF Back
<1>5. Calls(call_stack)
  BY <1>3 DEF Calls
<1> QED
  BY <1>2, <1>4, <1>5 DEF Init, BasicInv

\* The types and the order of the operands, action by action.
LEMMA BasicNext == BasicInv /\ [Next]_vars => BasicInv'
<1> SUFFICES ASSUME BasicInv, [Next]_vars PROVE BasicInv'
  OBVIOUS
<1> USE BackFacts
<1>1. /\ Calls(call_stack) /\ handlers \in Seq(HandlerType) /\ height \in Nat
      /\ status \in {"running", "finished", "unhandled", "undefined"}
      /\ status = "running" => height >= Back.below + Back.temps
  BY DEF BasicInv
<1>2. Len(Back.ip) \in Nat /\ Len(handlers) \in Nat
  BY <1>1
<1>3. ASSUME NEW p \in PartLists, EnterTry(p) PROVE BasicInv'
  <2>1. TryBody(p) \in RegionType
    BY DEF TryBody, RegionType
  <2>2. Append(Back.ip, TryBody(p)) \in Seq(RegionType)
    BY <2>1
  <2>3. handlers' \in Seq(HandlerType)
    BY <1>1, <1>3, EnteredType, ConcatenationType DEF EnterTry
  <2> DEFINE frame == [Back EXCEPT !.ip = Append(Back.ip, TryBody(p))]
  <2>4. /\ frame \in FrameType /\ frame.node = Back.node
        /\ frame.below = Back.below /\ frame.temps = Back.temps
    BY <2>2, FrameUpdates
  <2>5. RunOn(frame) /\ UNCHANGED <<height, status>>
    BY <1>3 DEF EnterTry
  <2> HIDE DEF frame
  <2> QED
    BY <1>1, <2>3, <2>4, <2>5, RunOnBasic
<1>4. ASSUME NEW d \in Nat, d <= Len(Back.ip), handlers' \in Seq(HandlerType),
             RunOn([Back EXCEPT !.ip = SubSeq(Back.ip, 1, d)]), UNCHANGED height,
             status' \in {status, "undefined"}
      PROVE  BasicInv'
  <2>2. SubSeq(Back.ip, 1, d) \in Seq(RegionType)
    BY <1>4, CutPath
  <2> DEFINE frame == [Back EXCEPT !.ip = SubSeq(Back.ip, 1, d)]
  <2>4. /\ frame \in FrameType /\ frame.node = Back.node
        /\ frame.below = Back.below /\ frame.temps = Back.temps
    BY <2>2, FrameUpdates
  <2>5. RunOn(frame)
    BY <1>4
  <2> HIDE DEF frame
  <2> QED
    BY <1>1, <1>4, <2>4, <2>5, RunOnBasic
<1>5. CASE LeaveTry
  <2>1. Len(Back.ip) - 1 \in Nat /\ Len(Back.ip) - 1 <= Len(Back.ip)
    BY <1>2, <1>5 DEF LeaveTry
  <2>2. /\ RunOn([Back EXCEPT !.ip = SubSeq(Back.ip, 1, Len(Back.ip) - 1)])
        /\ UNCHANGED height /\ status' \in {status, "undefined"}
    BY <1>5 DEF LeaveTry, Pop
  <2>3. handlers' \in Seq(HandlerType)
    <3> DEFINE count == Len(Back.ip[Len(Back.ip)].parts)
    <3>1. \/ UNCHANGED handlers
          \/ count <= Len(handlers) /\ handlers' = SubSeq(handlers, 1, Len(handlers) - count)
      BY <1>5 DEF LeaveTry
    <3>2. Len(Back.ip) \in 1 .. Len(Back.ip)
      BY <2>1, <1>2
    <3>3. Back.ip[Len(Back.ip)].parts \in PartLists
      BY <3>2 DEF RegionType
    <3>4. count \in Nat
      BY <3>3, PartsAssumption
    <3> HIDE DEF count
    <3> QED
      BY <1>1, <1>2, <3>1, <3>4
  <2> QED
    BY <2>1, <2>2, <2>3, <1>4
<1>6. CASE EndCatch
  <2>1. Len(Back.ip) - 1 \in Nat /\ Len(Back.ip) - 1 <= Len(Back.ip)
    BY <1>2, <1>6 DEF EndCatch
  <2>2. /\ RunOn([Back EXCEPT !.ip = SubSeq(Back.ip, 1, Len(Back.ip) - 1)])
        /\ UNCHANGED <<handlers, height, status>>
    BY <1>6 DEF EndCatch, Pop
  <2> QED
    BY <1>1, <2>1, <2>2, <1>4
<1>7. ASSUME NEW d \in 0 .. MaxBlocks, Jump(d) PROVE BasicInv'
  <2>1. d \in Nat /\ d <= Len(Back.ip)
    BY <1>2, <1>7 DEF Jump
  <2>2. /\ RunOn([Back EXCEPT !.ip = SubSeq(Back.ip, 1, d)])
        /\ UNCHANGED <<handlers, height, status>>
    BY <1>7 DEF Jump
  <2> QED
    BY <1>1, <2>1, <2>2, <1>4
<1>8. ASSUME NEW t \in Nat, NEW h \in Nat, h >= Back.below + t,
             RunOn([Back EXCEPT !.temps = t]), height' = h, UNCHANGED <<handlers, status>>
      PROVE  BasicInv'
  <2> DEFINE frame == [Back EXCEPT !.temps = t]
  <2>4. /\ frame \in FrameType /\ frame.node = Back.node
        /\ frame.below = Back.below /\ frame.temps = t
    BY FrameUpdates
  <2>5. RunOn(frame)
    BY <1>8
  <2> HIDE DEF frame
  <2> QED
    BY <1>1, <1>8, <2>4, <2>5, RunOnBasic
<1>9. CASE Push
  <2>1. /\ RunOn([Back EXCEPT !.temps = Back.temps + 1]) /\ height' = height + 1
        /\ UNCHANGED <<handlers, status>> /\ status = "running"
    BY <1>9 DEF Push
  <2>2. Back.temps + 1 \in Nat /\ height + 1 \in Nat
        /\ height + 1 >= Back.below + (Back.temps + 1)
    BY <1>1, <2>1
  <2> QED
    BY <2>1, <2>2, <1>8
<1>10. CASE Consume
  <2>1. /\ RunOn([Back EXCEPT !.temps = Back.temps - 1]) /\ height' = height - 1
        /\ UNCHANGED <<handlers, status>> /\ status = "running" /\ Back.temps > 0
    BY <1>10 DEF Consume
  <2>2. Back.temps - 1 \in Nat /\ height - 1 \in Nat
        /\ height - 1 >= Back.below + (Back.temps - 1)
    BY <1>1, <2>1
  <2> QED
    BY <2>1, <2>2, <1>8
<1>11. ASSUME NEW n \in Node, Call(n) PROVE BasicInv'
  <2>1. /\ \A i \in DOMAIN call_stack : call_stack[i].node # n
        /\ call_stack' = Append(call_stack, Frame(n, height))
        /\ UNCHANGED <<handlers, height, status>> /\ status = "running"
    BY <1>11 DEF Call
  <2>2. /\ Frame(n, height) \in FrameType /\ Frame(n, height).node = n
        /\ Frame(n, height).below = height /\ Frame(n, height).temps = 0
    BY <1>1 DEF Frame, FrameType
  <2> DEFINE frame == Frame(n, height)
  <2> HIDE DEF frame
  <2>3. frame \in FrameType /\ frame.node = n /\ frame.below = height /\ frame.temps = 0
    BY <2>2 DEF frame
  <2>4. call_stack' = Append(call_stack, frame)
    BY <2>1 DEF frame
  <2>5. DOMAIN call_stack = 1 .. Len(call_stack)
    BY <1>1, FrameFacts
  <2>6. frame.below >= call_stack[Len(call_stack)].below + call_stack[Len(call_stack)].temps
    BY <1>1, <2>1, <2>3
  <2>7. /\ Calls(call_stack') /\ Len(call_stack') = Len(call_stack) + 1
        /\ call_stack'[Len(call_stack) + 1] = frame
    BY <1>1, <2>1, <2>3, <2>4, <2>5, <2>6, PushCalls
  <2>8. Back' = frame
    BY <2>7 DEF Back
  <2> QED
    BY <1>1, <2>1, <2>3, <2>7, <2>8 DEF BasicInv
<1>12. ASSUME NEW r \in 0 .. 1, Return(r) PROVE BasicInv'
  <2>1. CASE Len(call_stack) = 1
    <3>1. status' = "finished" /\ UNCHANGED <<call_stack, height, handlers>>
      BY <1>12, <2>1 DEF Return
    <3> QED
      BY <3>1, <1>1 DEF BasicInv
  <2>2. CASE Len(call_stack) # 1
    <3> DEFINE m == Len(call_stack) - 1
    <3> DEFINE cut == SubSeq(call_stack, 1, m)
    <3> DEFINE frame == [call_stack[m] EXCEPT !.temps = call_stack[m].temps + r]
    <3>1. call_stack' = [cut EXCEPT ![m] = frame] /\ UNCHANGED <<handlers, height, status>>
          /\ status = "running" /\ Back.temps = r
      BY <1>12, <2>2 DEF Return, Pop
    <3>2. m \in 1 .. Len(call_stack) /\ Len(call_stack) = m + 1 /\ m \in Nat
          /\ m < Len(call_stack) /\ Len(call_stack) \in 1 .. Len(call_stack)
      <4>1. \A n \in Nat \ {0} : n # 1 =>
              n - 1 \in 1 .. n /\ n = (n - 1) + 1 /\ n - 1 \in Nat /\ n - 1 < n /\ n \in 1 .. n
        OBVIOUS
      <4>2. Len(call_stack) \in Nat \ {0}
        OBVIOUS
      <4> HIDE BackFacts
      <4> QED
        BY <4>1, <4>2, <2>2
    <3> HIDE DEF m
    <3>3. Calls(cut) /\ Len(cut) = m /\ cut[m] = call_stack[m]
      BY <1>1, <3>2, CutCalls
    <3>4. call_stack[m] \in FrameType /\ call_stack[m].temps \in Nat
          /\ call_stack[m].below \in Nat
      BY <1>1, <3>2, FrameFacts
    <3>5. call_stack[m].temps + r \in Nat
      BY <3>4
    <3>6. /\ frame \in FrameType /\ frame.node = call_stack[m].node
          /\ frame.below = call_stack[m].below /\ frame.temps = call_stack[m].temps + r
      BY <3>4, <3>5, FrameUpdates
    <3> HIDE DEF cut, frame
    <3>7. Calls(call_stack') /\ Len(call_stack') = m /\ call_stack'[m] = frame
      <4>1. frame.node = cut[Len(cut)].node /\ frame.below = cut[Len(cut)].below
        BY <3>3, <3>6
      <4>2. LET new == [cut EXCEPT ![Len(cut)] = frame]
            IN Calls(new) /\ Len(new) = Len(cut) /\ new[Len(cut)] = frame
        BY <3>3, <3>6, <4>1, RunOnCalls
      <4> QED
        BY <3>1, <3>3, <4>2
    <3>8. Back' = frame
      BY <3>7 DEF Back
    <3>9. Back.below >= call_stack[m].below + call_stack[m].temps
      <4>1. m \in DOMAIN call_stack /\ Len(call_stack) \in DOMAIN call_stack
        BY <1>1, <3>2, FrameFacts
      <4> QED
        BY <1>1, <3>2, <4>1 DEF Calls, Back
    <3>10. height' >= frame.below + frame.temps
      BY <1>1, <3>1, <3>4, <3>6, <3>9
    <3> QED
      BY <1>1, <3>1, <3>7, <3>8, <3>10 DEF BasicInv
  <2> QED
    BY <2>1, <2>2
<1>13. ASSUME NEW c \in Class, NEW d \in 0 .. MaxTemps, Throw(c, d) PROVE BasicInv'
  <2>1. status = "running" /\ HandleException(c) /\ d <= Back.temps /\ height' = height - d
    BY <1>13 DEF Throw
  <2>2. height' \in Nat /\ height' >= Back.below
    BY <1>1, <2>1
  <2> QED
    BY <2>1, <2>2, HandleBasic
<1>14. ASSUME NEW c \in Class, ReadMissingOptional(c) PROVE BasicInv'
  <2>1. status = "running" /\ HandleException(c) /\ height' = height + 1
    BY <1>14 DEF ReadMissingOptional
  <2>2. height' \in Nat /\ height' >= Back.below
    BY <1>1, <2>1
  <2> QED
    BY <2>1, <2>2, HandleBasic
<1>15. CASE UNCHANGED vars
  BY <1>15 DEF vars, BasicInv, Back
<1> QED
  BY <1>3, <1>5, <1>6, <1>7, <1>9, <1>10, <1>11, <1>12, <1>13, <1>14, <1>15 DEF Next

\* Whatever is thrown and caught, and however Try bodies are left, the operands
\* a call's compiled code counts on are on the operand stack, above those of
\* its caller (handleException never cuts the operand stack back).
THEOREM OperandsSuffice == Spec => []NoOperandUnderflow
<1>1. BasicInv => NoOperandUnderflow
  <2> SUFFICES ASSUME BasicInv, status = "running" PROVE NoOperandUnderflow
    BY DEF NoOperandUnderflow
  <2>1. Calls(call_stack) /\ height >= Back.below + Back.temps
    BY DEF BasicInv
  <2>2. Len(call_stack) \in Nat /\ DOMAIN call_stack = 1 .. Len(call_stack)
    BY <2>1, FrameFacts
  <2>3. ASSUME NEW i \in 2 .. Len(call_stack)
        PROVE  call_stack[i].below >= call_stack[i - 1].below + call_stack[i - 1].temps
    <3>1. i \in 1 .. Len(call_stack) /\ i - 1 \in 1 .. Len(call_stack) /\ i - 1 < i
      BY <2>2
    <3> QED
      BY <2>1, <2>2, <3>1 DEF Calls
  <2> QED
    BY <2>1, <2>3 DEF NoOperandUnderflow
<1> QED
  BY <1>1, BasicInit, BasicNext, PTL DEF Spec

-----------------------------------------------------------------------------
(***************************************************************************)
(* Handlers and Try bodies, where every Try statement has one Catch part.  *)
(***************************************************************************)
Open(cs, i, j) ==
  i \in 1 .. Len(cs) /\ j \in 1 .. Len(cs[i].ip) /\ cs[i].ip[j].kind = "try"

\* Handler h was entered for block j of call i.
HandlerAt(cs, h, i, j) ==
  /\ Open(cs, i, j)
  /\ h.frame = cs[i].node
  /\ h.class = cs[i].ip[j].parts[1]
  /\ h.entry = Append(SubSeq(cs[i].ip, 1, j - 1), CatchBlock(cs[i].ip[j].parts, 1))

Before(i, j, i2, j2) == i < i2 \/ (i = i2 /\ j < j2)

Match(cs, hs) ==
  /\ \A n \in 1 .. Len(hs) : \E i, j \in Nat : HandlerAt(cs, hs[n], i, j)
  /\ \A i, j \in Nat : Open(cs, i, j) => \E n \in 1 .. Len(hs) : HandlerAt(cs, hs[n], i, j)
  /\ \A n, m \in 1 .. Len(hs) : n < m =>
       \A i, j, i2, j2 \in Nat :
         HandlerAt(cs, hs[n], i, j) /\ HandlerAt(cs, hs[m], i2, j2) => Before(i, j, i2, j2)

\* Two call stacks have the same call at i, up to block j of its path.
Agree(cs, cs2, i, j) ==
  /\ i \in 1 .. Len(cs) /\ i \in 1 .. Len(cs2)
  /\ cs[i].node = cs2[i].node
  /\ j <= Len(cs[i].ip) /\ j <= Len(cs2[i].ip)
  /\ \A k \in 1 .. j : cs[i].ip[k] = cs2[i].ip[k]

\* The type of a program point.
LEMMA Places ==
  ASSUME NEW cs, Calls(cs), NEW i \in 1 .. Len(cs)
  PROVE  cs[i].ip \in Seq(RegionType) /\ Len(cs[i].ip) \in Nat /\ i \in Nat
<1>1. cs[i].ip \in Seq(RegionType)
  BY FrameFacts
<1> QED
  BY <1>1, FrameFacts

\* Paths that agree up to a block have the same beginning.
LEMMA SamePrefix ==
  ASSUME NEW s \in Seq(RegionType), NEW u \in Seq(RegionType), NEW k \in Nat,
         k <= Len(s), k <= Len(u), \A n \in 1 .. k : s[n] = u[n]
  PROVE  SubSeq(s, 1, k) = SubSeq(u, 1, k)
<1>1. /\ SubSeq(s, 1, k) = [n \in 1 .. k |-> s[n]]
      /\ SubSeq(u, 1, k) = [n \in 1 .. k |-> u[n]]
  OBVIOUS
<1> QED
  BY <1>1

\* A handler has one place.
LEMMA OnePlace ==
  ASSUME NEW cs, Calls(cs), NEW h, NEW i \in Nat, NEW j \in Nat,
         NEW i2 \in Nat, NEW j2 \in Nat,
         HandlerAt(cs, h, i, j), HandlerAt(cs, h, i2, j2)
  PROVE  i = i2 /\ j = j2
<1>1. i \in 1 .. Len(cs) /\ i2 \in 1 .. Len(cs) /\ cs[i].node = cs[i2].node
  BY DEF HandlerAt, Open
<1>2. i = i2
  <2>1. DOMAIN cs = 1 .. Len(cs) /\ Len(cs) \in Nat
    BY FrameFacts
  <2>2. ~(i < i2) /\ ~(i2 < i)
    BY <1>1, <2>1 DEF Calls
  <2> QED
    BY <2>2
<1>3. ASSUME NEW k \in Nat, HandlerAt(cs, h, i, k)
      PROVE  Len(h.entry) = k
  <2>1. cs[i].ip \in Seq(RegionType) /\ k \in 1 .. Len(cs[i].ip) /\ Len(cs[i].ip) \in Nat
    BY <1>1, <1>3, Places DEF HandlerAt, Open
  <2>2. k - 1 \in Nat /\ k - 1 <= Len(cs[i].ip)
    <3>1. Len(cs[i].ip) \in Nat /\ k \in 1 .. Len(cs[i].ip)
      BY <2>1
    <3> QED
      BY <3>1
  <2> DEFINE s == SubSeq(cs[i].ip, 1, k - 1)
  <2>3. s \in Seq(RegionType) /\ Len(s) = k - 1
    BY <2>1, <2>2, CutPath
  <2> HIDE DEF s
  <2>4. \A x : Len(Append(s, x)) = k
    BY <2>3
  <2>5. h.entry = Append(s, CatchBlock(cs[i].ip[k].parts, 1))
    BY <1>3 DEF HandlerAt, s
  <2> QED
    BY <2>4, <2>5
<1> QED
  BY <1>2, <1>3

\* A handler's Try body is still there if its call is, up to that block.
LEMMA Carry ==
  ASSUME NEW cs, Calls(cs), NEW cs2, Calls(cs2), NEW h, NEW i \in Nat, NEW j \in Nat,
         Agree(cs, cs2, i, j), HandlerAt(cs, h, i, j)
  PROVE  HandlerAt(cs2, h, i, j)
<1>1. i \in 1 .. Len(cs) /\ i \in 1 .. Len(cs2) /\ j \in 1 .. Len(cs[i].ip)
  BY DEF HandlerAt, Open, Agree
<1>2. /\ cs[i].ip \in Seq(RegionType) /\ Len(cs[i].ip) \in Nat
      /\ cs2[i].ip \in Seq(RegionType) /\ Len(cs2[i].ip) \in Nat
  BY <1>1, Places
<1>3. j \in 1 .. Len(cs2[i].ip) /\ cs[i].ip[j] = cs2[i].ip[j] /\ cs[i].node = cs2[i].node
  BY <1>1, <1>2 DEF Agree
<1>4. SubSeq(cs[i].ip, 1, j - 1) = SubSeq(cs2[i].ip, 1, j - 1)
  <2>1. j - 1 \in Nat /\ j - 1 <= Len(cs[i].ip) /\ j - 1 <= Len(cs2[i].ip)
    BY <1>1, <1>2, <1>3
  <2>2. \A k \in 1 .. (j - 1) : cs[i].ip[k] = cs2[i].ip[k]
    BY <1>1 DEF Agree
  <2> QED
    BY <1>2, <2>1, <2>2, SamePrefix
<1> QED
  BY <1>1, <1>3, <1>4 DEF HandlerAt, Open

\* Calls and blocks are left, and the handlers entered for them.
LEMMA MatchCut ==
  ASSUME NEW cs, Calls(cs), NEW cs2, Calls(cs2), NEW hs \in Seq(HandlerType),
         NEW m \in Nat, m <= Len(hs), Match(cs, hs),
         \A n \in 1 .. m : \A i, j \in Nat :
           HandlerAt(cs, hs[n], i, j) => Agree(cs, cs2, i, j),
         \A i, j \in Nat : Open(cs2, i, j) =>
           /\ Open(cs, i, j)
           /\ \A n \in 1 .. Len(hs) : HandlerAt(cs, hs[n], i, j) => n <= m
  PROVE  Match(cs2, SubSeq(hs, 1, m))
<1> DEFINE hs2 == SubSeq(hs, 1, m)
<1>1. Len(hs2) = m /\ Len(hs) \in Nat /\ \A n \in 1 .. m : hs2[n] = hs[n]
  OBVIOUS
<1>2. \A n \in 1 .. m : n \in 1 .. Len(hs)
  BY <1>1
<1> HIDE DEF hs2
<1>3. ASSUME NEW n \in 1 .. m
      PROVE  \E i, j \in Nat : HandlerAt(cs, hs[n], i, j) /\ HandlerAt(cs2, hs2[n], i, j)
  <2>1. PICK i \in Nat, j \in Nat : HandlerAt(cs, hs[n], i, j)
    BY <1>2 DEF Match
  <2>2. Agree(cs, cs2, i, j)
    BY <2>1
  <2>3. HandlerAt(cs2, hs[n], i, j)
    BY <2>1, <2>2, Carry
  <2> QED
    BY <2>1, <2>3, <1>1
<1>4. ASSUME NEW i \in Nat, NEW j \in Nat, Open(cs2, i, j)
      PROVE  \E n \in 1 .. m : HandlerAt(cs2, hs2[n], i, j)
  <2>1. Open(cs, i, j) /\ \A n \in 1 .. Len(hs) : HandlerAt(cs, hs[n], i, j) => n <= m
    BY <1>4
  <2>2. PICK n \in 1 .. Len(hs) : HandlerAt(cs, hs[n], i, j)
    BY <2>1 DEF Match
  <2>3. n \in 1 .. m
    BY <2>1, <2>2, <1>1
  <2>4. Agree(cs, cs2, i, j)
    BY <2>2, <2>3
  <2>5. HandlerAt(cs2, hs[n], i, j)
    BY <2>2, <2>4, Carry
  <2> QED
    BY <2>3, <2>5, <1>1
<1>5. ASSUME NEW n \in 1 .. m, NEW l \in 1 .. m, n < l,
             NEW i \in Nat, NEW j \in Nat, NEW i2 \in Nat, NEW j2 \in Nat,
             HandlerAt(cs2, hs2[n], i, j), HandlerAt(cs2, hs2[l], i2, j2)
      PROVE  Before(i, j, i2, j2)
  <2>1. PICK a \in Nat, b \in Nat : HandlerAt(cs, hs[n], a, b) /\ HandlerAt(cs2, hs2[n], a, b)
    BY <1>3
  <2>2. PICK a2 \in Nat, b2 \in Nat :
           HandlerAt(cs, hs[l], a2, b2) /\ HandlerAt(cs2, hs2[l], a2, b2)
    BY <1>3
  <2>3. a = i /\ b = j
    BY <1>5, <2>1, OnePlace
  <2>4. a2 = i2 /\ b2 = j2
    BY <1>5, <2>2, OnePlace
  <2>5. Before(a, b, a2, b2)
    BY <1>2, <1>5, <2>1, <2>2 DEF Match
  <2> QED
    BY <2>3, <2>4, <2>5
<1>6. Match(cs2, hs2)
  BY <1>1, <1>3, <1>4, <1>5 DEF Match
<1> QED
  BY <1>6 DEF hs2

\* The blocks that are left hold no Try body: no handler is popped.
LEMMA MatchKept ==
  ASSUME NEW cs, Calls(cs), NEW cs2, Calls(cs2), NEW hs \in Seq(HandlerType),
         Match(cs, hs),
         \A i, j \in Nat : Open(cs, i, j) => Agree(cs, cs2, i, j),
         \A i, j \in Nat : Open(cs2, i, j) => Open(cs, i, j)
  PROVE  Match(cs2, hs)
<1>1. Len(hs) \in Nat /\ Len(hs) <= Len(hs) /\ SubSeq(hs, 1, Len(hs)) = hs
  OBVIOUS
<1>2. \A n \in 1 .. Len(hs) : \A i, j \in Nat :
        HandlerAt(cs, hs[n], i, j) => Agree(cs, cs2, i, j)
  BY DEF HandlerAt
<1>3. \A i, j \in Nat : Open(cs2, i, j) =>
           /\ Open(cs, i, j)
           /\ \A n \in 1 .. Len(hs) : HandlerAt(cs, hs[n], i, j) => n <= Len(hs)
  BY <1>1
<1>4. Match(cs2, SubSeq(hs, 1, Len(hs)))
  BY <1>1, <1>2, <1>3, MatchCut
<1> QED
  BY <1>1, <1>4

-----------------------------------------------------------------------------
(***************************************************************************)
(* Each action keeps the handlers in step with the Try bodies.             *)
(***************************************************************************)
MatchInv ==
  /\ status # "undefined"
  /\ status = "running" => Match(call_stack, handlers)

Steady ==
  /\ BasicInv /\ BasicInv'
  /\ status = "running" /\ Match(call_stack, handlers)

\* What a step of a running process starts from.
LEMMA SteadyFacts ==
  ASSUME Steady
  PROVE  /\ Calls(call_stack) /\ Calls(call_stack') /\ handlers \in Seq(HandlerType)
         /\ Len(call_stack) \in Nat \ {0} /\ DOMAIN call_stack = 1 .. Len(call_stack)
         /\ Len(call_stack) \in 1 .. Len(call_stack)
         /\ Back \in FrameType /\ Back = call_stack[Len(call_stack)]
         /\ Back.ip \in Seq(RegionType) /\ Len(Back.ip) \in Nat
         /\ Match(call_stack, handlers)
<1>1. Calls(call_stack) /\ Calls(call_stack') /\ handlers \in Seq(HandlerType)
  BY DEF Steady, BasicInv
<1>2. Len(call_stack) \in Nat \ {0} /\ DOMAIN call_stack = 1 .. Len(call_stack)
  BY <1>1, FrameFacts
<1>3. Len(call_stack) \in 1 .. Len(call_stack)
  BY <1>2
<1>4. Back \in FrameType /\ Back = call_stack[Len(call_stack)] /\ Back.ip \in Seq(RegionType)
  BY BackFacts DEF Steady
<1> QED
  BY <1>1, <1>2, <1>3, <1>4 DEF Steady

\* Another instruction pointer for the running call, or other operands.
LEMMA RunOnFacts ==
  ASSUME Steady, NEW frame \in FrameType, RunOn(frame),
         frame.node = Back.node, frame.below = Back.below
  PROVE  /\ Len(call_stack') = Len(call_stack)
         /\ call_stack'[Len(call_stack)] = frame
         /\ \A i \in 1 .. Len(call_stack) :
              i # Len(call_stack) => call_stack'[i] = call_stack[i]
         /\ \A i \in 1 .. Len(call_stack) : call_stack'[i].node = call_stack[i].node
<1>1. call_stack' = [call_stack EXCEPT ![Len(call_stack)] = frame]
  BY DEF RunOn
<1>2. frame.node = call_stack[Len(call_stack)].node
      /\ frame.below = call_stack[Len(call_stack)].below
  BY DEF Back
<1>3. LET new == [call_stack EXCEPT ![Len(call_stack)] = frame]
      IN /\ Len(new) = Len(call_stack) /\ new[Len(call_stack)] = frame
         /\ \A i \in 1 .. Len(call_stack) :
              i # Len(call_stack) => new[i] = call_stack[i]
  BY <1>2, SteadyFacts, RunOnCalls
<1> QED
  BY <1>1, <1>2, <1>3

\* No call, block or handler changes.
LEMMA SamePoints ==
  ASSUME Steady, UNCHANGED handlers, Len(call_stack') = Len(call_stack),
         \A i \in 1 .. Len(call_stack) :
           call_stack'[i].node = call_stack[i].node /\ call_stack'[i].ip = call_stack[i].ip
  PROVE  Match(call_stack', handlers')
<1> DEFINE cs == call_stack
<1> DEFINE cs2 == call_stack'
<1>1. /\ Calls(cs) /\ Calls(cs2) /\ handlers \in Seq(HandlerType) /\ Match(cs, handlers)
      /\ Len(cs2) = Len(cs)
      /\ \A i \in 1 .. Len(cs) : cs2[i].node = cs[i].node /\ cs2[i].ip = cs[i].ip
  BY SteadyFacts
<1> HIDE DEF cs, cs2
<1>2. ASSUME NEW i \in Nat, NEW j \in Nat, Open(cs, i, j) PROVE Agree(cs, cs2, i, j)
  <2>1. i \in 1 .. Len(cs) /\ j \in 1 .. Len(cs[i].ip) /\ Len(cs[i].ip) \in Nat
    BY <1>1, <1>2, Places DEF Open
  <2>2. j <= Len(cs[i].ip)
    BY <2>1
  <2> QED
    BY <1>1, <2>1, <2>2 DEF Agree
<1>3. ASSUME NEW i \in Nat, NEW j \in Nat, Open(cs2, i, j) PROVE Open(cs, i, j)
  BY <1>1, <1>3 DEF Open
<1>4. Match(cs2, handlers)
  BY <1>1, <1>2, <1>3, MatchKept
<1> QED
  BY <1>4 DEF cs2

\* The running call leaves blocks: what stays open and what does not.
LEMMA CutBack ==
  ASSUME Steady, NEW d \in Nat, d <= Len(Back.ip),
         RunOn([Back EXCEPT !.ip = SubSeq(Back.ip, 1, d)])
  PROVE  /\ \A i, j \in Nat :
              Open(call_stack, i, j) /\ (i = Len(call_stack) => j <= d)
                => Agree(call_stack, call_stack', i, j)
         /\ \A i, j \in Nat : Open(call_stack', i, j) =>
              Open(call_stack, i, j) /\ (i = Len(call_stack) => j <= d)
<1> DEFINE frame == [Back EXCEPT !.ip = SubSeq(Back.ip, 1, d)]
<1>1. /\ SubSeq(Back.ip, 1, d) \in Seq(RegionType) /\ Len(SubSeq(Back.ip, 1, d)) = d
      /\ \A k \in 1 .. d : SubSeq(Back.ip, 1, d)[k] = Back.ip[k]
  BY SteadyFacts, CutPath
<1>2. /\ frame \in FrameType /\ frame.node = Back.node
      /\ frame.below = Back.below /\ frame.ip = SubSeq(Back.ip, 1, d)
  BY <1>1, SteadyFacts, FrameUpdates
<1>3. RunOn(frame)
  OBVIOUS
<1> HIDE DEF frame
<1> DEFINE cs == call_stack
<1> DEFINE cs2 == call_stack'
<1> DEFINE L == Len(call_stack)
<1>4. /\ Calls(cs) /\ Calls(cs2) /\ L = Len(cs) /\ L \in Nat /\ Len(cs2) = L
      /\ cs2[L] = frame /\ \A i \in 1 .. L : i # L => cs2[i] = cs[i]
      /\ \A i \in 1 .. L : cs2[i].node = cs[i].node
      /\ cs[L].ip = Back.ip /\ Len(Back.ip) \in Nat
  <2>1. /\ Len(cs2) = L /\ cs2[L] = frame /\ \A i \in 1 .. L : i # L => cs2[i] = cs[i]
        /\ \A i \in 1 .. L : cs2[i].node = cs[i].node
    BY <1>2, <1>3, RunOnFacts
  <2> QED
    BY <2>1, SteadyFacts
<1> HIDE DEF cs, cs2, L
<1>5. ASSUME NEW i \in Nat, NEW j \in Nat, Open(cs, i, j), i = L => j <= d
      PROVE  Agree(cs, cs2, i, j)
  <2>1. i \in 1 .. L /\ j \in 1 .. Len(cs[i].ip) /\ Len(cs[i].ip) \in Nat
    BY <1>4, <1>5, Places DEF Open
  <2>2. j <= Len(cs[i].ip)
    BY <2>1
  <2>3. CASE i = L
    <3>1. cs2[i].ip = SubSeq(Back.ip, 1, d) /\ Len(cs2[i].ip) = d /\ j <= d
      BY <2>3, <1>1, <1>2, <1>4, <1>5
    <3>2. \A k \in 1 .. j : k \in 1 .. d
      BY <3>1
    <3>3. \A k \in 1 .. j : cs[i].ip[k] = cs2[i].ip[k]
      BY <3>1, <3>2, <2>3, <1>1, <1>4
    <3> QED
      BY <1>4, <2>1, <2>2, <3>1, <3>3 DEF Agree
  <2>4. CASE i # L
    BY <2>1, <2>2, <2>4, <1>4 DEF Agree
  <2> QED
    BY <2>3, <2>4
<1>6. ASSUME NEW i \in Nat, NEW j \in Nat, Open(cs2, i, j)
      PROVE  Open(cs, i, j) /\ (i = L => j <= d)
  <2>1. i \in 1 .. L
    BY <1>4, <1>6 DEF Open
  <2>2. CASE i = L
    <3>1. cs2[i].ip = SubSeq(Back.ip, 1, d) /\ Len(cs2[i].ip) = d
      BY <2>2, <1>1, <1>2, <1>4
    <3>2. j \in 1 .. d
      BY <1>6, <3>1 DEF Open
    <3>3. j \in 1 .. Len(Back.ip) /\ j <= d
      BY <3>2, <1>4
    <3>4. cs2[i].ip[j] = cs[i].ip[j]
      BY <3>1, <3>2, <2>2, <1>1, <1>4
    <3> QED
      BY <1>4, <1>6, <2>1, <2>2, <3>3, <3>4 DEF Open
  <2>3. CASE i # L
    BY <2>1, <2>3, <1>4, <1>6 DEF Open
  <2> QED
    BY <2>2, <2>3
<1> QED
  BY <1>5, <1>6 DEF cs, cs2, L

\* Only Catch blocks are left: the handlers stay.
LEMMA LeaveCatches ==
  ASSUME Steady, NEW d \in Nat, d <= Len(Back.ip), UNCHANGED handlers,
         RunOn([Back EXCEPT !.ip = SubSeq(Back.ip, 1, d)]),
         \A j \in 1 .. Len(Back.ip) : j > d => Back.ip[j].kind = "catch"
  PROVE  Match(call_stack', handlers')
<1>1. \A i, j \in Nat : Open(call_stack, i, j) => Agree(call_stack, call_stack', i, j)
  <2> SUFFICES ASSUME NEW i \in Nat, NEW j \in Nat, Open(call_stack, i, j)
               PROVE  i = Len(call_stack) => j <= d
    BY CutBack
  <2>1. i = Len(call_stack) => j \in 1 .. Len(Back.ip) /\ Back.ip[j].kind = "try"
    BY SteadyFacts DEF Open
  <2> QED
    BY <2>1
<1>2. \A i, j \in Nat : Open(call_stack', i, j) => Open(call_stack, i, j)
  BY CutBack
<1>3. Match(call_stack', handlers)
  BY <1>1, <1>2, SteadyFacts, MatchKept
<1> QED
  BY <1>3

\* The end of a Try body: its handler is on top of the others.
LEMMA LeaveTryMatch ==
  ASSUME OneCatchEach, Steady, LeaveTry
  PROVE  MatchInv'
<1> DEFINE L == Len(call_stack)
<1> DEFINE J == Len(Back.ip)
<1> DEFINE N == Len(handlers)
<1>1. /\ RunOn([Back EXCEPT !.ip = SubSeq(Back.ip, 1, J - 1)])
      /\ Back.ip # <<>> /\ Back.ip[J].kind = "try"
  BY DEF LeaveTry, Pop
<1>2. J \in 1 .. J /\ J - 1 \in Nat /\ J - 1 <= J /\ J \in Nat
  BY <1>1, SteadyFacts
<1>3. Len(Back.ip[J].parts) = 1
  <2>1. Back.ip[J] \in RegionType
    BY <1>2, SteadyFacts
  <2> QED
    BY <2>1 DEF RegionType, OneCatchEach
<1>4. Open(call_stack, L, J)
  BY <1>1, <1>2, SteadyFacts DEF Open
<1>5. N \in Nat /\ L \in Nat
  BY SteadyFacts
<1>6. PICK n \in 1 .. N : HandlerAt(call_stack, handlers[n], L, J)
  BY <1>2, <1>4, <1>5, SteadyFacts DEF Match
<1>7. n = N
  <2> SUFFICES ASSUME n # N PROVE FALSE
    OBVIOUS
  <2>1. n < N /\ N \in 1 .. N
    BY <1>5, <1>6
  <2>2. PICK i \in Nat, j \in Nat : HandlerAt(call_stack, handlers[N], i, j)
    BY <2>1, SteadyFacts DEF Match
  <2>3. Before(L, J, i, j)
    BY <1>2, <1>5, <1>6, <2>1, <2>2, SteadyFacts DEF Match
  <2>4. i \in 1 .. L /\ j \in 1 .. Len(call_stack[i].ip)
    BY <2>2 DEF HandlerAt, Open
  <2>5. i = L => j \in 1 .. J
    BY <2>4, SteadyFacts
  <2> HIDE DEF L, J
  <2>6. ~(L < i) /\ (i = L => ~(J < j))
    BY <1>2, <1>5, <2>4, <2>5
  <2> QED
    BY <2>3, <2>6 DEF Before
<1>8. 1 <= N /\ N \in 1 .. N
  BY <1>5, <1>6
<1>9. handlers' = SubSeq(handlers, 1, N - 1) /\ UNCHANGED status
  BY <1>3, <1>8 DEF LeaveTry
<1>10. N - 1 \in Nat /\ N - 1 <= N /\ \A m \in 1 .. (N - 1) : m \in 1 .. N /\ m < N
  BY <1>5, <1>8
<1>11. ASSUME NEW m \in 1 .. (N - 1), NEW i \in Nat, NEW j \in Nat,
              HandlerAt(call_stack, handlers[m], i, j)
       PROVE  Agree(call_stack, call_stack', i, j)
  <2>1. m \in 1 .. N /\ m < N
    BY <1>10, <1>11
  <2>2. Before(i, j, L, J)
    BY <1>2, <1>5, <1>6, <1>7, <1>8, <1>11, <2>1, SteadyFacts DEF Match
  <2>3. i = L => j <= J - 1
    <3> HIDE DEF L, J
    <3> QED
      BY <1>2, <1>5, <2>2 DEF Before
  <2>4. Open(call_stack, i, j)
    BY <1>11 DEF HandlerAt
  <2> QED
    BY <1>1, <1>2, <2>3, <2>4, CutBack
<1>12. ASSUME NEW i \in Nat, NEW j \in Nat, Open(call_stack', i, j)
       PROVE  /\ Open(call_stack, i, j)
              /\ \A m \in 1 .. N : HandlerAt(call_stack, handlers[m], i, j) => m <= N - 1
  <2>1. Open(call_stack, i, j) /\ (i = L => j <= J - 1)
    BY <1>1, <1>2, <1>12, CutBack
  <2>2. ASSUME NEW m \in 1 .. N, HandlerAt(call_stack, handlers[m], i, j)
        PROVE  m <= N - 1
    <3>1. m # N
      <4> SUFFICES ASSUME m = N PROVE FALSE
        OBVIOUS
      <4>1. i = L /\ j = J
        BY <1>2, <1>5, <1>6, <1>7, <2>2, SteadyFacts, OnePlace
      <4> HIDE DEF L, J
      <4> QED
        BY <1>2, <2>1, <4>1
    <3> HIDE DEF N
    <3> QED
      BY <1>5, <3>1
  <2> QED
    BY <2>1, <2>2
<1>13. Match(call_stack', SubSeq(handlers, 1, N - 1))
  BY <1>10, <1>11, <1>12, SteadyFacts, MatchCut
<1> QED
  BY <1>9, <1>13 DEF MatchInv, Steady

\* A Try statement begins: its handler is entered on top.
LEMMA EnterTryMatch ==
  ASSUME OneCatchEach, Steady, NEW p \in PartLists, EnterTry(p)
  PROVE  MatchInv'
<1> DEFINE cs == call_stack
<1> DEFINE cs2 == call_stack'
<1> DEFINE L == Len(call_stack)
<1> DEFINE N == Len(handlers)
<1> DEFINE J == Len(Back.ip) + 1
<1> DEFINE path == Append(Back.ip, TryBody(p))
<1> DEFINE frame == [Back EXCEPT !.ip = path]
<1> DEFINE h == [class |-> p[1], frame |-> Back.node,
                 entry |-> Append(Back.ip, CatchBlock(p, 1))]
<1>1. RunOn(frame) /\ handlers' = handlers \o Entered(p) /\ status' = status
  BY DEF EnterTry
<1>2. Len(p) = 1 /\ DOMAIN p = {1} /\ p \in Seq(Class)
  <2>1. Len(p) = 1 /\ p \in Seq(Class)
    BY PartsAssumption DEF OneCatchEach
  <2> QED
    BY <2>1
<1>3. Entered(p) = <<h>>
  <2>1. Entered(p) = [n \in {1} |-> h]
    BY <1>2 DEF Entered
  <2> HIDE DEF h
  <2> QED
    BY <2>1
<1>4. /\ path \in Seq(RegionType) /\ Len(path) = J /\ path[J] = TryBody(p)
      /\ \A k \in 1 .. (J - 1) : path[k] = Back.ip[k]
      /\ J \in Nat /\ J \in 1 .. J /\ Len(Back.ip) = J - 1 /\ J - 1 \in Nat
  <2>1. TryBody(p) \in RegionType
    BY DEF TryBody, RegionType
  <2> QED
    BY <2>1, SteadyFacts
<1>5. SubSeq(path, 1, J - 1) = Back.ip
  <2>1. SubSeq(path, 1, J - 1) = SubSeq(Back.ip, 1, J - 1)
    <3> HIDE DEF path, J
    <3>1. J - 1 <= Len(path) /\ J - 1 <= Len(Back.ip)
      BY <1>4
    <3> QED
      BY <1>4, <3>1, SteadyFacts, SamePrefix
  <2>2. SubSeq(Back.ip, 1, Len(Back.ip)) = Back.ip
    BY SteadyFacts
  <2> HIDE DEF path, J
  <2> QED
    BY <1>4, <2>1, <2>2
<1>6. /\ frame \in FrameType /\ frame.node = Back.node
      /\ frame.below = Back.below /\ frame.ip = path
  BY <1>4, SteadyFacts, FrameUpdates
<1> HIDE DEF path, frame, J
<1>7. /\ Len(cs2) = L /\ cs2[L] = frame /\ \A i \in 1 .. L : i # L => cs2[i] = cs[i]
      /\ \A i \in 1 .. L : cs2[i].node = cs[i].node
  BY <1>1, <1>6, RunOnFacts
<1>8. /\ Calls(cs) /\ Calls(cs2) /\ L = Len(cs) /\ L \in Nat /\ L \in 1 .. L
      /\ cs[L] = Back /\ N \in Nat /\ Match(cs, handlers)
  BY SteadyFacts
<1>9. /\ Len(handlers') = N + 1 /\ handlers'[N + 1] = h
      /\ \A n \in 1 .. N : handlers'[n] = handlers[n]
  <2>1. handlers \in Seq(HandlerType) /\ \A x : Len(handlers \o <<x>>) = N + 1
          /\ (handlers \o <<x>>)[N + 1] = x
          /\ \A n \in 1 .. N : (handlers \o <<x>>)[n] = handlers[n]
    BY SteadyFacts
  <2> HIDE DEF N, h
  <2> QED
    BY <1>1, <1>3, <2>1
<1>10. HandlerAt(cs2, h, L, J)
  <2>1. cs2[L].ip = path /\ cs2[L].node = Back.node
    BY <1>6, <1>7
  <2>2. path[J].kind = "try" /\ path[J].parts = p
    BY <1>4 DEF TryBody
  <2>3. Open(cs2, L, J)
    BY <1>4, <1>7, <1>8, <2>1, <2>2 DEF Open
  <2>4. h.frame = Back.node /\ h.class = p[1]
        /\ h.entry = Append(SubSeq(path, 1, J - 1), CatchBlock(p, 1))
    BY <1>5
  <2> HIDE DEF cs2, L, h
  <2> QED
    BY <2>1, <2>2, <2>3, <2>4 DEF HandlerAt
<1> HIDE DEF cs, cs2, L, N, h
<1>11. ASSUME NEW i \in Nat, NEW j \in Nat, Open(cs, i, j)
       PROVE  Agree(cs, cs2, i, j) /\ Before(i, j, L, J)
  <2>1. i \in 1 .. L /\ j \in 1 .. Len(cs[i].ip) /\ Len(cs[i].ip) \in Nat
    BY <1>8, <1>11, Places DEF Open
  <2>2. CASE i = L
    <3>1. cs[i].ip = Back.ip /\ cs2[i].ip = path
      BY <2>2, <1>6, <1>7, <1>8
    <3>2. j \in 1 .. (J - 1)
      BY <2>1, <3>1, <1>4
    <3>3. j <= Len(cs[i].ip) /\ j <= Len(cs2[i].ip) /\ j < J
      BY <3>1, <3>2, <1>4
    <3>4. \A k \in 1 .. j : k \in 1 .. (J - 1)
      BY <3>2, <1>4
    <3>5. \A k \in 1 .. j : cs[i].ip[k] = cs2[i].ip[k]
      BY <3>1, <3>4, <1>4
    <3> QED
      BY <1>7, <1>8, <2>1, <2>2, <3>3, <3>5 DEF Agree, Before
  <2>3. CASE i # L
    <3>1. i < L
      BY <2>1, <2>3, <1>8
    <3>2. j <= Len(cs[i].ip)
      BY <2>1
    <3> QED
      BY <1>7, <1>8, <2>1, <2>3, <3>1, <3>2 DEF Agree, Before
  <2> QED
    BY <2>2, <2>3
<1>12. ASSUME NEW i \in Nat, NEW j \in Nat, Open(cs2, i, j)
       PROVE  Open(cs, i, j) \/ (i = L /\ j = J)
  <2>1. i \in 1 .. L
    BY <1>7, <1>12 DEF Open
  <2>2. CASE i = L
    <3>1. cs[i].ip = Back.ip /\ cs2[i].ip = path
      BY <2>2, <1>6, <1>7, <1>8
    <3>2. j \in 1 .. J /\ path[j].kind = "try"
      BY <1>12, <3>1, <1>4 DEF Open
    <3>3. j # J => j \in 1 .. (J - 1)
      BY <3>2, <1>4
    <3>4. j # J => Back.ip[j].kind = "try" /\ j \in 1 .. Len(Back.ip)
      BY <3>2, <3>3, <1>4
    <3> QED
      BY <2>1, <2>2, <3>1, <3>4, <1>8 DEF Open
  <2>3. CASE i # L
    BY <2>1, <2>3, <1>7, <1>8, <1>12 DEF Open
  <2> QED
    BY <2>2, <2>3
<1>13. ASSUME NEW n \in 1 .. N
       PROVE  \E i, j \in Nat : HandlerAt(cs2, handlers'[n], i, j) /\ Before(i, j, L, J)
  <2>1. PICK i \in Nat, j \in Nat : HandlerAt(cs, handlers[n], i, j)
    BY <1>8 DEF Match, N
  <2>2. Agree(cs, cs2, i, j) /\ Before(i, j, L, J)
    BY <2>1, <1>11 DEF HandlerAt
  <2>3. HandlerAt(cs2, handlers[n], i, j)
    BY <1>8, <2>1, <2>2, Carry
  <2> QED
    BY <1>9, <2>2, <2>3
<1>14. \A n \in 1 .. (N + 1) : n = N + 1 \/ n \in 1 .. N
  BY <1>8
<1>15. 1 .. N \subseteq 1 .. (N + 1) /\ N + 1 \in 1 .. (N + 1)
  BY <1>8
<1>16. L \in Nat /\ J \in Nat
  BY <1>4, <1>8
<1>17. \A n \in 1 .. (N + 1) : \E i, j \in Nat : HandlerAt(cs2, handlers'[n], i, j)
  BY <1>9, <1>10, <1>13, <1>14, <1>16
<1>18. ASSUME NEW i \in Nat, NEW j \in Nat, Open(cs2, i, j)
       PROVE  \E n \in 1 .. (N + 1) : HandlerAt(cs2, handlers'[n], i, j)
  <2>1. CASE Open(cs, i, j)
    <3>1. PICK n \in 1 .. N : HandlerAt(cs, handlers[n], i, j)
      BY <1>8, <2>1 DEF Match, N
    <3>2. HandlerAt(cs2, handlers[n], i, j)
      BY <1>8, <1>11, <2>1, <3>1, Carry
    <3> QED
      BY <1>9, <1>15, <3>2
  <2>2. CASE i = L /\ j = J
    BY <1>9, <1>10, <1>15, <2>2
  <2> QED
    BY <1>12, <1>18, <2>1, <2>2
<1>19. ASSUME NEW n \in 1 .. (N + 1), NEW m \in 1 .. (N + 1), n < m,
              NEW i \in Nat, NEW j \in Nat, NEW i2 \in Nat, NEW j2 \in Nat,
              HandlerAt(cs2, handlers'[n], i, j), HandlerAt(cs2, handlers'[m], i2, j2)
       PROVE  Before(i, j, i2, j2)
  <2>1. n \in 1 .. N
    BY <1>8, <1>19
  <2>2. CASE m = N + 1
    <3>1. PICK a \in Nat, b \in Nat :
             HandlerAt(cs2, handlers'[n], a, b) /\ Before(a, b, L, J)
      BY <1>13, <2>1
    <3>2. a = i /\ b = j
      BY <1>8, <1>19, <3>1, OnePlace
    <3>3. HandlerAt(cs2, handlers'[m], L, J)
      BY <1>9, <1>10, <2>2
    <3>4. L = i2 /\ J = j2
      BY <1>8, <1>16, <1>19, <3>3, OnePlace
    <3> QED
      BY <3>1, <3>2, <3>4
  <2>3. CASE m \in 1 .. N
    <3>1. PICK a \in Nat, b \in Nat : HandlerAt(cs, handlers[n], a, b)
      BY <1>8, <2>1 DEF Match, N
    <3>2. PICK a2 \in Nat, b2 \in Nat : HandlerAt(cs, handlers[m], a2, b2)
      BY <1>8, <2>3 DEF Match, N
    <3>3. HandlerAt(cs2, handlers'[n], a, b) /\ HandlerAt(cs2, handlers'[m], a2, b2)
      <4>1. Agree(cs, cs2, a, b) /\ Agree(cs, cs2, a2, b2)
        BY <3>1, <3>2, <1>11 DEF HandlerAt
      <4> QED
        BY <1>8, <1>9, <2>1, <2>3, <3>1, <3>2, <4>1, Carry
    <3>4. a = i /\ b = j /\ a2 = i2 /\ b2 = j2
      BY <1>8, <1>19, <3>3, OnePlace
    <3>5. Before(a, b, a2, b2)
      BY <1>8, <1>19, <2>1, <2>3, <3>1, <3>2 DEF Match, N
    <3> QED
      BY <3>4, <3>5
  <2> QED
    BY <1>14, <2>2, <2>3
<1>20. Match(cs2, handlers')
  BY <1>9, <1>17, <1>18, <1>19 DEF Match
<1> QED
  BY <1>1, <1>20 DEF MatchInv, Steady, cs2

\* A new call has no Try body yet.
LEMMA CallMatch ==
  ASSUME Steady, NEW node \in Node, Call(node)
  PROVE  MatchInv'
<1> DEFINE cs == call_stack
<1> DEFINE cs2 == call_stack'
<1> DEFINE L == Len(call_stack)
<1> DEFINE frame == Frame(node, height)
<1>1. cs2 = Append(cs, frame) /\ UNCHANGED <<handlers, status>>
  BY DEF Call
<1>2. /\ Calls(cs) /\ Calls(cs2) /\ L = Len(cs) /\ L \in Nat /\ cs \in Seq(FrameType)
      /\ Match(cs, handlers) /\ handlers \in Seq(HandlerType)
  BY SteadyFacts, FrameFacts
<1>3. frame.ip = <<>>
  BY DEF Frame
<1> HIDE DEF cs, cs2, frame, L
<1>4. Len(cs2) = L + 1 /\ cs2[L + 1] = frame /\ \A i \in 1 .. L : cs2[i] = cs[i]
  BY <1>1, <1>2
<1>5. 1 .. L \subseteq 1 .. (L + 1) /\ \A i \in 1 .. (L + 1) : i \in 1 .. L \/ i = L + 1
  BY <1>2
<1>6. ASSUME NEW i \in Nat, NEW j \in Nat, Open(cs, i, j) PROVE Agree(cs, cs2, i, j)
  <2>1. i \in 1 .. L /\ j \in 1 .. Len(cs[i].ip) /\ Len(cs[i].ip) \in Nat
    BY <1>2, <1>6, Places DEF Open
  <2>2. j <= Len(cs[i].ip)
    BY <2>1
  <2> QED
    BY <1>2, <1>4, <1>5, <2>1, <2>2 DEF Agree
<1>7. ASSUME NEW i \in Nat, NEW j \in Nat, Open(cs2, i, j) PROVE Open(cs, i, j)
  <2>1. i \in 1 .. (L + 1) /\ j \in 1 .. Len(cs2[i].ip)
    BY <1>4, <1>7 DEF Open
  <2>2. i # L + 1
    <3>1. Len(frame.ip) = 0
      BY <1>3
    <3> QED
      BY <1>4, <2>1, <3>1
  <2> QED
    BY <1>2, <1>4, <1>5, <1>7, <2>1, <2>2 DEF Open
<1>8. Match(cs2, handlers)
  BY <1>2, <1>6, <1>7, MatchKept
<1> QED
  BY <1>1, <1>8 DEF MatchInv, Steady, cs2

\* A call returns from outside all Try bodies.
LEMMA ReturnMatch ==
  ASSUME NoEarlyExits, Steady, NEW r \in 0 .. 1, Return(r)
  PROVE  MatchInv'
<1> DEFINE cs == call_stack
<1> DEFINE cs2 == call_stack'
<1> DEFINE L == Len(call_stack)
<1>1. \A j \in 1 .. Len(Back.ip) : Back.ip[j].kind = "catch"
  <2>1. "return" \notin Features
    BY DEF NoEarlyExits
  <2>2. \A j \in DOMAIN Back.ip : j > 0 => Back.ip[j].kind = "catch"
    BY <2>1 DEF Return, MayLeave
  <2> QED
    BY <2>2, SteadyFacts
<1>2. CASE L = 1
  BY <1>2 DEF Return, MatchInv
<1>3. CASE L # 1
  <2> DEFINE m == L - 1
  <2> DEFINE cut == SubSeq(cs, 1, m)
  <2> DEFINE frame == [cs[m] EXCEPT !.temps = cs[m].temps + r]
  <2>1. cs2 = [cut EXCEPT ![m] = frame] /\ UNCHANGED <<handlers, status>>
    BY <1>3 DEF Return, Pop
  <2>2. /\ Calls(cs) /\ Calls(cs2) /\ L = Len(cs) /\ L \in Nat \ {0}
        /\ Match(cs, handlers) /\ handlers \in Seq(HandlerType) /\ cs[L] = Back
    BY SteadyFacts
  <2>3. m \in 1 .. L /\ L = m + 1 /\ m \in Nat /\ m \in 1 .. m
    <3> HIDE DEF L
    <3> QED
      BY <1>3, <2>2
  <2> HIDE DEF cs, cs2, L, m
  <2>4. cut \in Seq(FrameType) /\ Len(cut) = m /\ \A i \in 1 .. m : cut[i] = cs[i]
    BY <2>2, <2>3, CutCalls, FrameFacts
  <2>5. frame.ip = cs[m].ip /\ frame.node = cs[m].node
    <3>1. cs[m] \in FrameType
      BY <2>2, <2>3, FrameFacts
    <3> QED
      BY <3>1 DEF FrameType
  <2> HIDE DEF cut, frame
  <2>6. Len(cs2) = m /\ \A i \in 1 .. m : cs2[i] = (IF i = m THEN frame ELSE cs[i])
    BY <2>1, <2>3, <2>4
  <2>7. \A i \in 1 .. m : cs2[i].ip = cs[i].ip /\ cs2[i].node = cs[i].node
    BY <2>5, <2>6
  <2>8. 1 .. m \subseteq 1 .. L /\ \A i \in 1 .. L : i \in 1 .. m \/ i = L
    BY <2>2, <2>3
  <2>9. ASSUME NEW i \in Nat, NEW j \in Nat, Open(cs, i, j) PROVE Agree(cs, cs2, i, j)
    <3>1. i \in 1 .. L /\ j \in 1 .. Len(cs[i].ip) /\ Len(cs[i].ip) \in Nat
          /\ cs[i].ip[j].kind = "try"
      BY <2>2, <2>9, Places DEF Open
    <3>2. i \in 1 .. m
      BY <1>1, <2>2, <2>8, <3>1
    <3>3. j <= Len(cs[i].ip)
      BY <3>1
    <3> QED
      BY <2>2, <2>6, <2>7, <3>1, <3>2, <3>3 DEF Agree
  <2>10. ASSUME NEW i \in Nat, NEW j \in Nat, Open(cs2, i, j) PROVE Open(cs, i, j)
    BY <2>2, <2>6, <2>7, <2>8, <2>10 DEF Open
  <2>11. Match(cs2, handlers)
    BY <2>2, <2>9, <2>10, MatchKept
  <2> QED
    BY <2>1, <2>11 DEF MatchInv, Steady, cs2
<1> QED
  BY <1>2, <1>3

\* An exception is taken by the Try body whose handler accepts it: it becomes
\* its Catch block, and the calls above and the blocks within it are gone.
LEMMA HandleCases ==
  ASSUME NEW c, HandleException(c)
  PROVE  \/ /\ \A n \in DOMAIN handlers : ~Accepts(n, c)
            /\ status' = "unhandled" /\ UNCHANGED call_stack
         \/ \E n \in DOMAIN handlers :
              /\ Found(n, c)
              /\ handlers' = SubSeq(handlers, 1, n - 1)
              /\ \/ \E frames \in Unwound(handlers[n].frame) :
                      /\ call_stack' = Resume(frames, handlers[n].entry)
                      /\ UNCHANGED status
                 \/ Unwound(handlers[n].frame) = {}
<1>1. CASE \A n \in DOMAIN handlers : ~Accepts(n, c)
  BY <1>1 DEF HandleException, Found
<1>2. CASE \E n \in DOMAIN handlers :
             /\ Found(n, c)
             /\ handlers' = SubSeq(handlers, 1, n - 1)
             /\ \/ \E frames \in Unwound(handlers[n].frame) :
                     /\ call_stack' = Resume(frames, handlers[n].entry)
                     /\ UNCHANGED status
                \/ /\ Unwound(handlers[n].frame) = {}
                   /\ status' = "undefined"
                   /\ UNCHANGED call_stack
  BY <1>2
<1> QED
  BY <1>1, <1>2 DEF HandleException

\* What the call stack becomes.
LEMMA Taken ==
  ASSUME Steady, NEW c \in Class, HandleException(c),
         ~\A n \in DOMAIN handlers : ~Accepts(n, c)
  PROVE  \E n \in 1 .. Len(handlers) : \E r, k \in Nat :
           /\ HandlerAt(call_stack, handlers[n], r, k)
           /\ Found(n, c)
           /\ handlers' = SubSeq(handlers, 1, n - 1) /\ UNCHANGED status
           /\ Len(call_stack') = r
           /\ call_stack'[r].ip = handlers[n].entry
           /\ \A i \in 1 .. r : call_stack'[i].node = call_stack[i].node
           /\ \A i \in 1 .. r : i # r => call_stack'[i] = call_stack[i]
<1>1. PICK n \in DOMAIN handlers :
              /\ Found(n, c)
              /\ handlers' = SubSeq(handlers, 1, n - 1)
              /\ \/ \E frames \in Unwound(handlers[n].frame) :
                      /\ call_stack' = Resume(frames, handlers[n].entry)
                      /\ UNCHANGED status
                 \/ Unwound(handlers[n].frame) = {}
  BY HandleCases
<1>2. n \in 1 .. Len(handlers)
  BY SteadyFacts
<1>3. PICK r \in Nat, k \in Nat : HandlerAt(call_stack, handlers[n], r, k)
  BY <1>2, SteadyFacts DEF Match
<1>4. /\ r \in 1 .. Len(call_stack) /\ call_stack[r].node = handlers[n].frame
      /\ DOMAIN call_stack = 1 .. Len(call_stack) /\ Calls(call_stack)
      /\ Len(call_stack) \in Nat
  BY <1>3, SteadyFacts DEF HandlerAt, Open
<1>5. Unwound(handlers[n].frame) = {SubSeq(call_stack, 1, r)}
  <2>1. \A i \in 1 .. Len(call_stack) : call_stack[i].node = handlers[n].frame => i = r
    <3> SUFFICES ASSUME NEW i \in 1 .. Len(call_stack), i # r
                 PROVE  call_stack[i].node # call_stack[r].node
      BY <1>4
    <3>1. i < r \/ r < i
      BY <1>4
    <3> QED
      BY <1>4, <3>1 DEF Calls
  <2>2. {j \in DOMAIN call_stack : call_stack[j].node = handlers[n].frame} = {r}
    BY <1>4, <2>1
  <2> QED
    BY <2>2 DEF Unwound
<1> DEFINE cut == SubSeq(call_stack, 1, r)
<1> DEFINE frame == [cut[r] EXCEPT !.ip = handlers[n].entry, !.temps = 0]
<1>6. cut \in Seq(FrameType) /\ Len(cut) = r /\ \A i \in 1 .. r : cut[i] = call_stack[i]
  BY <1>4, CutCalls, FrameFacts
<1>7. r \in 1 .. r
  BY <1>4
<1>8. call_stack' = [cut EXCEPT ![r] = frame] /\ UNCHANGED status
  BY <1>1, <1>5, <1>6 DEF Resume
<1>9. frame.ip = handlers[n].entry /\ frame.node = call_stack[r].node
  <2> HIDE DEF cut
  <2>1. cut[r] \in FrameType /\ cut[r] = call_stack[r]
    BY <1>6, <1>7
  <2>2. \A f \in FrameType : \A e :
            /\ [f EXCEPT !.ip = e, !.temps = 0].ip = e
            /\ [f EXCEPT !.ip = e, !.temps = 0].node = f.node
    BY DEF FrameType
  <2> QED
    BY <2>1, <2>2
<1> HIDE DEF cut, frame
<1>10. Len(call_stack') = r /\ call_stack'[r] = frame
       /\ \A i \in 1 .. r : i # r => call_stack'[i] = call_stack[i]
  BY <1>6, <1>7, <1>8
<1>11. \A i \in 1 .. r : call_stack'[i].node = call_stack[i].node
  BY <1>9, <1>10
<1> QED
  BY <1>1, <1>2, <1>3, <1>8, <1>9, <1>10, <1>11

\* It leaves the handlers below, and their Try bodies below and around.
LEMMA HandleMatch ==
  ASSUME Steady, NEW c \in Class, HandleException(c)
  PROVE  MatchInv'
<1>1. CASE \A n \in DOMAIN handlers : ~Accepts(n, c)
  <2>1. status' = "unhandled"
    BY <1>1 DEF HandleException, Found
  <2> QED
    BY <2>1 DEF MatchInv
<1>2. CASE ~\A n \in DOMAIN handlers : ~Accepts(n, c)
  <2> DEFINE cs == call_stack
  <2> DEFINE cs2 == call_stack'
  <2> DEFINE N == Len(handlers)
  <2>1. PICK n \in 1 .. N, r \in Nat, k \in Nat :
           /\ HandlerAt(cs, handlers[n], r, k)
           /\ handlers' = SubSeq(handlers, 1, n - 1) /\ UNCHANGED status
           /\ Len(cs2) = r /\ cs2[r].ip = handlers[n].entry
           /\ \A i \in 1 .. r : cs2[i].node = cs[i].node
           /\ \A i \in 1 .. r : i # r => cs2[i] = cs[i]
    BY <1>2, Taken
  <2>2. /\ Calls(cs) /\ Calls(cs2) /\ handlers \in Seq(HandlerType) /\ N \in Nat
        /\ Match(cs, handlers) /\ Len(cs) \in Nat
    BY SteadyFacts
  <2> DEFINE ip == cs[r].ip
  <2>3. /\ r \in 1 .. Len(cs) /\ r \in 1 .. r /\ k \in 1 .. Len(ip)
        /\ ip \in Seq(RegionType) /\ Len(ip) \in Nat
    <3>1. r \in 1 .. Len(cs) /\ k \in 1 .. Len(ip)
      BY <2>1 DEF HandlerAt, Open
    <3> QED
      BY <2>2, <3>1, Places
  <2> DEFINE path == handlers[n].entry
  <2> DEFINE block == CatchBlock(ip[k].parts, 1)
  <2>4. path = Append(SubSeq(ip, 1, k - 1), block)
    BY <2>1 DEF HandlerAt
  <2>5. block.kind = "catch"
    BY DEF CatchBlock
  <2>6. k - 1 \in Nat /\ k - 1 <= Len(ip)
    <3> HIDE DEF ip
    <3> QED
      BY <2>3
  <2> HIDE DEF cs, cs2, N, ip, path, block
  <2>7. Len(path) = k /\ path[k] = block /\ \A j \in 1 .. (k - 1) : path[j] = ip[j]
    <3> DEFINE s == SubSeq(ip, 1, k - 1)
    <3>1. s \in Seq(RegionType) /\ Len(s) = k - 1 /\ \A j \in 1 .. (k - 1) : s[j] = ip[j]
      BY <2>3, <2>6, CutPath
    <3> HIDE DEF s
    <3>2. /\ Len(Append(s, block)) = (k - 1) + 1 /\ Append(s, block)[(k - 1) + 1] = block
          /\ \A j \in 1 .. (k - 1) : Append(s, block)[j] = s[j]
      BY <2>6, <3>1
    <3>3. (k - 1) + 1 = k
      BY <2>3
    <3> QED
      BY <2>4, <3>1, <3>2, <3>3 DEF s
  <2>8. n - 1 \in Nat /\ n - 1 <= N /\ \A m \in 1 .. (n - 1) : m \in 1 .. N /\ m < n
    BY <2>2
  <2>9. ASSUME NEW i \in Nat, NEW j \in Nat, Open(cs, i, j), Before(i, j, r, k)
        PROVE  Agree(cs, cs2, i, j)
    <3>1. i \in 1 .. Len(cs) /\ j \in 1 .. Len(cs[i].ip) /\ Len(cs[i].ip) \in Nat
      BY <2>2, <2>9, Places DEF Open
    <3>2. j <= Len(cs[i].ip) /\ i \in 1 .. r
      BY <2>3, <2>9, <3>1 DEF Before
    <3>3. CASE i = r
      <4>1. cs2[i].ip = path /\ cs[i].ip = ip
        BY <3>3, <2>1 DEF path, ip
      <4>2. j <= k - 1 /\ j <= k
        BY <2>3, <2>9, <3>3 DEF Before
      <4>3. \A l \in 1 .. j : l \in 1 .. (k - 1)
        BY <4>2, <2>3
      <4> QED
        BY <2>1, <2>7, <3>1, <3>2, <3>3, <4>1, <4>2, <4>3 DEF Agree
    <3>4. CASE i # r
      BY <2>1, <3>1, <3>2, <3>4 DEF Agree
    <3> QED
      BY <3>3, <3>4
  <2>10. ASSUME NEW i \in Nat, NEW j \in Nat, Open(cs2, i, j)
         PROVE  Open(cs, i, j) /\ Before(i, j, r, k)
    <3>1. i \in 1 .. r /\ i \in 1 .. Len(cs)
      BY <2>1, <2>2, <2>3, <2>10 DEF Open
    <3>2. CASE i = r
      <4>1. cs2[i].ip = path /\ cs[i].ip = ip
        BY <3>2, <2>1 DEF path, ip
      <4>2. j \in 1 .. k /\ path[j].kind = "try"
        BY <2>7, <2>10, <4>1 DEF Open
      <4>3. j # k
        BY <2>5, <2>7, <4>2
      <4>4. j \in 1 .. (k - 1) /\ j \in 1 .. Len(ip) /\ j < k
        BY <2>3, <4>2, <4>3
      <4>5. ip[j].kind = "try"
        BY <2>7, <4>2, <4>4
      <4> QED
        BY <3>1, <3>2, <4>1, <4>4, <4>5 DEF Open, Before
    <3>3. CASE i # r
      <4>1. i < r
        BY <2>3, <3>1, <3>3
      <4> QED
        BY <2>1, <2>10, <3>1, <3>3, <4>1 DEF Open, Before
    <3> QED
      BY <3>2, <3>3
  <2>11. ASSUME NEW m \in 1 .. (n - 1), NEW i \in Nat, NEW j \in Nat,
                HandlerAt(cs, handlers[m], i, j)
         PROVE  Agree(cs, cs2, i, j)
    <3>1. Before(i, j, r, k)
      BY <2>1, <2>2, <2>8, <2>11 DEF Match, N
    <3> QED
      BY <3>1, <2>9, <2>11 DEF HandlerAt
  <2>12. ASSUME NEW i \in Nat, NEW j \in Nat, Open(cs2, i, j), NEW m \in 1 .. N,
                HandlerAt(cs, handlers[m], i, j)
         PROVE  m <= n - 1
    <3>1. Before(i, j, r, k)
      BY <2>10, <2>12
    <3>2. ~Before(r, k, i, j) /\ ~(i = r /\ j = k)
      BY <3>1, <2>12 DEF Before
    <3>3. ~(n < m)
      BY <2>1, <2>2, <2>12, <3>2 DEF Match, N
    <3>4. m # n
      BY <2>1, <2>2, <2>12, <3>2, OnePlace
    <3> QED
      BY <3>3, <3>4, <2>2
  <2>13. Match(cs2, SubSeq(handlers, 1, n - 1))
    BY <2>2, <2>8, <2>10, <2>11, <2>12, MatchCut DEF N
  <2> QED
    BY <2>1, <2>13 DEF MatchInv, Steady, cs2
<1> QED
  BY <1>1, <1>2

\* At the start there is nothing to match.
LEMMA MatchInit == Init => MatchInv
<1> SUFFICES ASSUME Init PROVE MatchInv
  OBVIOUS
<1>1. PICK n \in Node : call_stack = <<Frame(n, 0)>>
  BY DEF Init
<1>2. Len(call_stack) = 1 /\ call_stack[1].ip = <<>> /\ Len(handlers) = 0
  BY <1>1 DEF Frame, Init
<1>3. \A i, j : ~Open(call_stack, i, j)
  BY <1>2 DEF Open
<1> QED
  BY <1>2, <1>3 DEF Init, MatchInv, Match

\* Handlers and Try bodies, action by action.
LEMMA MatchNext ==
  ASSUME OneCatchEach, NoEarlyExits
  PROVE  BasicInv /\ BasicInv' /\ MatchInv /\ [Next]_vars => MatchInv'
<1> SUFFICES ASSUME BasicInv, BasicInv', MatchInv, [Next]_vars PROVE MatchInv'
  OBVIOUS
<1>1. CASE status # "running"
  <2>1. UNCHANGED status
    BY <1>1 DEF Next, vars, EnterTry, LeaveTry, EndCatch, Jump, AtStatement, Push, Consume,
               Call, Return, Throw, ReadMissingOptional
  <2> QED
    BY <1>1, <2>1 DEF MatchInv
<1>2. CASE status = "running"
  <2>1. Steady
    BY <1>2 DEF Steady, MatchInv
  <2>2. ASSUME NEW p \in PartLists, EnterTry(p) PROVE MatchInv'
    BY <2>1, <2>2, EnterTryMatch
  <2>3. CASE LeaveTry
    BY <2>1, <2>3, LeaveTryMatch
  <2>4. ASSUME NEW d \in Nat, d <= Len(Back.ip), UNCHANGED <<handlers, status>>,
               RunOn([Back EXCEPT !.ip = SubSeq(Back.ip, 1, d)]),
               \A j \in 1 .. Len(Back.ip) : j > d => Back.ip[j].kind = "catch"
        PROVE  MatchInv'
    <3>1. Match(call_stack', handlers')
      BY <2>1, <2>4, LeaveCatches
    <3> QED
      BY <2>4, <3>1, <1>2 DEF MatchInv
  <2>5. CASE EndCatch
    <3> DEFINE J == Len(Back.ip)
    <3>1. /\ RunOn([Back EXCEPT !.ip = SubSeq(Back.ip, 1, J - 1)])
          /\ Back.ip # <<>> /\ Back.ip[J].kind = "catch" /\ UNCHANGED <<handlers, status>>
      BY <2>5 DEF EndCatch, Pop
    <3>2. J \in 1 .. J /\ J - 1 \in Nat /\ J - 1 <= J /\ J \in Nat
      BY <2>1, <3>1, SteadyFacts
    <3>3. \A j \in 1 .. J : j > J - 1 => j = J
      <4> HIDE DEF J
      <4> QED
        BY <3>2
    <3>4. \A j \in 1 .. J : j > J - 1 => Back.ip[j].kind = "catch"
      BY <3>1, <3>3
    <3> QED
      BY <3>1, <3>2, <3>4, <2>4
  <2>6. ASSUME NEW d \in 0 .. MaxBlocks, Jump(d) PROVE MatchInv'
    <3>1. /\ RunOn([Back EXCEPT !.ip = SubSeq(Back.ip, 1, d)])
          /\ d < Len(Back.ip) /\ UNCHANGED <<handlers, status>>
      BY <2>6 DEF Jump
    <3>2. d \in Nat /\ d <= Len(Back.ip)
      BY <2>1, <3>1, SteadyFacts
    <3>3. \A j \in DOMAIN Back.ip : j > d => Back.ip[j].kind = "catch"
      BY <2>6 DEF Jump, MayLeave, NoEarlyExits
    <3>4. \A j \in 1 .. Len(Back.ip) : j > d => Back.ip[j].kind = "catch"
      BY <2>1, <3>3, SteadyFacts
    <3> QED
      BY <3>1, <3>2, <3>4, <2>4
  <2>7. ASSUME NEW t \in Nat, RunOn([Back EXCEPT !.temps = t]), UNCHANGED <<handlers, status>>
        PROVE  MatchInv'
    <3> DEFINE frame == [Back EXCEPT !.temps = t]
    <3>1. /\ frame \in FrameType /\ frame.node = Back.node
          /\ frame.below = Back.below /\ frame.ip = Back.ip
      BY <2>1, SteadyFacts, FrameUpdates
    <3>2. RunOn(frame)
      BY <2>7
    <3> HIDE DEF frame
    <3>3. /\ Len(call_stack') = Len(call_stack) /\ call_stack'[Len(call_stack)] = frame
          /\ \A i \in 1 .. Len(call_stack) :
               i # Len(call_stack) => call_stack'[i] = call_stack[i]
          /\ \A i \in 1 .. Len(call_stack) : call_stack'[i].node = call_stack[i].node
      BY <2>1, <3>1, <3>2, RunOnFacts
    <3>4. \A i \in 1 .. Len(call_stack) : call_stack'[i].ip = call_stack[i].ip
      BY <2>1, <3>1, <3>3, SteadyFacts
    <3>5. Match(call_stack', handlers')
      BY <2>1, <2>7, <3>3, <3>4, SamePoints
    <3> QED
      BY <2>7, <3>5, <1>2 DEF MatchInv
  <2>8. Back.temps \in Nat
    BY BackFacts
  <2>9. CASE Push
    <3>1. RunOn([Back EXCEPT !.temps = Back.temps + 1]) /\ UNCHANGED <<handlers, status>>
      BY <2>9 DEF Push
    <3>2. Back.temps + 1 \in Nat
      BY <2>8
    <3> QED
      BY <2>7, <3>1, <3>2
  <2>10. CASE Consume
    <3>1. RunOn([Back EXCEPT !.temps = Back.temps - 1]) /\ UNCHANGED <<handlers, status>>
          /\ Back.temps > 0
      BY <2>10 DEF Consume
    <3>2. Back.temps - 1 \in Nat
      BY <2>8, <3>1
    <3> QED
      BY <2>7, <3>1, <3>2
  <2>11. ASSUME NEW n \in Node, Call(n) PROVE MatchInv'
    BY <2>1, <2>11, CallMatch
  <2>12. ASSUME NEW r \in 0 .. 1, Return(r) PROVE MatchInv'
    BY <2>1, <2>12, ReturnMatch
  <2>13. ASSUME NEW c \in Class, HandleException(c) PROVE MatchInv'
    BY <2>1, <2>13, HandleMatch
  <2>14. CASE UNCHANGED vars
    BY <2>14 DEF vars, MatchInv
  <2> QED
    BY <2>2, <2>3, <2>5, <2>6, <2>9, <2>10, <2>11, <2>12, <2>13, <2>14
    DEF Next, Throw, ReadMissingOptional
<1> QED
  BY <1>1, <1>2

\* In every reachable state of a program whose Try statements have one Catch
\* part each, and that leaves Try bodies only at their ends or by exceptions,
\* the handlers are those of the Try bodies being executed, and nothing
\* undefined has happened.
THEOREM HandlersMatch ==
  ASSUME OneCatchEach, NoEarlyExits
  PROVE  Spec => [](BasicInv /\ MatchInv)
<1>1. Init => BasicInv /\ MatchInv
  BY BasicInit, MatchInit
<1>2. BasicInv /\ MatchInv /\ [Next]_vars => (BasicInv /\ MatchInv)'
  BY BasicNext, MatchNext
<1> QED
  BY <1>1, <1>2, PTL DEF Spec

\* The regions of a path, where every Try statement has one Catch part.
LEMMA OnePart ==
  ASSUME OneCatchEach, NEW r \in RegionType
  PROVE  r \in Region /\ DOMAIN r.parts = {1}
<1>1. /\ r.parts \in PartLists /\ r.kind \in {"try", "catch"} /\ r.part \in Nat
      /\ r = [kind |-> r.kind, parts |-> r.parts, part |-> r.part]
      /\ \/ r.kind = "try" /\ r.part = 0
         \/ r.kind = "catch" /\ r.part \in DOMAIN r.parts
  BY DEF RegionType
<1>2. DOMAIN r.parts = {1}
  <2>1. r.parts \in Seq(Class) /\ Len(r.parts) = 1
    BY <1>1, PartsAssumption DEF OneCatchEach
  <2> QED
    BY <2>1
<1>3. 1 \in 1 .. 9
  OBVIOUS
<1> QED
  BY <1>1, <1>2, <1>3 DEF Region, TryBody, CatchBlock

\* The statement the runs check follows.
LEMMA MatchGives ==
  ASSUME OneCatchEach, BasicInv, MatchInv
  PROVE  HandlersAreOpenParts
<1>1. /\ Calls(call_stack) /\ handlers \in Seq(HandlerType) /\ height \in Nat
      /\ status \in {"running", "finished", "unhandled", "undefined"}
      /\ DOMAIN handlers = 1 .. Len(handlers)
  BY DEF BasicInv
<1>2. call_stack # <<>> /\ DOMAIN call_stack = 1 .. Len(call_stack)
  BY <1>1, FrameFacts DEF Calls
<1>3. ASSUME NEW i \in 1 .. Len(call_stack)
      PROVE  /\ call_stack[i].ip \in Seq(RegionType) /\ i \in Nat
             /\ DOMAIN call_stack[i].ip = 1 .. Len(call_stack[i].ip)
             /\ \A j \in 1 .. Len(call_stack[i].ip) : call_stack[i].ip[j] \in RegionType
  <2>1. call_stack[i].ip \in Seq(RegionType) /\ i \in Nat
    BY <1>1, Places
  <2> QED
    BY <2>1
<1>4. TypeOK
  <2>1. ASSUME NEW i \in 1 .. Len(call_stack)
        PROVE  /\ call_stack[i].node \in Node
               /\ \A j \in DOMAIN call_stack[i].ip : call_stack[i].ip[j] \in Region
               /\ call_stack[i].temps \in Nat /\ call_stack[i].below \in Nat
    BY <1>1, <1>3, FrameFacts, OnePart
  <2>2. ASSUME NEW n \in 1 .. Len(handlers)
        PROVE  /\ handlers[n].class \in Class /\ handlers[n].frame \in Node
               /\ handlers[n].entry # <<>>
    <3>1. handlers[n] \in HandlerType
      BY <1>1
    <3> QED
      BY <3>1 DEF HandlerType
  <2> QED
    BY <1>1, <1>2, <2>1, <2>2 DEF TypeOK
<1>5. ASSUME NEW n, NEW i, NEW j, NEW k
      PROVE  /\ HandlerOf(n, i, j, k) =>
                  k = 1 /\ i \in Nat /\ j \in Nat /\ HandlerAt(call_stack, handlers[n], i, j)
             /\ HandlerAt(call_stack, handlers[n], i, j) =>
                  /\ HandlerOf(n, i, j, 1) /\ i \in DOMAIN call_stack
                  /\ j \in DOMAIN call_stack[i].ip
                  /\ 1 \in DOMAIN call_stack[i].ip[j].parts
  <2>1. ASSUME i \in 1 .. Len(call_stack), j \in 1 .. Len(call_stack[i].ip)
        PROVE  DOMAIN call_stack[i].ip[j].parts = {1} /\ i \in Nat /\ j \in Nat
    BY <1>3, <2>1, OnePart
  <2>2. ASSUME HandlerOf(n, i, j, k)
        PROVE  k = 1 /\ i \in Nat /\ j \in Nat /\ HandlerAt(call_stack, handlers[n], i, j)
    <3>1. i \in 1 .. Len(call_stack) /\ j \in 1 .. Len(call_stack[i].ip)
      BY <1>2, <1>3, <2>2 DEF HandlerOf, OpenPart
    <3>2. k = 1 /\ i \in Nat /\ j \in Nat
      BY <2>1, <2>2, <3>1 DEF HandlerOf, OpenPart
    <3> QED
      BY <2>2, <3>1, <3>2 DEF HandlerOf, OpenPart, HandlerAt, Open
  <2>3. ASSUME HandlerAt(call_stack, handlers[n], i, j)
        PROVE  /\ HandlerOf(n, i, j, 1) /\ i \in DOMAIN call_stack
               /\ j \in DOMAIN call_stack[i].ip
               /\ 1 \in DOMAIN call_stack[i].ip[j].parts
    <3>1. i \in 1 .. Len(call_stack) /\ j \in 1 .. Len(call_stack[i].ip)
      BY <2>3 DEF HandlerAt, Open
    <3>2. HandlerOf(n, i, j, 1) /\ 1 \in DOMAIN call_stack[i].ip[j].parts
      BY <1>2, <1>3, <2>1, <2>3, <3>1 DEF HandlerOf, OpenPart, HandlerAt, Open
    <3> QED
      BY <1>2, <1>3, <2>3, <3>1, <3>2 DEF HandlerOf, OpenPart
  <2> QED
    BY <2>2, <2>3
<1>6. ASSUME status = "running"
      PROVE  /\ \A n \in DOMAIN handlers : \E i \in DOMAIN call_stack :
                  \E j \in DOMAIN call_stack[i].ip :
                  \E k \in DOMAIN call_stack[i].ip[j].parts : HandlerOf(n, i, j, k)
             /\ \A i \in DOMAIN call_stack : \A j \in DOMAIN call_stack[i].ip :
                  \A k \in DOMAIN call_stack[i].ip[j].parts :
                    OpenPart(i, j, k) => \E n \in DOMAIN handlers : HandlerOf(n, i, j, k)
             /\ \A n, m \in DOMAIN handlers : n < m =>
                  \A x, y \in Ips :
                    \A k \in DOMAIN call_stack[x[1]].ip[x[2]].parts :
                    \A l \in DOMAIN call_stack[y[1]].ip[y[2]].parts :
                      HandlerOf(n, x[1], x[2], k) /\ HandlerOf(m, y[1], y[2], l)
                        => Outside(x[1], x[2], k, y[1], y[2], l)
  <2>1. Match(call_stack, handlers)
    BY <1>6 DEF MatchInv
  <2>2. ASSUME NEW n \in DOMAIN handlers
        PROVE  \E i \in DOMAIN call_stack : \E j \in DOMAIN call_stack[i].ip :
                 \E k \in DOMAIN call_stack[i].ip[j].parts : HandlerOf(n, i, j, k)
    <3>1. PICK i \in Nat, j \in Nat : HandlerAt(call_stack, handlers[n], i, j)
      BY <1>1, <2>1 DEF Match
    <3> QED
      BY <1>5, <3>1
  <2>3. ASSUME NEW i \in DOMAIN call_stack, NEW j \in DOMAIN call_stack[i].ip,
               NEW k \in DOMAIN call_stack[i].ip[j].parts, OpenPart(i, j, k)
        PROVE  \E n \in DOMAIN handlers : HandlerOf(n, i, j, k)
    <3>1. i \in 1 .. Len(call_stack) /\ j \in 1 .. Len(call_stack[i].ip)
      BY <1>2, <1>3, <2>3
    <3>2. Open(call_stack, i, j)
      BY <2>3, <3>1 DEF OpenPart, Open
    <3>3. k = 1 /\ i \in Nat /\ j \in Nat
      BY <1>3, <2>3, <3>1, OnePart
    <3>4. PICK n \in DOMAIN handlers : HandlerAt(call_stack, handlers[n], i, j)
      BY <1>1, <2>1, <3>2, <3>3 DEF Match
    <3> QED
      BY <1>5, <3>3, <3>4
  <2>4. ASSUME NEW n \in DOMAIN handlers, NEW m \in DOMAIN handlers, n < m,
               NEW x \in Ips, NEW y \in Ips, NEW k, NEW l,
               HandlerOf(n, x[1], x[2], k), HandlerOf(m, y[1], y[2], l)
        PROVE  Outside(x[1], x[2], k, y[1], y[2], l)
    <3>1. /\ x[1] \in Nat /\ x[2] \in Nat /\ y[1] \in Nat /\ y[2] \in Nat
          /\ HandlerAt(call_stack, handlers[n], x[1], x[2])
          /\ HandlerAt(call_stack, handlers[m], y[1], y[2])
      BY <1>5, <2>4
    <3>2. Before(x[1], x[2], y[1], y[2])
      BY <1>1, <2>1, <2>4, <3>1 DEF Match
    <3> QED
      BY <3>2 DEF Before, Outside
  <2> QED
    BY <2>2, <2>3, <2>4
<1> QED
  BY <1>4, <1>6 DEF HandlersAreOpenParts, MatchInv

\* The handler stack is exactly the open Try bodies, outermost first (the enter
\* and leave instructions of ILGen.cs against handleException, calls and ret).
THEOREM HandlersCorrect ==
  ASSUME OneCatchEach, NoEarlyExits
  PROVE  Spec => []HandlersAreOpenParts
<1>1. BasicInv /\ MatchInv => HandlersAreOpenParts
  BY MatchGives
<1> QED
  BY <1>1, HandlersMatch, PTL

-----------------------------------------------------------------------------
(***************************************************************************)
(* The refinement.                                                         *)
(***************************************************************************)
\* The program points of the active calls.
Points == [i \in DOMAIN call_stack |-> call_stack[i].ip]

\* The source and the implementation have the same classes.
LEMMA SameSubtypes ==
  ASSUME NEW c, NEW d PROVE Source!IsSubtype(c, d) <=> IsSubtypeOf(c, d)
  BY DEF Source!IsSubtype, IsSubtypeOf, Source!Ancestors, Ancestors

\* A sequence is a function on its positions.
LEMMA SeqIs ==
  ASSUME NEW S, NEW f \in Seq(S), NEW m \in Nat, Len(f) = m
  PROVE  f = [i \in 1 .. m |-> f[i]]
<1>1. f \in [1 .. m -> S]
  OBVIOUS
<1> QED
  BY <1>1

\* What Append adds.
LEMMA AppendIs ==
  ASSUME NEW S, NEW s \in Seq(S), NEW x \in S
  PROVE  Append(s, x) = [i \in 1 .. (Len(s) + 1) |-> IF i = Len(s) + 1 THEN x ELSE s[i]]
<1>1. /\ Append(s, x) \in Seq(S) /\ Len(Append(s, x)) = Len(s) + 1
      /\ Append(s, x)[Len(s) + 1] = x /\ \A i \in 1 .. Len(s) : Append(s, x)[i] = s[i]
      /\ Len(s) + 1 \in Nat
  OBVIOUS
<1> DEFINE g == Append(s, x)
<1> HIDE DEF g
<1>2. g = [i \in 1 .. (Len(s) + 1) |-> g[i]]
  BY <1>1, SeqIs DEF g
<1>3. \A i \in 1 .. (Len(s) + 1) : i # Len(s) + 1 => i \in 1 .. Len(s)
  <2>1. Len(s) \in Nat
    OBVIOUS
  <2> QED
    BY <2>1
<1>4. \A i \in 1 .. (Len(s) + 1) : g[i] = IF i = Len(s) + 1 THEN x ELSE s[i]
  BY <1>1, <1>3 DEF g
<1>5. g = [i \in 1 .. (Len(s) + 1) |-> IF i = Len(s) + 1 THEN x ELSE s[i]]
  BY <1>2, <1>4
<1> QED
  BY <1>5 DEF g

\* The program points of the calls are those the source's meaning sees.
LEMMA PointFacts ==
  ASSUME Steady
  PROVE  /\ Points \in Seq(Seq(RegionType)) /\ Len(Points) = Len(call_stack)
         /\ \A i \in 1 .. Len(call_stack) : Points[i] = call_stack[i].ip
         /\ Source!Top = Back.ip
         /\ DOMAIN Points = 1 .. Len(call_stack)
<1>1. Points = [i \in 1 .. Len(call_stack) |-> call_stack[i].ip]
  BY SteadyFacts DEF Points
<1>2. \A i \in 1 .. Len(call_stack) : call_stack[i].ip \in Seq(RegionType)
  BY SteadyFacts, Places
<1>3. Points \in [1 .. Len(call_stack) -> Seq(RegionType)]
  BY <1>1, <1>2
<1>4. ASSUME NEW n \in Nat, NEW f \in [1 .. n -> Seq(RegionType)]
      PROVE  f \in Seq(Seq(RegionType)) /\ Len(f) = n
  BY <1>4
<1>5. Points \in Seq(Seq(RegionType)) /\ Len(Points) = Len(call_stack)
  BY <1>3, <1>4, SteadyFacts
<1>6. Points[Len(Points)] = Back.ip
  BY <1>1, <1>5, SteadyFacts
<1>7. Source!Top = Points[Len(Points)]
  BY DEF Source!Top, Points
<1> QED
  BY <1>1, <1>5, <1>6, <1>7

\* The call stack has the calls of s with the point p in place of i, and no more.
LEMMA PointsAre ==
  ASSUME Steady, NEW m \in Nat \ {0}, Len(call_stack') = m
  PROVE  /\ Points' = [i \in 1 .. m |-> call_stack'[i].ip]
         /\ DOMAIN call_stack' = 1 .. m
<1>1. DOMAIN call_stack' = 1 .. Len(call_stack')
  BY SteadyFacts, FrameFacts
<1> QED
  BY <1>1 DEF Points

\* The running call goes to another point, or stays at its own.
LEMMA RunOnGoesTo ==
  ASSUME Steady, NEW frame \in FrameType, RunOn(frame),
         frame.node = Back.node, frame.below = Back.below
  PROVE  /\ Points' = [Points EXCEPT ![Len(Points)] = frame.ip]
         /\ frame.ip = Back.ip => Points' = Points
<1>1. /\ Len(call_stack') = Len(call_stack)
      /\ call_stack'[Len(call_stack)] = frame
      /\ \A i \in 1 .. Len(call_stack) :
           i # Len(call_stack) => call_stack'[i] = call_stack[i]
  BY RunOnFacts
<1>2. Points' = [i \in 1 .. Len(call_stack) |-> call_stack'[i].ip]
  BY <1>1, SteadyFacts, PointsAre
<1>3. /\ Len(Points) = Len(call_stack) /\ DOMAIN Points = 1 .. Len(call_stack)
      /\ Points = [i \in 1 .. Len(call_stack) |-> Points[i]]
      /\ \A i \in 1 .. Len(call_stack) : Points[i] = call_stack[i].ip
  BY PointFacts
<1>4. Points' = [Points EXCEPT ![Len(Points)] = frame.ip]
  BY <1>1, <1>2, <1>3
<1>5. frame.ip = Back.ip => Points' = Points
  BY <1>1, <1>2, <1>3, SteadyFacts
<1> QED
  BY <1>4, <1>5

\* Leaving blocks is what it is in the source.
LEMMA LeaveStep ==
  ASSUME Steady, NEW d \in Nat, d < Len(Back.ip), UNCHANGED status,
         RunOn([Back EXCEPT !.ip = SubSeq(Back.ip, 1, d)])
  PROVE  Source!Next
<1> DEFINE frame == [Back EXCEPT !.ip = SubSeq(Back.ip, 1, d)]
<1>1. d <= Len(Back.ip) /\ d \in 0 .. Len(Back.ip)
  BY SteadyFacts
<1>2. SubSeq(Back.ip, 1, d) \in Seq(RegionType)
  BY <1>1, SteadyFacts, CutPath
<1>3. /\ frame \in FrameType /\ frame.node = Back.node
      /\ frame.below = Back.below /\ frame.ip = SubSeq(Back.ip, 1, d)
  BY <1>2, SteadyFacts, FrameUpdates
<1>4. RunOn(frame)
  OBVIOUS
<1> HIDE DEF frame
<1>5. Points' = [Points EXCEPT ![Len(Points)] = SubSeq(Source!Top, 1, d)]
  BY <1>3, <1>4, RunOnGoesTo, PointFacts
<1>6. Source!Goes /\ Source!GoTo(SubSeq(Source!Top, 1, d))
  BY <1>5 DEF Source!Goes, Source!GoTo, Points, Steady
<1>8. Source!Leave(d)
  BY <1>6, PointFacts DEF Source!Leave
<1>7. d \in 0 .. Len(Source!Top)
  BY <1>1, PointFacts
<1> QED
  BY <1>7, <1>8 DEF Source!Next

\* So is entering a Try statement,
LEMMA EnterStep ==
  ASSUME Steady, NEW p \in PartLists, EnterTry(p)
  PROVE  Source!Next
<1> DEFINE path == Append(Back.ip, TryBody(p))
<1> DEFINE frame == [Back EXCEPT !.ip = path]
<1>1. RunOn(frame) /\ UNCHANGED status
  BY DEF EnterTry
<1>2. path \in Seq(RegionType)
  <2>1. TryBody(p) \in RegionType
    BY DEF TryBody, RegionType
  <2> QED
    BY <2>1, SteadyFacts
<1>3. /\ frame \in FrameType /\ frame.node = Back.node
      /\ frame.below = Back.below /\ frame.ip = path
  BY <1>2, SteadyFacts, FrameUpdates
<1> HIDE DEF frame
<1>4. Points' = [Points EXCEPT ![Len(Points)] = path]
  BY <1>1, <1>3, RunOnGoesTo
<1>5. path = Append(Source!Top, Source!TryBody(p))
  BY PointFacts DEF TryBody, Source!TryBody
<1> HIDE DEF path
<1>6. Points' = [Points EXCEPT ![Len(Points)] = Append(Source!Top, Source!TryBody(p))]
  BY <1>4, <1>5
<1>7. Source!Goes /\ Source!GoTo(Append(Source!Top, Source!TryBody(p)))
  BY <1>1, <1>6 DEF Source!Goes, Source!GoTo, Points, Steady
<1>8. Source!EnterTry(p)
  BY <1>7 DEF Source!EnterTry
<1> QED
  BY <1>8 DEF Source!Next

\* a call,
LEMMA CallStep ==
  ASSUME Steady, NEW node \in Node, Call(node)
  PROVE  Source!Next
<1> DEFINE cs == call_stack
<1> DEFINE cs2 == call_stack'
<1> DEFINE L == Len(call_stack)
<1> DEFINE frame == Frame(node, height)
<1>1. cs2 = Append(cs, frame) /\ UNCHANGED status
  BY DEF Call
<1>2. cs \in Seq(FrameType) /\ L = Len(cs) /\ L \in Nat
  BY SteadyFacts, FrameFacts
<1>3. frame.ip = <<>>
  BY DEF Frame
<1> HIDE DEF cs, frame
<1>4. Len(cs2) = L + 1 /\ cs2[L + 1] = frame /\ \A i \in 1 .. L : cs2[i] = cs[i]
  BY <1>1, <1>2
<1>5. L + 1 \in Nat \ {0}
  BY <1>2
<1>6. Points' = [i \in 1 .. (L + 1) |-> cs2[i].ip]
  BY <1>4, <1>5, PointsAre
<1>7. /\ Points \in Seq(Seq(RegionType)) /\ Len(Points) = L
      /\ \A i \in 1 .. L : Points[i] = cs[i].ip
  BY PointFacts DEF cs
<1> HIDE DEF L, cs2
<1>8. Append(Points, <<>>) = [i \in 1 .. (L + 1) |-> IF i = L + 1 THEN <<>> ELSE Points[i]]
  <2>2. <<>> \in Seq(RegionType)
    OBVIOUS
  <2>3. ASSUME NEW e \in Seq(RegionType)
        PROVE  Append(Points, e) = [i \in 1 .. (L + 1) |-> IF i = L + 1 THEN e ELSE Points[i]]
    <3>1. Append(Points, e) =
            [i \in 1 .. (Len(Points) + 1) |-> IF i = Len(Points) + 1 THEN e ELSE Points[i]]
      BY <1>7, AppendIs
    <3> QED
      BY <1>7, <3>1
  <2> QED
    BY <1>7, <2>2, <2>3
<1>9. \A i \in 1 .. (L + 1) : i # L + 1 => i \in 1 .. L
  BY <1>2
<1>10. Points' = Append(Points, <<>>)
  BY <1>3, <1>4, <1>6, <1>7, <1>8, <1>9
<1>11. Source!Call
  BY <1>1, <1>10 DEF Source!Call, Source!Goes, Points, Steady
<1> QED
  BY <1>11 DEF Source!Next

\* and a return.
LEMMA ReturnStep ==
  ASSUME Steady, NEW r \in 0 .. 1, Return(r)
  PROVE  Source!Next
<1> DEFINE cs == call_stack
<1> DEFINE cs2 == call_stack'
<1> DEFINE L == Len(call_stack)
<1>1. /\ Points \in Seq(Seq(RegionType)) /\ Len(Points) = L
      /\ \A i \in 1 .. L : Points[i] = cs[i].ip
  BY PointFacts
<1>2. CASE L = 1
  <2>1. status' = "finished" /\ UNCHANGED call_stack
    BY <1>2 DEF Return
  <2>2. Points' = Points
    BY <2>1 DEF Points
  <2>3. Source!Return
    BY <1>1, <1>2, <2>1, <2>2 DEF Source!Return, Points, Steady
  <2> QED
    BY <2>3 DEF Source!Next
<1>3. CASE L # 1
  <2> DEFINE m == L - 1
  <2> DEFINE cut == SubSeq(cs, 1, m)
  <2> DEFINE frame == [cs[m] EXCEPT !.temps = cs[m].temps + r]
  <2>1. cs2 = [cut EXCEPT ![m] = frame] /\ UNCHANGED status
    BY <1>3 DEF Return, Pop
  <2>2. Calls(cs) /\ L = Len(cs) /\ L \in Nat \ {0}
    BY SteadyFacts
  <2>3. m \in 1 .. L /\ m \in Nat \ {0} /\ m \in 1 .. m /\ 1 .. m \subseteq 1 .. L
    <3> HIDE DEF L
    <3> QED
      BY <1>3, <2>2
  <2>4. cut \in Seq(FrameType) /\ Len(cut) = m /\ \A i \in 1 .. m : cut[i] = cs[i]
    <3> HIDE DEF cs, L, m
    <3> QED
      BY <2>2, <2>3, CutCalls, FrameFacts
  <2>5. frame.ip = cs[m].ip
    <3>1. cs[m] \in FrameType
      <4> HIDE DEF cs, L, m
      <4> QED
        BY <2>2, <2>3, FrameFacts
    <3> QED
      BY <3>1 DEF FrameType
  <2> HIDE DEF cs, m, cut, frame
  <2>6. Len(cs2) = m /\ \A i \in 1 .. m : cs2[i] = (IF i = m THEN frame ELSE cs[i])
    <3> HIDE DEF cs2, L
    <3> QED
      BY <2>1, <2>3, <2>4
  <2>7. Points' = [i \in 1 .. m |-> cs2[i].ip]
    BY <2>3, <2>6, PointsAre
  <2> HIDE DEF cs2, L
  <2>8. SubSeq(Points, 1, m) = [i \in 1 .. m |-> Points[i]]
    BY <1>1, <2>3
  <2>9. \A i \in 1 .. m : cs2[i].ip = Points[i]
    BY <1>1, <2>3, <2>5, <2>6
  <2>10. Points' = SubSeq(Points, 1, Len(Points) - 1)
    BY <1>1, <2>7, <2>8, <2>9 DEF m
  <2>11. Source!Return
    BY <1>1, <1>3, <2>1, <2>10 DEF Source!Return, Points, Steady
  <2> QED
    BY <2>11 DEF Source!Next
<1> QED
  BY <1>2, <1>3

\* The Catch parts that would take an exception are those of open Try bodies.
LEMMA CatchesAre ==
  ASSUME OneCatchEach, Steady, NEW c
  PROVE  /\ \A i, j, k : Source!Catches(c, i, j, k) <=>
              Open(call_stack, i, j) /\ k = 1 /\ IsSubtypeOf(c, call_stack[i].ip[j].parts[1])
         /\ \A i, j : Source!CatchesIn(c, i, j) => Source!Catches(c, i, j, 1)
<1>1. /\ DOMAIN Points = 1 .. Len(call_stack)
      /\ \A i \in 1 .. Len(call_stack) : Points[i] = call_stack[i].ip
  BY PointFacts
<1>2. \A i \in 1 .. Len(call_stack) :
        DOMAIN call_stack[i].ip = 1 .. Len(call_stack[i].ip)
  <2> SUFFICES ASSUME NEW i \in 1 .. Len(call_stack)
               PROVE  DOMAIN call_stack[i].ip = 1 .. Len(call_stack[i].ip)
    OBVIOUS
  <2>1. call_stack[i].ip \in Seq(RegionType)
    BY SteadyFacts, Places
  <2> QED
    BY <2>1
<1>3. \A i \in 1 .. Len(call_stack) : \A j \in 1 .. Len(call_stack[i].ip) :
        DOMAIN call_stack[i].ip[j].parts = {1}
  <2> SUFFICES ASSUME NEW i \in 1 .. Len(call_stack), NEW j \in 1 .. Len(call_stack[i].ip)
               PROVE  DOMAIN call_stack[i].ip[j].parts = {1}
    OBVIOUS
  <2>1. call_stack[i].ip[j] \in RegionType
    <3>1. call_stack[i].ip \in Seq(RegionType)
      BY SteadyFacts, Places
    <3> QED
      BY <3>1
  <2> QED
    BY <2>1, OnePart
<1>4. ASSUME NEW i, NEW j, NEW k
      PROVE  Source!Catches(c, i, j, k) <=>
               /\ i \in DOMAIN Points /\ j \in DOMAIN Points[i]
               /\ Points[i][j].kind = "try" /\ k \in DOMAIN Points[i][j].parts
               /\ IsSubtypeOf(c, Points[i][j].parts[k])
  BY SameSubtypes DEF Source!Catches, Points
<1>5. ASSUME NEW i, NEW j, NEW k
      PROVE  Source!Catches(c, i, j, k) <=>
               Open(call_stack, i, j) /\ k = 1 /\ IsSubtypeOf(c, call_stack[i].ip[j].parts[1])
  BY <1>1, <1>2, <1>3, <1>4 DEF Open
<1>6. ASSUME NEW i, NEW j, Source!CatchesIn(c, i, j)
      PROVE  Source!Catches(c, i, j, 1)
  <2>1. PICK k : Source!Catches(c, i, j, k)
    BY <1>6 DEF Source!CatchesIn
  <2>2. k = 1
    BY <1>5, <2>1
  <2> QED
    BY <2>1, <2>2
<1> QED
  BY <1>5, <1>6

\* The handler that takes the exception is that of the innermost Try body that
\* would catch it.
LEMMA ThrowStep ==
  ASSUME OneCatchEach, Steady, NEW c \in Class, HandleException(c)
  PROVE  Source!Next
<1> DEFINE cs == call_stack
<1> DEFINE cs2 == call_stack'
<1> DEFINE N == Len(handlers)
<1>1. /\ Calls(cs) /\ Calls(cs2) /\ N \in Nat /\ DOMAIN handlers = 1 .. N
      /\ Match(cs, handlers) /\ Len(cs) \in Nat
  BY SteadyFacts
<1>2. /\ DOMAIN Points = 1 .. Len(cs) /\ Points \in Seq(Seq(RegionType))
      /\ Len(Points) = Len(cs) /\ \A i \in 1 .. Len(cs) : Points[i] = cs[i].ip
  BY PointFacts
\* Some handler accepts what a Try body would catch.
<1>3. ASSUME NEW i, NEW j, Source!CatchesIn(c, i, j)
      PROVE  \E n \in 1 .. N : HandlerAt(cs, handlers[n], i, j) /\ Accepts(n, c)
                               /\ i \in Nat /\ j \in Nat
  <2>1. Open(cs, i, j) /\ IsSubtypeOf(c, cs[i].ip[j].parts[1])
    BY <1>3, CatchesAre
  <2>2. i \in Nat /\ j \in Nat
    BY <2>1 DEF Open
  <2>3. PICK n \in 1 .. N : HandlerAt(cs, handlers[n], i, j)
    BY <1>1, <2>1, <2>2 DEF Match
  <2>4. Accepts(n, c)
    BY <2>1, <2>3 DEF HandlerAt, Accepts
  <2> QED
    BY <2>2, <2>3, <2>4
<1>4. CASE \A n \in DOMAIN handlers : ~Accepts(n, c)
  <2>1. status' = "unhandled" /\ UNCHANGED call_stack
    BY <1>4 DEF HandleException, Found
  <2>2. \A i, j : ~Source!CatchesIn(c, i, j)
    BY <1>1, <1>3, <1>4
  <2>3. Points' = Points
    BY <2>1 DEF Points
  <2>4. Source!Throw(c)
    BY <2>1, <2>2, <2>3 DEF Source!Throw, Points, Steady
  <2> QED
    BY <2>4 DEF Source!Next
<1>5. CASE ~\A n \in DOMAIN handlers : ~Accepts(n, c)
  <2>1. PICK n \in 1 .. N, r \in Nat, k \in Nat :
           /\ HandlerAt(cs, handlers[n], r, k)
           /\ Found(n, c)
           /\ UNCHANGED status
           /\ Len(cs2) = r /\ cs2[r].ip = handlers[n].entry
           /\ \A i \in 1 .. r : i # r => cs2[i] = cs[i]
    BY <1>5, Taken
  <2>2. /\ r \in 1 .. Len(cs) /\ k \in 1 .. Len(cs[r].ip) /\ Open(cs, r, k)
        /\ cs[r].ip \in Seq(RegionType)
        /\ handlers[n].entry = Append(SubSeq(cs[r].ip, 1, k - 1), CatchBlock(cs[r].ip[k].parts, 1))
    <3>1. r \in 1 .. Len(cs) /\ k \in 1 .. Len(cs[r].ip) /\ Open(cs, r, k)
          /\ handlers[n].entry = Append(SubSeq(cs[r].ip, 1, k - 1), CatchBlock(cs[r].ip[k].parts, 1))
      BY <2>1 DEF HandlerAt, Open
    <3> QED
      BY <1>1, <3>1, Places
  <2>3. Source!Catches(c, r, k, 1)
    <3>1. IsSubtypeOf(c, cs[r].ip[k].parts[1])
      BY <2>1 DEF Found, Accepts, HandlerAt
    <3> QED
      BY <2>2, <3>1, CatchesAre
  <2>4. ASSUME NEW i, NEW j, Source!CatchesIn(c, i, j), i \in r .. Len(Points), i > r \/ j > k
        PROVE  FALSE
    <3>1. PICK m \in 1 .. N : HandlerAt(cs, handlers[m], i, j) /\ Accepts(m, c)
                              /\ i \in Nat /\ j \in Nat
      BY <2>4, <1>3
    <3>2. Before(r, k, i, j)
      BY <2>4, <3>1 DEF Before
    <3>3. ~(m > n)
      BY <1>1, <2>1, <3>1 DEF Found
    <3>4. ~Before(i, j, r, k) /\ ~(i = r /\ j = k)
      BY <3>1, <3>2 DEF Before
    <3>5. ~(m < n)
      BY <1>1, <2>1, <3>1, <3>4 DEF Match
    <3>6. m = n
      BY <1>1, <3>3, <3>5
    <3> QED
      BY <1>1, <2>1, <3>1, <3>4, <3>6, OnePlace
  <2>5. Source!Innermost(c, r, k, 1)
    <3>1. \A k2 \in 1 .. (1 - 1) : FALSE
      OBVIOUS
    <3> QED
      BY <2>3, <2>4, <3>1 DEF Source!Innermost, Points
  <2>6. r \in DOMAIN Points /\ k \in DOMAIN Points[r] /\ 1 \in DOMAIN Points[r][k].parts
    BY <2>3 DEF Source!Catches, Points
  <2> DEFINE point == Append(SubSeq(Points[r], 1, k - 1), Source!CatchBlock(Points[r][k].parts, 1))
  <2>7. point = handlers[n].entry
    BY <1>2, <2>2 DEF CatchBlock, Source!CatchBlock
  <2>8. Points' = Append(SubSeq(Points, 1, r - 1), point)
    <3>1. r \in Nat \ {0} /\ r - 1 \in Nat /\ r - 1 <= Len(Points) /\ (r - 1) + 1 = r
      BY <1>1, <1>2, <2>2
    <3>2. Points' = [i \in 1 .. r |-> cs2[i].ip]
      BY <2>1, <3>1, PointsAre
    <3> DEFINE s == SubSeq(Points, 1, r - 1)
    <3>3. s \in Seq(Seq(RegionType)) /\ Len(s) = r - 1 /\ \A i \in 1 .. (r - 1) : s[i] = Points[i]
      <4> HIDE DEF cs, cs2, N, point
      <4> QED
        BY <1>2, <3>1
    <3>4. point \in Seq(RegionType)
      <4>1. CatchBlock(cs[r].ip[k].parts, 1) \in RegionType
        <5>1. cs[r].ip[k] \in RegionType
          <6> HIDE DEF cs
          <6> QED
            BY <2>2
        <5>2. cs[r].ip[k].parts \in PartLists /\ 1 \in DOMAIN cs[r].ip[k].parts
          BY <5>1, OnePart DEF RegionType
        <5> QED
          BY <5>2 DEF RegionType, CatchBlock
      <4>2. k - 1 \in Nat /\ k - 1 <= Len(cs[r].ip)
        <5>1. Len(cs[r].ip) \in Nat /\ k \in 1 .. Len(cs[r].ip)
          BY <2>2
        <5> HIDE DEF cs
        <5> QED
          BY <5>1
      <4>3. SubSeq(cs[r].ip, 1, k - 1) \in Seq(RegionType)
        <5> HIDE DEF cs
        <5> QED
          BY <2>2, <4>2, CutPath
      <4> HIDE DEF cs, point
      <4> QED
        BY <2>2, <2>7, <4>1, <4>3
    <3> HIDE DEF s, point
    <3>5. /\ Append(s, point) \in Seq(Seq(RegionType)) /\ Len(Append(s, point)) = (r - 1) + 1
          /\ Append(s, point)[(r - 1) + 1] = point
          /\ \A i \in 1 .. (r - 1) : Append(s, point)[i] = s[i]
      BY <3>1, <3>3, <3>4
    <3>6. DOMAIN Append(s, point) = 1 .. r
          /\ Append(s, point) = [i \in 1 .. r |-> Append(s, point)[i]]
      <4> DEFINE g == Append(s, point)
      <4>1. g \in Seq(Seq(RegionType)) /\ Len(g) = r
        BY <3>1, <3>5
      <4> HIDE DEF g
      <4>2. g = [i \in 1 .. r |-> g[i]] /\ DOMAIN g = 1 .. r
        BY <3>1, <4>1, SeqIs
      <4> QED
        BY <4>2 DEF g
    <3>7. \A i \in 1 .. r : i # r => i \in 1 .. (r - 1) /\ i \in 1 .. Len(cs)
      <4> HIDE DEF cs
      <4> QED
        BY <1>1, <2>2, <3>1
    <3>8. \A i \in 1 .. r : cs2[i].ip = Append(s, point)[i]
      <4> SUFFICES ASSUME NEW i \in 1 .. r PROVE cs2[i].ip = Append(s, point)[i]
        OBVIOUS
      <4> HIDE DEF cs, cs2
      <4>1. CASE i = r
        BY <4>1, <2>1, <2>7, <3>1, <3>5
      <4>2. CASE i # r
        BY <4>2, <1>2, <2>1, <3>3, <3>5, <3>7
      <4> QED
        BY <4>1, <4>2
    <3> HIDE DEF cs, cs2
    <3> QED
      BY <3>2, <3>6, <3>8 DEF s
  <2>9. Source!Throw(c)
    <3>1. \E i \in DOMAIN Points : \E j \in DOMAIN Points[i] : \E l \in DOMAIN Points[i][j].parts :
            /\ Source!Innermost(c, i, j, l)
            /\ Points' = Append(SubSeq(Points, 1, i - 1),
                                Append(SubSeq(Points[i], 1, j - 1),
                                       Source!CatchBlock(Points[i][j].parts, l)))
      BY <2>5, <2>6, <2>8
    <3> QED
      BY <2>1, <3>1 DEF Source!Throw, Points, Steady
  <2> QED
    BY <2>9 DEF Source!Next
<1> QED
  BY <1>4, <1>5

\* Every step is one of the source's meaning, or does not show there.
LEMMA StepSimulation ==
  ASSUME OneCatchEach, NoEarlyExits
  PROVE  BasicInv /\ BasicInv' /\ MatchInv /\ MatchInv' /\ [Next]_vars
           => Source!Next \/ (Points' = Points /\ UNCHANGED status)
<1> SUFFICES ASSUME BasicInv, BasicInv', MatchInv, MatchInv', [Next]_vars
             PROVE  Source!Next \/ (Points' = Points /\ UNCHANGED status)
  OBVIOUS
<1>1. CASE status # "running"
  <2>1. UNCHANGED vars
    BY <1>1 DEF Next, vars, EnterTry, LeaveTry, EndCatch, Jump, AtStatement, Push, Consume,
               Call, Return, Throw, ReadMissingOptional
  <2> QED
    BY <2>1 DEF vars, Points
<1>2. CASE status = "running"
  <2>1. Steady
    BY <1>2 DEF Steady, MatchInv
  <2>2. ASSUME NEW p \in PartLists, EnterTry(p) PROVE Source!Next
    BY <2>1, <2>2, EnterStep
  <2>3. Back.ip # <<>> => Len(Back.ip) - 1 \in Nat /\ Len(Back.ip) - 1 < Len(Back.ip)
    BY <2>1, SteadyFacts
  <2>4. CASE LeaveTry
    <3>1. /\ RunOn([Back EXCEPT !.ip = SubSeq(Back.ip, 1, Len(Back.ip) - 1)])
          /\ Back.ip # <<>> /\ status' \in {status, "undefined"}
      BY <2>4 DEF LeaveTry, Pop
    <3>2. UNCHANGED status
      BY <3>1 DEF MatchInv
    <3> QED
      BY <2>1, <2>3, <3>1, <3>2, LeaveStep
  <2>5. CASE EndCatch
    <3>1. /\ RunOn([Back EXCEPT !.ip = SubSeq(Back.ip, 1, Len(Back.ip) - 1)])
          /\ Back.ip # <<>> /\ UNCHANGED status
      BY <2>5 DEF EndCatch, Pop
    <3> QED
      BY <2>1, <2>3, <3>1, LeaveStep
  <2>6. ASSUME NEW d \in 0 .. MaxBlocks, Jump(d) PROVE Source!Next
    <3>1. /\ RunOn([Back EXCEPT !.ip = SubSeq(Back.ip, 1, d)])
          /\ d < Len(Back.ip) /\ UNCHANGED status /\ d \in Nat
      BY <2>6 DEF Jump
    <3> QED
      BY <2>1, <3>1, LeaveStep
  <2>7. ASSUME NEW t \in Nat, RunOn([Back EXCEPT !.temps = t]) PROVE Points' = Points
    <3> DEFINE frame == [Back EXCEPT !.temps = t]
    <3>1. /\ frame \in FrameType /\ frame.node = Back.node
          /\ frame.below = Back.below /\ frame.ip = Back.ip
      BY <2>1, SteadyFacts, FrameUpdates
    <3>2. RunOn(frame)
      BY <2>7
    <3> HIDE DEF frame
    <3> QED
      BY <2>1, <3>1, <3>2, RunOnGoesTo
  <2>8. Back.temps \in Nat
    BY BackFacts
  <2>9. CASE Push
    <3>1. RunOn([Back EXCEPT !.temps = Back.temps + 1]) /\ UNCHANGED status
      BY <2>9 DEF Push
    <3>2. Back.temps + 1 \in Nat
      BY <2>8
    <3> QED
      BY <2>7, <3>1, <3>2
  <2>10. CASE Consume
    <3>1. RunOn([Back EXCEPT !.temps = Back.temps - 1]) /\ UNCHANGED status /\ Back.temps > 0
      BY <2>10 DEF Consume
    <3>2. Back.temps - 1 \in Nat
      BY <2>8, <3>1
    <3> QED
      BY <2>7, <3>1, <3>2
  <2>11. ASSUME NEW n \in Node, Call(n) PROVE Source!Next
    BY <2>1, <2>11, CallStep
  <2>12. ASSUME NEW r \in 0 .. 1, Return(r) PROVE Source!Next
    BY <2>1, <2>12, ReturnStep
  <2>13. ASSUME NEW c \in Class, HandleException(c) PROVE Source!Next
    BY <2>1, <2>13, ThrowStep
  <2>14. CASE UNCHANGED vars
    BY <2>14 DEF vars, Points
  <2> QED
    BY <2>2, <2>4, <2>5, <2>6, <2>9, <2>10, <2>11, <2>12, <2>13, <2>14
    DEF Next, Throw, ReadMissingOptional
<1> QED
  BY <1>1, <1>2

\* Compiled exception handling does what the source text says: it implements
\* StructuredExceptions.
THEOREM ImplementsSource ==
  ASSUME OneCatchEach, NoEarlyExits
  PROVE  Spec => ImplementsStructuredExceptions
<1>1. Init => Source!Init
  <2> SUFFICES ASSUME Init PROVE Source!Init
    OBVIOUS
  <2>1. PICK n \in Node : call_stack = <<Frame(n, 0)>>
    BY DEF Init
  <2>2. DOMAIN call_stack = {1} /\ call_stack[1].ip = <<>>
    BY <2>1 DEF Frame
  <2>3. [i \in DOMAIN call_stack |-> call_stack[i].ip] = <<<<>>>>
    BY <2>2
  <2> QED
    BY <2>3 DEF Init, Source!Init
<1>2. /\ BasicInv /\ MatchInv /\ (BasicInv /\ MatchInv)' /\ [Next]_vars
        => [Source!Next]_(Source!vars)
  BY StepSimulation DEF Source!vars, Points
<1> QED
  BY <1>1, <1>2, HandlersMatch, PTL DEF Spec, ImplementsStructuredExceptions, Source!Spec
=============================================================================
