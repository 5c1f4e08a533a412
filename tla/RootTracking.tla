---------------------------- MODULE RootTracking ----------------------------
(***************************************************************************)
(* How the processor keeps root_set in step with its operand stack and its *)
(* stack frames (evm/processor.h, evm/processor.cpp): every instruction    *)
(* that pushes or pops a reference calls addRoot or removeRoot with the    *)
(* address of the slot, and a call registers the reference slots of the    *)
(* new frame.                                                              *)
(*                                                                         *)
(* A slot is abstracted to its kind: an instance reference, an interior    *)
(* pointer, or anything else.  Instructions that treat their slots alike   *)
(* share an action.                                                        *)
(***************************************************************************)
EXTENDS Integers, Sequences

CONSTANTS
  Function,     \* hosted functions
  Method, Virtual,  \* those called on an instance, and through its class
  Params,       \* kinds of the parameters, self first
  Locals,       \* kinds of the local variables
  Overrides,    \* the functions a call of each function may dispatch to
  ElementKinds, \* kinds of the array elements the program reads
  StaticKinds,  \* kinds of its static fields
  Main,         \* the function the processor starts with
  MaxOperands, MaxFrames,   \* bounds on the two stacks
  MaxLeak       \* bound on the frame memory in use when a null call leaks more

ASSUME DispatchAssumption ==
  /\ Method \subseteq Function /\ Virtual \subseteq Method
  /\ \A f \in Method : Params[f] # <<>> /\ Params[f][1] = "ref"
  /\ \A f \in Function : \A impl \in Overrides[f] : Params[impl] = Params[f]
  /\ \A f \in Function \ Virtual : Overrides[f] = {f}

Kinds == {"ref", "itp", "val"}

ASSUME KindAssumption ==
  /\ \A f \in Function : Params[f] \in Seq(Kinds) /\ Locals[f] \in Seq(Kinds)
  /\ \A f \in Function : Overrides[f] \subseteq Function
  /\ ElementKinds \subseteq Kinds /\ StaticKinds \subseteq {"ref", "val"}
  /\ Main \in Function

\* In units of four bytes: InteriorPointer is packed to twelve.
SlotSize(kind) == CASE kind = "ref" -> 2 [] kind = "itp" -> 3 [] kind = "val" -> 1

RootKinds == {"ref", "itp"}

VARIABLES
  operand,   \* slots of the operand stack, the top one last
  frames,    \* the frames of call_stack: function and start of its memory
  borrowed,  \* top of the frame memory
  static,    \* kind of what the static field holds
  roots      \* root_set: addresses, each with the kind it was added with

vars == <<operand, frames, borrowed, static, roots>>

-----------------------------------------------------------------------------
(***************************************************************************)
(* root_set.                                                               *)
(***************************************************************************)

\* std::map::insert keeps the entry of a key that is already there.
AddRoot(set, at, kind) ==
  IF kind \notin RootKinds \/ \E r \in set : r.at = at
  THEN set ELSE set \cup {[at |-> at, kind |-> kind]}

-----------------------------------------------------------------------------
(***************************************************************************)
(* Layout of stack frames: parameters, then local variables.               *)
(***************************************************************************)
\* Sum of the first n of a sequence of sizes.
SumTo(sizes, n) ==
  LET sum[k \in 0 .. Len(sizes)] == IF k = 0 THEN 0 ELSE sum[k - 1] + sizes[k]
  IN sum[n]

Sizes(kinds) == [n \in DOMAIN kinds |-> SlotSize(kinds[n])]
SizeTo(kinds, n) == SumTo(Sizes(kinds), n)

SizeOfAll(kinds) == SizeTo(kinds, Len(kinds))
Layout(f) == Params[f] \o Locals[f]
FrameSize(f) == SizeOfAll(Layout(f))

\* The addresses of the reference slots of a frame of f (stackframe_ref_offsets
\* and stackframe_interior_pointer_offsets).
FrameSlots(f, memory) ==
  {[at |-> <<"frame", memory + SizeTo(Layout(f), n - 1)>>, kind |-> Layout(f)[n]] :
     n \in {m \in DOMAIN Layout(f) : Layout(f)[m] \in RootKinds}}

OperandTop(s) ==
  IF s = <<>> THEN 0 ELSE s[Len(s)].at + SlotSize(s[Len(s)].kind)

Pushed(s, kind) == Append(s, [at |-> OperandTop(s), kind |-> kind])
RootPushed(set, s, kind) == AddRoot(set, <<"operand", OperandTop(s)>>, kind)

Popped(s, n) == SubSeq(s, 1, Len(s) - n)
RootsPopped(set, s, n) ==
  {r \in set : \A m \in (Len(s) - n + 1) .. Len(s) :
     s[m].kind \in RootKinds => r.at # <<"operand", s[m].at>>}

\* The n top slots are these, the top one last.
TopIs(kinds) ==
  /\ Len(operand) >= Len(kinds)
  /\ \A n \in DOMAIN kinds :
       operand[Len(operand) - Len(kinds) + n].kind = kinds[n]

\* Mutant: the second loop of popArgsFromOperand is missing.
AddRoots_NoInterior(set, slots) ==
  set \cup {s \in slots : s.kind = "ref" /\ \A r \in set : r.at # s.at}

AddRoots(set, slots) ==
  set \cup {s \in slots : \A r \in set : r.at # s.at}

Init ==
  /\ operand = <<>>
  /\ frames = <<[fn |-> Main, memory |-> 0]>>
  /\ borrowed = FrameSize(Main)
  /\ static = "val"
  /\ roots = FrameSlots(Main, 0)

-----------------------------------------------------------------------------
(***************************************************************************)
(* Instructions.                                                           *)
(***************************************************************************)

\* Pop the slots on top, each with its root, and push a result with its root.
Replace(kinds, result) ==
  LET rest  == Popped(operand, Len(kinds))
      freed == RootsPopped(roots, operand, Len(kinds))
  IN /\ TopIs(kinds)
     /\ Len(rest) < MaxOperands
     /\ operand' = Pushed(rest, result)
     /\ roots' = RootPushed(freed, rest, result)
     /\ UNCHANGED <<frames, borrowed, static>>

Take(kinds) ==
  /\ TopIs(kinds)
  /\ operand' = Popped(operand, Len(kinds))
  /\ roots' = RootsPopped(roots, operand, Len(kinds))

\* ldarg, ldloc, ldsfld, push, ldstr, newobj, ldnothing; ldarga, ldloca and
\* ldsflda for an interior pointer.
Load(kind) == Replace(<<>>, kind)

\* newarray, instanceof, castClass.
NewArray == Replace(<<"val">>, "ref")
InstanceOf == Replace(<<"ref">>, "val")
CastClass == Replace(<<"ref">>, "ref")

Dup ==
  /\ operand # <<>>
  /\ Len(operand) < MaxOperands
  /\ LET kind == operand[Len(operand)].kind IN
     /\ operand' = Pushed(operand, kind)
     /\ roots' = RootPushed(roots, operand, kind)
  /\ UNCHANGED <<frames, borrowed, static>>

\* stloc, starg, pop: a variable of the frame has been registered by the call.
Discard(kind) == Take(<<kind>>) /\ UNCHANGED <<frames, borrowed, static>>

\* ldfld, ldflda, load, through a reference or an interior pointer.
LoadField(base, kind) == Replace(<<base>>, kind)

\* stfld, store.
StoreField(base, kind) ==
  Take(<<kind, base>>) /\ UNCHANGED <<frames, borrowed, static>>

\* stelem (value, array, index) and stelemr (array, index, value).
StoreElement(kind) ==
  /\ Take(<<kind, "ref", "val">>) \/ Take(<<"ref", "val", kind>>)
  /\ UNCHANGED <<frames, borrowed, static>>

LoadElementAddress == Replace(<<"ref", "val">>, "itp")

\* ldelem: OpRemoveRoot<Instance>, not OpRemoveRoot<Instance*>, does nothing.
LoadElement(kind) ==
  LET rest == Popped(operand, 2) IN
  /\ TopIs(<<"ref", "val">>)
  /\ operand' = Pushed(rest, kind)
  /\ roots' = RootPushed(roots, rest, kind)
  /\ UNCHANGED <<frames, borrowed, static>>

\* stsfld registers nothing for the static field.
StoreStatic(kind) ==
  /\ Take(<<kind>>)
  /\ static' = kind
  /\ UNCHANGED <<frames, borrowed>>

-----------------------------------------------------------------------------
(***************************************************************************)
(* Calls, returns and exceptions.                                          *)
(***************************************************************************)
Reversed(s) == [n \in DOMAIN s |-> s[Len(s) + 1 - n]]

\* Arguments lie on the operand stack with the first on top, self at the
\* bottom.
Arguments(f) ==
  IF f \in Method
  THEN <<"ref">> \o Reversed(SubSeq(Params[f], 2, Len(Params[f])))
  ELSE Reversed(Params[f])

\* popArgsFromOperand computes the live set of a frame from the function the
\* instruction names; the function dispatched to has its own local variables.
Call(f, impl) ==
  /\ Len(frames) < MaxFrames
  /\ impl \in Overrides[f]
  /\ TopIs(Arguments(f))
  /\ operand' = Popped(operand, Len(Arguments(f)))
  /\ frames' = Append(frames, [fn |-> impl, memory |-> borrowed])
  /\ borrowed' = borrowed + SizeOfAll(Params[f]) + SizeOfAll(Locals[impl])
  /\ roots' = AddRoots(RootsPopped(roots, operand, Len(Arguments(f))),
                       FrameSlots(f, borrowed))
  /\ UNCHANGED static

\* ret walks the live set of a CallEnv that its move constructor left empty.
Return ==
  /\ Len(frames) > 1
  /\ frames' = SubSeq(frames, 1, Len(frames) - 1)
  /\ borrowed' = borrowed - FrameSize(frames[Len(frames)].fn)
  /\ UNCHANGED <<operand, static, roots>>

\* Memory of the frames from the first one given.
FrameSizes(first) ==
  [n \in 1 .. Len(frames) + 1 - first |-> FrameSize(frames[first - 1 + n].fn)]

\* Mutant: the handler's own frame is popped as well.
MemoryOf_WithHandler(first) ==
  SumTo(FrameSizes(first - 1), Len(frames) + 2 - first)

\* The frames above the handler's are popped, the exception is pushed.
MemoryOf(first) == SumTo(FrameSizes(first), Len(frames) + 1 - first)

Unwind(n, rest, freed, top) ==
  /\ n \in DOMAIN frames
  /\ Len(rest) < MaxOperands
  /\ frames' = SubSeq(frames, 1, n)
  /\ borrowed' = top - MemoryOf(n + 1)
  /\ operand' = Pushed(rest, "ref")
  /\ roots' = RootPushed(freed, rest, "ref")
  /\ UNCHANGED static

\* throw; ldfld, stfld, ldelema, stelem and stelemr on a null reference or a
\* subscript out of range: the operands are gone when the exception is raised.
Throw(kinds, n) ==
  /\ TopIs(kinds)
  /\ Unwind(n, Popped(operand, Len(kinds)),
            RootsPopped(roots, operand, Len(kinds)), borrowed)

FaultOperands ==
  {<<"ref">>, <<"ref", "val">>} \cup
  {<<k, "ref">> : k \in {"ref", "val"}} \cup
  {<<k, "ref", "val">> : k \in {"ref", "val"}} \cup
  {<<"ref", "val", k>> : k \in {"ref", "val"}}

\* A call on a null self has taken its arguments and borrowed the memory of a
\* frame; the exception it raises leaves that memory borrowed.
CallOnNull(f, n) ==
  /\ f \in Method
  /\ TopIs(Arguments(f))
  /\ borrowed < MaxLeak
  /\ Unwind(n, Popped(operand, Len(Arguments(f))),
            RootsPopped(roots, operand, Len(Arguments(f))),
            borrowed + (IF f \in Virtual THEN SizeOfAll(Params[f])
                        ELSE FrameSize(f)))

-----------------------------------------------------------------------------
Instruction ==
  \/ \E k \in Kinds : Load(k) \/ Discard(k)
  \/ NewArray \/ InstanceOf \/ CastClass \/ Dup
  \/ \E b \in RootKinds, k \in Kinds : LoadField(b, k) \/ StoreField(b, k)
  \/ \E k \in {"ref", "val"} : StoreElement(k)
  \/ \E k \in StaticKinds : StoreStatic(k)
  \/ LoadElementAddress
  \/ \E k \in ElementKinds : LoadElement(k)

Next ==
  \/ Instruction
  \/ \E f, impl \in Function : Call(f, impl)
  \/ Return
  \/ \E n \in 1 .. MaxFrames : \E kinds \in FaultOperands : Throw(kinds, n)
  \/ \E f \in Function, n \in 1 .. MaxFrames : CallOnNull(f, n)

Spec == Init /\ [][Next]_vars

-----------------------------------------------------------------------------
(***************************************************************************)
(* What the processor owes the collector: SemiSpaceGC assumes that every   *)
(* word holding a reference is registered, with its kind, while it is in   *)
(* use.                                                                    *)
(***************************************************************************)

Address == {"operand", "frame", "static"} \X Nat

\* Every variable keeps its type, and root_set is a map: no address is
\* registered twice.
TypeOK ==
  /\ \A n \in DOMAIN operand : operand[n].kind \in Kinds /\ operand[n].at \in Nat
  /\ frames # <<>>
  /\ \A i \in DOMAIN frames : frames[i].fn \in Function /\ frames[i].memory \in Nat
  /\ borrowed \in Nat
  /\ static \in {"ref", "val"}
  /\ \A r \in roots : r.at \in Address /\ r.kind \in RootKinds
  /\ \A r, s \in roots : r.at = s.at => r = s

Registered(at) == \E r \in roots : r.at = at

LiveSlots ==
  {[at |-> <<"operand", operand[n].at>>, kind |-> operand[n].kind] :
     n \in {m \in DOMAIN operand : operand[m].kind \in RootKinds}}
  \cup UNION {FrameSlots(frames[i].fn, frames[i].memory) : i \in DOMAIN frames}
  \cup {s \in {[at |-> <<"static", 0>>, kind |-> static]} : s.kind \in RootKinds}

\* Every reference and interior pointer on the operand stack, in a frame or in
\* a static field is registered, through calls, returns and exceptions: no
\* instruction erases the root of a slot that is still in use.
SlotsRegistered == \A s \in LiveSlots : Registered(s.at)

\* Under these two conditions on the program, which the theorem about it needs:
\* stsfld registers nothing, and a virtual call registers the variables of the
\* method it names.
StaticsAreValues == StaticKinds \cap RootKinds = {}
OverridesAlike ==
  \A f \in Function : \A impl \in Overrides[f] : Locals[impl] = Locals[f]

\* The frames of active calls do not overlap and lie below the memory the next
\* call will borrow, although an exception on a null self leaks frame memory.
FramesDisjoint ==
  \A i \in DOMAIN frames :
    frames[i].memory + FrameSize(frames[i].fn) <=
      (IF i = Len(frames) THEN borrowed ELSE frames[i + 1].memory)
=============================================================================
