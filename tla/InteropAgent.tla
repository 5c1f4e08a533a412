---------------------------- MODULE InteropAgent ----------------------------
(***************************************************************************)
(* The virtual machine creating objects (evm/interop.cpp): strings,        *)
(* exceptions and the results of intrinsics.  A constructor is bytecode,   *)
(* run by a second processor that belongs to the agent; what it creates in *)
(* turn is created by the same agent, one inside the other.  Any allocation*)
(* may move every object, and only what root_set registers follows.        *)
(*                                                                         *)
(* A C++ function is an activation on "stack".  Between its steps lie the  *)
(* allocations: what it does after one of them is one action.              *)
(***************************************************************************)
EXTENDS Integers, Sequences, FiniteSets, SequencesExt

CONSTANTS
  Ids,           \* the objects there is room for in a semi-space
  Klasses,       \* the exceptions the program's processor raises
  Texts,         \* for each of them, the strings it creates for the constructor
  MaxOperands    \* bound on the operands of the program's processor

\* The constructors the agent runs (langlibs/core). Formatting a text and appending
\* to one create an array of runes and a string of it.
Arg(n) == [op |-> "ldarg", n |-> n, text |-> ""]
Str(t) == [op |-> "ldstr", n |-> 0, text |-> t]
ToStr  == [op |-> "tostr", n |-> 0, text |-> "number"]
Op(op) == [op |-> op, n |-> 0, text |-> ""]

Ctor(klass) ==
  CASE klass = "String"    -> <<Op("sequence"), Op("ret")>>
    [] klass = "Exception" -> <<Op("message"), Op("ret")>>
    [] klass = "NullPointerException" ->
         <<Arg(0), Arg(1), Str("is null"), Op("newarray"), Op("newstring"), Op("base"), Op("ret")>>
    [] klass = "ConversionException" ->
         <<Arg(0), Str("from"), Arg(1), Op("newarray"), Op("newstring"),
           Str("to"), Op("newarray"), Op("newstring"),
           Arg(2), Op("newarray"), Op("newstring"), Op("base"), Op("ret")>>
    [] klass = "OutOfRangeException" ->
         <<Arg(0), Str("length"), ToStr, Op("newarray"), Op("newstring"),
           ToStr, Op("newarray"), Op("newstring"), Op("base"), Op("ret")>>
    [] klass = "OptionMissingException" ->
         <<Arg(0), Str("missing"), Arg(1), Op("newarray"), Op("newstring"), Op("base"), Op("ret")>>
    [] klass = "EvmInternalException" -> <<Arg(0), Arg(1), Op("base"), Op("ret")>>
    [] klass = "DivideByZeroException" -> <<Arg(0), Str(""), Op("base"), Op("ret")>>

\* How many parameters it has.
Arity(klass) ==
  CASE klass \in {"String", "Exception"} -> 1
    [] klass \in {"OutOfRangeException", "ConversionException"} -> 2
    [] klass = "DivideByZeroException" -> 0
    [] OTHER -> 1

\* What raises an exception creates a string for each parameter of the constructor,
\* or passes numbers.
ASSUME AgentAssumption ==
  /\ IsFiniteSet(Ids) /\ Ids \subseteq Nat \ {0}
  /\ Klasses \subseteq {"NullPointerException", "ConversionException", "OutOfRangeException",
                        "OptionMissingException", "EvmInternalException",
                        "DivideByZeroException"}
  /\ \A k \in Klasses : Len(Texts[k]) = IF k = "OutOfRangeException" THEN 0 ELSE Arity(k)

VARIABLES
  memory,     \* everything a statement may change: see Init
  stack,      \* the activations of C++ functions, the innermost last
  returned,   \* what the function that returned last gives its caller
  outcome     \* what was printed of an exception nobody handles, else Nothing

vars == <<memory, stack, returned, outcome>>

-----------------------------------------------------------------------------
(***************************************************************************)
(* Objects and pointers. A pointer is fresh until its object is moved      *)
(* without it. The roots are addresses: of a cell, an operand or a slot    *)
(* of a frame.                                                             *)
(***************************************************************************)
Null == [obj |-> 0, fresh |-> TRUE]
Ptr(id) == [obj |-> id, fresh |-> TRUE]

CellAt(c)       == <<"cell", c, 0>>
OperandAt(p, n) == <<p, n, 0>>
SlotAt(d, n)    == <<"slot", d, n>>

Slots(m) == UNION {{SlotAt(d, n) : n \in DOMAIN m.frames[d].slots} : d \in DOMAIN m.frames}

PointerAt(m, at) ==
  CASE at[1] = "cell" -> m.cells[at[2]].ins
    [] at[1] = "slot" -> m.frames[at[2]].slots[at[3]]
    [] OTHER          -> m.operand[at[1]][at[2]].ptr

\* Bytes in a field that are no address, and no null: they lie in no semi-space, and
\* the collector leaves them as they are.
Scrap == -1

References(m, id) == {m.heap[id].refs[f] : f \in DOMAIN m.heap[id].refs} \ {0, Scrap}

ReachedFrom(m, start) ==
  LET reached[n \in 0 .. Cardinality(Ids)] ==
        IF n = 0 THEN start \ {0}
        ELSE LET before == reached[n - 1]
             IN before \cup UNION {References(m, id) : id \in before}
  IN reached[Cardinality(Ids)]

\* What a collection keeps, and what the virtual machine has a pointer to.
Survivors(m) == ReachedFrom(m, {PointerAt(m, at).obj : at \in m.roots})
Known(m) ==
  ReachedFrom(m, {m.cells[c].ins.obj : c \in DOMAIN m.cells}
                 \cup (UNION {{o.ptr.obj : o \in ToSet(m.operand[p])} : p \in DOMAIN m.operand})
                 \cup {PointerAt(m, at).obj : at \in Slots(m)})

\* A collection moves what it keeps, with the pointers that are registered.
After(m, at, ptr) == IF at \in m.roots \/ ptr = Null THEN ptr ELSE [ptr EXCEPT !.fresh = FALSE]
Collected(m) ==
  [m EXCEPT
     !.heap = [id \in Survivors(m) |-> m.heap[id]],
     !.cells = [c \in DOMAIN m.cells |->
                  [m.cells[c] EXCEPT !.ins = After(m, CellAt(c), @)]],
     !.operand = [p \in DOMAIN m.operand |-> [n \in DOMAIN m.operand[p] |->
                    [m.operand[p][n] EXCEPT !.ptr = After(m, OperandAt(p, n), @)]]],
     !.frames = [d \in DOMAIN m.frames |->
                   [m.frames[d] EXCEPT !.slots =
                      [n \in DOMAIN @ |-> After(m, SlotAt(d, n), @[n])]]]]

Least(S) == CHOOSE n \in S : \A k \in S : n <= k
Unused(m) == Ids \ DOMAIN m.heap
NextId(m) == Least(Unused(m))

\* The memory with one object more, and the pointer to it.
Created(m, klass, refs, text) ==
  [m EXCEPT !.heap = [id \in DOMAIN m.heap \cup {NextId(m)} |->
     IF id = NextId(m) THEN [klass |-> klass, refs |-> refs, text |-> text] ELSE m.heap[id]]]

\* GarbageCollector::allocate: the memory it finds room in, collected or not. An object
\* that no pointer leads to is the same whether it is still there or not.
Room(m) ==
  {r \in {[m EXCEPT !.heap = [id \in Known(m) \cap DOMAIN m.heap |-> m.heap[id]]], Collected(m)} :
     Unused(r) # {}}

-----------------------------------------------------------------------------
(***************************************************************************)
(* Protected cells: the object they share, the number of handles to it.    *)
(***************************************************************************)
NextCell(m) == Least((1 .. Cardinality(DOMAIN m.cells) + 1) \ DOMAIN m.cells)

\* Mutant: the cell does not register its pointer.
MakeProtectedCell_Unregistered(m, ptr) ==
  [m EXCEPT !.cells = [d \in DOMAIN m.cells \cup {NextCell(m)} |->
                         IF d = NextCell(m) THEN [ins |-> ptr, count |-> 1] ELSE m.cells[d]]]

MakeProtectedCell(m, ptr) ==
  [m EXCEPT !.cells = [d \in DOMAIN m.cells \cup {NextCell(m)} |->
                         IF d = NextCell(m) THEN [ins |-> ptr, count |-> 1] ELSE m.cells[d]],
            !.roots = @ \cup {CellAt(NextCell(m))}]

\* Mutant: a copy shares the object without being counted.
Copied_Uncounted(m, cells) == m

\* Copies of the handles in a sequence, and their destruction.
Times(c, cells) == Cardinality({n \in DOMAIN cells : cells[n] = c})

Copied(m, cells) ==
  [m EXCEPT !.cells = [c \in DOMAIN m.cells |-> [m.cells[c] EXCEPT !.count = @ + Times(c, cells)]]]

Destroyed(m, cells) ==
  LET kept == {c \in DOMAIN m.cells : m.cells[c].count > Times(c, cells)}
  IN [m EXCEPT !.cells = [c \in kept |-> [m.cells[c] EXCEPT !.count = @ - Times(c, cells)]],
               !.roots = @ \ {CellAt(c) : c \in DOMAIN m.cells \ kept}]

-----------------------------------------------------------------------------
(***************************************************************************)
(* Operand stacks and frames. meant is what the source says of an operand. *)
(***************************************************************************)
Nothing == [klass |-> "", text |-> <<>>]

Pushed(m, p, ptr, meant) ==
  [m EXCEPT !.operand[p] = Append(@, [ptr |-> ptr, meant |-> meant])]

Registered(m, p) == [m EXCEPT !.roots = @ \cup {OperandAt(p, Len(m.operand[p]))}]
PushedRoot(m, p, ptr, meant) == Registered(Pushed(m, p, ptr, meant), p)

Popped(m, p, n) ==
  LET left == Len(m.operand[p]) - n
  IN [m EXCEPT !.operand[p] = SubSeq(@, 1, left),
               !.roots = @ \ {OperandAt(p, k) : k \in left + 1 .. Len(m.operand[p])}]

Operand(m, p, n) == m.operand[p][Len(m.operand[p]) - n]   \* n below the top

\* invokeCtor: the parameters, the first on top, and the object go to a new frame.
InvokeCtor(m, klass) ==
  LET slots == [n \in 1 .. Arity(klass) + 1 |->
                  Operand(m, "agent", IF n = 1 THEN Arity(klass) ELSE n - 2).ptr]
      t == Popped(m, "agent", Arity(klass) + 1)
      d == Len(m.frames) + 1
  IN [t EXCEPT !.frames = Append(@, [klass |-> klass, ip |-> 1, slots |-> slots]),
               !.roots = @ \cup {SlotAt(d, n) : n \in DOMAIN slots}]

-----------------------------------------------------------------------------
(***************************************************************************)
(* Activations. cells are the handles a function's variables hold, args    *)
(* those of its list of parameters; at says how far it got, and depth how  *)
(* many frames the agent's processor had when it began.                    *)
(***************************************************************************)
Top == Last(stack)

Call(fn, on, klass, texts, args) ==
  [fn |-> fn, at |-> 1, on |-> on, klass |-> klass, texts |-> texts, cells |-> <<>>,
   args |-> args, depth |-> Len(memory.frames)]
CallString(fn, text) == Call(fn, "agent", "String", <<text>>, <<>>)
CallInstance(fn, klass, args) == Call(fn, "agent", klass, <<>>, args)

Reached(fn, at) ==
  /\ stack # <<>>
  /\ Top.fn = fn /\ Top.at = at

Nowhere == [ptr |-> Null, cell |-> 0]
Raw(ptr) == [ptr |-> ptr, cell |-> 0]
Handle(c) == [ptr |-> Null, cell |-> c]

\* The function goes on as "frame", having called the functions behind it.
Goes(m, frame, calls) ==
  /\ memory' = m
  /\ stack' = Front(stack) \o <<frame>> \o calls
  /\ returned' = Nowhere
  /\ UNCHANGED outcome

Returns(m, value) ==
  /\ memory' = m
  /\ stack' = Front(stack)
  /\ returned' = value
  /\ UNCHANGED outcome

-----------------------------------------------------------------------------
(***************************************************************************)
(* The functions of the agent.                                             *)
(***************************************************************************)
\* Value::pushToStack.
Value(m, cell) ==
  [ptr |-> IF cell = 0 THEN Null ELSE m.cells[cell].ins, meant |-> Nothing]

PushedValues(m, args) ==
  LET height == Len(m.operand["agent"])
  IN [m EXCEPT !.operand["agent"] = @ \o [n \in DOMAIN args |-> Value(m, args[n])],
               !.roots = @ \cup {OperandAt("agent", height + n) : n \in {k \in DOMAIN args : args[k] # 0}}]

\* Mutant: the first argument is pushed first.
PushParameters_InOrder(m, args) == PushedValues(m, args)

\* The values of a list of parameters, the last one first; 0 stands for a number.
PushParameters(m, args) == PushedValues(m, Reverse(args))

\* createUnprotectedInstance: the object lies in a cell and on the operand stack,
\* then the constructor is called.
BeginInstance ==
  /\ Reached("createUnprotectedInstance", 1)
  /\ \E room \in Room(memory) :
       LET refs == IF Top.klass = "String" THEN [sequence |-> 0]
                   ELSE [message |-> 0, name |-> 0, trace |-> 0]
           cell == NextCell(room)
           m == MakeProtectedCell(Created(room, Top.klass, refs, <<>>), Ptr(NextId(room)))
           pushed == PushParameters(PushedRoot(m, "agent", m.cells[cell].ins, Nothing), Top.args)
       IN Goes(InvokeCtor(pushed, Top.klass), [Top EXCEPT !.at = 2, !.cells = <<cell>>], <<>>)

\* The cell and the arguments go out of scope.
EndInstance ==
  /\ Reached("createUnprotectedInstance", 3)
  /\ Returns(Destroyed(memory, Top.cells \o Top.args), Raw(memory.cells[Top.cells[1]].ins))

\* createUnprotectedString: the array is filled before anything else is created;
\* the list of arguments is a copy of the initializer.
BeginString ==
  /\ Reached("createUnprotectedString", 1)
  /\ \E room \in Room(memory) :
       LET cell == NextCell(room)
           array == Created(room, "Rune[]", [n \in {} |-> 0], Top.texts)
           m == MakeProtectedCell(array, Ptr(NextId(room)))
       IN Goes(Copied(m, <<cell>>), [Top EXCEPT !.at = 2, !.cells = <<cell>>],
               <<CallInstance("createUnprotectedInstance", "String", <<cell>>)>>)

EndString ==
  /\ Reached("createUnprotectedString", 2)
  /\ Returns(Destroyed(memory, Top.cells), returned)

\* createString and createInstance protect what the others return.
BeginProtected ==
  \/ /\ Reached("createString", 1)
     /\ Goes(memory, [Top EXCEPT !.at = 2], <<CallString("createUnprotectedString", Top.texts[1])>>)
  \/ /\ Reached("createInstance", 1)
     /\ Goes(memory, [Top EXCEPT !.at = 2, !.args = <<>>],
             <<CallInstance("createUnprotectedInstance", Top.klass, Top.args)>>)

EndProtected ==
  /\ Reached("createString", 2) \/ Reached("createInstance", 2)
  /\ Returns(MakeProtectedCell(memory, returned.ptr), Handle(NextCell(memory)))

-----------------------------------------------------------------------------
(***************************************************************************)
(* Instructions of a constructor, on the agent's processor.                *)
(***************************************************************************)
Frame == Last(memory.frames)
Inst == Ctor(Frame.klass)[Frame.ip]
Executes(op) == Reached("createUnprotectedInstance", 2) /\ Inst.op = op
Advanced(m) == [m EXCEPT !.frames[Len(m.frames)].ip = @ + 1]
Step(m) == Goes(Advanced(m), Top, <<>>)

Ldarg ==
  /\ Executes("ldarg")
  /\ Step(PushedRoot(memory, "agent", Frame.slots[Inst.n + 1], Nothing))

\* ldstr and the intrinsics that turn a number into a string enter the agent again.
CreatesString ==
  /\ Executes("ldstr") \/ Executes("tostr")
  /\ Goes(Advanced(memory), Top, <<CallString(Inst.op, Inst.text)>>)

TextOf(m, ptr) == m.heap[m.heap[ptr.obj].refs.sequence].text

Newarray ==
  /\ Executes("newarray")
  /\ \E room \in Room(memory) :
       LET text == TextOf(room, Operand(room, "agent", 1).ptr) \o TextOf(room, Operand(room, "agent", 0).ptr)
       IN Step(PushedRoot(Created(room, "Rune[]", [n \in {} |-> 0], text),
                          "agent", Ptr(NextId(room)), Nothing))

Newstring ==
  /\ Executes("newstring")
  /\ \E room \in Room(memory) :
       LET refs == [sequence |-> Operand(room, "agent", 0).ptr.obj]
       IN Step(PushedRoot(Popped(Created(room, "String", refs, <<>>), "agent", 3),
                          "agent", Ptr(NextId(room)), Nothing))

\* OpStfld copies as many bytes as the field's offset, 18, off the operand stack: the
\* value, the reference to the object, the byte 1 and a stale one. In an exception they
\* cover the message, the name and a part of the trace; behind a string, which is the
\* last object allocated, nothing lies yet.
Written(refs, id, field, ref) ==
  IF field = "message" THEN [message |-> ref, name |-> id, trace |-> Scrap]
                       ELSE [refs EXCEPT ![field] = ref]

Stfld(field) ==
  /\ Executes(field)
  /\ LET id == Frame.slots[1].obj
     IN Step([memory EXCEPT !.heap[id].refs = Written(@, id, field, Frame.slots[2].obj)])

BaseCtor ==
  /\ Executes("base")
  /\ Goes(InvokeCtor(Advanced(memory), "Exception"), Top, <<>>)

\* The processor leaves execute when the frame it began with returns.
Ret ==
  /\ Executes("ret")
  /\ LET d == Len(memory.frames)
         m == [memory EXCEPT !.frames = Front(@),
                             !.roots = @ \ {SlotAt(d, n) : n \in DOMAIN Frame.slots}]
     IN Goes(m, [Top EXCEPT !.at = IF d - 1 = Top.depth THEN 3 ELSE 2], <<>>)

-----------------------------------------------------------------------------
(***************************************************************************)
(* What makes a processor p use the agent.                                 *)
(***************************************************************************)
\* ldstr pushes the raw pointer, an intrinsic that of a cell.
BeginLoad ==
  \/ /\ Reached("ldstr", 1)
     /\ Goes(memory, [Top EXCEPT !.at = 2], <<CallString("createUnprotectedString", Top.texts[1])>>)
  \/ /\ Reached("tostr", 1)
     /\ Goes(memory, [Top EXCEPT !.at = 2], <<CallString("createString", Top.texts[1])>>)

AString == [klass |-> "String", text |-> Top.texts]
EndLoad ==
  \/ /\ Reached("ldstr", 2)
     /\ Returns(PushedRoot(memory, Top.on, returned.ptr, AString), Nowhere)
  \/ /\ Reached("tostr", 2)
     /\ LET m == PushedRoot(memory, Top.on, memory.cells[returned.cell].ins, AString)
        IN Returns(Destroyed(m, <<returned.cell>>), Nowhere)

\* nullPointerCheck, arrayAccessCheck, optionalParameterCheck, castClass,
\* callintrinsic, OpDiv: first the strings for the constructor, one by one.
NeedsText == Len(Top.cells) < Len(Texts[Top.klass])
RaiseText ==
  \/ /\ Reached("raise", 1) /\ NeedsText
     /\ Goes(memory, [Top EXCEPT !.at = 2],
             <<CallString("createString", Texts[Top.klass][Len(Top.cells) + 1])>>)
  \/ /\ Reached("raise", 2)
     /\ Goes(memory, [Top EXCEPT !.at = 1, !.cells = Append(@, returned.cell)], <<>>)

RaiseCreate ==
  /\ Reached("raise", 1) /\ ~NeedsText
  /\ LET args == IF Top.cells = <<>> THEN [n \in 1 .. Arity(Top.klass) |-> 0] ELSE Top.cells
     IN Goes(Copied(memory, Top.cells), [Top EXCEPT !.at = 3],
             <<CallInstance("createInstance", Top.klass, args)>>)

RaiseHandle ==
  /\ Reached("raise", 3)
  /\ Goes(Destroyed(memory, Top.cells),
          [Top EXCEPT !.fn = "handleException", !.at = 1, !.cells = <<returned.cell>>], <<>>)

\* handleException: without a handler the message is printed; with one the exception
\* gets its name and its trace.
Thrown == memory.cells[Top.cells[1]].ins
Unhandled ==
  /\ Reached("handleException", 1)
  /\ outcome' = [klass |-> Top.klass, text |-> TextOf(memory, [obj |-> memory.heap[Thrown.obj].refs.message])]
  /\ memory' = Destroyed(memory, Top.cells)
  /\ stack' = Front(stack)
  /\ UNCHANGED returned

Named(field) ==
  Destroyed([memory EXCEPT !.heap[Thrown.obj].refs[field] = memory.cells[returned.cell].ins.obj],
            <<returned.cell>>)

Handled ==
  \/ /\ Reached("handleException", 1)
     /\ Goes(memory, [Top EXCEPT !.at = 2], <<CallString("createString", Top.klass)>>)
  \/ /\ Reached("handleException", 2)
     /\ Goes(Named("name"), [Top EXCEPT !.at = 3], <<CallString("createString", "trace")>>)
  \/ /\ Reached("handleException", 3)
     /\ LET m == PushedRoot(Named("trace"), "main", Thrown, [klass |-> Top.klass, text |-> <<>>])
        IN Returns(Destroyed(m, Top.cells), Nowhere)

-----------------------------------------------------------------------------
(***************************************************************************)
(* The program's processor.                                                *)
(***************************************************************************)
Init ==
  /\ memory = [heap |-> [id \in {} |-> 0], cells |-> [c \in {} |-> 0],
               operand |-> [p \in {"main", "agent"} |-> <<>>], frames |-> <<>>, roots |-> {}]
  /\ stack = <<>>
  /\ returned = Nowhere
  /\ outcome = Nothing

Idle == stack = <<>> /\ outcome = Nothing

Instruction ==
  /\ Idle
  /\ Len(memory.operand["main"]) < MaxOperands
  /\ \E call \in {Call(fn, "main", "String", <<"text">>, <<>>) : fn \in {"ldstr", "tostr"}}
                   \cup {Call("raise", "main", k, <<>>, <<>>) : k \in Klasses} :
       stack' = <<call>>
  /\ UNCHANGED <<memory, returned, outcome>>

\* What was created is used and forgotten.
Drop ==
  /\ Idle
  /\ memory.operand["main"] # <<>>
  /\ memory' = Popped(memory, "main", 1)
  /\ UNCHANGED <<stack, returned, outcome>>

Agent ==
  \/ BeginInstance \/ EndInstance \/ BeginString \/ EndString
  \/ BeginProtected \/ EndProtected
  \/ Ldarg \/ CreatesString \/ Newarray \/ Newstring \/ BaseCtor \/ Ret
  \/ \E field \in {"sequence", "message"} : Stfld(field)
  \/ BeginLoad \/ EndLoad \/ RaiseText \/ RaiseCreate \/ RaiseHandle \/ Handled

\* What nobody handles ends the program.
Ended == outcome # Nothing /\ UNCHANGED vars

Next == Agent \/ Unhandled \/ Instruction \/ Drop \/ Ended

Spec == Init /\ [][Next]_vars

-----------------------------------------------------------------------------
(***************************************************************************)
(* What the agent owes the program: no collection, wherever it comes, shows*)
(* in what it creates.                                                     *)
(***************************************************************************)

Current(ptr) == ptr = Null \/ (ptr.fresh /\ ptr.obj \in DOMAIN memory.heap)

\* Whatever allocation moved the objects, every pointer the virtual machine goes on
\* with is current: those in cells, on both operand stacks, in the frames of
\* constructors, and one that a function returns unprotected.
PointersCurrent ==
  /\ \A c \in DOMAIN memory.cells : Current(memory.cells[c].ins)
  /\ \A p \in DOMAIN memory.operand : \A n \in DOMAIN memory.operand[p] :
       Current(memory.operand[p][n].ptr)
  /\ \A at \in Slots(memory) : Current(PointerAt(memory, at))
  /\ Current(returned.ptr)

\* The handles to a cell: variables and arguments of active functions, and the
\* handle one returns.
HandlesTo(c, list) == {n \in DOMAIN list : list[n] = c}
Handles(c) ==
  Cardinality(UNION {{d} \X HandlesTo(c, stack[d].cells) : d \in DOMAIN stack})
  + Cardinality(UNION {{d} \X HandlesTo(c, stack[d].args) : d \in DOMAIN stack})
  + (IF returned.cell = c THEN 1 ELSE 0)

\* A cell counts its handles through copies, moves and lists of values, and is
\* registered as long as there is one: it is deleted once, and the collector follows
\* no pointer into a deleted one. When an instruction ends nothing is left of it but
\* its operand (ProtectedCell, Value, Agent::createUnprotectedInstance).
CellsBalanced ==
  /\ \A c \in DOMAIN memory.cells : memory.cells[c].count = Handles(c)
  /\ {at[2] : at \in {r \in memory.roots : r[1] = "cell"}} = DOMAIN memory.cells
  /\ stack = <<>> =>
       /\ DOMAIN memory.cells = {}
       /\ memory.operand["agent"] = <<>> /\ memory.frames = <<>>
       /\ memory.roots = {OperandAt("main", n) : n \in DOMAIN memory.operand["main"]}

\* What the constructor of an exception makes of its arguments.
Message(klass) ==
  CASE klass = "NullPointerException"   -> <<Texts[klass][1], "is null">>
    [] klass = "ConversionException"    -> <<"from", Texts[klass][1], "to", Texts[klass][2]>>
    [] klass = "OutOfRangeException"    -> <<"length", "number", "number">>
    [] klass = "OptionMissingException" -> <<"missing", Texts[klass][1]>>
    [] klass = "EvmInternalException"   -> <<Texts[klass][1]>>
    [] klass = "DivideByZeroException"  -> <<"">>

FieldText(id, field) == TextOf(memory, [obj |-> memory.heap[id].refs[field]])

IsMeant(id, meant) ==
  /\ memory.heap[id].klass = meant.klass
  /\ IF meant.klass = "String" THEN TextOf(memory, [obj |-> id]) = meant.text
     ELSE /\ FieldText(id, "message") = Message(meant.klass)
          /\ FieldText(id, "name") = <<meant.klass>>
          /\ FieldText(id, "trace") = <<"trace">>

\* A string the virtual machine creates has its text, and an exception the program
\* catches its message, its name and its trace, however many strings were created
\* on the way, by the agent's constructors and for them; they stay so while the
\* program goes on. An exception nobody catches is printed with its message.
CreatedAsMeant ==
  /\ \A n \in DOMAIN memory.operand["main"] :
       IsMeant(memory.operand["main"][n].ptr.obj, memory.operand["main"][n].meant)
  /\ outcome # Nothing => outcome.text = Message(outcome.klass)
=============================================================================
