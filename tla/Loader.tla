------------------------------- MODULE Loader -------------------------------
(***************************************************************************)
(* Loader::load (evm/loader.cpp) after the symbols of the packages have    *)
(* been created: collect what classes and records depend on, sort them,    *)
(* and complete every symbol, a step per symbol, so that the layout of a   *)
(* class or a record is computed once, from what it depends on.            *)
(*                                                                         *)
(* A program is abstracted to what the layouts are computed from.  The     *)
(* members of a class are named by numbers, in the order of the map they   *)
(* are kept in; "type" is the type of a field, or the type of the variable *)
(* a method keeps in its frame.                                            *)
(***************************************************************************)
EXTENDS Integers, Sequences, FiniteSets

CONSTANTS
  Class,      \* the classes of the packages, Object and Array among them
  Object, Array,
  Record,     \* record types
  Name,       \* names of members, 1 to some number
  Program     \* the programs that may be loaded

Type == {"int", "ref", "array"} \cup Record
MemberKind == {"none", "field", "static", "plain", "virtual", "override"}

ASSUME ClassAssumption ==
  {Object, Array} \subseteq Class /\ Object # Array /\ IsFiniteSet(Class)
ASSUME RecordAssumption ==
  IsFiniteSet(Record) /\ Record \cap {"int", "ref", "array", "none"} = {}
ASSUME NameAssumption == IsFiniteSet(Name) /\ Name = 1 .. Cardinality(Name)
ASSUME ProgramAssumption ==
  \A p \in Program :
    /\ p.base \in [Class -> Class]
    /\ p.member \in [Class -> [Name -> [kind : MemberKind, type : Type]]]
    /\ p.fields \in [Record -> [Name -> Type \cup {"none"}]]
    /\ p.module \subseteq Type

VARIABLES
  program,    \* the program being loaded
  phase,      \* where load is
  inherit,    \* inherit_dependencies
  size,       \* size_dependencies
  todo,       \* what is left of the order a loop of load runs over
  layout,     \* what complete() computed for a class
  length,     \* record_memory_size
  arrays      \* the specialized array types: whether there is one, its layout

vars == <<program, phase, inherit, size, todo, layout, length, arrays>>

Inherit == INSTANCE TopologicalSort
             WITH Vertex <- Class, sort <- inherit
Size == INSTANCE TopologicalSort
          WITH Vertex <- Record, sort <- size

Member(c, n) == program.member[c][n]
Base(c) == program.base[c]

-----------------------------------------------------------------------------
(***************************************************************************)
(* What the compiler accepts (Semantic.inheritCheck): no circular          *)
(* inheritance, no virtual method that hides a virtual one, no override    *)
(* without a virtual method to override.                                   *)
(***************************************************************************)
ProperAncestors(p, c) ==
  LET up[i \in 0 .. Cardinality(Class)] ==
        IF i = 0 THEN {c}
        ELSE {p.base[a] : a \in up[i - 1] \ {Object}}
  IN  UNION {up[i] : i \in 1 .. Cardinality(Class)}

Accepted(p) ==
  \A c \in Class :
    LET above == ProperAncestors(p, c)
        VirtualAbove(n) == \E a \in above : p.member[a][n].kind = "virtual"
    IN  /\ c \notin above
        /\ \A n \in Name : /\ p.member[c][n].kind = "virtual" => ~VirtualAbove(n)
                           /\ p.member[c][n].kind = "override" => VirtualAbove(n)

-----------------------------------------------------------------------------
(***************************************************************************)
(* Layouts (runtime.cpp).  Sizes are in units of four bytes; -1 is the     *)
(* size of what is not completed, and asking for it throws.                *)
(***************************************************************************)

NoLayout == [size |-> -1, refs |-> {}, offset |-> [n \in Name |-> -1],
             slot |-> <<>>, table |-> <<>>]

RuntimeSize(type) ==
  CASE type = "int" -> 1
    [] type \in {"ref", "array"} -> 2
    [] type \in Record -> length[type]

SizeKnown(type) == RuntimeSize(type) # -1

\* Mutant: the offset of a reference is noted after the field was added.
WithField_RefAfter(l, n, type) ==
  [l EXCEPT !.offset[n] = l.size, !.size = l.size + RuntimeSize(type),
            !.refs = IF type \in {"ref", "array"}
                     THEN @ \cup {l.size + RuntimeSize(type)} ELSE @]

WithField(l, n, type) ==
  [l EXCEPT !.offset[n] = l.size, !.size = l.size + RuntimeSize(type),
            !.refs = IF type \in {"ref", "array"} THEN @ \cup {l.size} ELSE @]

\* A virtual method takes a new slot, at the end of the table.
WithVirtual(l, c, n) ==
  [l EXCEPT !.slot = [m \in DOMAIN l.slot \cup {n} |->
                        IF m = n THEN Len(l.table) + 1 ELSE l.slot[m]],
            !.table = Append(@, <<c, n>>)]

\* Mutant: an override takes a slot of its own.
WithOverride_NewSlot(l, c, n) == WithVirtual(l, c, n)

\* An override replaces the method in the slot of its name.
WithOverride(l, c, n) == [l EXCEPT !.table[l.slot[n]] = <<c, n>>]

WithMember(l, c, n) ==
  LET m == Member(c, n)
  IN  CASE m.kind = "field" -> WithField(l, n, m.type)
        [] m.kind = "virtual" -> WithVirtual(l, c, n)
        [] m.kind = "override" -> WithOverride(l, c, n)
        [] OTHER -> l

\* Class::completeFieldAndVFtn starts from the layout of the base class.
Inherited(c) ==
  IF c = Object THEN [NoLayout EXCEPT !.size = 0]
  ELSE [layout[Base(c)] EXCEPT !.offset = NoLayout.offset]

\* The layout after each of its members, which are iterated by name.
CompletedLayout(c) ==
  LET after[n \in 0 .. Cardinality(Name)] ==
        IF n = 0 THEN Inherited(c) ELSE WithMember(after[n - 1], c, n)
  IN  after[Cardinality(Name)]

\* complete() of a class throws when the size of its base or of a type in one
\* of its members is not known yet.
CanComplete(c) ==
  /\ Inherited(c).size # -1
  /\ \A n \in Name : Member(c, n).kind # "none" => SizeKnown(Member(c, n).type)

FieldType(r, n) == program.fields[r][n]
Fields(r) == {n \in Name : FieldType(r, n) # "none"}
FieldTypes(r) == {FieldType(r, n) : n \in Fields(r)}

\* Record::complete.  A record reached as its own field has the size summed up
\* so far (only a hidden one, which no solve has looked at).
Length(r) ==
  LET sum[n \in 0 .. Cardinality(Name)] ==
        IF n = 0 THEN 0
        ELSE sum[n - 1] + CASE n \notin Fields(r) -> 0
                            [] FieldType(r, n) = r -> sum[n - 1]
                            [] OTHER -> RuntimeSize(FieldType(r, n))
  IN  sum[Cardinality(Name)]

\* SpecializedArrayPool::query, by a type token of the program: the array type
\* is created by the first one, and completed at once after completeAll.
Queried(a, types) ==
  IF "array" \notin types \/ a.created THEN a
  ELSE [a EXCEPT !.created = TRUE,
                 !.layout = IF a.instant THEN layout[Array] ELSE NoLayout]

-----------------------------------------------------------------------------
(***************************************************************************)
(* load.                                                                   *)
(***************************************************************************)
Init ==
  /\ program \in {p \in Program : Accepted(p)}
  /\ phase = "collect"
  /\ inherit = Inherit!Empty /\ size = Size!Empty
  /\ todo = <<>>
  /\ layout = [c \in Class |-> NoLayout]
  /\ length = [r \in Record |-> -1]
  /\ arrays = [created |-> FALSE, instant |-> FALSE, layout |-> NoLayout]

\* Loader::load visits Global and the modules, not the members of a class: a
\* class or a record declared in a class is hidden.
Visited(symbols) == symbols \ program.hidden

Containing(r) == {n \in Fields(r) : FieldType(r, n) \in Record}
Contained(r) == FieldTypes(r) \cap Record

\* Mutant: a record without record fields is not added.
SizeGraph_OnlyEdges ==
  LET R == Visited(Record)
  IN  [Size!Empty EXCEPT
         !.vexs = UNION {Contained(r) \cup {r} : r \in {s \in R : Contained(s) # {}}},
         !.edges = UNION {Contained(r) \X {r} : r \in R},
         !.in_degree = [r \in Record |-> IF r \in R THEN Cardinality(Containing(r)) ELSE 0]]

\* What addVex and addEdge build: a vertex for each record, a call of addEdge
\* for each field that is a record.
SizeGraph ==
  LET R == Visited(Record)
  IN  [Size!Empty EXCEPT
         !.vexs = R \cup UNION {Contained(r) : r \in R},
         !.edges = UNION {Contained(r) \X {r} : r \in R},
         !.in_degree = [r \in Record |-> IF r \in R THEN Cardinality(Containing(r)) ELSE 0]]

\* Mutant: the edge goes the other way.
InheritGraph_Reversed ==
  LET classes == Visited(Class) \ {Object}
  IN  [Inherit!Empty EXCEPT
         !.vexs = classes \cup {Base(c) : c \in classes},
         !.edges = {<<c, Base(c)>> : c \in classes},
         !.in_degree = [b \in Class |-> Cardinality({c \in classes : Base(c) = b})]]

\* A call of addEdge for each class but Object.
InheritGraph ==
  LET classes == Visited(Class) \ {Object}
  IN  [Inherit!Empty EXCEPT
         !.vexs = classes \cup {Base(c) : c \in classes},
         !.edges = {<<Base(c), c>> : c \in classes},
         !.in_degree = [c \in Class |-> IF c \in classes THEN 1 ELSE 0]]

CollectDependencies ==
  /\ phase = "collect"
  /\ phase' = "inherit"
  /\ inherit' = InheritGraph
  /\ size' = SizeGraph
  /\ arrays' = Queried(arrays, UNION {FieldTypes(r) : r \in Visited(Record)})
  /\ UNCHANGED <<program, todo, layout, length>>

SolveInherit ==
  /\ phase = "inherit"
  /\ Inherit!Solve \/ Inherit!SolveStep
  /\ UNCHANGED <<program, phase, size, todo, layout, length, arrays>>

InheritSolved ==
  /\ phase = "inherit" /\ inherit.phase = "solved"
  /\ phase' = IF Inherit!Solved THEN "size" ELSE "failed"
  /\ UNCHANGED <<program, inherit, size, todo, layout, length, arrays>>

SolveSize ==
  /\ phase = "size"
  /\ Size!Solve \/ Size!SolveStep
  /\ UNCHANGED <<program, phase, inherit, todo, layout, length, arrays>>

SizeSolved ==
  /\ phase = "size" /\ size.phase = "solved"
  /\ phase' = IF Size!Solved THEN "classes" ELSE "failed"
  /\ todo' = inherit.order
  /\ UNCHANGED <<program, inherit, size, layout, length, arrays>>

CompleteClass ==
  /\ phase = "classes" /\ todo # <<>>
  /\ LET c == Head(todo)
     IN  /\ phase' = IF CanComplete(c) THEN phase ELSE "failed"
         /\ layout' = IF CanComplete(c) THEN [layout EXCEPT ![c] = CompletedLayout(c)]
                      ELSE layout
         /\ arrays' = Queried(arrays, {Member(c, n).type : n \in Name})
  /\ todo' = Tail(todo)
  /\ UNCHANGED <<program, inherit, size, length>>

CompleteRecord ==
  /\ phase = "records" /\ todo # <<>>
  /\ LET r == Head(todo)
         known == \A type \in FieldTypes(r) \ {r} : SizeKnown(type)
     IN  /\ phase' = IF known THEN phase ELSE "failed"
         /\ length' = IF known THEN [length EXCEPT ![r] = Length(r)] ELSE length
         /\ arrays' = Queried(arrays, FieldTypes(r))
  /\ todo' = Tail(todo)
  /\ UNCHANGED <<program, inherit, size, layout>>

\* A loop of load has run over its order; the next one begins.
EndClasses ==
  /\ phase = "classes" /\ todo = <<>>
  /\ phase' = "records" /\ todo' = size.order
  /\ UNCHANGED <<program, inherit, size, layout, length, arrays>>

\* SpecializedArrayPool::completeAll: the layout is that of Array, which has
\* no members to add to it.
CompleteArrays ==
  /\ phase = "records" /\ todo = <<>>
  /\ phase' = "members"
  /\ arrays' = [arrays EXCEPT !.instant = TRUE,
                              !.layout = IF arrays.created THEN layout[Array] ELSE @]
  /\ UNCHANGED <<program, inherit, size, todo, layout, length>>

\* Global, the modules and their functions: variables and frames of the types
\* in program.module.
CompleteMembers ==
  /\ phase = "members"
  /\ phase' = IF \A type \in program.module : SizeKnown(type) THEN "done" ELSE "failed"
  /\ arrays' = Queried(arrays, program.module)
  /\ UNCHANGED <<program, inherit, size, todo, layout, length>>

Next ==
  \/ CollectDependencies
  \/ SolveInherit \/ InheritSolved
  \/ SolveSize \/ SizeSolved
  \/ CompleteClass \/ EndClasses
  \/ CompleteRecord
  \/ CompleteArrays
  \/ CompleteMembers

Spec == Init /\ [][Next]_vars
FairSpec == Spec /\ WF_vars(Next)

-----------------------------------------------------------------------------
(***************************************************************************)
(* What the virtual machine relies on after the packages are loaded: every *)
(* symbol has its layout, objects of a derived class are laid out as those *)
(* of its base, the collector finds their references, and virtual calls    *)
(* reach the method the language promises.                                 *)
(***************************************************************************)

Elements(s) == {s[i] : i \in DOMAIN s}

Complete(c) == layout[c].size # -1
SelfAndAncestors(c) == {c} \cup ProperAncestors(program, c)

\* Types of the variables; a class or a record is completed at most once and
\* in the order found for it.
TypeOK ==
  /\ phase \in {"collect", "inherit", "size", "classes", "records", "members",
                "done", "failed"}
  /\ \A c \in Class :
       /\ layout[c].refs \subseteq Nat
       /\ \A n \in DOMAIN layout[c].slot : layout[c].slot[n] \in DOMAIN layout[c].table
       /\ layout[c].table \in Seq(Class \X Name)
  /\ \A r \in Record : length[r] \in Nat \cup {-1}
  /\ phase \in {"classes"} => Elements(todo) \subseteq {c \in Class : ~Complete(c)}
  /\ phase \in {"records"} => Elements(todo) \subseteq {r \in Record : length[r] = -1}

-----------------------------------------------------------------------------
(***************************************************************************)
(* The order of completion.                                                *)
(***************************************************************************)

\* In the order each of the two sorts builds up, a class comes behind its base
\* and a record behind the records it contains, in whatever order the maps and
\* sets of dependencies.h, which are keyed by addresses, are iterated over.
DependenciesFirst == Inherit!OrderRespectsEdges /\ Size!OrderRespectsEdges

\* Each solve answers true exactly for the graphs without a cycle to which no
\* edge was added twice: a wrong "true" would complete a symbol never, a wrong
\* "false" refuses a program.
SolvesExact == Inherit!SolveIsExact /\ Size!SolveIsExact

-----------------------------------------------------------------------------
(***************************************************************************)
(* Objects.                                                                *)
(***************************************************************************)

\* The instance fields of an object: of its class and of those above it.
InstanceFields(c) ==
  {f \in SelfAndAncestors(c) \X Name : Member(f[1], f[2]).kind = "field"}

\* The words a field takes.
Extent(f) ==
  LET at == layout[f[1]].offset[f[2]]
  IN  at .. (at + RuntimeSize(Member(f[1], f[2]).type) - 1)

\* The fields of an object, its own and the inherited ones, fill its memory
\* without overlap, and the offsets the collector follows are exactly those
\* of the fields that hold references.  A class completed before its base, or
\* twice, would share or lose words.  (And every variable keeps its type.)
ObjectLayoutExact ==
  /\ TypeOK
  /\ \A c \in Class : Complete(c) =>
       /\ UNION {Extent(f) : f \in InstanceFields(c)} = 0 .. (layout[c].size - 1)
       /\ \A f, g \in InstanceFields(c) : f # g => Extent(f) \cap Extent(g) = {}
       /\ layout[c].refs = {layout[f[1]].offset[f[2]] : f \in
                              {g \in InstanceFields(c) :
                                 Member(g[1], g[2]).type \in {"ref", "array"}}}

\* The member a name stands for in an expression of class c: that of the
\* nearest class that has one (Scope.Find).
Owners(c, n) == {a \in SelfAndAncestors(c) : Member(a, n).kind # "none"}
Nearest(classes) ==
  CHOOSE a \in classes : \A b \in classes : b \in SelfAndAncestors(a)

\* A call x.n() in which x has class c runs, when x holds an object of class
\* d, the nearest virtual or overriding method n at or above d: ldvftn takes
\* the slot from the method found for c, callvirtual looks it up in d.
DispatchExact ==
  \A d \in Class, n \in Name : Complete(d) =>
    \A c \in SelfAndAncestors(d) :
      LET static == Nearest(Owners(c, n))
          targets == {a \in Owners(d, n) : Member(a, n).kind \in {"virtual", "override"}}
      IN  Owners(c, n) # {} /\ Member(static, n).kind \in {"virtual", "override"} =>
            layout[d].table[layout[static].slot[n]] = <<Nearest(targets), n>>

-----------------------------------------------------------------------------
(***************************************************************************)
(* Loading as a whole.                                                     *)
(***************************************************************************)

\* Records that contain themselves, directly or not, have no size.
RecordsAcyclic ==
  \A R \in SUBSET Record :
    R # {} => \E r \in R : Contained(r) \cap R = {}

FieldsOf(r, type) == {n \in Fields(r) : FieldType(r, n) = type}

\* The programs load is written for: no class keeps a record by value, in a
\* field or in the frame of a method, no record has two fields of one record
\* type, and nothing visited depends on a symbol declared in a class.
Loadable ==
  /\ \A c \in Class, n \in Name : Member(c, n).type \notin Record
  /\ RecordsAcyclic
  /\ \A r \in Record : \A s \in Contained(r) : Cardinality(FieldsOf(r, s)) = 1
  /\ \A c \in Visited(Class) \ {Object} : Base(c) \notin program.hidden
  /\ \A r \in Visited(Record) : Contained(r) \cap program.hidden = {}
  /\ program.module \cap program.hidden = {}

\* load throws only on programs outside that set.
FailsOnlyUnloadable == phase = "failed" => ~Loadable

\* What load visits is complete: a class, a record, and the array types, whenever
\* they were first named.
AllCompleted ==
  /\ \A c \in Visited(Class) : Complete(c)
  /\ \A r \in Visited(Record) : length[r] # -1
  /\ arrays.created => arrays.layout = [layout[Array] EXCEPT !.offset = arrays.layout.offset]

\* load ends: it throws, or returns with everything complete.
LoadCompletes == <>(phase = "failed" \/ (phase = "done" /\ AllCompleted))
=============================================================================
