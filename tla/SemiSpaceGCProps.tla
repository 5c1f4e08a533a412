-------------------------- MODULE SemiSpaceGCProps --------------------------
(***************************************************************************)
(* What SemiSpaceGC has to guarantee: its invariants, stated as the named  *)
(* parts of one inductive invariant, the view of memory a program has, and *)
(* the mapping under which the collector implements AbstractHeap.          *)
(***************************************************************************)
EXTENDS SemiSpaceGC, ObjectGraph

-----------------------------------------------------------------------------
(***************************************************************************)
(* Type correctness.                                                       *)
(***************************************************************************)

\* Every variable holds a value of its type.  free may reach the end of the
\* upper half, and so may the two pointers that follow it.
TypeOK ==
  /\ hdr \in [Addr -> Header]
  /\ ref \in [Addr -> Pointer]
  /\ from \in {0, SemiSize} /\ to = SemiSize - from
  /\ {free, limit, cursor} \subseteq 0 .. (2 * SemiSize)
  /\ phase \in Phases
  /\ pending \subseteq rooted
  /\ todo \subseteq Offset
  /\ request \in Requests \cup {NoRequest}
  /\ status \in Statuses
  /\ word \in [Word -> Pointer]
  /\ interior \in [Interior -> InteriorPointer]
  /\ rooted \subseteq Word \cup Interior

-----------------------------------------------------------------------------
(***************************************************************************)
(* The shape of the heap.                                                  *)
(***************************************************************************)
Copying == phase \in {"roots", "scan"}

\* The end of the used part of from-space.
FromEnd == IF Copying THEN limit ELSE free

\* Objects lie one after the other from lo up to hi, and do not overlap.
Tiled(lo, hi) ==
  /\ lo < hi => IsObject(lo)
  /\ \A a \in Addr : (IsObject(a) /\ lo <= a /\ a < hi) =>
       /\ a + SizeOf(a) <= hi
       /\ a + SizeOf(a) < hi => IsObject(a + SizeOf(a))
       /\ \A b \in Addr : (a < b /\ b < a + SizeOf(a)) => ~IsObject(b)

InUse(a) == \/ from <= a /\ a < FromEnd
            \/ Copying /\ to <= a /\ a < free

\* The loops that walk a semi-space by instance size (the reset loop, the
\* scan) meet every object and nothing else, and no half is ever used past
\* its end: in particular copying the survivors never overruns to-space.
Parsable ==
  /\ from <= FromEnd /\ FromEnd <= from + SemiSize
  /\ Copying => to <= free /\ free <= to + SemiSize
  /\ Tiled(from, FromEnd)
  /\ Copying => Tiled(to, free)
  /\ \A a \in Addr : IsObject(a) => InUse(a)
  /\ phase \in {"reset", "scan"} =>
       (cursor < free => IsObject(cursor)) /\ cursor <= free
  /\ phase = "reset" => from <= cursor /\ limit = free
  /\ phase = "roots" => cursor = to
  /\ phase = "scan" => to <= cursor

-----------------------------------------------------------------------------
(***************************************************************************)
(* Forward pointers.                                                       *)
(***************************************************************************)
FromObject(a) == IsObject(a) /\ from <= a /\ a < FromEnd
ToObject(a)   == IsObject(a) /\ Copying /\ to <= a /\ a < free

\* The reset loop leaves no forward pointer behind it, those of pin and of the
\* previous collection included.  While objects are copied, a forward pointer
\* of from-space is null or leads to the one copy of that very object, no two
\* objects share a copy, no copy lacks an original, and a copy's own forward
\* pointer is its address.
Forwarding ==
  /\ phase = "reset" =>
       \A a \in Addr : FromObject(a) /\ a < cursor => hdr[a].forward = Null
  /\ Copying =>
    /\ \A a \in Addr : FromObject(a) /\ hdr[a].forward # Null =>
         /\ hdr[a].forward \in Addr /\ ToObject(hdr[a].forward)
         /\ hdr[hdr[a].forward].klass = hdr[a].klass
         /\ hdr[hdr[a].forward].id = hdr[a].id
         /\ hdr[hdr[a].forward].pined = hdr[a].pined
    /\ \A a, b \in Addr :
         /\ FromObject(a) /\ FromObject(b)
         /\ hdr[a].forward = hdr[b].forward /\ hdr[a].forward # Null
         => a = b
    /\ \A a \in Addr : ToObject(a) =>
         /\ hdr[a].forward = a
         /\ \E b \in Addr : FromObject(b) /\ hdr[b].forward = a

-----------------------------------------------------------------------------
(***************************************************************************)
(* References.                                                             *)
(***************************************************************************)
\* The references that lead to an object of from-space, or to a copy.
FromRefs == {Null} \cup {a \in Addr : FromObject(a)}
CopyRefs == {Null} \cup {a \in Addr : ToObject(a)}

\* The reference at offset o of the copy at a has been updated.
Scanned(a, o) == phase = "scan" /\ (a < cursor \/ (a = cursor /\ o \notin todo))

\* A reference already processed leads into to-space, every other reference
\* to an object of from-space: nothing dangles, and when the collection ends
\* no reference into the discarded half is left.
NoDangling ==
  /\ \A w \in Word :
       IF Copying /\ w \notin pending THEN word[w] \in CopyRefs
                                      ELSE word[w] \in FromRefs
  /\ \A i \in Interior :
       /\ IF Copying /\ i \notin pending THEN BaseOf(interior[i]) \in CopyRefs
                                         ELSE BaseOf(interior[i]) \in FromRefs
       /\ interior[i].ptr # Null =>
            interior[i].offset \in RefOffsets[hdr[BaseOf(interior[i])].klass]
  /\ \A a \in Addr : FromObject(a) =>
       \A o \in RefOffsets[hdr[a].klass] : ref[a + o] \in FromRefs
  /\ \A a \in Addr : ToObject(a) =>
       \A o \in RefOffsets[hdr[a].klass] :
         IF Scanned(a, o) THEN ref[a + o] \in CopyRefs
                          ELSE ref[a + o] \in FromRefs

\* A word that is not registered holds no reference.
Unregistered ==
  /\ \A w \in Word \ rooted : word[w] = Null
  /\ \A i \in Interior \ rooted : interior[i] = NoInterior

\* While objects are copied, every reference word of a copy is what the
\* original holds, or the copy of what the original holds.
CopyFaithful ==
  Copying =>
    \A a \in Addr : FromObject(a) /\ hdr[a].forward # Null =>
      \A o \in RefOffsets[hdr[a].klass] :
        LET old == ref[a + o]
            new == ref[hdr[a].forward + o]
        IN IF ~Scanned(hdr[a].forward, o) THEN new = old
           ELSE IF old = Null THEN new = Null
           ELSE new = hdr[old].forward /\ new # Null

\* Distinct objects of from-space have distinct identities.
Identities ==
  /\ \A a \in Addr : IsObject(a) => hdr[a].id \in Id
  /\ \A a, b \in Addr :
       FromObject(a) /\ FromObject(b) /\ hdr[a].id = hdr[b].id => a = b

\* What the collection was called for is known to its end.
Requested ==
  /\ phase = "mutator" <=> request = NoRequest
  /\ phase = "retry" => request.op # "pin"
  /\ request # NoRequest => request.word \notin rooted
  /\ phase # "roots" => pending = {}
  /\ phase = "scan" =>
       todo \subseteq IF cursor < free THEN RefOffsets[hdr[cursor].klass] ELSE {}

\* Registration, identities and the pending request stay consistent.
Bookkeeping == Unregistered /\ Identities /\ Requested

\* The words of from-space whose object has been copied.
Moved ==
  {x \in Addr : \E a \in Addr : /\ FromObject(a) /\ hdr[a].forward # Null
                               /\ a <= x /\ x < a + SizeOf(a)}

\* Copying takes exactly the room the copied objects had in from-space, which
\* is why to-space cannot overflow.
CopiedVolume == Copying => Cardinality(Moved) = free - to

IInv == /\ TypeOK /\ Parsable /\ Forwarding /\ NoDangling
        /\ CopyFaithful /\ Bookkeeping /\ CopiedVolume

\* No field store has run over memory in use.
Intact == status # "corrupted"

\* As long as no field store has run over memory in use, the heap is parsable.
\* (Without the condition this is false: a store into a field writes into the
\* header of the object behind the one it names.)
HeapStaysParsable == Intact => Parsable

\* As long as no field store has run over memory in use, no reference dangles,
\* those a store wrote beside the one it was to write included.
NothingDangles == Intact => NoDangling

\* What is inductive: IInv, until such a store ends all knowledge of the heap,
\* which happens between collections only.
SoundInv == TypeOK /\ (IInv \/ (~Intact /\ phase = "mutator"))

\* What an assignment to a field is to do: it changes that field, and no header
\* and no other field of any object.
AssignsOneField ==
  [][\A w, v \in Word, o \in Offset : StoreField(w, o, v) =>
       \A a \in Addr : IsObject(a) =>
         /\ hdr'[a] = hdr[a]
         /\ \A p \in RefOffsets[hdr[a].klass] :
              a + p # word[w] + o => ref'[a + p] = ref[a + p]]_vars

-----------------------------------------------------------------------------
(***************************************************************************)
(* The program's view.                                                     *)
(***************************************************************************)
IdAt(p) == IF p \in Addr THEN hdr[p].id ELSE Null

\* Where the object of an identity is now: its copy, once there is one.
Whereabouts(i) ==
  LET c == {a \in Addr : IsObject(a) /\ hdr[a].id = i} IN
  CHOOSE a \in c : c = {a} \/ ~(from <= a /\ a < from + SemiSize)

Present == {hdr[a].id : a \in {x \in Addr : IsObject(x)}}

FullGraph ==
  [i \in Present |->
     LET a == Whereabouts(i) IN
     [klass  |-> hdr[a].klass,
      fields |-> [o \in RefOffsets[hdr[a].klass] |-> IdAt(ref[a + o])]]]

ViewHandle == [w \in Word |-> IdAt(word[w])]
ViewPlace  == [i \in Interior |-> [base   |-> IdAt(BaseOf(interior[i])),
                                   offset |-> interior[i].offset]]

ViewRoots == {ViewHandle[w] : w \in Word} \cup {ViewPlace[i].base : i \in Interior}
ViewGraph == Reached(FullGraph, ViewRoots)

Heap == INSTANCE AbstractHeap WITH
  handle <- ViewHandle, place <- ViewPlace, held <- rooted,
  graph <- ViewGraph, ended <- status # "running"

\* The collector implements AbstractHeap: whatever minorGC, pin and allocation
\* do to addresses, the program sees every object it can reach keep its
\* identity, class and fields, and sees only the changes it makes itself: each
\* of its stores into a field through a reference, the field behind that one
\* included, until one of them runs over memory in use.
ImplementsAbstractHeap == Heap!Spec

-----------------------------------------------------------------------------
(***************************************************************************)
(* What a collection keeps, and when it gives up.                          *)
(***************************************************************************)

\* A collection copies only what the program can reach, so that right after one
\* there is nothing else in the heap.
KeepsOnlyReachable ==
  /\ Copying => \A a \in Addr : ToObject(a) => hdr[a].id \in DOMAIN ViewGraph
  /\ phase = "retry" => \A a \in Addr : FromObject(a) => hdr[a].id \in DOMAIN ViewGraph

\* The words of the objects the program can reach.
WordsOf(a) == a .. (a + SizeOf(a) - 1)
ReachableSize == Cardinality(UNION {WordsOf(Whereabouts(i)) : i \in DOMAIN ViewGraph})

\* "out of heap memory" is thrown only when the objects the program can reach
\* really leave no room for the new one.
OutOfMemoryIsReal ==
  [][status' = "out of heap memory" /\ status = "running" =>
       ReachableSize + InstanceSize[request.klass] > SemiSize]_vars

\* How far a collection is from its end: the loops still to come, and what is
\* left of the one it is in.
PhaseRank == [mutator |-> 0, retry |-> 1, scan |-> 2, roots |-> 3, reset |-> 4]
LoopLeft ==
  CASE phase = "reset" -> free - cursor
    [] phase = "roots" -> Cardinality(pending)
    [] phase = "scan"  -> (Cardinality(Offset) + 1) * (to + SemiSize - cursor)
                            + Cardinality(todo)
    [] OTHER           -> 0

InCollection == phase # "mutator" /\ status = "running"

\* Every step of a collection brings its end nearer, although copying moves the
\* end of the queue that the scan chases.
CollectionProgress ==
  [][InCollection => \/ PhaseRank[phase'] < PhaseRank[phase]
                     \/ phase' = phase /\ LoopLeft' < LoopLeft]_vars

\* A collection, once called, comes to an end: it always has a next step, and
\* every step brings the end nearer.
CollectionTerminates ==
  [](InCollection => ENABLED (MinorGC \/ Retry)) /\ CollectionProgress
=============================================================================
