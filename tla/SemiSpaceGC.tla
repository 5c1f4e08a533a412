---------------------------- MODULE SemiSpaceGC ----------------------------
(***************************************************************************)
(* The semi-space copying collector of the virtual machine                 *)
(* (evm/gc.h: Reference, GarbageCollector) and the memory operations its   *)
(* clients perform between two calls.                                      *)
(*                                                                         *)
(* Memory is modelled word by word.  hdr[a] is the instance header that    *)
(* starts at address a (evm/interop.h: Instance) and ref[a] the reference  *)
(* held by the word at a.  klass = NoKlass is the code's klass == 0, the   *)
(* state of memory that was memset; klass = Garbage is memory malloc     *)
(* returned and nobody wrote.  The age byte is not modelled: no code       *)
(* reads it.                                                               *)
(*                                                                         *)
(* The virtual machine has one thread, so no client step interleaves with  *)
(* a collection; minorGC is still split into its loop iterations, because  *)
(* its loop invariants are what makes it correct.                          *)
(***************************************************************************)
EXTENDS Integers, FiniteSets

CONSTANTS
  Klass,         \* classes; an array class stands for one array length
  InstanceSize,  \* words an instance of each class occupies, header included
  RefOffsets,    \* offsets of the reference words of an instance
  Spill,         \* words behind each of them that a store into it runs over
  Id,            \* identities of objects (a ghost: what the program observes)
  Word,          \* words outside the heap that may hold a reference
  Interior,      \* words outside the heap that may hold an interior pointer
  SemiSize,      \* semi_space_size, in words
  Null,          \* the null reference, and the reset forward pointer
  Malloced,      \* an address outside the heap, returned by malloc
  NoKlass,       \* klass == 0
  Garbage        \* what malloc, or a field store, left in memory

ASSUME SizeAssumption   == SemiSize \in Nat \ {0}
ASSUME KlassAssumption  ==
  /\ InstanceSize \in [Klass -> Nat \ {0}]
  /\ RefOffsets \in [Klass -> SUBSET Nat]
  /\ \A k \in Klass : \A o \in RefOffsets[k] : 0 < o /\ o < InstanceSize[k]
\* An element of an array is stored by itself (Spill 0).  The first field of an
\* object has offset 18 and is 8 bytes long.
ASSUME SpillAssumption  ==
  \A k \in Klass : \A o \in RefOffsets[k] : Spill[k][o] \in Nat
ASSUME RootAssumption   == Word \cap Interior = {}
ASSUME IdAssumption     == Null \notin Id
ASSUME FiniteAssumption ==
  IsFiniteSet(Klass) /\ IsFiniteSet(Word) /\ IsFiniteSet(Interior)

Addr == 0 .. (2 * SemiSize - 1)

ASSUME MarkerAssumption ==
  /\ Null \notin Int /\ Malloced \notin Int /\ Null # Malloced
  /\ NoKlass \notin Klass /\ Garbage \notin Klass /\ NoKlass # Garbage

VARIABLES
  hdr,        \* instance headers, by address
  ref,        \* reference words, by address
  from, to,   \* from_semi_space, to_semi_space
  free,       \* free_semi
  limit,      \* end of the used part of from-space, kept for the collection
  cursor,     \* unreseted, then unscanned
  phase,      \* where minorGC is; "mutator" outside it
  pending,    \* roots the root loop has not reached
  todo,       \* reference offsets of the object at cursor not yet scanned
  request,    \* the call that started the collection
  status,     \* "running", or how the process ended
  word,       \* references held by words outside the heap
  interior,   \* interior pointers held outside the heap
  rooted      \* the keys of root_set

heapVars == <<hdr, ref, from, to, free>>
gcVars   == <<limit, cursor, phase, pending, todo, request>>
rootVars == <<word, interior, rooted>>
vars     == <<hdr, ref, from, to, free, limit, cursor, phase, pending, todo,
              request, status, word, interior, rooted>>

Pointer == Addr \cup {Null}
Header ==
  [klass   : Klass \cup {NoKlass, Garbage},
   forward : Addr \cup {Null, Malloced},
   pined   : BOOLEAN,
   id      : Id \cup {Null}]
Requests == [op : {"allocate", "pin", "unpin"}, klass : Klass, word : Word]
NoRequest == [op |-> "none"]
InteriorPointer == [ptr : Pointer, offset : Nat]
NoInterior == [ptr |-> Null, offset |-> 0]
Phases == {"mutator", "reset", "roots", "scan", "retry"}
Statuses == {"running", "out of heap memory", "crashed", "undefined", "corrupted"}

Emptied(k) == [klass |-> k, forward |-> Null, pined |-> FALSE, id |-> Null]

IsObject(a) == hdr[a].klass \in Klass
SizeOf(a) == InstanceSize[hdr[a].klass]

(***************************************************************************)
(* getInteriorPointerInstance: the object an interior pointer points into. *)
(***************************************************************************)
BaseOf(p) == IF p.ptr = Null THEN Null ELSE p.ptr - p.offset

Init ==
  /\ hdr = [a \in Addr |-> Emptied(Garbage)]
  /\ ref = [a \in Addr |-> Null]
  /\ from = 0 /\ to = SemiSize /\ free = 0
  /\ limit = 0 /\ cursor = 0 /\ phase = "mutator"
  /\ pending = {} /\ todo = {} /\ request = NoRequest
  /\ status = "running"
  /\ word = [w \in Word |-> Null]
  /\ interior = [i \in Interior |-> NoInterior]
  /\ rooted = {}

-----------------------------------------------------------------------------
(***************************************************************************)
(* allocate.                                                               *)
(***************************************************************************)
\* Mutants: one word too many; the start of the semi-space forgotten.
RemainSemiSpace_OffByOne == SemiSize - (free - from) + 1
RemainSemiSpace_ForgetsFrom == SemiSize - free

RemainSemiSpace == SemiSize - (free - from)

FreshId(i) == \A a \in Addr : IsObject(a) => hdr[a].id # i

\* The second half of allocate: zero the words, set klass, bump free_semi,
\* and hand the new object to a word the caller registers as a root.
Bump(k, w) ==
  /\ \E i \in Id :
       /\ FreshId(i)
       /\ hdr' = [a \in Addr |->
                    IF a = free THEN [Emptied(k) EXCEPT !.id = i]
                    ELSE IF free < a /\ a < free + InstanceSize[k]
                         THEN Emptied(NoKlass)
                         ELSE hdr[a]]
  /\ ref' = [a \in Addr |->
               IF free <= a /\ a < free + InstanceSize[k] THEN Null ELSE ref[a]]
  /\ word' = [word EXCEPT ![w] = free]
  /\ rooted' = rooted \cup {w}
  /\ free' = free + InstanceSize[k]
  /\ UNCHANGED <<from, to, interior>>

\* minorGC is called: the reset loop starts at from_semi_space.
BeginCollection(req) ==
  /\ phase' = "reset"
  /\ cursor' = from
  /\ limit' = free
  /\ request' = req
  /\ UNCHANGED <<pending, todo>>

Mutating == phase = "mutator" /\ status = "running"

Allocate(k, w) ==
  /\ Mutating
  /\ w \notin rooted
  /\ IF RemainSemiSpace < InstanceSize[k]
     THEN /\ BeginCollection([op |-> "allocate", klass |-> k, word |-> w])
          /\ UNCHANGED <<heapVars, rootVars>>
     ELSE /\ Bump(k, w)
          /\ UNCHANGED gcVars
  /\ UNCHANGED status

\* allocate after its minorGC: either the words fit now, or the exception
\* "out of heap memory" leaves the virtual machine.
RetryAllocate ==
  /\ phase = "retry" /\ status = "running"
  /\ request.op = "allocate"
  /\ phase' = "mutator"
  /\ request' = NoRequest
  /\ IF RemainSemiSpace < InstanceSize[request.klass]
     THEN /\ status' = "out of heap memory"
          /\ UNCHANGED <<heapVars, rootVars>>
     ELSE /\ Bump(request.klass, request.word)
          /\ UNCHANGED status
  /\ UNCHANGED <<limit, cursor, pending, todo>>

-----------------------------------------------------------------------------
(***************************************************************************)
(* minorGC, one action per loop iteration.                                 *)
(***************************************************************************)
Collecting(p) == phase = p /\ status = "running"

\* Mutant: the loop steps over the object without resetting it.
ResetObject_KeepsForward ==
  /\ Collecting("reset")
  /\ cursor < free
  /\ cursor' = cursor + SizeOf(cursor)
  /\ UNCHANGED <<hdr, ref, from, to, free, limit, phase, pending, todo, request,
                 status, rootVars>>

ResetObject ==
  /\ Collecting("reset")
  /\ cursor < free
  /\ hdr' = [hdr EXCEPT ![cursor].forward = Null]
  /\ cursor' = cursor + SizeOf(cursor)
  /\ UNCHANGED <<ref, from, to, free, limit, phase, pending, todo, request,
                 status, rootVars>>

EnterRoots ==
  /\ Collecting("reset")
  /\ cursor >= free
  /\ free' = to
  /\ cursor' = to
  /\ pending' = rooted
  /\ phase' = "roots"
  /\ UNCHANGED <<hdr, ref, from, to, limit, todo, request, status, rootVars>>

\* Mutant: an object already moved is copied again.
MustCopy_Again(a) == a # Null

\* copyAndUpdateRef on a reference to the object at a: a null reference is
\* not young and is left alone; an object not yet moved is copied to free_semi
\* with its forward pointer set before the copy; in both cases the reference
\* then takes the forward pointer.
MustCopy(a) == a # Null /\ hdr[a].forward = Null

\* Mutant: a reference to an object already moved is left as it is.
NewPlace_StaleIfMoved(a) == IF a # Null /\ MustCopy(a) THEN free ELSE a

NewPlace(a) ==
  IF a = Null THEN Null ELSE IF MustCopy(a) THEN free ELSE hdr[a].forward

HdrAfterCopy(a) ==
  IF MustCopy(a)
  THEN [hdr EXCEPT ![a].forward = free,
                   ![free] = [hdr[a] EXCEPT !.forward = free]]
  ELSE hdr

\* Mutant: the memcpy stops one word short.
RefAfterCopy_Short(a) ==
  IF MustCopy(a)
  THEN [x \in Addr |-> IF free <= x /\ x < free + SizeOf(a) - 1
                       THEN ref[a + (x - free)] ELSE ref[x]]
  ELSE ref

RefAfterCopy(a) ==
  IF MustCopy(a)
  THEN [x \in Addr |-> IF free <= x /\ x < free + SizeOf(a)
                       THEN ref[a + (x - free)] ELSE ref[x]]
  ELSE ref

FreeAfterCopy(a) == IF MustCopy(a) THEN free + SizeOf(a) ELSE free

\* One root of the root loop.  root_set is ordered by address, which the model
\* leaves open.
CopyRootWord(w) ==
  /\ Collecting("roots")
  /\ w \in pending \cap Word
  /\ hdr' = HdrAfterCopy(word[w])
  /\ ref' = RefAfterCopy(word[w])
  /\ free' = FreeAfterCopy(word[w])
  /\ word' = [word EXCEPT ![w] = NewPlace(word[w])]
  /\ pending' = pending \ {w}
  /\ UNCHANGED <<from, to, limit, cursor, phase, todo, request, status,
                 interior, rooted>>

\* Mutant: the offset is lost.
Rebased_NoOffset(p, base) == [p EXCEPT !.ptr = base]

\* updateForward of an interior pointer.
Rebased(p, base) == [p EXCEPT !.ptr = base + p.offset]

\* An interior pointer keeps its offset from the start of the object.
CopyRootInterior(i) ==
  LET base == BaseOf(interior[i]) IN
  /\ Collecting("roots")
  /\ i \in pending \cap Interior
  /\ hdr' = HdrAfterCopy(base)
  /\ ref' = RefAfterCopy(base)
  /\ free' = FreeAfterCopy(base)
  /\ interior' =
       IF base = Null THEN interior
       ELSE [interior EXCEPT ![i] = Rebased(@, NewPlace(base))]
  /\ pending' = pending \ {i}
  /\ UNCHANGED <<from, to, limit, cursor, phase, todo, request, status,
                 word, rooted>>

\* getReferences of the object the scan has reached.
RefsAt(a, end) == IF a < end THEN RefOffsets[hdr[a].klass] ELSE {}

EnterScan ==
  /\ Collecting("roots")
  /\ pending = {}
  /\ phase' = "scan"
  /\ todo' = RefsAt(cursor, free)
  /\ UNCHANGED <<heapVars, limit, cursor, pending, request, status, rootVars>>

ScanRef(o) ==
  LET target == ref[cursor + o] IN
  /\ Collecting("scan")
  /\ o \in todo
  /\ hdr' = HdrAfterCopy(target)
  /\ ref' = [RefAfterCopy(target) EXCEPT ![cursor + o] = NewPlace(target)]
  /\ free' = FreeAfterCopy(target)
  /\ todo' = todo \ {o}
  /\ UNCHANGED <<from, to, limit, cursor, phase, pending, request, status,
                 rootVars>>

\* Mutant: the scan never leaves the object it has scanned.
AdvanceScan_Stays ==
  /\ Collecting("scan")
  /\ todo = {}
  /\ cursor < free
  /\ todo' = RefsAt(cursor, free)
  /\ UNCHANGED <<heapVars, limit, cursor, phase, pending, request, status,
                 rootVars>>

AdvanceScan ==
  /\ Collecting("scan")
  /\ todo = {}
  /\ cursor < free
  /\ cursor' = cursor + SizeOf(cursor)
  /\ todo' = RefsAt(cursor + SizeOf(cursor), free)
  /\ UNCHANGED <<heapVars, limit, phase, pending, request, status, rootVars>>

\* The DEBUG pass (utils.h always defines DEBUG) walks from-space until it
\* meets a header with klass == 0.  A full lower half makes it run on into
\* to-space; a full upper half, or memory nobody wrote, makes it read
\* something that need not look like the end.
WalkEnd ==
  IF limit = from + SemiSize /\ from = 0 THEN free ELSE limit
WalkMayCrash ==
  \/ WalkEnd = 2 * SemiSize
  \/ hdr[WalkEnd].klass = Garbage

InSemi(a, base) == base <= a /\ a < base + SemiSize

\* The tail of minorGC: the DEBUG pass, the memset of from-space, the swap.
FinishCollection ==
  /\ Collecting("scan")
  /\ todo = {} /\ cursor >= free
  /\ status' \in {"running"} \cup (IF WalkMayCrash THEN {"crashed"} ELSE {})
  /\ hdr' = [a \in Addr |-> IF InSemi(a, from) THEN Emptied(NoKlass) ELSE hdr[a]]
  /\ ref' = [a \in Addr |-> IF InSemi(a, from) THEN Null ELSE ref[a]]
  /\ from' = to
  /\ to' = from
  /\ phase' = IF request.op = "pin" THEN "mutator" ELSE "retry"
  /\ request' = IF request.op = "pin" THEN NoRequest ELSE request
  /\ UNCHANGED <<free, limit, cursor, pending, todo, rootVars>>

-----------------------------------------------------------------------------
(***************************************************************************)
(* pin and unpin, called with a handle their caller has just popped, whose *)
(* root is therefore already removed (intrinsics Pin and Unpin).           *)
(***************************************************************************)
Forget(w) ==
  /\ word' = [word EXCEPT ![w] = Null]
  /\ rooted' = rooted \ {w}
  /\ UNCHANGED interior

\* pin marks the object, points forward at a malloc'ed block, and collects;
\* the reset loop of that collection is what reads forward next.
Pin(w) ==
  /\ Mutating
  /\ w \in rooted /\ word[w] # Null
  /\ Forget(w)
  /\ IF hdr[word[w]].pined
     THEN UNCHANGED <<hdr, gcVars>>
     ELSE /\ hdr' = [hdr EXCEPT ![word[w]] =
                            [@ EXCEPT !.pined = TRUE, !.forward = Malloced]]
          /\ BeginCollection([op |-> "pin", klass |-> hdr[word[w]].klass,
                              word |-> w])
  /\ UNCHANGED <<ref, from, to, free, status>>

\* unpin copies the object to free_semi and then frees it.  The object was
\* never moved to a malloc'ed block, so free() gets a pointer into the heap:
\* from there on the process has no defined state.
Unpin(w) ==
  /\ Mutating
  /\ w \in rooted /\ word[w] # Null
  /\ Forget(w)
  /\ IF ~hdr[word[w]].pined
     THEN UNCHANGED <<gcVars, status>>
     ELSE IF RemainSemiSpace < SizeOf(word[w])
          THEN /\ BeginCollection([op |-> "unpin", klass |-> hdr[word[w]].klass,
                                   word |-> w])
               /\ UNCHANGED status
          ELSE /\ status' = "undefined"
               /\ UNCHANGED gcVars
  /\ UNCHANGED heapVars

RetryUnpin ==
  /\ phase = "retry" /\ status = "running"
  /\ request.op = "unpin"
  /\ phase' = "mutator"
  /\ request' = NoRequest
  /\ status' = IF RemainSemiSpace < InstanceSize[request.klass]
               THEN "out of heap memory" ELSE "undefined"
  /\ UNCHANGED <<heapVars, limit, cursor, pending, todo, rootVars>>

-----------------------------------------------------------------------------
(***************************************************************************)
(* The clients: every reference they hold outside the heap sits in a word  *)
(* they register while it is in use (addRoot, removeRoot).  RootTracking   *)
(* examines where the processor departs from that discipline.              *)
(***************************************************************************)
CopyRef(w, v) ==
  /\ Mutating
  /\ w \in rooted /\ v \in Word \ rooted
  /\ word' = [word EXCEPT ![v] = word[w]]
  /\ rooted' = rooted \cup {v}
  /\ UNCHANGED <<heapVars, gcVars, status, interior>>

DropRef(w) ==
  /\ Mutating
  /\ w \in rooted
  /\ Forget(w)
  /\ UNCHANGED <<heapVars, gcVars, status>>

FieldAt(w, o) == /\ word[w] # Null
                 /\ o \in RefOffsets[hdr[word[w]].klass]

LoadField(w, o, v) ==
  /\ Mutating
  /\ w \in rooted /\ v \in Word \ rooted
  /\ FieldAt(w, o)
  /\ word' = [word EXCEPT ![v] = ref[word[w] + o]]
  /\ rooted' = rooted \cup {v}
  /\ UNCHANGED <<heapVars, gcVars, status, interior>>

\* The memcpy of a field store takes offset bytes from the operand stack: the
\* value, the reference to the object that lies above it there, the hint byte
\* and stale bytes.
RunOver(a, o) == (a + o + 1) .. (a + o + Spill[hdr[a].klass][o])

\* Nothing in use is destroyed: the word behind the field gets a reference, to
\* the object itself; stale bytes fall where the object holds no reference, or
\* behind the last object allocated.
Harmless(a, o) ==
  \A x \in RunOver(a, o) :
    IF x < a + SizeOf(a) THEN x = a + o + 1 \/ x - a \notin RefOffsets[hdr[a].klass]
                         ELSE free <= x /\ x \in Addr

StoreField(w, o, v) ==
  LET a == word[w] IN
  /\ Mutating
  /\ {w, v} \subseteq rooted
  /\ FieldAt(w, o)
  /\ ref' = [x \in Addr |-> IF x = a + o THEN word[v]
                            ELSE IF x \notin RunOver(a, o) THEN ref[x]
                            ELSE IF x = a + o + 1 THEN a ELSE Null]
  /\ hdr' = [x \in Addr |-> IF x \in RunOver(a, o) /\ a + SizeOf(a) <= x
                            THEN Emptied(Garbage) ELSE hdr[x]]
  /\ status' = IF Harmless(a, o) THEN "running" ELSE "corrupted"
  /\ UNCHANGED <<from, to, free, gcVars, rootVars>>

\* makeInteriorPointer(ins, offset), then addRoot.
TakeInterior(w, o, i) ==
  /\ Mutating
  /\ w \in rooted /\ i \in Interior \ rooted
  /\ FieldAt(w, o)
  /\ interior' = [interior EXCEPT ![i] = [ptr |-> word[w] + o, offset |-> o]]
  /\ rooted' = rooted \cup {i}
  /\ UNCHANGED <<heapVars, gcVars, status, word>>

\* makeInteriorPointer(ptr): the address of a variable on a stack, whose
\* offset UINT32_MAX says that no object holds it.
TakeLocal(i) ==
  /\ Mutating
  /\ i \in Interior \ rooted
  /\ rooted' = rooted \cup {i}
  /\ UNCHANGED <<heapVars, gcVars, status, word, interior>>

DropInterior(i) ==
  /\ Mutating
  /\ i \in rooted \cap Interior
  /\ interior' = [interior EXCEPT ![i] = NoInterior]
  /\ rooted' = rooted \ {i}
  /\ UNCHANGED <<heapVars, gcVars, status, word>>

\* Read and write through a by-reference pointer.
LoadInterior(i, v) ==
  /\ Mutating
  /\ i \in rooted \cap Interior /\ v \in Word \ rooted
  /\ interior[i].ptr # Null
  /\ word' = [word EXCEPT ![v] = ref[interior[i].ptr]]
  /\ rooted' = rooted \cup {v}
  /\ UNCHANGED <<heapVars, gcVars, status, interior>>

StoreInterior(i, v) ==
  /\ Mutating
  /\ i \in rooted \cap Interior /\ v \in rooted \cap Word
  /\ interior[i].ptr # Null
  /\ ref' = [ref EXCEPT ![interior[i].ptr] = word[v]]
  /\ UNCHANGED <<hdr, from, to, free, gcVars, status, rootVars>>

-----------------------------------------------------------------------------
Offset == UNION {RefOffsets[k] : k \in Klass}

Client ==
  \/ \E k \in Klass, w \in Word : Allocate(k, w)
  \/ \E w \in Word : Pin(w) \/ Unpin(w) \/ DropRef(w)
  \/ \E w, v \in Word : CopyRef(w, v)
  \/ \E w, v \in Word, o \in Offset : LoadField(w, o, v) \/ StoreField(w, o, v)
  \/ \E w \in Word, o \in Offset, i \in Interior : TakeInterior(w, o, i)
  \/ \E i \in Interior : TakeLocal(i) \/ DropInterior(i)
  \/ \E i \in Interior, v \in Word : LoadInterior(i, v) \/ StoreInterior(i, v)

MinorGC ==
  \/ ResetObject
  \/ EnterRoots
  \/ \E w \in Word : CopyRootWord(w)
  \/ \E i \in Interior : CopyRootInterior(i)
  \/ EnterScan
  \/ \E o \in Offset : ScanRef(o)
  \/ AdvanceScan
  \/ FinishCollection

Retry == RetryAllocate \/ RetryUnpin

Next == Client \/ MinorGC \/ Retry

Spec == Init /\ [][Next]_vars
=============================================================================
