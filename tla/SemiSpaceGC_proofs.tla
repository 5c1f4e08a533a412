------------------------- MODULE SemiSpaceGC_proofs -------------------------
(***************************************************************************)
(* Proofs about the collector of SemiSpaceGC, for every set of classes,    *)
(* every heap size and every number of roots: that the invariant is        *)
(* inductive, then that the collector implements AbstractHeap (the graph   *)
(* of the objects the program can reach changes in a step as AbstractHeap  *)
(* says or not at all), what a collection keeps, when memory is exhausted, *)
(* and why a collection ends.                                              *)
(***************************************************************************)
EXTENDS SemiSpaceGCProps, DataLemmas

USE DEF Addr

\* The initial, empty heap satisfies the invariant.
LEMMA InitInv == Init => IInv
<1> SUFFICES ASSUME Init PROVE IInv
  OBVIOUS
<1> USE SizeAssumption, MarkerAssumption DEF Init
<1>1. TypeOK
  BY DEF TypeOK, Header, Emptied, Pointer, Phases, Statuses, NoRequest,
         InteriorPointer, NoInterior
<1>2. \A a \in Addr : ~IsObject(a)
  BY DEF IsObject, Emptied
<1>3. Parsable
  BY <1>2 DEF Parsable, FromEnd, Copying, Tiled
<1>4. Forwarding /\ CopyFaithful /\ CopiedVolume
  BY DEF Forwarding, CopyFaithful, CopiedVolume, Copying
<1>5. NoDangling
  BY <1>2 DEF NoDangling, FromRefs, FromObject, ToObject, Copying, BaseOf, NoInterior
<1>6. Bookkeeping
  BY <1>2 DEF Bookkeeping, Unregistered, Identities, Requested, FromObject
<1> QED
  BY <1>1, <1>3, <1>4, <1>5, <1>6 DEF IInv

-----------------------------------------------------------------------------
(***************************************************************************)
(* Between collections.                                                    *)
(***************************************************************************)

\* The instance size of an object is positive.
LEMMA SizeType ==
  ASSUME NEW a \in Addr, IsObject(a)
  PROVE  SizeOf(a) \in Nat /\ SizeOf(a) > 0
BY KlassAssumption DEF IsObject, SizeOf

\* A region stays tiled when no class in it changes.
LEMMA TiledSame ==
  ASSUME NEW lo \in Nat, NEW hi \in Nat, hi <= 2 * SemiSize, Tiled(lo, hi),
         \A a \in Addr : lo <= a /\ a < hi => hdr'[a].klass = hdr[a].klass
  PROVE  /\ lo < hi => IsObject(lo)'
         /\ \A a \in Addr : (IsObject(a)' /\ lo <= a /\ a < hi) =>
              /\ a + SizeOf(a)' <= hi
              /\ a + SizeOf(a)' < hi => IsObject(a + SizeOf(a))'
              /\ \A b \in Addr : (a < b /\ b < a + SizeOf(a)') => ~IsObject(b)'
<1>1. \A a \in Addr : lo <= a /\ a < hi =>
        (IsObject(a)' <=> IsObject(a)) /\ SizeOf(a)' = SizeOf(a)
  BY DEF IsObject, SizeOf
<1>2. lo < hi => IsObject(lo)'
  BY SizeAssumption DEF Tiled, IsObject
<1>3. ASSUME NEW a \in Addr, IsObject(a)', lo <= a, a < hi
      PROVE  /\ a + SizeOf(a)' <= hi
             /\ a + SizeOf(a)' < hi => IsObject(a + SizeOf(a))'
             /\ \A b \in Addr : (a < b /\ b < a + SizeOf(a)') => ~IsObject(b)'
  <2>1. IsObject(a) /\ SizeOf(a)' = SizeOf(a) /\ SizeOf(a) \in Nat /\ SizeOf(a) > 0
    BY <1>1, <1>3, SizeType
  <2>2. a + SizeOf(a) <= hi
    BY <1>3, <2>1 DEF Tiled
  <2>3. a + SizeOf(a) < hi => IsObject(a + SizeOf(a))'
    BY <1>3, <2>1, SizeAssumption DEF Tiled, IsObject
  <2>4. \A b \in Addr : (a < b /\ b < a + SizeOf(a)') => ~IsObject(b)'
    BY <1>1, <1>3, <2>1, <2>2 DEF Tiled
  <2> QED
    BY <2>1, <2>2, <2>3, <2>4
<1> QED
  BY <1>2, <1>3

\* A step that leaves the collector and the headers of the objects alone keeps the
\* parts of the invariant that speak only of them.
LEMMA HeapUnchanged ==
  ASSUME IInv, Mutating, UNCHANGED <<from, to, free, gcVars>>,
         \A a \in Addr : IsObject(a) \/ IsObject(a)' => hdr'[a] = hdr[a]
  PROVE  Parsable' /\ Forwarding' /\ Identities' /\ CopyFaithful' /\ CopiedVolume'
<1> USE DEF IInv, gcVars
<1>1. ~Copying /\ ~Copying'
  BY DEF Copying, Mutating
<1>2. Parsable'
  <2>1. \A a \in Addr : /\ IsObject(a)' <=> IsObject(a)
                        /\ IsObject(a) => SizeOf(a)' = SizeOf(a)
    BY DEF IsObject, SizeOf
  <2>2. Tiled(from, free)'
    <3>1. Tiled(from, free) /\ from \in Nat /\ free \in Nat /\ free <= 2 * SemiSize
      BY <1>1, SizeAssumption DEF Parsable, FromEnd, TypeOK
    <3>2. from < free => IsObject(from)'
      BY <2>1, <3>1, SizeAssumption DEF Tiled
    <3>3. ASSUME NEW a \in Addr, IsObject(a)', from <= a, a < free
          PROVE  /\ a + SizeOf(a)' <= free
                 /\ a + SizeOf(a)' < free => IsObject(a + SizeOf(a))'
                 /\ \A b \in Addr : (a < b /\ b < a + SizeOf(a)') => ~IsObject(b)'
      <4>1. IsObject(a) /\ SizeOf(a)' = SizeOf(a) /\ SizeOf(a) \in Nat /\ SizeOf(a) > 0
        BY <2>1, <3>3, SizeType
      <4>2. PICK n : n = a + SizeOf(a)
        OBVIOUS
      <4>3. n <= free /\ (n < free => IsObject(n)) /\ n = a + SizeOf(a)'
            /\ \A b \in Addr : (a < b /\ b < n) => ~IsObject(b)
        BY <3>1, <3>3, <4>1, <4>2 DEF Tiled
      <4>4. n < free => n \in Addr
        BY <3>1, <4>1, <4>2, SizeAssumption
      <4>5. n < free => IsObject(n)'
        BY <2>1, <4>3, <4>4
      <4>6. \A b \in Addr : (a < b /\ b < n) => ~IsObject(b)'
        BY <2>1, <4>3
      <4> QED
        BY <4>3, <4>5, <4>6 DEF IsObject
    <3> QED
      BY <3>2, <3>3 DEF Tiled
  <2> QED
    BY <1>1, <2>1, <2>2 DEF Parsable, FromEnd, InUse, Mutating
<1>3. Forwarding' /\ CopyFaithful' /\ CopiedVolume'
  BY <1>1 DEF Forwarding, CopyFaithful, CopiedVolume, Mutating
<1>4. Identities'
  BY <1>1 DEF Bookkeeping, Identities, FromObject, FromEnd, Copying, IsObject
<1> QED
  BY <1>2, <1>3, <1>4

\* A root step: only words and interior pointers outside the heap change, and
\* each still refers to an object.
LEMMA RootStep ==
  ASSUME IInv, Mutating, UNCHANGED <<heapVars, gcVars>>, status' \in Statuses,
         word' \in [Word -> Pointer],
         interior' \in [Interior -> InteriorPointer],
         rooted' \subseteq Word \cup Interior,
         Unregistered',
         \A w \in Word : word'[w] \in FromRefs,
         \A i \in Interior :
           /\ BaseOf(interior'[i]) \in FromRefs
           /\ interior'[i].ptr # Null =>
                interior'[i].offset \in RefOffsets[hdr[BaseOf(interior'[i])].klass]
  PROVE  IInv'
<1> USE DEF IInv, heapVars, gcVars
<1>1. ~Copying /\ ~Copying'
  BY DEF Copying, Mutating
<1>2. Parsable' /\ Forwarding' /\ Identities' /\ CopyFaithful' /\ CopiedVolume'
  BY HeapUnchanged
<1>3. request = NoRequest /\ pending = {}
  BY DEF Bookkeeping, Requested, Mutating
<1>4. TypeOK'
  BY <1>3 DEF TypeOK
<1>5. NoDangling'
  BY <1>1 DEF NoDangling, FromRefs, FromObject, ToObject, FromEnd, Copying,
              IsObject, Scanned, BaseOf
<1>6. Requested'
  BY <1>3 DEF Bookkeeping, Requested, Mutating
<1> QED
  BY <1>2, <1>4, <1>5, <1>6 DEF Bookkeeping

\* What a word holds after it was given a reference that leads to an object.
LEMMA SetWord ==
  ASSUME TypeOK, NEW v \in Word, NEW p \in Pointer, word' = [word EXCEPT ![v] = p]
  PROVE  /\ word' \in [Word -> Pointer]
         /\ word'[v] = p
         /\ \A w \in Word \ {v} : word'[w] = word[w]
BY DEF TypeOK

\* Outside a collection every reference leads to an object.
LEMMA SettledHeap ==
  ASSUME IInv, ~Copying
  PROVE  /\ \A w \in Word : word[w] \in FromRefs
         /\ \A i \in Interior :
              /\ BaseOf(interior[i]) \in FromRefs
              /\ interior[i].ptr # Null =>
                   interior[i].offset \in RefOffsets[hdr[BaseOf(interior[i])].klass]
         /\ \A a \in Addr : FromObject(a) =>
              \A o \in RefOffsets[hdr[a].klass] : ref[a + o] \in FromRefs
BY DEF IInv, NoDangling

\* In particular while a client runs.
LEMMA Settled ==
  ASSUME IInv, Mutating
  PROVE  /\ \A w \in Word : word[w] \in FromRefs
         /\ \A i \in Interior :
              /\ BaseOf(interior[i]) \in FromRefs
              /\ interior[i].ptr # Null =>
                   interior[i].offset \in RefOffsets[hdr[BaseOf(interior[i])].klass]
         /\ \A a \in Addr : FromObject(a) =>
              \A o \in RefOffsets[hdr[a].klass] : ref[a + o] \in FromRefs
BY SettledHeap DEF Mutating, Copying

\* The reference words of an object are words of the heap.
LEMMA RefWord ==
  ASSUME IInv, NEW a \in Addr, FromObject(a),
         NEW o, o \in RefOffsets[hdr[a].klass]
  PROVE  /\ a + o \in Addr
         /\ o \in Nat /\ 0 < o /\ o < SizeOf(a)
         /\ ref[a + o] \in Pointer
<1>1. o \in Nat /\ 0 < o /\ o < SizeOf(a)
  BY KlassAssumption DEF FromObject, IsObject, SizeOf
<1>2. a + SizeOf(a) <= FromEnd /\ FromEnd \in Nat /\ FromEnd <= 2 * SemiSize
  BY SizeAssumption, SizeType
  DEF IInv, Parsable, Tiled, FromObject, FromEnd, TypeOK
<1>3. SizeOf(a) \in Nat
  BY SizeType DEF FromObject
<1>4. a + o \in Addr
  BY <1>1, <1>2, <1>3, SizeAssumption
<1> QED
  BY <1>1, <1>4 DEF IInv, TypeOK

(* A step that only stores an existing reference in a root keeps the invariant:
   every mutator action of this form (OpDup, OpLdfld, OpLoad) rests on it. *)
LEMMA GiveStep ==
  ASSUME IInv, Mutating, NEW v \in Word, NEW p, p \in FromRefs,
         word' = [word EXCEPT ![v] = p], rooted' = rooted \cup {v},
         UNCHANGED <<heapVars, gcVars, status, interior>>
  PROVE  IInv'
<1>1. p \in Pointer
  BY DEF FromRefs, Pointer
<1>2. TypeOK
  BY DEF IInv
<1>3. /\ word' \in [Word -> Pointer] /\ word'[v] = p
      /\ \A w \in Word \ {v} : word'[w] = word[w]
  BY <1>1, <1>2, SetWord
<1>4. Unregistered'
  BY <1>3 DEF IInv, Bookkeeping, Unregistered
<1>5. \A w \in Word : word'[w] \in FromRefs
  BY <1>3, Settled
<1>6. /\ status' \in Statuses /\ interior' \in [Interior -> InteriorPointer]
      /\ rooted' \subseteq Word \cup Interior
  BY <1>2 DEF TypeOK
<1> QED
  BY <1>3, <1>4, <1>5, <1>6, Settled, RootStep

(* Copying a reference from root to root keeps the invariant. *)
LEMMA CopyRefInv ==
  ASSUME IInv, NEW w \in Word, NEW v \in Word, CopyRef(w, v) PROVE IInv'
BY Settled, GiveStep DEF CopyRef

(* Reading a reference field into a root keeps the invariant. *)
LEMMA LoadFieldInv ==
  ASSUME IInv, NEW w \in Word, NEW v \in Word, NEW o, LoadField(w, o, v)
  PROVE  IInv'
<1> USE DEF LoadField
<1>1. word[w] \in Addr /\ FromObject(word[w])
  BY Settled DEF FromRefs, FieldAt
<1>2. ref[word[w] + o] \in FromRefs
  BY <1>1, Settled DEF FieldAt
<1> QED
  BY <1>2, GiveStep

(* Reading through an interior pointer into a root keeps the invariant. *)
LEMMA LoadInteriorInv ==
  ASSUME IInv, NEW i \in Interior, NEW v \in Word, LoadInterior(i, v)
  PROVE  IInv'
<1> USE DEF LoadInterior
<1>1. /\ BaseOf(interior[i]) \in Addr /\ FromObject(BaseOf(interior[i]))
      /\ interior[i].offset \in RefOffsets[hdr[BaseOf(interior[i])].klass]
      /\ interior[i].ptr = BaseOf(interior[i]) + interior[i].offset
  <2>1. interior[i].ptr \in Addr /\ interior[i].offset \in Nat
    BY DEF IInv, TypeOK, InteriorPointer, Pointer
  <2>2. BaseOf(interior[i]) = interior[i].ptr - interior[i].offset
    BY DEF BaseOf
  <2>3. BaseOf(interior[i]) \in Int /\ BaseOf(interior[i]) # Null
    BY <2>1, <2>2, Settled, MarkerAssumption DEF FromRefs
  <2> QED
    BY <2>1, <2>2, <2>3, Settled DEF FromRefs
<1>2. ref[interior[i].ptr] \in FromRefs
  BY <1>1, Settled
<1> QED
  BY <1>2, GiveStep

\* Giving up the reference a word holds.
LEMMA ForgetWord ==
  ASSUME IInv, NEW w \in Word, Forget(w)
  PROVE  /\ word' \in [Word -> Pointer] /\ word'[w] = Null
         /\ \A v \in Word \ {w} : word'[v] = word[v]
         /\ interior' \in [Interior -> InteriorPointer]
         /\ rooted' \subseteq Word \cup Interior
         /\ w \notin rooted'
         /\ Unregistered'
         /\ Mutating => \A v \in Word : word'[v] \in FromRefs
<1> USE DEF Forget
<1>1. /\ word' \in [Word -> Pointer] /\ word'[w] = Null
      /\ \A v \in Word \ {w} : word'[v] = word[v]
  BY DEF IInv, TypeOK, Pointer
<1>2. w \notin Interior
  BY RootAssumption
<1>3. Unregistered'
  BY <1>1, <1>2 DEF IInv, Bookkeeping, Unregistered
<1>4. Mutating => \A v \in Word : word'[v] \in FromRefs
  BY <1>1, Settled DEF FromRefs
<1> QED
  BY <1>1, <1>3, <1>4 DEF IInv, TypeOK

(* Forgetting an instance reference keeps the invariant. *)
LEMMA DropRefInv ==
  ASSUME IInv, NEW w \in Word, DropRef(w) PROVE IInv'
<1>1. status' \in Statuses
  BY DEF DropRef, IInv, TypeOK
<1> QED
  BY <1>1, ForgetWord, Settled, RootStep DEF DropRef, Forget

\* Giving an interior pointer a value that leads into an object, or taking it.
LEMMA InteriorStep ==
  ASSUME IInv, Mutating, NEW i \in Interior, NEW p \in InteriorPointer,
         BaseOf(p) \in FromRefs,
         p.ptr # Null => p.offset \in RefOffsets[hdr[BaseOf(p)].klass],
         interior' = [interior EXCEPT ![i] = p],
         \/ rooted' = rooted \cup {i}
         \/ p = NoInterior /\ rooted' = rooted \ {i},
         UNCHANGED <<heapVars, gcVars, status, word>>
  PROVE  IInv'
<1>1. /\ interior' \in [Interior -> InteriorPointer] /\ interior'[i] = p
      /\ \A j \in Interior \ {i} : interior'[j] = interior[j]
  BY DEF IInv, TypeOK
<1>2. i \notin Word
  BY RootAssumption
<1>3. Unregistered'
  BY <1>1, <1>2 DEF IInv, Bookkeeping, Unregistered
<1>4. \A j \in Interior :
        /\ BaseOf(interior'[j]) \in FromRefs
        /\ interior'[j].ptr # Null =>
             interior'[j].offset \in RefOffsets[hdr[BaseOf(interior'[j])].klass]
  <2> TAKE j \in Interior
  <2>1. CASE j = i
    BY <1>1, <2>1
  <2>2. CASE j # i
    BY <1>1, <2>2, Settled
  <2> QED
    BY <2>1, <2>2
<1>5. /\ word' \in [Word -> Pointer] /\ status' \in Statuses
      /\ rooted' \subseteq Word \cup Interior
      /\ \A w \in Word : word'[w] \in FromRefs
  BY Settled DEF IInv, TypeOK
<1> QED
  BY <1>1, <1>3, <1>4, <1>5, RootStep

\* NoInterior is an interior pointer into no object.
LEMMA NoInteriorType ==
  /\ NoInterior \in InteriorPointer
  /\ NoInterior.ptr = Null
  /\ BaseOf(NoInterior) \in FromRefs
BY DEF NoInterior, InteriorPointer, Pointer, BaseOf, FromRefs

(* Making an interior pointer to a field keeps the invariant. *)
LEMMA TakeInteriorInv ==
  ASSUME IInv, NEW w \in Word, NEW o, NEW i \in Interior, TakeInterior(w, o, i)
  PROVE  IInv'
<1> DEFINE p == [ptr |-> word[w] + o, offset |-> o]
<1> USE DEF TakeInterior
<1>1. word[w] \in Addr /\ FromObject(word[w])
  BY Settled DEF FromRefs, FieldAt
<1>2. word[w] + o \in Addr /\ o \in Nat
  BY <1>1, RefWord DEF FieldAt
<1>3. p \in InteriorPointer
  BY <1>2 DEF InteriorPointer, Pointer
<1>4. BaseOf(p) = word[w]
  BY <1>1, <1>2, MarkerAssumption DEF BaseOf
<1> HIDE DEF p
<1>5. interior' = [interior EXCEPT ![i] = p]
  BY DEF p
<1>6. p.offset = o
  BY DEF p
<1> QED
  BY <1>1, <1>3, <1>4, <1>5, <1>6, InteriorStep DEF FieldAt, FromRefs

(* Making an interior pointer to a variable keeps the invariant. *)
LEMMA TakeLocalInv ==
  ASSUME IInv, NEW i \in Interior, TakeLocal(i) PROVE IInv'
<1> USE DEF TakeLocal
<1>1. interior' = [interior EXCEPT ![i] = NoInterior]
  BY DEF IInv, Bookkeeping, Unregistered, TypeOK
<1> QED
  BY <1>1, NoInteriorType, InteriorStep

(* Forgetting an interior pointer keeps the invariant. *)
LEMMA DropInteriorInv ==
  ASSUME IInv, NEW i \in Interior, DropInterior(i) PROVE IInv'
BY NoInteriorType, InteriorStep DEF DropInterior

\* Writing references that lead to an object into words of the heap, and anything
\* into what no object occupies.
LEMMA WriteStep ==
  ASSUME IInv, Mutating, ref' \in [Addr -> Pointer], hdr' \in [Addr -> Header],
         \A y \in Addr : ref'[y] \in FromRefs \/ ref'[y] = ref[y],
         \A a \in Addr : IsObject(a) \/ IsObject(a)' => hdr'[a] = hdr[a],
         status' \in Statuses,
         UNCHANGED <<from, to, free, gcVars, rootVars>>
  PROVE  IInv'
<1>1. ~Copying /\ ~Copying'
  BY DEF Copying, Mutating, gcVars
<1>2. Parsable' /\ Forwarding' /\ Identities' /\ CopyFaithful' /\ CopiedVolume'
  BY HeapUnchanged
<1>5. TypeOK'
  BY DEF IInv, TypeOK, gcVars, rootVars
<1>6. /\ \A a \in Addr : FromObject(a)' <=> FromObject(a)
      /\ FromRefs' = FromRefs
  BY <1>1 DEF FromRefs, FromObject, FromEnd, IsObject
<1>7. \A a \in Addr : FromObject(a)' =>
        \A o \in RefOffsets[hdr'[a].klass] : ref'[a + o] \in FromRefs'
  <2> SUFFICES ASSUME NEW a \in Addr, FromObject(a)',
                      NEW o \in RefOffsets[hdr'[a].klass]
               PROVE  ref'[a + o] \in FromRefs'
    OBVIOUS
  <2>1. FromObject(a) /\ o \in RefOffsets[hdr[a].klass]
    BY <1>6 DEF FromObject
  <2>2. a + o \in Addr
    BY <2>1, RefWord
  <2>3. ref[a + o] \in FromRefs
    BY <2>1, Settled
  <2> QED
    BY <2>2, <2>3, <1>6
<1>8. NoDangling'
  <2>1. ASSUME NEW i \in Interior
        PROVE  /\ BaseOf(interior'[i]) \in FromRefs'
               /\ interior'[i].ptr # Null =>
                    interior'[i].offset \in RefOffsets[hdr'[BaseOf(interior'[i])].klass]
    <3>1. interior'[i] = interior[i] /\ BaseOf(interior[i]) \in FromRefs
      BY Settled DEF rootVars
    <3>2. ASSUME interior[i].ptr # Null
          PROVE  interior[i].offset \in RefOffsets[hdr'[BaseOf(interior[i])].klass]
      <4>1. PICK q : q = BaseOf(interior[i])
        OBVIOUS
      <4>2. q # Null
        BY <3>2, <4>1, MarkerAssumption DEF BaseOf, IInv, TypeOK, InteriorPointer, Pointer
      <4>3. q \in Addr /\ IsObject(q)
        BY <3>1, <4>1, <4>2 DEF FromRefs, FromObject
      <4>4. hdr'[q] = hdr[q] /\ interior[i].offset \in RefOffsets[hdr[q].klass]
        BY <3>2, <4>1, <4>3, Settled
      <4> QED
        BY <4>1, <4>4
    <3> QED
      BY <1>6, <3>1, <3>2
  <2>2. \A w \in Word : word'[w] \in FromRefs'
    BY <1>6, Settled DEF rootVars
  <2> QED
    BY <1>1, <1>7, <2>1, <2>2 DEF NoDangling, BaseOf, ToObject
<1>9. Unregistered' /\ Requested'
  BY DEF IInv, Bookkeeping, Unregistered, Requested, Mutating, gcVars, rootVars
<1> QED
  BY <1>2, <1>5, <1>8, <1>9 DEF IInv, Bookkeeping

\* What the words behind a field are, for a store that destroys nothing in use.
LEMMA RunOverHarmless ==
  ASSUME IInv, NEW a \in Addr, FromObject(a), NEW o \in RefOffsets[hdr[a].klass],
         ~Copying, Harmless(a, o), NEW x \in RunOver(a, o)
  PROVE  /\ a + o < x /\ x \in Addr
         /\ a + SizeOf(a) <= x => free <= x
         /\ x < a + SizeOf(a) => x = a + o + 1 \/ x - a \notin RefOffsets[hdr[a].klass]
<1>1. o \in Nat /\ 0 < o /\ Spill[hdr[a].klass][o] \in Nat /\ IsObject(a)
  BY KlassAssumption, SpillAssumption DEF FromObject, IsObject
<1>2. x \in Int /\ a + o < x
  BY <1>1 DEF RunOver
<1>3. a + SizeOf(a) <= free /\ free \in Nat /\ free <= 2 * SemiSize /\ SizeOf(a) \in Nat
  BY <1>1, SizeType, SizeAssumption DEF IInv, TypeOK, Parsable, FromEnd, Tiled, FromObject
<1> QED
  BY <1>1, <1>2, <1>3, SizeAssumption DEF Harmless

\* The headers of the objects survive such a store.
LEMMA StoredHeaders ==
  ASSUME IInv, NEW w \in Word, NEW v \in Word, NEW o, StoreField(w, o, v), Intact'
  PROVE  \A a \in Addr : IsObject(a) \/ IsObject(a)' => hdr'[a] = hdr[a]
<1>1. PICK a : a = word[w]
  OBVIOUS
<1>2. /\ a \in Addr /\ FromObject(a) /\ o \in RefOffsets[hdr[a].klass] /\ Harmless(a, o)
      /\ ~Copying
  BY <1>1, Settled DEF StoreField, FromRefs, FieldAt, Intact, Mutating, Copying
<1>3. hdr' = [x \in Addr |-> IF x \in RunOver(a, o) /\ a + SizeOf(a) <= x
                            THEN Emptied(Garbage) ELSE hdr[x]]
  BY <1>1 DEF StoreField
<1> TAKE x \in Addr
<1>4. CASE x \in RunOver(a, o) /\ a + SizeOf(a) <= x
  <2>1. free <= x
    BY <1>2, <1>4, RunOverHarmless
  <2>2. ~IsObject(x)
    BY <1>2, <2>1, SizeAssumption DEF IInv, Parsable, InUse, FromEnd, TypeOK
  <2>3. ~IsObject(x)'
    BY <1>3, <1>4, MarkerAssumption DEF IsObject, Emptied
  <2> QED
    BY <2>2, <2>3
<1>5. CASE ~(x \in RunOver(a, o) /\ a + SizeOf(a) <= x)
  BY <1>3, <1>5
<1> QED
  BY <1>4, <1>5

(* Writing a reference field keeps the invariant, unless it runs over memory in use. *)
LEMMA StoreFieldInv ==
  ASSUME IInv, NEW w \in Word, NEW v \in Word, NEW o, StoreField(w, o, v), Intact'
  PROVE  IInv'
<1> USE DEF StoreField
<1>1. PICK a : a = word[w]
  OBVIOUS
<1>2. a \in Addr /\ FromObject(a) /\ o \in RefOffsets[hdr[a].klass] /\ Harmless(a, o)
  BY <1>1, Settled DEF FromRefs, FieldAt, Intact
<1>3. ~Copying /\ Null \in FromRefs /\ a \in FromRefs /\ word[v] \in FromRefs
  BY <1>2, Settled DEF FromRefs, Mutating, Copying
<1>4. /\ FromRefs \subseteq Pointer /\ ref \in [Addr -> Pointer] /\ hdr \in [Addr -> Header]
      /\ Emptied(Garbage) \in Header /\ Garbage \notin Klass
  BY MarkerAssumption DEF FromRefs, Pointer, IInv, TypeOK, Emptied, Header
<1>5. ref' \in [Addr -> Pointer] /\ \A y \in Addr : ref'[y] \in FromRefs \/ ref'[y] = ref[y]
  BY <1>1, <1>3, <1>4
<1>6. hdr' = [x \in Addr |-> IF x \in RunOver(a, o) /\ a + SizeOf(a) <= x
                            THEN Emptied(Garbage) ELSE hdr[x]]
  BY <1>1
<1>7. hdr' \in [Addr -> Header]
  BY <1>4, <1>6
<1>8. \A x \in Addr : IsObject(x) \/ IsObject(x)' => hdr'[x] = hdr[x]
  BY StoredHeaders
<1>9. status' \in Statuses
  BY DEF Statuses
<1> HIDE DEF StoreField
<1>10. Mutating /\ UNCHANGED <<from, to, free, gcVars, rootVars>>
  BY DEF StoreField
<1> QED
  BY <1>5, <1>7, <1>8, <1>9, <1>10, WriteStep

(* Writing through an interior pointer keeps the invariant. *)
LEMMA StoreInteriorInv ==
  ASSUME IInv, NEW i \in Interior, NEW v \in Word, StoreInterior(i, v)
  PROVE  IInv'
<1> USE DEF StoreInterior
<1>1. interior[i].ptr \in Addr
  BY DEF IInv, TypeOK, InteriorPointer, Pointer
<1>2. word[v] \in FromRefs /\ word[v] \in Pointer
  BY Settled DEF FromRefs, Pointer
<1>3. ref' \in [Addr -> Pointer] /\ \A y \in Addr : ref'[y] \in FromRefs \/ ref'[y] = ref[y]
  BY <1>1, <1>2 DEF IInv, TypeOK
<1>4. hdr' = hdr /\ hdr \in [Addr -> Header] /\ status' \in Statuses
  BY DEF IInv, TypeOK
<1> QED
  BY <1>3, <1>4, WriteStep

\* minorGC is entered: the headers may have been marked, but class and
\* identity of every object are what they were.
LEMMA BeginStep ==
  ASSUME IInv, Mutating, NEW req \in Requests, BeginCollection(req),
         UNCHANGED <<ref, from, to, free, status>>,
         hdr' \in [Addr -> Header],
         \A a \in Addr : hdr'[a].klass = hdr[a].klass /\ hdr'[a].id = hdr[a].id,
         word' \in [Word -> Pointer], interior' = interior,
         rooted' \subseteq Word \cup Interior,
         req.word \notin rooted', Unregistered',
         \A w \in Word : word'[w] \in FromRefs
  PROVE  IInv'
<1> USE DEF BeginCollection
<1>1. ~Copying /\ ~Copying' /\ phase' = "reset" /\ pending = {}
  BY DEF Copying, Mutating, IInv, Bookkeeping, Requested
<1>2. TypeOK
  BY DEF IInv
<1>3. \A a \in Addr : IsObject(a) <=> IsObject(a)'
  BY DEF IsObject
<1>4. \A a \in Addr : SizeOf(a)' = SizeOf(a)
  BY DEF SizeOf
<1>5. from <= free /\ free \in Int /\ from \in Int /\ free <= from + SemiSize
  BY <1>1, SizeAssumption DEF IInv, Parsable, FromEnd, TypeOK
<1>6. \A a \in Addr : FromObject(a) <=> FromObject(a)'
  BY <1>1, <1>3 DEF FromObject, FromEnd
<1>7. TypeOK'
  <2>1. {free, limit, cursor}' \subseteq 0 .. (2 * SemiSize)
    BY <1>2, SizeAssumption DEF TypeOK
  <2> QED
    BY <1>1, <1>2, <2>1 DEF TypeOK, Phases
<1>8. Parsable'
  <2>1. Tiled(from, free) /\ \A a \in Addr : IsObject(a) => InUse(a)
    BY <1>1 DEF IInv, Parsable, FromEnd
  <2>2. Tiled(from, free)'
    <3>1. from \in Nat /\ free \in Nat /\ free <= 2 * SemiSize
      BY <1>2, <1>5, SizeAssumption DEF TypeOK
    <3> QED
      BY <2>1, <3>1, TiledSame DEF Tiled
  <2>4. from < free => IsObject(from) /\ from \in Addr
    BY <2>1, <1>2, <1>5, SizeAssumption DEF Tiled, TypeOK
  <2>5. from < free => IsObject(from)'
    BY <2>4, <1>3
  <2>6. \A a \in Addr : IsObject(a)' => InUse(a)'
    BY <1>1, <1>3, <2>1 DEF InUse, FromEnd
  <2> QED
    BY <1>1, <1>5, <2>2, <2>5, <2>6 DEF Parsable, FromEnd
<1>9. Forwarding'
  BY <1>1, <1>5, <1>2, SizeAssumption DEF Forwarding, FromObject
<1>10. FromRefs' = FromRefs
  BY <1>6 DEF FromRefs
<1>11. NoDangling'
  <2>1. \A w \in Word : word'[w] \in FromRefs'
    BY <1>10
  <2>2. \A i \in Interior :
              /\ BaseOf(interior'[i]) \in FromRefs'
              /\ interior'[i].ptr # Null =>
                   interior'[i].offset \in RefOffsets[hdr'[BaseOf(interior'[i])].klass]
    <3> TAKE i \in Interior
    <3>1. BaseOf(interior'[i]) \in FromRefs'
      BY <1>10, Settled
    <3>2. ASSUME interior'[i].ptr # Null
          PROVE  BaseOf(interior[i]) \in Addr
      <4>1. interior[i].ptr \in Int /\ interior[i].offset \in Int
        BY <3>2, <1>2 DEF TypeOK, InteriorPointer, Pointer
      <4>2. BaseOf(interior[i]) # Null
        BY <3>2, <4>1, MarkerAssumption DEF BaseOf
      <4> QED
        BY <4>2, Settled DEF FromRefs
    <3> QED
      BY <3>1, <3>2, Settled
  <2>3. \A a \in Addr : FromObject(a)' =>
              \A o \in RefOffsets[hdr'[a].klass] : ref'[a + o] \in FromRefs'
    BY <1>6, <1>10, Settled
  <2> QED
    BY <1>1, <2>1, <2>2, <2>3 DEF NoDangling, BaseOf, ToObject
<1>12. CopyFaithful' /\ CopiedVolume'
  BY <1>1 DEF CopyFaithful, CopiedVolume
<1>13. Identities'
  BY <1>3, <1>6 DEF IInv, Bookkeeping, Identities
<1>14. Requested'
  <2>1. req # NoRequest /\ req \in Requests
    <3>1. req.op \in {"allocate", "pin", "unpin"}
      BY DEF Requests
    <3>2. NoRequest.op = "none"
      BY DEF NoRequest
    <3> QED
      BY <3>1, <3>2
  <2> QED
    BY <2>1, <1>1 DEF Requested
<1> QED
  BY <1>7, <1>8, <1>9, <1>11, <1>12, <1>13, <1>14 DEF IInv, Bookkeeping

\* A request names a class and a word.
LEMMA RequestType ==
  ASSUME NEW op \in {"allocate", "pin", "unpin"}, NEW k \in Klass, NEW w \in Word
  PROVE  [op |-> op, klass |-> k, word |-> w] \in Requests
BY DEF Requests

(* pin, which starts a collection, keeps the invariant. *)
LEMMA PinInv ==
  ASSUME IInv, NEW w \in Word, Pin(w) PROVE IInv'
<1> USE DEF Pin
<1>1. word[w] \in Addr /\ FromObject(word[w]) /\ hdr[word[w]].klass \in Klass
  BY Settled DEF FromRefs, FromObject, IsObject
<1>2. CASE hdr[word[w]].pined
  <2>1. status' \in Statuses
    BY DEF IInv, TypeOK
  <2> QED
    BY <1>2, <2>1, ForgetWord, Settled, RootStep DEF heapVars, Forget
<1>3. CASE ~hdr[word[w]].pined
  <2> DEFINE req == [op |-> "pin", klass |-> hdr[word[w]].klass, word |-> w]
  <2>1. req \in Requests /\ req.word = w /\ BeginCollection(req)
    BY <1>1, <1>3, RequestType
  <2> DEFINE h == [hdr[word[w]] EXCEPT !.pined = TRUE, !.forward = Malloced]
  <2>a. hdr[word[w]] \in Header /\ hdr \in [Addr -> Header]
    BY <1>1 DEF IInv, TypeOK
  <2>b. h \in Header /\ h.klass = hdr[word[w]].klass /\ h.id = hdr[word[w]].id
    BY <2>a DEF Header
  <2>c. hdr' = [hdr EXCEPT ![word[w]] = h]
    BY <1>3
  <2> HIDE DEF h
  <2>2. hdr' \in [Addr -> Header]
    BY <1>1, <2>a, <2>b, <2>c
  <2>3. \A a \in Addr : hdr'[a].klass = hdr[a].klass /\ hdr'[a].id = hdr[a].id
    BY <1>1, <2>a, <2>b, <2>c
  <2> HIDE DEF req
  <2> QED
    BY <2>1, <2>2, <2>3, ForgetWord, BeginStep DEF Forget
<1> QED
  BY <1>2, <1>3

(* unpin, when it finds room at once, keeps the invariant. *)
LEMMA UnpinInv ==
  ASSUME IInv, NEW w \in Word, Unpin(w) PROVE IInv'
<1> USE DEF Unpin
<1>1. word[w] \in Addr /\ FromObject(word[w]) /\ hdr[word[w]].klass \in Klass
  BY Settled DEF FromRefs, FromObject, IsObject
<1>2. CASE UNCHANGED gcVars
  <2>1. status' \in Statuses
    BY DEF IInv, TypeOK, Statuses
  <2> QED
    BY <1>2, <2>1, ForgetWord, Settled, RootStep DEF Forget
<1>3. CASE BeginCollection([op |-> "unpin", klass |-> hdr[word[w]].klass, word |-> w])
           /\ UNCHANGED status
  <2> DEFINE req == [op |-> "unpin", klass |-> hdr[word[w]].klass, word |-> w]
  <2>1. req \in Requests /\ req.word = w /\ BeginCollection(req)
    BY <1>1, <1>3, RequestType
  <2>2. hdr' \in [Addr -> Header] /\ hdr' = hdr
    BY DEF IInv, TypeOK, heapVars
  <2> HIDE DEF req
  <2> QED
    BY <1>3, <2>1, <2>2, ForgetWord, BeginStep DEF Forget, heapVars
<1> QED
  BY <1>2, <1>3

\* The call that started the collection ends without touching the heap.
LEMMA RetryEnds ==
  ASSUME IInv, phase = "retry", phase' = "mutator", request' = NoRequest,
         status' \in Statuses,
         UNCHANGED <<heapVars, limit, cursor, pending, todo, rootVars>>
  PROVE  IInv'
<1> USE DEF heapVars, rootVars
<1>1. ~Copying /\ ~Copying' /\ pending = {}
  BY DEF Copying, IInv, Bookkeeping, Requested
<1>2. TypeOK'
  BY DEF IInv, TypeOK, Phases
<1>3. Parsable'
  BY <1>1 DEF IInv, Parsable, FromEnd, Tiled, InUse, IsObject, SizeOf
<1>4. Forwarding' /\ CopyFaithful' /\ CopiedVolume'
  BY <1>1 DEF Forwarding, CopyFaithful, CopiedVolume
<1>5. NoDangling'
  BY <1>1 DEF IInv, NoDangling, FromRefs, FromObject, ToObject, FromEnd, IsObject, BaseOf
<1>6. Unregistered' /\ Identities' /\ Requested'
  BY <1>1 DEF IInv, Bookkeeping, Unregistered, Identities, Requested, FromObject,
              FromEnd, IsObject
<1> QED
  BY <1>2, <1>3, <1>4, <1>5, <1>6 DEF IInv, Bookkeeping

(* unpin, after the collection it asked for, keeps the invariant. *)
LEMMA RetryUnpinInv ==
  ASSUME IInv, RetryUnpin PROVE IInv'
<1>1. status' \in Statuses
  BY DEF RetryUnpin, Statuses
<1> QED
  BY <1>1, RetryEnds DEF RetryUnpin

\* What placing an object behind the last one of from-space does to the heap.
LEMMA BumpHeap ==
  ASSUME IInv, phase \in {"mutator", "retry"}, phase' = "mutator",
         NEW k \in Klass, NEW w \in Word,
         ~(RemainSemiSpace < InstanceSize[k]), Bump(k, w)
  PROVE  LET size == InstanceSize[k] IN
         /\ ~Copying /\ ~Copying' /\ pending = {} /\ FromEnd = free
         /\ from \in Nat /\ free \in Nat /\ from <= free /\ free \in Addr
         /\ free + size <= from + SemiSize /\ from + SemiSize <= 2 * SemiSize
         /\ hdr' \in [Addr -> Header] /\ hdr'[free].klass = k
         /\ hdr'[free].id \in Id /\ FreshId(hdr'[free].id)
         /\ \A a \in Addr : free < a /\ a < free + size => hdr'[a].klass = NoKlass
         /\ \A a \in Addr : a < free \/ free + size <= a => hdr'[a] = hdr[a]
         /\ \A a \in Addr : IsObject(a) => from <= a /\ a < free
         /\ \A a \in Addr : IsObject(a)' <=> IsObject(a) \/ a = free
         /\ ref' \in [Addr -> Pointer]
         /\ \A a \in Addr : a < free => ref'[a] = ref[a]
         /\ \A a \in Addr : free <= a /\ a < free + size => ref'[a] = Null
<1> DEFINE size == InstanceSize[k]
<1>1. size \in Nat /\ size > 0 /\ TypeOK /\ SemiSize \in Nat /\ SemiSize > 0
  BY KlassAssumption, SizeAssumption DEF IInv
<1>2. ~Copying /\ ~Copying' /\ pending = {} /\ FromEnd = free
  BY DEF Copying, IInv, Bookkeeping, Requested, FromEnd
<1>3. /\ from \in Nat /\ free \in Nat /\ from <= free /\ free \in Addr
      /\ free + size <= from + SemiSize /\ from + SemiSize <= 2 * SemiSize
  <2>1. from \in Nat /\ free \in Nat /\ from + SemiSize <= 2 * SemiSize
    BY <1>1 DEF TypeOK
  <2>2. from <= free
    BY <1>2 DEF IInv, Parsable
  <2>3. free + size <= from + SemiSize
    BY <1>1, <2>1 DEF RemainSemiSpace
  <2> QED
    BY <1>1, <2>1, <2>2, <2>3
<1>4. PICK i \in Id : FreshId(i) /\ hdr' = [a \in Addr |->
                    IF a = free THEN [Emptied(k) EXCEPT !.id = i]
                    ELSE IF free < a /\ a < free + size
                         THEN Emptied(NoKlass)
                         ELSE hdr[a]]
  BY DEF Bump
<1>5. /\ hdr' \in [Addr -> Header]
      /\ hdr'[free].klass = k /\ hdr'[free].id = i
      /\ \A a \in Addr : free < a /\ a < free + size => hdr'[a].klass = NoKlass
      /\ \A a \in Addr : a < free \/ free + size <= a => hdr'[a] = hdr[a]
  <2>1. [Emptied(k) EXCEPT !.id = i] \in Header /\ Emptied(NoKlass) \in Header
    BY DEF Emptied, Header
  <2>2. [Emptied(k) EXCEPT !.id = i].klass = k /\ [Emptied(k) EXCEPT !.id = i].id = i
    BY DEF Emptied
  <2>3. Emptied(NoKlass).klass = NoKlass
    BY DEF Emptied
  <2> DEFINE new == [Emptied(k) EXCEPT !.id = i]
             none == Emptied(NoKlass)
  <2>4. hdr' = [a \in Addr |-> IF a = free THEN new
                               ELSE IF free < a /\ a < free + size THEN none
                               ELSE hdr[a]]
    BY <1>4
  <2>5. new \in Header /\ none \in Header /\ new.klass = k /\ new.id = i
        /\ none.klass = NoKlass
    BY <2>1, <2>2, <2>3
  <2> HIDE DEF size, new, none
  <2>6. hdr' \in [Addr -> Header]
    BY <2>4, <2>5, <1>1 DEF TypeOK
  <2>7. hdr'[free] = new
    BY <2>4, <1>3
  <2>8. \A a \in Addr : free < a /\ a < free + size => hdr'[a] = none
    BY <2>4, <1>1, <1>3
  <2>9. \A a \in Addr : a < free \/ free + size <= a => hdr'[a] = hdr[a]
    BY <2>4, <1>1, <1>3
  <2> QED
    BY <2>5, <2>6, <2>7, <2>8, <2>9
<1>6. \A a \in Addr : IsObject(a) => from <= a /\ a < free
  BY <1>2 DEF IInv, Parsable, InUse
<1>7. \A a \in Addr : IsObject(a)' <=> IsObject(a) \/ a = free
  <2> HIDE DEF size
  <2> QED
    BY <1>1, <1>3, <1>5, <1>6, MarkerAssumption DEF IsObject
<1> HIDE DEF size
<1>8. /\ ref' \in [Addr -> Pointer]
      /\ \A a \in Addr : a < free => ref'[a] = ref[a]
      /\ \A a \in Addr : free <= a /\ a < free + size => ref'[a] = Null
  BY <1>1, <1>3 DEF Bump, TypeOK, Pointer, size
<1>9. hdr'[free].id \in Id /\ FreshId(hdr'[free].id)
  BY <1>4, <1>5
<1> QED
  BY <1>2, <1>3, <1>5, <1>6, <1>7, <1>8, <1>9 DEF size

(* Placing a new object behind the last one of from-space keeps the invariant. *)
LEMMA BumpStep ==
  ASSUME IInv, phase \in {"mutator", "retry"}, phase' = "mutator",
         request' = NoRequest, status' \in Statuses,
         UNCHANGED <<limit, cursor, pending, todo>>,
         NEW k \in Klass, NEW w \in Word, w \notin rooted,
         ~(RemainSemiSpace < InstanceSize[k]), Bump(k, w)
  PROVE  IInv'
<1> DEFINE size == InstanceSize[k]
<1>1. size \in Nat /\ size > 0 /\ TypeOK /\ SemiSize \in Nat /\ SemiSize > 0
  BY KlassAssumption, SizeAssumption DEF IInv
<1>2. ~Copying /\ ~Copying' /\ pending = {} /\ FromEnd = free
  BY BumpHeap
<1>3. /\ from \in Nat /\ free \in Nat /\ from <= free /\ free \in Addr
      /\ free + size <= from + SemiSize /\ from + SemiSize <= 2 * SemiSize
  BY BumpHeap
<1>4. PICK i \in Id : FreshId(i) /\ hdr'[free].id = i
  BY BumpHeap
<1>5. /\ hdr' \in [Addr -> Header]
      /\ hdr'[free].klass = k /\ hdr'[free].id = i
      /\ \A a \in Addr : free < a /\ a < free + size => hdr'[a].klass = NoKlass
      /\ \A a \in Addr : a < free \/ free + size <= a => hdr'[a] = hdr[a]
  BY <1>4, BumpHeap
<1>6. \A a \in Addr : IsObject(a) => from <= a /\ a < free
  BY BumpHeap
<1>7. \A a \in Addr : IsObject(a)' <=> IsObject(a) \/ a = free
  BY BumpHeap
<1>8. /\ ref' \in [Addr -> Pointer]
      /\ \A a \in Addr : a < free => ref'[a] = ref[a]
      /\ \A a \in Addr : free <= a /\ a < free + size => ref'[a] = Null
  BY BumpHeap
<1> HIDE DEF size
<1>9. free' = free + size /\ from' = from /\ to' = to
  BY DEF Bump, size
<1>10. TypeOK'
  <2>1. {free, limit, cursor}' \subseteq 0 .. (2 * SemiSize)
    BY <1>1, <1>3, <1>9 DEF TypeOK
  <2>2. word' \in [Word -> Pointer] /\ rooted' \subseteq Word \cup Interior
    BY <1>1, <1>3 DEF Bump, TypeOK, Pointer
  <2> QED
    BY <1>1, <1>2, <1>5, <1>8, <1>9, <2>1, <2>2 DEF TypeOK, Phases, Bump
<1>11. \A a \in Addr : IsObject(a) => SizeOf(a)' = SizeOf(a) /\ a + SizeOf(a) <= free
  <2> TAKE a \in Addr
  <2> HAVE IsObject(a)
  <2>1. SizeOf(a)' = SizeOf(a)
    BY <1>3, <1>5, <1>6 DEF SizeOf
  <2>2. a + SizeOf(a) <= free
    BY <1>2, <1>6 DEF IInv, Parsable, Tiled
  <2> QED
    BY <2>1, <2>2
<1>12. \A a \in Addr : a = free => SizeOf(a)' = size
  BY <1>5 DEF SizeOf, size
<1>13. FromEnd' = free + size
  BY <1>2, <1>9 DEF FromEnd
<1>14. \A a \in Addr : FromObject(a)' <=> FromObject(a) \/ a = free
  BY <1>1, <1>2, <1>3, <1>6, <1>7, <1>9, <1>13 DEF FromObject
<1>15. Parsable'
  <2>1. Tiled(from, free)
    BY <1>2 DEF IInv, Parsable
  <2>2. from < free => IsObject(from) /\ from \in Addr
    BY <2>1, <1>1, <1>3 DEF Tiled
  <2>3. IsObject(from)'
    <3>1. from \in Addr /\ (from = free \/ IsObject(from))
      BY <2>2, <1>1, <1>3
    <3> QED
      BY <3>1, <1>7, <1>9
  <2>4. ASSUME NEW a \in Addr, IsObject(a)'
        PROVE  /\ a + SizeOf(a)' <= free + size
               /\ a + SizeOf(a)' < free + size => IsObject(a + SizeOf(a))'
               /\ \A b \in Addr : (a < b /\ b < a + SizeOf(a)') => ~IsObject(b)'
    <3>1. CASE a = free
      <4>1. a + SizeOf(a)' = free + size
        BY <3>1, <1>12
      <4>2. \A b \in Addr : (free < b /\ b < free + size) => ~IsObject(b)'
        BY <1>5, MarkerAssumption DEF IsObject
      <4> QED
        BY <1>1, <1>3, <3>1, <4>1, <4>2
    <3>2. CASE IsObject(a)
      <4>1. SizeOf(a)' = SizeOf(a) /\ a + SizeOf(a) <= free
            /\ SizeOf(a) \in Nat /\ SizeOf(a) > 0 /\ from <= a /\ a < free
        BY <3>2, <1>6, <1>11, SizeType
      <4>2. a + SizeOf(a) < free => IsObject(a + SizeOf(a))
        BY <2>1, <3>2, <4>1 DEF Tiled
      <4>3. IsObject(a + SizeOf(a))'
        <5>1. a + SizeOf(a) \in Addr /\ (a + SizeOf(a) = free \/ IsObject(a + SizeOf(a)))
          BY <1>1, <1>3, <4>1, <4>2
        <5>2. hdr'[a + SizeOf(a)].klass \in Klass
          BY <5>1, <1>7 DEF IsObject
        <5> QED
          BY <5>2, <4>1 DEF IsObject
      <4>4. \A b \in Addr : (a < b /\ b < a + SizeOf(a)) => ~IsObject(b)
        BY <2>1, <3>2, <4>1 DEF Tiled
      <4> QED
        BY <1>1, <1>3, <1>7, <4>1, <4>3, <4>4
    <3> QED
      BY <2>4, <1>7, <3>1, <3>2
  <2>5. \A a \in Addr : IsObject(a)' => from <= a /\ a < free + size
    BY <1>1, <1>3, <1>6, <1>7
  <2>7. \A a \in Addr : IsObject(a)' => InUse(a)'
    BY <2>5, <1>9, <1>13 DEF InUse
  <2>8. from' <= FromEnd' /\ FromEnd' <= from' + SemiSize
    BY <1>1, <1>3, <1>9, <1>13
  <2>9. Tiled(from, FromEnd)'
    BY <2>3, <2>4, <1>9, <1>13 DEF Tiled
  <2> QED
    BY <1>2, <2>7, <2>8, <2>9 DEF Parsable
<1>16. Forwarding' /\ CopyFaithful' /\ CopiedVolume'
  BY <1>2 DEF Forwarding, CopyFaithful, CopiedVolume
<1>17. FromRefs' = FromRefs \cup {free}
  BY <1>3, <1>14 DEF FromRefs
<1>18. NoDangling'
  <2>1. \A v \in Word : word'[v] \in FromRefs'
    BY <1>1, <1>2, <1>17, SettledHeap DEF Bump, TypeOK
  <2>2. \A j \in Interior :
          /\ BaseOf(interior'[j]) \in FromRefs'
          /\ interior'[j].ptr # Null =>
               interior'[j].offset \in RefOffsets[hdr'[BaseOf(interior'[j])].klass]
    <3> TAKE j \in Interior
    <3>1. interior' = interior
      BY DEF Bump
    <3>2. BaseOf(interior[j]) \in FromRefs
      BY <1>2, SettledHeap
    <3>3. ASSUME interior[j].ptr # Null
          PROVE  interior[j].offset \in RefOffsets[hdr'[BaseOf(interior[j])].klass]
      <4>1. interior[j].ptr \in Int /\ interior[j].offset \in Int
        BY <3>3, <1>1 DEF TypeOK, InteriorPointer, Pointer
      <4>2. BaseOf(interior[j]) # Null
        BY <3>3, <4>1, MarkerAssumption DEF BaseOf
      <4>3. BaseOf(interior[j]) \in Addr /\ BaseOf(interior[j]) < free
        BY <3>2, <4>2, <1>2 DEF FromRefs, FromObject
      <4>4. hdr'[BaseOf(interior[j])] = hdr[BaseOf(interior[j])]
        BY <4>3, <1>5
      <4> QED
        BY <3>3, <4>4, <1>2, SettledHeap
    <3> QED
      BY <3>1, <3>2, <3>3, <1>17
  <2>3. \A a \in Addr : FromObject(a)' =>
          \A o \in RefOffsets[hdr'[a].klass] : ref'[a + o] \in FromRefs'
    <3> SUFFICES ASSUME NEW a \in Addr, FromObject(a)',
                        NEW o \in RefOffsets[hdr'[a].klass]
                 PROVE  ref'[a + o] \in FromRefs'
      OBVIOUS
    <3>1. CASE a = free
      <4>1. o \in Nat /\ o < size
        BY <3>1, <1>5, KlassAssumption DEF size
      <4>2. ref'[a + o] = Null
        BY <1>1, <1>3, <1>8, <3>1, <4>1
      <4> QED
        BY <4>2, <1>17 DEF FromRefs
    <3>2. CASE FromObject(a)
      <4>1. a < free /\ IsObject(a) /\ hdr'[a] = hdr[a]
        BY <3>2, <1>2, <1>5 DEF FromObject
      <4>2. a + o \in Addr /\ o \in Nat /\ o < SizeOf(a)
        BY <3>2, <4>1, RefWord
      <4>3. a + o < free
        BY <1>11, <4>1, <4>2, SizeType, <1>3
      <4>4. ref'[a + o] = ref[a + o]
        BY <1>8, <4>2, <4>3
      <4> QED
        BY <3>2, <4>1, <4>4, <1>2, <1>17, SettledHeap
    <3> QED
      BY <3>1, <3>2, <1>14
  <2> QED
    BY <1>2, <2>1, <2>2, <2>3 DEF NoDangling, BaseOf, ToObject
<1>19. Unregistered'
  <2>1. w \notin Interior
    BY RootAssumption
  <2> QED
    BY <1>1, <2>1 DEF IInv, Bookkeeping, Unregistered, Bump, TypeOK
<1>20. Identities'
  <2>1. \A a \in Addr : IsObject(a) => hdr'[a] = hdr[a] /\ hdr[a].id # i /\ hdr[a].id \in Id
    BY <1>4, <1>5, <1>6 DEF FreshId, IInv, Bookkeeping, Identities
  <2>2. \A a, b \in Addr : FromObject(a) /\ FromObject(b) /\ hdr[a].id = hdr[b].id => a = b
    BY DEF IInv, Bookkeeping, Identities
  <2>3. \A a \in Addr : FromObject(a) => IsObject(a)
    BY DEF FromObject
  <2> QED
    BY <1>3, <1>5, <1>7, <1>14, <2>1, <2>2, <2>3 DEF Identities
<1>21. Requested'
  BY <1>2 DEF Requested, Bump
<1> QED
  BY <1>10, <1>15, <1>16, <1>18, <1>19, <1>20, <1>21 DEF IInv, Bookkeeping

(* allocate, with room or starting a collection, keeps the invariant. *)
LEMMA AllocateInv ==
  ASSUME IInv, NEW k \in Klass, NEW w \in Word, Allocate(k, w) PROVE IInv'
<1> USE DEF Allocate
<1>1. CASE RemainSemiSpace < InstanceSize[k]
  <2> DEFINE req == [op |-> "allocate", klass |-> k, word |-> w]
  <2>1. req \in Requests /\ req.word = w /\ BeginCollection(req)
    BY <1>1, RequestType
  <2>2. /\ hdr' \in [Addr -> Header] /\ hdr' = hdr
        /\ word' \in [Word -> Pointer] /\ rooted' \subseteq Word \cup Interior
        /\ Unregistered'
    BY <1>1 DEF IInv, TypeOK, Bookkeeping, Unregistered, heapVars, rootVars
  <2> HIDE DEF req
  <2> QED
    BY <1>1, <2>1, <2>2, Settled, BeginStep DEF heapVars, rootVars
<1>2. CASE ~(RemainSemiSpace < InstanceSize[k])
  <2>1. phase \in {"mutator", "retry"} /\ phase' = "mutator" /\ status' \in Statuses
        /\ UNCHANGED <<limit, cursor, pending, todo>>
    BY <1>2 DEF Mutating, gcVars, IInv, TypeOK
  <2>2. request' = NoRequest
    BY <1>2 DEF Mutating, gcVars, IInv, Bookkeeping, Requested
  <2> QED
    BY <1>2, <2>1, <2>2, BumpStep
<1> QED
  BY <1>1, <1>2

(* allocate, after its collection, keeps the invariant, with or without room. *)
LEMMA RetryAllocateInv ==
  ASSUME IInv, RetryAllocate PROVE IInv'
<1> USE DEF RetryAllocate
<1>1. request \in Requests /\ request.klass \in Klass /\ request.word \in Word
      /\ request.word \notin rooted
  <2>1. request # NoRequest
    BY DEF IInv, Bookkeeping, Requested
  <2> QED
    BY <2>1 DEF IInv, Bookkeeping, Requested, TypeOK, Requests
<1>2. CASE RemainSemiSpace < InstanceSize[request.klass]
  BY <1>2, RetryEnds DEF Statuses
<1>3. CASE ~(RemainSemiSpace < InstanceSize[request.klass])
  <2>1. status' \in Statuses
    BY <1>3 DEF IInv, TypeOK
  <2> QED
    BY <1>1, <1>3, <2>1, BumpStep
<1> QED
  BY <1>2, <1>3

-----------------------------------------------------------------------------
(***************************************************************************)
(* minorGC: resetting the forward pointers.                                *)
(***************************************************************************)

\* Bounds that hold in every state.
LEMMA Bounds ==
  ASSUME IInv
  PROVE  /\ SemiSize \in Nat /\ SemiSize > 0
         /\ from \in Nat /\ to \in Nat /\ free \in Nat /\ limit \in Nat /\ cursor \in Nat
         /\ from + SemiSize <= 2 * SemiSize /\ to + SemiSize <= 2 * SemiSize
         /\ \/ from + SemiSize <= to
            \/ to + SemiSize <= from
         /\ FromEnd \in Nat /\ from <= FromEnd /\ FromEnd <= from + SemiSize
BY SizeAssumption DEF IInv, TypeOK, Parsable, FromEnd

(* One turn of the loop that resets forward pointers keeps the invariant. *)
LEMMA ResetObjectInv ==
  ASSUME IInv, ResetObject PROVE IInv'
<1> USE DEF ResetObject, Collecting
<1>1. ~Copying /\ ~Copying' /\ phase' = "reset" /\ pending = {}
  BY DEF Copying, IInv, Bookkeeping, Requested
<1>2. cursor \in Addr /\ IsObject(cursor) /\ from <= cursor /\ limit = free
  BY Bounds, <1>1 DEF IInv, Parsable, FromEnd
<1>3. SizeOf(cursor) \in Nat /\ SizeOf(cursor) > 0
  BY <1>2, SizeType
<1>4. /\ hdr' \in [Addr -> Header]
      /\ \A a \in Addr : /\ hdr'[a].klass = hdr[a].klass
                         /\ hdr'[a].id = hdr[a].id
                         /\ hdr'[a].forward = IF a = cursor THEN Null ELSE hdr[a].forward
  <2>1. hdr \in [Addr -> Header]
    BY DEF IInv, TypeOK
  <2>2. hdr[cursor] \in Header
    BY <1>2, <2>1
  <2> DEFINE h == [hdr[cursor] EXCEPT !.forward = Null]
  <2>3. h \in Header /\ h.klass = hdr[cursor].klass /\ h.id = hdr[cursor].id
        /\ h.forward = Null
    BY <2>2 DEF Header
  <2>4. hdr' = [hdr EXCEPT ![cursor] = h]
    BY <2>1, <1>2
  <2> HIDE DEF h
  <2> QED
    BY <1>2, <2>1, <2>3, <2>4
<1>5. /\ \A a \in Addr : IsObject(a)' <=> IsObject(a)
      /\ \A a \in Addr : SizeOf(a)' = SizeOf(a)
      /\ \A a \in Addr : FromObject(a)' <=> FromObject(a)
  BY <1>1, <1>4 DEF IsObject, SizeOf, FromObject, FromEnd
<1>6. Tiled(from, free)
  BY <1>1 DEF IInv, Parsable, FromEnd
<1>7. /\ cursor + SizeOf(cursor) <= free
      /\ cursor + SizeOf(cursor) < free => IsObject(cursor + SizeOf(cursor))
  BY <1>2, <1>6 DEF Tiled
<1>8. TypeOK'
  <2>1. {free, limit, cursor}' \subseteq 0 .. (2 * SemiSize)
    <3>1. free <= 2 * SemiSize
      BY <1>1, Bounds DEF FromEnd
    <3> QED
      BY <1>2, <1>3, <1>7, <3>1, Bounds
  <2> QED
    BY <1>4, <2>1 DEF IInv, TypeOK, rootVars
<1>9. Parsable'
  <2>1. Tiled(from, free)'
    <3>1. free <= 2 * SemiSize
      BY Bounds, <1>1 DEF FromEnd
    <3> QED
      BY <1>4, <1>6, <3>1, TiledSame, Bounds DEF Tiled
  <2>2. \A a \in Addr : IsObject(a)' => InUse(a)'
    BY <1>1, <1>5 DEF IInv, Parsable, InUse, FromEnd
  <2>3. (cursor < free => IsObject(cursor))' /\ cursor' <= free'
    <3>1. ASSUME cursor + SizeOf(cursor) < free
          PROVE  cursor + SizeOf(cursor) \in Addr /\ IsObject(cursor + SizeOf(cursor))
      BY <3>1, <1>1, <1>3, <1>7, Bounds DEF FromEnd
    <3> QED
      BY <3>1, <1>4, <1>7 DEF IsObject
  <2>4. from' <= cursor'
    BY <1>2, <1>3, Bounds
  <2>5. (from <= FromEnd /\ FromEnd <= from + SemiSize)'
    BY Bounds, <1>1 DEF FromEnd
  <2>6. Tiled(from, FromEnd)'
    BY <2>1, <1>1 DEF FromEnd
  <2> QED
    BY <1>1, <1>2, <2>2, <2>3, <2>4, <2>5, <2>6 DEF Parsable
<1>10. Forwarding'
  <2>1. ASSUME NEW a \in Addr, FromObject(a)', a < cursor'
        PROVE  hdr'[a].forward = Null
    <3>1. a < cursor => hdr[a].forward = Null
      BY <1>5, <2>1 DEF IInv, Forwarding
    <3>2. ~(cursor < a /\ a < cursor + SizeOf(cursor))
      BY <1>2, <1>5, <1>6, <2>1, Bounds, <1>7 DEF Tiled, FromObject
    <3> QED
      BY <3>1, <3>2, <1>4, <2>1, <1>3, Bounds
  <2> QED
    BY <1>1, <2>1 DEF Forwarding
<1>11. FromRefs' = FromRefs
  BY <1>5 DEF FromRefs
<1>12. NoDangling'
  <2>1. \A i \in Interior : interior[i].ptr # Null =>
            hdr'[BaseOf(interior[i])].klass = hdr[BaseOf(interior[i])].klass
    <3> SUFFICES ASSUME NEW i \in Interior, interior[i].ptr # Null
                 PROVE  BaseOf(interior[i]) \in Addr
      BY <1>4
    <3>1. interior[i].ptr \in Int /\ interior[i].offset \in Int
      BY DEF IInv, TypeOK, InteriorPointer, Pointer
    <3>2. BaseOf(interior[i]) # Null
      BY <3>1, MarkerAssumption DEF BaseOf
    <3> QED
      BY <3>2, <1>1, SettledHeap DEF FromRefs
  <2> QED
    BY <1>1, <1>4, <1>5, <1>11, <2>1, SettledHeap
    DEF NoDangling, rootVars, BaseOf, ToObject
<1>13. CopyFaithful' /\ CopiedVolume'
  BY <1>1 DEF CopyFaithful, CopiedVolume
<1>14. Unregistered' /\ Identities' /\ Requested'
  BY <1>4, <1>5 DEF IInv, Bookkeeping, Unregistered, Identities, Requested, rootVars
<1> QED
  BY <1>8, <1>9, <1>10, <1>12, <1>13, <1>14 DEF IInv, Bookkeeping

(* The end of the reset loop establishes what the copying loops need. *)
LEMMA EnterRootsInv ==
  ASSUME IInv, EnterRoots PROVE IInv'
<1> USE DEF EnterRoots, Collecting
<1>1. ~Copying /\ Copying' /\ phase' = "roots"
  BY DEF Copying
<1>2. /\ limit = free /\ cursor = free
      /\ FromEnd = free /\ FromEnd' = free /\ free' = to /\ cursor' = to
  BY <1>1, Bounds DEF IInv, Parsable, FromEnd
<1>3. /\ \A a \in Addr : IsObject(a)' <=> IsObject(a)
      /\ \A a \in Addr : FromObject(a)' <=> FromObject(a)
  BY <1>2 DEF IsObject, FromObject
<1>4. \A a \in Addr : FromObject(a) => hdr[a].forward = Null
  BY <1>2 DEF IInv, Forwarding, FromObject
<1>5. \A a \in Addr : ~ToObject(a)'
  BY <1>2, Bounds DEF ToObject
<1>6. TypeOK'
  <2>1. {free, limit, cursor}' \subseteq 0 .. (2 * SemiSize)
    BY <1>2, Bounds
  <2> QED
    BY <2>1 DEF IInv, TypeOK, rootVars, Phases
<1>7. Parsable'
  <2>1. Tiled(from, FromEnd)'
    BY <1>2 DEF IInv, Parsable, Tiled, IsObject, SizeOf
  <2>2. Tiled(to, free)'
    BY <1>2, Bounds DEF Tiled
  <2>3. \A a \in Addr : IsObject(a)' => InUse(a)'
    BY <1>1, <1>2, <1>3 DEF IInv, Parsable, InUse
  <2> QED
    BY <1>1, <1>2, <2>1, <2>2, <2>3, Bounds DEF Parsable
<1>8. Forwarding' /\ CopyFaithful'
  BY <1>1, <1>3, <1>4, <1>5 DEF Forwarding, CopyFaithful
<1>9. FromRefs' = FromRefs
  BY <1>3 DEF FromRefs
<1>10. \A w \in Word : w \notin rooted => word[w] = Null
  BY DEF IInv, Bookkeeping, Unregistered
<1>11. \A i \in Interior : i \notin rooted => BaseOf(interior[i]) = Null
  BY DEF IInv, Bookkeeping, Unregistered, BaseOf, NoInterior
<1>12. NoDangling'
  <2>1. \A w \in Word : IF (Copying /\ w \notin pending)'
                          THEN word'[w] \in CopyRefs' ELSE word'[w] \in FromRefs'
    BY <1>1, <1>9, <1>10, SettledHeap DEF rootVars, CopyRefs
  <2>2. \A i \in Interior :
         /\ IF (Copying /\ i \notin pending)'
            THEN BaseOf(interior'[i]) \in CopyRefs' ELSE BaseOf(interior'[i]) \in FromRefs'
         /\ interior'[i].ptr # Null =>
              interior'[i].offset \in RefOffsets[hdr'[BaseOf(interior'[i])].klass]
    BY <1>1, <1>9, <1>11, SettledHeap DEF rootVars, CopyRefs
  <2>3. \A a \in Addr : FromObject(a)' =>
          \A o \in RefOffsets[hdr'[a].klass] : ref'[a + o] \in FromRefs'
    BY <1>1, <1>3, <1>9, SettledHeap
  <2> QED
    BY <1>5, <2>1, <2>2, <2>3 DEF NoDangling, BaseOf
<1>13. CopiedVolume'
  <2>1. Moved' = {}
    BY <1>3, <1>4 DEF Moved
  <2> QED
    BY <1>2, <2>1, FS_EmptySet, Bounds DEF CopiedVolume
<1>14. Unregistered' /\ Identities' /\ Requested'
  BY <1>1, <1>3 DEF IInv, Bookkeeping, Unregistered, Identities, Requested, rootVars
<1> QED
  BY <1>6, <1>7, <1>8, <1>12, <1>13, <1>14 DEF IInv, Bookkeeping

-----------------------------------------------------------------------------
(***************************************************************************)
(* minorGC: copying an object.                                             *)
(***************************************************************************)

\* Two objects of from-space do not overlap.
LEMMA Disjoint ==
  ASSUME IInv, NEW a \in Addr, NEW b \in Addr, FromObject(a), FromObject(b), a < b
  PROVE  a + SizeOf(a) <= b
<1>1. /\ SizeOf(a) \in Nat
      /\ \A x \in Addr : (a < x /\ x < a + SizeOf(a)) => ~IsObject(x)
  BY SizeType DEF IInv, Parsable, Tiled, FromObject
<1> QED
  BY <1>1 DEF FromObject

\* The words of from-space occupied by p and by the objects copied before it.
LEMMA CopyFits ==
  ASSUME IInv, Copying, NEW p \in Addr, FromObject(p), hdr[p].forward = Null
  PROVE  /\ free + SizeOf(p) <= to + SemiSize
         /\ Cardinality(Moved \cup (p .. (p + SizeOf(p) - 1))) = free + SizeOf(p) - to
<1> DEFINE P == p .. (p + SizeOf(p) - 1)
           used == from .. (FromEnd - 1)
<1>1. SizeOf(p) \in Nat /\ SizeOf(p) > 0 /\ from <= p /\ p + SizeOf(p) <= FromEnd
  BY SizeType DEF IInv, Parsable, Tiled, FromObject
<1>2. Moved \subseteq used
  <2> SUFFICES ASSUME NEW x \in Moved PROVE x \in used
    OBVIOUS
  <2>1. PICK a \in Addr : /\ FromObject(a) /\ a <= x /\ x < a + SizeOf(a) /\ x \in Addr
    BY DEF Moved
  <2>2. from <= a /\ a + SizeOf(a) <= FromEnd /\ SizeOf(a) \in Nat
    BY <2>1, SizeType DEF IInv, Parsable, Tiled, FromObject
  <2> QED
    BY <2>1, <2>2, Bounds
<1>3. P \subseteq used
  BY <1>1, Bounds
<1>4. Moved \cap P = {}
  <2> SUFFICES ASSUME NEW x \in Moved, x \in P PROVE FALSE
    OBVIOUS
  <2>1. PICK a \in Addr : /\ FromObject(a) /\ a <= x /\ x < a + SizeOf(a) /\ x \in Addr
                          /\ hdr[a].forward # Null
    BY DEF Moved
  <2>2. a # p
    BY <2>1
  <2>3. SizeOf(a) \in Nat
    BY <2>1, SizeType DEF FromObject
  <2>4. CASE a < p
    BY <2>1, <2>3, <2>4, Disjoint, <1>1
  <2>5. CASE p < a
    BY <2>1, <2>3, <2>5, Disjoint, <1>1
  <2> QED
    BY <2>2, <2>4, <2>5
<1>5. IsFiniteSet(used) /\ Cardinality(used) <= SemiSize
  <2>1. from \in Int /\ FromEnd - 1 \in Int
    BY Bounds
  <2>2. /\ IsFiniteSet(used)
        /\ Cardinality(used) = IF from > FromEnd - 1 THEN 0 ELSE (FromEnd - 1) - from + 1
    BY <2>1, FS_Interval
  <2> QED
    BY <2>2, Bounds
<1>6. IsFiniteSet(Moved) /\ IsFiniteSet(P)
  BY <1>2, <1>3, <1>5, FS_Subset
<1>7. Cardinality(P) = SizeOf(p)
  BY <1>1, FS_Interval
<1>8. Cardinality(Moved) = free - to
  BY DEF IInv, CopiedVolume
<1>9. Cardinality(Moved \cup P) = (free - to) + SizeOf(p)
  <2> HIDE DEF P
  <2>1. Cardinality(Moved \cup P)
          = Cardinality(Moved) + Cardinality(P) - Cardinality(Moved \cap P)
    BY <1>6, FS_Union
  <2>2. Cardinality(Moved \cap P) = 0
    BY <1>4, FS_EmptySet
  <2> QED
    BY <1>1, <1>7, <1>8, <2>1, <2>2, Bounds
<1>10. Cardinality(Moved \cup P) <= SemiSize
  <2>1. Moved \cup P \in SUBSET used
    BY <1>2, <1>3
  <2>2. Cardinality(Moved \cup P) <= Cardinality(used)
    BY <2>1, <1>5, FS_Subset
  <2>3. Cardinality(Moved \cup P) \in Int /\ Cardinality(used) \in Int
    BY <1>5, <1>9, <1>1, Bounds, FS_CardinalityType
  <2> QED
    BY <2>2, <2>3, <1>5, Bounds
<1> QED
  BY <1>1, <1>9, <1>10, Bounds

\* Every object is in use; its reference words lie inside it.
LEMMA ObjectWord ==
  ASSUME IInv, NEW a \in Addr, IsObject(a)
  PROVE  /\ FromObject(a) \/ ToObject(a)
         /\ SizeOf(a) \in Nat /\ SizeOf(a) > 0
         /\ FromObject(a) => a + SizeOf(a) <= FromEnd
         /\ ToObject(a) => a + SizeOf(a) <= free
         /\ \A o \in RefOffsets[hdr[a].klass] :
              o \in Nat /\ 0 < o /\ o < SizeOf(a) /\ a + o \in Addr
<1>1. FromObject(a) \/ ToObject(a)
  BY DEF IInv, Parsable, InUse, FromObject, ToObject
<1>2. SizeOf(a) \in Nat /\ SizeOf(a) > 0
  BY SizeType
<1>3. FromObject(a) => a + SizeOf(a) <= FromEnd
  BY DEF IInv, Parsable, Tiled, FromObject
<1>4. ToObject(a) => a + SizeOf(a) <= free /\ free <= to + SemiSize
  BY DEF IInv, Parsable, Tiled, ToObject
<1>5. \A o \in RefOffsets[hdr[a].klass] : o \in Nat /\ 0 < o /\ o < SizeOf(a)
  BY KlassAssumption DEF IsObject, SizeOf
<1>6. \A o \in RefOffsets[hdr[a].klass] : a + o \in Addr
  BY <1>1, <1>2, <1>3, <1>4, <1>5, Bounds
<1> QED
  BY <1>1, <1>2, <1>3, <1>4, <1>5, <1>6

\* The place an object about to be copied is copied to.
LEMMA CopyTarget ==
  ASSUME IInv, Copying, NEW p, p \in FromRefs, MustCopy(p)
  PROVE  /\ p \in Addr /\ FromObject(p) /\ hdr[p].forward = Null
         /\ SizeOf(p) \in Nat /\ SizeOf(p) > 0
         /\ free \in Addr /\ free # p
         /\ to <= free /\ free + SizeOf(p) <= to + SemiSize
         /\ \A a \in Addr : IsObject(a) => ~(free <= a /\ a < free + SizeOf(p))
<1>1. p \in Addr /\ FromObject(p) /\ hdr[p].forward = Null
  BY DEF FromRefs, MustCopy
<1>2. SizeOf(p) \in Nat /\ SizeOf(p) > 0
  BY <1>1, SizeType DEF FromObject
<1>3. to <= free /\ free + SizeOf(p) <= to + SemiSize
  BY <1>1, CopyFits DEF IInv, Parsable
<1>4. free \in Addr
  BY <1>2, <1>3, Bounds
<1>5. \A a \in Addr : IsObject(a) => ~(free <= a /\ a < free + SizeOf(p))
  BY <1>2, <1>3, Bounds, ObjectWord DEF FromObject, ToObject
<1>6. free # p
  BY <1>1, <1>2, <1>5 DEF FromObject
<1> QED
  BY <1>1, <1>2, <1>3, <1>4, <1>5, <1>6

\* The reference p has led to an object copied earlier.
LEMMA CopiedEarlier ==
  ASSUME IInv, Copying, NEW p, p \in FromRefs, ~MustCopy(p), p # Null
  PROVE  /\ p \in Addr /\ FromObject(p)
         /\ NewPlace(p) = hdr[p].forward
         /\ NewPlace(p) \in Addr /\ ToObject(NewPlace(p))
         /\ hdr[NewPlace(p)].klass = hdr[p].klass
<1>1. p \in Addr /\ FromObject(p) /\ hdr[p].forward # Null
  BY DEF FromRefs, MustCopy
<1>2. ToObject(hdr[p].forward) /\ hdr[hdr[p].forward].klass = hdr[p].klass
  BY <1>1 DEF IInv, Forwarding
<1>3. hdr[p].forward \in Addr
  BY <1>1 DEF IInv, Forwarding
<1>4. NewPlace(p) = hdr[p].forward
  BY DEF NewPlace
<1> QED
  BY <1>1, <1>2, <1>3, <1>4

\* What copyAndUpdateRef does to the headers.
LEMMA CopyHeaders ==
  ASSUME IInv, Copying, NEW p, p \in FromRefs,
         hdr' = HdrAfterCopy(p), free' = FreeAfterCopy(p),
         UNCHANGED <<from, to, limit>>, Copying'
  PROVE  /\ hdr' \in [Addr -> Header]
         /\ free' \in Nat /\ free <= free' /\ free' <= to + SemiSize
         /\ FromEnd' = FromEnd
         /\ \A a \in Addr : IsObject(a)' <=> (IsObject(a) \/ (MustCopy(p) /\ a = free))
         /\ \A a \in Addr : FromObject(a)' <=> FromObject(a)
         /\ \A a \in Addr : ToObject(a)' <=> (ToObject(a) \/ (MustCopy(p) /\ a = free))
         /\ \A a \in Addr : IsObject(a) =>
              /\ hdr'[a].klass = hdr[a].klass
              /\ hdr'[a].id = hdr[a].id
              /\ hdr'[a].pined = hdr[a].pined
              /\ hdr'[a].forward = IF MustCopy(p) /\ a = p THEN free ELSE hdr[a].forward
         /\ MustCopy(p) =>
              /\ hdr'[free].klass = hdr[p].klass
              /\ hdr'[free].id = hdr[p].id
              /\ hdr'[free].pined = hdr[p].pined
              /\ hdr'[free].forward = free
              /\ free' = free + SizeOf(p)
<1>1. \A a \in Addr : FromObject(a) \/ ToObject(a) <=> IsObject(a)
  BY ObjectWord DEF FromObject, ToObject
<1>2. CASE ~MustCopy(p)
  <2>1. hdr' = hdr /\ free' = free
    BY <1>2 DEF HdrAfterCopy, FreeAfterCopy
  <2>2. FromEnd' = FromEnd
    BY DEF FromEnd
  <2>3. /\ \A a \in Addr : IsObject(a)' <=> IsObject(a)
        /\ \A a \in Addr : FromObject(a)' <=> FromObject(a)
        /\ \A a \in Addr : ToObject(a)' <=> ToObject(a)
    BY <2>1, <2>2 DEF IsObject, FromObject, ToObject
  <2>4. hdr \in [Addr -> Header] /\ free <= to + SemiSize
    BY DEF IInv, TypeOK, Parsable
  <2> QED
    BY <1>2, <2>1, <2>2, <2>3, <2>4, Bounds
<1>3. CASE MustCopy(p)
  <2>1. /\ p \in Addr /\ FromObject(p) /\ free \in Addr /\ free # p
        /\ SizeOf(p) \in Nat /\ SizeOf(p) > 0
        /\ to <= free /\ free + SizeOf(p) <= to + SemiSize
        /\ ~IsObject(free)
    BY <1>3, CopyTarget
  <2>2. hdr \in [Addr -> Header] /\ hdr[p] \in Header
    BY <2>1 DEF IInv, TypeOK
  <2> DEFINE old == [hdr[p] EXCEPT !.forward = free]
  <2>3. /\ old \in Header /\ old.klass = hdr[p].klass /\ old.id = hdr[p].id
        /\ old.pined = hdr[p].pined /\ old.forward = free
    BY <2>1, <2>2 DEF Header
  <2>4. hdr' = [hdr EXCEPT ![p] = old, ![free] = old]
    BY <1>3, <2>1, <2>2 DEF HdrAfterCopy
  <2> HIDE DEF old
  <2>5. /\ hdr' \in [Addr -> Header]
        /\ hdr'[p] = old /\ hdr'[free] = old
        /\ \A a \in Addr : a # p /\ a # free => hdr'[a] = hdr[a]
    BY <2>1, <2>2, <2>3, <2>4
  <2>6. FromEnd' = FromEnd /\ free' = free + SizeOf(p)
    BY <1>3 DEF FromEnd, FreeAfterCopy
  <2>7. IsObject(p) /\ old.klass \in Klass
    BY <2>1, <2>3 DEF FromObject, IsObject
  <2>8. \A a \in Addr : IsObject(a)' <=> (IsObject(a) \/ a = free)
    BY <2>5, <2>7 DEF IsObject
  <2>9. ~(from <= free /\ free < FromEnd)
    BY <2>1, Bounds
  <2>10. \A a \in Addr : FromObject(a)' <=> FromObject(a)
    BY <2>6, <2>8, <2>9 DEF FromObject
  <2>11. \A a \in Addr : ToObject(a)' <=> (ToObject(a) \/ a = free)
    <3> TAKE a \in Addr
    <3>1. ToObject(a)' => ToObject(a) \/ a = free
      <4> SUFFICES ASSUME ToObject(a)', a # free PROVE ToObject(a)
        OBVIOUS
      <4>1. IsObject(a) /\ to <= a /\ a < to + SemiSize
        BY <2>1, <2>6, <2>8, Bounds DEF ToObject
      <4>2. ~FromObject(a)
        BY <4>1, Bounds DEF FromObject
      <4> QED
        BY <4>1, <4>2, <1>1
    <3>2. ToObject(a) => ToObject(a)'
      BY <2>1, <2>6, <2>8, Bounds DEF ToObject
    <3>3. a = free => ToObject(a)'
      BY <2>1, <2>6, <2>8, Bounds DEF ToObject
    <3> QED
      BY <3>1, <3>2, <3>3
  <2>12. \A a \in Addr : IsObject(a) =>
              /\ hdr'[a].klass = hdr[a].klass
              /\ hdr'[a].id = hdr[a].id
              /\ hdr'[a].pined = hdr[a].pined
              /\ hdr'[a].forward = IF a = p THEN free ELSE hdr[a].forward
    BY <2>1, <2>3, <2>5
  <2> QED
    BY <1>3, <2>1, <2>3, <2>5, <2>6, <2>8, <2>10, <2>11, <2>12, Bounds
<1> QED
  BY <1>2, <1>3

\* Where the reference leads after copyAndUpdateRef.
LEMMA CopyPlace ==
  ASSUME IInv, Copying, NEW p, p \in FromRefs,
         hdr' = HdrAfterCopy(p), free' = FreeAfterCopy(p),
         UNCHANGED <<from, to, limit>>, Copying'
  PROVE  /\ NewPlace(p) \in CopyRefs' /\ NewPlace(p) \in Pointer
         /\ p = Null => NewPlace(p) = Null
         /\ p # Null => /\ NewPlace(p) \in Addr
                        /\ hdr'[p].forward = NewPlace(p)
                        /\ hdr'[NewPlace(p)].klass = hdr[p].klass
                        /\ \A o \in RefOffsets[hdr[p].klass] : NewPlace(p) + o \in Addr
<1>1. CASE p = Null
  BY <1>1 DEF NewPlace, CopyRefs, Pointer
<1>2. PICK n : n = NewPlace(p)
  OBVIOUS
<1>3. SUFFICES ASSUME p # Null
               PROVE  /\ n \in Addr /\ ToObject(n)'
                      /\ hdr'[p].forward = n
                      /\ hdr'[n].klass = hdr[p].klass
                      /\ \A o \in RefOffsets[hdr[p].klass] : n + o \in Addr
  BY <1>1, <1>2 DEF CopyRefs, Pointer
<1>4. CASE ~MustCopy(p)
  <2>1. /\ p \in Addr /\ FromObject(p)
        /\ n = hdr[p].forward
        /\ n \in Addr /\ ToObject(n)
        /\ hdr[n].klass = hdr[p].klass
    BY <1>2, <1>3, <1>4, CopiedEarlier
  <2>2. IsObject(p) /\ IsObject(n)
    BY <2>1 DEF FromObject, ToObject
  <2>3. ToObject(n)'
    BY <2>1, CopyHeaders
  <2>4. hdr'[p].forward = n /\ hdr'[n].klass = hdr[p].klass
    BY <1>4, <2>1 DEF HdrAfterCopy
  <2>5. \A o \in RefOffsets[hdr[p].klass] : n + o \in Addr
    BY <2>1, <2>2, ObjectWord
  <2> QED
    BY <2>1, <2>3, <2>4, <2>5
<1>5. CASE MustCopy(p)
  <2>1. /\ p \in Addr /\ FromObject(p) /\ free \in Addr
        /\ to <= free /\ free + SizeOf(p) <= to + SemiSize
        /\ SizeOf(p) \in Nat
    BY <1>5, CopyTarget
  <2>2. n = free
    BY <1>2, <1>3, <1>5 DEF NewPlace
  <2>3. IsObject(p)
    BY <2>1 DEF FromObject
  <2>4. hdr'[p].forward = free
    BY <1>5, <2>1, <2>3, CopyHeaders
  <2>5. hdr'[free].klass = hdr[p].klass
    BY <1>5, CopyHeaders
  <2>6. ToObject(n)'
    BY <1>5, <2>1, <2>2, CopyHeaders
  <2>7. \A o \in RefOffsets[hdr[p].klass] : o \in Nat /\ o < SizeOf(p)
    BY <2>1, <2>3, ObjectWord
  <2>8. \A o \in RefOffsets[hdr[p].klass] : free + o \in Addr
    BY <2>1, <2>7, Bounds
  <2> QED
    BY <2>1, <2>2, <2>4, <2>5, <2>6, <2>8
<1> QED
  BY <1>4, <1>5

\* Both semi-spaces stay parsable while an object is copied.
LEMMA CopyShape ==
  ASSUME IInv, Copying, NEW p, p \in FromRefs,
         hdr' = HdrAfterCopy(p), free' = FreeAfterCopy(p),
         UNCHANGED <<from, to, limit>>, Copying'
  PROVE  /\ from <= FromEnd' /\ FromEnd' <= from + SemiSize
         /\ to <= free' /\ free' <= to + SemiSize
         /\ Tiled(from, FromEnd)' /\ Tiled(to, free)'
         /\ \A a \in Addr : IsObject(a)' => InUse(a)'
<1>1. /\ FromEnd' = FromEnd /\ free' \in Nat /\ free <= free' /\ free' <= to + SemiSize
      /\ \A a \in Addr : IsObject(a)' <=> (IsObject(a) \/ (MustCopy(p) /\ a = free))
      /\ \A a \in Addr : FromObject(a)' <=> FromObject(a)
      /\ \A a \in Addr : ToObject(a)' <=> (ToObject(a) \/ (MustCopy(p) /\ a = free))
      /\ \A a \in Addr : IsObject(a) => hdr'[a].klass = hdr[a].klass
  BY CopyHeaders
<1>2. to <= free /\ free <= to + SemiSize /\ Tiled(from, FromEnd) /\ Tiled(to, free)
  BY DEF IInv, Parsable
<1>3. \A a \in Addr : IsObject(a) => SizeOf(a)' = SizeOf(a)
  BY <1>1 DEF SizeOf
<1>4. \A a \in Addr : IsObject(a)' => InUse(a)'
  <2> SUFFICES ASSUME NEW a \in Addr, IsObject(a)' PROVE InUse(a)'
    OBVIOUS
  <2>1. FromObject(a)' \/ ToObject(a)'
    BY <1>1, ObjectWord
  <2> QED
    BY <2>1 DEF FromObject, ToObject, InUse
<1>5. Tiled(from, FromEnd)'
  <2>1. \A a \in Addr : from <= a /\ a < FromEnd => ~(MustCopy(p) /\ a = free)
    BY CopyTarget, Bounds
  <2>2. \A a \in Addr : from <= a /\ a < FromEnd => (IsObject(a)' <=> IsObject(a))
    BY <1>1, <2>1
  <2>3. from < FromEnd => from \in Addr /\ IsObject(from)
    BY <1>2, Bounds DEF Tiled
  <2>4. (from < FromEnd => IsObject(from))'
    BY <1>1, <2>2, <2>3, Bounds
  <2>5. ASSUME NEW a \in Addr, IsObject(a)', from <= a, a < FromEnd
        PROVE  /\ a + SizeOf(a)' <= FromEnd
               /\ a + SizeOf(a)' < FromEnd => IsObject(a + SizeOf(a))'
               /\ \A b \in Addr : (a < b /\ b < a + SizeOf(a)') => ~IsObject(b)'
    <3>1. IsObject(a) /\ SizeOf(a)' = SizeOf(a) /\ SizeOf(a) \in Nat /\ SizeOf(a) > 0
      BY <2>2, <2>5, <1>3, SizeType
    <3>2. a + SizeOf(a) <= FromEnd
      BY <1>2, <2>5, <3>1 DEF Tiled
    <3>3. PICK n : n = a + SizeOf(a)
      OBVIOUS
    <3>4. n < FromEnd => n \in Addr /\ IsObject(n)'
      <4>1. n < FromEnd => n \in Addr /\ from <= n /\ IsObject(n)
        BY <1>2, <2>5, <3>1, <3>3, Bounds DEF Tiled
      <4> QED
        BY <2>2, <4>1
    <3>5. \A b \in Addr : (a < b /\ b < a + SizeOf(a)) => ~IsObject(b)'
      BY <1>2, <2>2, <2>5, <3>1, <3>2, Bounds DEF Tiled
    <3> QED
      BY <3>1, <3>2, <3>3, <3>4, <3>5
  <2> QED
    BY <1>1, <2>4, <2>5 DEF Tiled
<1>6. Tiled(to, free)'
  <2>1. CASE ~MustCopy(p)
    BY <1>2, <2>1 DEF HdrAfterCopy, FreeAfterCopy, Tiled, IsObject, SizeOf
  <2>2. CASE MustCopy(p)
    <3>1. /\ p \in Addr /\ SizeOf(p) \in Nat /\ SizeOf(p) > 0 /\ free \in Addr
          /\ \A a \in Addr : IsObject(a) => ~(free <= a /\ a < free + SizeOf(p))
      BY <2>2, CopyTarget
    <3>2. free' = free + SizeOf(p)
      BY <2>2, CopyHeaders
    <3>3. \A a \in Addr : a = free => SizeOf(a)' = SizeOf(p)
      BY <2>2, CopyHeaders DEF SizeOf
    <3>4. to \in Addr /\ IsObject(to)'
      <4>1. to \in Addr /\ (to < free => IsObject(to))
        BY <1>2, Bounds DEF Tiled
      <4> QED
        BY <1>1, <1>2, <2>2, <4>1, Bounds
    <3>5. ASSUME NEW a \in Addr, IsObject(a)', to <= a, a < free'
          PROVE  /\ a + SizeOf(a)' <= free'
                 /\ a + SizeOf(a)' < free' => IsObject(a + SizeOf(a))'
                 /\ \A b \in Addr : (a < b /\ b < a + SizeOf(a)') => ~IsObject(b)'
      <4>1. CASE a = free
        BY <1>1, <3>1, <3>2, <3>3, <4>1, Bounds
      <4>2. CASE a # free
        <5>1. IsObject(a) /\ a < free
          BY <1>1, <3>1, <3>2, <3>5, <4>2, Bounds
        <5>2. SizeOf(a)' = SizeOf(a) /\ SizeOf(a) \in Nat /\ SizeOf(a) > 0
          BY <5>1, <1>3, SizeType
        <5>3. /\ a + SizeOf(a) <= free
              /\ a + SizeOf(a) < free => IsObject(a + SizeOf(a))
              /\ \A b \in Addr : (a < b /\ b < a + SizeOf(a)) => ~IsObject(b)
          BY <1>2, <3>5, <5>1 DEF Tiled
        <5>4. PICK n : n = a + SizeOf(a)
          OBVIOUS
        <5>5. n \in Addr /\ IsObject(n)'
          <6>1. n \in Addr
            BY <5>2, <5>3, <5>4, <3>1, Bounds
          <6> QED
            BY <6>1, <1>1, <2>2, <5>3, <5>4, <5>2, Bounds
        <5>6. \A b \in Addr : (a < b /\ b < a + SizeOf(a)) => ~IsObject(b)'
          BY <1>1, <5>2, <5>3, Bounds
        <5> QED
          BY <3>1, <3>2, <5>2, <5>3, <5>4, <5>5, <5>6, Bounds
      <4> QED
        BY <4>1, <4>2
    <3> QED
      BY <3>4, <3>5 DEF Tiled
  <2> QED
    BY <2>1, <2>2
<1> QED
  BY <1>1, <1>2, <1>4, <1>5, <1>6, Bounds

\* Copying an object keeps the forward pointers in order.
LEMMA CopyForwarding ==
  ASSUME IInv, Copying, NEW p, p \in FromRefs,
         hdr' = HdrAfterCopy(p), free' = FreeAfterCopy(p),
         UNCHANGED <<from, to, limit>>, Copying'
  PROVE  Forwarding'
<1>1. phase' # "reset"
  BY DEF Copying
<1>2. \A a \in Addr : FromObject(a) =>
        /\ FromObject(a)' /\ IsObject(a)
        /\ hdr'[a].klass = hdr[a].klass
        /\ hdr'[a].id = hdr[a].id
        /\ hdr'[a].pined = hdr[a].pined
        /\ hdr'[a].forward = IF MustCopy(p) /\ a = p THEN free ELSE hdr[a].forward
  BY CopyHeaders DEF FromObject
<1>3. \A a \in Addr : ToObject(a) =>
        /\ ToObject(a)' /\ IsObject(a)
        /\ hdr'[a].klass = hdr[a].klass
        /\ hdr'[a].id = hdr[a].id
        /\ hdr'[a].pined = hdr[a].pined
  BY CopyHeaders DEF ToObject
<1>4. \A a \in Addr : FromObject(a)' <=> FromObject(a)
  BY CopyHeaders
<1>5. /\ \A a \in Addr : FromObject(a) /\ hdr[a].forward # Null =>
         /\ hdr[a].forward \in Addr /\ ToObject(hdr[a].forward)
         /\ hdr[hdr[a].forward].klass = hdr[a].klass
         /\ hdr[hdr[a].forward].id = hdr[a].id
         /\ hdr[hdr[a].forward].pined = hdr[a].pined
      /\ \A a, b \in Addr :
         /\ FromObject(a) /\ FromObject(b)
         /\ hdr[a].forward = hdr[b].forward /\ hdr[a].forward # Null
         => a = b
      /\ \A a \in Addr : ToObject(a) =>
           /\ hdr[a].forward = a
           /\ \E b \in Addr : FromObject(b) /\ hdr[b].forward = a
  BY DEF IInv, Forwarding
<1>6. MustCopy(p) =>
        /\ p \in Addr /\ FromObject(p) /\ free \in Addr /\ ~IsObject(free)
        /\ SizeOf(p) \in Nat /\ SizeOf(p) > 0
  BY CopyTarget, Bounds
<1>7. MustCopy(p) =>
        /\ \A a \in Addr : a = free => ToObject(a)'
        /\ hdr'[free].klass = hdr[p].klass
        /\ hdr'[free].id = hdr[p].id
        /\ hdr'[free].pined = hdr[p].pined
        /\ hdr'[free].forward = free
  BY CopyHeaders
<1>8. ASSUME NEW a \in Addr, FromObject(a), NEW n, n = hdr'[a].forward, n # Null
      PROVE  /\ n \in Addr /\ ToObject(n)'
             /\ hdr'[n].klass = hdr'[a].klass
             /\ hdr'[n].id = hdr'[a].id
             /\ hdr'[n].pined = hdr'[a].pined
             /\ ~(MustCopy(p) /\ a = p) => n = hdr[a].forward /\ n \in Addr /\ IsObject(n)
  <2>1. CASE MustCopy(p) /\ a = p
    BY <1>2, <1>6, <1>7, <1>8, <2>1
  <2>2. CASE ~(MustCopy(p) /\ a = p)
    <3>1. n = hdr[a].forward
      BY <1>2, <1>8, <2>2
    <3>2. n \in Addr /\ ToObject(n) /\ hdr[n].klass = hdr[a].klass
          /\ hdr[n].id = hdr[a].id /\ hdr[n].pined = hdr[a].pined
      BY <1>5, <1>8, <3>1
    <3>3. ToObject(n)' /\ IsObject(n) /\ hdr'[n].klass = hdr[n].klass
          /\ hdr'[n].id = hdr[n].id /\ hdr'[n].pined = hdr[n].pined
      BY <1>3, <3>2
    <3> QED
      BY <1>2, <1>8, <3>1, <3>2, <3>3
  <2> QED
    BY <2>1, <2>2
<1>9. ASSUME NEW a \in Addr, NEW b \in Addr, FromObject(a), FromObject(b),
             hdr'[a].forward = hdr'[b].forward, hdr'[a].forward # Null
      PROVE  a = b
  <2>1. CASE MustCopy(p) /\ (a = p \/ b = p)
    BY <1>2, <1>6, <1>8, <1>9, <2>1
  <2>2. CASE ~(MustCopy(p) /\ (a = p \/ b = p))
    BY <1>2, <1>5, <1>9, <2>2
  <2> QED
    BY <2>1, <2>2
<1>10. \A a \in Addr : ToObject(a)' => hdr'[a].forward = a
  <2> SUFFICES ASSUME NEW a \in Addr, ToObject(a)' PROVE hdr'[a].forward = a
    OBVIOUS
  <2>1. ToObject(a) \/ (MustCopy(p) /\ a = free)
    BY CopyHeaders
  <2>2. CASE MustCopy(p) /\ a = free
    BY <1>7, <2>2
  <2>3. CASE ToObject(a)
    <3>1. MustCopy(p) => a # p
      BY <1>6, <2>3, Bounds DEF FromObject, ToObject, IInv, Parsable
    <3>2. hdr'[a].forward = hdr[a].forward
      BY <2>3, <3>1, CopyHeaders DEF ToObject
    <3> QED
      BY <1>5, <2>3, <3>2
  <2> QED
    BY <2>1, <2>2, <2>3
<1>11. \A a \in Addr : FromObject(a)' /\ hdr'[a].forward # Null =>
         /\ hdr'[a].forward \in Addr /\ ToObject(hdr[a].forward)'
         /\ hdr'[hdr'[a].forward].klass = hdr'[a].klass
         /\ hdr'[hdr'[a].forward].id = hdr'[a].id
         /\ hdr'[hdr'[a].forward].pined = hdr'[a].pined
  BY <1>4, <1>8
<1>12. \A a \in Addr : ToObject(a)' => \E b \in Addr : FromObject(b)' /\ hdr'[b].forward = a
  <2> SUFFICES ASSUME NEW a \in Addr, ToObject(a)'
               PROVE  \E b \in Addr : FromObject(b)' /\ hdr'[b].forward = a
    OBVIOUS
  <2>1. ToObject(a) \/ (MustCopy(p) /\ a = free)
    BY CopyHeaders
  <2>2. CASE MustCopy(p) /\ a = free
    BY <1>2, <1>6, <2>2
  <2>3. CASE ToObject(a)
    <3>1. PICK b \in Addr : FromObject(b) /\ hdr[b].forward = a
      BY <1>5, <2>3
    <3>2. ~(MustCopy(p) /\ b = p)
      BY <3>1, CopyTarget, MarkerAssumption
    <3> QED
      BY <1>2, <3>1, <3>2
  <2> QED
    BY <2>1, <2>2, <2>3
<1> QED
  BY <1>1, <1>4, <1>9, <1>10, <1>11, <1>12 DEF Forwarding

\* The room taken in to-space is the room the copied objects had.
LEMMA CopyVolume ==
  ASSUME IInv, Copying, NEW p, p \in FromRefs,
         hdr' = HdrAfterCopy(p), free' = FreeAfterCopy(p),
         UNCHANGED <<from, to, limit>>, Copying'
  PROVE  CopiedVolume'
<1>1. \A a \in Addr : FromObject(a) =>
        /\ IsObject(a)
        /\ SizeOf(a)' = SizeOf(a)
        /\ hdr'[a].forward = IF MustCopy(p) /\ a = p THEN free ELSE hdr[a].forward
  BY CopyHeaders DEF FromObject, SizeOf
<1>2. \A a \in Addr : FromObject(a)' <=> FromObject(a)
  BY CopyHeaders
<1>3. CASE ~MustCopy(p)
  <2>1. Moved' = Moved
    BY <1>1, <1>2, <1>3 DEF Moved
  <2> QED
    BY <1>3, <2>1 DEF FreeAfterCopy, IInv, CopiedVolume
<1>4. CASE MustCopy(p)
  <2> DEFINE P == p .. (p + SizeOf(p) - 1)
  <2>1. /\ p \in Addr /\ FromObject(p) /\ hdr[p].forward = Null /\ free \in Addr
        /\ SizeOf(p) \in Nat /\ SizeOf(p) > 0
    BY <1>4, CopyTarget
  <2>2. free' = free + SizeOf(p)
    BY <1>4 DEF FreeAfterCopy
  <2>3. free # Null
    BY <2>1, MarkerAssumption
  <2>4. p + SizeOf(p) <= FromEnd
    BY <2>1, ObjectWord DEF FromObject
  <2>5. \A x \in Addr : x \in P <=> p <= x /\ x < p + SizeOf(p)
    BY <2>1
  <2>6. P \subseteq Addr
    BY <2>1, <2>4, Bounds
  <2>7. \A x \in Addr : x \in Moved' <=> x \in Moved \/ x \in P
    <3> TAKE x \in Addr
    <3> HIDE DEF P
    <3>1. ASSUME x \in Moved' PROVE x \in Moved \/ x \in P
      <4>1. PICK a \in Addr : /\ FromObject(a)' /\ hdr'[a].forward # Null
                              /\ a <= x /\ x < a + SizeOf(a)'
        BY <3>1 DEF Moved
      <4>2. CASE a = p
        BY <1>1, <2>1, <2>5, <4>1, <4>2
      <4>3. CASE a # p
        BY <1>1, <1>2, <4>1, <4>3 DEF Moved
      <4> QED
        BY <4>2, <4>3
    <3>2. ASSUME x \in P PROVE x \in Moved'
      <4>1. FromObject(p)' /\ hdr'[p].forward # Null /\ SizeOf(p)' = SizeOf(p)
        BY <1>1, <1>2, <1>4, <2>1, <2>3
      <4> QED
        BY <2>1, <2>5, <3>2, <4>1 DEF Moved
    <3>3. ASSUME x \in Moved PROVE x \in Moved'
      <4>1. PICK a \in Addr : /\ FromObject(a) /\ hdr[a].forward # Null
                              /\ a <= x /\ x < a + SizeOf(a)
        BY <3>3 DEF Moved
      <4>2. FromObject(a)' /\ hdr'[a].forward # Null /\ SizeOf(a)' = SizeOf(a)
        BY <1>1, <1>2, <2>3, <4>1
      <4> QED
        BY <4>1, <4>2 DEF Moved
    <3> QED
      BY <3>1, <3>2, <3>3
  <2>8. Moved' \subseteq Addr /\ Moved \subseteq Addr
    BY DEF Moved
  <2>9. Moved' = Moved \cup P
    BY <2>6, <2>7, <2>8
  <2>10. Cardinality(Moved \cup P) = free + SizeOf(p) - to
    BY <2>1, CopyFits
  <2>11. free + SizeOf(p) - to = free' - to'
    BY <2>1, <2>2, Bounds
  <2> HIDE DEF P
  <2> QED
    BY <2>9, <2>10, <2>11 DEF CopiedVolume
<1> QED
  BY <1>3, <1>4

\* Copying an object neither makes nor loses an identity.
LEMMA CopyIdentities ==
  ASSUME IInv, Copying, NEW p, p \in FromRefs,
         hdr' = HdrAfterCopy(p), free' = FreeAfterCopy(p),
         UNCHANGED <<from, to, limit>>, Copying'
  PROVE  Identities'
<1>1. \A a \in Addr : IsObject(a) => hdr'[a].id = hdr[a].id /\ hdr[a].id \in Id
  BY CopyHeaders DEF IInv, Bookkeeping, Identities
<1>2. MustCopy(p) => p \in Addr /\ IsObject(p) /\ hdr'[free].id = hdr[p].id
  BY CopyTarget, CopyHeaders DEF FromObject
<1>3. \A a \in Addr : IsObject(a)' => hdr'[a].id \in Id
  BY <1>1, <1>2, CopyHeaders
<1>4. \A a \in Addr : FromObject(a)' => FromObject(a) /\ hdr'[a].id = hdr[a].id
  BY <1>1, CopyHeaders DEF FromObject
<1>5. \A a, b \in Addr : FromObject(a) /\ FromObject(b) /\ hdr[a].id = hdr[b].id => a = b
  BY DEF IInv, Bookkeeping, Identities
<1> QED
  BY <1>3, <1>4, <1>5 DEF Identities

\* The references that lead to an original, and those that lead to a copy.
LEMMA CopyRefSets ==
  ASSUME IInv, Copying, NEW p, p \in FromRefs,
         hdr' = HdrAfterCopy(p), free' = FreeAfterCopy(p),
         UNCHANGED <<from, to, limit>>, Copying'
  PROVE  FromRefs' = FromRefs /\ CopyRefs \subseteq CopyRefs'
BY CopyHeaders DEF FromRefs, CopyRefs

\* The memcpy changes no word of an object and gives the copy the original's.
LEMMA CopyWords ==
  ASSUME IInv, Copying, NEW p, p \in FromRefs
  PROVE  /\ RefAfterCopy(p) \in [Addr -> Pointer]
         /\ \A a \in Addr : IsObject(a) =>
              \A o \in RefOffsets[hdr[a].klass] : RefAfterCopy(p)[a + o] = ref[a + o]
         /\ MustCopy(p) =>
              \A o \in RefOffsets[hdr[p].klass] : RefAfterCopy(p)[free + o] = ref[p + o]
<1>1. ref \in [Addr -> Pointer]
  BY DEF IInv, TypeOK
<1>2. CASE ~MustCopy(p)
  BY <1>1, <1>2 DEF RefAfterCopy
<1>3. CASE MustCopy(p)
  <2>1. /\ p \in Addr /\ FromObject(p) /\ IsObject(p) /\ free \in Addr
        /\ SizeOf(p) \in Nat /\ SizeOf(p) > 0
        /\ to <= free /\ free + SizeOf(p) <= to + SemiSize
        /\ \A a \in Addr : IsObject(a) => ~(free <= a /\ a < free + SizeOf(p))
    BY <1>3, CopyTarget DEF FromObject
  <2>2. p + SizeOf(p) <= FromEnd
    BY <2>1, ObjectWord
  <2>3. RefAfterCopy(p) = [x \in Addr |-> IF free <= x /\ x < free + SizeOf(p)
                                         THEN ref[p + (x - free)] ELSE ref[x]]
    BY <1>3 DEF RefAfterCopy
  <2>4. \A x \in Addr : free <= x /\ x < free + SizeOf(p) => p + (x - free) \in Addr
    BY <2>1, <2>2, Bounds
  <2>5. RefAfterCopy(p) \in [Addr -> Pointer]
    BY <1>1, <2>3, <2>4
  <2>6. ASSUME NEW a \in Addr, IsObject(a), NEW o \in RefOffsets[hdr[a].klass]
        PROVE  RefAfterCopy(p)[a + o] = ref[a + o]
    <3>1. /\ o \in Nat /\ o < SizeOf(a) /\ a + o \in Addr /\ SizeOf(a) \in Nat
          /\ FromObject(a) => a + SizeOf(a) <= FromEnd /\ from <= a
          /\ ToObject(a) => a + SizeOf(a) <= free
          /\ FromObject(a) \/ ToObject(a)
      BY <2>6, ObjectWord DEF FromObject
    <3>2. ~(free <= a + o /\ a + o < free + SizeOf(p))
      BY <2>1, <3>1, Bounds
    <3> QED
      BY <2>3, <3>1, <3>2
  <2>7. ASSUME NEW o \in RefOffsets[hdr[p].klass]
        PROVE  RefAfterCopy(p)[free + o] = ref[p + o]
    <3>1. o \in Nat /\ o < SizeOf(p)
      BY <2>1, ObjectWord
    <3>2. free + o \in Addr /\ (free + o) - free = o
      BY <2>1, <3>1, Bounds
    <3> QED
      BY <2>1, <2>3, <3>1, <3>2
  <2> QED
    BY <2>5, <2>6, <2>7
<1> QED
  BY <1>2, <1>3

\* The objects of both semi-spaces after a copy, and their reference words.
LEMMA CopyHeap ==
  ASSUME IInv, Copying, NEW p, p \in FromRefs,
         hdr' = HdrAfterCopy(p), free' = FreeAfterCopy(p),
         UNCHANGED <<from, to, limit>>, Copying'
  PROVE  /\ \A a \in Addr : FromObject(a)' =>
              /\ FromObject(a) /\ hdr'[a].klass = hdr[a].klass
              /\ \A o \in RefOffsets[hdr[a].klass] :
                   RefAfterCopy(p)[a + o] = ref[a + o] /\ ref[a + o] \in FromRefs
         /\ \A a \in Addr : ToObject(a)' =>
              \/ /\ ToObject(a) /\ hdr'[a].klass = hdr[a].klass
                 /\ \A o \in RefOffsets[hdr[a].klass] : RefAfterCopy(p)[a + o] = ref[a + o]
              \/ /\ MustCopy(p) /\ a = free /\ hdr'[a].klass = hdr[p].klass
                 /\ p \in Addr /\ FromObject(p)
                 /\ \A o \in RefOffsets[hdr[p].klass] :
                      RefAfterCopy(p)[a + o] = ref[p + o] /\ ref[p + o] \in FromRefs
         /\ \A a \in Addr : FromObject(a) /\ hdr'[a].forward # Null =>
              \/ MustCopy(p) /\ a = p /\ hdr'[a].forward = free
              \/ /\ hdr'[a].forward = hdr[a].forward
                 /\ hdr[a].forward \in Addr /\ ToObject(hdr[a].forward)
                 /\ hdr[hdr[a].forward].klass = hdr[a].klass
<1>1. \A a \in Addr : FromObject(a) =>
        \A o \in RefOffsets[hdr[a].klass] : ref[a + o] \in FromRefs
  BY DEF IInv, NoDangling
<1>2. /\ \A a \in Addr : IsObject(a) =>
            \A o \in RefOffsets[hdr[a].klass] : RefAfterCopy(p)[a + o] = ref[a + o]
      /\ MustCopy(p) =>
           \A o \in RefOffsets[hdr[p].klass] : RefAfterCopy(p)[free + o] = ref[p + o]
  BY CopyWords
<1>3. MustCopy(p) => p \in Addr /\ FromObject(p) /\ hdr'[free].klass = hdr[p].klass
  BY CopyTarget, CopyHeaders
<1>4. \A a \in Addr : IsObject(a) =>
        /\ hdr'[a].klass = hdr[a].klass
        /\ hdr'[a].forward = IF MustCopy(p) /\ a = p THEN free ELSE hdr[a].forward
  BY CopyHeaders
<1>5. \A a \in Addr : FromObject(a)' <=> FromObject(a)
  BY CopyHeaders
<1>6. \A a \in Addr : ToObject(a)' <=> (ToObject(a) \/ (MustCopy(p) /\ a = free))
  BY CopyHeaders
<1>7. \A a \in Addr : FromObject(a) \/ ToObject(a) => IsObject(a)
  BY DEF FromObject, ToObject
<1>8. \A a \in Addr : FromObject(a) /\ hdr[a].forward # Null =>
         /\ hdr[a].forward \in Addr /\ ToObject(hdr[a].forward)
         /\ hdr[hdr[a].forward].klass = hdr[a].klass
  BY DEF IInv, Forwarding
<1>9. ASSUME NEW a \in Addr, ToObject(a)'
      PROVE  \/ /\ ToObject(a) /\ hdr'[a].klass = hdr[a].klass
                /\ \A o \in RefOffsets[hdr[a].klass] : RefAfterCopy(p)[a + o] = ref[a + o]
             \/ /\ MustCopy(p) /\ a = free /\ hdr'[a].klass = hdr[p].klass
                /\ p \in Addr /\ FromObject(p)
                /\ \A o \in RefOffsets[hdr[p].klass] :
                     RefAfterCopy(p)[a + o] = ref[p + o] /\ ref[p + o] \in FromRefs
  BY <1>1, <1>2, <1>3, <1>4, <1>6, <1>7, <1>9
<1>10. ASSUME NEW a \in Addr, FromObject(a), hdr'[a].forward # Null
       PROVE  \/ MustCopy(p) /\ a = p /\ hdr'[a].forward = free
              \/ /\ hdr'[a].forward = hdr[a].forward
                 /\ hdr[a].forward \in Addr /\ ToObject(hdr[a].forward)
                 /\ hdr[hdr[a].forward].klass = hdr[a].klass
  BY <1>4, <1>7, <1>8, <1>10
<1> QED
  BY <1>1, <1>2, <1>4, <1>5, <1>7, <1>9, <1>10

\* A step of the root loop that copies the object p leads to and redirects
\* only roots that were pending.
LEMMA CopyRootStep ==
  ASSUME IInv, Collecting("roots"), NEW p, p \in FromRefs,
         hdr' = HdrAfterCopy(p), ref' = RefAfterCopy(p), free' = FreeAfterCopy(p),
         UNCHANGED <<from, to, limit, cursor, phase, todo, request, status, rooted>>,
         pending' \subseteq pending, Unregistered',
         word' \in [Word -> Pointer], interior' \in [Interior -> InteriorPointer],
         \A w \in Word : IF w \notin pending' THEN word'[w] \in CopyRefs'
                                              ELSE word'[w] \in FromRefs,
         \A i \in Interior :
           /\ IF i \notin pending' THEN BaseOf(interior'[i]) \in CopyRefs'
                                   ELSE BaseOf(interior'[i]) \in FromRefs
           /\ interior'[i].ptr # Null =>
                interior'[i].offset \in RefOffsets[hdr'[BaseOf(interior'[i])].klass]
  PROVE  IInv'
<1>1. Copying /\ Copying' /\ phase = "roots" /\ phase' = "roots"
  BY DEF Copying, Collecting
<1>2. FromRefs' = FromRefs
  BY <1>1, CopyRefSets
<1>3. RefAfterCopy(p) \in [Addr -> Pointer]
  BY <1>1, CopyWords
<1>4. hdr' \in [Addr -> Header] /\ free' \in 0 .. (2 * SemiSize)
  BY <1>1, CopyHeaders, Bounds
<1>5. TypeOK'
  BY <1>1, <1>3, <1>4 DEF IInv, TypeOK
<1>6. Parsable'
  BY <1>1, CopyShape DEF IInv, Parsable
<1>7. Forwarding' /\ CopiedVolume' /\ Identities'
  BY <1>1, CopyForwarding, CopyVolume, CopyIdentities
<1>8. \A a \in Addr : FromObject(a)' =>
        \A o \in RefOffsets[hdr'[a].klass] : ref'[a + o] \in FromRefs'
  BY <1>1, <1>2, CopyHeap
<1>9. \A a \in Addr : ToObject(a)' =>
        \A o \in RefOffsets[hdr'[a].klass] : ref'[a + o] \in FromRefs'
  <2>1. \A a \in Addr : ToObject(a) =>
          \A o \in RefOffsets[hdr[a].klass] : ref[a + o] \in FromRefs
    BY <1>1 DEF IInv, NoDangling, Scanned
  <2> QED
    BY <1>1, <1>2, <2>1, CopyHeap
<1>10. NoDangling'
  BY <1>1, <1>2, <1>8, <1>9 DEF NoDangling, Scanned, BaseOf
<1>11. ASSUME NEW a \in Addr, FromObject(a)', hdr'[a].forward # Null,
              NEW o \in RefOffsets[hdr'[a].klass]
       PROVE  ref'[hdr'[a].forward + o] = ref'[a + o]
  <2>1. FromObject(a) /\ hdr'[a].klass = hdr[a].klass /\ ref'[a + o] = ref[a + o]
    BY <1>1, <1>11, CopyHeap
  <2>2. CASE MustCopy(p) /\ a = p /\ hdr'[a].forward = free
    BY <1>1, <1>11, <2>1, <2>2, CopyWords
  <2>3. CASE /\ hdr'[a].forward = hdr[a].forward
             /\ hdr[a].forward \in Addr /\ ToObject(hdr[a].forward)
             /\ hdr[hdr[a].forward].klass = hdr[a].klass
    <3>1. ref[hdr[a].forward + o] = ref[a + o]
      BY <1>1, <1>11, <2>1, <2>3 DEF IInv, CopyFaithful, Scanned
    <3>2. ref'[hdr[a].forward + o] = ref[hdr[a].forward + o]
      BY <1>1, <1>11, <2>1, <2>3, CopyWords DEF ToObject
    <3> QED
      BY <2>1, <2>3, <3>1, <3>2
  <2> QED
    BY <1>1, <1>11, <2>1, <2>2, <2>3, CopyHeap
<1>12. CopyFaithful'
  BY <1>1, <1>11 DEF CopyFaithful, Scanned
<1>13. Requested'
  BY <1>1 DEF IInv, Bookkeeping, Requested
<1> QED
  BY <1>5, <1>6, <1>7, <1>10, <1>12, <1>13 DEF IInv, Bookkeeping

\* The roots as they are while objects are copied.
LEMMA CopyingRoots ==
  ASSUME IInv, Copying
  PROVE  /\ \A w \in Word : IF w \notin pending THEN word[w] \in CopyRefs
                                              ELSE word[w] \in FromRefs
         /\ \A i \in Interior :
              /\ IF i \notin pending THEN BaseOf(interior[i]) \in CopyRefs
                                     ELSE BaseOf(interior[i]) \in FromRefs
              /\ interior[i].ptr # Null =>
                   /\ BaseOf(interior[i]) \in Addr /\ IsObject(BaseOf(interior[i]))
                   /\ interior[i].offset \in RefOffsets[hdr[BaseOf(interior[i])].klass]
<1>1. \A i \in Interior : interior[i].ptr # Null => BaseOf(interior[i]) # Null
  BY MarkerAssumption DEF IInv, TypeOK, InteriorPointer, Pointer, BaseOf
<1>2. /\ \A w \in Word : IF w \notin pending THEN word[w] \in CopyRefs
                                              ELSE word[w] \in FromRefs
      /\ \A i \in Interior :
              /\ IF i \notin pending THEN BaseOf(interior[i]) \in CopyRefs
                                     ELSE BaseOf(interior[i]) \in FromRefs
              /\ interior[i].ptr # Null =>
                   interior[i].offset \in RefOffsets[hdr[BaseOf(interior[i])].klass]
  BY DEF IInv, NoDangling
<1> QED
  BY <1>1, <1>2 DEF FromRefs, CopyRefs, FromObject, ToObject

\* An interior pointer that a copy does not redirect keeps pointing into an
\* object with a reference word at its offset.
LEMMA CopyInterior ==
  ASSUME IInv, Copying, NEW p, p \in FromRefs,
         hdr' = HdrAfterCopy(p), free' = FreeAfterCopy(p),
         UNCHANGED <<from, to, limit>>, Copying'
  PROVE  \A i \in Interior : interior[i].ptr # Null =>
           interior[i].offset \in RefOffsets[hdr'[BaseOf(interior[i])].klass]
BY CopyingRoots, CopyHeaders

(* Copying the object of one instance root keeps the invariant. *)
LEMMA CopyRootWordInv ==
  ASSUME IInv, NEW w \in Word, CopyRootWord(w) PROVE IInv'
<1> USE DEF CopyRootWord
<1>1. Copying /\ Copying'
  BY DEF Copying, Collecting
<1>2. w \in pending /\ w \in rooted /\ word[w] \in FromRefs
  BY <1>1, CopyingRoots DEF IInv, TypeOK
<1>3. NewPlace(word[w]) \in CopyRefs' /\ NewPlace(word[w]) \in Pointer
  BY <1>1, <1>2, CopyPlace
<1>4. /\ word' \in [Word -> Pointer] /\ word'[w] = NewPlace(word[w])
      /\ \A v \in Word \ {w} : word'[v] = word[v]
  BY <1>3 DEF IInv, TypeOK
<1>5. CopyRefs \subseteq CopyRefs'
  BY <1>1, <1>2, CopyRefSets
<1>6. \A v \in Word : IF v \notin pending' THEN word'[v] \in CopyRefs'
                                            ELSE word'[v] \in FromRefs
  BY <1>1, <1>3, <1>4, <1>5, CopyingRoots
<1>7. \A i \in Interior :
         /\ IF i \notin pending' THEN BaseOf(interior'[i]) \in CopyRefs'
                                 ELSE BaseOf(interior'[i]) \in FromRefs
         /\ interior'[i].ptr # Null =>
              interior'[i].offset \in RefOffsets[hdr'[BaseOf(interior'[i])].klass]
  <2>1. w \notin Interior
    BY RootAssumption
  <2>2. \A i \in Interior : interior[i].ptr # Null =>
           interior[i].offset \in RefOffsets[hdr'[BaseOf(interior[i])].klass]
    BY <1>1, <1>2, CopyInterior
  <2> QED
    BY <1>1, <1>5, <2>1, <2>2, CopyingRoots
<1>8. Unregistered'
  BY <1>2, <1>4 DEF IInv, Bookkeeping, Unregistered
<1>9. interior' \in [Interior -> InteriorPointer]
  BY DEF IInv, TypeOK
<1> QED
  BY <1>2, <1>4, <1>6, <1>7, <1>8, <1>9, CopyRootStep

(* Copying the object of one interior root keeps the invariant. *)
LEMMA CopyRootInteriorInv ==
  ASSUME IInv, NEW i \in Interior, CopyRootInterior(i) PROVE IInv'
<1> USE DEF CopyRootInterior
<1> DEFINE base == BaseOf(interior[i])
<1>1. Copying /\ Copying'
  BY DEF Copying, Collecting
<1>2. i \in pending /\ i \in rooted /\ base \in FromRefs
  BY <1>1, CopyingRoots DEF IInv, TypeOK
<1>3. interior[i] \in InteriorPointer
  BY DEF IInv, TypeOK
<1>4. PICK q : q = IF base = Null THEN interior[i] ELSE Rebased(interior[i], NewPlace(base))
  OBVIOUS
<1>5. /\ q \in InteriorPointer
      /\ BaseOf(q) \in CopyRefs'
      /\ q.ptr # Null => q.offset \in RefOffsets[hdr'[BaseOf(q)].klass]
  <2>1. /\ NewPlace(base) \in CopyRefs'
        /\ base # Null => /\ NewPlace(base) \in Addr
                          /\ hdr'[NewPlace(base)].klass = hdr[base].klass
                          /\ \A o \in RefOffsets[hdr[base].klass] :
                               NewPlace(base) + o \in Addr
    BY <1>1, <1>2, CopyPlace
  <2>2. CASE base = Null
    <3>1. interior[i].ptr = Null
      BY <1>1, <2>2, CopyingRoots, MarkerAssumption
    <3> QED
      BY <1>3, <1>4, <2>2, <3>1 DEF CopyRefs, BaseOf
  <2>3. CASE base # Null
    <3> PICK n : n = NewPlace(base)
      OBVIOUS
    <3>1. /\ interior[i].ptr # Null /\ interior[i].offset \in RefOffsets[hdr[base].klass]
          /\ interior[i].offset \in Nat
      BY <1>1, <1>3, <2>3, CopyingRoots DEF BaseOf, InteriorPointer
    <3>2. n \in Addr /\ n + interior[i].offset \in Addr
      BY <2>1, <2>3, <3>1
    <3>3. q = [interior[i] EXCEPT !.ptr = n + interior[i].offset]
      BY <1>4, <2>3 DEF Rebased
    <3>4. q \in InteriorPointer /\ q.ptr = n + interior[i].offset /\ q.offset = interior[i].offset
      BY <1>3, <3>2, <3>3 DEF InteriorPointer, Pointer
    <3>5. BaseOf(q) = n
      BY <3>1, <3>2, <3>4, MarkerAssumption DEF BaseOf
    <3>6. n \in CopyRefs' /\ hdr'[n].klass = hdr[base].klass
      BY <2>1, <2>3
    <3> QED
      BY <3>1, <3>4, <3>5, <3>6
  <2> QED
    BY <2>2, <2>3
<1>6. interior' = [interior EXCEPT ![i] = q]
  <2>1. CASE base = Null
    BY <1>4, <2>1 DEF IInv, TypeOK
  <2>2. CASE base # Null
    BY <1>4, <2>2
  <2> QED
    BY <2>1, <2>2
<1> HIDE DEF base
<1>7. /\ interior' \in [Interior -> InteriorPointer] /\ interior'[i] = q
      /\ \A j \in Interior \ {i} : interior'[j] = interior[j]
  BY <1>5, <1>6 DEF IInv, TypeOK
<1>8. CopyRefs \subseteq CopyRefs'
  BY <1>1, <1>2, CopyRefSets DEF base
<1>9. \A w \in Word : IF w \notin pending' THEN word'[w] \in CopyRefs'
                                            ELSE word'[w] \in FromRefs
  <2>1. i \notin Word
    BY RootAssumption
  <2> QED
    BY <1>1, <1>8, <2>1, CopyingRoots
<1>10. \A j \in Interior :
         /\ IF j \notin pending' THEN BaseOf(interior'[j]) \in CopyRefs'
                                 ELSE BaseOf(interior'[j]) \in FromRefs
         /\ interior'[j].ptr # Null =>
              interior'[j].offset \in RefOffsets[hdr'[BaseOf(interior'[j])].klass]
  <2>1. \A j \in Interior : interior[j].ptr # Null =>
           interior[j].offset \in RefOffsets[hdr'[BaseOf(interior[j])].klass]
    BY <1>1, <1>2, CopyInterior DEF base
  <2> TAKE j \in Interior
  <2>2. CASE j = i
    BY <1>5, <1>7, <2>2
  <2>3. CASE j # i
    BY <1>1, <1>7, <1>8, <2>1, <2>3, CopyingRoots
  <2> QED
    BY <2>2, <2>3
<1>11. Unregistered'
  <2>1. i \notin Word
    BY RootAssumption
  <2> QED
    BY <1>2, <1>7, <2>1 DEF IInv, Bookkeeping, Unregistered
<1>12. word' \in [Word -> Pointer]
  BY DEF IInv, TypeOK
<1> QED
  BY <1>2, <1>7, <1>9, <1>10, <1>11, <1>12, CopyRootStep DEF base

-----------------------------------------------------------------------------
(***************************************************************************)
(* minorGC: scanning the copies.                                           *)
(***************************************************************************)

\* A step that copies nothing and changes neither the roots nor the heap.
LEMMA ScanShape ==
  ASSUME IInv, Copying, Copying',
         UNCHANGED <<hdr, ref, from, to, free, limit, request, status, word, interior, rooted>>
  PROVE  /\ \A a \in Addr : FromObject(a)' <=> FromObject(a)
         /\ \A a \in Addr : ToObject(a)' <=> ToObject(a)
         /\ FromRefs' = FromRefs /\ CopyRefs' = CopyRefs
         /\ Forwarding' /\ CopiedVolume' /\ Identities' /\ Unregistered'
         /\ FromEnd' = FromEnd
         /\ Tiled(from, FromEnd)' /\ Tiled(to, free)'
         /\ \A a \in Addr : IsObject(a)' => InUse(a)'
<1>1. FromEnd' = FromEnd
  BY DEF FromEnd
<1>2. /\ \A a \in Addr : FromObject(a)' <=> FromObject(a)
      /\ \A a \in Addr : ToObject(a)' <=> ToObject(a)
  BY <1>1 DEF FromObject, ToObject, IsObject
<1>3. FromRefs' = FromRefs /\ CopyRefs' = CopyRefs
  BY <1>2 DEF FromRefs, CopyRefs
<1>4. Forwarding'
  BY <1>2 DEF IInv, Forwarding, Copying
<1>5. Moved' = Moved
  BY <1>2 DEF Moved, SizeOf
<1>6. CopiedVolume' /\ Identities' /\ Unregistered'
  BY <1>2, <1>5 DEF IInv, CopiedVolume, Bookkeeping, Identities, Unregistered, IsObject
<1>7. Tiled(from, FromEnd)' /\ Tiled(to, free)'
  BY <1>1 DEF IInv, Parsable, Tiled, IsObject, SizeOf
<1>8. \A a \in Addr : IsObject(a)' => InUse(a)'
  BY <1>1 DEF IInv, Parsable, InUse, IsObject
<1> QED
  BY <1>1, <1>2, <1>3, <1>4, <1>6, <1>7, <1>8

(* Going from the roots to the scan loop keeps the invariant. *)
LEMMA EnterScanInv ==
  ASSUME IInv, EnterScan PROVE IInv'
<1> USE DEF EnterScan, Collecting, heapVars, rootVars
<1>1. Copying /\ Copying' /\ phase' = "scan" /\ phase = "roots"
  BY DEF Copying
<1>2. /\ \A a \in Addr : FromObject(a)' <=> FromObject(a)
      /\ \A a \in Addr : ToObject(a)' <=> ToObject(a)
      /\ FromRefs' = FromRefs /\ CopyRefs' = CopyRefs
      /\ Forwarding' /\ CopiedVolume' /\ Identities' /\ Unregistered'
      /\ FromEnd' = FromEnd
      /\ Tiled(from, FromEnd)' /\ Tiled(to, free)'
      /\ \A a \in Addr : IsObject(a)' => InUse(a)'
  BY <1>1, ScanShape
<1>3. cursor = to /\ to <= free /\ free <= to + SemiSize
  BY <1>1 DEF IInv, Parsable
<1>4. cursor < free => cursor \in Addr /\ IsObject(cursor)
  BY <1>1, <1>3, Bounds DEF IInv, Parsable, Tiled
<1>5. todo' \subseteq Offset
  BY <1>4 DEF RefsAt, Offset, IsObject
<1>6. TypeOK'
  BY <1>5 DEF IInv, TypeOK, Phases
<1>7. Parsable'
  <2>1. (from <= FromEnd /\ FromEnd <= from + SemiSize)'
    BY <1>2, Bounds
  <2>2. hdr' = hdr /\ cursor' = cursor /\ free' = free /\ to' = to
    OBVIOUS
  <2>3. IsObject(cursor)' <=> IsObject(cursor)
    BY <2>2 DEF IsObject
  <2>4. (cursor < free => IsObject(cursor))' /\ cursor' <= free' /\ to' <= cursor'
    BY <1>3, <1>4, <2>2, <2>3, Bounds
  <2> QED
    BY <1>1, <1>2, <1>3, <2>1, <2>4 DEF Parsable
<1>8. \A a \in Addr : \A o : ToObject(a) /\ o \in RefOffsets[hdr[a].klass] => ~Scanned(a, o)'
  BY <1>1, <1>3, <1>4, Bounds DEF Scanned, ToObject, RefsAt
<1>9. NoDangling'
  <2>1. \A a \in Addr : ToObject(a) =>
          \A o \in RefOffsets[hdr[a].klass] : ref[a + o] \in FromRefs
    BY <1>1 DEF IInv, NoDangling, Scanned
  <2>2. \A a \in Addr : FromObject(a) =>
          \A o \in RefOffsets[hdr[a].klass] : ref[a + o] \in FromRefs
    BY DEF IInv, NoDangling
  <2> QED
    BY <1>1, <1>2, <1>8, <2>1, <2>2, CopyingRoots DEF NoDangling, BaseOf
<1>10. CopyFaithful'
  <2>1. ASSUME NEW a \in Addr, FromObject(a), hdr[a].forward # Null,
               NEW o \in RefOffsets[hdr[a].klass]
        PROVE  ref[hdr[a].forward + o] = ref[a + o] /\ ~Scanned(hdr[a].forward, o)'
    <3>1. PICK n : n = hdr[a].forward
      OBVIOUS
    <3>2. n \in Addr /\ ToObject(n) /\ hdr[n].klass = hdr[a].klass
      BY <2>1, <1>1, <3>1 DEF IInv, Forwarding
    <3>3. ~Scanned(n, o)'
      BY <1>8, <3>2
    <3>4. ref[n + o] = ref[a + o]
      BY <1>1, <2>1, <3>1 DEF IInv, CopyFaithful, Scanned
    <3> QED
      BY <3>1, <3>3, <3>4
  <2> QED
    BY <1>2, <2>1 DEF CopyFaithful
<1>11. Requested'
  BY <1>1 DEF IInv, Bookkeeping, Requested, RefsAt
<1> QED
  BY <1>2, <1>6, <1>7, <1>9, <1>10, <1>11 DEF IInv, Bookkeeping

(* Moving the scan pointer past a finished copy keeps the invariant. *)
LEMMA AdvanceScanInv ==
  ASSUME IInv, AdvanceScan PROVE IInv'
<1> USE DEF AdvanceScan, Collecting, heapVars, rootVars
<1>1. Copying /\ Copying' /\ phase' = "scan" /\ phase = "scan"
  BY DEF Copying
<1>2. /\ \A a \in Addr : FromObject(a)' <=> FromObject(a)
      /\ \A a \in Addr : ToObject(a)' <=> ToObject(a)
      /\ FromRefs' = FromRefs /\ CopyRefs' = CopyRefs
      /\ Forwarding' /\ CopiedVolume' /\ Identities' /\ Unregistered'
      /\ FromEnd' = FromEnd
      /\ Tiled(from, FromEnd)' /\ Tiled(to, free)'
      /\ \A a \in Addr : IsObject(a)' => InUse(a)'
  BY <1>1, ScanShape
<1>3. /\ cursor \in Addr /\ IsObject(cursor) /\ to <= cursor
      /\ to <= free /\ free <= to + SemiSize /\ Tiled(to, free)
  BY <1>1, Bounds DEF IInv, Parsable
<1>4. SizeOf(cursor) \in Nat /\ SizeOf(cursor) > 0
  BY <1>3, SizeType
<1> DEFINE next == cursor + SizeOf(cursor)
<1>5. /\ next <= free /\ next \in Nat /\ cursor < next
      /\ next < free => next \in Addr /\ IsObject(next)
      /\ \A b \in Addr : (cursor < b /\ b < next) => ~IsObject(b)
  BY <1>3, <1>4, Bounds DEF Tiled
<1>6. cursor' = next /\ todo' = RefsAt(next, free)
  OBVIOUS
<1> HIDE DEF next
<1>7. todo' \subseteq Offset
  BY <1>5, <1>6 DEF RefsAt, Offset, IsObject
<1>8. TypeOK'
  <2>1. {free, limit, cursor}' \subseteq 0 .. (2 * SemiSize)
    <3>1. limit <= 2 * SemiSize
      BY DEF IInv, TypeOK
    <3> QED
      BY <1>3, <1>5, <1>6, <3>1, Bounds
  <2> QED
    BY <1>7, <2>1 DEF IInv, TypeOK
<1>9. Parsable'
  <2>1. (from <= FromEnd /\ FromEnd <= from + SemiSize)'
    BY <1>2, Bounds
  <2>2. (cursor < free => IsObject(cursor))' /\ cursor' <= free' /\ to' <= cursor'
    BY <1>3, <1>5, <1>6, Bounds DEF IsObject
  <2> QED
    BY <1>1, <1>2, <1>3, <2>1, <2>2 DEF Parsable
<1>10. \A a \in Addr : \A o : ToObject(a) /\ o \in RefOffsets[hdr[a].klass] =>
         (Scanned(a, o)' <=> Scanned(a, o))
  <2> SUFFICES ASSUME NEW a \in Addr, NEW o, ToObject(a), o \in RefOffsets[hdr[a].klass]
               PROVE  Scanned(a, o)' <=> Scanned(a, o)
    OBVIOUS
  <2>1. CASE a < cursor
    BY <1>1, <1>5, <1>6, <2>1, Bounds DEF Scanned
  <2>2. CASE a = cursor
    BY <1>1, <1>5, <1>6, <2>2 DEF Scanned
  <2>3. CASE cursor < a
    <3>1. ~Scanned(a, o)
      BY <2>3, Bounds DEF Scanned
    <3>2. next <= a /\ IsObject(a) /\ a < free
      BY <1>5, <2>3 DEF ToObject
    <3>3. a = next => o \in todo'
      BY <1>6, <3>2 DEF RefsAt
    <3> QED
      BY <1>5, <1>6, <3>1, <3>2, <3>3 DEF Scanned
  <2> QED
    BY <2>1, <2>2, <2>3, Bounds
<1>11. NoDangling'
  <2>1. /\ \A a \in Addr : ToObject(a) =>
             \A o \in RefOffsets[hdr[a].klass] :
               IF Scanned(a, o) THEN ref[a + o] \in CopyRefs ELSE ref[a + o] \in FromRefs
        /\ \A a \in Addr : FromObject(a) =>
             \A o \in RefOffsets[hdr[a].klass] : ref[a + o] \in FromRefs
    BY DEF IInv, NoDangling
  <2>2. \A a \in Addr : ToObject(a)' =>
             \A o \in RefOffsets[hdr'[a].klass] :
               IF Scanned(a, o)' THEN ref'[a + o] \in CopyRefs' ELSE ref'[a + o] \in FromRefs'
    BY <1>2, <1>10, <2>1
  <2> QED
    BY <1>1, <1>2, <2>1, <2>2, CopyingRoots DEF NoDangling, BaseOf
<1>12. CopyFaithful'
  <2>1. ASSUME NEW a \in Addr, FromObject(a), hdr[a].forward # Null,
               NEW o \in RefOffsets[hdr[a].klass]
        PROVE  Scanned(hdr[a].forward, o)' <=> Scanned(hdr[a].forward, o)
    <3>1. PICK n : n = hdr[a].forward
      OBVIOUS
    <3>2. n \in Addr /\ ToObject(n) /\ hdr[n].klass = hdr[a].klass
      BY <2>1, <1>1, <3>1 DEF IInv, Forwarding
    <3>3. Scanned(n, o)' <=> Scanned(n, o)
      BY <1>10, <3>2
    <3> QED
      BY <3>1, <3>3
  <2> QED
    BY <1>1, <1>2, <2>1 DEF IInv, CopyFaithful
<1>13. Requested'
  BY <1>1, <1>6 DEF IInv, Bookkeeping, Requested, RefsAt
<1> QED
  BY <1>2, <1>8, <1>9, <1>11, <1>12, <1>13 DEF IInv, Bookkeeping

\* What the scan knows of the object it has reached.
LEMMA ScanPoint ==
  ASSUME IInv, phase = "scan", NEW o \in todo
  PROVE  /\ Copying /\ cursor < free /\ cursor \in Addr /\ ToObject(cursor)
         /\ IsObject(cursor) /\ o \in RefOffsets[hdr[cursor].klass]
         /\ cursor + o \in Addr /\ ref[cursor + o] \in FromRefs
<1>1. Copying /\ cursor < free /\ o \in RefOffsets[hdr[cursor].klass]
  BY DEF Copying, IInv, Bookkeeping, Requested
<1>2. cursor \in Addr /\ IsObject(cursor) /\ to <= cursor
  BY <1>1, Bounds DEF IInv, Parsable
<1>3. ToObject(cursor)
  BY <1>1, <1>2 DEF ToObject
<1>4. ~Scanned(cursor, o)
  BY Bounds DEF Scanned
<1> QED
  BY <1>1, <1>2, <1>3, <1>4, ObjectWord DEF IInv, NoDangling

\* Two reference words of the objects of the heap are distinct unless they are
\* the same word of the same object.
LEMMA DistinctWords ==
  ASSUME IInv, NEW a \in Addr, NEW b \in Addr, IsObject(a), IsObject(b),
         NEW o \in RefOffsets[hdr[a].klass], NEW q \in RefOffsets[hdr[b].klass],
         a + o = b + q
  PROVE  a = b /\ o = q
<1>1. /\ o \in Nat /\ o < SizeOf(a) /\ SizeOf(a) \in Nat
      /\ q \in Nat /\ q < SizeOf(b) /\ SizeOf(b) \in Nat
  BY ObjectWord
<1>2. /\ \A x \in Addr : (a < x /\ x < a + SizeOf(a)) => ~IsObject(x)
      /\ \A x \in Addr : (b < x /\ x < b + SizeOf(b)) => ~IsObject(x)
  BY ObjectWord DEF IInv, Parsable, Tiled, FromObject, ToObject
<1>3. a = b
  BY <1>1, <1>2
<1> QED
  BY <1>1, <1>3

(* Copying what one field of a scanned copy refers to keeps the invariant. *)
LEMMA ScanRefInv ==
  ASSUME IInv, NEW o, ScanRef(o) PROVE IInv'
<1> USE DEF ScanRef, Collecting, rootVars
<1>1. Copying /\ Copying' /\ phase' = "scan" /\ phase = "scan"
  BY DEF Copying
<1>2. PICK p : p = ref[cursor + o]
  OBVIOUS
<1>3. PICK n : n = NewPlace(p)
  OBVIOUS
<1>4. /\ cursor < free /\ cursor \in Addr /\ ToObject(cursor) /\ IsObject(cursor)
      /\ o \in RefOffsets[hdr[cursor].klass] /\ cursor + o \in Addr /\ p \in FromRefs
  BY <1>1, <1>2, ScanPoint
<1>5. hdr' = HdrAfterCopy(p) /\ free' = FreeAfterCopy(p)
  BY <1>2
<1>6. /\ n \in CopyRefs' /\ n \in Pointer
      /\ p = Null => n = Null
      /\ p # Null => n \in Addr /\ hdr'[p].forward = n
  BY <1>1, <1>3, <1>4, <1>5, CopyPlace
<1>7. /\ RefAfterCopy(p) \in [Addr -> Pointer]
      /\ \A a \in Addr : IsObject(a) =>
           \A q \in RefOffsets[hdr[a].klass] : RefAfterCopy(p)[a + q] = ref[a + q]
  BY <1>1, <1>4, CopyWords
<1>8. /\ ref' \in [Addr -> Pointer]
      /\ ref'[cursor + o] = n
      /\ \A x \in Addr : x # cursor + o => ref'[x] = RefAfterCopy(p)[x]
  <2>1. ref' = [RefAfterCopy(p) EXCEPT ![cursor + o] = n]
    BY <1>2, <1>3
  <2> QED
    BY <1>4, <1>6, <1>7, <2>1
<1>9. FromRefs' = FromRefs /\ CopyRefs \subseteq CopyRefs'
  BY <1>1, <1>4, <1>5, CopyRefSets
<1>10. hdr' \in [Addr -> Header] /\ free' \in 0 .. (2 * SemiSize)
       /\ free <= free' /\ hdr'[cursor].klass = hdr[cursor].klass
  BY <1>1, <1>4, <1>5, CopyHeaders, Bounds
<1>11. TypeOK'
  BY <1>8, <1>10 DEF IInv, TypeOK
<1>12. Parsable'
  <2>1. /\ from <= FromEnd' /\ FromEnd' <= from + SemiSize
        /\ to <= free' /\ free' <= to + SemiSize
        /\ Tiled(from, FromEnd)' /\ Tiled(to, free)'
        /\ \A a \in Addr : IsObject(a)' => InUse(a)'
    BY <1>1, <1>4, <1>5, CopyShape
  <2>2. IsObject(cursor)' /\ cursor' <= free' /\ to' <= cursor'
    BY <1>4, <1>10, Bounds DEF IsObject, ToObject
  <2> QED
    BY <1>1, <2>1, <2>2 DEF Parsable
<1>13. Forwarding' /\ CopiedVolume' /\ Identities'
  BY <1>1, <1>4, <1>5, CopyForwarding, CopyVolume, CopyIdentities
<1>14. \A a \in Addr : FromObject(a) => a # cursor
  BY <1>4, Bounds DEF FromObject, ToObject, IInv, Parsable
<1>15. \A a \in Addr : FromObject(a)' =>
         /\ FromObject(a) /\ hdr'[a].klass = hdr[a].klass
         /\ \A q \in RefOffsets[hdr[a].klass] :
              ref'[a + q] = ref[a + q] /\ ref[a + q] \in FromRefs
  <2> SUFFICES ASSUME NEW a \in Addr, FromObject(a)'
               PROVE  /\ FromObject(a) /\ hdr'[a].klass = hdr[a].klass
                      /\ \A q \in RefOffsets[hdr[a].klass] :
                           ref'[a + q] = ref[a + q] /\ ref[a + q] \in FromRefs
    OBVIOUS
  <2>1. /\ FromObject(a) /\ hdr'[a].klass = hdr[a].klass /\ IsObject(a)
        /\ \A q \in RefOffsets[hdr[a].klass] :
             RefAfterCopy(p)[a + q] = ref[a + q] /\ ref[a + q] \in FromRefs
    BY <1>1, <1>4, <1>5, CopyHeap DEF FromObject
  <2>2. \A q \in RefOffsets[hdr[a].klass] : a + q # cursor + o /\ a + q \in Addr
    BY <1>4, <1>14, <2>1, DistinctWords, ObjectWord
  <2> QED
    BY <1>8, <2>1, <2>2
<1>16. \A a \in Addr : \A q : Scanned(a, q)' <=> (Scanned(a, q) \/ (a = cursor /\ q = o))
  BY <1>1 DEF Scanned
<1>17. \A a \in Addr : ToObject(a)' => \A q \in RefOffsets[hdr'[a].klass] :
         IF Scanned(a, q)' THEN ref'[a + q] \in CopyRefs' ELSE ref'[a + q] \in FromRefs'
  <2> SUFFICES ASSUME NEW a \in Addr, ToObject(a)', NEW q \in RefOffsets[hdr'[a].klass]
               PROVE  IF Scanned(a, q)' THEN ref'[a + q] \in CopyRefs'
                                        ELSE ref'[a + q] \in FromRefs'
    OBVIOUS
  <2>1. CASE ToObject(a) /\ hdr'[a].klass = hdr[a].klass
    <3>1. /\ IsObject(a) /\ q \in RefOffsets[hdr[a].klass]
          /\ IF Scanned(a, q) THEN ref[a + q] \in CopyRefs ELSE ref[a + q] \in FromRefs
      BY <1>1, <2>1 DEF IInv, NoDangling, ToObject
    <3>2. CASE a = cursor /\ q = o
      BY <1>6, <1>8, <1>16, <3>2
    <3>3. CASE ~(a = cursor /\ q = o)
      <4>1. a + q # cursor + o /\ a + q \in Addr
        BY <1>4, <3>1, <3>3, DistinctWords, ObjectWord
      <4>2. ref'[a + q] = ref[a + q]
        BY <1>7, <1>8, <3>1, <4>1
      <4> QED
        BY <1>9, <1>16, <3>1, <3>3, <4>2
    <3> QED
      BY <3>2, <3>3
  <2>2. CASE /\ MustCopy(p) /\ a = free /\ hdr'[a].klass = hdr[p].klass
             /\ p \in Addr /\ FromObject(p)
             /\ \A r \in RefOffsets[hdr[p].klass] :
                  RefAfterCopy(p)[a + r] = ref[p + r] /\ ref[p + r] \in FromRefs
    <3>1. ~Scanned(a, q)'
      BY <1>4, <1>16, <2>2, Bounds DEF Scanned
    <3>2. q \in Nat /\ cursor + o < free
      <4>1. q \in Nat
        BY <2>2, ObjectWord DEF FromObject
      <4>2. cursor + SizeOf(cursor) <= free /\ SizeOf(cursor) \in Nat
            /\ o \in Nat /\ o < SizeOf(cursor)
        BY <1>4, ObjectWord
      <4> QED
        BY <1>4, <4>1, <4>2, Bounds
    <3>3. a + q # cursor + o /\ a + q \in Addr
      <4>1. q < SizeOf(p) /\ SizeOf(p) \in Nat /\ free + SizeOf(p) <= to + SemiSize
        BY <1>1, <1>4, <2>2, CopyTarget, ObjectWord DEF FromObject
      <4> QED
        BY <1>4, <2>2, <3>2, <4>1, Bounds
    <3> QED
      BY <1>8, <1>9, <2>2, <3>1, <3>3
  <2> QED
    BY <1>1, <1>4, <1>5, <2>1, <2>2, CopyHeap
<1>18. pending = {}
  BY <1>1 DEF IInv, Bookkeeping, Requested
<1>19. NoDangling'
  <2>1. \A i \in Interior : interior[i].ptr # Null =>
           interior[i].offset \in RefOffsets[hdr'[BaseOf(interior[i])].klass]
    BY <1>1, <1>4, <1>5, CopyInterior
  <2>2. /\ \A w \in Word : word[w] \in CopyRefs'
        /\ \A i \in Interior : BaseOf(interior[i]) \in CopyRefs'
    BY <1>1, <1>9, <1>18, CopyingRoots
  <2>3. \A a \in Addr : FromObject(a)' =>
          \A q \in RefOffsets[hdr'[a].klass] : ref'[a + q] \in FromRefs'
    BY <1>9, <1>15
  <2> QED
    BY <1>1, <1>17, <1>18, <2>1, <2>2, <2>3 DEF NoDangling, BaseOf
<1>20. CopyFaithful'
  <2> SUFFICES ASSUME NEW a \in Addr, FromObject(a)', hdr'[a].forward # Null,
                      NEW q \in RefOffsets[hdr'[a].klass],
                      NEW c, c = hdr'[a].forward
               PROVE  IF ~Scanned(c, q)' THEN ref'[c + q] = ref'[a + q]
                      ELSE IF ref'[a + q] = Null THEN ref'[c + q] = Null
                      ELSE ref'[c + q] = hdr'[ref'[a + q]].forward /\ ref'[c + q] # Null
    BY DEF CopyFaithful, Scanned
  <2>1. /\ FromObject(a) /\ hdr'[a].klass = hdr[a].klass
        /\ ref'[a + q] = ref[a + q] /\ ref[a + q] \in FromRefs
        /\ q \in RefOffsets[hdr[a].klass]
    BY <1>15
  <2>2. CASE MustCopy(p) /\ a = p /\ c = free
    <3>1. free \in Addr /\ ~Scanned(c, q)'
      BY <1>1, <1>4, <1>16, <2>2, CopyTarget, Bounds DEF Scanned
    <3>2. q \in Nat /\ cursor + o < free
      <4>1. q \in Nat
        BY <2>1, ObjectWord DEF FromObject
      <4>2. cursor + SizeOf(cursor) <= free /\ SizeOf(cursor) \in Nat
            /\ o \in Nat /\ o < SizeOf(cursor)
        BY <1>4, ObjectWord
      <4> QED
        BY <1>4, <4>1, <4>2, Bounds
    <3>3. c + q # cursor + o /\ c + q \in Addr
      <4>1. q < SizeOf(p) /\ SizeOf(p) \in Nat /\ free + SizeOf(p) <= to + SemiSize
        BY <1>1, <1>4, <2>1, <2>2, CopyTarget, ObjectWord DEF FromObject
      <4> QED
        BY <1>4, <2>2, <3>1, <3>2, <4>1, Bounds
    <3>4. RefAfterCopy(p)[c + q] = ref[a + q]
      BY <1>1, <1>4, <2>1, <2>2, CopyWords
    <3> QED
      BY <1>8, <2>1, <3>1, <3>3, <3>4
  <2>3. CASE /\ c = hdr[a].forward /\ c \in Addr /\ ToObject(c)
             /\ hdr[c].klass = hdr[a].klass
    <3>1. IF ~Scanned(c, q) THEN ref[c + q] = ref[a + q]
          ELSE IF ref[a + q] = Null THEN ref[c + q] = Null
          ELSE ref[c + q] = hdr[ref[a + q]].forward /\ ref[c + q] # Null
      <4>1. hdr[a].forward # Null
        BY <2>3, MarkerAssumption
      <4> QED
        BY <1>1, <2>1, <2>3, <4>1 DEF IInv, CopyFaithful
    <3>2. CASE c = cursor /\ q = o
      <4>1. ref[a + q] = p
        <5>1. ~Scanned(c, q)
          BY <1>4, <3>2, Bounds DEF Scanned
        <5> QED
          BY <1>2, <3>1, <3>2, <5>1
      <4>2. ref'[c + q] = n
        BY <1>8, <3>2
      <4>3. Scanned(c, q)'
        BY <1>16, <2>3, <3>2
      <4>4. p # Null => n # Null
        BY <1>6, MarkerAssumption
      <4> QED
        BY <1>6, <2>1, <4>1, <4>2, <4>3, <4>4
    <3>3. CASE ~(c = cursor /\ q = o)
      <4>1. IsObject(c) /\ c + q # cursor + o /\ c + q \in Addr
        BY <1>4, <2>1, <2>3, <3>3, DistinctWords, ObjectWord DEF ToObject
      <4>2. ref'[c + q] = ref[c + q]
        BY <1>7, <1>8, <2>1, <2>3, <4>1
      <4>3. Scanned(c, q)' <=> Scanned(c, q)
        BY <1>16, <2>3, <3>3
      <4>4. ASSUME ref[a + q] # Null, hdr[ref[a + q]].forward # Null
            PROVE  hdr'[ref[a + q]].forward = hdr[ref[a + q]].forward
        <5> PICK t : t = ref[a + q]
          OBVIOUS
        <5>1. t \in Addr /\ IsObject(t)
          BY <2>1, <4>4 DEF FromRefs, FromObject
        <5>2. ~(MustCopy(p) /\ t = p)
          BY <4>4 DEF MustCopy
        <5>3. hdr'[t].forward = hdr[t].forward
          BY <1>1, <1>4, <1>5, <5>1, <5>2, CopyHeaders
        <5> QED
          BY <5>3
      <4> QED
        BY <2>1, <3>1, <4>2, <4>3, <4>4
    <3> QED
      BY <3>2, <3>3
  <2> QED
    BY <1>1, <1>4, <1>5, <2>1, <2>2, <2>3, CopyHeap
<1>21. Unregistered' /\ Requested'
  <2>1. todo' \subseteq RefOffsets[hdr'[cursor].klass] /\ cursor' < free'
    BY <1>1, <1>4, <1>10, Bounds DEF IInv, Bookkeeping, Requested
  <2> QED
    BY <1>1, <1>18, <2>1 DEF IInv, Bookkeeping, Unregistered, Requested
<1> QED
  BY <1>11, <1>12, <1>13, <1>19, <1>20, <1>21 DEF IInv, Bookkeeping

-----------------------------------------------------------------------------
(***************************************************************************)
(* minorGC: discarding from-space and swapping the halves.                 *)
(***************************************************************************)
\* What is left after it: the copies, which are the objects of from-space now.
LEMMA FinishHeap ==
  ASSUME IInv, FinishCollection
  PROVE  /\ phase = "scan" /\ Copying /\ ~Copying' /\ phase' \in {"mutator", "retry"}
         /\ cursor = free /\ to <= free /\ free <= to + SemiSize /\ Tiled(to, free)
         /\ FromEnd' = free
         /\ pending = {} /\ todo = {}
         /\ hdr' \in [Addr -> Header] /\ ref' \in [Addr -> Pointer]
         /\ \A a \in Addr : InSemi(a, from) => hdr'[a].klass = NoKlass
         /\ \A a \in Addr : ~InSemi(a, from) => hdr'[a] = hdr[a] /\ ref'[a] = ref[a]
         /\ \A a \in Addr : ToObject(a) => ~InSemi(a, from)
         /\ \A a \in Addr : IsObject(a)' => ToObject(a) /\ hdr'[a] = hdr[a]
         /\ \A a \in Addr : ToObject(a) => FromObject(a)' /\ IsObject(a)' /\ hdr'[a] = hdr[a]
         /\ \A a \in Addr : FromObject(a)' => ToObject(a) /\ hdr'[a] = hdr[a]
         /\ \A a \in Addr : ~ToObject(a)'
         /\ FromRefs' = CopyRefs
         /\ \A a \in Addr : ToObject(a) =>
              \A o \in RefOffsets[hdr[a].klass] :
                /\ Scanned(a, o)
                /\ ref'[a + o] = ref[a + o] /\ ref'[a + o] \in CopyRefs
<1> USE DEF FinishCollection, Collecting, rootVars
<1>1. phase = "scan" /\ Copying /\ ~Copying' /\ phase' \in {"mutator", "retry"}
  BY DEF Copying
<1>2. /\ cursor = free /\ to <= free /\ free <= to + SemiSize /\ Tiled(to, free)
      /\ FromEnd' = free
  BY <1>1, Bounds DEF IInv, Parsable, FromEnd
<1>3. pending = {} /\ todo = {}
  BY <1>1 DEF IInv, Bookkeeping, Requested
<1>4. /\ hdr' \in [Addr -> Header] /\ ref' \in [Addr -> Pointer]
      /\ \A a \in Addr : InSemi(a, from) => hdr'[a].klass = NoKlass
      /\ \A a \in Addr : ~InSemi(a, from) => hdr'[a] = hdr[a] /\ ref'[a] = ref[a]
  BY DEF IInv, TypeOK, Header, Emptied, Pointer
<1>5. \A a \in Addr : ToObject(a) => ~InSemi(a, from)
  BY <1>2, Bounds DEF ToObject, InSemi
<1>6. \A a \in Addr : IsObject(a)' => ToObject(a) /\ hdr'[a] = hdr[a]
  <2> SUFFICES ASSUME NEW a \in Addr, IsObject(a)' PROVE ToObject(a) /\ hdr'[a] = hdr[a]
    OBVIOUS
  <2>1. ~InSemi(a, from) /\ hdr'[a] = hdr[a] /\ IsObject(a)
    BY <1>4, MarkerAssumption DEF IsObject
  <2>2. ~FromObject(a)
    BY <2>1, Bounds DEF FromObject, InSemi
  <2> QED
    BY <2>1, <2>2, ObjectWord
<1>7. \A a \in Addr : ToObject(a) => FromObject(a)' /\ IsObject(a)' /\ hdr'[a] = hdr[a]
  BY <1>2, <1>4, <1>5 DEF ToObject, FromObject, IsObject
<1>8. \A a \in Addr : FromObject(a)' => ToObject(a) /\ hdr'[a] = hdr[a]
  BY <1>6 DEF FromObject
<1>9. \A a \in Addr : ~ToObject(a)'
  BY <1>1 DEF ToObject
<1>10. FromRefs' = CopyRefs
  BY <1>7, <1>8 DEF FromRefs, CopyRefs
<1>11. \A a \in Addr : ToObject(a) =>
         \A o \in RefOffsets[hdr[a].klass] : Scanned(a, o) /\ ref'[a + o] = ref[a + o] /\ ref'[a + o] \in CopyRefs
  <2> SUFFICES ASSUME NEW a \in Addr, ToObject(a), NEW o \in RefOffsets[hdr[a].klass]
               PROVE  Scanned(a, o) /\ ref'[a + o] = ref[a + o] /\ ref'[a + o] \in CopyRefs
    OBVIOUS
  <2>1. Scanned(a, o)
    BY <1>1, <1>2 DEF Scanned, ToObject
  <2>2. ref[a + o] \in CopyRefs
    BY <2>1 DEF IInv, NoDangling
  <2>3. /\ o \in Nat /\ o < SizeOf(a) /\ SizeOf(a) \in Nat /\ a + o \in Addr
        /\ a + SizeOf(a) <= free /\ to <= a
    BY ObjectWord DEF ToObject
  <2>4. ~InSemi(a + o, from)
    BY <1>2, <2>3, Bounds DEF InSemi
  <2> QED
    BY <1>4, <2>1, <2>2, <2>3, <2>4
<1> QED
  BY <1>1, <1>2, <1>3, <1>4, <1>5, <1>6, <1>7, <1>8, <1>9, <1>10, <1>11

LEMMA FinishCollectionInv ==
  ASSUME IInv, FinishCollection PROVE IInv'
<1> USE DEF FinishCollection, Collecting, rootVars
<1>1. phase = "scan" /\ Copying /\ ~Copying' /\ phase' \in {"mutator", "retry"}
  BY FinishHeap
<1>2. /\ cursor = free /\ to <= free /\ free <= to + SemiSize /\ Tiled(to, free)
      /\ FromEnd' = free
  BY FinishHeap
<1>3. pending = {} /\ todo = {}
  BY FinishHeap
<1>4. /\ hdr' \in [Addr -> Header] /\ ref' \in [Addr -> Pointer]
      /\ \A a \in Addr : ~InSemi(a, from) => hdr'[a] = hdr[a]
  BY FinishHeap
<1>5. \A a \in Addr : IsObject(a)' => ToObject(a) /\ hdr'[a] = hdr[a]
  BY FinishHeap
<1>6. \A a \in Addr : ToObject(a) => FromObject(a)' /\ IsObject(a)' /\ hdr'[a] = hdr[a]
  BY FinishHeap
<1>7. \A a \in Addr : FromObject(a)' => ToObject(a) /\ hdr'[a] = hdr[a]
  BY FinishHeap
<1>8. \A a \in Addr : ~ToObject(a)'
  BY FinishHeap
<1>9. FromRefs' = CopyRefs
  BY FinishHeap
<1>10. TypeOK'
  <2>1. request' \in Requests \cup {NoRequest} /\ status' \in Statuses
        /\ phase' \in Phases
    BY DEF IInv, TypeOK, Statuses, Phases
  <2>2. from' \in {0, SemiSize} /\ to' = SemiSize - from'
    BY Bounds DEF IInv, TypeOK
  <2>3. {free, limit, cursor}' \subseteq 0 .. (2 * SemiSize)
    BY DEF IInv, TypeOK
  <2>4. /\ pending' \subseteq rooted' /\ todo' \subseteq Offset
        /\ word' \in [Word -> Pointer] /\ interior' \in [Interior -> InteriorPointer]
        /\ rooted' \subseteq Word \cup Interior
    BY DEF IInv, TypeOK
  <2> QED
    BY <1>4, <2>1, <2>2, <2>3, <2>4 DEF TypeOK
<1>11. Parsable'
  <2>1. \A a \in Addr : to <= a /\ a < free => hdr'[a].klass = hdr[a].klass
    BY <1>2, <1>4, Bounds DEF InSemi
  <2>2. Tiled(from, FromEnd)'
    <3>1. PICK lo \in Nat : lo = to
      BY Bounds
    <3>2. PICK hi \in Nat : hi = free
      BY Bounds
    <3>3. /\ Tiled(lo, hi) /\ hi <= 2 * SemiSize
          /\ \A a \in Addr : lo <= a /\ a < hi => hdr'[a].klass = hdr[a].klass
      BY <1>2, <2>1, <3>1, <3>2, Bounds
    <3>4. /\ lo < hi => IsObject(lo)'
          /\ \A a \in Addr : (IsObject(a)' /\ lo <= a /\ a < hi) =>
               /\ a + SizeOf(a)' <= hi
               /\ a + SizeOf(a)' < hi => IsObject(a + SizeOf(a))'
               /\ \A b \in Addr : (a < b /\ b < a + SizeOf(a)') => ~IsObject(b)'
      BY <3>3, TiledSame
    <3>5. Tiled(lo, hi)'
      BY <3>4 DEF Tiled
    <3>6. from' = lo /\ FromEnd' = hi
      BY <1>2, <3>1, <3>2
    <3> QED
      BY <3>5, <3>6 DEF Tiled, IsObject
  <2>3. \A a \in Addr : IsObject(a)' => InUse(a)'
    BY <1>2, <1>5 DEF InUse, ToObject
  <2> QED
    BY <1>1, <1>2, <2>2, <2>3 DEF Parsable
<1>12. Forwarding' /\ CopyFaithful' /\ CopiedVolume'
  BY <1>1 DEF Forwarding, CopyFaithful, CopiedVolume
<1>13. \A a \in Addr : ToObject(a) =>
         \A o \in RefOffsets[hdr[a].klass] : ref'[a + o] \in CopyRefs
  BY FinishHeap
<1>14. NoDangling'
  <2>1. \A w \in Word : word'[w] \in FromRefs'
    BY <1>1, <1>3, <1>9, CopyingRoots
  <2>2. \A i \in Interior :
          /\ BaseOf(interior'[i]) \in FromRefs'
          /\ interior'[i].ptr # Null =>
               interior'[i].offset \in RefOffsets[hdr'[BaseOf(interior'[i])].klass]
    <3> TAKE i \in Interior
    <3>1. BaseOf(interior[i]) \in CopyRefs
      BY <1>1, <1>3, CopyingRoots
    <3>2. ASSUME interior[i].ptr # Null
          PROVE  interior[i].offset \in RefOffsets[hdr'[BaseOf(interior[i])].klass]
      <4>1. /\ BaseOf(interior[i]) \in Addr
            /\ interior[i].offset \in RefOffsets[hdr[BaseOf(interior[i])].klass]
        BY <1>1, <3>2, CopyingRoots
      <4>2. ToObject(BaseOf(interior[i]))
        BY <3>1, <4>1, MarkerAssumption DEF CopyRefs
      <4> QED
        BY <1>6, <4>1, <4>2
    <3> QED
      BY <1>9, <3>1, <3>2
  <2>3. \A a \in Addr : FromObject(a)' =>
          \A o \in RefOffsets[hdr'[a].klass] : ref'[a + o] \in FromRefs'
    BY <1>7, <1>9, <1>13
  <2> QED
    BY <1>1, <1>8, <2>1, <2>2, <2>3 DEF NoDangling, BaseOf
<1>15. Identities'
  <2>1. ASSUME NEW a \in Addr, NEW b \in Addr, ToObject(a), ToObject(b),
               hdr[a].id = hdr[b].id
        PROVE  a = b
    <3>1. PICK x \in Addr : FromObject(x) /\ hdr[x].forward = a
      BY <1>1, <2>1 DEF IInv, Forwarding
    <3>2. PICK y \in Addr : FromObject(y) /\ hdr[y].forward = b
      BY <1>1, <2>1 DEF IInv, Forwarding
    <3>3. hdr[x].id = hdr[a].id /\ hdr[y].id = hdr[b].id
      BY <1>1, <3>1, <3>2, MarkerAssumption DEF IInv, Forwarding
    <3>4. x = y
      BY <2>1, <3>1, <3>2, <3>3 DEF IInv, Bookkeeping, Identities
    <3> QED
      BY <3>1, <3>2, <3>4
  <2>2. \A a \in Addr : IsObject(a)' => hdr'[a].id \in Id
    BY <1>5 DEF IInv, Bookkeeping, Identities, ToObject
  <2> QED
    BY <1>7, <2>1, <2>2 DEF Identities
<1>16. Unregistered' /\ Requested'
  BY <1>1, <1>3 DEF IInv, Bookkeeping, Unregistered, Requested, NoRequest
<1> QED
  BY <1>10, <1>11, <1>12, <1>14, <1>15, <1>16 DEF IInv, Bookkeeping

-----------------------------------------------------------------------------
(***************************************************************************)
(* The theorems.                                                           *)
(***************************************************************************)

\* Every step of the collector and of its clients keeps the invariant, but for a
\* store that runs over memory in use.
LEMMA NextInv ==
  ASSUME IInv, [Next]_vars, Intact' PROVE IInv'
<1>1. CASE Client
  BY <1>1, AllocateInv, PinInv, UnpinInv, DropRefInv, CopyRefInv, LoadFieldInv,
     StoreFieldInv, TakeInteriorInv, TakeLocalInv, DropInteriorInv,
     LoadInteriorInv, StoreInteriorInv DEF Client
<1>2. CASE MinorGC
  BY <1>2, ResetObjectInv, EnterRootsInv, CopyRootWordInv, CopyRootInteriorInv,
     EnterScanInv, ScanRefInv, AdvanceScanInv, FinishCollectionInv DEF MinorGC
<1>3. CASE Retry
  BY <1>3, RetryAllocateInv, RetryUnpinInv DEF Retry
<1>4. CASE UNCHANGED vars
  BY <1>4 DEF vars, IInv, TypeOK, Parsable, Forwarding, NoDangling, CopyFaithful,
     Bookkeeping, Unregistered, Identities, Requested, CopiedVolume, Moved,
     Copying, FromEnd, Tiled, InUse, FromObject, ToObject, FromRefs, CopyRefs,
     Scanned, IsObject, SizeOf, BaseOf
<1> QED
  BY <1>1, <1>2, <1>3, <1>4 DEF Next

\* Only a running process takes a step.
LEMMA Running == ASSUME Next PROVE status = "running"
BY DEF Next, Client, MinorGC, Retry, Allocate, Pin, Unpin, DropRef, CopyRef, LoadField,
       StoreField, TakeInterior, TakeLocal, DropInterior, LoadInterior, StoreInterior,
       ResetObject, EnterRoots, CopyRootWord, CopyRootInterior, EnterScan, ScanRef,
       AdvanceScan, FinishCollection, RetryAllocate, RetryUnpin, Mutating, Collecting

\* Only a store into a field runs over memory in use.
LEMMA OnlyStoreOverruns ==
  ASSUME Next, ~Intact'
  PROVE  \E w, v \in Word, o \in Offset : StoreField(w, o, v)
<1>1. status = "running" /\ status' = "corrupted"
  BY Running DEF Intact
<1>2. CASE Client
  BY <1>1, <1>2 DEF Client, Allocate, Pin, Unpin, DropRef, CopyRef, LoadField, TakeInterior,
     TakeLocal, DropInterior, LoadInterior, StoreInterior
<1>3. CASE MinorGC
  BY <1>1, <1>3 DEF MinorGC, ResetObject, EnterRoots, CopyRootWord, CopyRootInterior,
     EnterScan, ScanRef, AdvanceScan, FinishCollection
<1>4. CASE Retry
  BY <1>1, <1>4 DEF Retry, RetryAllocate, RetryUnpin
<1> QED
  BY <1>2, <1>3, <1>4 DEF Next

\* Such a store leaves variables of their types, and no collection begins.
LEMMA OverrunType ==
  ASSUME IInv, NEW w \in Word, NEW v \in Word, NEW o, StoreField(w, o, v)
  PROVE  TypeOK' /\ phase' = "mutator"
<1>1. PICK a : a = word[w]
  OBVIOUS
<1>2. a \in Pointer /\ word[v] \in Pointer /\ Null \in Pointer
  BY <1>1 DEF IInv, TypeOK, Pointer
<1>3. Emptied(Garbage) \in Header
  BY DEF Emptied, Header
<1>4. ref' \in [Addr -> Pointer]
  BY <1>1, <1>2 DEF StoreField, IInv, TypeOK
<1>5. hdr' \in [Addr -> Header]
  BY <1>1, <1>3 DEF StoreField, IInv, TypeOK
<1>6. status' \in Statuses
  BY DEF StoreField, Statuses
<1> QED
  BY <1>4, <1>5, <1>6 DEF StoreField, IInv, TypeOK, gcVars, rootVars, Mutating

\* What is inductive.
LEMMA NextSound ==
  ASSUME SoundInv, [Next]_vars PROVE SoundInv'
<1>1. CASE UNCHANGED vars
  <2>1. IInv => IInv'
    BY <1>1 DEF vars, IInv, TypeOK, Parsable, Forwarding, NoDangling, CopyFaithful,
       Bookkeeping, Unregistered, Identities, Requested, CopiedVolume, Moved,
       Copying, FromEnd, Tiled, InUse, FromObject, ToObject, FromRefs, CopyRefs,
       Scanned, IsObject, SizeOf, BaseOf
  <2>2. TypeOK' /\ (~Intact /\ phase = "mutator" => ~Intact' /\ phase' = "mutator")
    BY <1>1 DEF vars, SoundInv, TypeOK, Intact
  <2> QED
    BY <2>1, <2>2 DEF SoundInv
<1>2. CASE Next
  <2>1. IInv
    BY <1>2, Running DEF SoundInv, Intact
  <2>2. CASE Intact'
    BY <2>1, <2>2, <1>2, NextInv DEF SoundInv, IInv
  <2>3. CASE ~Intact'
    BY <2>1, <2>3, <1>2, OnlyStoreOverruns, OverrunType DEF SoundInv
  <2> QED
    BY <2>2, <2>3
<1> QED
  BY <1>1, <1>2

\* The inductive invariant holds in every reachable state: all that is said of the
\* heap, until a store into a field runs over memory in use.
THEOREM Invariance == Spec => []SoundInv
<1>1. Init => SoundInv
  BY InitInv DEF SoundInv, IInv
<1> QED
  BY <1>1, NextSound, PTL DEF Spec

\* Every variable of the collector keeps to its type.
THEOREM TypeCorrect == Spec => []TypeOK
<1>1. SoundInv => TypeOK
  BY DEF SoundInv
<1> QED
  BY <1>1, Invariance, PTL

\* Until a store runs over memory in use, walking a semi-space by instance size meets
\* exactly its objects, and neither allocation nor the copying of the survivors
\* overruns a semi-space.
THEOREM HeapParsable == Spec => []HeapStaysParsable
<1>1. SoundInv => HeapStaysParsable
  BY DEF SoundInv, HeapStaysParsable, IInv
<1> QED
  BY <1>1, Invariance, PTL

\* A forward pointer of an object leads to the only copy of that object.
THEOREM ForwardPointers == Spec => []Forwarding
<1>1. SoundInv => Forwarding
  BY DEF SoundInv, IInv, Forwarding, Copying
<1> QED
  BY <1>1, Invariance, PTL

\* Until a store runs over memory in use, no registered reference and no reference in
\* an object dangles, and a collection leaves none into the half it discards.
THEOREM ReferencesSound == Spec => []NothingDangles
<1>1. SoundInv => NothingDangles
  BY DEF SoundInv, NothingDangles, IInv
<1> QED
  BY <1>1, Invariance, PTL

\* A copy refers to the copies of what its original refers to.
THEOREM CopiesFaithful == Spec => []CopyFaithful
<1>1. SoundInv => CopyFaithful
  BY DEF SoundInv, IInv, CopyFaithful, Copying
<1> QED
  BY <1>1, Invariance, PTL

\* Copying consumes exactly the room its originals took.
THEOREM VolumePreserved == Spec => []CopiedVolume
<1>1. SoundInv => CopiedVolume
  BY DEF SoundInv, IInv, CopiedVolume, Copying
<1> QED
  BY <1>1, Invariance, PTL

HIDE DEF Addr

-----------------------------------------------------------------------------
(***************************************************************************)
(* Reachability.                                                           *)
(***************************************************************************)
Follows(g, T) == \A i \in T : Successors(g, i) \cap DOMAIN g \subseteq T

\* The edges of a drawing are the references between its nodes.
LEMMA DrawingEdges ==
  ASSUME NEW g
  PROVE  /\ Drawing(g).nodes = DOMAIN g
         /\ \A T \in SUBSET DOMAIN g :
              Follows(g, T) <=> \A e \in Drawing(g).edges : e[1] \in T => e[2] \in T
<1> DEFINE E == UNION {{i} \X (Successors(g, i) \cap DOMAIN g) : i \in DOMAIN g}
<1>1. Drawing(g).nodes = DOMAIN g /\ Drawing(g).edges = E
  BY DEF Drawing
<1>2. ASSUME NEW T \in SUBSET DOMAIN g, Follows(g, T), NEW e \in E, e[1] \in T
      PROVE  e[2] \in T
  <2>1. PICK i \in DOMAIN g : e \in {i} \X (Successors(g, i) \cap DOMAIN g)
    BY <1>2
  <2>2. e[1] = i /\ e[2] \in Successors(g, i) \cap DOMAIN g
    BY <2>1
  <2> QED
    BY <1>2, <2>2 DEF Follows
<1>3. ASSUME NEW T \in SUBSET DOMAIN g, \A e \in E : e[1] \in T => e[2] \in T
      PROVE  Follows(g, T)
  <2> SUFFICES ASSUME NEW i \in T, NEW j \in Successors(g, i) \cap DOMAIN g
               PROVE  j \in T
    BY DEF Follows
  <2>1. <<i, j>> \in {i} \X (Successors(g, i) \cap DOMAIN g)
    OBVIOUS
  <2>2. <<i, j>> \in E
    BY <1>3, <2>1
  <2> HIDE DEF E
  <2> QED
    BY <1>3, <2>2
<1> QED
  BY <1>1, <1>2, <1>3

\* The closure, without its drawing.
LEMMA ClosureSets ==
  ASSUME NEW g, NEW S
  PROVE  Closure(g, S) =
           {i \in DOMAIN g : \A T \in SUBSET DOMAIN g :
              S \cap DOMAIN g \subseteq T /\ Follows(g, T) => i \in T}
<1>1. Closure(g, S) = Spanned(Drawing(g), S \cap DOMAIN g)
  BY DrawingEdges DEF Closure
<1> QED
  BY <1>1, DrawingEdges DEF Spanned

\* It holds its start and follows the references.
LEMMA ClosureHolds ==
  ASSUME NEW g, NEW S
  PROVE  /\ Closure(g, S) \subseteq DOMAIN g
         /\ S \cap DOMAIN g \subseteq Closure(g, S)
         /\ Follows(g, Closure(g, S))
<1>1. Closure(g, S) \subseteq DOMAIN g /\ S \cap DOMAIN g \subseteq Closure(g, S)
  BY ClosureSets
<1>2. ASSUME NEW i \in Closure(g, S), NEW j \in Successors(g, i) \cap DOMAIN g
      PROVE  j \in Closure(g, S)
  <2> SUFFICES ASSUME NEW T \in SUBSET DOMAIN g,
                      S \cap DOMAIN g \subseteq T, Follows(g, T)
               PROVE  j \in T
    BY ClosureSets
  <2>1. i \in T
    BY <1>2, ClosureSets
  <2> QED
    BY <1>2, <2>1 DEF Follows
<1> QED
  BY <1>1, <1>2 DEF Follows

\* It is the least such set.
LEMMA ClosureLeast ==
  ASSUME NEW g, NEW S, NEW T, T \subseteq DOMAIN g,
         S \cap DOMAIN g \subseteq T, Follows(g, T)
  PROVE  Closure(g, S) \subseteq T
BY ClosureSets

\* Two graphs that agree on a set neither leads out of, with the start in it, are
\* the same as far as they are reached.
LEMMA ClosureWithin ==
  ASSUME NEW g, NEW h, NEW S, NEW C, C \subseteq DOMAIN g, C \subseteq DOMAIN h,
         S \cap DOMAIN g \subseteq C, Follows(g, C), \A i \in C : g[i] = h[i]
  PROVE  Closure(g, S) \subseteq Closure(h, S) \cap C
<1> DEFINE T == Closure(h, S) \cap C
<1>1. T \subseteq DOMAIN g /\ S \cap DOMAIN g \subseteq T
  BY ClosureHolds
<1>2. Follows(g, T)
  <2> SUFFICES ASSUME NEW i \in T, NEW j \in Successors(g, i) \cap DOMAIN g
               PROVE  j \in T
    BY DEF Follows
  <2>1. j \in C
    BY DEF Follows
  <2>2. j \in Successors(h, i) \cap DOMAIN h
    BY <2>1 DEF Successors
  <2>3. j \in Closure(h, S)
    BY <2>2, ClosureHolds DEF Follows
  <2> QED
    BY <2>1, <2>3
<1> QED
  BY <1>1, <1>2, ClosureLeast

LEMMA ReachedSame ==
  ASSUME NEW g, NEW h, NEW S, NEW C, C \subseteq DOMAIN g, C \subseteq DOMAIN h,
         S \cap DOMAIN g \subseteq C, S \cap DOMAIN h \subseteq C,
         Follows(g, C), Follows(h, C), \A i \in C : g[i] = h[i]
  PROVE  Reached(g, S) = Reached(h, S)
<1>1. Closure(g, S) \subseteq Closure(h, S) \cap C
  BY ClosureWithin
<1>2. Closure(h, S) \subseteq Closure(g, S) \cap C
  BY ClosureWithin
<1>3. Closure(g, S) = Closure(h, S) /\ \A i \in Closure(g, S) : g[i] = h[i]
  BY <1>1, <1>2
<1> QED
  BY <1>3 DEF Reached

-----------------------------------------------------------------------------
(***************************************************************************)
(* The view. What the program sees of an object is the same in its         *)
(* original and, once there is one, in its copy.                           *)
(***************************************************************************)
NodeAt(a) ==
  [klass  |-> hdr[a].klass,
   fields |-> [o \in RefOffsets[hdr[a].klass] |-> IdAt(ref[a + o])]]

\* A reference denotes an object exactly when it is not null.
LEMMA IdOfRef ==
  ASSUME IInv, NEW p, p \in FromRefs \cup CopyRefs
  PROVE  /\ p # Null => /\ p \in Addr /\ IsObject(p)
                        /\ IdAt(p) = hdr[p].id /\ IdAt(p) \in Id \cap Present
         /\ p = Null => IdAt(p) = Null
         /\ IdAt(p) = Null <=> p = Null
<1>1. CASE p = Null
  BY <1>1, MarkerAssumption DEF IdAt, Addr
<1>2. CASE p # Null
  <2>1. p \in Addr /\ IsObject(p)
    BY <1>2 DEF FromRefs, CopyRefs, FromObject, ToObject
  <2>2. IdAt(p) = hdr[p].id /\ hdr[p].id \in Id /\ hdr[p].id \in Present
    BY <2>1 DEF IdAt, Present, IInv, Bookkeeping, Identities
  <2> QED
    BY <1>2, <2>1, <2>2, IdAssumption
<1> QED
  BY <1>1, <1>2

\* A copy is that of one object, of the same class and identity.
LEMMA OriginalOf ==
  ASSUME IInv, NEW x \in Addr, ToObject(x)
  PROVE  \E a \in Addr : /\ FromObject(a) /\ hdr[a].forward = x
                         /\ hdr[a].klass = hdr[x].klass /\ hdr[a].id = hdr[x].id
<1>1. Copying
  BY DEF ToObject
<1>2. PICK a \in Addr : FromObject(a) /\ hdr[a].forward = x
  BY <1>1 DEF IInv, Forwarding
<1>3. x # Null
  BY MarkerAssumption DEF Addr
<1> QED
  BY <1>1, <1>2, <1>3 DEF IInv, Forwarding

\* Every identity is that of one object of from-space.
LEMMA PresentFrom ==
  ASSUME IInv
  PROVE  /\ \A i \in Present : \E a \in Addr : FromObject(a) /\ hdr[a].id = i
         /\ \A a \in Addr : IsObject(a) => hdr[a].id \in Present
<1>1. ASSUME NEW i \in Present PROVE \E a \in Addr : FromObject(a) /\ hdr[a].id = i
  <2>1. PICK x \in Addr : IsObject(x) /\ hdr[x].id = i
    BY DEF Present
  <2>2. FromObject(x) \/ ToObject(x)
    BY <2>1, ObjectWord
  <2> QED
    BY <2>1, <2>2, OriginalOf
<1> QED
  BY <1>1 DEF Present

\* What a copy holds denotes what the original holds.
LEMMA SameFields ==
  ASSUME IInv, NEW a \in Addr, FromObject(a), Copying, hdr[a].forward # Null
  PROVE  hdr[a].forward \in Addr /\ NodeAt(hdr[a].forward) = NodeAt(a)
<1> DEFINE x == hdr[a].forward
<1>1. x \in Addr /\ ToObject(x) /\ hdr[x].klass = hdr[a].klass
  BY DEF IInv, Forwarding
<1>2. ASSUME NEW o \in RefOffsets[hdr[a].klass]
      PROVE  IdAt(ref[x + o]) = IdAt(ref[a + o])
  <2> DEFINE old == ref[a + o]
             new == ref[x + o]
  <2>1. IF ~Scanned(x, o) THEN new = old
        ELSE IF old = Null THEN new = Null
        ELSE new = hdr[old].forward /\ new # Null
    BY DEF IInv, CopyFaithful
  <2>2. old \in FromRefs
    BY DEF IInv, NoDangling
  <2>3. CASE new = old
    BY <2>3
  <2>4. CASE old # Null /\ new = hdr[old].forward /\ new # Null
    <3>1. old \in Addr /\ FromObject(old)
      BY <2>2, <2>4 DEF FromRefs
    <3>2. new \in Addr /\ hdr[new].id = hdr[old].id
      BY <2>4, <3>1 DEF IInv, Forwarding
    <3>3. IdAt(new) = hdr[new].id /\ IdAt(old) = hdr[old].id
      BY <3>1, <3>2 DEF IdAt
    <3> QED
      BY <3>2, <3>3
  <2> QED
    BY <2>1, <2>3, <2>4
<1> QED
  BY <1>1, <1>2 DEF NodeAt

\* So the graph can be read off any object of an identity.
LEMMA NodeView ==
  ASSUME IInv, NEW a \in Addr, IsObject(a)
  PROVE  hdr[a].id \in DOMAIN FullGraph /\ FullGraph[hdr[a].id] = NodeAt(a)
<1> DEFINE i == hdr[a].id
           c == {x \in Addr : IsObject(x) /\ hdr[x].id = i}
<1>1. i \in Present /\ FullGraph[i] = NodeAt(Whereabouts(i)) /\ DOMAIN FullGraph = Present
  BY DEF Present, FullGraph, NodeAt
<1>2. PICK b \in Addr : FromObject(b) /\ hdr[b].id = i
  BY <1>1, PresentFrom
<1>3. ASSUME NEW x \in c PROVE x = b \/ (Copying /\ hdr[b].forward = x /\ ToObject(x))
  <2>1. x \in Addr /\ IsObject(x) /\ hdr[x].id = i
    OBVIOUS
  <2>2. CASE FromObject(x)
    BY <1>2, <2>1, <2>2 DEF IInv, Bookkeeping, Identities
  <2>3. CASE ToObject(x)
    <3>1. PICK y \in Addr : FromObject(y) /\ hdr[y].forward = x /\ hdr[y].id = hdr[x].id
      BY <2>1, <2>3, OriginalOf
    <3>2. y = b
      BY <1>2, <2>1, <3>1 DEF IInv, Bookkeeping, Identities
    <3> QED
      BY <2>3, <3>1, <3>2 DEF ToObject
  <2> QED
    BY <2>1, <2>2, <2>3, ObjectWord
<1>4. \A x \in c : NodeAt(x) = NodeAt(b)
  <2> TAKE x \in c
  <2>1. CASE x # b
    <3>1. x \in Addr /\ Copying /\ hdr[b].forward = x /\ x # Null
      BY <1>3, <2>1, MarkerAssumption DEF Addr
    <3> QED
      BY <1>2, <3>1, SameFields
  <2> QED
    BY <2>1
<1>5. Whereabouts(i) \in c
  <2>1. \E x \in c : c = {x} \/ ~(from <= x /\ x < from + SemiSize)
    <3>1. a \in c /\ b \in c
      BY <1>2 DEF FromObject
    <3>2. CASE \E x \in c : x # b
      <4>1. PICK x \in c : x # b
        BY <3>2
      <4>2. ToObject(x)
        BY <1>3, <4>1
      <4>3. x \in Int /\ to <= x /\ x < to + SemiSize
        BY <4>2, Bounds DEF ToObject, IInv, Parsable, Addr
      <4>4. ~(from <= x /\ x < from + SemiSize)
        BY <4>3, Bounds
      <4> QED
        BY <4>1, <4>4
    <3>3. CASE \A x \in c : x = b
      BY <3>1, <3>3
    <3> QED
      BY <3>2, <3>3
  <2> QED
    BY <2>1 DEF Whereabouts
<1>6. a \in c
  OBVIOUS
<1> QED
  BY <1>1, <1>4, <1>5, <1>6


\* All of it, as one predicate.
ViewSound ==
  /\ FullGraph = [i \in Present |-> FullGraph[i]]
  /\ Null \notin Present
  /\ \A i \in Present : \E a \in Addr : FromObject(a) /\ hdr[a].id = i
  /\ \A a \in Addr : IsObject(a) =>
       hdr[a].id \in Id \cap Present /\ FullGraph[hdr[a].id] = NodeAt(a)
  /\ \A q \in FromRefs \cup CopyRefs :
       /\ q # Null => q \in Addr /\ IsObject(q) /\ IdAt(q) = hdr[q].id
       /\ q = Null => IdAt(q) = Null

LEMMA ViewIsSound == IInv => ViewSound
<1> SUFFICES ASSUME IInv PROVE ViewSound
  OBVIOUS
<1>1. FullGraph = [i \in Present |-> FullGraph[i]]
  BY DEF FullGraph
<1>2. Null \notin Present
  BY IdAssumption DEF Present, IInv, Bookkeeping, Identities
<1>3. \A a \in Addr : IsObject(a) =>
        hdr[a].id \in Id \cap Present /\ FullGraph[hdr[a].id] = NodeAt(a)
  BY NodeView DEF FullGraph, IInv, Bookkeeping, Identities
<1> QED
  BY <1>1, <1>2, <1>3, PresentFrom, IdOfRef DEF ViewSound

LEMMA ViewIsSoundNext == IInv' => ViewSound'
BY ViewIsSound, PTL

\* The graph does not change as long as the objects of from-space do not.
LEMMA SameGraph ==
  ASSUME IInv, IInv',
         \A a \in Addr : FromObject(a)' <=> FromObject(a),
         \A a \in Addr : FromObject(a) =>
           /\ hdr'[a].klass = hdr[a].klass /\ hdr'[a].id = hdr[a].id
           /\ \A o \in RefOffsets[hdr[a].klass] : ref'[a + o] = ref[a + o]
  PROVE  FullGraph' = FullGraph /\ \A q \in FromRefs : IdAt(q)' = IdAt(q)
<1> USE ViewIsSound, ViewIsSoundNext DEF ViewSound
<1>1. \A q \in FromRefs : IdAt(q)' = IdAt(q)
  BY DEF FromRefs, IdAt, FromObject
<1>2. ASSUME NEW a \in Addr, FromObject(a)
      PROVE  NodeAt(a)' = NodeAt(a)
  <2>1. \A o \in RefOffsets[hdr[a].klass] : ref[a + o] \in FromRefs
    BY <1>2 DEF IInv, NoDangling
  <2>2. \A o \in RefOffsets[hdr[a].klass] : IdAt(ref[a + o])' = IdAt(ref[a + o])
    <3> TAKE o \in RefOffsets[hdr[a].klass]
    <3>1. PICK q : q = ref[a + o] /\ q = ref'[a + o]
      BY <1>2
    <3>2. IdAt(q)' = IdAt(q)
      BY <1>1, <2>1, <3>1
    <3> QED
      BY <3>1, <3>2 DEF IdAt
  <2> QED
    BY <1>2, <2>2 DEF NodeAt
<1>3. ASSUME NEW i \in Present PROVE i \in Present' /\ FullGraph'[i] = FullGraph[i]
  <2>1. PICK a \in Addr : FromObject(a) /\ hdr[a].id = i
    OBVIOUS
  <2>2. IsObject(a) /\ IsObject(a)' /\ hdr'[a].id = i
    BY <2>1 DEF FromObject
  <2> QED
    BY <1>2, <2>1, <2>2
<1>4. ASSUME NEW i \in Present' PROVE i \in Present
  <2>1. PICK a \in Addr : FromObject(a)' /\ hdr'[a].id = i
    OBVIOUS
  <2>2. FromObject(a) /\ IsObject(a) /\ hdr[a].id = i
    BY <2>1 DEF FromObject
  <2> QED
    BY <2>2
<1>5. Present' = Present
  BY <1>3, <1>4
<1>6. FullGraph' = [i \in Present' |-> FullGraph'[i]] /\ FullGraph = [i \in Present |-> FullGraph[i]]
  OBVIOUS
<1> QED
  BY <1>1, <1>3, <1>5, <1>6

\* Neither does the view if every root goes on denoting what it denoted.
LEMMA SameView ==
  ASSUME FullGraph' = FullGraph, rooted' = rooted,
         (status # "running")' = (status # "running"),
         \A w \in Word : IdAt(word[w])' = IdAt(word[w]),
         \A i \in Interior :
           /\ IdAt(BaseOf(interior[i]))' = IdAt(BaseOf(interior[i]))
           /\ interior'[i].offset = interior[i].offset
  PROVE  UNCHANGED Heap!vars
<1>1. ViewHandle' = ViewHandle /\ ViewPlace' = ViewPlace
  BY DEF ViewHandle, ViewPlace
<1>2. ViewRoots' = ViewRoots
  BY <1>1 DEF ViewRoots
<1>3. ViewGraph' = ViewGraph
  BY <1>2 DEF ViewGraph
<1> QED
  BY <1>1, <1>3 DEF Heap!vars


\* Every root leads to an object or to a copy.
LEMMA RootRefs ==
  ASSUME IInv
  PROVE  /\ \A w \in Word : word[w] \in FromRefs \cup CopyRefs
         /\ \A i \in Interior : BaseOf(interior[i]) \in FromRefs \cup CopyRefs
BY DEF IInv, NoDangling

\* A reference to an object that stays where it is denotes what it denoted.
LEMMA SameId ==
  ASSUME NEW q, q \in FromRefs \cup CopyRefs,
         \A a \in Addr : IsObject(a) => hdr'[a].id = hdr[a].id
  PROVE  IdAt(q)' = IdAt(q)
<1>1. CASE q = Null
  BY <1>1, MarkerAssumption DEF IdAt, Addr
<1>2. CASE q # Null
  BY <1>2 DEF FromRefs, CopyRefs, FromObject, ToObject, IdAt
<1> QED
  BY <1>1, <1>2

-----------------------------------------------------------------------------
(***************************************************************************)
(* A collection is not seen.                                               *)
(***************************************************************************)
\* A step that leaves roots, words and the identity of every object alone.
LEMMA QuietStep ==
  ASSUME IInv, IInv', UNCHANGED <<ref, rootVars, status>>,
         \A a \in Addr : FromObject(a)' <=> FromObject(a),
         \A a \in Addr : hdr'[a].klass = hdr[a].klass /\ hdr'[a].id = hdr[a].id
  PROVE  UNCHANGED Heap!vars
<1> USE DEF rootVars
<1>1. FullGraph' = FullGraph
  BY SameGraph
<1>2. \A w \in Word : IdAt(word[w])' = IdAt(word[w])
  BY RootRefs, SameId
<1>3. \A i \in Interior :
         /\ IdAt(BaseOf(interior[i]))' = IdAt(BaseOf(interior[i]))
         /\ interior'[i].offset = interior[i].offset
  <2> TAKE i \in Interior
  <2>1. PICK q : q = BaseOf(interior[i])
    OBVIOUS
  <2>2. BaseOf(interior[i])' = q
    BY <2>1 DEF BaseOf
  <2>3. IdAt(q)' = IdAt(q)
    BY <2>1, RootRefs, SameId
  <2> QED
    BY <2>1, <2>2, <2>3 DEF IdAt
<1> QED
  BY <1>1, <1>2, <1>3, SameView

LEMMA ResetObjectSeen ==
  ASSUME IInv, IInv', ResetObject PROVE UNCHANGED Heap!vars
<1> USE DEF ResetObject, Collecting
<1>1. ~Copying /\ ~Copying'
  BY DEF Copying
<1>2. cursor \in Addr /\ hdr \in [Addr -> Header]
  BY Bounds, <1>1 DEF IInv, Parsable, TypeOK, FromEnd
<1>3. \A a \in Addr : hdr'[a].klass = hdr[a].klass /\ hdr'[a].id = hdr[a].id
  <2>1. hdr[cursor] \in Header
    BY <1>2
  <2> DEFINE h == [hdr[cursor] EXCEPT !.forward = Null]
  <2>2. h.klass = hdr[cursor].klass /\ h.id = hdr[cursor].id /\ hdr' = [hdr EXCEPT ![cursor] = h]
    BY <2>1 DEF Header
  <2> HIDE DEF h
  <2> QED
    BY <1>2, <2>2
<1>4. \A a \in Addr : FromObject(a)' <=> FromObject(a)
  BY <1>1, <1>3 DEF FromObject, IsObject, FromEnd
<1> QED
  BY <1>3, <1>4, QuietStep

LEMMA EnterRootsSeen ==
  ASSUME IInv, IInv', EnterRoots PROVE UNCHANGED Heap!vars
<1> USE DEF EnterRoots, Collecting
<1>1. ~Copying /\ Copying' /\ limit = free
  BY DEF Copying, IInv, Parsable
<1>2. \A a \in Addr : FromObject(a)' <=> FromObject(a)
  BY <1>1 DEF FromObject, IsObject, FromEnd
<1> QED
  BY <1>2, QuietStep

LEMMA EnterScanSeen ==
  ASSUME IInv, IInv', EnterScan PROVE UNCHANGED Heap!vars
<1> USE DEF EnterScan, Collecting, heapVars
<1>1. Copying /\ Copying'
  BY DEF Copying
<1>2. \A a \in Addr : FromObject(a)' <=> FromObject(a)
  BY <1>1 DEF FromObject, IsObject, FromEnd
<1> QED
  BY <1>2, QuietStep

LEMMA AdvanceScanSeen ==
  ASSUME IInv, IInv', AdvanceScan PROVE UNCHANGED Heap!vars
<1> USE DEF AdvanceScan, Collecting, heapVars
<1>1. Copying /\ Copying'
  BY DEF Copying
<1>2. \A a \in Addr : FromObject(a)' <=> FromObject(a)
  BY <1>1 DEF FromObject, IsObject, FromEnd
<1> QED
  BY <1>2, QuietStep

\* Copying an object is not seen, and a redirected reference denotes the object it
\* denoted before.
LEMMA CopySeen ==
  ASSUME IInv, IInv', Copying, Copying', NEW p, p \in FromRefs,
         hdr' = HdrAfterCopy(p), free' = FreeAfterCopy(p),
         UNCHANGED <<from, to, limit>>,
         \A a \in Addr : FromObject(a) =>
           \A o \in RefOffsets[hdr[a].klass] : ref'[a + o] = ref[a + o]
  PROVE  /\ FullGraph' = FullGraph
         /\ \A q \in FromRefs \cup CopyRefs : IdAt(q)' = IdAt(q)
         /\ \A q : q = NewPlace(p) => IdAt(q)' = IdAt(p)
<1>1. \A a \in Addr : IsObject(a) => hdr'[a].klass = hdr[a].klass /\ hdr'[a].id = hdr[a].id
  BY CopyHeaders
<1>2. \A a \in Addr : FromObject(a)' <=> FromObject(a)
  BY CopyHeaders
<1>3. FullGraph' = FullGraph
  BY <1>1, <1>2, SameGraph DEF FromObject
<1>4. ASSUME NEW q, q = NewPlace(p) PROVE IdAt(q)' = IdAt(p)
  <2>1. CASE p = Null
    BY <1>4, <2>1, MarkerAssumption DEF NewPlace, IdAt, Addr
  <2>2. CASE p # Null
    <3>1. p \in Addr /\ FromObject(p)
      BY <2>2 DEF FromRefs
    <3>2. q \in Addr /\ hdr'[p].forward = q
      BY <1>4, <2>2, CopyPlace
    <3>3. q # Null /\ FromObject(p)'
      BY <1>2, <3>1, <3>2, MarkerAssumption DEF Addr
    <3>4. hdr'[q].id = hdr'[p].id
      BY <3>1, <3>2, <3>3 DEF IInv, Forwarding
    <3>5. hdr'[p].id = hdr[p].id
      BY <1>1, <3>1 DEF FromObject
    <3> QED
      BY <3>1, <3>2, <3>4, <3>5 DEF IdAt
  <2> QED
    BY <2>1, <2>2
<1> QED
  BY <1>1, <1>3, <1>4, SameId

LEMMA CopyRootWordSeen ==
  ASSUME IInv, IInv', NEW w \in Word, CopyRootWord(w) PROVE UNCHANGED Heap!vars
<1> USE DEF CopyRootWord, Collecting
<1>1. Copying /\ Copying'
  BY DEF Copying
<1>2. PICK p : p = word[w]
  OBVIOUS
<1>3. p \in FromRefs
  BY <1>1, <1>2, CopyingRoots
<1>4. \A a \in Addr : FromObject(a) =>
        \A o \in RefOffsets[hdr[a].klass] : ref'[a + o] = ref[a + o]
  BY <1>1, <1>2, <1>3, CopyWords DEF FromObject
<1>5. /\ FullGraph' = FullGraph
      /\ \A q \in FromRefs \cup CopyRefs : IdAt(q)' = IdAt(q)
      /\ \A q : q = NewPlace(p) => IdAt(q)' = IdAt(p)
  BY <1>1, <1>2, <1>3, <1>4, CopySeen
<1>6. ASSUME NEW v \in Word PROVE IdAt(word[v])' = IdAt(word[v])
  <2>1. PICK q : q = word'[v]
    OBVIOUS
  <2>2. IdAt(q)' = IdAt(word[v])
    <3>1. CASE v = w
      <4>1. word'[w] = NewPlace(p)
        BY <1>2 DEF IInv, TypeOK
      <4> QED
        BY <1>2, <1>5, <2>1, <3>1, <4>1
    <3>2. CASE v # w
      <4>1. q = word[v]
        BY <2>1, <3>2
      <4>2. q \in FromRefs \cup CopyRefs
        BY <4>1, RootRefs
      <4> QED
        BY <1>5, <4>1, <4>2
    <3> QED
      BY <3>1, <3>2
  <2> QED
    BY <2>1, <2>2 DEF IdAt
<1>7. ASSUME NEW i \in Interior
      PROVE  /\ IdAt(BaseOf(interior[i]))' = IdAt(BaseOf(interior[i]))
             /\ interior'[i].offset = interior[i].offset
  <2>1. PICK q : q = BaseOf(interior[i]) /\ q = BaseOf(interior[i])'
    BY DEF BaseOf
  <2>2. IdAt(q)' = IdAt(q)
    BY <1>5, <2>1, RootRefs
  <2> QED
    BY <2>1, <2>2 DEF IdAt
<1> QED
  BY <1>5, <1>6, <1>7, SameView

LEMMA CopyRootInteriorSeen ==
  ASSUME IInv, IInv', NEW i \in Interior, CopyRootInterior(i) PROVE UNCHANGED Heap!vars
<1> USE DEF CopyRootInterior, Collecting
<1>1. Copying /\ Copying'
  BY DEF Copying
<1>2. PICK p : p = BaseOf(interior[i])
  OBVIOUS
<1>3. p \in FromRefs /\ interior[i] \in InteriorPointer
  BY <1>1, <1>2, CopyingRoots DEF IInv, TypeOK
<1>4. \A a \in Addr : FromObject(a) =>
        \A o \in RefOffsets[hdr[a].klass] : ref'[a + o] = ref[a + o]
  BY <1>1, <1>2, <1>3, CopyWords DEF FromObject
<1>5. /\ FullGraph' = FullGraph
      /\ \A q \in FromRefs \cup CopyRefs : IdAt(q)' = IdAt(q)
      /\ \A q : q = NewPlace(p) => IdAt(q)' = IdAt(p)
  BY <1>1, <1>2, <1>3, <1>4, CopySeen
<1>6. \A v \in Word : IdAt(word[v])' = IdAt(word[v])
  BY <1>5, RootRefs
<1>7. BaseOf(interior[i])' = NewPlace(p) /\ interior'[i].offset = interior[i].offset
  <2>1. CASE p = Null
    BY <1>2, <2>1 DEF NewPlace, BaseOf
  <2>2. CASE p # Null
    <3>1. PICK n : n = NewPlace(p)
      OBVIOUS
    <3>2. n \in Addr
      BY <1>1, <1>2, <1>3, <2>2, <3>1, CopyPlace
    <3>3. interior' = [interior EXCEPT ![i] = Rebased(@, n)]
      BY <1>2, <2>2, <3>1
    <3>4. interior'[i] = Rebased(interior[i], n)
      BY <3>3 DEF IInv, TypeOK
    <3>5. /\ interior'[i].ptr = n + interior[i].offset
          /\ interior'[i].offset = interior[i].offset
      BY <1>3, <3>4 DEF Rebased, InteriorPointer
    <3>6. interior[i].offset \in Nat /\ n \in Nat
      BY <1>3, <3>2, Bounds DEF InteriorPointer, Addr
    <3>7. interior'[i].ptr # Null
      BY <3>5, <3>6, MarkerAssumption
    <3> QED
      BY <3>1, <3>5, <3>6, <3>7 DEF BaseOf
  <2> QED
    BY <2>1, <2>2
<1>8. ASSUME NEW j \in Interior
      PROVE  /\ IdAt(BaseOf(interior[j]))' = IdAt(BaseOf(interior[j]))
             /\ interior'[j].offset = interior[j].offset
  <2>1. PICK q : q = BaseOf(interior[j])'
    OBVIOUS
  <2>2. IdAt(q)' = IdAt(BaseOf(interior[j])) /\ interior'[j].offset = interior[j].offset
    <3>1. CASE j = i
      BY <1>2, <1>5, <1>7, <2>1, <3>1
    <3>2. CASE j # i
      <4>1. interior'[j] = interior[j]
        BY <3>2 DEF IInv, TypeOK
      <4>2. q = BaseOf(interior[j])
        BY <2>1, <4>1 DEF BaseOf
      <4>3. q \in FromRefs \cup CopyRefs
        BY <4>2, RootRefs
      <4> QED
        BY <1>5, <4>1, <4>2, <4>3
    <3> QED
      BY <3>1, <3>2
  <2> QED
    BY <2>1, <2>2 DEF IdAt
<1> QED
  BY <1>5, <1>6, <1>8, SameView

LEMMA ScanRefSeen ==
  ASSUME IInv, IInv', NEW o, ScanRef(o) PROVE UNCHANGED Heap!vars
<1> USE DEF ScanRef, Collecting, rootVars
<1>1. Copying /\ Copying' /\ phase = "scan"
  BY DEF Copying
<1>2. PICK p : p = ref[cursor + o]
  OBVIOUS
<1>3. /\ cursor \in Addr /\ ToObject(cursor) /\ IsObject(cursor) /\ p \in FromRefs
      /\ o \in RefOffsets[hdr[cursor].klass] /\ cursor + o \in Addr
  BY <1>1, <1>2, ScanPoint
<1>4. /\ RefAfterCopy(p) \in [Addr -> Pointer]
      /\ \A a \in Addr : IsObject(a) =>
           \A q \in RefOffsets[hdr[a].klass] : RefAfterCopy(p)[a + q] = ref[a + q]
  BY <1>1, <1>3, CopyWords
<1>5. \A x \in Addr : x # cursor + o => ref'[x] = RefAfterCopy(p)[x]
  BY <1>2, <1>4
<1>6. ASSUME NEW a \in Addr, FromObject(a), NEW q \in RefOffsets[hdr[a].klass]
      PROVE  ref'[a + q] = ref[a + q]
  <2>1. a # cursor /\ IsObject(a)
    BY <1>3, <1>6, Bounds DEF FromObject, ToObject, IInv, Parsable
  <2>2. a + q # cursor + o /\ a + q \in Addr
    BY <1>3, <2>1, DistinctWords, ObjectWord
  <2> QED
    BY <1>4, <1>5, <2>1, <2>2
<1>7. hdr' = HdrAfterCopy(p) /\ free' = FreeAfterCopy(p)
  BY <1>2
<1>8. /\ FullGraph' = FullGraph
      /\ \A q \in FromRefs \cup CopyRefs : IdAt(q)' = IdAt(q)
  BY <1>1, <1>3, <1>6, <1>7, CopySeen
<1>9. \A v \in Word : IdAt(word[v])' = IdAt(word[v])
  BY <1>8, RootRefs
<1>10. ASSUME NEW j \in Interior
       PROVE  /\ IdAt(BaseOf(interior[j]))' = IdAt(BaseOf(interior[j]))
              /\ interior'[j].offset = interior[j].offset
  <2>1. PICK q : q = BaseOf(interior[j]) /\ q = BaseOf(interior[j])'
    BY DEF BaseOf
  <2>2. IdAt(q)' = IdAt(q)
    BY <1>8, <2>1, RootRefs
  <2> QED
    BY <2>1, <2>2 DEF IdAt
<1> QED
  BY <1>8, <1>9, <1>10, SameView


\* Discarding from-space loses nothing the program can reach: every root leads to a
\* copy, and what a copy refers to has a copy.
LEMMA FinishSeen ==
  ASSUME IInv, IInv', FinishCollection
  PROVE  ViewHandle' = ViewHandle /\ ViewPlace' = ViewPlace /\ ViewGraph' = ViewGraph
<1> USE DEF rootVars
<1> DEFINE C == {hdr[x].id : x \in {y \in Addr : ToObject(y)}}
<1>1. /\ \A x \in Addr : ToObject(x) => /\ FromObject(x)' /\ IsObject(x)' /\ hdr'[x] = hdr[x]
                                        /\ IsObject(x)
      /\ \A x \in Addr : FromObject(x)' => ToObject(x) /\ hdr'[x] = hdr[x]
  BY FinishHeap DEF ToObject
<1>2. \A q \in CopyRefs : IdAt(q)' = IdAt(q)
  <2> TAKE q \in CopyRefs
  <2>1. CASE q = Null
    BY <2>1, MarkerAssumption DEF IdAt, Addr
  <2>2. CASE q # Null
    BY <1>1, <2>2 DEF CopyRefs, IdAt
  <2> QED
    BY <2>1, <2>2
<1>3. ASSUME NEW q \in CopyRefs, IdAt(q) \in Present PROVE IdAt(q) \in C
  <2>1. q # Null
    BY <1>3, ViewIsSound DEF ViewSound
  <2> QED
    BY <2>1 DEF CopyRefs, IdAt
<1>4. ASSUME NEW x \in Addr, ToObject(x)
      PROVE  /\ NodeAt(x)' = NodeAt(x)
             /\ \A o \in RefOffsets[hdr[x].klass] : ref[x + o] \in CopyRefs
  <2>1. \A o \in RefOffsets[hdr[x].klass] : ref'[x + o] = ref[x + o] /\ ref[x + o] \in CopyRefs
    BY <1>4, FinishHeap
  <2>2. ASSUME NEW o \in RefOffsets[hdr[x].klass]
        PROVE  IdAt(ref[x + o])' = IdAt(ref[x + o])
    <3>1. PICK q : q = ref[x + o] /\ q = ref'[x + o] /\ q \in CopyRefs
      BY <2>1
    <3> QED
      BY <1>2, <3>1 DEF IdAt
  <2> QED
    BY <1>1, <1>4, <2>1, <2>2 DEF NodeAt
<1>5. Present' = C
  <2>1. ASSUME NEW i \in Present' PROVE i \in C
    <3>1. PICK x \in Addr : FromObject(x)' /\ hdr'[x].id = i
      BY ViewIsSoundNext DEF ViewSound
    <3> QED
      BY <1>1, <3>1
  <2>2. \A x \in Addr : ToObject(x) => hdr[x].id \in Present'
    BY <1>1, ViewIsSoundNext DEF ViewSound
  <2> QED
    BY <2>1, <2>2
<1>6. C \subseteq Present
  BY <1>1, ViewIsSound DEF ViewSound
<1>7. DOMAIN FullGraph = Present /\ DOMAIN FullGraph' = C
  BY <1>5 DEF FullGraph
<1>8. \A i \in C : FullGraph'[i] = FullGraph[i]
  <2> TAKE i \in C
  <2>1. PICK x \in Addr : ToObject(x) /\ hdr[x].id = i
    OBVIOUS
  <2>2. FullGraph[i] = NodeAt(x)
    BY <1>1, <2>1, ViewIsSound DEF ViewSound
  <2>3. FullGraph'[i] = NodeAt(x)'
    BY <1>1, <2>1, ViewIsSoundNext DEF ViewSound
  <2> QED
    BY <1>4, <2>1, <2>2, <2>3
<1>9. Follows(FullGraph, C)
  <2> SUFFICES ASSUME NEW i \in C, NEW j \in Successors(FullGraph, i) \cap Present
               PROVE  j \in C
    BY <1>7 DEF Follows
  <2>1. PICK x \in Addr : ToObject(x) /\ hdr[x].id = i
    OBVIOUS
  <2>2. FullGraph[i] = NodeAt(x)
    BY <1>1, <2>1, ViewIsSound DEF ViewSound
  <2>3. PICK o \in RefOffsets[hdr[x].klass] : j = IdAt(ref[x + o])
    BY <2>2 DEF Successors, NodeAt
  <2> QED
    BY <1>3, <1>4, <2>1, <2>3
<1>10. Follows(FullGraph', C)
  BY <1>7 DEF Follows
<1>11. /\ \A w \in Word : word[w] \in CopyRefs /\ word'[w] = word[w]
       /\ \A n \in Interior : BaseOf(interior[n]) \in CopyRefs /\ interior'[n] = interior[n]
  BY FinishHeap, CopyingRoots DEF FinishCollection
<1>12. ViewHandle' = ViewHandle
  BY <1>2, <1>11 DEF ViewHandle, IdAt
<1>13. ViewPlace' = ViewPlace
  <2>1. ASSUME NEW n \in Interior
        PROVE  IdAt(BaseOf(interior[n]))' = IdAt(BaseOf(interior[n]))
    <3>1. PICK q : q = BaseOf(interior[n]) /\ q = BaseOf(interior[n])'
      BY <1>11 DEF BaseOf
    <3> QED
      BY <1>2, <1>11, <3>1 DEF IdAt
  <2> QED
    BY <1>11, <2>1 DEF ViewPlace
<1>14. ViewRoots' = ViewRoots
  BY <1>12, <1>13 DEF ViewRoots
<1>15. ViewRoots \cap Present \subseteq C
  BY <1>3, <1>11 DEF ViewRoots, ViewHandle, ViewPlace
<1> HIDE DEF C
<1>16. Reached(FullGraph', ViewRoots) = Reached(FullGraph, ViewRoots)
  <2> PICK g : g = FullGraph'
    OBVIOUS
  <2>1. /\ C \subseteq DOMAIN g /\ C \subseteq DOMAIN FullGraph
        /\ ViewRoots \cap DOMAIN g \subseteq C /\ ViewRoots \cap DOMAIN FullGraph \subseteq C
        /\ Follows(g, C) /\ \A i \in C : g[i] = FullGraph[i]
    BY <1>6, <1>7, <1>8, <1>10, <1>15
  <2>2. Reached(g, ViewRoots) = Reached(FullGraph, ViewRoots)
    BY <1>9, <2>1, ReachedSame
  <2> QED
    BY <2>2
<1> QED
  BY <1>12, <1>13, <1>14, <1>16 DEF ViewGraph

-----------------------------------------------------------------------------
(***************************************************************************)
(* The clients. What they do to the graph they do to the part they reach.  *)
(***************************************************************************)
\* The instance has the operators of this module.
LEMMA InstanceGraph ==
  /\ \A g, S : Heap!Reached(g, S) = Reached(g, S)
  /\ \A h, p : Heap!Roots(h, p) = {h[w] : w \in Word} \cup {p[i].base : i \in Interior}
BY DEF Heap!Reached, Heap!Closure, Heap!Spanned, Heap!Drawing, Heap!Successors,
       Reached, Closure, Spanned, Drawing, Successors, Heap!Roots

\* What AbstractHeap keeps of a graph h is the graph seen afterwards, if h has the
\* objects reached of it.
LEMMA KeepGraph ==
  ASSUME NEW h, NEW C, C \subseteq DOMAIN FullGraph', C \subseteq DOMAIN h,
         ViewRoots' \cap DOMAIN FullGraph' \subseteq C, ViewRoots' \cap DOMAIN h \subseteq C,
         Follows(FullGraph', C), Follows(h, C), \A i \in C : FullGraph'[i] = h[i]
  PROVE  Heap!Keep(h)
<1> PICK g : g = FullGraph'
  OBVIOUS
<1> PICK R : R = ViewRoots'
  OBVIOUS
<1>1. Reached(g, R) = Reached(h, R)
  BY ReachedSame
<1>2. Heap!Roots(ViewHandle', ViewPlace') = R
  BY InstanceGraph DEF ViewRoots
<1>3. ViewGraph' = Reached(h, R)
  BY <1>1 DEF ViewGraph
<1> QED
  BY <1>2, <1>3, InstanceGraph DEF Heap!Keep

\* The graph that is seen: its objects, and where they lead.
LEMMA SeenGraph ==
  ASSUME IInv
  PROVE  /\ DOMAIN ViewGraph \subseteq DOMAIN FullGraph /\ DOMAIN FullGraph = Present
         /\ Follows(FullGraph, DOMAIN ViewGraph) /\ Follows(ViewGraph, DOMAIN ViewGraph)
         /\ \A i \in DOMAIN ViewGraph : ViewGraph[i] = FullGraph[i]
         /\ ViewRoots \cap DOMAIN FullGraph \subseteq DOMAIN ViewGraph
         /\ Null \notin DOMAIN FullGraph
<1>1. ViewGraph = [i \in Closure(FullGraph, ViewRoots) |-> FullGraph[i]]
  BY DEF ViewGraph, Reached
<1>2. DOMAIN ViewGraph = Closure(FullGraph, ViewRoots)
  BY <1>1
<1>3. DOMAIN FullGraph = Present
  BY DEF FullGraph
<1>4. Follows(ViewGraph, DOMAIN ViewGraph)
  BY DEF Follows
<1> QED
  BY <1>1, <1>2, <1>3, <1>4, ClosureHolds, ViewIsSound DEF ViewSound

\* A step that changes roots only, to what is seen already, keeps the graph.
LEMMA KeepRoots ==
  ASSUME IInv, FullGraph' = FullGraph,
         ViewRoots' \cap DOMAIN FullGraph \subseteq DOMAIN ViewGraph
  PROVE  Heap!Keep(ViewGraph)
<1>1. PICK h : h = ViewGraph
  OBVIOUS
<1>2. PICK C : C = DOMAIN ViewGraph
  OBVIOUS
<1>3. /\ C \subseteq DOMAIN FullGraph' /\ C \subseteq DOMAIN h
      /\ ViewRoots' \cap DOMAIN FullGraph' \subseteq C /\ ViewRoots' \cap DOMAIN h \subseteq C
      /\ Follows(FullGraph', C) /\ Follows(h, C) /\ \A i \in C : FullGraph'[i] = h[i]
  BY <1>1, <1>2, SeenGraph
<1>4. Heap!Keep(h)
  BY <1>3, KeepGraph
<1> QED
  BY <1>1, <1>4


\* Between collections a step that leaves the objects alone leaves the graph alone.
LEMMA ClientGraph ==
  ASSUME IInv, IInv', Mutating, ~Copying', UNCHANGED <<ref, from, free>>,
         \A a \in Addr : hdr'[a].klass = hdr[a].klass /\ hdr'[a].id = hdr[a].id
  PROVE  FullGraph' = FullGraph /\ \A q \in FromRefs : IdAt(q)' = IdAt(q)
<1>1. \A a \in Addr : FromObject(a)' <=> FromObject(a)
  BY DEF Mutating, Copying, FromObject, IsObject, FromEnd
<1> QED
  BY <1>1, SameGraph

\* An object a root leads to is seen, with its fields and what they lead to.
LEMMA RootNode ==
  ASSUME IInv, Mutating, NEW q, q \in FromRefs, q # Null, IdAt(q) \in ViewRoots
  PROVE  /\ q \in Addr /\ FromObject(q) /\ IdAt(q) = hdr[q].id /\ IdAt(q) # Null
         /\ IdAt(q) \in DOMAIN ViewGraph /\ ViewGraph[IdAt(q)] = NodeAt(q)
         /\ DOMAIN NodeAt(q).fields = RefOffsets[hdr[q].klass]
         /\ \A o \in RefOffsets[hdr[q].klass] :
              /\ NodeAt(q).fields[o] = IdAt(ref[q + o])
              /\ ref[q + o] \in FromRefs
              /\ ref[q + o] # Null => IdAt(ref[q + o]) \in DOMAIN ViewGraph
<1>1. q \in Addr /\ FromObject(q) /\ IsObject(q)
  BY DEF FromRefs, FromObject
<1>2. IdAt(q) = hdr[q].id /\ IdAt(q) \in Present /\ FullGraph[IdAt(q)] = NodeAt(q)
      /\ IdAt(q) # Null
  BY <1>1, ViewIsSound, IdAssumption DEF ViewSound, IdAt
<1>3. IdAt(q) \in DOMAIN ViewGraph /\ ViewGraph[IdAt(q)] = NodeAt(q)
  BY <1>2, SeenGraph
<1>4. ASSUME NEW o \in RefOffsets[hdr[q].klass]
      PROVE  /\ NodeAt(q).fields[o] = IdAt(ref[q + o])
             /\ ref[q + o] \in FromRefs
             /\ ref[q + o] # Null => IdAt(ref[q + o]) \in DOMAIN ViewGraph
  <2>1. NodeAt(q).fields[o] = IdAt(ref[q + o]) /\ o \in DOMAIN NodeAt(q).fields
    BY DEF NodeAt
  <2>2. ref[q + o] \in FromRefs
    BY <1>1, Settled
  <2>3. ASSUME ref[q + o] # Null PROVE IdAt(ref[q + o]) \in DOMAIN ViewGraph
    <3>1. IdAt(ref[q + o]) \in DOMAIN FullGraph
      BY <2>2, <2>3, IdOfRef DEF FullGraph
    <3>2. IdAt(ref[q + o]) \in Successors(FullGraph, IdAt(q))
      BY <1>2, <2>1 DEF Successors
    <3> QED
      BY <1>3, <3>1, <3>2, SeenGraph DEF Follows
  <2> QED
    BY <2>1, <2>2, <2>3
<1>5. DOMAIN NodeAt(q).fields = RefOffsets[hdr[q].klass]
  BY DEF NodeAt
<1> QED
  BY <1>1, <1>2, <1>3, <1>4, <1>5

\* The roots denote what is in the set of roots.
LEMMA RootsSeen ==
  /\ \A w \in Word : IdAt(word[w]) \in ViewRoots /\ ViewHandle[w] = IdAt(word[w])
  /\ \A i \in Interior : /\ IdAt(BaseOf(interior[i])) \in ViewRoots
                         /\ ViewPlace[i].base = IdAt(BaseOf(interior[i]))
                         /\ ViewPlace[i].offset = interior[i].offset
BY DEF ViewRoots, ViewHandle, ViewPlace

\* Giving a word a reference to what is seen already.
LEMMA GiveSeen ==
  ASSUME IInv, IInv', Mutating, NEW v \in Word \ rooted, NEW p, p \in FromRefs,
         p # Null => IdAt(p) \in DOMAIN ViewGraph,
         word' = [word EXCEPT ![v] = p], rooted' = rooted \cup {v},
         UNCHANGED <<heapVars, gcVars, status, interior>>
  PROVE  Heap!Take(v, IdAt(p)) /\ Heap!Keep(ViewGraph)
<1> USE DEF heapVars, gcVars
<1>1. FullGraph' = FullGraph /\ \A q \in FromRefs : IdAt(q)' = IdAt(q)
  BY ClientGraph DEF Copying, Mutating
<1>2. /\ word'[v] = p /\ \A w \in Word \ {v} : word'[w] = word[w]
      /\ \A w \in Word : word[w] \in FromRefs
      /\ \A i \in Interior : BaseOf(interior[i]) \in FromRefs
  BY Settled DEF IInv, TypeOK
<1>3. ViewHandle' = [ViewHandle EXCEPT ![v] = IdAt(p)]
  <2>1. ASSUME NEW w \in Word PROVE IdAt(word[w])' = IF w = v THEN IdAt(p) ELSE IdAt(word[w])
    <3>1. PICK q : q = word'[w]
      OBVIOUS
    <3>2. IdAt(q)' = IdAt(q) /\ q = IF w = v THEN p ELSE word[w]
      BY <1>1, <1>2, <3>1
    <3> QED
      BY <3>1, <3>2 DEF IdAt
  <2> QED
    BY <2>1 DEF ViewHandle
<1>4. ViewPlace' = ViewPlace
  <2>1. ASSUME NEW i \in Interior PROVE IdAt(BaseOf(interior[i]))' = IdAt(BaseOf(interior[i]))
    <3>1. PICK q : q = BaseOf(interior[i]) /\ q = BaseOf(interior[i])'
      BY DEF BaseOf
    <3> QED
      BY <1>1, <1>2, <3>1 DEF IdAt
  <2> QED
    BY <2>1 DEF ViewPlace
<1>5. ViewRoots' \subseteq ViewRoots \cup {IdAt(p)}
  BY <1>3, <1>4 DEF ViewRoots, ViewHandle
<1>6. ViewRoots' \cap DOMAIN FullGraph \subseteq DOMAIN ViewGraph
  <2>1. p = Null => IdAt(p) \notin DOMAIN FullGraph
    BY SeenGraph, IdOfRef
  <2> QED
    BY <1>5, <2>1, SeenGraph
<1>7. Heap!Keep(ViewGraph)
  BY <1>1, <1>6, KeepRoots
<1>8. Heap!Take(v, IdAt(p))
  BY <1>3, <1>4 DEF Heap!Take, Mutating
<1> QED
  BY <1>7, <1>8

LEMMA CopyRefSeen ==
  ASSUME IInv, IInv', NEW w \in Word, NEW v \in Word, CopyRef(w, v)
  PROVE  Heap!Copy(w, v)
<1> USE DEF CopyRef
<1>1. PICK p : p = word[w]
  OBVIOUS
<1>2. p \in FromRefs
  BY <1>1, Settled
<1>3. p # Null => IdAt(p) \in DOMAIN ViewGraph
  BY <1>1, <1>2, RootNode, RootsSeen
<1>4. Heap!Take(v, IdAt(p)) /\ Heap!Keep(ViewGraph)
  BY <1>1, <1>2, <1>3, GiveSeen
<1> QED
  BY <1>1, <1>4, RootsSeen DEF Heap!Copy

LEMMA LoadFieldSeen ==
  ASSUME IInv, IInv', NEW w \in Word, NEW v \in Word, NEW o, LoadField(w, o, v)
  PROVE  Heap!Load(w, o, v)
<1> USE DEF LoadField, FieldAt
<1>1. PICK q : q = word[w]
  OBVIOUS
<1>2. q \in FromRefs /\ q # Null /\ IdAt(q) \in ViewRoots /\ ViewHandle[w] = IdAt(q)
  BY <1>1, Settled, RootsSeen
<1>3. PICK p : p = ref[q + o]
  OBVIOUS
<1>4. /\ IdAt(q) # Null /\ ViewGraph[IdAt(q)] = NodeAt(q)
      /\ o \in DOMAIN NodeAt(q).fields /\ NodeAt(q).fields[o] = IdAt(p)
      /\ p \in FromRefs /\ (p # Null => IdAt(p) \in DOMAIN ViewGraph)
  BY <1>1, <1>2, <1>3, RootNode
<1> HIDE DEF FieldAt
<1>5. word' = [word EXCEPT ![v] = p]
  BY <1>1, <1>3
<1>6. Heap!Take(v, IdAt(p)) /\ Heap!Keep(ViewGraph)
  BY <1>4, <1>5, GiveSeen
<1> QED
  BY <1>2, <1>4, <1>6 DEF Heap!Load, Heap!HasField

\* An interior pointer that is not null points at a field of an object.
LEMMA InteriorNode ==
  ASSUME IInv, Mutating, NEW i \in Interior, interior[i].ptr # Null
  PROVE  LET q == BaseOf(interior[i]) IN
         /\ q \in FromRefs /\ q # Null /\ q \in Addr /\ FromObject(q)
         /\ interior[i].offset \in RefOffsets[hdr[q].klass]
         /\ interior[i].ptr = q + interior[i].offset
<1>1. interior[i].ptr \in Int /\ interior[i].offset \in Int
  BY DEF IInv, TypeOK, InteriorPointer, Pointer, Addr
<1>2. /\ BaseOf(interior[i]) = interior[i].ptr - interior[i].offset
      /\ BaseOf(interior[i]) \in Int
  BY <1>1 DEF BaseOf
<1>3. BaseOf(interior[i]) # Null
  BY <1>2, MarkerAssumption
<1> QED
  BY <1>1, <1>2, <1>3, Settled DEF FromRefs

LEMMA LoadInteriorSeen ==
  ASSUME IInv, IInv', NEW i \in Interior, NEW v \in Word, LoadInterior(i, v)
  PROVE  Heap!LoadThrough(i, v)
<1> USE DEF LoadInterior
<1>1. PICK q : q = BaseOf(interior[i])
  OBVIOUS
<1>2. PICK o : o = interior[i].offset
  OBVIOUS
<1>3. /\ q \in FromRefs /\ q # Null /\ o \in RefOffsets[hdr[q].klass]
      /\ interior[i].ptr = q + o
  BY <1>1, <1>2, InteriorNode
<1>4. /\ IdAt(q) \in ViewRoots /\ ViewPlace[i].base = IdAt(q) /\ ViewPlace[i].offset = o
  BY <1>1, <1>2, RootsSeen
<1>5. PICK p : p = ref[q + o]
  OBVIOUS
<1>6. /\ IdAt(q) # Null /\ ViewGraph[IdAt(q)] = NodeAt(q)
      /\ o \in DOMAIN NodeAt(q).fields /\ NodeAt(q).fields[o] = IdAt(p)
      /\ p \in FromRefs /\ (p # Null => IdAt(p) \in DOMAIN ViewGraph)
  BY <1>3, <1>4, <1>5, RootNode
<1>7. word' = [word EXCEPT ![v] = p]
  BY <1>3, <1>5
<1>8. Heap!Take(v, IdAt(p)) /\ Heap!Keep(ViewGraph)
  BY <1>6, <1>7, GiveSeen
<1> QED
  BY <1>4, <1>6, <1>8 DEF Heap!LoadThrough, Heap!HasField

\* Storing a root in a field of an object a root leads to.
\* The fields lost get a reference to the object itself.
LEMMA PutSeen ==
  ASSUME IInv, IInv', Mutating, NEW q, q \in FromRefs, q # Null, IdAt(q) \in ViewRoots,
         NEW o, o \in RefOffsets[hdr[q].klass], NEW v \in Word \cap rooted, NEW lost,
         \A a \in Addr : IsObject(a) => \A p \in RefOffsets[hdr[a].klass] :
           ref'[a + p] = IF a = q /\ p = o THEN word[v]
                         ELSE IF a = q /\ p \in lost THEN q ELSE ref[a + p],
         \A a \in Addr : IsObject(a) \/ IsObject(a)' => hdr'[a] = hdr[a],
         UNCHANGED <<from, to, free, gcVars, status, rootVars>>
  PROVE  Heap!Put(IdAt(q), o, v, lost)
<1> USE DEF gcVars, rootVars
<1> DEFINE new(p) == IF p = o THEN ViewHandle[v] ELSE IF p \in lost THEN IdAt(q)
                     ELSE NodeAt(q).fields[p]
           h == [ViewGraph EXCEPT ![IdAt(q)].fields =
                   [p \in DOMAIN @ |-> IF p = o THEN ViewHandle[v]
                                       ELSE IF p \in lost THEN IdAt(q) ELSE @[p]]]
           C == DOMAIN ViewGraph
<1>1. /\ q \in Addr /\ FromObject(q) /\ IsObject(q) /\ IdAt(q) = hdr[q].id
      /\ IdAt(q) # Null /\ IdAt(q) \in C /\ ViewGraph[IdAt(q)] = NodeAt(q)
      /\ DOMAIN NodeAt(q).fields = RefOffsets[hdr[q].klass]
  BY RootNode DEF FromObject
<1>2. ViewHandle[v] = IdAt(word[v]) /\ ViewHandle[v] \in ViewRoots
  BY RootsSeen
<1>0. \A a \in Addr : /\ IsObject(a)' <=> IsObject(a)
                      /\ IsObject(a) => hdr'[a] = hdr[a]
  BY DEF IsObject
<1>3. \A x \in FromRefs : IdAt(x)' = IdAt(x)
  BY <1>0, SameId
<1>4. ViewHandle' = ViewHandle /\ ViewPlace' = ViewPlace /\ ViewRoots' = ViewRoots
  <2>1. \A w \in Word : IdAt(word[w])' = IdAt(word[w])
    BY Settled, <1>3 DEF IdAt
  <2>2. \A i \in Interior : IdAt(BaseOf(interior[i]))' = IdAt(BaseOf(interior[i]))
    <3> TAKE i \in Interior
    <3>1. PICK x : x = BaseOf(interior[i])
      OBVIOUS
    <3>2. BaseOf(interior[i])' = x /\ x \in FromRefs
      BY <3>1, Settled DEF BaseOf
    <3>3. IdAt(x)' = IdAt(x)
      BY <3>2, <1>3
    <3> QED
      BY <3>1, <3>2, <3>3 DEF IdAt
  <2>3. ViewHandle' = ViewHandle /\ ViewPlace' = ViewPlace
    BY <2>1, <2>2 DEF ViewHandle, ViewPlace
  <2> QED
    BY <2>3 DEF ViewRoots
<1>5. Present' = Present
  BY <1>0 DEF Present
<1>6. ASSUME NEW a \in Addr, IsObject(a)
      PROVE  /\ NodeAt(a)'.klass = NodeAt(a).klass
             /\ a # q => NodeAt(a)' = NodeAt(a)
             /\ a = q => NodeAt(a)' = [NodeAt(a) EXCEPT !.fields = [p \in DOMAIN @ |-> new(p)]]
  <2>1. hdr'[a] = hdr[a]
    BY <1>0, <1>6
  <2>2. ASSUME NEW p \in RefOffsets[hdr[a].klass]
        PROVE  IdAt(ref[a + p])' = IF a = q THEN new(p) ELSE IdAt(ref[a + p])
    <3>1. PICK x : x = ref'[a + p]
      OBVIOUS
    <3>2. x = IF a = q /\ p = o THEN word[v]
              ELSE IF a = q /\ p \in lost THEN q ELSE ref[a + p]
      BY <1>6, <3>1
    <3>3. word[v] \in FromRefs /\ q \in FromRefs /\ ref[a + p] \in FromRefs
      <4>1. FromObject(a)
        BY <1>6 DEF Mutating, FromObject, IInv, Parsable, InUse, Copying
      <4> QED
        BY <4>1, Settled
    <3>4. IdAt(x)' = IdAt(x)
      BY <1>3, <3>2, <3>3
    <3>5. a = q => NodeAt(q).fields[p] = IdAt(ref[a + p])
      BY DEF NodeAt
    <3>6. IdAt(x) = IF a = q THEN new(p) ELSE IdAt(ref[a + p])
      BY <1>2, <3>2, <3>5
    <3> QED
      BY <3>1, <3>4, <3>6 DEF IdAt
  <2> HIDE DEF new
  <2>3. NodeAt(a)' = [klass |-> hdr[a].klass,
                      fields |-> [p \in RefOffsets[hdr[a].klass] |->
                                    IF a = q THEN new(p) ELSE IdAt(ref[a + p])]]
    BY <2>1, <2>2 DEF NodeAt
  <2> QED
    BY <2>3 DEF NodeAt
<1>7. \A i \in Present : i # IdAt(q) => FullGraph'[i] = FullGraph[i]
  <2> SUFFICES ASSUME NEW i \in Present, i # IdAt(q) PROVE FullGraph'[i] = FullGraph[i]
    OBVIOUS
  <2>1. PICK a \in Addr : FromObject(a) /\ hdr[a].id = i
    BY ViewIsSound DEF ViewSound
  <2>2. IsObject(a) /\ IsObject(a)' /\ hdr'[a].id = i /\ a # q
    BY <1>0, <1>1, <2>1 DEF FromObject
  <2> QED
    BY <1>6, <2>1, <2>2, ViewIsSound, ViewIsSoundNext DEF ViewSound
<1>8. FullGraph'[IdAt(q)] = [NodeAt(q) EXCEPT !.fields = [p \in DOMAIN @ |-> new(p)]]
  <2>1. IsObject(q)' /\ hdr'[q].id = IdAt(q)
    BY <1>0, <1>1
  <2> QED
    BY <1>1, <1>6, <2>1, ViewIsSoundNext DEF ViewSound
<1>9. DOMAIN h = C /\ \A i \in C : FullGraph'[i] = h[i]
  <2>1. DOMAIN h = C /\ \A i \in C : i # IdAt(q) => h[i] = ViewGraph[i]
    OBVIOUS
  <2>2. h[IdAt(q)] = [NodeAt(q) EXCEPT !.fields = [p \in DOMAIN @ |-> new(p)]]
    BY <1>1
  <2> HIDE DEF h
  <2> QED
    BY <1>1, <1>7, <1>8, <2>1, <2>2, SeenGraph
<1> HIDE DEF h
<1>10. Follows(h, C)
  BY <1>9 DEF Follows
<1>11. DOMAIN FullGraph' = Present /\ C \subseteq Present
  BY <1>5, SeenGraph DEF FullGraph
<1>12. Follows(FullGraph', C)
  <2> SUFFICES ASSUME NEW i \in C, NEW j \in Successors(FullGraph, i)', j \in Present
               PROVE  j \in C
    BY <1>11 DEF Follows, Successors
  <2>1. CASE i = IdAt(q)
    <3>1. FullGraph'[i] = [NodeAt(q) EXCEPT !.fields = [p \in DOMAIN @ |-> new(p)]]
      BY <1>8, <2>1
    <3>2. PICK p \in RefOffsets[hdr[q].klass] : j = FullGraph'[i].fields[p]
      BY <3>1, <1>1 DEF Successors, NodeAt
    <3>3. j = ViewHandle[v] \/ j = IdAt(q) \/ j = NodeAt(q).fields[p]
      BY <3>1, <3>2 DEF NodeAt
    <3>6. CASE j = IdAt(q)
      BY <1>1, <3>6
    <3>4. CASE j = ViewHandle[v]
      BY <1>2, <3>4, SeenGraph
    <3>5. CASE j = NodeAt(q).fields[p]
      <4>1. j \in Successors(FullGraph, i)
        BY <1>1, <2>1, <3>5, SeenGraph DEF Successors
      <4> QED
        BY <4>1, SeenGraph DEF Follows
    <3> QED
      BY <3>3, <3>4, <3>5, <3>6
  <2>2. CASE i # IdAt(q)
    <3>1. j \in Successors(FullGraph, i)
      BY <1>7, <1>11, <2>2 DEF Successors
    <3> QED
      BY <3>1, SeenGraph DEF Follows
  <2> QED
    BY <2>1, <2>2
<1> HIDE DEF C
<1>13. Heap!Keep(h)
  <2>1. /\ C \subseteq DOMAIN FullGraph' /\ C \subseteq DOMAIN h
        /\ ViewRoots' \cap DOMAIN FullGraph' \subseteq C
        /\ ViewRoots' \cap DOMAIN h \subseteq C
    BY <1>4, <1>9, <1>11, SeenGraph DEF C
  <2> QED
    BY <1>9, <1>10, <1>12, <2>1, KeepGraph
<1> QED
  BY <1>1, <1>4, <1>13 DEF h, Heap!Put, Heap!HasField, Mutating

\* A store into a field: the value goes into the field, and the word behind it may
\* be a field, too, which then leads to the object itself.
LEMMA StoreFieldSeen ==
  ASSUME IInv, IInv', NEW w \in Word, NEW v \in Word, NEW o, StoreField(w, o, v), Intact'
  PROVE  Heap!Store(w, o, v)
<1>1. PICK q : q = word[w]
  OBVIOUS
<1>2. q \in FromRefs /\ q # Null /\ IdAt(q) \in ViewRoots /\ ViewHandle[w] = IdAt(q)
      /\ o \in RefOffsets[hdr[q].klass] /\ Mutating
  BY <1>1, Settled, RootsSeen DEF StoreField, FieldAt
<1>3. /\ q \in Addr /\ FromObject(q) /\ IsObject(q) /\ Harmless(q, o)
      /\ status' = status /\ ~Copying
  BY <1>1, <1>2 DEF FromRefs, FromObject, StoreField, Intact, Mutating, Copying
<1> DEFINE lost == {o + 1} \cap {x - q : x \in RunOver(q, o)}
<1>4. ASSUME NEW a \in Addr, IsObject(a), NEW p \in RefOffsets[hdr[a].klass]
      PROVE  ref'[a + p] = IF a = q /\ p = o THEN word[v]
                           ELSE IF a = q /\ p \in lost THEN q ELSE ref[a + p]
  <2>1. /\ a + p \in Addr /\ p \in Nat /\ o \in Nat /\ 0 < p /\ p < SizeOf(a)
        /\ a + SizeOf(a) <= free /\ SizeOf(a) \in Nat /\ SizeOf(q) \in Nat
    <3>1. a + SizeOf(a) <= free
      BY <1>3, <1>4 DEF IInv, Parsable, InUse, FromEnd, Tiled
    <3> QED
      BY <1>2, <1>3, <1>4, <3>1, ObjectWord, SizeType, KlassAssumption DEF IsObject, SizeOf
  <2>2. ref'[a + p] = IF a + p = q + o THEN word[v]
                      ELSE IF a + p \notin RunOver(q, o) THEN ref[a + p]
                      ELSE IF a + p = q + o + 1 THEN q ELSE Null
    BY <1>1, <2>1 DEF StoreField
  <2>3. a + p = q + o => a = q /\ p = o
    BY <1>2, <1>3, <1>4, DistinctWords
  <2>4. ASSUME a + p \in RunOver(q, o) PROVE a = q /\ p = o + 1
    <3>1. /\ q + o < a + p
          /\ q + SizeOf(q) <= a + p => free <= a + p
          /\ a + p < q + SizeOf(q) => a + p = q + o + 1 \/ (a + p) - q \notin RefOffsets[hdr[q].klass]
      BY <1>2, <1>3, <2>4, RunOverHarmless
    <3>2. free \in Nat /\ a + p < q + SizeOf(q)
      BY <1>3, <2>1, <3>1, SizeAssumption DEF IInv, TypeOK, Addr
    <3>3. a = q
      <4>1. ~(a < q /\ q < a + SizeOf(a)) /\ ~(q < a /\ a < q + SizeOf(q))
        BY <1>3, <1>4 DEF IInv, Parsable, InUse, FromEnd, Tiled
      <4> QED
        BY <1>3, <2>1, <3>1, <3>2, <4>1 DEF Addr
    <3>4. (a + p) - q = p
      BY <2>1, <3>3 DEF Addr
    <3> QED
      BY <1>4, <2>1, <3>1, <3>2, <3>3, <3>4 DEF Addr
  <2>5. a = q /\ p \in lost => a + p \in RunOver(q, o) /\ a + p = q + o + 1
    <3> SUFFICES ASSUME a = q, p \in lost
                 PROVE  a + p \in RunOver(q, o) /\ a + p = q + o + 1
      OBVIOUS
    <3>1. PICK x \in RunOver(q, o) : p = x - q
      OBVIOUS
    <3>2. x \in Int
      BY DEF RunOver
    <3> QED
      BY <1>3, <2>1, <3>1, <3>2 DEF Addr
  <2>6. a + p \in RunOver(q, o) => p \in lost
    <3> SUFFICES ASSUME a + p \in RunOver(q, o) PROVE p \in lost
      OBVIOUS
    <3>1. a = q /\ p = o + 1 /\ p = (a + p) - q
      BY <2>1, <2>4 DEF Addr
    <3> QED
      BY <3>1
  <2> HIDE DEF lost
  <2> QED
    BY <2>1, <2>2, <2>3, <2>4, <2>5, <2>6
<1>5. \A a \in Addr : IsObject(a) \/ IsObject(a)' => hdr'[a] = hdr[a]
  BY StoredHeaders
<1>6. v \in Word \cap rooted /\ w \in rooted
      /\ UNCHANGED <<from, to, free, gcVars, status, rootVars>>
  BY <1>3 DEF StoreField
<1>7. lost \in SUBSET {o + 1}
  OBVIOUS
<1> HIDE DEF lost
<1>8. Heap!Put(IdAt(q), o, v, lost)
  BY <1>2, <1>4, <1>5, <1>6, PutSeen
<1> QED
  BY <1>2, <1>6, <1>7, <1>8 DEF Heap!Store

\* A store that runs over memory in use: the program is promised nothing more.
LEMMA OverrunSeen ==
  ASSUME IInv, NEW w \in Word, NEW v \in Word, NEW o, StoreField(w, o, v), ~Intact'
  PROVE  Heap!Overrun(w, o, v)
<1>1. PICK q : q = word[w]
  OBVIOUS
<1>2. q \in FromRefs /\ q # Null /\ IdAt(q) \in ViewRoots /\ ViewHandle[w] = IdAt(q)
      /\ o \in RefOffsets[hdr[q].klass] /\ Mutating
  BY <1>1, Settled, RootsSeen DEF StoreField, FieldAt
<1>3. Heap!HasField(ViewHandle[w], o)
  BY <1>2, RootNode DEF Heap!HasField
<1>4. /\ status = "running" /\ status' # "running" /\ rooted' = rooted
      /\ {w, v} \subseteq rooted \cap Word
  BY DEF StoreField, Mutating, Intact, rootVars
<1> QED
  BY <1>3, <1>4 DEF Heap!Overrun

LEMMA StoreInteriorSeen ==
  ASSUME IInv, IInv', NEW i \in Interior, NEW v \in Word, StoreInterior(i, v)
  PROVE  Heap!StoreThrough(i, v)
<1>1. PICK q : q = BaseOf(interior[i])
  OBVIOUS
<1>2. PICK o : o = interior[i].offset
  OBVIOUS
<1>3. Mutating /\ v \in Word \cap rooted /\ ref' = [ref EXCEPT ![interior[i].ptr] = word[v]]
      /\ UNCHANGED <<hdr, from, to, free, gcVars, status, rootVars>>
  BY DEF StoreInterior
<1>4. /\ q \in FromRefs /\ q # Null /\ o \in RefOffsets[hdr[q].klass]
      /\ interior[i].ptr = q + o
  BY <1>1, <1>2, InteriorNode DEF StoreInterior
<1>5. /\ IdAt(q) \in ViewRoots /\ ViewPlace[i].base = IdAt(q) /\ ViewPlace[i].offset = o
  BY <1>1, <1>2, RootsSeen
<1>6. ASSUME NEW a \in Addr, IsObject(a), NEW p \in RefOffsets[hdr[a].klass]
      PROVE  ref'[a + p] = IF a = q /\ p = o THEN word[v]
                           ELSE IF a = q /\ p \in {} THEN q ELSE ref[a + p]
  <2>1. a + p \in Addr /\ q \in Addr /\ IsObject(q) /\ ref \in [Addr -> Pointer]
    BY <1>4, <1>6, ObjectWord DEF FromRefs, FromObject, IInv, TypeOK
  <2>2. a + p = q + o => a = q /\ p = o
    BY <1>4, <1>6, <2>1, DistinctWords
  <2> QED
    BY <1>3, <1>4, <2>1, <2>2
<1>7. Heap!Put(IdAt(q), o, v, {})
  BY <1>3, <1>4, <1>5, <1>6, PutSeen
<1> QED
  BY <1>5, <1>7 DEF Heap!StoreThrough, StoreInterior

\* Giving an interior pointer a place in what is seen already, or in nothing.
LEMMA PointSeen ==
  ASSUME IInv, IInv', Mutating, NEW i \in Interior \ rooted, NEW p,
         BaseOf(p) \in FromRefs, IdAt(BaseOf(p)) \in ViewRoots \cup {Null},
         interior'[i] = p, \A j \in Interior \ {i} : interior'[j] = interior[j],
         rooted' = rooted \cup {i},
         UNCHANGED <<heapVars, gcVars, status, word>>
  PROVE  Heap!Point(i, [base |-> IdAt(BaseOf(p)), offset |-> p.offset])
<1> USE DEF heapVars, gcVars
<1>1. FullGraph' = FullGraph /\ \A q \in FromRefs : IdAt(q)' = IdAt(q)
  BY ClientGraph DEF Copying, Mutating
<1>2. ViewHandle' = ViewHandle
  BY DEF ViewHandle, IdAt
<1>3. ViewPlace' = [ViewPlace EXCEPT ![i] = [base |-> IdAt(BaseOf(p)), offset |-> p.offset]]
  <2>1. ASSUME NEW j \in Interior
        PROVE  /\ IdAt(BaseOf(interior[j]))' = IF j = i THEN IdAt(BaseOf(p))
                                               ELSE IdAt(BaseOf(interior[j]))
               /\ interior'[j].offset = IF j = i THEN p.offset ELSE interior[j].offset
    <3>1. PICK q : q = BaseOf(interior[j])' /\ q = BaseOf(IF j = i THEN p ELSE interior[j])
      BY DEF BaseOf
    <3>2. q \in FromRefs
      BY <3>1, Settled
    <3> QED
      BY <1>1, <3>1, <3>2 DEF IdAt
  <2> QED
    BY <2>1 DEF ViewPlace
<1>4. ViewRoots' \subseteq ViewRoots \cup {Null}
  BY <1>2, <1>3 DEF ViewRoots
<1>5. ViewRoots' \cap DOMAIN FullGraph \subseteq DOMAIN ViewGraph
  BY <1>4, SeenGraph
<1>6. Heap!Keep(ViewGraph)
  BY <1>1, <1>5, KeepRoots
<1> QED
  BY <1>2, <1>3, <1>6 DEF Heap!Point, Mutating

LEMMA TakeInteriorSeen ==
  ASSUME IInv, IInv', NEW w \in Word, NEW o, NEW i \in Interior, TakeInterior(w, o, i)
  PROVE  Heap!AddressOf(w, o, i)
<1>1. PICK q : q = word[w]
  OBVIOUS
<1>2. q \in FromRefs /\ q # Null /\ IdAt(q) \in ViewRoots /\ ViewHandle[w] = IdAt(q)
      /\ o \in RefOffsets[hdr[q].klass] /\ Mutating
  BY <1>1, Settled, RootsSeen DEF TakeInterior, FieldAt
<1>3. /\ IdAt(q) # Null /\ ViewGraph[IdAt(q)] = NodeAt(q) /\ q \in Addr /\ FromObject(q)
      /\ o \in DOMAIN NodeAt(q).fields
  BY <1>2, RootNode
<1>4. q + o \in Addr /\ q \in Int /\ o \in Int
  BY <1>2, <1>3, RefWord DEF Addr
<1>5. PICK p : p = [ptr |-> q + o, offset |-> o]
  OBVIOUS
<1>6. BaseOf(p) = q /\ p.offset = o
  BY <1>4, <1>5, MarkerAssumption DEF BaseOf, Addr
<1>7. interior' = [interior EXCEPT ![i] = p]
  BY <1>1, <1>5 DEF TakeInterior
<1>8. interior'[i] = p /\ \A j \in Interior \ {i} : interior'[j] = interior[j]
  BY <1>7 DEF IInv, TypeOK
<1>9. i \in Interior \ rooted /\ rooted' = rooted \cup {i}
      /\ UNCHANGED <<heapVars, gcVars, status, word>>
  BY DEF TakeInterior
<1>10. Heap!Point(i, [base |-> IdAt(BaseOf(p)), offset |-> p.offset])
  BY <1>2, <1>6, <1>8, <1>9, PointSeen
<1> QED
  BY <1>2, <1>3, <1>6, <1>10 DEF Heap!AddressOf, Heap!HasField, TakeInterior

LEMMA TakeLocalSeen ==
  ASSUME IInv, IInv', NEW i \in Interior, TakeLocal(i)
  PROVE  Heap!AddressOfLocal(i)
<1>1. PICK p : p = NoInterior
  OBVIOUS
<1>2. BaseOf(p) = Null /\ p.offset = 0 /\ IdAt(BaseOf(p)) = Null /\ BaseOf(p) \in FromRefs
  BY <1>1, MarkerAssumption DEF NoInterior, BaseOf, IdAt, Addr, FromRefs
<1>3. i \in Interior \ rooted /\ interior'[i] = p /\ interior' = interior /\ Mutating
      /\ rooted' = rooted \cup {i} /\ UNCHANGED <<heapVars, gcVars, status, word>>
  BY <1>1 DEF TakeLocal, IInv, Bookkeeping, Unregistered
<1>4. Heap!Point(i, [base |-> IdAt(BaseOf(p)), offset |-> p.offset])
  BY <1>2, <1>3, PointSeen
<1> QED
  BY <1>2, <1>4 DEF Heap!AddressOfLocal, Heap!NoPlace

\* Giving a root up, whatever else happens to the header of the object.
LEMMA ForgetSeen ==
  ASSUME IInv, IInv', Mutating, ~Copying', NEW w \in rooted,
         \A v \in Word : word'[v] = IF v = w THEN Null ELSE word[v],
         \A i \in Interior : interior'[i] = IF i = w THEN NoInterior ELSE interior[i],
         rooted' = rooted \ {w}, UNCHANGED <<ref, from, free>>,
         \A a \in Addr : hdr'[a].klass = hdr[a].klass /\ hdr'[a].id = hdr[a].id
  PROVE  Heap!Drop(w)
<1>1. FullGraph' = FullGraph /\ \A q \in FromRefs : IdAt(q)' = IdAt(q)
  BY ClientGraph
<1>2. IdAt(Null)' = Null /\ Null \in FromRefs
  BY MarkerAssumption DEF IdAt, Addr, FromRefs
<1>3. ASSUME NEW v \in Word
      PROVE  IdAt(word[v])' = IF v = w THEN Null ELSE IdAt(word[v])
  <2>1. PICK q : q = word'[v] /\ q = IF v = w THEN Null ELSE word[v]
    OBVIOUS
  <2>2. IdAt(q)' = IF v = w THEN Null ELSE IdAt(word[v])
    BY <1>1, <1>2, <2>1, Settled
  <2> QED
    BY <2>1, <2>2 DEF IdAt
<1>4. ASSUME NEW i \in Interior
      PROVE  /\ IdAt(BaseOf(interior[i]))' = IF i = w THEN Null ELSE IdAt(BaseOf(interior[i]))
             /\ interior'[i].offset = IF i = w THEN 0 ELSE interior[i].offset
  <2>1. PICK q : q = BaseOf(interior[i])' /\ q = IF i = w THEN Null ELSE BaseOf(interior[i])
    BY DEF BaseOf, NoInterior
  <2>2. IdAt(q)' = IF i = w THEN Null ELSE IdAt(BaseOf(interior[i]))
    BY <1>1, <1>2, <2>1, Settled
  <2> QED
    BY <2>1, <2>2 DEF IdAt, NoInterior
<1>5. ViewHandle' = IF w \in Word THEN [ViewHandle EXCEPT ![w] = Null] ELSE ViewHandle
  BY <1>3 DEF ViewHandle
<1>6. ViewPlace' = IF w \in Interior THEN [ViewPlace EXCEPT ![w] = Heap!NoPlace] ELSE ViewPlace
  BY <1>4 DEF ViewPlace, Heap!NoPlace
<1>7. ViewRoots' \subseteq ViewRoots \cup {Null}
  BY <1>3, <1>4 DEF ViewRoots, ViewHandle, ViewPlace
<1>8. Heap!Keep(ViewGraph)
  BY <1>1, <1>7, KeepRoots, SeenGraph
<1> QED
  BY <1>5, <1>6, <1>8 DEF Heap!Drop, Mutating

LEMMA DropInteriorSeen ==
  ASSUME IInv, IInv', NEW i \in Interior, DropInterior(i)
  PROVE  Heap!Drop(i)
<1>1. \A j \in Interior : interior'[j] = IF j = i THEN NoInterior ELSE interior[j]
  BY DEF DropInterior, IInv, TypeOK
<1>2. \A v \in Word : word'[v] = IF v = i THEN Null ELSE word[v]
  BY RootAssumption DEF DropInterior
<1>3. /\ Mutating /\ ~Copying' /\ i \in rooted /\ rooted' = rooted \ {i}
      /\ UNCHANGED <<hdr, ref, from, free>>
  BY DEF DropInterior, heapVars, gcVars, Mutating, Copying
<1> QED
  BY <1>1, <1>2, <1>3, ForgetSeen

\* What Forget does, as ForgetSeen needs it.
LEMMA ForgetRoots ==
  ASSUME IInv, NEW w \in Word, Forget(w)
  PROVE  /\ \A v \in Word : word'[v] = IF v = w THEN Null ELSE word[v]
         /\ \A i \in Interior : interior'[i] = IF i = w THEN NoInterior ELSE interior[i]
         /\ rooted' = rooted \ {w}
BY RootAssumption DEF Forget, IInv, TypeOK

LEMMA DropRefSeen ==
  ASSUME IInv, IInv', NEW w \in Word, DropRef(w)
  PROVE  Heap!Drop(w)
<1>1. Mutating /\ ~Copying' /\ w \in rooted /\ Forget(w) /\ UNCHANGED <<hdr, ref, from, free>>
  BY DEF DropRef, heapVars, gcVars, Mutating, Copying
<1> QED
  BY <1>1, ForgetRoots, ForgetSeen

LEMMA UnpinSeen ==
  ASSUME IInv, IInv', NEW w \in Word, Unpin(w)
  PROVE  Heap!Drop(w)
<1>1. Mutating /\ w \in rooted /\ Forget(w) /\ UNCHANGED <<hdr, ref, from, free>>
  BY DEF Unpin, heapVars
<1>2. ~Copying'
  BY DEF Unpin, gcVars, BeginCollection, Mutating, Copying
<1> QED
  BY <1>1, <1>2, ForgetRoots, ForgetSeen

LEMMA PinSeen ==
  ASSUME IInv, IInv', NEW w \in Word, Pin(w)
  PROVE  Heap!Drop(w)
<1>1. Mutating /\ w \in rooted /\ Forget(w) /\ UNCHANGED <<ref, from, free>>
  BY DEF Pin
<1>2. ~Copying'
  BY DEF Pin, gcVars, BeginCollection, Mutating, Copying
<1>3. PICK p : p = word[w]
  OBVIOUS
<1>4. p \in Addr /\ hdr \in [Addr -> Header] /\ hdr[p] \in Header
  BY <1>3, Settled DEF Pin, FromRefs, IInv, TypeOK
<1>5. PICK h : h = [hdr[p] EXCEPT !.pined = TRUE, !.forward = Malloced]
  OBVIOUS
<1>6. h.klass = hdr[p].klass /\ h.id = hdr[p].id
  BY <1>4, <1>5 DEF Header
<1>7. hdr' = hdr \/ hdr' = [hdr EXCEPT ![p] = h]
  BY <1>3, <1>5 DEF Pin
<1>8. \A a \in Addr : hdr'[a].klass = hdr[a].klass /\ hdr'[a].id = hdr[a].id
  BY <1>4, <1>6, <1>7
<1> QED
  BY <1>1, <1>2, <1>8, ForgetRoots, ForgetSeen

\* The objects there were, once a new one has been placed behind them.
LEMMA BumpGraph ==
  ASSUME IInv, IInv', phase \in {"mutator", "retry"}, phase' = "mutator",
         NEW k \in Klass, NEW w \in Word,
         ~(RemainSemiSpace < InstanceSize[k]), Bump(k, w)
  PROVE  LET i == hdr'[free].id IN
         /\ i \in Id \ Present /\ Present' = Present \cup {i}
         /\ \A q \in FromRefs : IdAt(q)' = IdAt(q)
         /\ \A q : q = free => IdAt(q)' = i
         /\ \A j \in Present : FullGraph'[j] = FullGraph[j]
         /\ FullGraph'[i] = Heap!Node(k, [o \in RefOffsets[k] |-> Null])
<1> DEFINE i == hdr'[free].id
           size == InstanceSize[k]
<1>1. /\ ~Copying /\ FromEnd = free /\ free \in Addr /\ free \in Nat /\ from \in Nat
      /\ free + size <= from + SemiSize /\ from + SemiSize <= 2 * SemiSize
      /\ hdr'[free].klass = k /\ i \in Id /\ FreshId(i)
      /\ \A a \in Addr : a < free => hdr'[a] = hdr[a] /\ ref'[a] = ref[a]
      /\ \A a \in Addr : IsObject(a) => from <= a /\ a < free
      /\ \A a \in Addr : IsObject(a)' <=> IsObject(a) \/ a = free
      /\ \A a \in Addr : free <= a /\ a < free + size => ref'[a] = Null
  BY BumpHeap
<1>2. size \in Nat /\ SemiSize \in Nat
  BY KlassAssumption, SizeAssumption
<1> HIDE DEF i, size
<1>3. \A a \in Addr : IsObject(a) => hdr'[a] = hdr[a] /\ IsObject(a)' /\ FromObject(a)
  BY <1>1 DEF FromObject
<1>4. \A q \in FromRefs : IdAt(q)' = IdAt(q)
  <2> TAKE q \in FromRefs
  <2>1. CASE q = Null
    BY <2>1, MarkerAssumption DEF IdAt, Addr
  <2>2. CASE q # Null
    BY <1>3, <2>2 DEF FromRefs, FromObject, IdAt
  <2> QED
    BY <2>1, <2>2
<1>5. i \notin Present
  BY <1>1 DEF FreshId, Present
<1>6. Present' = Present \cup {i}
  <2>1. ASSUME NEW j \in Present' PROVE j \in Present \cup {i}
    <3>1. PICK a \in Addr : IsObject(a)' /\ hdr'[a].id = j
      BY DEF Present
    <3> QED
      BY <1>1, <1>3, <3>1 DEF Present, i
  <2>2. \A j \in Present : j \in Present'
    BY <1>3 DEF Present
  <2>3. i \in Present'
    BY <1>1 DEF Present, i
  <2> QED
    BY <2>1, <2>2, <2>3
<1>7. \A q : q = free => IdAt(q)' = i
  BY <1>1 DEF IdAt, i
<1>8. ASSUME NEW a \in Addr, IsObject(a) PROVE NodeAt(a)' = NodeAt(a)
  <2>1. ASSUME NEW o \in RefOffsets[hdr[a].klass] PROVE IdAt(ref[a + o])' = IdAt(ref[a + o])
    <3>1. a + o \in Addr /\ o \in Nat /\ o < SizeOf(a) /\ SizeOf(a) \in Nat /\ a + SizeOf(a) <= free
      BY <1>1, <1>3, <1>8, ObjectWord
    <3>2. a + o < free
      BY <1>1, <3>1 DEF Addr
    <3>3. PICK q : q = ref[a + o] /\ q = ref'[a + o]
      BY <1>1, <3>1, <3>2
    <3>4. q \in FromRefs
      BY <1>1, <1>3, <1>8, <3>3, SettledHeap
    <3> QED
      BY <1>4, <3>3, <3>4 DEF IdAt
  <2> QED
    BY <1>3, <1>8, <2>1 DEF NodeAt
<1>9. \A j \in Present : FullGraph'[j] = FullGraph[j]
  <2> TAKE j \in Present
  <2>1. PICK a \in Addr : IsObject(a) /\ hdr[a].id = j
    BY DEF Present
  <2> QED
    BY <1>3, <1>8, <2>1, ViewIsSound, ViewIsSoundNext DEF ViewSound
<1>10. FullGraph'[i] = Heap!Node(k, [o \in RefOffsets[k] |-> Null])
  <2>1. \A o \in RefOffsets[k] : o \in Nat /\ 0 < o /\ o < size
    BY KlassAssumption DEF size
  <2>2. \A o \in RefOffsets[k] : ref'[free + o] = Null
    <3> TAKE o \in RefOffsets[k]
    <3>1. o \in Nat /\ o < size
      BY <2>1
    <3>2. free + o \in Addr /\ free <= free + o /\ free + o < free + size
      BY <1>1, <1>2, <3>1 DEF Addr
    <3> QED
      BY <1>1, <3>2
  <2>3. PICK a : a = free
    OBVIOUS
  <2>4. IsObject(a)' /\ hdr'[a].id = i /\ hdr'[a].klass = k /\ a \in Addr
    BY <1>1, <2>3 DEF i
  <2>5. FullGraph'[i] = NodeAt(a)'
    BY <2>4, ViewIsSoundNext DEF ViewSound
  <2>6. \A o \in RefOffsets[k] : IdAt(ref[a + o])' = Null
    BY <2>2, <2>3, MarkerAssumption DEF IdAt, Addr
  <2> QED
    BY <2>4, <2>5, <2>6 DEF NodeAt, Heap!Node
<1> QED
  BY <1>1, <1>4, <1>5, <1>6, <1>7, <1>9, <1>10 DEF i

\* Allocating an object.
LEMMA BumpSeen ==
  ASSUME IInv, IInv', phase \in {"mutator", "retry"}, phase' = "mutator",
         status = "running", status' = status,
         NEW k \in Klass, NEW w \in Word \ rooted,
         ~(RemainSemiSpace < InstanceSize[k]), Bump(k, w)
  PROVE  Heap!New(k, w)
<1>1. PICK i : i = hdr'[free].id
  OBVIOUS
<1>2. /\ i \in Id \ Present /\ Present' = Present \cup {i}
      /\ \A q \in FromRefs : IdAt(q)' = IdAt(q)
      /\ \A q : q = free => IdAt(q)' = i
      /\ \A j \in Present : FullGraph'[j] = FullGraph[j]
      /\ FullGraph'[i] = Heap!Node(k, [o \in RefOffsets[k] |-> Null])
  BY <1>1, BumpGraph
<1> DEFINE C == DOMAIN ViewGraph \cup {i}
           h == [j \in C |-> IF j = i THEN Heap!Node(k, [o \in RefOffsets[k] |-> Null])
                             ELSE ViewGraph[j]]
<1>3. ~Copying
  BY DEF Copying
<1>4. word' = [word EXCEPT ![w] = free] /\ interior' = interior /\ rooted' = rooted \cup {w}
  BY DEF Bump
<1>5. ViewHandle' = [ViewHandle EXCEPT ![w] = i]
  <2>1. ASSUME NEW v \in Word PROVE IdAt(word[v])' = IF v = w THEN i ELSE IdAt(word[v])
    <3>1. PICK q : q = word'[v] /\ q = IF v = w THEN free ELSE word[v]
      BY <1>4 DEF IInv, TypeOK
    <3>2. IdAt(q)' = IF v = w THEN i ELSE IdAt(word[v])
      BY <1>2, <1>3, <3>1, SettledHeap
    <3> QED
      BY <3>1, <3>2 DEF IdAt
  <2> QED
    BY <2>1 DEF ViewHandle
<1>6. ViewPlace' = ViewPlace
  <2>1. ASSUME NEW n \in Interior PROVE IdAt(BaseOf(interior[n]))' = IdAt(BaseOf(interior[n]))
    <3>1. PICK q : q = BaseOf(interior[n])' /\ q = BaseOf(interior[n])
      BY <1>4 DEF BaseOf
    <3> QED
      BY <1>2, <1>3, <3>1, SettledHeap DEF IdAt
  <2> QED
    BY <1>4, <2>1 DEF ViewPlace
<1>7. ViewRoots' \subseteq ViewRoots \cup {i}
  BY <1>5, <1>6 DEF ViewRoots, ViewHandle
<1>8. DOMAIN h = C /\ DOMAIN FullGraph' = Present \cup {i} /\ C \subseteq Present \cup {i}
      /\ i \notin DOMAIN ViewGraph
  BY <1>2, SeenGraph DEF FullGraph
<1>9. \A j \in C : FullGraph'[j] = h[j]
  BY <1>2, <1>8, SeenGraph
<1> HIDE DEF h
<1>10. Follows(h, C)
  BY <1>8 DEF Follows
<1>11. Follows(FullGraph', C)
  <2> SUFFICES ASSUME NEW j \in C, NEW n \in Successors(FullGraph, j)',
                      n \in Present \cup {i}
               PROVE  n \in C
    BY <1>8 DEF Follows, Successors
  <2>1. CASE j = i
    <3>1. n = Null
      BY <1>2, <2>1 DEF Successors, Heap!Node
    <3> QED
      BY <1>2, <3>1, ViewIsSound, IdAssumption DEF ViewSound
  <2>2. CASE j # i
    <3>1. j \in DOMAIN ViewGraph /\ j \in Present
      BY <2>2, SeenGraph
    <3>2. n \in Successors(FullGraph, j)
      BY <1>2, <3>1 DEF Successors
    <3> QED
      BY <3>1, <3>2, SeenGraph DEF Follows
  <2> QED
    BY <2>1, <2>2
<1>12. Heap!Keep(h)
  <2>1. /\ C \subseteq DOMAIN FullGraph' /\ C \subseteq DOMAIN h
        /\ ViewRoots' \cap DOMAIN FullGraph' \subseteq C
        /\ ViewRoots' \cap DOMAIN h \subseteq C
    BY <1>7, <1>8, SeenGraph
  <2> HIDE DEF C
  <2> QED
    BY <1>9, <1>10, <1>11, <2>1, KeepGraph
<1>13. Heap!Take(w, i)
  BY <1>4, <1>5, <1>6 DEF Heap!Take
<1>14. i \in Id \ DOMAIN ViewGraph
  BY <1>2, <1>8
<1> QED
  BY <1>12, <1>13, <1>14 DEF Heap!New, h

\* A collection that begins between client steps.
LEMMA AllocateSeen ==
  ASSUME IInv, IInv', NEW k \in Klass, NEW w \in Word, Allocate(k, w)
  PROVE  Heap!New(k, w) \/ UNCHANGED Heap!vars
<1>1. CASE RemainSemiSpace < InstanceSize[k]
  <2>1. /\ UNCHANGED <<ref, hdr, from, to, free, rootVars, status>>
        /\ ~Copying /\ ~Copying'
    BY <1>1 DEF Allocate, BeginCollection, heapVars, Mutating, Copying
  <2>2. \A a \in Addr : FromObject(a)' <=> FromObject(a)
    BY <2>1 DEF FromObject, FromEnd, IsObject
  <2> QED
    BY <2>1, <2>2, QuietStep
<1>2. CASE ~(RemainSemiSpace < InstanceSize[k])
  BY <1>2, BumpSeen DEF Allocate, Mutating, gcVars
<1> QED
  BY <1>1, <1>2

\* The end of the process leaves everything as it is seen.
LEMMA EndSeen ==
  ASSUME status = "running", status' # "running",
         UNCHANGED <<ViewHandle, ViewPlace, ViewGraph, rooted>>
  PROVE  Heap!End
BY DEF Heap!End

LEMMA RetryEndsSeen ==
  ASSUME IInv, status = "running", status' # "running", UNCHANGED <<heapVars, rootVars>>,
         phase = "retry", phase' = "mutator"
  PROVE  Heap!End
<1>1. UNCHANGED <<ViewHandle, ViewPlace, ViewGraph, rooted>>
  BY DEF heapVars, rootVars, ViewHandle, ViewPlace, ViewGraph, ViewRoots, FullGraph, Present,
         Whereabouts, IdAt, IsObject, BaseOf
<1> QED
  BY <1>1, EndSeen

LEMMA RetryAllocateSeen ==
  ASSUME IInv, IInv', RetryAllocate
  PROVE  \/ \E k \in Klass, w \in Word : Heap!New(k, w)
         \/ Heap!End
<1>1. CASE RemainSemiSpace < InstanceSize[request.klass]
  BY <1>1, RetryEndsSeen DEF RetryAllocate
<1>2. CASE ~(RemainSemiSpace < InstanceSize[request.klass])
  <2>1. request # NoRequest
    BY DEF RetryAllocate, IInv, Bookkeeping, Requested
  <2>2. request.klass \in Klass /\ request.word \in Word \ rooted
    BY <2>1 DEF IInv, Bookkeeping, Requested, TypeOK, Requests
  <2>3. Heap!New(request.klass, request.word)
    BY <1>2, <2>2, BumpSeen DEF RetryAllocate
  <2> QED
    BY <2>2, <2>3
<1> QED
  BY <1>1, <1>2

LEMMA RetryUnpinSeen ==
  ASSUME IInv, IInv', RetryUnpin PROVE Heap!End
BY RetryEndsSeen DEF RetryUnpin

LEMMA FinishCollectionSeen ==
  ASSUME IInv, IInv', FinishCollection
  PROVE  Heap!End \/ UNCHANGED Heap!vars
<1>1. ViewHandle' = ViewHandle /\ ViewPlace' = ViewPlace /\ ViewGraph' = ViewGraph
  BY FinishSeen
<1>2. status = "running" /\ rooted' = rooted
  BY DEF FinishCollection, Collecting, rootVars
<1> QED
  BY <1>1, <1>2, EndSeen DEF Heap!vars

-----------------------------------------------------------------------------
\* A step that changes nothing is not seen.
LEMMA StutterSeen == ASSUME UNCHANGED vars PROVE UNCHANGED Heap!vars
BY DEF vars, Heap!vars, ViewHandle, ViewPlace, ViewGraph, ViewRoots, FullGraph, Present,
       Whereabouts, IdAt, IsObject, BaseOf

\* Every step that does not run over memory in use is one of AbstractHeap's, or is
\* not seen.
LEMMA StepSimulation ==
  ASSUME IInv, IInv', [Next]_vars, Intact'
  PROVE  [Heap!Next]_(Heap!vars)
<1>1. ASSUME NEW k \in Klass, NEW w \in Word, Allocate(k, w)
      PROVE  [Heap!Next]_(Heap!vars)
  BY <1>1, AllocateSeen DEF Heap!Next
<1>2. ASSUME NEW w \in Word, Pin(w) \/ Unpin(w) \/ DropRef(w)
      PROVE  Heap!Next
  BY <1>2, PinSeen, UnpinSeen, DropRefSeen DEF Heap!Next
<1>3. ASSUME NEW w \in Word, NEW v \in Word, CopyRef(w, v) PROVE Heap!Next
  BY <1>3, CopyRefSeen DEF Heap!Next
<1>4. ASSUME NEW w \in Word, NEW v \in Word, NEW o \in Offset,
             LoadField(w, o, v) \/ StoreField(w, o, v)
      PROVE  Heap!Next
  <2>1. o \in Heap!Offset
    BY <1>4 DEF Offset, Heap!Offset
  <2>2. Heap!Load(w, o, v) \/ Heap!Store(w, o, v)
    BY <1>4, LoadFieldSeen, StoreFieldSeen
  <2> QED
    BY <2>1, <2>2 DEF Heap!Next
<1>5. ASSUME NEW w \in Word, NEW o \in Offset, NEW i \in Interior, TakeInterior(w, o, i)
      PROVE  Heap!Next
  <2>1. o \in Heap!Offset
    BY <1>5 DEF Offset, Heap!Offset
  <2> QED
    BY <1>5, <2>1, TakeInteriorSeen DEF Heap!Next
<1>6. ASSUME NEW i \in Interior, TakeLocal(i) \/ DropInterior(i) PROVE Heap!Next
  BY <1>6, TakeLocalSeen, DropInteriorSeen DEF Heap!Next
<1>7. ASSUME NEW i \in Interior, NEW v \in Word, LoadInterior(i, v) \/ StoreInterior(i, v)
      PROVE  Heap!Next
  BY <1>7, LoadInteriorSeen, StoreInteriorSeen DEF Heap!Next
<1>8. ASSUME MinorGC PROVE [Heap!Next]_(Heap!vars)
  BY <1>8, ResetObjectSeen, EnterRootsSeen, CopyRootWordSeen, CopyRootInteriorSeen,
     EnterScanSeen, ScanRefSeen, AdvanceScanSeen, FinishCollectionSeen
  DEF MinorGC, Heap!Next
<1>9. ASSUME Retry PROVE Heap!Next
  BY <1>9, RetryAllocateSeen, RetryUnpinSeen DEF Retry, Heap!Next
<1>10. ASSUME UNCHANGED vars PROVE UNCHANGED Heap!vars
  BY <1>10, StutterSeen
<1> QED
  BY <1>1, <1>2, <1>3, <1>4, <1>5, <1>6, <1>7, <1>8, <1>9, <1>10 DEF Next, Client

\* The empty heap is the empty graph.
LEMMA InitSimulation == Init => Heap!Init
<1> SUFFICES ASSUME Init PROVE Heap!Init
  OBVIOUS
<1>1. \A a \in Addr : ~IsObject(a)
  BY MarkerAssumption DEF Init, IsObject, Emptied
<1>2. Present = {}
  BY <1>1 DEF Present
<1>3. DOMAIN FullGraph = {}
  BY <1>2 DEF FullGraph
<1>4. Closure(FullGraph, ViewRoots) = {}
  BY <1>3, ClosureHolds
<1>5. ViewGraph = [i \in {} |-> Null]
  BY <1>4 DEF ViewGraph, Reached
<1>6. IdAt(Null) = Null
  BY MarkerAssumption DEF IdAt, Addr
<1>7. ViewHandle = [w \in Word |-> Null]
  BY <1>6 DEF Init, ViewHandle
<1>8. ViewPlace = [i \in Interior |-> Heap!NoPlace]
  BY <1>6 DEF Init, ViewPlace, NoInterior, BaseOf, Heap!NoPlace
<1> QED
  BY <1>5, <1>7, <1>8 DEF Init, Heap!Init

\* The same from the invariant of every reachable state: the store that runs over
\* memory in use is AbstractHeap's Overrun, and it is the last step there is.
LEMMA SoundSimulation ==
  ASSUME SoundInv, [Next]_vars
  PROVE  [Heap!Next]_(Heap!vars)
<1>1. CASE UNCHANGED vars
  BY <1>1, StutterSeen
<1>2. CASE Next
  <2>1. IInv
    BY <1>2, Running DEF SoundInv, Intact
  <2>2. CASE Intact'
    <3>1. IInv'
      BY <1>2, <2>1, <2>2, NextInv
    <3> QED
      BY <1>2, <2>1, <2>2, <3>1, StepSimulation
  <2>3. CASE ~Intact'
    <3>1. PICK w \in Word, v \in Word, o \in Offset : StoreField(w, o, v)
      BY <1>2, <2>3, OnlyStoreOverruns
    <3>2. Heap!Overrun(w, o, v) /\ o \in Heap!Offset
      BY <2>1, <2>3, <3>1, OverrunSeen DEF Offset, Heap!Offset
    <3> QED
      BY <3>2 DEF Heap!Next
  <2> QED
    BY <2>2, <2>3
<1> QED
  BY <1>1, <1>2

(* The collector implements AbstractHeap: whatever allocation, pin and minorGC do to
   addresses, the program sees every object it can reach keep its identity, class
   and fields, and sees only the changes its own stores make, until one of them runs
   over memory in use. *)
THEOREM ImplementsHeap == Spec => ImplementsAbstractHeap
<1>1. Init => Heap!Init
  BY InitSimulation
<1>2. SoundInv /\ [Next]_vars => [Heap!Next]_(Heap!vars)
  BY SoundSimulation
<1> QED
  BY <1>1, <1>2, Invariance, PTL DEF Spec, ImplementsAbstractHeap, Heap!Spec

-----------------------------------------------------------------------------
(***************************************************************************)
(* What a collection keeps.                                                *)
(***************************************************************************)
\* What a root denotes is seen.
LEMMA RootKept ==
  ASSUME IInv, NEW q, q \in FromRefs \cup CopyRefs, q # Null, IdAt(q) \in ViewRoots
  PROVE  IdAt(q) \in DOMAIN ViewGraph
BY IdOfRef, SeenGraph

\* The copy made of an object that is seen is one.
LEMMA CopyKept ==
  ASSUME IInv, KeepsOnlyReachable, Copying, Copying', NEW p, p \in FromRefs,
         p # Null => IdAt(p) \in DOMAIN ViewGraph,
         hdr' = HdrAfterCopy(p), free' = FreeAfterCopy(p),
         UNCHANGED <<from, to, limit>>, ViewGraph' = ViewGraph
  PROVE  KeepsOnlyReachable'
<1>1. ASSUME NEW a \in Addr, ToObject(a)' PROVE hdr'[a].id \in DOMAIN ViewGraph
  <2>1. CASE ToObject(a)
    <3>1. hdr'[a].id = hdr[a].id
      BY <2>1, CopyHeaders DEF ToObject
    <3> QED
      BY <2>1, <3>1 DEF KeepsOnlyReachable
  <2>2. CASE MustCopy(p) /\ a = free
    <3>1. p \in Addr /\ hdr'[a].id = hdr[p].id /\ p # Null
      BY <2>2, CopyHeaders, CopyTarget DEF MustCopy
    <3> QED
      BY <3>1 DEF IdAt
  <2> QED
    BY <1>1, <2>1, <2>2, CopyHeaders
<1>2. phase' # "retry"
  BY DEF Copying
<1> QED
  BY <1>1, <1>2 DEF KeepsOnlyReachable

LEMMA CopyRootWordKept ==
  ASSUME IInv, IInv', KeepsOnlyReachable, NEW w \in Word, CopyRootWord(w)
  PROVE  KeepsOnlyReachable'
<1>1. PICK p : p = word[w]
  OBVIOUS
<1>2. Copying /\ Copying' /\ hdr' = HdrAfterCopy(p) /\ free' = FreeAfterCopy(p)
      /\ UNCHANGED <<from, to, limit>> /\ w \in pending
  BY <1>1 DEF CopyRootWord, Collecting, Copying
<1>3. p \in FromRefs
  BY <1>1, <1>2, CopyingRoots
<1>4. p # Null => IdAt(p) \in DOMAIN ViewGraph
  BY <1>1, <1>3, RootKept, RootsSeen
<1>5. ViewGraph' = ViewGraph
  BY CopyRootWordSeen DEF Heap!vars
<1> QED
  BY <1>2, <1>3, <1>4, <1>5, CopyKept

LEMMA CopyRootInteriorKept ==
  ASSUME IInv, IInv', KeepsOnlyReachable, NEW i \in Interior, CopyRootInterior(i)
  PROVE  KeepsOnlyReachable'
<1>1. PICK p : p = BaseOf(interior[i])
  OBVIOUS
<1>2. Copying /\ Copying' /\ hdr' = HdrAfterCopy(p) /\ free' = FreeAfterCopy(p)
      /\ UNCHANGED <<from, to, limit>> /\ i \in pending
  BY <1>1 DEF CopyRootInterior, Collecting, Copying
<1>3. p \in FromRefs
  BY <1>1, <1>2, CopyingRoots
<1>4. p # Null => IdAt(p) \in DOMAIN ViewGraph
  BY <1>1, <1>3, RootKept, RootsSeen
<1>5. ViewGraph' = ViewGraph
  BY CopyRootInteriorSeen DEF Heap!vars
<1> QED
  BY <1>2, <1>3, <1>4, <1>5, CopyKept

LEMMA ScanRefKept ==
  ASSUME IInv, IInv', KeepsOnlyReachable, NEW o, ScanRef(o)
  PROVE  KeepsOnlyReachable'
<1>1. PICK p : p = ref[cursor + o]
  OBVIOUS
<1>2. Copying /\ Copying' /\ hdr' = HdrAfterCopy(p) /\ free' = FreeAfterCopy(p)
      /\ UNCHANGED <<from, to, limit>> /\ o \in todo /\ phase = "scan"
  BY <1>1 DEF ScanRef, Collecting, Copying
<1>3. PICK c : c = cursor
  OBVIOUS
<1>4. /\ p \in FromRefs /\ c \in Addr /\ ToObject(c) /\ IsObject(c)
      /\ o \in RefOffsets[hdr[c].klass] /\ p = ref[c + o]
  BY <1>1, <1>2, <1>3, ScanPoint
<1>5. hdr[c].id \in DOMAIN ViewGraph /\ FullGraph[hdr[c].id] = NodeAt(c)
  BY <1>2, <1>4, ViewIsSound DEF KeepsOnlyReachable, ViewSound
<1>6. IdAt(p) \in Successors(FullGraph, hdr[c].id)
  BY <1>4, <1>5 DEF Successors, NodeAt
<1>7. p # Null => IdAt(p) \in DOMAIN ViewGraph
  BY <1>4, <1>5, <1>6, IdOfRef, SeenGraph DEF Follows
<1>8. ViewGraph' = ViewGraph
  BY ScanRefSeen DEF Heap!vars
<1> QED
  BY <1>2, <1>4, <1>7, <1>8, CopyKept

LEMMA KeptNext ==
  ASSUME IInv, IInv', KeepsOnlyReachable, [Next]_vars
  PROVE  KeepsOnlyReachable'
<1>1. ASSUME NEW k \in Klass, NEW w \in Word, Allocate(k, w) PROVE KeepsOnlyReachable'
  BY <1>1 DEF Allocate, BeginCollection, gcVars, Mutating, KeepsOnlyReachable, Copying
<1>2. ASSUME NEW w \in Word, Pin(w) PROVE KeepsOnlyReachable'
  BY <1>2 DEF Pin, BeginCollection, gcVars, Mutating, KeepsOnlyReachable, Copying
<1>3. ASSUME NEW w \in Word, Unpin(w) PROVE KeepsOnlyReachable'
  BY <1>3 DEF Unpin, BeginCollection, gcVars, Mutating, KeepsOnlyReachable, Copying
<1>4. ASSUME Mutating, UNCHANGED gcVars PROVE KeepsOnlyReachable'
  BY <1>4 DEF gcVars, Mutating, KeepsOnlyReachable, Copying
<1>5. ASSUME Client PROVE KeepsOnlyReachable'
  BY <1>1, <1>2, <1>3, <1>4, <1>5
  DEF Client, DropRef, CopyRef, LoadField, StoreField, TakeInterior, TakeLocal, DropInterior,
      LoadInterior, StoreInterior
<1>6. ASSUME ResetObject PROVE KeepsOnlyReachable'
  BY <1>6 DEF ResetObject, Collecting, KeepsOnlyReachable, Copying
<1>7. ASSUME EnterRoots PROVE KeepsOnlyReachable'
  <2>1. \A a \in Addr : ~ToObject(a)'
    BY <1>7, Bounds DEF EnterRoots, ToObject, Addr
  <2> QED
    BY <1>7, <2>1 DEF EnterRoots, KeepsOnlyReachable
<1>8. ASSUME EnterScan \/ AdvanceScan PROVE KeepsOnlyReachable'
  <2>1. /\ Copying /\ Copying' /\ phase' # "retry" /\ UNCHANGED <<hdr, to, free>>
    BY <1>8 DEF EnterScan, AdvanceScan, Collecting, Copying, heapVars
  <2>2. ViewGraph' = ViewGraph
    BY <1>8, EnterScanSeen, AdvanceScanSeen DEF Heap!vars
  <2> QED
    BY <2>1, <2>2 DEF KeepsOnlyReachable, ToObject, IsObject
<1>9. ASSUME FinishCollection PROVE KeepsOnlyReachable'
  <2>1. /\ Copying /\ ~Copying' /\ ViewGraph' = ViewGraph
        /\ \A a \in Addr : FromObject(a)' => ToObject(a) /\ hdr'[a] = hdr[a]
    BY <1>9, FinishHeap, FinishSeen
  <2> QED
    BY <2>1 DEF KeepsOnlyReachable
<1>10. ASSUME Retry PROVE KeepsOnlyReachable'
  BY <1>10 DEF Retry, RetryAllocate, RetryUnpin, KeepsOnlyReachable, Copying
<1>11. ASSUME UNCHANGED vars PROVE KeepsOnlyReachable'
  <2>1. ViewGraph' = ViewGraph
    BY <1>11 DEF vars, ViewHandle, ViewPlace, ViewGraph, ViewRoots, FullGraph, Present,
         Whereabouts, IdAt, IsObject, BaseOf
  <2> QED
    BY <1>11, <2>1 DEF vars, KeepsOnlyReachable, Copying, ToObject, FromObject, FromEnd, IsObject
<1> QED
  BY <1>5, <1>6, <1>7, <1>8, <1>9, <1>10, <1>11, CopyRootWordKept, CopyRootInteriorKept,
     ScanRefKept
  DEF Next, MinorGC

(* A collection copies only what the program can reach, so that right after one there
   is nothing else in the heap. *)
THEOREM OnlyReachableKept == Spec => []KeepsOnlyReachable
<1>1. Init => KeepsOnlyReachable
  BY DEF Init, KeepsOnlyReachable, Copying
<1>2. SoundInv /\ KeepsOnlyReachable /\ [Next]_vars => KeepsOnlyReachable'
  <2> SUFFICES ASSUME SoundInv, KeepsOnlyReachable, [Next]_vars PROVE KeepsOnlyReachable'
    OBVIOUS
  <2>1. SoundInv'
    BY NextSound
  <2>2. CASE IInv'
    <3>1. CASE IInv
      BY <2>2, <3>1, KeptNext
    <3>2. CASE ~IInv
      <4>1. UNCHANGED vars
        BY <3>2, Running DEF SoundInv, Intact
      <4> QED
        BY <3>2, <4>1 DEF vars, SoundInv, KeepsOnlyReachable, Copying
    <3> QED
      BY <3>1, <3>2
  <2>3. CASE ~IInv'
    BY <2>1, <2>3 DEF SoundInv, KeepsOnlyReachable, Copying
  <2> QED
    BY <2>2, <2>3
<1> QED
  BY <1>1, <1>2, Invariance, PTL DEF Spec

-----------------------------------------------------------------------------
(***************************************************************************)
(* When memory is exhausted.                                               *)
(***************************************************************************)
\* Every word of the used part of from-space is one of an object.
LEMMA Covered ==
  ASSUME IInv, NEW x \in from .. (FromEnd - 1)
  PROVE  \E a \in Addr : FromObject(a) /\ x \in WordsOf(a)
<1> DEFINE S == {n \in Nat : from + n < FromEnd =>
                    \E a \in Addr : FromObject(a) /\ from + n \in WordsOf(a)}
<1>1. /\ from \in Nat /\ FromEnd \in Nat /\ FromEnd <= 2 * SemiSize /\ SemiSize \in Nat
      /\ Tiled(from, FromEnd)
  BY Bounds DEF IInv, Parsable
<1>2. \A a \in Addr : FromObject(a) => SizeOf(a) \in Nat /\ SizeOf(a) > 0
  BY SizeType DEF FromObject
<1>3. 0 \in S
  <2> SUFFICES ASSUME from < FromEnd
               PROVE  \E a \in Addr : FromObject(a) /\ from + 0 \in WordsOf(a)
    BY <1>1
  <2>1. from \in Addr /\ FromObject(from)
    BY <1>1 DEF Addr, FromObject, Tiled
  <2> QED
    BY <1>1, <1>2, <2>1 DEF WordsOf
<1>4. ASSUME NEW n \in S PROVE n + 1 \in S
  <2> SUFFICES ASSUME from + (n + 1) < FromEnd
               PROVE  \E a \in Addr : FromObject(a) /\ from + (n + 1) \in WordsOf(a)
    OBVIOUS
  <2>1. n \in Nat /\ from + n < FromEnd
    BY <1>1
  <2>2. PICK a \in Addr : FromObject(a) /\ from + n \in WordsOf(a)
    BY <2>1
  <2>3. /\ a \in Nat /\ SizeOf(a) \in Nat /\ a <= from + n /\ from + n < a + SizeOf(a)
    BY <1>1, <1>2, <2>1, <2>2 DEF WordsOf, Addr
  <2>4. CASE from + (n + 1) < a + SizeOf(a)
    BY <1>1, <2>1, <2>2, <2>3, <2>4 DEF WordsOf
  <2>5. CASE from + (n + 1) = a + SizeOf(a)
    <3>1. PICK b : b = a + SizeOf(a)
      OBVIOUS
    <3>2. b \in Addr /\ IsObject(b) /\ from <= b /\ b < FromEnd
      BY <1>1, <2>1, <2>2, <2>3, <2>5, <3>1 DEF Tiled, FromObject, Addr
    <3>3. FromObject(b) /\ from + (n + 1) = b
      BY <2>5, <3>1, <3>2 DEF FromObject
    <3>4. from + (n + 1) \in WordsOf(b)
      BY <1>2, <3>2, <3>3 DEF WordsOf, Addr
    <3> QED
      BY <3>2, <3>3, <3>4
  <2> QED
    BY <1>1, <2>1, <2>3, <2>4, <2>5
<1>5. S = Nat
  <2>1. S \subseteq Nat
    OBVIOUS
  <2> HIDE DEF S
  <2> QED
    BY <1>3, <1>4, <2>1, SetInduction
<1>6. x - from \in Nat /\ from + (x - from) = x /\ x < FromEnd
  BY <1>1
<1> QED
  BY <1>5, <1>6

\* Between collections an object is where its identity is looked for.
LEMMA WhereaboutsOf ==
  ASSUME IInv, ~Copying, NEW a \in Addr, FromObject(a)
  PROVE  Whereabouts(hdr[a].id) = a
<1> DEFINE c == {x \in Addr : IsObject(x) /\ hdr[x].id = hdr[a].id}
<1>1. \A x \in c : x = a
  BY ObjectWord DEF ToObject, IInv, Bookkeeping, Identities
<1>2. c = {a}
  BY <1>1 DEF FromObject
<1> QED
  BY <1>2 DEF Whereabouts

\* Right after a collection the objects the program can reach take all of what
\* is in use.
LEMMA AllReachable ==
  ASSUME IInv, KeepsOnlyReachable, phase = "retry"
  PROVE  ReachableSize = free - from
<1> DEFINE U == UNION {WordsOf(Whereabouts(i)) : i \in DOMAIN ViewGraph}
<1>1. ~Copying /\ FromEnd = free /\ from \in Nat /\ free \in Nat /\ from <= free
  BY Bounds DEF Copying, FromEnd
<1>2. ASSUME NEW x \in U PROVE x \in from .. (free - 1)
  <2>1. PICK i \in DOMAIN ViewGraph : x \in WordsOf(Whereabouts(i))
    OBVIOUS
  <2>2. PICK a \in Addr : FromObject(a) /\ hdr[a].id = i
    BY SeenGraph, ViewIsSound DEF ViewSound
  <2>3. x \in WordsOf(a)
    BY <1>1, <2>1, <2>2, WhereaboutsOf
  <2>4. a + SizeOf(a) <= free /\ SizeOf(a) \in Nat /\ from <= a
    BY <1>1, <2>2, ObjectWord DEF FromObject
  <2> QED
    BY <1>1, <2>3, <2>4 DEF WordsOf, Addr
<1>3. ASSUME NEW x \in from .. (free - 1) PROVE x \in U
  <2>1. PICK a \in Addr : FromObject(a) /\ x \in WordsOf(a)
    BY <1>1, Covered
  <2>2. hdr[a].id \in DOMAIN ViewGraph /\ Whereabouts(hdr[a].id) = a
    BY <1>1, <2>1, WhereaboutsOf DEF KeepsOnlyReachable
  <2> QED
    BY <2>1, <2>2
<1>4. U = from .. (free - 1)
  BY <1>2, <1>3
<1>5. Cardinality(from .. (free - 1)) = free - from
  <2>1. PICK b \in Int : b = free - 1
    BY <1>1
  <2>2. Cardinality(from .. b) = IF from > b THEN 0 ELSE b - from + 1
    BY <1>1, FS_Interval
  <2> QED
    BY <1>1, <2>1, <2>2
<1> QED
  BY <1>4, <1>5 DEF ReachableSize

\* Memory is reported exhausted after a collection, when the request does not fit.
LEMMA ExhaustedStep ==
  ASSUME [Next]_vars, status = "running", status' = "out of heap memory"
  PROVE  phase = "retry" /\ RemainSemiSpace < InstanceSize[request.klass]
         /\ request.op \in {"allocate", "unpin"}
<1>1. ~Client
  BY DEF Client, Allocate, Pin, Unpin, DropRef, CopyRef, LoadField, StoreField, TakeInterior,
         TakeLocal, DropInterior, LoadInterior, StoreInterior, Mutating
<1>2. ~MinorGC
  BY DEF MinorGC, ResetObject, EnterRoots, CopyRootWord, CopyRootInterior, EnterScan, ScanRef,
         AdvanceScan, FinishCollection
<1>3. ~ UNCHANGED vars
  BY DEF vars
<1>4. RetryAllocate \/ RetryUnpin
  BY <1>1, <1>2, <1>3 DEF Next, Retry
<1> QED
  BY <1>4 DEF RetryAllocate, RetryUnpin

(* "out of heap memory" is thrown only when the objects the program can reach leave
   no room for the new one: no garbage is counted, whichever half is in use. *)
THEOREM ExhaustionReal == Spec => OutOfMemoryIsReal
<1>1. ASSUME IInv, KeepsOnlyReachable, [Next]_vars,
             status' = "out of heap memory", status = "running"
      PROVE  ReachableSize + InstanceSize[request.klass] > SemiSize
  <2>1. /\ phase = "retry" /\ RemainSemiSpace < InstanceSize[request.klass]
        /\ request.op \in {"allocate", "unpin"}
    BY <1>1, ExhaustedStep
  <2>2. ReachableSize = free - from
    BY <1>1, <2>1, AllReachable
  <2>3. request.klass \in Klass
    BY <1>1, <2>1 DEF IInv, Bookkeeping, Requested, TypeOK, Requests
  <2>4. PICK n \in Nat : n = InstanceSize[request.klass]
    BY <2>3, KlassAssumption
  <2>5. SemiSize - (free - from) < n
    BY <2>1, <2>4 DEF RemainSemiSpace
  <2>6. SemiSize \in Nat /\ free \in Nat /\ from \in Nat
    BY <1>1, Bounds
  <2>7. (free - from) + n > SemiSize
    BY <2>5, <2>6
  <2> QED
    BY <2>2, <2>4, <2>7
<1>2. SoundInv /\ KeepsOnlyReachable /\ [Next]_vars
        => [status' = "out of heap memory" /\ status = "running" =>
              ReachableSize + InstanceSize[request.klass] > SemiSize]_vars
  BY <1>1 DEF SoundInv, Intact
<1> QED
  BY <1>2, Invariance, OnlyReachableKept, PTL DEF Spec, OutOfMemoryIsReal

-----------------------------------------------------------------------------
(***************************************************************************)
(* Why a collection ends.                                                  *)
(***************************************************************************)
\* There are finitely many offsets and roots.
LEMMA FiniteLoops ==
  ASSUME IInv
  PROVE  IsFiniteSet(Offset) /\ IsFiniteSet(pending) /\ IsFiniteSet(todo)
<1>1. \A k \in Klass : IsFiniteSet(RefOffsets[k])
  <2> TAKE k \in Klass
  <2>1. PICK n \in Nat : n = InstanceSize[k] /\ RefOffsets[k] \subseteq 0 .. n
    BY KlassAssumption
  <2>2. IsFiniteSet(0 .. n)
    BY FS_Interval
  <2> QED
    BY <2>1, <2>2, FS_Subset
<1>2. IsFiniteSet({RefOffsets[k] : k \in Klass})
  <2> DEFINE S == {RefOffsets[k] : k \in Klass}
             f == [k \in Klass |-> RefOffsets[k]]
  <2>1. f \in Surjection(Klass, S)
    BY DEF Surjection
  <2> HIDE DEF S, f
  <2>2. IsFiniteSet(S)
    BY <2>1, FiniteAssumption, FS_Surjection
  <2> QED
    BY <2>2 DEF S
<1>3. IsFiniteSet(Offset)
  <2> DEFINE S == {RefOffsets[k] : k \in Klass}
  <2>1. \A T \in S : IsFiniteSet(T)
    BY <1>1
  <2>2. Offset = UNION S
    BY DEF Offset
  <2> HIDE DEF S
  <2> QED
    BY <1>2, <2>1, <2>2, FS_UNION DEF S
<1>4. IsFiniteSet(Word \cup Interior)
  BY FiniteAssumption, FS_Union
<1>5. todo \subseteq Offset /\ pending \subseteq Word \cup Interior
  BY DEF IInv, TypeOK
<1> QED
  BY <1>3, <1>4, <1>5, FS_Subset

\* Taking a member away leaves fewer.
LEMMA OneFewer ==
  ASSUME NEW S, IsFiniteSet(S), NEW x \in S
  PROVE  Cardinality(S \ {x}) < Cardinality(S)
<1>1. Cardinality(S) \in Nat /\ Cardinality(S \ {x}) = Cardinality(S) - 1
  BY FS_CardinalityType, FS_RemoveElement
<1> QED
  BY <1>1

\* Leaving an object whose references are done brings the end of the scan nearer
\* than the references of the next object put it off.
LEMMA AdvanceNearer ==
  ASSUME NEW n \in Nat, NEW m \in Nat, m <= n, NEW left \in Nat, NEW size \in Nat,
         0 < size
  PROVE  (n + 1) * (left - size) + m < (n + 1) * left
<1>1. (n + 1) * (left - size) = (n + 1) * left - (n + 1) * size
  OBVIOUS
<1>2. size = 1 + (size - 1) /\ size - 1 \in Nat
  OBVIOUS
<1>3. (n + 1) * size = (n + 1) + (n + 1) * (size - 1)
  BY <1>2
<1>4. (n + 1) * (size - 1) \in Nat /\ (n + 1) * left \in Nat
  BY <1>2
<1> QED
  BY <1>1, <1>3, <1>4

LEMMA AdvanceProgress ==
  ASSUME IInv, AdvanceScan
  PROVE  phase' = phase /\ LoopLeft' < LoopLeft
<1>1. phase = "scan" /\ phase' = "scan" /\ to' = to /\ todo = {} /\ cursor < free
  BY DEF AdvanceScan, Collecting, heapVars
<1>2. cursor \in Addr /\ IsObject(cursor) /\ to <= cursor /\ free <= to + SemiSize
  BY <1>1, Bounds DEF IInv, Parsable, Copying, Addr
<1>3. PICK s : s = SizeOf(cursor)
  OBVIOUS
<1>4. s \in Nat /\ 0 < s /\ cursor' = cursor + s
  BY <1>2, <1>3, SizeType DEF AdvanceScan
<1>5. todo' \subseteq Offset
  BY <1>4, AdvanceScanInv DEF IInv, TypeOK
<1>6. PICK n : n = Cardinality(Offset)
  OBVIOUS
<1>7. PICK m : m = Cardinality(todo')
  OBVIOUS
<1>8. n \in Nat /\ m \in Nat /\ m <= n /\ Cardinality(todo) = 0
  BY <1>1, <1>5, <1>6, <1>7, FiniteLoops, FS_CardinalityType, FS_Subset, FS_EmptySet
<1>9. PICK left : left = to + SemiSize - cursor
  OBVIOUS
<1>10. left \in Nat /\ to' + SemiSize - cursor' = left - s
  BY <1>1, <1>2, <1>4, <1>9, Bounds
<1>11. LoopLeft = (n + 1) * left + 0
  BY <1>1, <1>6, <1>8, <1>9 DEF LoopLeft
<1>12. LoopLeft' = (n + 1) * (left - s) + m
  BY <1>1, <1>6, <1>7, <1>10 DEF LoopLeft
<1>13. (n + 1) * (left - s) + m < (n + 1) * left
  BY <1>4, <1>8, <1>10, AdvanceNearer
<1>14. (n + 1) * left + 0 = (n + 1) * left
  BY <1>8, <1>10
<1> QED
  BY <1>1, <1>11, <1>12, <1>13, <1>14

LEMMA ScanProgress ==
  ASSUME IInv, NEW o, ScanRef(o)
  PROVE  phase' = phase /\ LoopLeft' < LoopLeft
<1>1. phase = "scan" /\ phase' = "scan" /\ to' = to /\ cursor' = cursor
      /\ o \in todo /\ todo' = todo \ {o}
  BY DEF ScanRef, Collecting
<1>2. IsFiniteSet(todo) /\ IsFiniteSet(Offset)
  BY FiniteLoops
<1>3. PICK n : n = (Cardinality(Offset) + 1) * (to + SemiSize - cursor)
  OBVIOUS
<1>4. n \in Int
  <2>1. Cardinality(Offset) + 1 \in Int
    BY <1>2, FS_CardinalityType
  <2>2. to + SemiSize - cursor \in Int
    BY Bounds
  <2> QED
    BY <1>3, <2>1, <2>2
<1>5. Cardinality(todo') < Cardinality(todo)
  BY <1>1, <1>2, OneFewer
<1>6. Cardinality(todo) \in Nat /\ Cardinality(todo') \in Nat
  BY <1>1, <1>2, FS_CardinalityType, FS_RemoveElement
<1>7. LoopLeft = n + Cardinality(todo) /\ LoopLeft' = n + Cardinality(todo')
  BY <1>1, <1>3 DEF LoopLeft
<1> QED
  BY <1>1, <1>4, <1>5, <1>6, <1>7

\* The loops over from-space and over the roots.
LEMMA LoopProgress ==
  ASSUME IInv, \/ ResetObject
               \/ \E w \in Word : CopyRootWord(w)
               \/ \E i \in Interior : CopyRootInterior(i)
  PROVE  phase' = phase /\ LoopLeft' < LoopLeft
<1>1. CASE ResetObject
  <2>1. phase = "reset" /\ phase' = "reset" /\ cursor < free /\ free' = free
        /\ cursor' = cursor + SizeOf(cursor)
    BY <1>1 DEF ResetObject, Collecting
  <2>2. cursor \in Addr /\ IsObject(cursor)
    BY <2>1, Bounds DEF IInv, Parsable, Addr, FromEnd, Copying
  <2>3. SizeOf(cursor) \in Nat /\ SizeOf(cursor) > 0
    BY <2>2, SizeType
  <2>4. LoopLeft = free - cursor /\ LoopLeft' = free' - cursor'
    BY <2>1 DEF LoopLeft
  <2> QED
    BY <2>1, <2>3, <2>4, Bounds
<1>2. ASSUME NEW x \in pending, phase = "roots", phase' = "roots", pending' = pending \ {x}
      PROVE  phase' = phase /\ LoopLeft' < LoopLeft
  <2>1. LoopLeft = Cardinality(pending) /\ LoopLeft' = Cardinality(pending')
    BY <1>2 DEF LoopLeft
  <2> QED
    BY <1>2, <2>1, FiniteLoops, OneFewer
<1> QED
  BY <1>1, <1>2 DEF CopyRootWord, CopyRootInterior, Collecting

(* Every step of a collection brings its end nearer, although copying moves the end
   of the queue that the scan chases: minorGC cannot run for ever. *)
THEOREM CollectionEnds == Spec => CollectionProgress
<1>1. ASSUME IInv, Next, InCollection
      PROVE  \/ PhaseRank[phase'] < PhaseRank[phase]
             \/ phase' = phase /\ LoopLeft' < LoopLeft
  <2>1. ~Client
    BY <1>1 DEF InCollection, Client, Allocate, Pin, Unpin, DropRef, CopyRef, LoadField,
         StoreField, TakeInterior, TakeLocal, DropInterior, LoadInterior, StoreInterior, Mutating
  <2>2. CASE EnterRoots \/ EnterScan \/ FinishCollection \/ Retry
    <3>1. \/ phase = "reset" /\ phase' = "roots"
          \/ phase = "roots" /\ phase' = "scan"
          \/ phase = "scan" /\ phase' \in {"mutator", "retry"}
          \/ phase = "retry" /\ phase' = "mutator"
      BY <2>2 DEF EnterRoots, EnterScan, FinishCollection, Retry, RetryAllocate, RetryUnpin,
         Collecting
    <3> QED
      BY <3>1 DEF PhaseRank
  <2> QED
    BY <1>1, <2>1, <2>2, LoopProgress, ScanProgress, AdvanceProgress DEF Next, MinorGC
<1>2. SoundInv /\ [Next]_vars =>
        [InCollection => \/ PhaseRank[phase'] < PhaseRank[phase]
                         \/ phase' = phase /\ LoopLeft' < LoopLeft]_vars
  BY <1>1 DEF SoundInv, InCollection
<1> QED
  BY <1>2, Invariance, PTL DEF Spec, CollectionProgress

=============================================================================
