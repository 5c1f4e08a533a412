------------------------- MODULE InteropAgent_proofs -------------------------
(***************************************************************************)
(* The agent's handles and pointers, proved for every set of objects: no   *)
(* collection makes a pointer stale, and every cell counts its handles.    *)
(***************************************************************************)
EXTENDS InteropAgent, DataLemmas

-----------------------------------------------------------------------------
(***************************************************************************)
(* The last of a sequence.                                                 *)
(***************************************************************************)
LEMMA FrontSeq ==
  ASSUME NEW s, IsSeq(s), s # <<>>
  PROVE  /\ IsSeq(Front(s)) /\ Len(Front(s)) = Len(s) - 1 /\ Len(s) \in Nat \ {0}
         /\ DOMAIN Front(s) = 1 .. Len(s) - 1
         /\ \A n \in 1 .. Len(s) - 1 : Front(s)[n] = s[n]
         /\ Last(s) = s[Len(s)]
<1>1. Len(s) \in Nat /\ Len(s) # 0
  BY DEF IsSeq
<1>2. Len(s) - 1 \in 0 .. Len(s)
  BY <1>1
<1> QED
  BY <1>1, <1>2, FirstSeq DEF Front, Last

-----------------------------------------------------------------------------
(***************************************************************************)
(* The memory: what any sequence of allocations leaves true of it.         *)
(***************************************************************************)
Processors == {"main", "agent"}
Constructed == Klasses \cup {"String", "Exception"}

Live(m, ptr) == ptr = Null \/ \E id \in DOMAIN m.heap : ptr = Ptr(id)

\* Objects refer to objects, or hold scraps.
Objects(m) ==
  /\ m.heap = [id \in DOMAIN m.heap |-> m.heap[id]] /\ DOMAIN m.heap \subseteq Ids
  /\ \A id \in DOMAIN m.heap :
       /\ m.heap[id] = [klass |-> m.heap[id].klass, refs |-> m.heap[id].refs,
                        text |-> m.heap[id].text]
       /\ \A f \in DOMAIN m.heap[id].refs : m.heap[id].refs[f] \in DOMAIN m.heap \cup {0, Scrap}

IsCell(m, cell) ==
  /\ cell = [ins |-> cell.ins, count |-> cell.count]
  /\ cell.count \in Nat \ {0} /\ Live(m, cell.ins)
Cells(m) ==
  /\ m.cells = [c \in DOMAIN m.cells |-> m.cells[c]]
  /\ IsFiniteSet(DOMAIN m.cells) /\ DOMAIN m.cells \subseteq Nat \ {0}
  /\ \A c \in DOMAIN m.cells : IsCell(m, m.cells[c])

IsItem(m, item) == item = [ptr |-> item.ptr, meant |-> item.meant] /\ Live(m, item.ptr)
Operands(m) ==
  /\ m.operand = [p \in Processors |-> m.operand[p]]
  /\ \A p \in Processors : /\ IsSeq(m.operand[p])
                           /\ \A n \in DOMAIN m.operand[p] : IsItem(m, m.operand[p][n])

IsFrame(m, frame) ==
  /\ frame = [klass |-> frame.klass, ip |-> frame.ip, slots |-> frame.slots]
  /\ frame.klass \in Constructed /\ frame.ip \in DOMAIN Ctor(frame.klass)
  /\ IsSeq(frame.slots) /\ Len(frame.slots) = Arity(frame.klass) + 1
  /\ \A n \in DOMAIN frame.slots : Live(m, frame.slots[n])
CtorFrames(m) ==
  /\ IsSeq(m.frames)
  /\ \A d \in DOMAIN m.frames : IsFrame(m, m.frames[d])

\* What is registered: all cells and slots, and the operands that are references.
CellRoots(m) == {CellAt(c) : c \in DOMAIN m.cells}
OperandRoots(m, p) == {OperandAt(p, n) : n \in DOMAIN m.operand[p]}
Roots(m) ==
  /\ m.roots \subseteq CellRoots(m) \cup Slots(m) \cup UNION {OperandRoots(m, p) : p \in Processors}
  /\ CellRoots(m) \subseteq m.roots /\ Slots(m) \subseteq m.roots
  /\ OperandRoots(m, "main") \subseteq m.roots
  /\ \A n \in DOMAIN m.operand["agent"] :
       m.operand["agent"][n].ptr # Null => OperandAt("agent", n) \in m.roots

Sound(m) ==
  /\ m = [heap |-> m.heap, cells |-> m.cells, operand |-> m.operand, frames |-> m.frames,
          roots |-> m.roots]
  /\ Objects(m) /\ Cells(m) /\ Operands(m) /\ CtorFrames(m) /\ Roots(m)

-----------------------------------------------------------------------------
(***************************************************************************)
(* What a collection keeps.                                                *)
(***************************************************************************)
\* A step of the recursion of ReachedFrom.
Around(m, S) == S \cup UNION {References(m, id) : id \in S}
Rings(m, start, f, n) == IF n = 0 THEN start \ {0} ELSE Around(m, f[n - 1])

LEMMA RingsExist ==
  ASSUME NEW m, NEW start
  PROVE  \A k \in Nat : \E f : f = [n \in 0 .. k |-> Rings(m, start, f, n)]
<1> DEFINE S == {k \in Nat : \E f : f = [n \in 0 .. k |-> Rings(m, start, f, n)]}
<1>1. 0 \in S
  <2> DEFINE g == [n \in 0 .. 0 |-> start \ {0}]
  <2>1. g = [n \in 0 .. 0 |-> Rings(m, start, g, n)]
    BY DEF Rings
  <2> HIDE DEF g
  <2> QED
    BY <2>1
<1>2. ASSUME NEW k \in S PROVE k + 1 \in S
  <2>1. PICK f : f = [n \in 0 .. k |-> Rings(m, start, f, n)]
    BY <1>2
  <2> DEFINE g == [n \in 0 .. k + 1 |-> IF n = k + 1 THEN Rings(m, start, f, n) ELSE f[n]]
  <2>2. ASSUME NEW n \in 0 .. k + 1 PROVE g[n] = Rings(m, start, g, n)
    <3>1. k \in Nat
      OBVIOUS
    <3>2. CASE n = 0
      BY <2>1, <3>1, <3>2 DEF Rings
    <3>3. CASE n # 0
      <4>1. n - 1 \in 0 .. k /\ g[n - 1] = f[n - 1]
        BY <3>1, <3>3
      <4>2. g[n] = Rings(m, start, f, n)
        BY <2>1, <3>1
      <4> QED
        BY <3>3, <4>1, <4>2 DEF Rings
    <3> QED
      BY <3>2, <3>3
  <2>3. g = [n \in 0 .. k + 1 |-> g[n]]
    OBVIOUS
  <2> HIDE DEF g
  <2>4. g = [n \in 0 .. k + 1 |-> Rings(m, start, g, n)]
    BY <2>2, <2>3
  <2> QED
    BY <2>4
<1> HIDE DEF S
<1>3. S = Nat
  <2>1. S \subseteq Nat
    BY DEF S
  <2> QED
    BY <1>1, <1>2, <2>1, SetInduction
<1> QED
  BY <1>3 DEF S

IdCount == Cardinality(Ids)
Ring(m, start) == CHOOSE f : f = [n \in 0 .. IdCount |-> Rings(m, start, f, n)]

LEMMA RingSteps ==
  ASSUME NEW m, NEW start
  PROVE  /\ IdCount \in Nat
         /\ ReachedFrom(m, start) = Ring(m, start)[IdCount]
         /\ Ring(m, start)[0] = start \ {0}
         /\ \A n \in 0 .. IdCount - 1 :
              Ring(m, start)[n + 1] = Around(m, Ring(m, start)[n])
<1>1. IdCount \in Nat
  BY AgentAssumption, FS_CardinalityType DEF IdCount
<1>2. Ring(m, start) = [n \in 0 .. IdCount |-> Rings(m, start, Ring(m, start), n)]
  <2>1. \E f : f = [n \in 0 .. IdCount |-> Rings(m, start, f, n)]
    BY <1>1, RingsExist
  <2> QED
    BY <2>1 DEF Ring
<1>3. ReachedFrom(m, start) = Ring(m, start)[IdCount]
  BY DEF ReachedFrom, Ring, Rings, Around, IdCount
<1>4. \A n \in 0 .. IdCount : Ring(m, start)[n] = Rings(m, start, Ring(m, start), n)
  BY <1>2
<1>5. Ring(m, start)[0] = start \ {0}
  <2>1. Ring(m, start)[0] = Rings(m, start, Ring(m, start), 0)
    BY <1>1, <1>4
  <2> QED
    BY <2>1 DEF Rings
<1>6. ASSUME NEW n \in 0 .. IdCount - 1
      PROVE  Ring(m, start)[n + 1] = Around(m, Ring(m, start)[n])
  <2>1. n + 1 \in 0 .. IdCount /\ n + 1 # 0 /\ (n + 1) - 1 = n
    BY <1>1
  <2>2. Ring(m, start)[n + 1] = Rings(m, start, Ring(m, start), n + 1)
    BY <1>4, <2>1
  <2> QED
    BY <2>1, <2>2 DEF Rings
<1> QED
  BY <1>1, <1>3, <1>5, <1>6

\* The references of the objects kept are kept: there are not more rings than objects.
LEMMA ReachedClosed ==
  ASSUME NEW m, Objects(m), NEW start, start \subseteq DOMAIN m.heap \cup {0}
  PROVE  /\ start \ {0} \subseteq ReachedFrom(m, start)
         /\ ReachedFrom(m, start) \subseteq DOMAIN m.heap
         /\ \A id \in ReachedFrom(m, start) : References(m, id) \subseteq ReachedFrom(m, start)
<1> DEFINE R == Ring(m, start)
           N == IdCount
           H == DOMAIN m.heap
           S == {n \in 0 .. N : /\ start \ {0} \subseteq R[n] /\ R[n] \subseteq H
                                /\ Around(m, R[n]) = R[n] \/ n <= Cardinality(R[n])}
<1>1. /\ N \in Nat /\ ReachedFrom(m, start) = R[N] /\ R[0] = start \ {0}
      /\ \A n \in 0 .. N - 1 : R[n + 1] = Around(m, R[n])
  BY RingSteps
<1>2. H \subseteq Ids /\ IsFiniteSet(Ids) /\ 0 \notin Ids
  BY AgentAssumption DEF Objects
<1>3. \A id \in H : References(m, id) \subseteq H
  BY DEF References, Objects
<1>4. \A T : T \subseteq H => T \subseteq Around(m, T) /\ Around(m, T) \subseteq H
  BY <1>3 DEF Around
<1>5. \A T : T \subseteq H => IsFiniteSet(T) /\ Cardinality(T) \in Nat
  BY <1>2, FS_Subset, FS_CardinalityType
<1> HIDE DEF R, N
<1>6. 0 \in S
  BY <1>1, <1>5
<1>7. ASSUME NEW n \in 0 .. N - 1, n \in S PROVE n + 1 \in S
  <2>1. R[n + 1] = Around(m, R[n]) /\ R[n] \subseteq H
    BY <1>1, <1>7
  <2>2. R[n] \subseteq R[n + 1] /\ R[n + 1] \subseteq H
    BY <1>4, <2>1
  <2>3. CASE R[n + 1] = R[n]
    BY <1>1, <1>7, <2>1, <2>2, <2>3
  <2>4. CASE R[n + 1] # R[n]
    <3>1. n <= Cardinality(R[n])
      BY <1>7, <2>1, <2>4
    <3>2. IsFiniteSet(R[n + 1])
      BY <1>5, <2>2
    <3>3. Cardinality(R[n]) < Cardinality(R[n + 1])
      <4>1. Cardinality(R[n]) <= Cardinality(R[n + 1])
        BY <2>2, <3>2, FS_Subset
      <4>2. Cardinality(R[n]) # Cardinality(R[n + 1])
        BY <2>2, <2>4, <3>2, FS_Subset
      <4> QED
        BY <1>5, <2>1, <2>2, <4>1, <4>2
    <3>4. Cardinality(R[n]) \in Nat /\ Cardinality(R[n + 1]) \in Nat
      BY <1>5, <2>1, <2>2
    <3>5. n + 1 <= Cardinality(R[n + 1])
      BY <1>1, <3>1, <3>3, <3>4
    <3> QED
      BY <1>1, <1>7, <2>2, <3>5
  <2> QED
    BY <2>3, <2>4
<1>8. N \in S
  <2> HIDE DEF S
  <2> QED
    BY <1>1, <1>6, <1>7, BoundedInduction
<1>9. start \ {0} \subseteq R[N] /\ R[N] \subseteq H
  BY <1>8
<1>10. Around(m, R[N]) = R[N]
  <2>1. CASE N <= Cardinality(R[N])
    <3>1. R[N] \subseteq Ids /\ Cardinality(R[N]) <= Cardinality(Ids)
      BY <1>2, <1>9, FS_Subset
    <3>2. Cardinality(R[N]) = Cardinality(Ids)
      BY <1>1, <1>5, <1>9, <2>1, <3>1 DEF N, IdCount
    <3>3. R[N] = Ids
      BY <1>2, <3>1, <3>2, FS_Subset
    <3>4. R[N] = H
      BY <1>2, <1>9, <3>3
    <3> QED
      BY <1>4, <3>4
  <2> QED
    BY <1>8, <2>1
<1> QED
  BY <1>1, <1>9, <1>10 DEF Around

-----------------------------------------------------------------------------
(***************************************************************************)
(* A collection takes away objects no pointer leads to, and nothing else.  *)
(***************************************************************************)
Restricted(m, K) == [m EXCEPT !.heap = [id \in K |-> m.heap[id]]]

\* K holds the objects of all pointers, and with an object those it refers to.
Enough(m, K) ==
  /\ K \subseteq DOMAIN m.heap
  /\ \A id \in K : References(m, id) \subseteq K
  /\ \A c \in DOMAIN m.cells : m.cells[c].ins.obj \in K \cup {0}
  /\ \A p \in Processors : \A n \in DOMAIN m.operand[p] :
       m.operand[p][n].ptr.obj \in K \cup {0}
  /\ \A d \in DOMAIN m.frames : \A n \in DOMAIN m.frames[d].slots :
       m.frames[d].slots[n].obj \in K \cup {0}

\* No object has the number 0.
LEMMA LiveObject ==
  ASSUME NEW m, Objects(m), NEW ptr, Live(m, ptr)
  PROVE  ptr = Null \/ (ptr.obj \in DOMAIN m.heap /\ ptr = Ptr(ptr.obj) /\ ptr # Null)
<1>1. 0 \notin DOMAIN m.heap
  BY AgentAssumption DEF Objects
<1> QED
  BY <1>1 DEF Live, Ptr, Null

LEMMA StillLive ==
  ASSUME NEW m, NEW K, K \subseteq DOMAIN m.heap, Objects(m), NEW ptr, Live(m, ptr),
         ptr.obj \in K \cup {0}
  PROVE  Live(Restricted(m, K), ptr)
<1>1. CASE ptr = Null
  BY <1>1 DEF Live
<1>2. CASE ptr # Null
  <2>1. ptr.obj \in DOMAIN m.heap /\ ptr = Ptr(ptr.obj) /\ 0 \notin DOMAIN m.heap
    BY <1>2, LiveObject, AgentAssumption DEF Objects
  <2> QED
    BY <2>1 DEF Live, Restricted
<1> QED
  BY <1>1, <1>2

LEMMA RestrictedSound ==
  ASSUME NEW m, Sound(m), NEW K, Enough(m, K)
  PROVE  /\ Sound(Restricted(m, K))
         /\ Restricted(m, K).cells = m.cells /\ Restricted(m, K).operand = m.operand
         /\ Restricted(m, K).frames = m.frames /\ Restricted(m, K).roots = m.roots
<1> DEFINE r == Restricted(m, K)
<1>1. /\ r = [heap |-> r.heap, cells |-> r.cells, operand |-> r.operand, frames |-> r.frames,
              roots |-> r.roots]
      /\ r.heap = [id \in K |-> m.heap[id]] /\ r.cells = m.cells /\ r.operand = m.operand
      /\ r.frames = m.frames /\ r.roots = m.roots
  BY DEF Sound, Restricted
<1>2. \A ptr : Live(m, ptr) /\ ptr.obj \in K \cup {0} => Live(r, ptr)
  BY StillLive DEF Sound, Enough
<1> HIDE DEF r
<1>3. Objects(r)
  <2>1. DOMAIN r.heap = K /\ \A id \in K : r.heap[id] = m.heap[id]
    BY <1>1
  <2>2. ASSUME NEW id \in K, NEW f \in DOMAIN m.heap[id].refs
        PROVE  m.heap[id].refs[f] \in K \cup {0, Scrap}
    BY <2>2 DEF Enough, References
  <2>3. K \subseteq DOMAIN m.heap /\ Objects(m)
    BY DEF Enough, Sound
  <2> QED
    BY <1>1, <2>1, <2>2, <2>3 DEF Objects
<1>4. Cells(r)
  BY <1>1, <1>2 DEF Sound, Cells, IsCell, Enough
<1>5. Operands(r)
  BY <1>1, <1>2 DEF Sound, Operands, IsItem, Enough
<1>6. CtorFrames(r)
  BY <1>1, <1>2 DEF Sound, CtorFrames, IsFrame, Enough
<1>7. Roots(r)
  BY <1>1 DEF Sound, Roots, CellRoots, OperandRoots, Slots
<1> QED
  BY <1>1, <1>3, <1>4, <1>5, <1>6, <1>7 DEF Sound, r

\* Pointers by their addresses.
LEMMA PointersAt ==
  ASSUME NEW m
  PROVE  /\ \A c : PointerAt(m, CellAt(c)) = m.cells[c].ins
         /\ \A d, n : PointerAt(m, SlotAt(d, n)) = m.frames[d].slots[n]
         /\ \A p \in Processors : \A n : PointerAt(m, OperandAt(p, n)) = m.operand[p][n].ptr
BY DEF PointerAt, CellAt, SlotAt, OperandAt, Processors

\* Nothing is left behind by a collection: what is not registered is null.
LEMMA AllRegistered ==
  ASSUME NEW m, Sound(m)
  PROVE  /\ \A c \in DOMAIN m.cells : CellAt(c) \in m.roots
         /\ \A p \in Processors : \A n \in DOMAIN m.operand[p] :
              OperandAt(p, n) \in m.roots \/ m.operand[p][n].ptr = Null
         /\ \A d \in DOMAIN m.frames : \A n \in DOMAIN m.frames[d].slots :
              SlotAt(d, n) \in m.roots
BY DEF Sound, Roots, CellRoots, OperandRoots, Slots, Processors

LEMMA CollectedIs ==
  ASSUME NEW m, Sound(m)
  PROVE  Collected(m) = Restricted(m, Survivors(m))
<1> DEFINE kept == Survivors(m)
           cells == [c \in DOMAIN m.cells |->
                       [m.cells[c] EXCEPT !.ins = After(m, CellAt(c), @)]]
           operand == [p \in DOMAIN m.operand |-> [n \in DOMAIN m.operand[p] |->
                         [m.operand[p][n] EXCEPT !.ptr = After(m, OperandAt(p, n), @)]]]
           frames == [d \in DOMAIN m.frames |->
                        [m.frames[d] EXCEPT !.slots =
                           [n \in DOMAIN @ |-> After(m, SlotAt(d, n), @[n])]]]
<1>1. Collected(m) = [m EXCEPT !.heap = [id \in kept |-> m.heap[id]], !.cells = cells,
                               !.operand = operand, !.frames = frames]
  BY DEF Collected
<1>2. cells = m.cells
  <2>1. ASSUME NEW c \in DOMAIN m.cells
        PROVE  [m.cells[c] EXCEPT !.ins = After(m, CellAt(c), @)] = m.cells[c]
    <3>1. After(m, CellAt(c), m.cells[c].ins) = m.cells[c].ins
      BY AllRegistered DEF After
    <3>2. m.cells[c] = [ins |-> m.cells[c].ins, count |-> m.cells[c].count]
      BY DEF Sound, Cells, IsCell
    <3> QED
      BY <3>1, <3>2
  <2>2. m.cells = [c \in DOMAIN m.cells |-> m.cells[c]]
    BY DEF Sound, Cells
  <2> QED
    BY <2>1, <2>2
<1>3. operand = m.operand
  <2>1. ASSUME NEW p \in Processors, NEW n \in DOMAIN m.operand[p]
        PROVE  [m.operand[p][n] EXCEPT !.ptr = After(m, OperandAt(p, n), @)] = m.operand[p][n]
    <3>1. After(m, OperandAt(p, n), m.operand[p][n].ptr) = m.operand[p][n].ptr
      BY AllRegistered DEF After
    <3>2. m.operand[p][n] = [ptr |-> m.operand[p][n].ptr, meant |-> m.operand[p][n].meant]
      BY DEF Sound, Operands, IsItem
    <3> QED
      BY <3>1, <3>2
  <2>2. m.operand = [p \in Processors |-> m.operand[p]] /\ DOMAIN m.operand = Processors
    BY DEF Sound, Operands
  <2>3. \A p \in Processors : m.operand[p] = [n \in DOMAIN m.operand[p] |-> m.operand[p][n]]
    BY DEF Sound, Operands, IsSeq
  <2> DEFINE row(p) == [n \in DOMAIN m.operand[p] |->
                          [m.operand[p][n] EXCEPT !.ptr = After(m, OperandAt(p, n), @)]]
  <2>4. \A p \in Processors : row(p) = m.operand[p]
    BY <2>1, <2>3
  <2>5. operand = [p \in Processors |-> row(p)]
    BY <2>2
  <2> HIDE DEF row, operand
  <2> QED
    BY <2>2, <2>4, <2>5
<1>4. frames = m.frames
  <2>1. ASSUME NEW d \in DOMAIN m.frames
        PROVE  [m.frames[d] EXCEPT !.slots = [n \in DOMAIN @ |-> After(m, SlotAt(d, n), @[n])]]
                 = m.frames[d]
    <3> DEFINE slots == m.frames[d].slots
    <3>1. \A n \in DOMAIN slots : After(m, SlotAt(d, n), slots[n]) = slots[n]
      BY AllRegistered DEF After
    <3>2. slots = [n \in DOMAIN slots |-> slots[n]]
      BY DEF Sound, CtorFrames, IsFrame, IsSeq
    <3>3. [n \in DOMAIN slots |-> After(m, SlotAt(d, n), slots[n])] = slots
      BY <3>1, <3>2
    <3>4. m.frames[d] = [klass |-> m.frames[d].klass, ip |-> m.frames[d].ip, slots |-> slots]
      BY DEF Sound, CtorFrames, IsFrame
    <3> HIDE DEF slots
    <3> QED
      BY <3>3, <3>4 DEF slots
  <2>2. m.frames = [d \in DOMAIN m.frames |-> m.frames[d]]
    BY DEF Sound, CtorFrames, IsSeq
  <2> QED
    BY <2>1, <2>2
<1>5. m = [heap |-> m.heap, cells |-> m.cells, operand |-> m.operand, frames |-> m.frames,
           roots |-> m.roots]
  BY DEF Sound
<1> HIDE DEF cells, operand, frames, kept
<1> QED
  BY <1>1, <1>2, <1>3, <1>4, <1>5 DEF Restricted, kept

\* The pointers of the roots reach every object a pointer leads to, and so do all
\* pointers.
LEMMA SurvivorsEnough ==
  ASSUME NEW m, Sound(m)
  PROVE  Enough(m, Survivors(m))
<1> DEFINE start == {PointerAt(m, at).obj : at \in m.roots}
<1>1. ASSUME NEW at \in m.roots PROVE PointerAt(m, at).obj \in DOMAIN m.heap \cup {0}
  <2>1. \A ptr : Live(m, ptr) => ptr.obj \in DOMAIN m.heap \cup {0}
    BY LiveObject DEF Sound, Null
  <2>2. at \in CellRoots(m) \cup Slots(m) \cup UNION {OperandRoots(m, p) : p \in Processors}
    BY DEF Sound, Roots
  <2>3. CASE at \in CellRoots(m)
    <3>1. PICK c \in DOMAIN m.cells : at = CellAt(c)
      BY <2>3 DEF CellRoots
    <3>2. Live(m, m.cells[c].ins)
      BY DEF Sound, Cells, IsCell
    <3> QED
      BY <2>1, <3>1, <3>2, PointersAt
  <2>4. CASE at \in Slots(m)
    <3>0. PICK d \in DOMAIN m.frames : \E n \in DOMAIN m.frames[d].slots : at = SlotAt(d, n)
      BY <2>4 DEF Slots
    <3>1. PICK n \in DOMAIN m.frames[d].slots : at = SlotAt(d, n)
      BY <3>0
    <3>2. Live(m, m.frames[d].slots[n])
      BY DEF Sound, CtorFrames, IsFrame
    <3> QED
      BY <2>1, <3>1, <3>2, PointersAt
  <2>5. CASE at \in UNION {OperandRoots(m, p) : p \in Processors}
    <3>0. PICK p \in Processors : at \in OperandRoots(m, p)
      BY <2>5
    <3>1. PICK n \in DOMAIN m.operand[p] : at = OperandAt(p, n)
      BY <3>0 DEF OperandRoots
    <3>2. Live(m, m.operand[p][n].ptr)
      BY DEF Sound, Operands, IsItem
    <3> QED
      BY <2>1, <3>1, <3>2, PointersAt
  <2> QED
    BY <2>2, <2>3, <2>4, <2>5
<1>2. start \subseteq DOMAIN m.heap \cup {0}
  BY <1>1
<1>3. /\ start \subseteq Survivors(m) \cup {0} /\ Survivors(m) \subseteq DOMAIN m.heap
      /\ \A id \in Survivors(m) : References(m, id) \subseteq Survivors(m)
  <2>1. Survivors(m) = ReachedFrom(m, start) /\ Objects(m)
    BY DEF Survivors, Sound
  <2> HIDE DEF start
  <2>2. /\ start \ {0} \subseteq ReachedFrom(m, start)
        /\ ReachedFrom(m, start) \subseteq DOMAIN m.heap
        /\ \A id \in ReachedFrom(m, start) : References(m, id) \subseteq ReachedFrom(m, start)
    BY <1>2, <2>1, ReachedClosed
  <2> QED
    BY <2>1, <2>2
<1>4. ASSUME NEW c \in DOMAIN m.cells PROVE m.cells[c].ins.obj \in start
  <2>1. CellAt(c) \in m.roots /\ PointerAt(m, CellAt(c)) = m.cells[c].ins
    BY AllRegistered, PointersAt
  <2> QED
    BY <2>1
<1>5. ASSUME NEW p \in Processors, NEW n \in DOMAIN m.operand[p]
      PROVE  m.operand[p][n].ptr.obj \in start \cup {0}
  <2>1. OperandAt(p, n) \in m.roots \/ m.operand[p][n].ptr = Null
    BY AllRegistered
  <2>2. PointerAt(m, OperandAt(p, n)) = m.operand[p][n].ptr
    BY PointersAt
  <2> QED
    BY <2>1, <2>2 DEF Null
<1>6. ASSUME NEW d \in DOMAIN m.frames, NEW n \in DOMAIN m.frames[d].slots
      PROVE  m.frames[d].slots[n].obj \in start
  <2>1. SlotAt(d, n) \in m.roots /\ PointerAt(m, SlotAt(d, n)) = m.frames[d].slots[n]
    BY AllRegistered, PointersAt
  <2> QED
    BY <2>1
<1> HIDE DEF start
<1> QED
  BY <1>3, <1>4, <1>5, <1>6 DEF Enough

LEMMA KnownEnough ==
  ASSUME NEW m, Sound(m)
  PROVE  Enough(m, Known(m) \cap DOMAIN m.heap)
<1> DEFINE ofCells == {m.cells[c].ins.obj : c \in DOMAIN m.cells}
           of(p) == {o.ptr.obj : o \in ToSet(m.operand[p])}
           ofOperands == UNION {of(p) : p \in DOMAIN m.operand}
           ofSlots == {PointerAt(m, at).obj : at \in Slots(m)}
           start == ofCells \cup ofOperands \cup ofSlots
<1>0. \A ptr : Live(m, ptr) => ptr.obj \in DOMAIN m.heap \cup {0}
  BY LiveObject DEF Sound, Null
<1>a. DOMAIN m.operand = Processors
  BY DEF Sound, Operands
<1>1. ASSUME NEW c \in DOMAIN m.cells
      PROVE  m.cells[c].ins.obj \in start /\ m.cells[c].ins.obj \in DOMAIN m.heap \cup {0}
  BY <1>0 DEF Sound, Cells, IsCell
<1>2. ASSUME NEW p \in Processors, NEW n \in DOMAIN m.operand[p]
      PROVE  /\ m.operand[p][n] \in ToSet(m.operand[p])
             /\ m.operand[p][n].ptr.obj \in start
             /\ m.operand[p][n].ptr.obj \in DOMAIN m.heap \cup {0}
  <2>1. m.operand[p][n] \in ToSet(m.operand[p])
    BY DEF ToSet
  <2>2. Live(m, m.operand[p][n].ptr)
    BY DEF Sound, Operands, IsItem
  <2>3. m.operand[p][n].ptr.obj \in of(p)
    BY <2>1
  <2>4. m.operand[p][n].ptr.obj \in ofOperands
    BY <1>a, <2>3
  <2> QED
    BY <1>0, <2>1, <2>2, <2>4
<1>3. ASSUME NEW d \in DOMAIN m.frames, NEW n \in DOMAIN m.frames[d].slots
      PROVE  /\ m.frames[d].slots[n].obj \in start
             /\ m.frames[d].slots[n].obj \in DOMAIN m.heap \cup {0}
             /\ PointerAt(m, SlotAt(d, n)) = m.frames[d].slots[n]
  <2>1. SlotAt(d, n) \in Slots(m)
    BY DEF Slots
  <2>2. Live(m, m.frames[d].slots[n])
    BY DEF Sound, CtorFrames, IsFrame
  <2>3. PointerAt(m, SlotAt(d, n)) = m.frames[d].slots[n]
    BY PointersAt
  <2>4. m.frames[d].slots[n].obj \in ofSlots
    BY <2>1, <2>3
  <2> QED
    BY <1>0, <2>2, <2>3, <2>4
<1>4. start \subseteq DOMAIN m.heap \cup {0}
  <2>1. ASSUME NEW p \in Processors, NEW o \in ToSet(m.operand[p])
        PROVE  o.ptr.obj \in DOMAIN m.heap \cup {0}
    <3>1. PICK n \in DOMAIN m.operand[p] : o = m.operand[p][n]
      BY DEF ToSet
    <3> QED
      BY <1>2, <3>1
  <2>2. ASSUME NEW at \in Slots(m) PROVE PointerAt(m, at).obj \in DOMAIN m.heap \cup {0}
    <3>0. PICK d \in DOMAIN m.frames : \E n \in DOMAIN m.frames[d].slots : at = SlotAt(d, n)
      BY DEF Slots
    <3>1. PICK n \in DOMAIN m.frames[d].slots : at = SlotAt(d, n)
      BY <3>0
    <3> QED
      BY <1>3, <3>1
  <2>3. ofCells \subseteq DOMAIN m.heap \cup {0}
    BY <1>1
  <2>4. ofSlots \subseteq DOMAIN m.heap \cup {0}
    BY <2>2
  <2>5. ofOperands \subseteq DOMAIN m.heap \cup {0}
    BY <1>a, <2>1
  <2> QED
    BY <2>3, <2>4, <2>5
<1>5. Known(m) = ReachedFrom(m, start) /\ Objects(m)
  <2>1. ofOperands = UNION {{o.ptr.obj : o \in ToSet(m.operand[p])} : p \in DOMAIN m.operand}
    OBVIOUS
  <2> HIDE DEF ofOperands
  <2>2. Known(m) = ReachedFrom(m, start)
    BY <2>1 DEF Known
  <2> QED
    BY <2>2 DEF Sound
<1> HIDE DEF start, ofCells, ofOperands, ofSlots
<1>6. /\ start \ {0} \subseteq ReachedFrom(m, start)
      /\ ReachedFrom(m, start) \subseteq DOMAIN m.heap
      /\ \A id \in ReachedFrom(m, start) : References(m, id) \subseteq ReachedFrom(m, start)
  BY <1>4, <1>5, ReachedClosed
<1> QED
  BY <1>1, <1>2, <1>3, <1>5, <1>6 DEF Enough

\* An allocation finds room in a memory that has lost only what no pointer leads to.
LEMMA RoomSound ==
  ASSUME NEW m, Sound(m), NEW r \in Room(m)
  PROVE  /\ Sound(r) /\ Unused(r) # {}
         /\ r.cells = m.cells /\ r.operand = m.operand /\ r.frames = m.frames
         /\ r.roots = m.roots
         /\ \E K : Enough(m, K) /\ r.heap = [id \in K |-> m.heap[id]]
<1>1. Unused(r) # {}
  BY DEF Room
<1>2. PICK K : Enough(m, K) /\ r = Restricted(m, K)
  <2>1. CASE r = Collected(m)
    BY <2>1, CollectedIs, SurvivorsEnough
  <2>2. CASE r = [m EXCEPT !.heap = [id \in Known(m) \cap DOMAIN m.heap |-> m.heap[id]]]
    BY <2>2, KnownEnough DEF Restricted
  <2> QED
    BY <2>1, <2>2 DEF Room
<1>3. /\ Sound(r) /\ r.cells = m.cells /\ r.operand = m.operand /\ r.frames = m.frames
      /\ r.roots = m.roots
  BY <1>2, RestrictedSound
<1>4. r.heap = [id \in K |-> m.heap[id]]
  BY <1>2 DEF Restricted, Sound
<1> QED
  BY <1>1, <1>2, <1>3, <1>4

LEMMA LeastIs ==
  ASSUME NEW S, S \subseteq Nat, S # {}
  PROVE  Least(S) \in S /\ \A k \in S : Least(S) <= k
<1> DEFINE R == {p \in Nat \X Nat : p[1] < p[2]}
<1>1. IsWellFoundedOn(R, Nat)
  BY NatLessThanWellFounded DEF OpToRel
<1>2. \A x, y \in Nat : <<x, y>> \in R <=> x < y
  OBVIOUS
<1> HIDE DEF R
<1>3. PICK n \in S : \A k \in S : ~ (<<k, n>> \in R)
  <2>1. \E n \in S : \A k \in S : ~ (<<k, n>> \in R)
    BY <1>1, WFMin
  <2> QED
    BY <2>1
<1>4. ASSUME NEW k \in S PROVE n <= k
  <2>1. k \in Nat /\ n \in Nat
    OBVIOUS
  <2>2. ~ (k < n)
    BY <1>2, <1>3, <2>1
  <2> QED
    BY <2>1, <2>2
<1> QED
  BY <1>4 DEF Least

-----------------------------------------------------------------------------
(***************************************************************************)
(* What every operation on the memory leaves sound.                        *)
(***************************************************************************)
\* A part that does not change, when no object goes away.
LEMMA SameParts ==
  ASSUME NEW m, Sound(m), NEW t, \A ptr : Live(m, ptr) => Live(t, ptr)
  PROVE  /\ t.cells = m.cells => Cells(t)
         /\ t.operand = m.operand => Operands(t)
         /\ t.frames = m.frames => CtorFrames(t)
         /\ t.cells = m.cells /\ t.operand = m.operand /\ t.frames = m.frames
            /\ t.roots = m.roots => Roots(t)
<1>1. t.cells = m.cells => Cells(t)
  BY DEF Sound, Cells, IsCell
<1>2. t.operand = m.operand => Operands(t)
  BY DEF Sound, Operands, IsItem
<1>3. t.frames = m.frames => CtorFrames(t)
  BY DEF Sound, CtorFrames, IsFrame
<1>4. t.cells = m.cells /\ t.operand = m.operand /\ t.frames = m.frames
      /\ t.roots = m.roots => Roots(t)
  BY DEF Sound, Roots, CellRoots, OperandRoots, Slots
<1> QED
  BY <1>1, <1>2, <1>3, <1>4

\* allocate: the object is new, and what was there is still there.
AnObject(klass, refs, text) == [klass |-> klass, refs |-> refs, text |-> text]

LEMMA CreatedIs ==
  ASSUME NEW m, Sound(m), Unused(m) # {}, NEW klass, NEW text, NEW refs,
         \A f \in DOMAIN refs : refs[f] \in DOMAIN m.heap \cup {0, Scrap}
  PROVE  LET t == Created(m, klass, refs, text)
         IN /\ Sound(t) /\ \A ptr : Live(m, ptr) => Live(t, ptr)
            /\ Live(t, Ptr(NextId(m))) /\ NextId(m) \in Ids
            /\ t.cells = m.cells /\ t.operand = m.operand /\ t.frames = m.frames
            /\ t.roots = m.roots
            /\ NextId(m) \notin DOMAIN m.heap /\ DOMAIN t.heap = DOMAIN m.heap \cup {NextId(m)}
            /\ t.heap[NextId(m)] = AnObject(klass, refs, text)
            /\ \A i \in DOMAIN m.heap : t.heap[i] = m.heap[i]
<1> DEFINE t == Created(m, klass, refs, text)
           id == NextId(m)
           new == [klass |-> klass, refs |-> refs, text |-> text]
<1>1. id \in Ids /\ id \notin DOMAIN m.heap
  <2>1. Unused(m) \subseteq Nat
    BY AgentAssumption DEF Unused
  <2>2. id \in Unused(m)
    BY <2>1, LeastIs DEF NextId
  <2> QED
    BY <2>2 DEF Unused
<1>2. /\ t = [heap |-> t.heap, cells |-> t.cells, operand |-> t.operand, frames |-> t.frames,
              roots |-> t.roots]
      /\ t.cells = m.cells /\ t.operand = m.operand /\ t.frames = m.frames /\ t.roots = m.roots
      /\ t.heap = [i \in DOMAIN m.heap \cup {id} |-> IF i = id THEN new ELSE m.heap[i]]
  BY DEF Sound, Created
<1> HIDE DEF t, id, new
<1>3. \A ptr : Live(m, ptr) => Live(t, ptr)
  BY <1>2 DEF Live
<1>4. Live(t, Ptr(id))
  BY <1>2 DEF Live
<1>5. Objects(t)
  <2>1. /\ DOMAIN t.heap = DOMAIN m.heap \cup {id} /\ t.heap[id] = new
        /\ \A i \in DOMAIN m.heap : t.heap[i] = m.heap[i]
    BY <1>1, <1>2
  <2>2. DOMAIN t.heap \subseteq Ids /\ t.heap = [i \in DOMAIN t.heap |-> t.heap[i]]
    BY <1>1, <1>2 DEF Sound, Objects
  <2>3. /\ new = [klass |-> new.klass, refs |-> new.refs, text |-> new.text]
        /\ \A f \in DOMAIN new.refs : new.refs[f] \in DOMAIN t.heap \cup {0, Scrap}
    BY <2>1 DEF new
  <2>4. ASSUME NEW i \in DOMAIN m.heap
        PROVE  /\ t.heap[i] = [klass |-> t.heap[i].klass, refs |-> t.heap[i].refs,
                               text |-> t.heap[i].text]
               /\ \A f \in DOMAIN t.heap[i].refs : t.heap[i].refs[f] \in DOMAIN t.heap \cup {0, Scrap}
    BY <2>1 DEF Sound, Objects
  <2> QED
    BY <2>1, <2>2, <2>3, <2>4 DEF Objects
<1>6. Sound(t)
  BY <1>2, <1>3, <1>5, SameParts DEF Sound
<1>7. /\ DOMAIN t.heap = DOMAIN m.heap \cup {id} /\ t.heap[id] = new
      /\ \A i \in DOMAIN m.heap : t.heap[i] = m.heap[i]
  BY <1>1, <1>2
<1> QED
  BY <1>1, <1>2, <1>3, <1>4, <1>6, <1>7 DEF t, id, new, AnObject

LEMMA CreatedSound ==
  ASSUME NEW m, Sound(m), Unused(m) # {}, NEW klass, NEW text, NEW refs,
         \A f \in DOMAIN refs : refs[f] \in DOMAIN m.heap \cup {0, Scrap}
  PROVE  LET t == Created(m, klass, refs, text)
         IN /\ Sound(t) /\ \A ptr : Live(m, ptr) => Live(t, ptr)
            /\ Live(t, Ptr(NextId(m))) /\ NextId(m) \in Ids
            /\ t.cells = m.cells /\ t.operand = m.operand /\ t.frames = m.frames
            /\ t.roots = m.roots
BY CreatedIs

\* A field of an object is assigned.
WithField(m, id, field, ref) == [m EXCEPT !.heap[id].refs[field] = ref]

OneAssigned(m, t, id, field, ref) ==
  /\ DOMAIN t.heap = DOMAIN m.heap
  /\ \A i \in DOMAIN m.heap : i # id => t.heap[i] = m.heap[i]
  /\ id \in DOMAIN m.heap => t.heap[id] = [m.heap[id] EXCEPT !.refs[field] = ref]

LEMMA AssignedSound ==
  ASSUME NEW m, Sound(m), NEW id, NEW field, NEW ptr, Live(m, ptr)
  PROVE  LET t == WithField(m, id, field, ptr.obj)
         IN /\ Sound(t) /\ \A p : Live(m, p) => Live(t, p)
            /\ t.cells = m.cells /\ t.operand = m.operand /\ t.frames = m.frames
            /\ t.roots = m.roots
            /\ OneAssigned(m, t, id, field, ptr.obj)
<1> DEFINE t == WithField(m, id, field, ptr.obj)
           was == m.heap[id]
           now == [was EXCEPT !.refs[field] = ptr.obj]
<1>1. /\ t = [heap |-> t.heap, cells |-> t.cells, operand |-> t.operand, frames |-> t.frames,
              roots |-> t.roots]
      /\ t.cells = m.cells /\ t.operand = m.operand /\ t.frames = m.frames /\ t.roots = m.roots
      /\ t.heap = [m.heap EXCEPT ![id] = now]
  BY DEF Sound, WithField
<1>2. DOMAIN t.heap = DOMAIN m.heap
  BY <1>1
<1>3. \A p : Live(m, p) => Live(t, p)
  BY <1>2 DEF Live
<1>4. ptr.obj \in DOMAIN m.heap \cup {0}
  BY LiveObject DEF Sound, Null
<1>7. /\ \A i \in DOMAIN m.heap : i # id => t.heap[i] = m.heap[i]
      /\ id \in DOMAIN m.heap => t.heap[id] = now
  BY <1>1 DEF Sound, Objects
<1>5. Objects(t)
  <2>1. /\ DOMAIN t.heap \subseteq Ids /\ t.heap = [i \in DOMAIN t.heap |-> t.heap[i]]
        /\ \A i \in DOMAIN m.heap : i # id => t.heap[i] = m.heap[i]
        /\ id \in DOMAIN m.heap => t.heap[id] = now
    BY <1>1 DEF Sound, Objects
  <2>2. ASSUME id \in DOMAIN m.heap
        PROVE  /\ now = [klass |-> now.klass, refs |-> now.refs, text |-> now.text]
               /\ \A f \in DOMAIN now.refs : now.refs[f] \in DOMAIN m.heap \cup {0, Scrap}
    <3>1. /\ was = [klass |-> was.klass, refs |-> was.refs, text |-> was.text]
          /\ \A f \in DOMAIN was.refs : was.refs[f] \in DOMAIN m.heap \cup {0, Scrap}
      BY <2>2 DEF Sound, Objects
    <3>2. /\ now = [klass |-> now.klass, refs |-> now.refs, text |-> now.text]
          /\ now.refs = [was.refs EXCEPT ![field] = ptr.obj]
      BY <3>1
    <3> HIDE DEF now, was
    <3>3. ASSUME NEW f \in DOMAIN now.refs PROVE now.refs[f] \in DOMAIN m.heap \cup {0, Scrap}
      <4>1. f \in DOMAIN was.refs
        BY <3>2
      <4>2. now.refs[f] = was.refs[f] \/ now.refs[f] = ptr.obj
        BY <3>2, <4>1
      <4> QED
        BY <1>4, <3>1, <4>1, <4>2
    <3> QED
      BY <3>2, <3>3
  <2> HIDE DEF now, was
  <2>3. \A i \in DOMAIN m.heap :
          /\ t.heap[i] = [klass |-> t.heap[i].klass, refs |-> t.heap[i].refs,
                          text |-> t.heap[i].text]
          /\ \A f \in DOMAIN t.heap[i].refs : t.heap[i].refs[f] \in DOMAIN m.heap \cup {0, Scrap}
    <3>1. Objects(m)
      BY DEF Sound
    <3> QED
      BY <2>1, <2>2, <3>1 DEF Objects
  <2> HIDE DEF t
  <2> QED
    BY <1>2, <2>1, <2>3 DEF Objects
<1> HIDE DEF t
<1>6. Sound(t)
  BY <1>1, <1>3, <1>5, SameParts DEF Sound
<1> QED
  BY <1>1, <1>2, <1>3, <1>6, <1>7 DEF t, now, was, OneAssigned

\* All fields of an object are written.
WithRefs(m, id, refs) == [m EXCEPT !.heap[id].refs = refs]

LEMMA WrittenSound ==
  ASSUME NEW m, Sound(m), NEW id, NEW refs,
         \A f \in DOMAIN refs : refs[f] \in DOMAIN m.heap \cup {0, Scrap}
  PROVE  LET t == WithRefs(m, id, refs)
         IN /\ Sound(t)
            /\ t.cells = m.cells /\ t.operand = m.operand /\ t.frames = m.frames
            /\ DOMAIN t.heap = DOMAIN m.heap
            /\ \A i \in DOMAIN m.heap : i # id => t.heap[i] = m.heap[i]
            /\ id \in DOMAIN m.heap =>
                 t.heap[id] = AnObject(m.heap[id].klass, refs, m.heap[id].text)
<1> DEFINE t == WithRefs(m, id, refs)
           was == m.heap[id]
           now == AnObject(was.klass, refs, was.text)
<1>1. /\ t = [heap |-> t.heap, cells |-> t.cells, operand |-> t.operand, frames |-> t.frames,
              roots |-> t.roots]
      /\ t.cells = m.cells /\ t.operand = m.operand /\ t.frames = m.frames /\ t.roots = m.roots
      /\ t.heap = [m.heap EXCEPT ![id] = [was EXCEPT !.refs = refs]]
  BY DEF Sound, WithRefs
<1>2. DOMAIN t.heap = DOMAIN m.heap
  BY <1>1
<1>3. \A p : Live(m, p) => Live(t, p)
  BY <1>2 DEF Live
<1>4. id \in DOMAIN m.heap => [was EXCEPT !.refs = refs] = now
  <2>1. id \in DOMAIN m.heap => was = [klass |-> was.klass, refs |-> was.refs, text |-> was.text]
    BY DEF Sound, Objects
  <2> HIDE DEF was
  <2> QED
    BY <2>1 DEF AnObject
<1>5. /\ DOMAIN t.heap \subseteq Ids /\ t.heap = [i \in DOMAIN t.heap |-> t.heap[i]]
      /\ \A i \in DOMAIN m.heap : i # id => t.heap[i] = m.heap[i]
      /\ id \in DOMAIN m.heap => t.heap[id] = now
  <2>1. m.heap = [i \in DOMAIN m.heap |-> m.heap[i]] /\ DOMAIN m.heap \subseteq Ids
    BY DEF Sound, Objects
  <2> HIDE DEF now, was, t
  <2> QED
    BY <1>1, <1>2, <1>4, <2>1
<1>6. Objects(t)
  <2>1. /\ now = [klass |-> now.klass, refs |-> now.refs, text |-> now.text]
        /\ now.refs = refs
    BY DEF AnObject
  <2>2. Objects(m)
    BY DEF Sound
  <2> HIDE DEF now, was, t
  <2>3. ASSUME NEW i \in DOMAIN m.heap
        PROVE  /\ t.heap[i] = [klass |-> t.heap[i].klass, refs |-> t.heap[i].refs,
                               text |-> t.heap[i].text]
               /\ \A f \in DOMAIN t.heap[i].refs :
                    t.heap[i].refs[f] \in DOMAIN m.heap \cup {0, Scrap}
    <3>1. CASE i = id
      BY <1>5, <2>1, <3>1
    <3>2. CASE i # id
      BY <1>5, <2>2, <3>2 DEF Objects
    <3> QED
      BY <3>1, <3>2
  <2> QED
    BY <1>2, <1>5, <2>3 DEF Objects
<1> HIDE DEF t, now, was
<1>7. Sound(t)
  BY <1>1, <1>3, <1>6, SameParts DEF Sound
<1> QED
  BY <1>1, <1>2, <1>5, <1>7 DEF t, now, was

-----------------------------------------------------------------------------
(***************************************************************************)
(* Cells.                                                                  *)
(***************************************************************************)
CountOf(m, c) == IF c \in DOMAIN m.cells THEN m.cells[c].count ELSE 0
One(b) == IF b THEN 1 ELSE 0

LEMMA Addresses ==
  /\ \A c, d : CellAt(c) = CellAt(d) => c = d
  /\ \A c, d, n : CellAt(c) # SlotAt(d, n)
  /\ \A c, n : \A p \in Processors : CellAt(c) # OperandAt(p, n)
  /\ \A d, n, e, k : SlotAt(d, n) = SlotAt(e, k) => d = e /\ n = k
  /\ \A d, n, k : \A p \in Processors : SlotAt(d, n) # OperandAt(p, k)
  /\ \A p, q, n, k : OperandAt(p, n) = OperandAt(q, k) => p = q /\ n = k
BY DEF CellAt, SlotAt, OperandAt, Processors

LEMMA NextCellIs ==
  ASSUME NEW m, Cells(m)
  PROVE  NextCell(m) \in Nat \ {0} /\ NextCell(m) \notin DOMAIN m.cells
<1> DEFINE k == Cardinality(DOMAIN m.cells)
           S == (1 .. k + 1) \ DOMAIN m.cells
<1>1. k \in Nat /\ IsFiniteSet(DOMAIN m.cells)
  BY FS_CardinalityType DEF Cells
<1>2. S # {}
  <2>1. SUFFICES ASSUME 1 .. k + 1 \subseteq DOMAIN m.cells PROVE FALSE
    OBVIOUS
  <2>2. Cardinality(1 .. k + 1) = k + 1
    <3> HIDE DEF k
    <3> QED
      BY <1>1, FS_Interval
  <2>3. Cardinality(1 .. k + 1) <= k
    BY <1>1, <2>1, FS_Subset
  <2> HIDE DEF k
  <2> QED
    BY <1>1, <2>2, <2>3
<1>3. S \subseteq Nat \ {0}
  <2> HIDE DEF k
  <2> QED
    BY <1>1
<1>4. Least(S) \in S
  <2> HIDE DEF S
  <2> QED
    BY <1>2, <1>3, LeastIs
<1>5. NextCell(m) = Least(S)
  BY DEF NextCell
<1> QED
  BY <1>3, <1>4, <1>5

\* ProtectedCell: the pointer is registered in a cell of its own.
LEMMA MadeSound ==
  ASSUME NEW m, Sound(m), NEW ptr, Live(m, ptr)
  PROVE  LET t == MakeProtectedCell(m, ptr)
         IN /\ Sound(t) /\ t.heap = m.heap /\ t.operand = m.operand /\ t.frames = m.frames
            /\ NextCell(m) \in Nat \ {0} /\ NextCell(m) \in DOMAIN t.cells
            /\ t.cells[NextCell(m)].ins = ptr /\ NextCell(m) \notin DOMAIN m.cells
            /\ \A c \in DOMAIN m.cells : t.cells[c] = m.cells[c]
            /\ \A p : Live(m, p) => Live(t, p)
            /\ \A c \in Nat \ {0} : CountOf(t, c) = CountOf(m, c) + One(c = NextCell(m))
<1> DEFINE t == MakeProtectedCell(m, ptr)
           new == NextCell(m)
           cell == [ins |-> ptr, count |-> 1]
<1>1. new \in Nat \ {0} /\ new \notin DOMAIN m.cells
  BY NextCellIs DEF Sound
<1>2. /\ t = [heap |-> t.heap, cells |-> t.cells, operand |-> t.operand, frames |-> t.frames,
              roots |-> t.roots]
      /\ t.heap = m.heap /\ t.operand = m.operand /\ t.frames = m.frames
      /\ t.roots = m.roots \cup {CellAt(new)}
      /\ t.cells = [c \in DOMAIN m.cells \cup {new} |-> IF c = new THEN cell ELSE m.cells[c]]
  <2> DEFINE cells == [c \in DOMAIN m.cells \cup {new} |-> IF c = new THEN cell ELSE m.cells[c]]
  <2>1. t = [m EXCEPT !.cells = cells, !.roots = @ \cup {CellAt(new)}]
    BY DEF MakeProtectedCell
  <2> HIDE DEF t, new, cells
  <2>2. t = [m EXCEPT !.cells = cells, !.roots = m.roots \cup {CellAt(new)}]
    BY <2>1
  <2>3. m = [heap |-> m.heap, cells |-> m.cells, operand |-> m.operand, frames |-> m.frames,
             roots |-> m.roots]
    BY DEF Sound
  <2> QED
    BY <2>2, <2>3 DEF cells
<1> HIDE DEF t, new
<1>3. /\ DOMAIN t.cells = DOMAIN m.cells \cup {new} /\ t.cells[new] = cell
      /\ \A c \in DOMAIN m.cells : t.cells[c] = m.cells[c]
      /\ t.cells = [c \in DOMAIN t.cells |-> t.cells[c]]
  BY <1>1, <1>2
<1>4. \A p : Live(t, p) <=> Live(m, p)
  BY <1>2 DEF Live
<1>5. Cells(t)
  <2>1. IsFiniteSet(DOMAIN m.cells) /\ DOMAIN m.cells \subseteq Nat \ {0}
        /\ \A c \in DOMAIN m.cells : IsCell(m, m.cells[c])
    BY DEF Sound, Cells
  <2>2. IsFiniteSet(DOMAIN t.cells)
    BY <1>3, <2>1, FS_AddElement
  <2>3. IsCell(t, cell)
    BY <1>4 DEF IsCell
  <2>4. \A c \in DOMAIN m.cells : IsCell(t, m.cells[c])
    BY <1>4, <2>1 DEF IsCell
  <2> HIDE DEF cell
  <2> QED
    BY <1>1, <1>3, <2>1, <2>2, <2>3, <2>4 DEF Cells
<1>6. Operands(t) /\ CtorFrames(t) /\ Objects(t)
  BY <1>2, <1>4, SameParts DEF Sound, Objects
<1>7. Roots(t)
  <2>1. CellRoots(t) = CellRoots(m) \cup {CellAt(new)}
    BY <1>3 DEF CellRoots
  <2>2. Slots(t) = Slots(m) /\ \A p : OperandRoots(t, p) = OperandRoots(m, p)
    BY <1>2 DEF Slots, OperandRoots
  <2> QED
    BY <1>2, <2>1, <2>2 DEF Sound, Roots
<1>8. Sound(t)
  BY <1>2, <1>5, <1>6, <1>7 DEF Sound
<1>9. ASSUME NEW c \in Nat \ {0} PROVE CountOf(t, c) = CountOf(m, c) + One(c = new)
  <2>1. CASE c = new
    BY <1>1, <1>3, <2>1 DEF CountOf, One
  <2>2. CASE c # new
    <3>1. CountOf(t, c) = CountOf(m, c)
      BY <1>3, <2>2 DEF CountOf
    <3>2. CountOf(m, c) \in Nat
      BY DEF CountOf, Sound, Cells, IsCell
    <3> QED
      BY <2>2, <3>1, <3>2 DEF One
  <2> QED
    BY <2>1, <2>2
<1>10. t.cells[new].ins = ptr
  BY <1>3
<1> QED
  BY <1>1, <1>2, <1>3, <1>4, <1>8, <1>9, <1>10 DEF t, new

LEMMA TimesNat ==
  ASSUME NEW list, IsSeq(list), NEW c
  PROVE  /\ Times(c, list) \in Nat /\ IsFiniteSet({n \in DOMAIN list : list[n] = c})
         /\ Times(c, list) # 0 <=> \E n \in DOMAIN list : list[n] = c
<1> DEFINE S == {n \in DOMAIN list : list[n] = c}
<1>1. DOMAIN list = 1 .. Len(list) /\ Len(list) \in Nat
  BY SeqLength
<1>2. IsFiniteSet(DOMAIN list)
  BY <1>1, FS_Interval
<1>3. IsFiniteSet(S)
  BY <1>2, FS_Subset
<1>4. Times(c, list) = Cardinality(S)
  BY DEF Times
<1>5. Cardinality(S) \in Nat /\ (Cardinality(S) = 0 <=> S = {})
  <2> HIDE DEF S
  <2> QED
    BY <1>3, FS_CardinalityType, FS_EmptySet
<1> QED
  BY <1>3, <1>4, <1>5

\* Handles are copied: their cells count them.
LEMMA CopiedSound ==
  ASSUME NEW m, Sound(m), NEW list, IsSeq(list)
  PROVE  LET t == Copied(m, list)
         IN /\ Sound(t) /\ t.heap = m.heap /\ t.operand = m.operand /\ t.frames = m.frames
            /\ DOMAIN t.cells = DOMAIN m.cells
            /\ \A c \in DOMAIN m.cells : t.cells[c].ins = m.cells[c].ins
            /\ \A p : Live(m, p) => Live(t, p)
            /\ \A c \in DOMAIN m.cells : CountOf(t, c) = CountOf(m, c) + Times(c, list)
<1> DEFINE t == Copied(m, list)
           cell(c) == [m.cells[c] EXCEPT !.count = @ + Times(c, list)]
<1>1. /\ t = [heap |-> t.heap, cells |-> t.cells, operand |-> t.operand, frames |-> t.frames,
              roots |-> t.roots]
      /\ t.heap = m.heap /\ t.operand = m.operand /\ t.frames = m.frames /\ t.roots = m.roots
      /\ t.cells = [c \in DOMAIN m.cells |-> cell(c)]
  BY DEF Sound, Copied
<1>2. \A p : Live(t, p) <=> Live(m, p)
  BY <1>1 DEF Live
<1>3. ASSUME NEW c \in DOMAIN m.cells
      PROVE  /\ cell(c).ins = m.cells[c].ins
             /\ cell(c).count = m.cells[c].count + Times(c, list)
             /\ IsCell(t, cell(c))
  <2>1. IsCell(m, m.cells[c]) /\ Times(c, list) \in Nat
    BY TimesNat DEF Sound, Cells
  <2>2. /\ cell(c) = [ins |-> m.cells[c].ins, count |-> m.cells[c].count + Times(c, list)]
        /\ m.cells[c].count \in Nat \ {0}
    BY <2>1 DEF IsCell
  <2>3. cell(c).count \in Nat \ {0}
    BY <2>1, <2>2
  <2>4. Live(t, m.cells[c].ins)
    BY <1>2, <2>1 DEF IsCell
  <2> HIDE DEF cell
  <2> QED
    BY <2>2, <2>3, <2>4 DEF IsCell
<1> HIDE DEF t, cell
<1>4. DOMAIN t.cells = DOMAIN m.cells /\ \A c \in DOMAIN m.cells : t.cells[c] = cell(c)
  BY <1>1
<1>5. Cells(t)
  <2>1. IsFiniteSet(DOMAIN m.cells) /\ DOMAIN m.cells \subseteq Nat \ {0}
    BY DEF Sound, Cells
  <2> QED
    BY <1>1, <1>3, <1>4, <2>1 DEF Cells
<1>6. Operands(t) /\ CtorFrames(t) /\ Objects(t)
  BY <1>1, <1>2, SameParts DEF Sound, Objects
<1>7. Roots(t)
  BY <1>1, <1>4 DEF Sound, Roots, CellRoots, OperandRoots, Slots
<1>8. Sound(t)
  BY <1>1, <1>5, <1>6, <1>7 DEF Sound
<1>9. \A c \in DOMAIN m.cells : CountOf(t, c) = CountOf(m, c) + Times(c, list)
  BY <1>3, <1>4 DEF CountOf
<1> QED
  BY <1>1, <1>2, <1>3, <1>4, <1>8, <1>9 DEF t

\* Handles go out of scope: a cell nobody refers to any more is deleted.
LEMMA DestroyedSound ==
  ASSUME NEW m, Sound(m), NEW list, IsSeq(list)
  PROVE  LET t == Destroyed(m, list)
         IN /\ Sound(t) /\ t.heap = m.heap /\ t.operand = m.operand /\ t.frames = m.frames
            /\ \A p : Live(m, p) => Live(t, p)
            /\ \A c \in Nat \ {0} :
                 CountOf(m, c) >= Times(c, list) => CountOf(t, c) = CountOf(m, c) - Times(c, list)
            /\ \A c \in DOMAIN t.cells : c \in DOMAIN m.cells /\ t.cells[c].ins = m.cells[c].ins
<1> DEFINE t == Destroyed(m, list)
           kept == {c \in DOMAIN m.cells : m.cells[c].count > Times(c, list)}
           cell(c) == [m.cells[c] EXCEPT !.count = @ - Times(c, list)]
<1>1. /\ t = [heap |-> t.heap, cells |-> t.cells, operand |-> t.operand, frames |-> t.frames,
              roots |-> t.roots]
      /\ t.heap = m.heap /\ t.operand = m.operand /\ t.frames = m.frames
      /\ t.roots = m.roots \ {CellAt(c) : c \in DOMAIN m.cells \ kept}
      /\ t.cells = [c \in kept |-> cell(c)]
  <2> DEFINE cells == [c \in kept |-> cell(c)]
             gone == {CellAt(c) : c \in DOMAIN m.cells \ kept}
  <2>1. t = [m EXCEPT !.cells = cells, !.roots = @ \ gone]
    BY DEF Destroyed
  <2> HIDE DEF t, cells, gone
  <2>2. m = [heap |-> m.heap, cells |-> m.cells, operand |-> m.operand, frames |-> m.frames,
             roots |-> m.roots]
    BY DEF Sound
  <2>3. /\ t = [heap |-> t.heap, cells |-> t.cells, operand |-> t.operand, frames |-> t.frames,
                roots |-> t.roots]
        /\ t.heap = m.heap /\ t.operand = m.operand /\ t.frames = m.frames
        /\ t.roots = m.roots \ gone /\ t.cells = cells
    BY <2>1, <2>2
  <2> QED
    BY <2>3 DEF cells, gone
<1>2. \A p : Live(t, p) <=> Live(m, p)
  BY <1>1 DEF Live
<1>3. ASSUME NEW c \in kept
      PROVE  /\ cell(c).count = m.cells[c].count - Times(c, list)
             /\ IsCell(t, cell(c))
  <2>1. IsCell(m, m.cells[c]) /\ Times(c, list) \in Nat /\ m.cells[c].count > Times(c, list)
    BY TimesNat DEF Sound, Cells
  <2>2. /\ cell(c) = [ins |-> m.cells[c].ins, count |-> m.cells[c].count - Times(c, list)]
        /\ m.cells[c].count \in Nat \ {0}
    BY <2>1 DEF IsCell
  <2>3. cell(c).count \in Nat \ {0}
    BY <2>1, <2>2
  <2>4. Live(t, m.cells[c].ins)
    BY <1>2, <2>1 DEF IsCell
  <2> HIDE DEF cell
  <2> QED
    BY <2>2, <2>3, <2>4 DEF IsCell
<1>10. \A c \in kept : cell(c).ins = m.cells[c].ins
  BY DEF Sound, Cells, IsCell
<1>0. /\ kept \subseteq DOMAIN m.cells
      /\ \A c \in DOMAIN m.cells \ kept : ~ (m.cells[c].count > Times(c, list))
  OBVIOUS
<1> HIDE DEF t, cell, kept
<1>4. DOMAIN t.cells = kept /\ \A c \in kept : t.cells[c] = cell(c)
  BY <1>1
<1>5. Cells(t)
  <2>1. IsFiniteSet(DOMAIN m.cells) /\ DOMAIN m.cells \subseteq Nat \ {0}
    BY DEF Sound, Cells
  <2>2. IsFiniteSet(kept)
    BY <1>0, <2>1, FS_Subset
  <2> QED
    BY <1>0, <1>1, <1>3, <1>4, <2>1, <2>2 DEF Cells
<1>6. Operands(t) /\ CtorFrames(t) /\ Objects(t)
  BY <1>1, <1>2, SameParts DEF Sound, Objects
<1>7. Roots(t)
  <2>1. CellRoots(t) = CellRoots(m) \ {CellAt(c) : c \in DOMAIN m.cells \ kept}
    BY <1>0, <1>4, Addresses DEF CellRoots
  <2>2. Slots(t) = Slots(m) /\ \A p : OperandRoots(t, p) = OperandRoots(m, p)
    BY <1>1 DEF Slots, OperandRoots
  <2>3. \A c : /\ CellAt(c) \notin Slots(m)
              /\ \A p \in Processors : CellAt(c) \notin OperandRoots(m, p)
    BY Addresses DEF Slots, OperandRoots
  <2>4. /\ t.roots \subseteq CellRoots(t) \cup Slots(t)
                            \cup UNION {OperandRoots(t, p) : p \in Processors}
        /\ CellRoots(t) \subseteq t.roots
    BY <1>1, <2>1, <2>2 DEF Sound, Roots
  <2>5. Slots(t) \subseteq t.roots
    BY <1>1, <2>2, <2>3 DEF Sound, Roots
  <2>6. OperandRoots(t, "main") \subseteq t.roots
    BY <1>1, <2>2, <2>3 DEF Sound, Roots, Processors
  <2>7. \A n \in DOMAIN m.operand["agent"] :
          m.operand["agent"][n].ptr # Null => OperandAt("agent", n) \in t.roots
    BY <1>1, Addresses DEF Sound, Roots, Processors
  <2> QED
    BY <1>1, <2>4, <2>5, <2>6, <2>7 DEF Roots
<1>8. Sound(t)
  BY <1>1, <1>5, <1>6, <1>7 DEF Sound
<1>9. ASSUME NEW c \in Nat \ {0}, CountOf(m, c) >= Times(c, list)
      PROVE  CountOf(t, c) = CountOf(m, c) - Times(c, list)
  <2>1. Times(c, list) \in Nat
    BY TimesNat
  <2>2. CASE c \in kept
    BY <1>0, <1>3, <1>4, <2>2 DEF CountOf
  <2>3. CASE c \in DOMAIN m.cells \ kept
    <3>1. m.cells[c].count \in Nat
      BY <2>3 DEF Sound, Cells, IsCell
    <3> QED
      BY <1>0, <1>4, <1>9, <2>1, <2>3, <3>1 DEF CountOf
  <2>4. CASE c \notin DOMAIN m.cells
    BY <1>0, <1>4, <1>9, <2>1, <2>4 DEF CountOf
  <2> QED
    BY <2>2, <2>3, <2>4
<1>11. \A c \in DOMAIN t.cells : c \in DOMAIN m.cells /\ t.cells[c].ins = m.cells[c].ins
  BY <1>0, <1>4, <1>10
<1> QED
  BY <1>1, <1>2, <1>8, <1>9, <1>11 DEF t

-----------------------------------------------------------------------------
(***************************************************************************)
(* Operands and frames.                                                    *)
(***************************************************************************)
WithOperands(m, p, list, roots) == [m EXCEPT !.operand[p] = list, !.roots = roots]

\* A processor's operands change, and what is registered of them: the rest of the
\* memory stays sound.
LEMMA OperandsSound ==
  ASSUME NEW m, Sound(m), NEW p \in Processors, NEW list, IsSeq(list), NEW roots,
         \A n \in DOMAIN list : IsItem(m, list[n]),
         \A n \in DOMAIN list : OperandAt(p, n) \in roots \/ (p = "agent" /\ list[n].ptr = Null),
         roots \ OperandRoots(m, p) \subseteq (m.roots \ OperandRoots(m, p))
                                             \cup {OperandAt(p, n) : n \in DOMAIN list},
         roots \cap OperandRoots(m, p) \subseteq {OperandAt(p, n) : n \in DOMAIN list},
         m.roots \ OperandRoots(m, p) \subseteq roots
  PROVE  LET t == WithOperands(m, p, list, roots)
         IN /\ Sound(t) /\ t.heap = m.heap /\ t.cells = m.cells /\ t.frames = m.frames
            /\ t.operand[p] = list /\ \A q \in Processors \ {p} : t.operand[q] = m.operand[q]
            /\ \A ptr : Live(m, ptr) => Live(t, ptr)
<1> DEFINE t == WithOperands(m, p, list, roots)
<1>1. /\ t = [heap |-> t.heap, cells |-> t.cells, operand |-> t.operand, frames |-> t.frames,
              roots |-> t.roots]
      /\ t.heap = m.heap /\ t.cells = m.cells /\ t.frames = m.frames /\ t.roots = roots
      /\ t.operand = [m.operand EXCEPT ![p] = list]
  <2>1. m = [heap |-> m.heap, cells |-> m.cells, operand |-> m.operand, frames |-> m.frames,
             roots |-> m.roots]
    BY DEF Sound
  <2> DEFINE ops == [m.operand EXCEPT ![p] = list]
  <2>2. t = [m EXCEPT !.operand = ops, !.roots = roots]
    BY <2>1 DEF WithOperands
  <2> HIDE DEF t, ops
  <2>3. /\ t = [heap |-> m.heap, cells |-> m.cells, operand |-> ops, frames |-> m.frames,
                roots |-> roots]
    BY <2>1, <2>2
  <2> QED
    BY <2>3 DEF ops
<1> HIDE DEF t
<1>2. /\ t.operand = [q \in Processors |-> t.operand[q]] /\ t.operand[p] = list
      /\ \A q \in Processors \ {p} : t.operand[q] = m.operand[q]
  <2>1. m.operand = [q \in Processors |-> m.operand[q]]
    BY DEF Sound, Operands
  <2>2. DOMAIN m.operand = Processors
    BY <2>1
  <2>3. t.operand = [q \in Processors |-> IF q = p THEN list ELSE m.operand[q]]
    BY <1>1, <2>1, <2>2
  <2> QED
    BY <2>3
<1>3. \A ptr : Live(m, ptr) <=> Live(t, ptr)
  BY <1>1 DEF Live
<1>4. Cells(t) /\ CtorFrames(t) /\ Objects(t)
  BY <1>1, <1>3, SameParts DEF Sound, Objects
<1>5. Operands(t)
  <2>1. ASSUME NEW q \in Processors
        PROVE  IsSeq(t.operand[q]) /\ \A n \in DOMAIN t.operand[q] : IsItem(t, t.operand[q][n])
    <3>1. CASE q = p
      BY <1>2, <1>3, <3>1 DEF IsItem
    <3>2. CASE q # p
      BY <1>2, <1>3, <3>2 DEF Sound, Operands, IsItem
    <3> QED
      BY <3>1, <3>2
  <2> QED
    BY <1>2, <2>1 DEF Operands
<1>6. Roots(t)
  <2>1. Slots(t) = Slots(m) /\ CellRoots(t) = CellRoots(m)
    BY <1>1 DEF Slots, CellRoots
  <2>2. /\ OperandRoots(t, p) = {OperandAt(p, n) : n \in DOMAIN list}
        /\ \A q \in Processors \ {p} : OperandRoots(t, q) = OperandRoots(m, q)
    BY <1>2 DEF OperandRoots
  <2>3. /\ \A at \in CellRoots(m) \cup Slots(m) : at \notin OperandRoots(m, p)
        /\ \A q \in Processors \ {p} : \A at \in OperandRoots(m, q) : at \notin OperandRoots(m, p)
    BY Addresses DEF CellRoots, Slots, OperandRoots
  <2>4. t.roots \subseteq CellRoots(t) \cup Slots(t)
                         \cup UNION {OperandRoots(t, q) : q \in Processors}
    <3>1. ASSUME NEW at \in roots
          PROVE  at \in CellRoots(t) \cup Slots(t)
                        \cup UNION {OperandRoots(t, q) : q \in Processors}
      <4>1. CASE at \in OperandRoots(t, p)
        BY <4>1
      <4>2. CASE at \notin OperandRoots(t, p)
        <5>1. at \in m.roots /\ at \notin OperandRoots(m, p)
          BY <2>2, <4>2
        <5>2. \/ at \in CellRoots(m) \cup Slots(m)
              \/ \E q \in Processors \ {p} : at \in OperandRoots(m, q)
          BY <5>1 DEF Sound, Roots
        <5> QED
          BY <2>1, <2>2, <5>2
      <4> QED
        BY <4>1, <4>2
    <3> QED
      BY <1>1, <3>1
  <2>5. CellRoots(t) \subseteq t.roots /\ Slots(t) \subseteq t.roots
    BY <1>1, <2>1, <2>3 DEF Sound, Roots
  <2>6. OperandRoots(t, "main") \subseteq t.roots
    <3>1. CASE p = "main"
      BY <1>1, <2>2, <3>1
    <3>2. CASE p # "main"
      BY <1>1, <2>2, <2>3, <3>2 DEF Sound, Roots, Processors
    <3> QED
      BY <3>1, <3>2
  <2>7. ASSUME NEW n \in DOMAIN t.operand["agent"], t.operand["agent"][n].ptr # Null
        PROVE  OperandAt("agent", n) \in t.roots
    <3>1. CASE p = "agent"
      BY <1>1, <1>2, <2>7, <3>1
    <3>2. CASE p # "agent"
      <4>1. t.operand["agent"] = m.operand["agent"]
        BY <1>2, <3>2 DEF Processors
      <4>2. OperandAt("agent", n) \in m.roots /\ OperandAt("agent", n) \in OperandRoots(m, "agent")
        BY <2>7, <4>1 DEF Sound, Roots, OperandRoots
      <4>3. OperandAt("agent", n) \notin OperandRoots(m, p)
        BY <2>3, <3>2, <4>2 DEF Processors
      <4> QED
        BY <1>1, <4>2, <4>3
    <3> QED
      BY <3>1, <3>2
  <2> QED
    BY <2>4, <2>5, <2>6, <2>7 DEF Roots
<1>7. Sound(t)
  BY <1>1, <1>4, <1>5, <1>6 DEF Sound
<1> QED
  BY <1>1, <1>2, <1>3, <1>7 DEF t

AnItem(ptr, meant) == [ptr |-> ptr, meant |-> meant]

LEMMA PushedRootIs ==
  ASSUME NEW m, Sound(m), NEW p \in Processors, NEW ptr, Live(m, ptr), NEW meant
  PROVE  LET t == PushedRoot(m, p, ptr, meant)
         IN /\ Sound(t) /\ t.heap = m.heap /\ t.cells = m.cells /\ t.frames = m.frames
            /\ Len(t.operand[p]) = Len(m.operand[p]) + 1
            /\ \A n \in 1 .. Len(m.operand[p]) : t.operand[p][n] = m.operand[p][n]
            /\ t.operand[p][Len(m.operand[p]) + 1] = AnItem(ptr, meant)
            /\ \A q \in Processors \ {p} : t.operand[q] = m.operand[q]
            /\ \A o : Live(m, o) => Live(t, o)
<1> DEFINE t == PushedRoot(m, p, ptr, meant)
           was == m.operand[p]
           item == [ptr |-> ptr, meant |-> meant]
           list == Append(was, item)
           roots == m.roots \cup {OperandAt(p, Len(list))}
<1>1. IsSeq(was) /\ p \in DOMAIN m.operand
  BY DEF Sound, Operands
<1>2. t = WithOperands(m, p, list, roots)
  <2>1. Pushed(m, p, ptr, meant) = [m EXCEPT !.operand[p] = list]
    BY DEF Pushed
  <2> DEFINE u == [m EXCEPT !.operand[p] = list]
  <2> HIDE DEF list
  <2>2. u.operand[p] = list /\ u.roots = m.roots
    BY <1>1 DEF Sound
  <2>3. t = [u EXCEPT !.roots = @ \cup {OperandAt(p, Len(u.operand[p]))}]
    BY <2>1 DEF PushedRoot, Registered
  <2> HIDE DEF u
  <2>4. t = [u EXCEPT !.roots = roots]
    BY <2>2, <2>3
  <2> HIDE DEF t, roots
  <2> QED
    BY <2>4 DEF u, Sound, WithOperands
<1> HIDE DEF t, was
<1>3. /\ IsSeq(list) /\ Len(list) = Len(was) + 1 /\ DOMAIN list = 1 .. Len(was) + 1
      /\ \A n \in 1 .. Len(was) : list[n] = was[n]
      /\ list[Len(was) + 1] = item /\ Len(was) \in Nat /\ DOMAIN was = 1 .. Len(was)
  BY <1>1, AppendSeq, SeqLength
<1>4. \A n \in DOMAIN was : IsItem(m, was[n])
  BY DEF Sound, Operands, was
<1>5. IsItem(m, item)
  BY DEF IsItem
<1> HIDE DEF list, item
<1>6. \A n \in DOMAIN list : IsItem(m, list[n])
  <2>1. \A n \in DOMAIN list : n \in DOMAIN was \/ n = Len(was) + 1
    BY <1>3
  <2> QED
    BY <1>3, <1>4, <1>5, <2>1
<1>7. \A n \in DOMAIN was : OperandAt(p, n) \in m.roots \/ (p = "agent" /\ was[n].ptr = Null)
  BY DEF Sound, Roots, OperandRoots, was, Processors
<1>8. \A n \in DOMAIN list : OperandAt(p, n) \in roots \/ (p = "agent" /\ list[n].ptr = Null)
  <2>1. \A n \in DOMAIN list : n \in DOMAIN was \/ n = Len(list)
    BY <1>3
  <2> QED
    BY <1>3, <1>7, <2>1
<1>9. /\ Len(list) \in DOMAIN list
      /\ OperandRoots(m, p) \subseteq {OperandAt(p, n) : n \in DOMAIN list}
  <2>1. Len(list) \in DOMAIN list /\ DOMAIN was \subseteq DOMAIN list
    BY <1>3
  <2> QED
    BY <2>1 DEF OperandRoots, was
<1>10. /\ Sound(t) /\ t.heap = m.heap /\ t.cells = m.cells /\ t.frames = m.frames
       /\ t.operand[p] = list /\ \A q \in Processors \ {p} : t.operand[q] = m.operand[q]
       /\ \A o : Live(m, o) => Live(t, o)
  <2>1. /\ roots \ OperandRoots(m, p) \subseteq (m.roots \ OperandRoots(m, p))
                                                \cup {OperandAt(p, n) : n \in DOMAIN list}
        /\ roots \cap OperandRoots(m, p) \subseteq {OperandAt(p, n) : n \in DOMAIN list}
        /\ m.roots \ OperandRoots(m, p) \subseteq roots
    BY <1>9
  <2> HIDE DEF roots
  <2> QED
    BY <1>2, <1>3, <1>6, <1>8, <2>1, OperandsSound
<1> QED
  BY <1>3, <1>10 DEF t, was, item, AnItem

LEMMA PushedRootSound ==
  ASSUME NEW m, Sound(m), NEW p \in Processors, NEW ptr, Live(m, ptr), NEW meant
  PROVE  LET t == PushedRoot(m, p, ptr, meant)
         IN /\ Sound(t) /\ t.heap = m.heap /\ t.cells = m.cells /\ t.frames = m.frames
            /\ Len(t.operand[p]) = Len(m.operand[p]) + 1
            /\ \A q \in Processors \ {p} : t.operand[q] = m.operand[q]
            /\ \A o : Live(m, o) => Live(t, o)
BY PushedRootIs

LEMMA PoppedSound ==
  ASSUME NEW m, Sound(m), NEW p \in Processors, NEW k \in 0 .. Len(m.operand[p])
  PROVE  LET t == Popped(m, p, k)
         IN /\ Sound(t) /\ t.heap = m.heap /\ t.cells = m.cells /\ t.frames = m.frames
            /\ Len(t.operand[p]) = Len(m.operand[p]) - k
            /\ \A n \in 1 .. Len(m.operand[p]) - k : t.operand[p][n] = m.operand[p][n]
            /\ \A q \in Processors \ {p} : t.operand[q] = m.operand[q]
            /\ \A o : Live(m, o) => Live(t, o)
<1> DEFINE t == Popped(m, p, k)
           was == m.operand[p]
           left == Len(was) - k
           list == SubSeq(was, 1, left)
           gone == {OperandAt(p, n) : n \in left + 1 .. Len(was)}
           roots == m.roots \ gone
<1>1. IsSeq(was) /\ p \in DOMAIN m.operand /\ Len(was) \in Nat /\ DOMAIN was = 1 .. Len(was)
  BY SeqLength DEF Sound, Operands
<1>2. t = WithOperands(m, p, list, roots)
  <2>1. t = [m EXCEPT !.operand[p] = list, !.roots = @ \ gone]
    BY DEF Popped
  <2> HIDE DEF list, gone, t
  <2> QED
    BY <2>1 DEF Sound, WithOperands
<1>3. left \in 0 .. Len(was)
  BY <1>1 DEF was
<1> HIDE DEF t, was, left
<1>4. /\ IsSeq(list) /\ Len(list) = left /\ DOMAIN list = 1 .. left
      /\ \A n \in 1 .. left : list[n] = was[n]
  BY <1>1, <1>3, FirstSeq
<1>5. \A n \in DOMAIN was : IsItem(m, was[n])
  BY DEF Sound, Operands, was
<1>6. \A n \in DOMAIN was : OperandAt(p, n) \in m.roots \/ (p = "agent" /\ was[n].ptr = Null)
  BY DEF Sound, Roots, OperandRoots, was, Processors
<1> HIDE DEF list
<1>7. /\ DOMAIN list \subseteq DOMAIN was /\ left + 1 .. Len(was) = DOMAIN was \ DOMAIN list
      /\ \A n \in DOMAIN list : list[n] = was[n]
  BY <1>1, <1>3, <1>4
<1>8. gone = {OperandAt(p, n) : n \in DOMAIN was \ DOMAIN list}
  BY <1>7
<1>9. OperandRoots(m, p) = gone \cup {OperandAt(p, n) : n \in DOMAIN list}
  BY <1>7, <1>8 DEF OperandRoots, was
<1>10. \A n \in DOMAIN list : OperandAt(p, n) \notin gone
  BY <1>8, Addresses
<1>11. \A n \in DOMAIN list : OperandAt(p, n) \in roots \/ (p = "agent" /\ list[n].ptr = Null)
  BY <1>6, <1>7, <1>10
<1>12. \A n \in DOMAIN list : IsItem(m, list[n])
  BY <1>5, <1>7
<1>13. /\ Sound(t) /\ t.heap = m.heap /\ t.cells = m.cells /\ t.frames = m.frames
       /\ t.operand[p] = list /\ \A q \in Processors \ {p} : t.operand[q] = m.operand[q]
       /\ \A o : Live(m, o) => Live(t, o)
  <2>1. /\ roots \ OperandRoots(m, p) \subseteq (m.roots \ OperandRoots(m, p))
                                                \cup {OperandAt(p, n) : n \in DOMAIN list}
        /\ roots \cap OperandRoots(m, p) \subseteq {OperandAt(p, n) : n \in DOMAIN list}
        /\ m.roots \ OperandRoots(m, p) \subseteq roots
    BY <1>9
  <2> HIDE DEF roots
  <2> QED
    BY <1>2, <1>4, <1>11, <1>12, <2>1, OperandsSound
<1> QED
  BY <1>4, <1>13 DEF t, was, left

\* The values of a list of parameters are pushed, and those in cells registered.
LEMMA PushedValuesSound ==
  ASSUME NEW m, Sound(m), NEW args, IsSeq(args),
         \A n \in DOMAIN args : args[n] = 0 \/ args[n] \in DOMAIN m.cells
  PROVE  LET t == PushedValues(m, args)
         IN /\ Sound(t) /\ t.heap = m.heap /\ t.cells = m.cells /\ t.frames = m.frames
            /\ Len(t.operand["agent"]) = Len(m.operand["agent"]) + Len(args)
            /\ \A n \in 1 .. Len(m.operand["agent"]) : t.operand["agent"][n] = m.operand["agent"][n]
            /\ \A n \in DOMAIN args :
                 t.operand["agent"][Len(m.operand["agent"]) + n] = Value(m, args[n])
            /\ t.operand["main"] = m.operand["main"]
            /\ \A o : Live(m, o) => Live(t, o)
<1> DEFINE t == PushedValues(m, args)
           was == m.operand["agent"]
           values == [n \in DOMAIN args |-> Value(m, args[n])]
           list == was \o values
           new == {OperandAt("agent", Len(was) + n) : n \in {k \in DOMAIN args : args[k] # 0}}
           roots == m.roots \cup new
<1>1. IsSeq(was) /\ Len(was) \in Nat /\ DOMAIN was = 1 .. Len(was)
  BY SeqLength DEF Sound, Operands, Processors
<1>2. t = WithOperands(m, "agent", list, roots)
  <2>1. t = [m EXCEPT !.operand["agent"] = @ \o values, !.roots = @ \cup new]
    BY DEF PushedValues
  <2> HIDE DEF t, values, new
  <2> QED
    BY <2>1 DEF Sound, WithOperands
<1>3. IsSeq(values) /\ Len(values) = Len(args) /\ Len(args) \in Nat /\ DOMAIN args = 1 .. Len(args)
  <2>1. Len(args) \in Nat /\ DOMAIN args = 1 .. Len(args)
    BY SeqLength
  <2>2. DOMAIN values = 1 .. Len(args) /\ values = [n \in 1 .. Len(args) |-> values[n]]
    BY <2>1
  <2> HIDE DEF values
  <2> QED
    BY <2>1, <2>2, FunctionSeq
<1>4. \A n \in DOMAIN args : values[n] = Value(m, args[n])
  OBVIOUS
<1>5. ASSUME NEW n \in DOMAIN args
      PROVE  IsItem(m, values[n]) /\ (args[n] # 0 \/ values[n].ptr = Null)
  <2>1. Value(m, args[n]).ptr = Null \/ (args[n] # 0 /\ Live(m, Value(m, args[n]).ptr))
    BY DEF Value, Sound, Cells, IsCell
  <2>2. Value(m, args[n]) = [ptr |-> Value(m, args[n]).ptr, meant |-> Value(m, args[n]).meant]
    BY DEF Value
  <2> QED
    BY <1>4, <2>1, <2>2 DEF IsItem, Live
<1>6. \A n \in DOMAIN was : IsItem(m, was[n])
  BY DEF Sound, Operands, Processors
<1>7. \A n \in DOMAIN was : OperandAt("agent", n) \in m.roots \/ was[n].ptr = Null
  BY DEF Sound, Roots
<1> HIDE DEF t, was, values
<1>8. /\ IsSeq(list) /\ Len(list) = Len(was) + Len(args) /\ DOMAIN list = 1 .. Len(was) + Len(args)
      /\ \A n \in 1 .. Len(was) : list[n] = was[n]
      /\ \A n \in 1 .. Len(args) : list[Len(was) + n] = values[n]
  <2>1. /\ IsSeq(list) /\ Len(list) = Len(was) + Len(values)
        /\ DOMAIN list = 1 .. Len(was) + Len(values)
        /\ \A n \in 1 .. Len(was) : list[n] = was[n]
        /\ \A n \in 1 .. Len(values) : list[Len(was) + n] = values[n]
    <3>1. IsSeq(was) /\ IsSeq(values)
      BY <1>1, <1>3
    <3>2. IsSeq(list) /\ Len(list) = Len(was) + Len(values)
      BY <3>1, JoinSeq
    <3>3. DOMAIN list = 1 .. Len(was) + Len(values)
      BY <3>1, JoinSeq
    <3>4. \A n \in 1 .. Len(was) : list[n] = was[n]
      BY <3>1, JoinSeq
    <3>5. \A n \in 1 .. Len(values) : list[Len(was) + n] = values[n]
      BY <3>1, JoinSeq
    <3> QED
      BY <3>2, <3>3, <3>4, <3>5
  <2> HIDE DEF list
  <2> QED
    BY <1>3, <2>1
<1> HIDE DEF list
<1>9. ASSUME NEW n \in DOMAIN list
      PROVE  n \in DOMAIN was \/ \E k \in DOMAIN args : n = Len(was) + k
  <2>1. n \in 1 .. Len(was) \/ (n - Len(was) \in 1 .. Len(args) /\ n = Len(was) + (n - Len(was)))
    BY <1>1, <1>3, <1>8
  <2> QED
    BY <1>1, <1>3, <2>1
<1>10. ASSUME NEW n \in DOMAIN list
       PROVE  IsItem(m, list[n]) /\ (OperandAt("agent", n) \in roots \/ list[n].ptr = Null)
  <2>1. CASE n \in DOMAIN was
    BY <1>1, <1>6, <1>7, <1>8, <2>1
  <2>2. ASSUME NEW k \in DOMAIN args, n = Len(was) + k
        PROVE  IsItem(m, list[n]) /\ (OperandAt("agent", n) \in roots \/ list[n].ptr = Null)
    BY <1>3, <1>5, <1>8, <2>2
  <2> QED
    BY <1>9, <2>1, <2>2
<1>11. new \subseteq {OperandAt("agent", n) : n \in DOMAIN list}
  <2>1. \A n \in DOMAIN args : Len(was) + n \in DOMAIN list
    BY <1>1, <1>3, <1>8
  <2> QED
    BY <2>1
<1>12. OperandRoots(m, "agent") \subseteq {OperandAt("agent", n) : n \in DOMAIN list}
  <2>1. DOMAIN was \subseteq DOMAIN list
    BY <1>1, <1>3, <1>8
  <2> QED
    BY <2>1 DEF OperandRoots, was
<1>13. /\ roots \ OperandRoots(m, "agent") \subseteq (m.roots \ OperandRoots(m, "agent"))
                                              \cup {OperandAt("agent", n) : n \in DOMAIN list}
       /\ roots \cap OperandRoots(m, "agent") \subseteq {OperandAt("agent", n) : n \in DOMAIN list}
       /\ m.roots \ OperandRoots(m, "agent") \subseteq roots
  BY <1>11, <1>12
<1> HIDE DEF roots
<1>14. /\ Sound(t) /\ t.heap = m.heap /\ t.cells = m.cells /\ t.frames = m.frames
       /\ t.operand["agent"] = list /\ \A q \in Processors \ {"agent"} : t.operand[q] = m.operand[q]
       /\ \A o : Live(m, o) => Live(t, o)
  BY <1>2, <1>8, <1>10, <1>13, OperandsSound DEF Processors
<1>15. \A n \in DOMAIN args : list[Len(was) + n] = Value(m, args[n])
  BY <1>3, <1>4, <1>8
<1> QED
  BY <1>8, <1>14, <1>15 DEF t, was, Processors

SlotsOf(frames) == UNION {{SlotAt(d, n) : n \in DOMAIN frames[d].slots} : d \in DOMAIN frames}
WithFrames(m, frames, roots) == [m EXCEPT !.frames = frames, !.roots = roots]

\* The frames of constructors change, and their slots with them.
LEMMA FramesSound ==
  ASSUME NEW m, Sound(m), NEW frames, IsSeq(frames), NEW roots,
         \A d \in DOMAIN frames : IsFrame(m, frames[d]),
         SlotsOf(frames) \subseteq roots, m.roots \ Slots(m) \subseteq roots,
         roots \subseteq (m.roots \ Slots(m)) \cup SlotsOf(frames)
  PROVE  LET t == WithFrames(m, frames, roots)
         IN /\ Sound(t) /\ t.heap = m.heap /\ t.cells = m.cells /\ t.operand = m.operand
            /\ t.frames = frames /\ \A o : Live(m, o) => Live(t, o)
<1> DEFINE t == WithFrames(m, frames, roots)
<1>1. /\ t = [heap |-> t.heap, cells |-> t.cells, operand |-> t.operand, frames |-> t.frames,
              roots |-> t.roots]
      /\ t.heap = m.heap /\ t.cells = m.cells /\ t.operand = m.operand
      /\ t.frames = frames /\ t.roots = roots
  <2>1. m = [heap |-> m.heap, cells |-> m.cells, operand |-> m.operand, frames |-> m.frames,
             roots |-> m.roots]
    BY DEF Sound
  <2>2. t = [m EXCEPT !.frames = frames, !.roots = roots]
    BY DEF WithFrames
  <2> HIDE DEF t
  <2>3. t = [heap |-> m.heap, cells |-> m.cells, operand |-> m.operand, frames |-> frames,
             roots |-> roots]
    BY <2>1, <2>2
  <2> QED
    BY <2>3
<1> HIDE DEF t
<1>2. \A ptr : Live(m, ptr) <=> Live(t, ptr)
  BY <1>1 DEF Live
<1>3. Cells(t) /\ Operands(t) /\ Objects(t)
  BY <1>1, <1>2, SameParts DEF Sound, Objects
<1>4. CtorFrames(t)
  BY <1>1, <1>2 DEF CtorFrames, IsFrame
<1>5. Roots(t)
  <2>1. /\ Slots(t) = SlotsOf(frames) /\ CellRoots(t) = CellRoots(m)
        /\ \A p : OperandRoots(t, p) = OperandRoots(m, p)
    BY <1>1 DEF Slots, SlotsOf, CellRoots, OperandRoots
  <2>2. /\ \A at \in CellRoots(m) : at \notin Slots(m)
        /\ \A p \in Processors : \A at \in OperandRoots(m, p) : at \notin Slots(m)
        /\ \A n : OperandAt("agent", n) \notin Slots(m)
    BY Addresses DEF CellRoots, Slots, OperandRoots, Processors
  <2>3. t.roots \subseteq CellRoots(t) \cup Slots(t)
                         \cup UNION {OperandRoots(t, q) : q \in Processors}
    BY <1>1, <2>1 DEF Sound, Roots
  <2>4. CellRoots(t) \subseteq t.roots /\ Slots(t) \subseteq t.roots
    BY <1>1, <2>1, <2>2 DEF Sound, Roots
  <2>5. OperandRoots(t, "main") \subseteq t.roots
    BY <1>1, <2>1, <2>2 DEF Sound, Roots, Processors
  <2>6. \A n \in DOMAIN t.operand["agent"] :
          t.operand["agent"][n].ptr # Null => OperandAt("agent", n) \in t.roots
    BY <1>1, <2>2 DEF Sound, Roots
  <2> QED
    BY <2>3, <2>4, <2>5, <2>6 DEF Roots
<1> QED
  BY <1>1, <1>2, <1>3, <1>4, <1>5 DEF Sound, t

-----------------------------------------------------------------------------
(***************************************************************************)
(* Constructors.                                                           *)
(***************************************************************************)
\* How many operands a constructor has above those of its caller, before each of its
\* instructions.
Heights(klass) ==
  CASE klass = "String"    -> <<0, 0>>
    [] klass = "Exception" -> <<0, 0>>
    [] klass = "NullPointerException"   -> <<0, 1, 2, 3, 4, 2, 0>>
    [] klass = "ConversionException"    -> <<0, 1, 2, 3, 4, 2, 3, 4, 2, 3, 4, 2, 0>>
    [] klass = "OutOfRangeException"    -> <<0, 1, 2, 3, 4, 2, 3, 4, 2, 0>>
    [] klass = "OptionMissingException" -> <<0, 1, 2, 3, 4, 2, 0>>
    [] klass = "EvmInternalException"   -> <<0, 1, 2, 0>>
    [] klass = "DivideByZeroException"  -> <<0, 1, 2, 0>>

Height(frame) == Heights(frame.klass)[frame.ip]

\* What an instruction does to the operands, and where it stands.
Behaves(klass, ip) ==
  LET inst == Ctor(klass)[ip]
      h == Heights(klass)
  IN /\ inst.op = "ret" => h[ip] = 0
     /\ inst.op # "ret" => ip + 1 \in DOMAIN Ctor(klass)
     /\ inst.op \in {"ldarg", "ldstr", "tostr", "newarray"} => h[ip + 1] = h[ip] + 1
     /\ inst.op = "newstring" => h[ip] >= 3 /\ h[ip + 1] = h[ip] - 2
     /\ inst.op = "base" => h[ip] = 2 /\ h[ip + 1] = 0
     /\ inst.op \in {"sequence", "message"} =>
          klass \in {"String", "Exception"} /\ h[ip + 1] = h[ip]
     /\ inst.op \in {"ldarg", "ldstr", "tostr", "newarray", "newstring", "base"} =>
          klass \notin {"String", "Exception"}
     /\ inst.op = "ldarg" => inst.n + 1 \in 1 .. Arity(klass) + 1

LEMMA CtorSteps ==
  ASSUME NEW klass \in Constructed
  PROVE  /\ \A ip \in DOMAIN Ctor(klass) : Behaves(klass, ip) /\ Heights(klass)[ip] \in Nat
         /\ 1 \in DOMAIN Ctor(klass) /\ Heights(klass)[1] = 0
         /\ Arity(klass) \in Nat
         /\ klass \in {"String", "Exception"} => Arity(klass) = 1
<1>1. CASE klass = "String"
  <2>1. /\ Heights(klass) = <<0, 0>>
        /\ Arity(klass) = 1
    BY <1>1 DEF Heights, Arity
  <2>2. DOMAIN Ctor(klass) = 1 .. 2
    BY <1>1 DEF Ctor
  <2>3. /\ Ctor(klass)[1].op = "sequence"
        /\ Ctor(klass)[2].op = "ret"
    BY <1>1 DEF Ctor, Arg, Str, ToStr, Op
  <2>4. ASSUME NEW ip \in 1 .. 2 PROVE Behaves(klass, ip) /\ Heights(klass)[ip] \in Nat
    <3>1. ip = 1 \/ ip = 2
      OBVIOUS
    <3> QED
      BY <1>1, <2>1, <2>2, <2>3, <3>1 DEF Behaves
  <2> QED
    BY <1>1, <2>1, <2>2, <2>4
<1>2. CASE klass = "Exception"
  <2>1. /\ Heights(klass) = <<0, 0>>
        /\ Arity(klass) = 1
    BY <1>2 DEF Heights, Arity
  <2>2. DOMAIN Ctor(klass) = 1 .. 2
    BY <1>2 DEF Ctor
  <2>3. /\ Ctor(klass)[1].op = "message"
        /\ Ctor(klass)[2].op = "ret"
    BY <1>2 DEF Ctor, Arg, Str, ToStr, Op
  <2>4. ASSUME NEW ip \in 1 .. 2 PROVE Behaves(klass, ip) /\ Heights(klass)[ip] \in Nat
    <3>1. ip = 1 \/ ip = 2
      OBVIOUS
    <3> QED
      BY <1>2, <2>1, <2>2, <2>3, <3>1 DEF Behaves
  <2> QED
    BY <1>2, <2>1, <2>2, <2>4
<1>3. CASE klass = "NullPointerException"
  <2>1. /\ Heights(klass) = <<0, 1, 2, 3, 4, 2, 0>>
        /\ Arity(klass) = 1
    BY <1>3 DEF Heights, Arity
  <2>2. DOMAIN Ctor(klass) = 1 .. 7
    BY <1>3 DEF Ctor
  <2>3. /\ Ctor(klass)[1].op = "ldarg" /\ Ctor(klass)[1].n = 0
        /\ Ctor(klass)[2].op = "ldarg" /\ Ctor(klass)[2].n = 1
        /\ Ctor(klass)[3].op = "ldstr"
        /\ Ctor(klass)[4].op = "newarray"
        /\ Ctor(klass)[5].op = "newstring"
        /\ Ctor(klass)[6].op = "base"
        /\ Ctor(klass)[7].op = "ret"
    BY <1>3 DEF Ctor, Arg, Str, ToStr, Op
  <2>4. ASSUME NEW ip \in 1 .. 7 PROVE Behaves(klass, ip) /\ Heights(klass)[ip] \in Nat
    <3>1. ip = 1 \/ ip = 2 \/ ip = 3 \/ ip = 4 \/ ip = 5 \/ ip = 6 \/ ip = 7
      OBVIOUS
    <3> QED
      BY <1>3, <2>1, <2>2, <2>3, <3>1 DEF Behaves
  <2> QED
    BY <1>3, <2>1, <2>2, <2>4
<1>4. CASE klass = "ConversionException"
  <2>1. /\ Heights(klass) = <<0, 1, 2, 3, 4, 2, 3, 4, 2, 3, 4, 2, 0>>
        /\ Arity(klass) = 2
    BY <1>4 DEF Heights, Arity
  <2>2. DOMAIN Ctor(klass) = 1 .. 13
    BY <1>4 DEF Ctor
  <2>3. /\ Ctor(klass)[1].op = "ldarg" /\ Ctor(klass)[1].n = 0
        /\ Ctor(klass)[2].op = "ldstr"
        /\ Ctor(klass)[3].op = "ldarg" /\ Ctor(klass)[3].n = 1
        /\ Ctor(klass)[4].op = "newarray"
        /\ Ctor(klass)[5].op = "newstring"
        /\ Ctor(klass)[6].op = "ldstr"
        /\ Ctor(klass)[7].op = "newarray"
        /\ Ctor(klass)[8].op = "newstring"
        /\ Ctor(klass)[9].op = "ldarg" /\ Ctor(klass)[9].n = 2
        /\ Ctor(klass)[10].op = "newarray"
        /\ Ctor(klass)[11].op = "newstring"
        /\ Ctor(klass)[12].op = "base"
        /\ Ctor(klass)[13].op = "ret"
    BY <1>4 DEF Ctor, Arg, Str, ToStr, Op
  <2>4. ASSUME NEW ip \in 1 .. 13 PROVE Behaves(klass, ip) /\ Heights(klass)[ip] \in Nat
    <3>1. ip = 1 \/ ip = 2 \/ ip = 3 \/ ip = 4 \/ ip = 5 \/ ip = 6 \/ ip = 7 \/ ip = 8
          \/ ip = 9 \/ ip = 10 \/ ip = 11 \/ ip = 12 \/ ip = 13
      OBVIOUS
    <3> QED
      BY <1>4, <2>1, <2>2, <2>3, <3>1 DEF Behaves
  <2> QED
    BY <1>4, <2>1, <2>2, <2>4
<1>5. CASE klass = "OutOfRangeException"
  <2>1. /\ Heights(klass) = <<0, 1, 2, 3, 4, 2, 3, 4, 2, 0>>
        /\ Arity(klass) = 2
    BY <1>5 DEF Heights, Arity
  <2>2. DOMAIN Ctor(klass) = 1 .. 10
    BY <1>5 DEF Ctor
  <2>3. /\ Ctor(klass)[1].op = "ldarg" /\ Ctor(klass)[1].n = 0
        /\ Ctor(klass)[2].op = "ldstr"
        /\ Ctor(klass)[3].op = "tostr"
        /\ Ctor(klass)[4].op = "newarray"
        /\ Ctor(klass)[5].op = "newstring"
        /\ Ctor(klass)[6].op = "tostr"
        /\ Ctor(klass)[7].op = "newarray"
        /\ Ctor(klass)[8].op = "newstring"
        /\ Ctor(klass)[9].op = "base"
        /\ Ctor(klass)[10].op = "ret"
    BY <1>5 DEF Ctor, Arg, Str, ToStr, Op
  <2>4. ASSUME NEW ip \in 1 .. 10 PROVE Behaves(klass, ip) /\ Heights(klass)[ip] \in Nat
    <3>1. ip = 1 \/ ip = 2 \/ ip = 3 \/ ip = 4 \/ ip = 5 \/ ip = 6 \/ ip = 7 \/ ip = 8
          \/ ip = 9 \/ ip = 10
      OBVIOUS
    <3> QED
      BY <1>5, <2>1, <2>2, <2>3, <3>1 DEF Behaves
  <2> QED
    BY <1>5, <2>1, <2>2, <2>4
<1>6. CASE klass = "OptionMissingException"
  <2>1. /\ Heights(klass) = <<0, 1, 2, 3, 4, 2, 0>>
        /\ Arity(klass) = 1
    BY <1>6 DEF Heights, Arity
  <2>2. DOMAIN Ctor(klass) = 1 .. 7
    BY <1>6 DEF Ctor
  <2>3. /\ Ctor(klass)[1].op = "ldarg" /\ Ctor(klass)[1].n = 0
        /\ Ctor(klass)[2].op = "ldstr"
        /\ Ctor(klass)[3].op = "ldarg" /\ Ctor(klass)[3].n = 1
        /\ Ctor(klass)[4].op = "newarray"
        /\ Ctor(klass)[5].op = "newstring"
        /\ Ctor(klass)[6].op = "base"
        /\ Ctor(klass)[7].op = "ret"
    BY <1>6 DEF Ctor, Arg, Str, ToStr, Op
  <2>4. ASSUME NEW ip \in 1 .. 7 PROVE Behaves(klass, ip) /\ Heights(klass)[ip] \in Nat
    <3>1. ip = 1 \/ ip = 2 \/ ip = 3 \/ ip = 4 \/ ip = 5 \/ ip = 6 \/ ip = 7
      OBVIOUS
    <3> QED
      BY <1>6, <2>1, <2>2, <2>3, <3>1 DEF Behaves
  <2> QED
    BY <1>6, <2>1, <2>2, <2>4
<1>7. CASE klass = "EvmInternalException"
  <2>1. /\ Heights(klass) = <<0, 1, 2, 0>>
        /\ Arity(klass) = 1
    BY <1>7 DEF Heights, Arity
  <2>2. DOMAIN Ctor(klass) = 1 .. 4
    BY <1>7 DEF Ctor
  <2>3. /\ Ctor(klass)[1].op = "ldarg" /\ Ctor(klass)[1].n = 0
        /\ Ctor(klass)[2].op = "ldarg" /\ Ctor(klass)[2].n = 1
        /\ Ctor(klass)[3].op = "base"
        /\ Ctor(klass)[4].op = "ret"
    BY <1>7 DEF Ctor, Arg, Str, ToStr, Op
  <2>4. ASSUME NEW ip \in 1 .. 4 PROVE Behaves(klass, ip) /\ Heights(klass)[ip] \in Nat
    <3>1. ip = 1 \/ ip = 2 \/ ip = 3 \/ ip = 4
      OBVIOUS
    <3> QED
      BY <1>7, <2>1, <2>2, <2>3, <3>1 DEF Behaves
  <2> QED
    BY <1>7, <2>1, <2>2, <2>4
<1>8. CASE klass = "DivideByZeroException"
  <2>1. /\ Heights(klass) = <<0, 1, 2, 0>>
        /\ Arity(klass) = 0
    BY <1>8 DEF Heights, Arity
  <2>2. DOMAIN Ctor(klass) = 1 .. 4
    BY <1>8 DEF Ctor
  <2>3. /\ Ctor(klass)[1].op = "ldarg" /\ Ctor(klass)[1].n = 0
        /\ Ctor(klass)[2].op = "ldstr"
        /\ Ctor(klass)[3].op = "base"
        /\ Ctor(klass)[4].op = "ret"
    BY <1>8 DEF Ctor, Arg, Str, ToStr, Op
  <2>4. ASSUME NEW ip \in 1 .. 4 PROVE Behaves(klass, ip) /\ Heights(klass)[ip] \in Nat
    <3>1. ip = 1 \/ ip = 2 \/ ip = 3 \/ ip = 4
      OBVIOUS
    <3> QED
      BY <1>8, <2>1, <2>2, <2>3, <3>1 DEF Behaves
  <2> QED
    BY <1>8, <2>1, <2>2, <2>4
<1> QED
  BY <1>1, <1>2, <1>3, <1>4, <1>5, <1>6, <1>7, <1>8, AgentAssumption DEF Constructed

\* A frame with its slots is added.
FrameAdded(m, frame) ==
  WithFrames(m, Append(m.frames, frame),
             m.roots \cup {SlotAt(Len(m.frames) + 1, n) : n \in DOMAIN frame.slots})

LEMMA FrameAddedSound ==
  ASSUME NEW m, Sound(m), NEW frame, IsFrame(m, frame)
  PROVE  LET d == Len(m.frames) + 1
             t == FrameAdded(m, frame)
         IN /\ Sound(t) /\ t.heap = m.heap /\ t.cells = m.cells /\ t.operand = m.operand
            /\ t.frames = Append(m.frames, frame)
            /\ Len(t.frames) = Len(m.frames) + 1 /\ t.frames[d] = frame
            /\ \A k \in 1 .. Len(m.frames) : t.frames[k] = m.frames[k]
            /\ \A o : Live(m, o) => Live(t, o)
<1> DEFINE d == Len(m.frames) + 1
           list == Append(m.frames, frame)
           new == {SlotAt(d, n) : n \in DOMAIN frame.slots}
           roots == m.roots \cup new
           t == WithFrames(m, list, roots)
<1>1. IsSeq(m.frames) /\ Len(m.frames) \in Nat /\ DOMAIN m.frames = 1 .. Len(m.frames)
  BY SeqLength DEF Sound, CtorFrames
<1>2. /\ IsSeq(list) /\ Len(list) = Len(m.frames) + 1 /\ DOMAIN list = 1 .. Len(m.frames) + 1
      /\ \A k \in 1 .. Len(m.frames) : list[k] = m.frames[k]
      /\ list[d] = frame
  BY <1>1, AppendSeq
<1> HIDE DEF list
<1>3. \A k \in DOMAIN list : k \in DOMAIN m.frames \/ k = d
  BY <1>1, <1>2
<1>4. d \in DOMAIN list /\ DOMAIN m.frames \subseteq DOMAIN list /\ d \notin DOMAIN m.frames
  BY <1>1, <1>2
<1> HIDE DEF d
<1>5. \A k \in DOMAIN list : IsFrame(m, list[k])
  BY <1>1, <1>2, <1>3 DEF Sound, CtorFrames
<1>6. SlotsOf(list) = Slots(m) \cup new
  <2> DEFINE of(k) == {SlotAt(k, n) : n \in DOMAIN list[k].slots}
  <2>1. of(d) = new
    BY <1>2
  <2>2. \A k \in DOMAIN m.frames : of(k) = {SlotAt(k, n) : n \in DOMAIN m.frames[k].slots}
    BY <1>1, <1>2
  <2>3. SlotsOf(list) = UNION {of(k) : k \in DOMAIN list}
    BY DEF SlotsOf
  <2>4. Slots(m) = UNION {of(k) : k \in DOMAIN m.frames}
    <3> DEFINE was(k) == {SlotAt(k, n) : n \in DOMAIN m.frames[k].slots}
    <3>1. Slots(m) = UNION {was(k) : k \in DOMAIN m.frames}
      BY DEF Slots
    <3>2. \A k \in DOMAIN m.frames : of(k) = was(k)
      BY <2>2
    <3> HIDE DEF was, of
    <3> QED
      BY <3>1, <3>2
  <2> HIDE DEF of, new
  <2> QED
    BY <1>3, <1>4, <2>1, <2>3, <2>4
<1>7. /\ SlotsOf(list) \subseteq roots /\ m.roots \ Slots(m) \subseteq roots
      /\ roots \subseteq (m.roots \ Slots(m)) \cup SlotsOf(list)
  <2>1. Slots(m) \subseteq m.roots
    BY DEF Sound, Roots
  <2> HIDE DEF new
  <2> QED
    BY <1>6, <2>1
<1> HIDE DEF roots
<1>8. /\ Sound(t) /\ t.heap = m.heap /\ t.cells = m.cells /\ t.operand = m.operand
      /\ t.frames = list /\ \A o : Live(m, o) => Live(t, o)
  BY <1>2, <1>5, <1>7, FramesSound
<1> QED
  BY <1>2, <1>8 DEF d, list, roots, FrameAdded

LEMMA InvokeCtorSound ==
  ASSUME NEW m, Sound(m), NEW klass \in Constructed, Len(m.operand["agent"]) >= Arity(klass) + 1
  PROVE  LET t == InvokeCtor(m, klass)
         IN /\ Sound(t) /\ t.heap = m.heap /\ t.cells = m.cells
            /\ t.operand["main"] = m.operand["main"]
            /\ Len(t.operand["agent"]) = Len(m.operand["agent"]) - (Arity(klass) + 1)
            /\ Len(t.frames) = Len(m.frames) + 1
            /\ t.frames[Len(m.frames) + 1].klass = klass /\ t.frames[Len(m.frames) + 1].ip = 1
            /\ \A k \in 1 .. Len(m.frames) : t.frames[k] = m.frames[k]
            /\ \A n \in 1 .. Len(m.operand["agent"]) - (Arity(klass) + 1) :
                 t.operand["agent"][n] = m.operand["agent"][n]
            /\ \A n \in 1 .. Arity(klass) + 1 :
                 t.frames[Len(m.frames) + 1].slots[n]
                   = Operand(m, "agent", IF n = 1 THEN Arity(klass) ELSE n - 2).ptr
            /\ \A o : Live(m, o) => Live(t, o)
<1> DEFINE a == Arity(klass)
           p == Popped(m, "agent", a + 1)
           slots == [n \in 1 .. a + 1 |-> Operand(m, "agent", IF n = 1 THEN a ELSE n - 2).ptr]
           frame == [klass |-> klass, ip |-> 1, slots |-> slots]
           d == Len(m.frames) + 1
           t == InvokeCtor(m, klass)
<1>1. a \in Nat /\ 1 \in DOMAIN Ctor(klass)
  BY CtorSteps
<1>2. Len(m.operand["agent"]) \in Nat
      /\ DOMAIN m.operand["agent"] = 1 .. Len(m.operand["agent"])
  BY SeqLength DEF Sound, Operands, Processors
<1>3. /\ Sound(p) /\ p.heap = m.heap /\ p.cells = m.cells /\ p.frames = m.frames
      /\ Len(p.operand["agent"]) = Len(m.operand["agent"]) - (a + 1)
      /\ \A n \in 1 .. Len(m.operand["agent"]) - (a + 1) : p.operand["agent"][n] = m.operand["agent"][n]
      /\ p.operand["main"] = m.operand["main"]
      /\ \A o : Live(m, o) => Live(p, o)
  <2>1. a + 1 \in 0 .. Len(m.operand["agent"])
    BY <1>1, <1>2
  <2> HIDE DEF a
  <2> QED
    BY <2>1, PoppedSound DEF Processors
<1>4. t = WithFrames(p, Append(p.frames, frame),
                     p.roots \cup {SlotAt(Len(p.frames) + 1, n) : n \in DOMAIN frame.slots})
  <2>1. frame.slots = slots
    OBVIOUS
  <2> DEFINE new == {SlotAt(d, n) : n \in DOMAIN slots}
  <2>2. t = [p EXCEPT !.frames = Append(@, frame), !.roots = @ \cup new]
    BY DEF InvokeCtor
  <2> HIDE DEF t, p, slots
  <2>3. t = WithFrames(p, Append(p.frames, frame), p.roots \cup new)
    <3> HIDE DEF frame, new
    <3> QED
      BY <1>3, <2>2 DEF WithFrames, Sound
  <2>4. new = {SlotAt(Len(p.frames) + 1, n) : n \in DOMAIN frame.slots}
    BY <1>3, <2>1
  <2> HIDE DEF new
  <2> QED
    BY <2>3, <2>4
<1>5. IsFrame(p, frame)
  <2>1. ASSUME NEW n \in 1 .. a + 1 PROVE Live(p, slots[n])
    <3> DEFINE k == Len(m.operand["agent"]) - (IF n = 1 THEN a ELSE n - 2)
    <3>1. k \in DOMAIN m.operand["agent"]
      <4> HIDE DEF a
      <4>1. CASE n = 1
        BY <1>1, <1>2, <4>1 DEF a
      <4>2. CASE n # 1
        BY <1>1, <1>2, <4>2 DEF a
      <4> QED
        BY <4>1, <4>2
    <3>2. slots[n] = m.operand["agent"][k].ptr
      BY DEF Operand
    <3> HIDE DEF k
    <3>3. Live(m, m.operand["agent"][k].ptr)
      BY <3>1 DEF Sound, Operands, IsItem, Processors
    <3> QED
      BY <1>3, <3>2, <3>3
  <2> HIDE DEF a, p
  <2>2. IsSeq(slots) /\ Len(slots) = a + 1 /\ DOMAIN slots = 1 .. a + 1
    <3>1. DOMAIN slots = 1 .. a + 1 /\ slots = [n \in 1 .. a + 1 |-> slots[n]] /\ a + 1 \in Nat
      BY <1>1
    <3> HIDE DEF slots
    <3> QED
      BY <3>1, FunctionSeq
  <2> HIDE DEF slots
  <2> QED
    BY <1>1, <2>1, <2>2 DEF IsFrame, a
<1>8. \A n \in 1 .. a + 1 :
        frame.slots[n] = Operand(m, "agent", IF n = 1 THEN a ELSE n - 2).ptr
  OBVIOUS
<1> HIDE DEF t, p, frame, a
<1>6. /\ Sound(t) /\ t.heap = p.heap /\ t.cells = p.cells /\ t.operand = p.operand
      /\ Len(t.frames) = Len(p.frames) + 1 /\ t.frames[Len(p.frames) + 1] = frame
      /\ \A k \in 1 .. Len(p.frames) : t.frames[k] = p.frames[k]
      /\ \A o : Live(p, o) => Live(t, o)
  <2>1. t = FrameAdded(p, frame)
    BY <1>4 DEF FrameAdded
  <2> QED
    BY <1>3, <1>5, <2>1, FrameAddedSound
<1>7. frame.klass = klass /\ frame.ip = 1
  BY DEF frame
<1> QED
  BY <1>3, <1>6, <1>7, <1>8 DEF t, a

\* The constructor goes on to its next instruction.
LEMMA AdvancedSound ==
  ASSUME NEW m, Sound(m), m.frames # <<>>,
         LET f == m.frames[Len(m.frames)] IN f.ip + 1 \in DOMAIN Ctor(f.klass)
  PROVE  LET t == Advanced(m)
             d == Len(m.frames)
         IN /\ Sound(t) /\ t.heap = m.heap /\ t.cells = m.cells /\ t.operand = m.operand
            /\ Len(t.frames) = d /\ d \in DOMAIN m.frames
            /\ t.frames[d].klass = m.frames[d].klass /\ t.frames[d].ip = m.frames[d].ip + 1
            /\ t.frames[d].slots = m.frames[d].slots
            /\ \A k \in 1 .. d - 1 : t.frames[k] = m.frames[k]
            /\ \A o : Live(m, o) => Live(t, o)
<1> DEFINE t == Advanced(m)
           d == Len(m.frames)
           was == m.frames[d]
           now == [was EXCEPT !.ip = @ + 1]
           list == [m.frames EXCEPT ![d] = now]
<1>1. /\ IsSeq(m.frames) /\ d \in Nat \ {0} /\ DOMAIN m.frames = 1 .. d /\ d \in DOMAIN m.frames
      /\ m.frames = [k \in 1 .. d |-> m.frames[k]]
  <2>1. IsSeq(m.frames)
    BY DEF Sound, CtorFrames
  <2> QED
    BY <2>1 DEF IsSeq
<1>2. IsFrame(m, was)
  BY <1>1 DEF Sound, CtorFrames
<1>3. /\ IsFrame(m, now) /\ now.slots = was.slots /\ now.klass = was.klass
      /\ now.ip = was.ip + 1
  <2>1. was = [klass |-> was.klass, ip |-> was.ip, slots |-> was.slots]
    BY <1>2 DEF IsFrame
  <2>2. was.ip + 1 \in DOMAIN Ctor(was.klass)
    OBVIOUS
  <2>3. /\ now = [klass |-> now.klass, ip |-> now.ip, slots |-> now.slots]
        /\ now.slots = was.slots /\ now.klass = was.klass /\ now.ip = was.ip + 1
    <3> HIDE DEF was
    <3> QED
      BY <2>1
  <2> HIDE DEF now, was
  <2> QED
    BY <1>2, <2>2, <2>3 DEF IsFrame
<1>4. t = WithFrames(m, list, m.roots)
  <2>1. m = [heap |-> m.heap, cells |-> m.cells, operand |-> m.operand, frames |-> m.frames,
             roots |-> m.roots]
    BY DEF Sound
  <2>2. t = [m EXCEPT !.frames = list]
    BY DEF Advanced
  <2> HIDE DEF t, list
  <2> QED
    BY <2>1, <2>2 DEF WithFrames
<1>5. /\ DOMAIN list = 1 .. d /\ list = [k \in 1 .. d |-> list[k]]
      /\ list[d] = now /\ \A k \in 1 .. d : k # d => list[k] = m.frames[k]
  <2> HIDE DEF now, d
  <2> QED
    BY <1>1
<1>6. IsSeq(list) /\ Len(list) = d
  <2> HIDE DEF list
  <2> QED
    BY <1>1, <1>5, FunctionSeq
<1> HIDE DEF list, now, d
<1>7. \A k \in DOMAIN list : IsFrame(m, list[k])
  BY <1>1, <1>3, <1>5 DEF Sound, CtorFrames
<1>8. \A k \in 1 .. d : list[k].slots = m.frames[k].slots
  BY <1>1, <1>3, <1>5
<1>9. SlotsOf(list) = Slots(m)
  BY <1>1, <1>5, <1>8 DEF SlotsOf, Slots
<1>10. Slots(m) \subseteq m.roots
  BY DEF Sound, Roots
<1>11. /\ Sound(t) /\ t.heap = m.heap /\ t.cells = m.cells /\ t.operand = m.operand
       /\ t.frames = list /\ \A o : Live(m, o) => Live(t, o)
  BY <1>4, <1>6, <1>7, <1>9, <1>10, FramesSound
<1>12. \A k \in 1 .. d - 1 : k \in 1 .. d /\ k # d
  BY <1>1
<1> QED
  BY <1>1, <1>3, <1>5, <1>6, <1>11, <1>12 DEF t, d

\* ret: the frame goes away with its slots.
FrameLeft(m) ==
  [m EXCEPT !.frames = Front(@),
            !.roots = @ \ {SlotAt(Len(m.frames), n) : n \in DOMAIN Last(m.frames).slots}]

LEMMA FrameLeftSound ==
  ASSUME NEW m, Sound(m), m.frames # <<>>
  PROVE  LET t == FrameLeft(m)
         IN /\ Sound(t) /\ t.heap = m.heap /\ t.cells = m.cells /\ t.operand = m.operand
            /\ Len(t.frames) = Len(m.frames) - 1
            /\ \A k \in 1 .. Len(m.frames) - 1 : t.frames[k] = m.frames[k]
            /\ \A o : Live(m, o) => Live(t, o)
<1> DEFINE t == FrameLeft(m)
           d == Len(m.frames)
           list == Front(m.frames)
           gone == {SlotAt(d, n) : n \in DOMAIN Last(m.frames).slots}
           roots == m.roots \ gone
<1>1. /\ IsSeq(m.frames) /\ DOMAIN m.frames = 1 .. d
  BY SeqLength DEF Sound, CtorFrames
<1>2. /\ IsSeq(list) /\ Len(list) = d - 1 /\ d \in Nat \ {0} /\ DOMAIN list = 1 .. d - 1
      /\ \A k \in 1 .. d - 1 : list[k] = m.frames[k]
      /\ Last(m.frames) = m.frames[d]
  BY <1>1, FrontSeq
<1>3. t = WithFrames(m, list, roots)
  <2>1. m = [heap |-> m.heap, cells |-> m.cells, operand |-> m.operand, frames |-> m.frames,
             roots |-> m.roots]
    BY DEF Sound
  <2>2. t = [m EXCEPT !.frames = Front(@), !.roots = @ \ gone]
    BY DEF FrameLeft
  <2> HIDE DEF t, gone
  <2> QED
    BY <2>1, <2>2 DEF WithFrames
<1> HIDE DEF list, t, d
<1>4. /\ DOMAIN list \subseteq DOMAIN m.frames /\ DOMAIN m.frames = DOMAIN list \cup {d}
      /\ d \notin DOMAIN list
  BY <1>1, <1>2
<1>5. \A k \in DOMAIN list : IsFrame(m, list[k])
  BY <1>2, <1>4 DEF Sound, CtorFrames
<1>6. Slots(m) = SlotsOf(list) \cup gone
  <2> DEFINE of(k) == {SlotAt(k, n) : n \in DOMAIN m.frames[k].slots}
  <2>1. of(d) = gone
    BY <1>2
  <2>2. \A k \in DOMAIN list : of(k) = {SlotAt(k, n) : n \in DOMAIN list[k].slots}
    BY <1>2
  <2>4. Slots(m) = UNION {of(k) : k \in DOMAIN m.frames}
    BY DEF Slots
  <2> HIDE DEF of, gone
  <2>3. SlotsOf(list) = UNION {of(k) : k \in DOMAIN list}
    BY <2>2 DEF SlotsOf
  <2> QED
    BY <1>4, <2>1, <2>3, <2>4
<1>7. \A at \in SlotsOf(list) : at \notin gone
  BY <1>4, Addresses DEF SlotsOf
<1>8. /\ SlotsOf(list) \subseteq roots /\ m.roots \ Slots(m) \subseteq roots
      /\ roots \subseteq (m.roots \ Slots(m)) \cup SlotsOf(list)
  <2>1. Slots(m) \subseteq m.roots
    BY DEF Sound, Roots
  <2> HIDE DEF gone
  <2> QED
    BY <1>6, <1>7, <2>1
<1> HIDE DEF roots
<1>9. /\ Sound(t) /\ t.heap = m.heap /\ t.cells = m.cells /\ t.operand = m.operand
      /\ t.frames = list /\ \A o : Live(m, o) => Live(t, o)
  BY <1>2, <1>3, <1>5, <1>8, FramesSound
<1> QED
  BY <1>2, <1>9 DEF t, d

-----------------------------------------------------------------------------
(***************************************************************************)
(* Where the functions are: who called whom, and the operands and frames of*)
(* the agent's processor that are theirs.                                  *)
(***************************************************************************)
OneCell(a) == Len(a.cells) = IF a.at = 1 THEN 0 ELSE 1

\* The activations there are of each function.
Fits(a) ==
  /\ a = [fn |-> a.fn, at |-> a.at, on |-> a.on, klass |-> a.klass, texts |-> a.texts,
          cells |-> a.cells, args |-> a.args, depth |-> a.depth]
  /\ a.cells \in Seq(Nat \ {0}) /\ a.args \in Seq(Nat) /\ a.depth \in 0 .. 1
  /\ \/ /\ a.fn = "createUnprotectedInstance" /\ a.at \in 1 .. 3 /\ OneCell(a)
        /\ a.klass \in Klasses \cup {"String"} /\ Len(a.args) = Arity(a.klass)
        /\ a.depth = 1 => a.klass = "String"
     \/ /\ a.fn = "createUnprotectedString" /\ a.at \in 1 .. 2 /\ OneCell(a)
        /\ a.args = <<>>
     \/ /\ a.fn = "createString" /\ a.at \in 1 .. 2 /\ a.cells = <<>> /\ a.args = <<>>
     \/ /\ a.fn = "createInstance" /\ a.at \in 1 .. 2 /\ a.cells = <<>>
        /\ a.klass \in Klasses /\ a.depth = 0
        /\ IF a.at = 1 THEN Len(a.args) = Arity(a.klass) ELSE a.args = <<>>
     \/ /\ a.fn \in {"ldstr", "tostr"} /\ a.at \in 1 .. 2 /\ a.cells = <<>> /\ a.args = <<>>
        /\ a.on = IF a.depth = 0 THEN "main" ELSE "agent"
     \/ /\ a.fn = "raise" /\ a.at \in 1 .. 3 /\ a.depth = 0 /\ a.args = <<>>
        /\ a.klass \in Klasses /\ Len(a.cells) <= Len(Texts[a.klass])
        /\ a.at = 2 => Len(a.cells) < Len(Texts[a.klass])
     \/ /\ a.fn = "handleException" /\ a.at \in 1 .. 3 /\ a.depth = 0 /\ a.args = <<>>
        /\ Len(a.cells) = 1

\* b was called by a, or begins an instruction of the program.
CalledBy(a, b) ==
  \/ /\ b.fn = "createUnprotectedInstance" /\ b.depth = a.depth
     /\ a.at = 2 /\ a.fn \in {"createInstance", "createUnprotectedString"}
  \/ /\ b.fn = "createUnprotectedString" /\ b.depth = a.depth
     /\ a.at = 2 /\ a.fn \in {"ldstr", "createString"}
  \/ /\ b.fn = "createString" /\ b.depth = a.depth
     /\ \/ a.at = 2 /\ a.fn \in {"tostr", "raise"}
        \/ a.at \in 2 .. 3 /\ a.fn = "handleException"
  \/ /\ b.fn = "createInstance" /\ b.depth = a.depth
     /\ a.at = 3 /\ a.fn = "raise"
  \/ /\ b.fn \in {"ldstr", "tostr"} /\ a.depth = 0 /\ b.depth = 1
     /\ a.at = 2 /\ a.fn = "createUnprotectedInstance"
Outermost(b) == b.fn \in {"ldstr", "tostr", "raise", "handleException"} /\ b.depth = 0

Chain(st) ==
  /\ IsSeq(st)
  /\ \A d \in DOMAIN st :
       Fits(st[d]) /\ IF d = 1 THEN Outermost(st[d]) ELSE CalledBy(st[d - 1], st[d])

\* What a function that goes on was given.
TakesRaw(a) ==
  a.at = 2 /\ a.fn \in {"createUnprotectedString", "createString", "createInstance", "ldstr"}
TakesHandle(a) ==
  \/ a.at = 2 /\ a.fn = "tostr"
  \/ a.at \in 2 .. 3 /\ a.fn \in {"raise", "handleException"}
Given(m, st, v) ==
  IF st # <<>> /\ TakesRaw(Last(st)) THEN v = Raw(v.ptr) /\ Live(m, v.ptr)
  ELSE IF st # <<>> /\ TakesHandle(Last(st)) THEN v = Handle(v.cell) /\ v.cell \in Nat \ {0}
  ELSE v = Nowhere

\* A constructor that creates a string has not pushed it yet.
RunsCtor(a) == a.fn = "createUnprotectedInstance" /\ a.at = 2
Runs(st) == st # <<>> /\ RunsCtor(Last(st))
Depth(st) == IF st = <<>> THEN 0 ELSE Last(st).depth
HeightAt(m, d) == IF Len(m.frames) < d THEN 0 ELSE Height(m.frames[d])
InFrames(m, runs, depth) ==
  /\ IF runs THEN Len(m.frames) \in depth + 1 .. 2 ELSE Len(m.frames) = depth
  /\ Len(m.frames) = 2 => m.frames[2].klass \in {"String", "Exception"}
  /\ Len(m.operand["agent"]) + depth = HeightAt(m, 1) + HeightAt(m, 2)

\* The handles of a list of activations.
HeldIn(c, lists) == Cardinality(UNION {{d} \X HandlesTo(c, lists[d]) : d \in DOMAIN lists})
Held(c, st) ==
  HeldIn(c, [d \in DOMAIN st |-> st[d].cells]) + HeldIn(c, [d \in DOMAIN st |-> st[d].args])
HeldBy(c, a) == Times(c, a.cells) + Times(c, a.args)
Balanced(m, st, v) ==
  \A c \in Nat \ {0} : CountOf(m, c) = Held(c, st) + One(v.cell = c)

IInv ==
  /\ Sound(memory) /\ Chain(stack) /\ Given(memory, stack, returned)
  /\ InFrames(memory, Runs(stack), Depth(stack)) /\ Balanced(memory, stack, returned)

\* One list more.
LEMMA HeldInMore ==
  ASSUME NEW n \in Nat, NEW lists, DOMAIN lists = 1 .. n,
         NEW more, DOMAIN more = 1 .. n + 1, \A d \in 1 .. n : more[d] = lists[d],
         \A d \in 1 .. n + 1 : IsSeq(more[d]), NEW c
  PROVE  /\ HeldIn(c, lists) \in Nat
         /\ HeldIn(c, more) = HeldIn(c, lists) + Times(c, more[n + 1])
<1> DEFINE of(d) == {d} \X HandlesTo(c, more[d])
           U(k) == UNION {of(d) : d \in 1 .. k}
           S == {k \in Nat : k <= n + 1 => IsFiniteSet(U(k))}
<1>1. ASSUME NEW d \in 1 .. n + 1
      PROVE  /\ IsFiniteSet(of(d)) /\ Cardinality(of(d)) = Times(c, more[d])
             /\ Times(c, more[d]) \in Nat
  <2>1. /\ IsFiniteSet(HandlesTo(c, more[d]))
        /\ Cardinality(HandlesTo(c, more[d])) = Times(c, more[d])
        /\ Times(c, more[d]) \in Nat
    BY TimesNat DEF HandlesTo, Times
  <2>2. IsFiniteSet({d}) /\ Cardinality({d}) = 1
    BY FS_Singleton
  <2>3. /\ IsFiniteSet(of(d))
        /\ Cardinality(of(d)) = Cardinality({d}) * Cardinality(HandlesTo(c, more[d]))
    BY <2>1, <2>2, FS_Product
  <2> QED
    BY <2>1, <2>2, <2>3
<1> HIDE DEF of
<1>2. ASSUME NEW k \in Nat PROVE U(k + 1) = U(k) \cup of(k + 1)
  <2>1. 1 .. k + 1 = (1 .. k) \cup {k + 1}
    OBVIOUS
  <2> QED
    BY <2>1
<1>3. U(0) = {}
  OBVIOUS
<1> HIDE DEF U
<1>4. 0 \in S
  BY <1>3, FS_EmptySet
<1>5. ASSUME NEW k \in S PROVE k + 1 \in S
  <2>1. k \in Nat
    OBVIOUS
  <2>2. SUFFICES ASSUME k + 1 <= n + 1 PROVE IsFiniteSet(U(k + 1))
    BY <2>1
  <2>3. IsFiniteSet(U(k)) /\ k + 1 \in 1 .. n + 1
    BY <2>1, <2>2
  <2>4. IsFiniteSet(of(k + 1))
    BY <1>1, <2>3
  <2>5. IsFiniteSet(U(k) \cup of(k + 1))
    BY <2>3, <2>4, FS_Union
  <2>6. U(k + 1) = U(k) \cup of(k + 1)
    BY <1>2, <2>1
  <2> QED
    BY <2>5, <2>6
<1> HIDE DEF S
<1>6. S = Nat
  <2>1. S \subseteq Nat
    BY DEF S
  <2> QED
    BY <1>4, <1>5, <2>1, SetInduction
<1>7. IsFiniteSet(U(n))
  BY <1>6 DEF S
<1>8. U(n) \cap of(n + 1) = {}
  <2>1. \A d \in 1 .. n : d # n + 1
    OBVIOUS
  <2>2. \A d \in 1 .. n : of(d) \cap of(n + 1) = {}
    BY <2>1 DEF of
  <2> QED
    BY <2>2 DEF U
<1>9. n + 1 \in 1 .. n + 1
  OBVIOUS
<1>10. /\ Cardinality(U(n + 1)) = Cardinality(U(n)) + Times(c, more[n + 1])
       /\ Cardinality(U(n)) \in Nat
  <2>1. Cardinality(U(n) \cup of(n + 1))
          = Cardinality(U(n)) + Cardinality(of(n + 1)) - Cardinality(U(n) \cap of(n + 1))
    BY <1>1, <1>7, <1>9, FS_Union
  <2>2. Cardinality(U(n) \cap of(n + 1)) = 0
    BY <1>8, FS_EmptySet
  <2>3. Cardinality(U(n)) \in Nat
    BY <1>7, FS_CardinalityType
  <2>4. U(n + 1) = U(n) \cup of(n + 1)
    BY <1>2
  <2>5. /\ Cardinality(of(n + 1)) = Times(c, more[n + 1])
        /\ Times(c, more[n + 1]) \in Nat
    BY <1>1, <1>9
  <2> DEFINE a == Cardinality(U(n) \cup of(n + 1))
             b == Cardinality(U(n) \cap of(n + 1))
             x == Cardinality(U(n))
             y == Cardinality(of(n + 1))
  <2>6. a = x + y - b /\ b = 0 /\ x \in Nat /\ y = Times(c, more[n + 1]) /\ y \in Nat
    BY <2>1, <2>2, <2>3, <2>5
  <2>7. Cardinality(U(n + 1)) = a
    BY <2>4
  <2> HIDE DEF a, b, x, y
  <2>8. a = x + y
    BY <2>6
  <2> QED
    BY <2>6, <2>7, <2>8 DEF x
<1>11. HeldIn(c, more) = Cardinality(U(n + 1))
  BY DEF HeldIn, U, of
<1>12. HeldIn(c, lists) = Cardinality(U(n))
  <2>1. \A d \in 1 .. n : of(d) = {d} \X HandlesTo(c, lists[d])
    BY DEF of
  <2>2. UNION {{d} \X HandlesTo(c, lists[d]) : d \in DOMAIN lists} = U(n)
    BY <2>1 DEF U
  <2> QED
    BY <2>2 DEF HeldIn
<1> QED
  BY <1>10, <1>11, <1>12

LEMMA FitsSeq ==
  ASSUME NEW a, Fits(a)
  PROVE  /\ IsSeq(a.cells) /\ Len(a.cells) \in Nat /\ DOMAIN a.cells = 1 .. Len(a.cells)
         /\ \A n \in DOMAIN a.cells : a.cells[n] \in Nat \ {0}
         /\ IsSeq(a.args) /\ Len(a.args) \in Nat /\ DOMAIN a.args = 1 .. Len(a.args)
         /\ \A n \in DOMAIN a.args : a.args[n] \in Nat
         /\ a.depth \in 0 .. 1
<1>1. a.cells \in Seq(Nat \ {0}) /\ a.args \in Seq(Nat) /\ a.depth \in 0 .. 1
  BY DEF Fits
<1>2. IsSeq(a.cells) /\ IsSeq(a.args)
  BY <1>1, ItsElements
<1> QED
  BY <1>1, <1>2, SeqLength

LEMMA HeldByNat ==
  ASSUME NEW a, Fits(a), NEW c
  PROVE  /\ HeldBy(c, a) \in Nat
         /\ (\E n \in DOMAIN a.cells : a.cells[n] = c) \/ (\E n \in DOMAIN a.args : a.args[n] = c)
              => HeldBy(c, a) # 0
         /\ Times(c, a.cells) \in Nat /\ Times(c, a.args) \in Nat
<1>1. /\ Times(c, a.cells) \in Nat /\ Times(c, a.args) \in Nat
      /\ Times(c, a.cells) # 0 <=> \E n \in DOMAIN a.cells : a.cells[n] = c
      /\ Times(c, a.args) # 0 <=> \E n \in DOMAIN a.args : a.args[n] = c
  BY FitsSeq, TimesNat
<1> DEFINE x == Times(c, a.cells)
           y == Times(c, a.args)
<1>2. HeldBy(c, a) = x + y
  BY DEF HeldBy
<1> HIDE DEF x, y
<1>3. x \in Nat /\ y \in Nat
  BY <1>1 DEF x, y
<1>4. HeldBy(c, a) \in Nat /\ (x # 0 \/ y # 0 => HeldBy(c, a) # 0)
  BY <1>2, <1>3
<1> QED
  BY <1>1, <1>3, <1>4 DEF x, y

LEMMA HeldAppend ==
  ASSUME NEW st, IsSeq(st), \A d \in DOMAIN st : Fits(st[d]), NEW a, Fits(a), NEW c
  PROVE  /\ Held(c, st) \in Nat
         /\ Held(c, Append(st, a)) = Held(c, st) + HeldBy(c, a)
<1> DEFINE n == Len(st)
           st1 == Append(st, a)
           cells == [d \in DOMAIN st |-> st[d].cells]
           args == [d \in DOMAIN st |-> st[d].args]
           cells1 == [d \in DOMAIN st1 |-> st1[d].cells]
           args1 == [d \in DOMAIN st1 |-> st1[d].args]
<1>1. /\ n \in Nat /\ DOMAIN st = 1 .. n /\ DOMAIN st1 = 1 .. n + 1
      /\ \A d \in 1 .. n : st1[d] = st[d]
      /\ st1[n + 1] = a
  BY SeqLength, AppendSeq
<1> HIDE DEF n, st1
<1>2. \A d \in 1 .. n + 1 : d \in 1 .. n \/ d = n + 1
  BY <1>1
<1>3. \A d \in 1 .. n + 1 : Fits(st1[d])
  BY <1>1, <1>2
<1>4. \A d \in 1 .. n + 1 : IsSeq(st1[d].cells) /\ IsSeq(st1[d].args)
  BY <1>3, FitsSeq
<1>5. /\ DOMAIN cells = 1 .. n /\ DOMAIN cells1 = 1 .. n + 1
      /\ \A d \in 1 .. n : cells1[d] = cells[d]
      /\ \A d \in 1 .. n + 1 : IsSeq(cells1[d])
      /\ cells1[n + 1] = a.cells
  BY <1>1, <1>2, <1>4
<1>6. /\ DOMAIN args = 1 .. n /\ DOMAIN args1 = 1 .. n + 1
      /\ \A d \in 1 .. n : args1[d] = args[d]
      /\ \A d \in 1 .. n + 1 : IsSeq(args1[d])
      /\ args1[n + 1] = a.args
  BY <1>1, <1>2, <1>4
<1>7. Held(c, st) = HeldIn(c, cells) + HeldIn(c, args)
      /\ Held(c, st1) = HeldIn(c, cells1) + HeldIn(c, args1)
  BY DEF Held
<1> HIDE DEF cells, args, cells1, args1
<1>8. /\ HeldIn(c, cells) \in Nat
      /\ HeldIn(c, cells1) = HeldIn(c, cells) + Times(c, cells1[n + 1])
  BY <1>1, <1>5, HeldInMore
<1>9. /\ HeldIn(c, args) \in Nat
      /\ HeldIn(c, args1) = HeldIn(c, args) + Times(c, args1[n + 1])
  BY <1>1, <1>6, HeldInMore
<1>10. Times(c, a.cells) \in Nat /\ Times(c, a.args) \in Nat
  BY HeldByNat
<1>11. Held(c, st) \in Nat /\ Held(c, st1) = Held(c, st) + HeldBy(c, a)
  BY <1>5, <1>6, <1>7, <1>8, <1>9, <1>10 DEF HeldBy
<1> QED
  BY <1>11 DEF st1

LEMMA HeldNone == \A c : Held(c, <<>>) = 0
<1> SUFFICES ASSUME NEW c PROVE Held(c, <<>>) = 0
  OBVIOUS
<1>1. DOMAIN <<>> = {}
  OBVIOUS
<1>2. \A lists : DOMAIN lists = {} => HeldIn(c, lists) = 0
  BY FS_EmptySet DEF HeldIn
<1> QED
  BY <1>1, <1>2 DEF Held

\* The last activation of a chain, and the others.
LEMMA ChainFront ==
  ASSUME NEW st, Chain(st), st # <<>>
  PROVE  /\ Chain(Front(st)) /\ Fits(Last(st)) /\ st = Append(Front(st), Last(st))
         /\ IF Front(st) = <<>> THEN Outermost(Last(st)) ELSE CalledBy(Last(Front(st)), Last(st))
         /\ \A d \in DOMAIN Front(st) : Fits(Front(st)[d])
         /\ IsSeq(Front(st))
<1> DEFINE n == Len(st)
           f == Front(st)
<1>1. /\ IsSeq(st) /\ DOMAIN st = 1 .. n /\ IsSeq(f) /\ Len(f) = n - 1 /\ n \in Nat \ {0}
      /\ DOMAIN f = 1 .. n - 1
      /\ \A d \in 1 .. n - 1 : f[d] = st[d]
      /\ Last(st) = st[n]
  BY FrontSeq, SeqLength DEF Chain
<1> HIDE DEF n, f
<1>2. \A d \in 1 .. n - 1 : d \in DOMAIN st /\ (d # 1 => d - 1 \in 1 .. n - 1)
  BY <1>1
<1>3. Chain(f)
  BY <1>1, <1>2 DEF Chain
<1>4. Fits(Last(st)) /\ IF n = 1 THEN Outermost(Last(st)) ELSE CalledBy(st[n - 1], Last(st))
  <2>1. n \in DOMAIN st
    BY <1>1
  <2> QED
    BY <1>1, <2>1 DEF Chain
<1>5. st = Append(f, Last(st))
  <2> DEFINE t == Append(f, Last(st))
  <2>1. /\ IsSeq(t) /\ Len(t) = n /\ DOMAIN t = 1 .. n /\ t[n] = Last(st)
        /\ \A d \in 1 .. n - 1 : t[d] = f[d]
    BY <1>1, AppendSeq
  <2> HIDE DEF t
  <2>2. \A d \in 1 .. n : t[d] = st[d]
    <3>1. \A d \in 1 .. n : d = n \/ d \in 1 .. n - 1
      BY <1>1
    <3> QED
      BY <1>1, <2>1, <3>1
  <2>3. t = [d \in 1 .. n |-> t[d]] /\ st = [d \in 1 .. n |-> st[d]]
    BY <1>1, <2>1 DEF IsSeq, n
  <2> QED
    BY <2>2, <2>3 DEF t
<1>6. /\ f = <<>> <=> n = 1
      /\ n # 1 => Last(f) = st[n - 1]
  <2>1. f = <<>> <=> Len(f) = 0
    BY <1>1 DEF IsSeq
  <2>2. f # <<>> => Last(f) = f[n - 1] /\ n - 1 \in 1 .. n - 1
    BY <1>1, <2>1, FrontSeq
  <2> QED
    BY <1>1, <2>1, <2>2
<1> QED
  BY <1>1, <1>3, <1>4, <1>5, <1>6 DEF f, Chain

LEMMA ChainAppend ==
  ASSUME NEW st, Chain(st), NEW a, Fits(a),
         IF st = <<>> THEN Outermost(a) ELSE CalledBy(Last(st), a)
  PROVE  /\ Chain(Append(st, a)) /\ Append(st, a) # <<>> /\ Last(Append(st, a)) = a
         /\ Front(Append(st, a)) = st
<1> DEFINE n == Len(st)
           t == Append(st, a)
<1>1. /\ IsSeq(st) /\ n \in Nat /\ DOMAIN st = 1 .. n
      /\ IsSeq(t) /\ Len(t) = n + 1 /\ DOMAIN t = 1 .. n + 1
      /\ \A d \in 1 .. n : t[d] = st[d]
      /\ t[n + 1] = a
  BY SeqLength, AppendSeq DEF Chain
<1>2. st = <<>> <=> n = 0
  BY <1>1 DEF IsSeq
<1>3. st # <<>> => Last(st) = st[n]
  BY <1>1, FrontSeq
<1> HIDE DEF t
<1>4. t # <<>> /\ Last(t) = a
  <2>1. t # <<>>
    BY <1>1
  <2> QED
    BY <1>1, <2>1, FrontSeq
<1>5. Front(t) = st
  <2> DEFINE f == Front(t)
  <2>0. Len(t) - 1 = n
    BY <1>1
  <2>1. /\ IsSeq(f) /\ Len(f) = n /\ \A d \in 1 .. n : f[d] = t[d]
    <3>1. /\ IsSeq(f) /\ Len(f) = Len(t) - 1 /\ \A d \in 1 .. Len(t) - 1 : f[d] = t[d]
      BY <1>1, <1>4, FrontSeq
    <3> HIDE DEF f
    <3> QED
      BY <2>0, <3>1
  <2> HIDE DEF f
  <2>2. f = [d \in 1 .. n |-> f[d]] /\ st = [d \in 1 .. n |-> st[d]]
    BY <1>1, <2>1 DEF IsSeq
  <2> QED
    BY <1>1, <2>1, <2>2 DEF f
<1>6. Chain(t)
  <2>1. ASSUME NEW d \in 1 .. n + 1
        PROVE  Fits(t[d]) /\ IF d = 1 THEN Outermost(t[d]) ELSE CalledBy(t[d - 1], t[d])
    <3>1. CASE d = n + 1
      <4>1. d # 1 => n \in 1 .. n /\ d - 1 = n /\ st # <<>>
        BY <1>1, <1>2, <3>1
      <4> QED
        BY <1>1, <1>2, <1>3, <3>1, <4>1
    <3>2. CASE d # n + 1
      <4>1. d \in 1 .. n /\ (d # 1 => d - 1 \in 1 .. n)
        BY <1>1, <3>2
      <4> QED
        BY <1>1, <4>1 DEF Chain
    <3> QED
      BY <3>1, <3>2
  <2> QED
    BY <1>1, <2>1 DEF Chain
<1> QED
  BY <1>4, <1>5, <1>6 DEF t

LEMMA CountNat ==
  ASSUME NEW m, Sound(m), NEW c
  PROVE  CountOf(m, c) \in Nat
BY DEF CountOf, Sound, Cells, IsCell

LEMMA OneNat ==
  ASSUME NEW b \in BOOLEAN
  PROVE  One(b) \in 0 .. 1 /\ (b => One(b) = 1) /\ (~ b => One(b) = 0)
BY DEF One

\* The handles to a cell are those of the last activation and of those behind it.
LEMMA TopHandles ==
  ASSUME IInv, stack # <<>>, NEW c \in Nat \ {0}
  PROVE  /\ CountOf(memory, c)
              = Held(c, Front(stack)) + HeldBy(c, Top) + One(returned.cell = c)
         /\ Held(c, Front(stack)) \in Nat /\ HeldBy(c, Top) \in Nat
         /\ One(returned.cell = c) \in 0 .. 1
<1>1. /\ IsSeq(Front(stack)) /\ \A d \in DOMAIN Front(stack) : Fits(Front(stack)[d])
      /\ Fits(Top) /\ stack = Append(Front(stack), Top)
  BY ChainFront DEF IInv, Top
<1> HIDE DEF Top
<1>2. /\ Held(c, Front(stack)) \in Nat
      /\ Held(c, Append(Front(stack), Top)) = Held(c, Front(stack)) + HeldBy(c, Top)
  BY <1>1, HeldAppend
<1>3. CountOf(memory, c) = Held(c, stack) + One(returned.cell = c)
  BY DEF IInv, Balanced
<1> QED
  BY <1>1, <1>2, <1>3, HeldByNat, OneNat

\* The function goes on.
LEMMA GoesOn ==
  ASSUME IInv, stack # <<>>, NEW m, NEW f, Goes(m, f, <<>>), Sound(m), Fits(f),
         \/ f.fn = Top.fn
         \/ f.fn = "handleException" /\ Top.fn = "raise",
         f.depth = Top.depth, ~ TakesRaw(f), ~ TakesHandle(f),
         InFrames(m, RunsCtor(f), f.depth),
         \A c \in Nat \ {0} : CountOf(m, c) + HeldBy(c, Top) + One(returned.cell = c)
                              = CountOf(memory, c) + HeldBy(c, f)
  PROVE  IInv'
<1> DEFINE S == Front(stack)
<1>1. /\ Chain(S) /\ IsSeq(S) /\ \A d \in DOMAIN S : Fits(S[d])
      /\ IF S = <<>> THEN Outermost(Top) ELSE CalledBy(Last(S), Top)
  BY ChainFront DEF IInv, Top
<1>2. stack' = Append(S, f) /\ memory' = m /\ returned' = Nowhere
  <2>1. stack' = (S \o <<f>>) \o <<>> /\ memory' = m /\ returned' = Nowhere
    BY DEF Goes
  <2>2. \E T : S \in Seq(T) /\ f \in T
    <3>1. S \in Seq(SetOf(S) \cup {f}) /\ f \in SetOf(S) \cup {f}
      BY <1>1 DEF IsSeq
    <3> QED
      BY <3>1
  <2> HIDE DEF S
  <2>3. (S \o <<f>>) \o <<>> = Append(S, f)
    BY <2>2
  <2> QED
    BY <2>1, <2>3
<1> HIDE DEF S
<1>3. IF S = <<>> THEN Outermost(f) ELSE CalledBy(Last(S), f)
  BY <1>1 DEF Outermost, CalledBy
<1>4. /\ Chain(stack') /\ stack' # <<>> /\ Last(stack') = f
  BY <1>1, <1>2, <1>3, ChainAppend
<1>5. Given(m, stack', Nowhere)
  BY <1>4 DEF Given
<1>6. InFrames(m, Runs(stack'), Depth(stack'))
  <2>1. (Runs(stack') <=> RunsCtor(f)) /\ Depth(stack') = f.depth
    BY <1>4 DEF Runs, Depth
  <2> QED
    BY <2>1 DEF InFrames
<1>7. Balanced(m, stack', Nowhere)
  <2>1. SUFFICES ASSUME NEW c \in Nat \ {0}
                 PROVE  CountOf(m, c) = Held(c, stack') + One(Nowhere.cell = c)
    BY DEF Balanced
  <2>2. /\ CountOf(memory, c) = Held(c, S) + HeldBy(c, Top) + One(returned.cell = c)
        /\ Held(c, S) \in Nat /\ HeldBy(c, Top) \in Nat /\ One(returned.cell = c) \in 0 .. 1
    BY TopHandles DEF S
  <2>3. Held(c, stack') = Held(c, S) + HeldBy(c, f) /\ HeldBy(c, f) \in Nat
    <3>1. Held(c, stack') = Held(c, S) + HeldBy(c, f)
      BY <1>1, <1>2, HeldAppend
    <3>2. HeldBy(c, f) \in Nat
      BY HeldByNat
    <3> QED
      BY <3>1, <3>2
  <2>4. One(Nowhere.cell = c) = 0
    BY DEF Nowhere, One
  <2>5. CountOf(m, c) \in Nat /\ CountOf(memory, c) \in Nat
    BY CountNat DEF IInv
  <2>6. CountOf(m, c) + HeldBy(c, Top) + One(returned.cell = c)
          = CountOf(memory, c) + HeldBy(c, f)
    OBVIOUS
  <2> HIDE DEF Top
  <2> QED
    BY <2>2, <2>3, <2>4, <2>5, <2>6
<1> QED
  BY <1>2, <1>4, <1>5, <1>6, <1>7 DEF IInv, Balanced, Given, InFrames, Runs, Depth

\* It calls another.
LEMMA CallsOn ==
  ASSUME IInv, stack # <<>>, NEW m, NEW f, NEW g, Goes(m, f, <<g>>), Sound(m),
         Fits(f), f.fn = Top.fn, f.depth = Top.depth,
         Fits(g), CalledBy(f, g), ~ TakesRaw(g), ~ TakesHandle(g),
         InFrames(m, RunsCtor(g), g.depth),
         \A c \in Nat \ {0} : CountOf(m, c) + HeldBy(c, Top) + One(returned.cell = c)
                              = CountOf(memory, c) + HeldBy(c, f) + HeldBy(c, g)
  PROVE  IInv'
<1> DEFINE S == Front(stack)
           T == Append(S, f)
<1>1. /\ Chain(S) /\ IsSeq(S) /\ \A d \in DOMAIN S : Fits(S[d])
      /\ IF S = <<>> THEN Outermost(Top) ELSE CalledBy(Last(S), Top)
  BY ChainFront DEF IInv, Top
<1>2. stack' = Append(T, g) /\ memory' = m /\ returned' = Nowhere
  <2>1. stack' = (S \o <<f>>) \o <<g>> /\ memory' = m /\ returned' = Nowhere
    BY DEF Goes
  <2>2. \E U : S \in Seq(U) /\ f \in U /\ g \in U
    <3>1. S \in Seq(SetOf(S) \cup {f, g}) /\ {f, g} \subseteq SetOf(S) \cup {f, g}
      BY <1>1 DEF IsSeq
    <3> QED
      BY <3>1
  <2> HIDE DEF S
  <2>3. (S \o <<f>>) \o <<g>> = Append(Append(S, f), g)
    BY <2>2
  <2> QED
    BY <2>1, <2>3
<1> HIDE DEF S
<1>3. IF S = <<>> THEN Outermost(f) ELSE CalledBy(Last(S), f)
  BY <1>1 DEF Outermost, CalledBy
<1>4. /\ Chain(T) /\ T # <<>> /\ Last(T) = f
  BY <1>1, <1>3, ChainAppend
<1>5. IsSeq(T) /\ \A d \in DOMAIN T : Fits(T[d])
  BY <1>4 DEF Chain
<1>6. /\ Chain(stack') /\ stack' # <<>> /\ Last(stack') = g
  <2> HIDE DEF T
  <2> QED
    BY <1>2, <1>4, ChainAppend
<1>7. Given(m, stack', Nowhere)
  BY <1>6 DEF Given
<1>8. InFrames(m, Runs(stack'), Depth(stack'))
  <2>1. (Runs(stack') <=> RunsCtor(g)) /\ Depth(stack') = g.depth
    BY <1>6 DEF Runs, Depth
  <2> QED
    BY <2>1 DEF InFrames
<1>9. Balanced(m, stack', Nowhere)
  <2>1. SUFFICES ASSUME NEW c \in Nat \ {0}
                 PROVE  CountOf(m, c) = Held(c, stack') + One(Nowhere.cell = c)
    BY DEF Balanced
  <2>2. /\ CountOf(memory, c) = Held(c, S) + HeldBy(c, Top) + One(returned.cell = c)
        /\ Held(c, S) \in Nat /\ HeldBy(c, Top) \in Nat /\ One(returned.cell = c) \in 0 .. 1
    BY TopHandles DEF S
  <2>3. Held(c, T) = Held(c, S) + HeldBy(c, f) /\ HeldBy(c, f) \in Nat
    <3>1. Held(c, T) = Held(c, S) + HeldBy(c, f)
      BY <1>1, HeldAppend
    <3>2. HeldBy(c, f) \in Nat
      BY HeldByNat
    <3> QED
      BY <3>1, <3>2
  <2>4. Held(c, stack') = Held(c, T) + HeldBy(c, g) /\ HeldBy(c, g) \in Nat
    <3> HIDE DEF T
    <3>1. Held(c, stack') = Held(c, T) + HeldBy(c, g)
      BY <1>2, <1>5, HeldAppend
    <3>2. HeldBy(c, g) \in Nat
      BY HeldByNat
    <3> QED
      BY <3>1, <3>2
  <2>5. One(Nowhere.cell = c) = 0
    BY DEF Nowhere, One
  <2>6. CountOf(m, c) \in Nat /\ CountOf(memory, c) \in Nat
    BY CountNat DEF IInv
  <2>7. CountOf(m, c) + HeldBy(c, Top) + One(returned.cell = c)
          = CountOf(memory, c) + HeldBy(c, f) + HeldBy(c, g)
    OBVIOUS
  <2> HIDE DEF Top, T
  <2> DEFINE x == CountOf(m, c)
             y == CountOf(memory, c)
             h == Held(c, S)
             t == HeldBy(c, Top)
             o == One(returned.cell = c)
             hf == HeldBy(c, f)
             hg == HeldBy(c, g)
  <2>8. /\ x \in Nat /\ y \in Nat /\ h \in Nat /\ t \in Nat /\ o \in 0 .. 1
        /\ hf \in Nat /\ hg \in Nat
        /\ y = h + t + o /\ x + t + o = y + hf + hg
    BY <2>2, <2>3, <2>4, <2>6, <2>7
  <2>9. Held(c, stack') = h + hf + hg
    BY <2>3, <2>4
  <2> HIDE DEF x, y, h, t, o, hf, hg
  <2>10. x = h + hf + hg
    BY <2>8
  <2> QED
    BY <2>5, <2>8, <2>9, <2>10 DEF x
<1> QED
  BY <1>2, <1>6, <1>7, <1>8, <1>9 DEF IInv, Balanced, Given, InFrames, Runs, Depth

\* It returns.
LEMMA ReturnsTo ==
  ASSUME IInv, stack # <<>>, NEW m, NEW v, Sound(m),
         memory' = m, stack' = Front(stack), returned' = v,
         Given(m, Front(stack), v),
         InFrames(m, Runs(Front(stack)), Depth(Front(stack))),
         \A c \in Nat \ {0} : CountOf(m, c) + HeldBy(c, Top) + One(returned.cell = c)
                              = CountOf(memory, c) + One(v.cell = c)
  PROVE  IInv'
<1> DEFINE S == Front(stack)
<1>1. Chain(S)
  BY ChainFront DEF IInv
<1>2. Balanced(m, S, v)
  <2>1. SUFFICES ASSUME NEW c \in Nat \ {0}
                 PROVE  CountOf(m, c) = Held(c, S) + One(v.cell = c)
    BY DEF Balanced
  <2>2. /\ CountOf(memory, c) = Held(c, S) + HeldBy(c, Top) + One(returned.cell = c)
        /\ Held(c, S) \in Nat /\ HeldBy(c, Top) \in Nat /\ One(returned.cell = c) \in 0 .. 1
    BY TopHandles
  <2>3. CountOf(m, c) \in Nat /\ CountOf(memory, c) \in Nat
    BY CountNat DEF IInv
  <2>4. One(v.cell = c) \in 0 .. 1
    BY OneNat
  <2>5. CountOf(m, c) + HeldBy(c, Top) + One(returned.cell = c)
          = CountOf(memory, c) + One(v.cell = c)
    OBVIOUS
  <2> HIDE DEF Top, S
  <2> QED
    BY <2>2, <2>3, <2>4, <2>5
<1> HIDE DEF S
<1> QED
  BY <1>1, <1>2 DEF IInv, Balanced, Given, InFrames, Runs, Depth, S

-----------------------------------------------------------------------------
(***************************************************************************)
(* What the invariant says where a function goes on.                       *)
(***************************************************************************)
LEMMA TimesOf ==
  ASSUME NEW c
  PROVE  /\ Times(c, <<>>) = 0
         /\ \A e : Times(c, <<e>>) = One(e = c)
<1>1. Times(c, <<>>) = 0
  <2>1. {n \in DOMAIN <<>> : <<>>[n] = c} = {}
    OBVIOUS
  <2> QED
    BY <2>1, FS_EmptySet DEF Times
<1>2. ASSUME NEW e PROVE Times(c, <<e>>) = One(e = c)
  <2>1. DOMAIN <<e>> = {1} /\ <<e>>[1] = e
    OBVIOUS
  <2>2. CASE e = c
    <3>1. {n \in DOMAIN <<e>> : <<e>>[n] = c} = {1}
      BY <2>1, <2>2
    <3> QED
      BY <2>2, <3>1, FS_Singleton DEF Times, One
  <2>3. CASE e # c
    <3>1. {n \in DOMAIN <<e>> : <<e>>[n] = c} = {}
      BY <2>1, <2>3
    <3> QED
      BY <2>3, <3>1, FS_EmptySet DEF Times, One
  <2> QED
    BY <2>2, <2>3
<1> QED
  BY <1>1, <1>2

\* A list in two parts.
LEMMA TimesJoin ==
  ASSUME NEW s, IsSeq(s), NEW t, IsSeq(t), NEW c
  PROVE  Times(c, s \o t) = Times(c, s) + Times(c, t)
<1> DEFINE u == s \o t
           of(l) == {n \in DOMAIN l : l[n] = c}
           far == {Len(s) + n : n \in of(t)}
<1>1. /\ IsSeq(u) /\ DOMAIN u = 1 .. Len(s) + Len(t) /\ Len(u) = Len(s) + Len(t)
      /\ \A n \in 1 .. Len(s) : u[n] = s[n]
      /\ \A n \in 1 .. Len(t) : u[Len(s) + n] = t[n]
  <2>1. IsSeq(u) /\ Len(u) = Len(s) + Len(t)
    BY JoinSeq
  <2>2. DOMAIN u = 1 .. Len(s) + Len(t)
    BY JoinSeq
  <2>3. \A n \in 1 .. Len(s) : u[n] = s[n]
    BY JoinSeq
  <2>4. \A n \in 1 .. Len(t) : u[Len(s) + n] = t[n]
    BY JoinSeq
  <2> QED
    BY <2>1, <2>2, <2>3, <2>4
<1>2. /\ Len(s) \in Nat /\ DOMAIN s = 1 .. Len(s)
      /\ Len(t) \in Nat /\ DOMAIN t = 1 .. Len(t)
  BY SeqLength
<1>3. /\ IsFiniteSet(of(s)) /\ Cardinality(of(s)) = Times(c, s) /\ Times(c, s) \in Nat
      /\ IsFiniteSet(of(t)) /\ Cardinality(of(t)) = Times(c, t) /\ Times(c, t) \in Nat
      /\ Cardinality(of(u)) = Times(c, u)
  BY TimesNat DEF Times
<1> HIDE DEF u
<1>4. of(u) = of(s) \cup far
  <2>1. ASSUME NEW n \in of(u) PROVE n \in of(s) \cup far
    <3>1. n \in 1 .. Len(s) \/ (n - Len(s) \in 1 .. Len(t) /\ n = Len(s) + (n - Len(s)))
      BY <1>1, <1>2
    <3> QED
      BY <1>1, <1>2, <3>1
  <2>2. \A n \in of(s) : n \in of(u)
    BY <1>1, <1>2
  <2>3. \A n \in of(t) : Len(s) + n \in of(u)
    BY <1>1, <1>2
  <2> QED
    BY <2>1, <2>2, <2>3
<1>5. of(s) \cap far = {}
  BY <1>2
<1>6. IsFiniteSet(far) /\ Cardinality(far) = Cardinality(of(t))
  <2> DEFINE f == [n \in of(t) |-> Len(s) + n]
  <2>1. f \in Bijection(of(t), far)
    <3>1. f \in [of(t) -> far] /\ \A n \in of(t) : f[n] = Len(s) + n
      OBVIOUS
    <3>2. \A n \in of(t) : n \in Int
      BY <1>2
    <3> HIDE DEF of, f, far
    <3>3. \A a, b \in of(t) : f[a] = f[b] => a = b
      BY <1>2, <3>1, <3>2
    <3>4. \A b \in far : \E a \in of(t) : f[a] = b
      BY <3>1 DEF far
    <3> QED
      BY <3>1, <3>3, <3>4 DEF Bijection, Injection, Surjection, IsInjective
  <2>2. ExistsBijection(of(t), far)
    BY <2>1 DEF ExistsBijection
  <2> HIDE DEF of, far
  <2> QED
    BY <1>3, <2>2, FS_Bijection
<1> HIDE DEF of, far
<1>7. Cardinality(of(s) \cup far)
        = Cardinality(of(s)) + Cardinality(far) - Cardinality(of(s) \cap far)
  BY <1>3, <1>6, FS_Union
<1>8. Cardinality(of(s) \cap far) = 0
  BY <1>5, FS_EmptySet
<1>9. Times(c, u) = Times(c, s) + Times(c, t)
  BY <1>3, <1>4, <1>6, <1>7, <1>8
<1> QED
  BY <1>9 DEF u

LEMMA TimesAppend ==
  ASSUME NEW s, IsSeq(s), NEW e, NEW c
  PROVE  Times(c, Append(s, e)) = Times(c, s) + One(e = c)
<1>1. Append(s, e) = s \o <<e>>
  <2>1. s \in Seq(SetOf(s) \cup {e}) /\ e \in SetOf(s) \cup {e}
    BY DEF IsSeq
  <2> QED
    BY <2>1
<1>2. IsSeq(<<e>>)
  BY OneSeq
<1>3. Times(c, s \o <<e>>) = Times(c, s) + Times(c, <<e>>)
  BY <1>2, TimesJoin
<1>4. Times(c, <<e>>) = One(e = c)
  BY TimesOf
<1> QED
  BY <1>1, <1>3, <1>4, Zenon

\* A handle somebody has is a handle to a cell.
LEMMA HandleThere ==
  ASSUME IInv, stack # <<>>, NEW c \in Nat \ {0},
         \/ \E n \in DOMAIN Top.cells : Top.cells[n] = c
         \/ \E n \in DOMAIN Top.args : Top.args[n] = c
         \/ returned.cell = c
  PROVE  c \in DOMAIN memory.cells /\ Live(memory, memory.cells[c].ins)
<1>1. /\ CountOf(memory, c)
              = Held(c, Front(stack)) + HeldBy(c, Top) + One(returned.cell = c)
      /\ Held(c, Front(stack)) \in Nat /\ HeldBy(c, Top) \in Nat
      /\ One(returned.cell = c) \in 0 .. 1
  BY TopHandles
<1>2. Fits(Top)
  BY ChainFront DEF IInv, Top
<1>3. HeldBy(c, Top) # 0 \/ One(returned.cell = c) # 0
  BY <1>2, HeldByNat DEF One
<1>4. CountOf(memory, c) # 0
  BY <1>1, <1>3
<1>5. c \in DOMAIN memory.cells
  BY <1>4 DEF CountOf
<1> QED
  BY <1>5 DEF IInv, Sound, Cells, IsCell

\* What the last activation is, and who called it.
LEMMA AtTop ==
  ASSUME IInv, stack # <<>>
  PROVE  /\ Sound(memory) /\ Fits(Top) /\ IsSeq(Top.cells) /\ IsSeq(Top.args)
         /\ InFrames(memory, RunsCtor(Top), Top.depth)
         /\ TakesRaw(Top) => returned = Raw(returned.ptr) /\ Live(memory, returned.ptr)
         /\ ~ TakesRaw(Top) /\ TakesHandle(Top) =>
              /\ returned = Handle(returned.cell) /\ returned.cell \in Nat \ {0}
              /\ returned.cell \in DOMAIN memory.cells
              /\ Live(memory, memory.cells[returned.cell].ins)
         /\ ~ TakesRaw(Top) /\ ~ TakesHandle(Top) => returned = Nowhere
         /\ IF Front(stack) = <<>> THEN Outermost(Top)
            ELSE CalledBy(Last(Front(stack)), Top) /\ Fits(Last(Front(stack)))
<1>1. /\ Fits(Top) /\ Chain(Front(stack))
      /\ IF Front(stack) = <<>> THEN Outermost(Top) ELSE CalledBy(Last(Front(stack)), Top)
  BY ChainFront DEF IInv, Top
<1>2. Front(stack) # <<>> => Fits(Last(Front(stack)))
  BY <1>1, ChainFront
<1>3. IsSeq(Top.cells) /\ IsSeq(Top.args)
  BY <1>1, FitsSeq
<1>4. Sound(memory) /\ Given(memory, stack, returned)
      /\ InFrames(memory, Runs(stack), Depth(stack))
  BY DEF IInv
<1>5. InFrames(memory, RunsCtor(Top), Top.depth)
  <2>1. (Runs(stack) <=> RunsCtor(Top)) /\ Depth(stack) = Top.depth
    BY DEF Runs, Depth, Top
  <2> QED
    BY <1>4, <2>1 DEF InFrames
<1>6. /\ TakesRaw(Top) => returned = Raw(returned.ptr) /\ Live(memory, returned.ptr)
      /\ ~ TakesRaw(Top) /\ TakesHandle(Top) =>
           returned = Handle(returned.cell) /\ returned.cell \in Nat \ {0}
      /\ ~ TakesRaw(Top) /\ ~ TakesHandle(Top) => returned = Nowhere
  BY <1>4 DEF Given, Top
<1>7. returned.cell \in Nat \ {0} =>
        returned.cell \in DOMAIN memory.cells /\ Live(memory, memory.cells[returned.cell].ins)
  BY HandleThere
<1> QED
  BY <1>1, <1>2, <1>3, <1>4, <1>5, <1>6, <1>7

LEMMA CountThere ==
  ASSUME NEW m, Sound(m), NEW c
  PROVE  c \in DOMAIN m.cells <=> CountOf(m, c) # 0
BY DEF CountOf, Sound, Cells, IsCell

\* An object is created and protected.
LEMMA NewInCellIs ==
  ASSUME NEW m, Sound(m), NEW room \in Room(m), NEW klass, NEW refs, NEW text,
         \A f \in DOMAIN refs : refs[f] = 0
  PROVE  LET cell == NextCell(room)
             t == MakeProtectedCell(Created(room, klass, refs, text), Ptr(NextId(room)))
         IN /\ Sound(t) /\ t.operand = m.operand /\ t.frames = m.frames
            /\ cell \in Nat \ {0} /\ cell \in DOMAIN t.cells
            /\ DOMAIN m.cells \subseteq DOMAIN t.cells
            /\ Live(t, t.cells[cell].ins)
            /\ \A c \in Nat \ {0} : CountOf(t, c) = CountOf(m, c) + One(c = cell)
            /\ cell \notin DOMAIN m.cells /\ \A c \in DOMAIN m.cells : t.cells[c] = m.cells[c]
            /\ t.cells[cell].ins = Ptr(NextId(room))
            /\ NextId(room) \in DOMAIN t.heap /\ DOMAIN room.heap \subseteq DOMAIN t.heap
            /\ t.heap[NextId(room)] = AnObject(klass, refs, text)
            /\ \A i \in DOMAIN room.heap : t.heap[i] = room.heap[i]
<1> DEFINE cell == NextCell(room)
           u == Created(room, klass, refs, text)
           t == MakeProtectedCell(u, Ptr(NextId(room)))
<1>1. /\ Sound(room) /\ Unused(room) # {}
      /\ room.cells = m.cells /\ room.operand = m.operand /\ room.frames = m.frames
  BY RoomSound
<1>2. /\ Sound(u) /\ Live(u, Ptr(NextId(room)))
      /\ u.cells = m.cells /\ u.operand = m.operand /\ u.frames = m.frames
      /\ NextId(room) \in DOMAIN u.heap /\ DOMAIN room.heap \subseteq DOMAIN u.heap
      /\ u.heap[NextId(room)] = AnObject(klass, refs, text)
      /\ \A i \in DOMAIN room.heap : u.heap[i] = room.heap[i]
  BY <1>1, CreatedIs
<1>3. NextCell(u) = cell
  <2> HIDE DEF u
  <2> QED
    BY <1>1, <1>2 DEF NextCell
<1> HIDE DEF u
<1>4. /\ Sound(t) /\ t.heap = u.heap /\ t.operand = u.operand /\ t.frames = u.frames
      /\ NextCell(u) \in Nat \ {0} /\ NextCell(u) \in DOMAIN t.cells
      /\ t.cells[NextCell(u)].ins = Ptr(NextId(room)) /\ NextCell(u) \notin DOMAIN u.cells
      /\ \A c \in DOMAIN u.cells : t.cells[c] = u.cells[c]
      /\ \A p : Live(u, p) => Live(t, p)
      /\ \A c \in Nat \ {0} : CountOf(t, c) = CountOf(u, c) + One(c = NextCell(u))
  BY <1>2, MadeSound
<1> HIDE DEF t, cell
<1>5. \A c : CountOf(u, c) = CountOf(m, c)
  BY <1>2 DEF CountOf
<1>6. \A c \in Nat \ {0} : CountOf(t, c) = CountOf(m, c) + One(c = cell)
  BY <1>3, <1>4, <1>5
<1>7. ASSUME NEW c \in DOMAIN m.cells PROVE c \in DOMAIN t.cells
  <2>1. c \in Nat \ {0} /\ CountOf(m, c) # 0 /\ CountOf(m, c) \in Nat
    BY CountThere, CountNat DEF Sound, Cells
  <2>2. CountOf(t, c) = CountOf(m, c) + One(c = cell) /\ One(c = cell) \in 0 .. 1
    BY <1>6, <2>1, OneNat
  <2>3. CountOf(t, c) # 0
    BY <2>1, <2>2
  <2> QED
    BY <1>4, <2>3, CountThere
<1>8. Live(t, t.cells[cell].ins)
  BY <1>2, <1>3, <1>4
<1> QED
  BY <1>2, <1>3, <1>4, <1>6, <1>7, <1>8 DEF t, u, cell

LEMMA NewInCell ==
  ASSUME NEW m, Sound(m), NEW room \in Room(m), NEW klass, NEW refs, NEW text,
         \A f \in DOMAIN refs : refs[f] = 0
  PROVE  LET cell == NextCell(room)
             t == MakeProtectedCell(Created(room, klass, refs, text), Ptr(NextId(room)))
         IN /\ Sound(t) /\ t.operand = m.operand /\ t.frames = m.frames
            /\ cell \in Nat \ {0} /\ cell \in DOMAIN t.cells
            /\ DOMAIN m.cells \subseteq DOMAIN t.cells
            /\ Live(t, t.cells[cell].ins)
            /\ \A c \in Nat \ {0} : CountOf(t, c) = CountOf(m, c) + One(c = cell)
BY NewInCellIs

\* The heights of the frames, when a frame is added and its operands are taken away.
LEMMA FrameBegins ==
  ASSUME NEW m, Sound(m), NEW t, NEW depth \in 0 .. 1, NEW klass,
         InFrames(m, FALSE, depth), depth = 1 => klass = "String",
         klass \in Constructed,
         Len(t.frames) = Len(m.frames) + 1,
         t.frames[Len(m.frames) + 1].klass = klass, t.frames[Len(m.frames) + 1].ip = 1,
         \A k \in 1 .. Len(m.frames) : t.frames[k] = m.frames[k],
         Len(t.operand["agent"]) = Len(m.operand["agent"])
  PROVE  InFrames(t, TRUE, depth)
<1>1. Len(m.frames) = depth /\ Len(m.operand["agent"]) + depth = HeightAt(m, 1) + HeightAt(m, 2)
  BY DEF InFrames
<1>2. Height(t.frames[depth + 1]) = 0
  BY <1>1, CtorSteps DEF Height
<1>3. CASE depth = 0
  <2>1. HeightAt(m, 1) = 0 /\ HeightAt(m, 2) = 0 /\ HeightAt(t, 1) = 0 /\ HeightAt(t, 2) = 0
    BY <1>1, <1>2, <1>3 DEF HeightAt
  <2> QED
    BY <1>1, <1>3, <2>1 DEF InFrames
<1>4. CASE depth = 1
  <2>1. /\ HeightAt(m, 1) = HeightAt(t, 1) /\ HeightAt(m, 2) = 0 /\ HeightAt(t, 2) = 0
        /\ t.frames[2].klass = "String"
    BY <1>1, <1>2, <1>4 DEF HeightAt
  <2> QED
    BY <1>1, <1>4, <2>1 DEF InFrames
<1>5. depth = 0 \/ depth = 1
  OBVIOUS
<1> QED
  BY <1>3, <1>4, <1>5, Zenon

\* An activation that got somewhere else.
Now(a, at, cells, args) ==
  [fn |-> a.fn, at |-> at, on |-> a.on, klass |-> a.klass, texts |-> a.texts,
   cells |-> cells, args |-> args, depth |-> a.depth]

LEMMA ActivationNow ==
  ASSUME NEW a, Fits(a), NEW at, NEW cells
  PROVE  /\ [a EXCEPT !.at = at] = Now(a, at, a.cells, a.args)
         /\ [a EXCEPT !.at = at, !.cells = cells] = Now(a, at, cells, a.args)
         /\ [a EXCEPT !.at = at, !.args = <<>>] = Now(a, at, a.cells, <<>>)
         /\ a = Now(a, a.at, a.cells, a.args)
<1>1. a = [fn |-> a.fn, at |-> a.at, on |-> a.on, klass |-> a.klass, texts |-> a.texts,
           cells |-> a.cells, args |-> a.args, depth |-> a.depth]
  BY DEF Fits
<1>2. ASSUME NEW f, f = [a EXCEPT !.at = at] PROVE f = Now(a, at, a.cells, a.args)
  BY <1>1, <1>2 DEF Now
<1>3. ASSUME NEW f, f = [a EXCEPT !.at = at, !.cells = cells] PROVE f = Now(a, at, cells, a.args)
  BY <1>1, <1>3 DEF Now
<1>4. ASSUME NEW f, f = [a EXCEPT !.at = at, !.args = <<>>] PROVE f = Now(a, at, a.cells, <<>>)
  BY <1>1, <1>4 DEF Now
<1> QED
  BY <1>1, <1>2, <1>3, <1>4 DEF Now

LEMMA NowIs ==
  ASSUME NEW a, NEW at, NEW cells, NEW args
  PROVE  LET f == Now(a, at, cells, args)
         IN /\ f.fn = a.fn /\ f.at = at /\ f.on = a.on /\ f.klass = a.klass
            /\ f.cells = cells /\ f.args = args /\ f.depth = a.depth
            /\ f = [fn |-> f.fn, at |-> f.at, on |-> f.on, klass |-> f.klass, texts |-> f.texts,
                    cells |-> f.cells, args |-> f.args, depth |-> f.depth]
BY DEF Now

LEMMA BeginInstanceKeeps ==
  ASSUME IInv, BeginInstance
  PROVE  IInv'
<1>1. /\ stack # <<>> /\ Top.fn = "createUnprotectedInstance" /\ Top.at = 1
  BY DEF BeginInstance, Reached
<1>2. PICK room \in Room(memory) :
       LET refs == IF Top.klass = "String" THEN [sequence |-> 0]
                   ELSE [message |-> 0, name |-> 0, trace |-> 0]
           cell == NextCell(room)
           m == MakeProtectedCell(Created(room, Top.klass, refs, <<>>), Ptr(NextId(room)))
           pushed == PushParameters(PushedRoot(m, "agent", m.cells[cell].ins, Nothing), Top.args)
       IN Goes(InvokeCtor(pushed, Top.klass), [Top EXCEPT !.at = 2, !.cells = <<cell>>], <<>>)
  BY DEF BeginInstance
<1> DEFINE klass == Top.klass
           args == Top.args
           refs == IF klass = "String" THEN [sequence |-> 0]
                   ELSE [message |-> 0, name |-> 0, trace |-> 0]
           cell == NextCell(room)
           m == MakeProtectedCell(Created(room, klass, refs, <<>>), Ptr(NextId(room)))
           object == PushedRoot(m, "agent", m.cells[cell].ins, Nothing)
           pushed == PushParameters(object, args)
           t == InvokeCtor(pushed, klass)
           f == [Top EXCEPT !.at = 2, !.cells = <<cell>>]
<1>3. Goes(t, f, <<>>)
  BY <1>2
<1>4. /\ Fits(Top) /\ Top.cells = <<>> /\ klass \in Klasses \cup {"String"}
      /\ Len(args) = Arity(klass) /\ Top.depth \in 0 .. 1 /\ (Top.depth = 1 => klass = "String")
      /\ IsSeq(args) /\ returned = Nowhere /\ Sound(memory)
      /\ InFrames(memory, FALSE, Top.depth)
  <2>1. Fits(Top) /\ ~ TakesRaw(Top) /\ ~ TakesHandle(Top) /\ ~ RunsCtor(Top)
    BY <1>1, AtTop DEF TakesRaw, TakesHandle, RunsCtor
  <2>2. Len(Top.cells) = 0 => Top.cells = <<>>
    BY <2>1 DEF Fits
  <2>3. /\ Top.cells = <<>> /\ klass \in Klasses \cup {"String"}
        /\ Len(args) = Arity(klass) /\ Top.depth \in 0 .. 1 /\ (Top.depth = 1 => klass = "String")
    BY <1>1, <2>1, <2>2 DEF Fits, OneCell
  <2> QED
    BY <1>1, <2>1, <2>3, AtTop DEF InFrames
<1>5. \A n \in DOMAIN args : args[n] = 0 \/ args[n] \in DOMAIN memory.cells
  <2>1. \A n \in DOMAIN args : args[n] \in Nat
    BY <1>4, FitsSeq
  <2> QED
    BY <1>1, <2>1, HandleThere
<1> HIDE DEF klass, args
<1>6. /\ Sound(m) /\ m.operand = memory.operand /\ m.frames = memory.frames
      /\ cell \in Nat \ {0} /\ cell \in DOMAIN m.cells
      /\ DOMAIN memory.cells \subseteq DOMAIN m.cells
      /\ Live(m, m.cells[cell].ins)
      /\ \A c \in Nat \ {0} : CountOf(m, c) = CountOf(memory, c) + One(c = cell)
  <2>1. \A n \in DOMAIN refs : refs[n] = 0
    OBVIOUS
  <2> HIDE DEF refs
  <2> QED
    BY <1>4, <2>1, NewInCell
<1> HIDE DEF m, cell
<1>7. /\ Sound(object) /\ object.cells = m.cells /\ object.frames = m.frames
      /\ Len(object.operand["agent"]) = Len(m.operand["agent"]) + 1
  BY <1>6, PushedRootSound DEF Processors
<1> HIDE DEF object
<1>8. /\ Sound(pushed) /\ pushed.cells = m.cells /\ pushed.frames = m.frames
      /\ Len(pushed.operand["agent"]) = Len(memory.operand["agent"]) + 1 + Arity(klass)
  <2> DEFINE last == Reverse(args)
  <2>1. Len(args) \in Nat /\ DOMAIN args = 1 .. Len(args)
    BY <1>4, SeqLength
  <2>2. DOMAIN last = 1 .. Len(args) /\ last = [n \in 1 .. Len(args) |-> last[n]]
        /\ \A n \in 1 .. Len(args) : last[n] = args[(Len(args) - n) + 1]
    BY DEF Reverse
  <2> HIDE DEF last
  <2>3. IsSeq(last) /\ Len(last) = Len(args)
    BY <2>1, <2>2, FunctionSeq
  <2>4. \A n \in DOMAIN last : last[n] = 0 \/ last[n] \in DOMAIN object.cells
    <3>1. \A n \in 1 .. Len(args) : (Len(args) - n) + 1 \in DOMAIN args
      BY <2>1
    <3> QED
      BY <1>5, <1>6, <1>7, <2>2, <3>1
  <2>5. pushed = PushedValues(object, last)
    BY DEF PushParameters, last
  <2> HIDE DEF pushed
  <2>6. /\ Sound(pushed) /\ pushed.cells = object.cells /\ pushed.frames = object.frames
        /\ Len(pushed.operand["agent"]) = Len(object.operand["agent"]) + Len(last)
    BY <1>7, <2>3, <2>4, <2>5, PushedValuesSound
  <2> QED
    BY <1>4, <1>6, <1>7, <2>3, <2>6
<1> HIDE DEF pushed
<1>9. klass \in Constructed /\ Arity(klass) \in Nat /\ Len(memory.operand["agent"]) \in Nat
  <2>1. klass \in Constructed
    BY <1>4 DEF Constructed
  <2>2. IsSeq(memory.operand["agent"])
    BY <1>4 DEF Sound, Operands, Processors
  <2> QED
    BY <2>1, <2>2, CtorSteps, SeqLength
<1>10. /\ Sound(t) /\ t.cells = pushed.cells
       /\ Len(t.operand["agent"]) = Len(pushed.operand["agent"]) - (Arity(klass) + 1)
       /\ Len(t.frames) = Len(pushed.frames) + 1
       /\ t.frames[Len(pushed.frames) + 1].klass = klass /\ t.frames[Len(pushed.frames) + 1].ip = 1
       /\ \A k \in 1 .. Len(pushed.frames) : t.frames[k] = pushed.frames[k]
  <2>1. Len(pushed.operand["agent"]) >= Arity(klass) + 1
    BY <1>8, <1>9
  <2> QED
    BY <1>8, <1>9, <2>1, InvokeCtorSound
<1> HIDE DEF t
<1>11. InFrames(t, TRUE, Top.depth)
  <2>1. Len(t.operand["agent"]) = Len(memory.operand["agent"])
    BY <1>8, <1>9, <1>10
  <2>2. pushed.frames = memory.frames
    BY <1>6, <1>8
  <2> QED
    BY <1>4, <1>9, <1>10, <2>1, <2>2, FrameBegins
<1>12. /\ f.fn = Top.fn /\ f.at = 2 /\ f.cells = <<cell>> /\ f.args = args /\ f.klass = klass
       /\ f.depth = Top.depth
       /\ f = [fn |-> f.fn, at |-> f.at, on |-> f.on, klass |-> f.klass, texts |-> f.texts,
               cells |-> f.cells, args |-> f.args, depth |-> f.depth]
  <2>1. f = Now(Top, 2, <<cell>>, args)
    BY <1>4, ActivationNow DEF args
  <2> HIDE DEF f, Top
  <2> QED
    BY <2>1, NowIs DEF args, klass
<1> HIDE DEF f
<1>13. Fits(f)
  <2>1. f.cells \in Seq(Nat \ {0}) /\ Len(f.cells) = 1 /\ args \in Seq(Nat)
    BY <1>4, <1>6, <1>12 DEF Fits, args
  <2> QED
    BY <1>1, <1>4, <1>12, <2>1 DEF Fits, OneCell
<1>14. ASSUME NEW c \in Nat \ {0}
       PROVE  CountOf(t, c) + HeldBy(c, Top) + One(returned.cell = c)
                = CountOf(memory, c) + HeldBy(c, f)
  <2>1. CountOf(t, c) = CountOf(memory, c) + One(c = cell)
    BY <1>6, <1>8, <1>10 DEF CountOf
  <2>2. Times(c, Top.cells) = 0 /\ Times(c, f.cells) = One(cell = c)
    BY <1>4, <1>12, TimesOf
  <2>3. One(returned.cell = c) = 0 /\ One(c = cell) = One(cell = c) /\ One(cell = c) \in 0 .. 1
    BY <1>4 DEF Nowhere, One
  <2>4. Times(c, args) \in Nat /\ CountOf(memory, c) \in Nat
    BY <1>4, TimesNat, CountNat
  <2>5. HeldBy(c, Top) = Times(c, args) /\ HeldBy(c, f) = One(cell = c) + Times(c, args)
    BY <1>12, <2>2, <2>3, <2>4 DEF HeldBy, args
  <2> QED
    BY <2>1, <2>3, <2>4, <2>5
<1>15. ~ TakesRaw(f) /\ ~ TakesHandle(f) /\ RunsCtor(f)
  BY <1>1, <1>12 DEF TakesRaw, TakesHandle, RunsCtor
<1>16. InFrames(t, RunsCtor(f), f.depth)
  BY <1>11, <1>12, <1>15 DEF InFrames
<1> QED
  BY <1>1, <1>3, <1>10, <1>12, <1>13, <1>14, <1>15, <1>16, GoesOn

LEMMA SameFrames ==
  ASSUME NEW m, NEW t, NEW depth, t.frames = m.frames,
         t.operand["agent"] = m.operand["agent"], InFrames(m, FALSE, depth)
  PROVE  InFrames(t, FALSE, depth)
BY DEF InFrames, HeightAt

\* Handles the function has go out of scope, or the one it was given.
LEMMA GivenUp ==
  ASSUME IInv, stack # <<>>, NEW m, Sound(m), m.cells = memory.cells, NEW list, IsSeq(list),
         \A c \in Nat \ {0} : Times(c, list) <= HeldBy(c, Top) + One(returned.cell = c)
  PROVE  LET t == Destroyed(m, list)
         IN /\ Sound(t) /\ t.heap = m.heap /\ t.operand = m.operand /\ t.frames = m.frames
            /\ \A p : Live(m, p) => Live(t, p)
            /\ \A c \in Nat \ {0} : CountOf(t, c) + Times(c, list) = CountOf(memory, c)
<1> DEFINE t == Destroyed(m, list)
<1>1. /\ Sound(t) /\ t.heap = m.heap /\ t.operand = m.operand /\ t.frames = m.frames
      /\ \A p : Live(m, p) => Live(t, p)
      /\ \A c \in Nat \ {0} :
           CountOf(m, c) >= Times(c, list) => CountOf(t, c) = CountOf(m, c) - Times(c, list)
  BY DestroyedSound
<1> HIDE DEF t
<1>2. ASSUME NEW c \in Nat \ {0} PROVE CountOf(t, c) + Times(c, list) = CountOf(memory, c)
  <2>1. CountOf(m, c) = CountOf(memory, c) /\ CountOf(m, c) \in Nat /\ Times(c, list) \in Nat
    BY CountNat, TimesNat DEF CountOf
  <2> DEFINE x == CountOf(memory, c)
             h == Held(c, Front(stack))
             b == HeldBy(c, Top)
             o == One(returned.cell = c)
             k == Times(c, list)
  <2>2. x = h + b + o /\ h \in Nat /\ b \in Nat /\ o \in 0 .. 1 /\ k <= b + o /\ k \in Nat
    BY <2>1, TopHandles
  <2> HIDE DEF x, h, b, o, k
  <2>3. x >= k /\ x \in Nat
    BY <2>2
  <2>4. CountOf(t, c) = CountOf(m, c) - Times(c, list)
    BY <1>1, <2>1, <2>3 DEF x, k
  <2> QED
    BY <2>1, <2>4
<1> QED
  BY <1>1, <1>2 DEF t

LEMMA EndInstanceKeeps ==
  ASSUME IInv, EndInstance
  PROVE  IInv'
<1> DEFINE S == Front(stack)
           a == Last(S)
           list == Top.cells \o Top.args
           t == Destroyed(memory, list)
           v == Raw(memory.cells[Top.cells[1]].ins)
<1>1. /\ stack # <<>> /\ Top.fn = "createUnprotectedInstance" /\ Top.at = 3
      /\ memory' = t /\ stack' = S /\ returned' = v
  BY DEF EndInstance, Reached, Returns
<1>2. /\ Fits(Top) /\ IsSeq(Top.cells) /\ IsSeq(Top.args) /\ Len(Top.cells) = 1
      /\ returned = Nowhere /\ Sound(memory) /\ InFrames(memory, FALSE, Top.depth)
      /\ S # <<>> /\ TakesRaw(a) /\ a.depth = Top.depth /\ ~ RunsCtor(a)
  <2>1. ~ TakesRaw(Top) /\ ~ TakesHandle(Top) /\ ~ RunsCtor(Top) /\ ~ Outermost(Top)
    BY <1>1 DEF TakesRaw, TakesHandle, RunsCtor, Outermost
  <2>2. Fits(Top) /\ S # <<>> /\ CalledBy(a, Top)
    BY <1>1, <2>1, AtTop
  <2>3. a.fn \in {"createInstance", "createUnprotectedString"} /\ a.at = 2 /\ a.depth = Top.depth
    BY <1>1, <2>2 DEF CalledBy
  <2>4. Len(Top.cells) = 1
    BY <1>1, <2>2 DEF Fits, OneCell
  <2>5. TakesRaw(a) /\ ~ RunsCtor(a)
    BY <2>3 DEF TakesRaw, RunsCtor
  <2> QED
    BY <1>1, <2>1, <2>2, <2>3, <2>4, <2>5, AtTop DEF InFrames
<1>3. IsSeq(list) /\ \A c : Times(c, list) = HeldBy(c, Top)
  BY <1>2, JoinSeq, TimesJoin DEF HeldBy
<1> HIDE DEF S, a, list
<1>4. /\ Sound(t) /\ t.operand = memory.operand /\ t.frames = memory.frames
      /\ \A p : Live(memory, p) => Live(t, p)
      /\ \A c \in Nat \ {0} : CountOf(t, c) + Times(c, list) = CountOf(memory, c)
  <2>1. \A c \in Nat \ {0} : Times(c, list) <= HeldBy(c, Top) + One(returned.cell = c)
    <3>1. ASSUME NEW c \in Nat \ {0} PROVE Times(c, list) <= HeldBy(c, Top) + One(returned.cell = c)
      <4>1. HeldBy(c, Top) \in Nat /\ One(returned.cell = c) \in 0 .. 1
        BY <1>2, HeldByNat, OneNat
      <4> QED
        BY <1>3, <4>1
    <3> QED
      BY <3>1
  <2> QED
    BY <1>1, <1>2, <1>3, <2>1, GivenUp
<1>5. Live(memory, memory.cells[Top.cells[1]].ins)
  <2>1. 1 \in DOMAIN Top.cells /\ Top.cells[1] \in Nat \ {0}
    BY <1>2, FitsSeq
  <2> QED
    BY <1>1, <2>1, HandleThere
<1> HIDE DEF t
<1>6. Given(t, S, v)
  <2>1. v = Raw(v.ptr) /\ Live(t, v.ptr)
    BY <1>4, <1>5 DEF Raw
  <2> QED
    BY <1>2, <2>1 DEF Given, a
<1>7. InFrames(t, Runs(S), Depth(S))
  <2>1. InFrames(t, FALSE, Top.depth)
    BY <1>2, <1>4, SameFrames
  <2>2. ~ Runs(S) /\ Depth(S) = Top.depth
    BY <1>2 DEF Runs, Depth, a
  <2> QED
    BY <2>1, <2>2 DEF InFrames
<1>8. ASSUME NEW c \in Nat \ {0}
      PROVE  CountOf(t, c) + HeldBy(c, Top) + One(returned.cell = c)
                = CountOf(memory, c) + One(v.cell = c)
  <2>1. One(v.cell = c) = 0 /\ One(returned.cell = c) = 0
    BY <1>2 DEF Raw, Nowhere, One
  <2>2. /\ CountOf(t, c) \in Nat /\ CountOf(memory, c) \in Nat /\ HeldBy(c, Top) \in Nat
        /\ CountOf(t, c) + HeldBy(c, Top) = CountOf(memory, c)
    BY <1>2, <1>3, <1>4, CountNat, HeldByNat
  <2> QED
    BY <2>1, <2>2
<1> QED
  BY <1>1, <1>4, <1>6, <1>7, <1>8, ReturnsTo DEF S

LEMMA BeginStringKeeps ==
  ASSUME IInv, BeginString
  PROVE  IInv'
<1>1. /\ stack # <<>> /\ Top.fn = "createUnprotectedString" /\ Top.at = 1
  BY DEF BeginString, Reached
<1>2. PICK room \in Room(memory) :
       LET cell == NextCell(room)
           array == Created(room, "Rune[]", [n \in {} |-> 0], Top.texts)
           m == MakeProtectedCell(array, Ptr(NextId(room)))
       IN Goes(Copied(m, <<cell>>), [Top EXCEPT !.at = 2, !.cells = <<cell>>],
               <<CallInstance("createUnprotectedInstance", "String", <<cell>>)>>)
  BY DEF BeginString
<1> DEFINE cell == NextCell(room)
           refs == [n \in {} |-> 0]
           m == MakeProtectedCell(Created(room, "Rune[]", refs, Top.texts), Ptr(NextId(room)))
           t == Copied(m, <<cell>>)
           f == [Top EXCEPT !.at = 2, !.cells = <<cell>>]
           g == CallInstance("createUnprotectedInstance", "String", <<cell>>)
<1>3. Goes(t, f, <<g>>)
  BY <1>2
<1>4. /\ Fits(Top) /\ Top.cells = <<>> /\ Top.args = <<>> /\ Top.depth \in 0 .. 1
      /\ returned = Nowhere /\ Sound(memory)
      /\ InFrames(memory, FALSE, Top.depth) /\ Len(memory.frames) = Top.depth
  <2>1. Fits(Top) /\ ~ TakesRaw(Top) /\ ~ TakesHandle(Top) /\ ~ RunsCtor(Top)
    BY <1>1, AtTop DEF TakesRaw, TakesHandle, RunsCtor
  <2>2. Len(Top.cells) = 0 => Top.cells = <<>>
    BY <2>1 DEF Fits
  <2>3. Top.cells = <<>> /\ Top.args = <<>> /\ Top.depth \in 0 .. 1
    BY <1>1, <2>1, <2>2 DEF Fits, OneCell
  <2> QED
    BY <1>1, <2>1, <2>3, AtTop DEF InFrames
<1>5. /\ Sound(m) /\ m.operand = memory.operand /\ m.frames = memory.frames
      /\ cell \in Nat \ {0} /\ cell \in DOMAIN m.cells
      /\ DOMAIN memory.cells \subseteq DOMAIN m.cells
      /\ \A c \in Nat \ {0} : CountOf(m, c) = CountOf(memory, c) + One(c = cell)
  <2>1. \A n \in DOMAIN refs : refs[n] = 0
    OBVIOUS
  <2> HIDE DEF refs
  <2> QED
    BY <1>4, <2>1, NewInCell
<1> HIDE DEF m, cell
<1>6. /\ Sound(t) /\ t.operand = memory.operand /\ t.frames = memory.frames
      /\ DOMAIN t.cells = DOMAIN m.cells
      /\ \A c \in DOMAIN m.cells : CountOf(t, c) = CountOf(m, c) + Times(c, <<cell>>)
  <2>1. IsSeq(<<cell>>)
    BY OneSeq
  <2> QED
    BY <1>5, <2>1, CopiedSound
<1> HIDE DEF t
<1>7. f = Now(Top, 2, <<cell>>, <<>>)
  <2>1. f = Now(Top, 2, <<cell>>, Top.args)
    BY <1>4, ActivationNow
  <2> HIDE DEF f, Top
  <2> QED
    BY <1>4, <2>1
<1>8. g = [fn |-> "createUnprotectedInstance", at |-> 1, on |-> "agent", klass |-> "String",
           texts |-> <<>>, cells |-> <<>>, args |-> <<cell>>, depth |-> Top.depth]
  BY <1>4 DEF CallInstance, Call
<1> HIDE DEF f, g
<1>9. /\ f.fn = Top.fn /\ f.at = 2 /\ f.cells = <<cell>> /\ f.args = <<>> /\ f.depth = Top.depth
      /\ f = [fn |-> f.fn, at |-> f.at, on |-> f.on, klass |-> f.klass, texts |-> f.texts,
              cells |-> f.cells, args |-> f.args, depth |-> f.depth]
  <2> HIDE DEF Top
  <2> QED
    BY <1>7, NowIs
<1>10. /\ g.fn = "createUnprotectedInstance" /\ g.at = 1 /\ g.klass = "String"
       /\ g.cells = <<>> /\ g.args = <<cell>> /\ g.depth = Top.depth
       /\ g = [fn |-> g.fn, at |-> g.at, on |-> g.on, klass |-> g.klass, texts |-> g.texts,
               cells |-> g.cells, args |-> g.args, depth |-> g.depth]
  BY <1>8
<1>11. /\ <<cell>> \in Seq(Nat \ {0}) /\ <<cell>> \in Seq(Nat) /\ Len(<<cell>>) = 1
       /\ <<>> \in Seq(Nat) /\ <<>> \in Seq(Nat \ {0}) /\ Len(<<>>) = 0
  BY <1>5
<1>12. Fits(f)
  BY <1>1, <1>4, <1>9, <1>11 DEF Fits, OneCell
<1>13. Fits(g)
  <2>1. Arity("String") = 1
    BY DEF Arity
  <2> QED
    BY <1>4, <1>10, <1>11, <2>1 DEF Fits, OneCell
<1>14. /\ CalledBy(f, g) /\ ~ TakesRaw(g) /\ ~ TakesHandle(g) /\ ~ RunsCtor(g)
  BY <1>1, <1>9, <1>10 DEF CalledBy, TakesRaw, TakesHandle, RunsCtor
<1>15. InFrames(t, RunsCtor(g), g.depth)
  <2>1. InFrames(t, FALSE, Top.depth)
    BY <1>4, <1>6, SameFrames
  <2> QED
    BY <1>10, <1>14, <2>1 DEF InFrames
<1>16. ASSUME NEW c \in Nat \ {0}
       PROVE  CountOf(t, c) + HeldBy(c, Top) + One(returned.cell = c)
                = CountOf(memory, c) + HeldBy(c, f) + HeldBy(c, g)
  <2>1. /\ HeldBy(c, Top) = 0 /\ HeldBy(c, f) = One(cell = c) /\ HeldBy(c, g) = One(cell = c)
    <3>1. Times(c, <<>>) = 0 /\ Times(c, <<cell>>) = One(cell = c) /\ One(cell = c) \in 0 .. 1
      BY TimesOf, OneNat
    <3> QED
      BY <1>4, <1>9, <1>10, <3>1 DEF HeldBy
  <2>2. One(returned.cell = c) = 0
    BY <1>4 DEF Nowhere, One
  <2>3. CountOf(t, c) = CountOf(memory, c) + One(cell = c) + One(cell = c)
        /\ CountOf(memory, c) \in Nat /\ One(cell = c) \in 0 .. 1
    <3>1. CASE c = cell
      <4>1. CountOf(t, c) = CountOf(m, c) + Times(c, <<cell>>) /\ Times(c, <<cell>>) = One(cell = c)
        BY <1>5, <1>6, <3>1, TimesOf
      <4>2. One(cell = c) = 1 /\ One(c = cell) = 1
        BY <3>1 DEF One
      <4>3. CountOf(m, c) = CountOf(memory, c) + One(c = cell) /\ CountOf(memory, c) \in Nat
        BY <1>4, <1>5, CountNat
      <4> QED
        BY <4>1, <4>2, <4>3
    <3>2. CASE c # cell
      <4>1. One(cell = c) = 0 /\ One(c = cell) = 0
        BY <3>2 DEF One
      <4>2. CountOf(m, c) = CountOf(memory, c) /\ CountOf(memory, c) \in Nat
        BY <1>4, <1>5, <4>1, CountNat
      <4>3. CountOf(t, c) = CountOf(m, c)
        <5>1. CASE c \in DOMAIN m.cells
          <6>1. CountOf(t, c) = CountOf(m, c) + Times(c, <<cell>>)
            BY <1>6, <5>1
          <6>2. Times(c, <<cell>>) = One(cell = c)
            BY TimesOf
          <6> QED
            BY <4>1, <4>2, <6>1, <6>2
        <5>2. CASE c \notin DOMAIN m.cells
          BY <1>6, <5>2 DEF CountOf
        <5> QED
          BY <5>1, <5>2
      <4> QED
        BY <4>1, <4>2, <4>3
    <3> QED
      BY <3>1, <3>2
  <2> QED
    BY <2>1, <2>2, <2>3
<1> QED
  BY <1>1, <1>3, <1>6, <1>9, <1>12, <1>13, <1>14, <1>15, <1>16, CallsOn

\* A call of a function that creates a string, or enters the agent for one.
LEMMA StringCall ==
  ASSUME NEW fn \in {"createUnprotectedString", "createString", "ldstr", "tostr"}, NEW text,
         Len(memory.frames) \in 0 .. 1,
         fn \in {"ldstr", "tostr"} => Len(memory.frames) = 1
  PROVE  LET g == CallString(fn, text)
         IN /\ Fits(g) /\ g.fn = fn /\ g.depth = Len(memory.frames)
            /\ ~ TakesRaw(g) /\ ~ TakesHandle(g) /\ ~ RunsCtor(g)
            /\ \A c : HeldBy(c, g) = 0
<1> DEFINE g == CallString(fn, text)
<1>1. g = [fn |-> fn, at |-> 1, on |-> "agent", klass |-> "String", texts |-> <<text>>,
           cells |-> <<>>, args |-> <<>>, depth |-> Len(memory.frames)]
  BY DEF CallString, Call
<1> HIDE DEF g
<1>2. /\ g.fn = fn /\ g.at = 1 /\ g.on = "agent" /\ g.cells = <<>> /\ g.args = <<>>
      /\ g.depth = Len(memory.frames)
      /\ g = [fn |-> g.fn, at |-> g.at, on |-> g.on, klass |-> g.klass, texts |-> g.texts,
              cells |-> g.cells, args |-> g.args, depth |-> g.depth]
  BY <1>1
<1>3. <<>> \in Seq(Nat) /\ <<>> \in Seq(Nat \ {0}) /\ Len(<<>>) = 0
  OBVIOUS
<1>4. Fits(g)
  BY <1>2, <1>3 DEF Fits, OneCell
<1>5. ~ TakesRaw(g) /\ ~ TakesHandle(g) /\ ~ RunsCtor(g)
  BY <1>2 DEF TakesRaw, TakesHandle, RunsCtor
<1>6. \A c : HeldBy(c, g) = 0
  BY <1>2, TimesOf DEF HeldBy
<1> QED
  BY <1>2, <1>4, <1>5, <1>6 DEF g

LEMMA CallsString ==
  ASSUME IInv, stack # <<>>, NEW m, NEW f, NEW fn, NEW text,
         Goes(m, f, <<CallString(fn, text)>>), Sound(m),
         fn \in {"createUnprotectedString", "createString", "ldstr", "tostr"},
         Len(memory.frames) \in 0 .. 1, fn \in {"ldstr", "tostr"} => Len(memory.frames) = 1,
         Fits(f), f.fn = Top.fn, f.depth = Top.depth,
         \A g : g.fn = fn /\ g.depth = Len(memory.frames) => CalledBy(f, g),
         InFrames(m, FALSE, Len(memory.frames)),
         \A c \in Nat \ {0} : CountOf(m, c) + HeldBy(c, Top) + One(returned.cell = c)
                              = CountOf(memory, c) + HeldBy(c, f)
  PROVE  IInv'
<1> DEFINE g == CallString(fn, text)
<1>1. /\ Fits(g) /\ g.fn = fn /\ g.depth = Len(memory.frames)
      /\ ~ TakesRaw(g) /\ ~ TakesHandle(g) /\ ~ RunsCtor(g)
      /\ \A c : HeldBy(c, g) = 0
  BY StringCall
<1>2. Goes(m, f, <<g>>)
  OBVIOUS
<1> HIDE DEF g
<1>3. CalledBy(f, g)
  BY <1>1
<1>4. InFrames(m, RunsCtor(g), g.depth)
  BY <1>1 DEF InFrames
<1>5. ASSUME NEW c \in Nat \ {0}
      PROVE  CountOf(m, c) + HeldBy(c, Top) + One(returned.cell = c)
                = CountOf(memory, c) + HeldBy(c, f) + HeldBy(c, g)
  <2>1. CountOf(memory, c) \in Nat /\ HeldBy(c, f) \in Nat /\ HeldBy(c, g) = 0
    BY <1>1, CountNat, HeldByNat DEF IInv
  <2>2. CountOf(m, c) + HeldBy(c, Top) + One(returned.cell = c) = CountOf(memory, c) + HeldBy(c, f)
    OBVIOUS
  <2> QED
    BY <2>1, <2>2
<1> QED
  BY <1>1, <1>2, <1>3, <1>4, <1>5, CallsOn

\* The same from a function that does nothing else.
LEMMA OnlyCalls ==
  ASSUME IInv, stack # <<>>, NEW n, NEW fn, NEW text,
         Goes(memory, [Top EXCEPT !.at = n], <<CallString(fn, text)>>),
         fn \in {"createUnprotectedString", "createString"},
         returned = Nowhere, ~ RunsCtor(Top),
         \A f : f = Now(Top, n, Top.cells, Top.args) => Fits(f),
         \A f, g : f.fn = Top.fn /\ f.at = n /\ f.depth = Top.depth
                   /\ g.fn = fn /\ g.depth = Top.depth => CalledBy(f, g)
  PROVE  IInv'
<1> DEFINE f == [Top EXCEPT !.at = n]
<1>1. Fits(Top) /\ Sound(memory) /\ InFrames(memory, FALSE, Top.depth) /\ Top.depth \in 0 .. 1
  <2>1. Fits(Top) /\ Sound(memory) /\ InFrames(memory, RunsCtor(Top), Top.depth)
    BY AtTop
  <2> QED
    BY <2>1, FitsSeq DEF InFrames
<1>2. Len(memory.frames) = Top.depth
  BY <1>1 DEF InFrames
<1>3. f = Now(Top, n, Top.cells, Top.args)
  BY <1>1, ActivationNow
<1> HIDE DEF f
<1>4. /\ Fits(f) /\ f.fn = Top.fn /\ f.at = n /\ f.depth = Top.depth
      /\ f.cells = Top.cells /\ f.args = Top.args
  <2> HIDE DEF Top
  <2> QED
    BY <1>3, NowIs
<1>5. ASSUME NEW c \in Nat \ {0}
      PROVE  CountOf(memory, c) + HeldBy(c, Top) + One(returned.cell = c)
                = CountOf(memory, c) + HeldBy(c, f)
  <2>1. One(returned.cell = c) = 0 /\ HeldBy(c, f) = HeldBy(c, Top)
    BY <1>4 DEF HeldBy, Nowhere, One
  <2>2. CountOf(memory, c) \in Nat /\ HeldBy(c, Top) \in Nat
    BY <1>1, CountNat, HeldByNat
  <2> QED
    BY <2>1, <2>2
<1>6. Goes(memory, f, <<CallString(fn, text)>>)
  BY DEF f
<1>7. \A g : g.fn = fn /\ g.depth = Len(memory.frames) => CalledBy(f, g)
  BY <1>2, <1>4
<1> QED
  BY <1>1, <1>2, <1>4, <1>5, <1>6, <1>7, CallsString

\* The functions that begin by creating a string.
LEMMA FirstCall ==
  ASSUME IInv, stack # <<>>, Top.at = 1, NEW fn, NEW text,
         Goes(memory, [Top EXCEPT !.at = 2], <<CallString(fn, text)>>),
         \/ Top.fn \in {"createString", "ldstr"} /\ fn = "createUnprotectedString"
         \/ Top.fn \in {"tostr", "handleException"} /\ fn = "createString"
         \/ Top.fn = "raise" /\ NeedsText /\ fn = "createString"
  PROVE  IInv'
<1>1. returned = Nowhere /\ ~ RunsCtor(Top) /\ Fits(Top)
  <2>1. ~ TakesRaw(Top) /\ ~ TakesHandle(Top) /\ ~ RunsCtor(Top)
    BY DEF TakesRaw, TakesHandle, RunsCtor
  <2> QED
    BY <2>1, AtTop
<1>2. ASSUME NEW f, f = Now(Top, 2, Top.cells, Top.args) PROVE Fits(f)
  <2>1. /\ f.fn = Top.fn /\ f.at = 2 /\ f.on = Top.on /\ f.klass = Top.klass
        /\ f.cells = Top.cells /\ f.args = Top.args /\ f.depth = Top.depth
        /\ f = [fn |-> f.fn, at |-> f.at, on |-> f.on, klass |-> f.klass, texts |-> f.texts,
                cells |-> f.cells, args |-> f.args, depth |-> f.depth]
    <3> HIDE DEF Top
    <3> QED
      BY <1>2, NowIs
  <2>2. CASE Top.fn # "raise"
    BY <1>1, <2>1, <2>2 DEF Fits
  <2>3. CASE Top.fn = "raise"
    <3>1. Len(Top.cells) < Len(Texts[Top.klass])
      BY <2>3 DEF NeedsText
    <3> QED
      BY <1>1, <2>1, <2>3, <3>1 DEF Fits
  <2> QED
    BY <2>2, <2>3
<1>3. ASSUME NEW f, NEW g, f.fn = Top.fn, f.at = 2, f.depth = Top.depth,
             g.fn = fn, g.depth = Top.depth
      PROVE  CalledBy(f, g)
  BY <1>3 DEF CalledBy
<1>4. fn \in {"createUnprotectedString", "createString"}
  OBVIOUS
<1> QED
  BY <1>1, <1>2, <1>3, <1>4, OnlyCalls

LEMMA BeginLoadKeeps ==
  ASSUME IInv, BeginLoad
  PROVE  IInv'
<1>1. CASE /\ Reached("ldstr", 1)
           /\ Goes(memory, [Top EXCEPT !.at = 2],
                   <<CallString("createUnprotectedString", Top.texts[1])>>)
  BY <1>1, FirstCall DEF Reached
<1>2. CASE /\ Reached("tostr", 1)
           /\ Goes(memory, [Top EXCEPT !.at = 2], <<CallString("createString", Top.texts[1])>>)
  BY <1>2, FirstCall DEF Reached
<1> QED
  BY <1>1, <1>2 DEF BeginLoad

LEMMA BeginProtectedKeeps ==
  ASSUME IInv, BeginProtected
  PROVE  IInv'
<1>1. CASE /\ Reached("createString", 1)
           /\ Goes(memory, [Top EXCEPT !.at = 2],
                   <<CallString("createUnprotectedString", Top.texts[1])>>)
  BY <1>1, FirstCall DEF Reached
<1>2. CASE /\ Reached("createInstance", 1)
           /\ Goes(memory, [Top EXCEPT !.at = 2, !.args = <<>>],
                   <<CallInstance("createUnprotectedInstance", Top.klass, Top.args)>>)
  <2> DEFINE f == [Top EXCEPT !.at = 2, !.args = <<>>]
             g == CallInstance("createUnprotectedInstance", Top.klass, Top.args)
  <2>1. /\ stack # <<>> /\ Top.fn = "createInstance" /\ Top.at = 1 /\ Goes(memory, f, <<g>>)
    BY <1>2 DEF Reached
  <2>2. /\ Fits(Top) /\ returned = Nowhere /\ Sound(memory) /\ InFrames(memory, FALSE, Top.depth)
        /\ Len(memory.frames) = Top.depth
    <3>1. ~ TakesRaw(Top) /\ ~ TakesHandle(Top) /\ ~ RunsCtor(Top)
      BY <2>1 DEF TakesRaw, TakesHandle, RunsCtor
    <3> QED
      BY <2>1, <3>1, AtTop DEF InFrames
  <2>3. /\ Top.cells = <<>> /\ Top.klass \in Klasses /\ Top.depth = 0
        /\ Len(Top.args) = Arity(Top.klass) /\ Top.args \in Seq(Nat)
    BY <2>1, <2>2 DEF Fits
  <2>4. f = Now(Top, 2, <<>>, <<>>)
    <3>1. f = Now(Top, 2, Top.cells, <<>>)
      BY <2>2, ActivationNow
    <3> HIDE DEF f, Top
    <3> QED
      BY <2>3, <3>1
  <2>5. g = [fn |-> "createUnprotectedInstance", at |-> 1, on |-> "agent", klass |-> Top.klass,
             texts |-> <<>>, cells |-> <<>>, args |-> Top.args, depth |-> Top.depth]
    BY <2>2 DEF CallInstance, Call
  <2> HIDE DEF f, g
  <2>6. /\ f.fn = Top.fn /\ f.at = 2 /\ f.cells = <<>> /\ f.args = <<>> /\ f.depth = Top.depth
        /\ f.klass = Top.klass
        /\ f = [fn |-> f.fn, at |-> f.at, on |-> f.on, klass |-> f.klass, texts |-> f.texts,
                cells |-> f.cells, args |-> f.args, depth |-> f.depth]
    <3> HIDE DEF Top
    <3> QED
      BY <2>4, NowIs
  <2>7. /\ g.fn = "createUnprotectedInstance" /\ g.at = 1 /\ g.klass = Top.klass
        /\ g.cells = <<>> /\ g.args = Top.args /\ g.depth = Top.depth
        /\ g = [fn |-> g.fn, at |-> g.at, on |-> g.on, klass |-> g.klass, texts |-> g.texts,
                cells |-> g.cells, args |-> g.args, depth |-> g.depth]
    BY <2>5
  <2>8. /\ <<>> \in Seq(Nat) /\ <<>> \in Seq(Nat \ {0}) /\ Len(<<>>) = 0
    OBVIOUS
  <2>9. Fits(f) /\ Fits(g)
    BY <2>1, <2>3, <2>6, <2>7, <2>8 DEF Fits, OneCell
  <2>10. /\ CalledBy(f, g) /\ ~ TakesRaw(g) /\ ~ TakesHandle(g) /\ ~ RunsCtor(g)
    BY <2>1, <2>6, <2>7 DEF CalledBy, TakesRaw, TakesHandle, RunsCtor
  <2>11. InFrames(memory, RunsCtor(g), g.depth)
    BY <2>2, <2>7, <2>10 DEF InFrames
  <2>12. ASSUME NEW c \in Nat \ {0}
         PROVE  CountOf(memory, c) + HeldBy(c, Top) + One(returned.cell = c)
                  = CountOf(memory, c) + HeldBy(c, f) + HeldBy(c, g)
    <3>1. One(returned.cell = c) = 0 /\ Times(c, <<>>) = 0
      BY <2>2, TimesOf DEF Nowhere, One
    <3>2. CountOf(memory, c) \in Nat /\ Times(c, Top.args) \in Nat
      BY <2>2, CountNat, HeldByNat
    <3>3. /\ HeldBy(c, f) = 0 /\ HeldBy(c, g) = Times(c, Top.args)
          /\ HeldBy(c, Top) = Times(c, Top.args)
      BY <2>3, <2>6, <2>7, <3>1, <3>2 DEF HeldBy
    <3> QED
      BY <3>1, <3>2, <3>3
  <2> QED
    BY <2>1, <2>2, <2>6, <2>9, <2>10, <2>11, <2>12, CallsOn
<1> QED
  BY <1>1, <1>2 DEF BeginProtected

LEMMA EndStringKeeps ==
  ASSUME IInv, EndString
  PROVE  IInv'
<1> DEFINE S == Front(stack)
           a == Last(S)
           list == Top.cells
           t == Destroyed(memory, list)
           v == returned
<1>1. /\ stack # <<>> /\ Top.fn = "createUnprotectedString" /\ Top.at = 2
      /\ memory' = t /\ stack' = S /\ returned' = v
  BY DEF EndString, Reached, Returns
<1>2. /\ Fits(Top) /\ IsSeq(list) /\ Top.args = <<>>
      /\ returned = Raw(returned.ptr) /\ Live(memory, returned.ptr)
      /\ Sound(memory) /\ InFrames(memory, FALSE, Top.depth)
      /\ S # <<>> /\ TakesRaw(a) /\ a.depth = Top.depth /\ ~ RunsCtor(a)
  <2>1. TakesRaw(Top) /\ ~ RunsCtor(Top) /\ ~ Outermost(Top)
    BY <1>1 DEF TakesRaw, RunsCtor, Outermost
  <2>2. Fits(Top) /\ S # <<>> /\ CalledBy(a, Top)
    BY <1>1, <2>1, AtTop
  <2>3. a.fn \in {"ldstr", "createString"} /\ a.at = 2 /\ a.depth = Top.depth
    BY <1>1, <2>2 DEF CalledBy
  <2>4. Top.args = <<>>
    BY <1>1, <2>2 DEF Fits
  <2>5. TakesRaw(a) /\ ~ RunsCtor(a)
    BY <2>3 DEF TakesRaw, RunsCtor
  <2> QED
    BY <1>1, <2>1, <2>2, <2>3, <2>4, <2>5, AtTop DEF InFrames
<1>3. ASSUME NEW c
      PROVE  Times(c, list) = HeldBy(c, Top) /\ HeldBy(c, Top) \in Nat
  <2>1. Times(c, list) \in Nat /\ Times(c, <<>>) = 0
    BY <1>2, TimesNat, TimesOf
  <2> QED
    BY <1>2, <2>1 DEF HeldBy
<1> HIDE DEF S, a, list
<1>4. /\ Sound(t) /\ t.operand = memory.operand /\ t.frames = memory.frames
      /\ \A p : Live(memory, p) => Live(t, p)
      /\ \A c \in Nat \ {0} : CountOf(t, c) + Times(c, list) = CountOf(memory, c)
  <2>1. ASSUME NEW c \in Nat \ {0} PROVE Times(c, list) <= HeldBy(c, Top) + One(returned.cell = c)
    <3>1. One(returned.cell = c) \in 0 .. 1
      BY OneNat
    <3> QED
      BY <1>3, <3>1
  <2> QED
    BY <1>1, <1>2, <1>3, <2>1, GivenUp
<1> HIDE DEF t
<1>5. Given(t, S, v)
  <2>1. v = Raw(v.ptr) /\ Live(t, v.ptr)
    BY <1>2, <1>4
  <2> QED
    BY <1>2, <2>1 DEF Given, a
<1>6. InFrames(t, Runs(S), Depth(S))
  <2>1. InFrames(t, FALSE, Top.depth)
    BY <1>2, <1>4, SameFrames
  <2>2. ~ Runs(S) /\ Depth(S) = Top.depth
    BY <1>2 DEF Runs, Depth, a
  <2> QED
    BY <2>1, <2>2 DEF InFrames
<1>7. ASSUME NEW c \in Nat \ {0}
      PROVE  CountOf(t, c) + HeldBy(c, Top) + One(returned.cell = c)
                = CountOf(memory, c) + One(v.cell = c)
  <2>1. One(returned.cell = c) \in 0 .. 1
    BY OneNat
  <2>2. /\ CountOf(t, c) \in Nat /\ CountOf(memory, c) \in Nat /\ HeldBy(c, Top) \in Nat
        /\ CountOf(t, c) + HeldBy(c, Top) = CountOf(memory, c)
    BY <1>2, <1>3, <1>4, CountNat
  <2> QED
    BY <2>1, <2>2
<1> QED
  BY <1>1, <1>4, <1>5, <1>6, <1>7, ReturnsTo DEF S

LEMMA EndProtectedKeeps ==
  ASSUME IInv, EndProtected
  PROVE  IInv'
<1> DEFINE S == Front(stack)
           a == Last(S)
           cell == NextCell(memory)
           t == MakeProtectedCell(memory, returned.ptr)
           v == Handle(cell)
<1>1. /\ stack # <<>> /\ Top.fn \in {"createString", "createInstance"} /\ Top.at = 2
      /\ memory' = t /\ stack' = S /\ returned' = v
  BY DEF EndProtected, Reached, Returns
<1>2. /\ Fits(Top) /\ Top.cells = <<>> /\ Top.args = <<>>
      /\ returned = Raw(returned.ptr) /\ Live(memory, returned.ptr)
      /\ Sound(memory) /\ InFrames(memory, FALSE, Top.depth)
      /\ S # <<>> /\ ~ TakesRaw(a) /\ TakesHandle(a) /\ a.depth = Top.depth /\ ~ RunsCtor(a)
  <2>1. TakesRaw(Top) /\ ~ RunsCtor(Top) /\ ~ Outermost(Top)
    BY <1>1 DEF TakesRaw, RunsCtor, Outermost
  <2>2. Fits(Top) /\ S # <<>> /\ CalledBy(a, Top)
    BY <1>1, <2>1, AtTop
  <2>3. /\ a.depth = Top.depth
        /\ \/ a.at = 2 /\ a.fn = "tostr"
           \/ a.at \in 2 .. 3 /\ a.fn \in {"raise", "handleException"}
    BY <1>1, <2>2 DEF CalledBy
  <2>4. Top.args = <<>> /\ Top.cells = <<>>
    BY <1>1, <2>2 DEF Fits
  <2>5. ~ TakesRaw(a) /\ TakesHandle(a) /\ ~ RunsCtor(a)
    BY <2>3 DEF TakesRaw, TakesHandle, RunsCtor
  <2> QED
    BY <1>1, <2>1, <2>2, <2>3, <2>4, <2>5, AtTop DEF InFrames
<1> HIDE DEF S, a
<1>3. /\ Sound(t) /\ t.operand = memory.operand /\ t.frames = memory.frames
      /\ cell \in Nat \ {0}
      /\ \A c \in Nat \ {0} : CountOf(t, c) = CountOf(memory, c) + One(c = cell)
  BY <1>2, MadeSound
<1> HIDE DEF t, cell
<1>4. v = Handle(v.cell) /\ v.cell = cell
  BY DEF Handle
<1>5. Given(t, S, v)
  BY <1>2, <1>3, <1>4 DEF Given, a
<1>6. InFrames(t, Runs(S), Depth(S))
  <2>1. InFrames(t, FALSE, Top.depth)
    BY <1>2, <1>3, SameFrames
  <2>2. ~ Runs(S) /\ Depth(S) = Top.depth
    BY <1>2 DEF Runs, Depth, a
  <2> QED
    BY <2>1, <2>2 DEF InFrames
<1>7. ASSUME NEW c \in Nat \ {0}
      PROVE  CountOf(t, c) + HeldBy(c, Top) + One(returned.cell = c)
                = CountOf(memory, c) + One(v.cell = c)
  <2>1. One(returned.cell = c) = 0 /\ One(v.cell = c) = One(c = cell) /\ One(c = cell) \in 0 .. 1
    BY <1>2, <1>4 DEF One, Raw
  <2>2. Times(c, <<>>) = 0
    BY TimesOf
  <2>3. HeldBy(c, Top) = 0
    BY <1>2, <2>2 DEF HeldBy
  <2>4. CountOf(t, c) = CountOf(memory, c) + One(c = cell) /\ CountOf(memory, c) \in Nat
    BY <1>2, <1>3, CountNat
  <2> QED
    BY <2>1, <2>3, <2>4
<1> QED
  BY <1>1, <1>3, <1>5, <1>6, <1>7, ReturnsTo DEF S

\* The string is pushed, and the function that loads it is left.
LEMMA LoadReturns ==
  ASSUME IInv, stack # <<>>, Top.fn \in {"ldstr", "tostr"}, Top.at = 2, NEW m, Sound(m),
         Returns(m, Nowhere), m.frames = memory.frames,
         Len(m.operand[Top.on]) = Len(memory.operand[Top.on]) + 1,
         \A q \in Processors \ {Top.on} : m.operand[q] = memory.operand[q],
         \A c \in Nat \ {0} : CountOf(m, c) + One(returned.cell = c) = CountOf(memory, c)
  PROVE  IInv'
<1> DEFINE S == Front(stack)
           a == Last(S)
<1>1. /\ Fits(Top) /\ Sound(memory) /\ InFrames(memory, FALSE, Top.depth)
      /\ IF S = <<>> THEN Outermost(Top) ELSE CalledBy(a, Top)
  <2>1. ~ RunsCtor(Top)
    BY DEF RunsCtor
  <2> QED
    BY <2>1, AtTop DEF InFrames
<1>2. /\ Top.cells = <<>> /\ Top.args = <<>>
      /\ Top.on = IF Top.depth = 0 THEN "main" ELSE "agent"
  BY <1>1 DEF Fits
<1>3. /\ S = <<>> => Top.depth = 0
      /\ S # <<>> => a.depth = 0 /\ Top.depth = 1 /\ a.at = 2 /\ a.fn = "createUnprotectedInstance"
  BY <1>1 DEF Outermost, CalledBy
<1>4. Given(m, S, Nowhere)
  <2>1. S # <<>> => ~ TakesRaw(a) /\ ~ TakesHandle(a)
    BY <1>3 DEF TakesRaw, TakesHandle
  <2> QED
    BY <2>1 DEF Given
<1>5. InFrames(m, Runs(S), Depth(S))
  <2>1. CASE S = <<>>
    <3>1. m.operand["agent"] = memory.operand["agent"]
      BY <1>2, <1>3, <2>1 DEF Processors
    <3>2. InFrames(m, FALSE, 0)
      BY <1>1, <1>3, <2>1, <3>1, SameFrames
    <3>3. ~ Runs(S) /\ Depth(S) = 0
      BY <2>1 DEF Runs, Depth
    <3> QED
      BY <3>2, <3>3 DEF InFrames
  <2>2. CASE S # <<>>
    <3>1. Runs(S) /\ Depth(S) = 0
      BY <1>3, <2>2 DEF Runs, Depth, RunsCtor
    <3>2. /\ Len(m.operand["agent"]) = Len(memory.operand["agent"]) + 1
          /\ Top.depth = 1
      BY <1>2, <1>3, <2>2
    <3>3. /\ Len(m.frames) = 1
          /\ Len(memory.operand["agent"]) + 1 = HeightAt(memory, 1) + HeightAt(memory, 2)
      BY <1>1, <3>2 DEF InFrames
    <3>4. IsSeq(memory.operand["agent"])
      BY <1>1 DEF Sound, Operands, Processors
    <3>5. Len(memory.operand["agent"]) \in Nat
      BY <3>4, SeqLength
    <3>6. HeightAt(m, 1) = HeightAt(memory, 1) /\ HeightAt(m, 2) = HeightAt(memory, 2)
      BY DEF HeightAt
    <3>7. Len(m.operand["agent"]) + 0 = HeightAt(m, 1) + HeightAt(m, 2)
      BY <3>2, <3>3, <3>5, <3>6
    <3>8. Len(m.frames) \in 0 + 1 .. 2 /\ Len(m.frames) # 2
      BY <3>3
    <3> QED
      BY <3>1, <3>7, <3>8 DEF InFrames
  <2> QED
    BY <2>1, <2>2
<1>6. ASSUME NEW c \in Nat \ {0}
      PROVE  CountOf(m, c) + HeldBy(c, Top) + One(returned.cell = c)
                = CountOf(memory, c) + One(Nowhere.cell = c)
  <2>1. Times(c, <<>>) = 0
    BY TimesOf
  <2>2. HeldBy(c, Top) = 0 /\ One(Nowhere.cell = c) = 0
    BY <1>2, <2>1 DEF HeldBy, Nowhere, One
  <2>3. CountOf(m, c) \in Nat /\ CountOf(memory, c) \in Nat /\ One(returned.cell = c) \in 0 .. 1
    BY <1>1, CountNat, OneNat
  <2>4. CountOf(m, c) + One(returned.cell = c) = CountOf(memory, c)
    OBVIOUS
  <2> QED
    BY <2>2, <2>3, <2>4
<1>7. memory' = m /\ stack' = S /\ returned' = Nowhere
  BY DEF Returns
<1> QED
  BY <1>4, <1>5, <1>6, <1>7, ReturnsTo

LEMMA EndLoadKeeps ==
  ASSUME IInv, EndLoad
  PROVE  IInv'
<1>1. CASE /\ Reached("ldstr", 2)
           /\ Returns(PushedRoot(memory, Top.on, returned.ptr, AString), Nowhere)
  <2> DEFINE m == PushedRoot(memory, Top.on, returned.ptr, AString)
  <2>1. stack # <<>> /\ Top.fn = "ldstr" /\ Top.at = 2
    BY <1>1 DEF Reached
  <2>2. /\ Fits(Top) /\ Sound(memory)
        /\ returned = Raw(returned.ptr) /\ Live(memory, returned.ptr)
    BY <2>1, AtTop DEF TakesRaw
  <2>3. Top.on \in Processors
    BY <2>1, <2>2 DEF Fits, Processors
  <2>4. /\ Sound(m) /\ m.cells = memory.cells /\ m.frames = memory.frames
        /\ Len(m.operand[Top.on]) = Len(memory.operand[Top.on]) + 1
        /\ \A q \in Processors \ {Top.on} : m.operand[q] = memory.operand[q]
    BY <2>2, <2>3, PushedRootSound
  <2>5. Returns(m, Nowhere)
    BY <1>1
  <2> HIDE DEF m
  <2>6. ASSUME NEW c \in Nat \ {0}
        PROVE  CountOf(m, c) + One(returned.cell = c) = CountOf(memory, c)
    <3>1. One(returned.cell = c) = 0 /\ CountOf(m, c) = CountOf(memory, c)
      BY <2>2, <2>4 DEF One, Raw, CountOf
    <3> QED
      BY <2>2, <3>1, CountNat
  <2> QED
    BY <2>1, <2>4, <2>5, <2>6, LoadReturns
<1>2. CASE /\ Reached("tostr", 2)
           /\ LET m == PushedRoot(memory, Top.on, memory.cells[returned.cell].ins, AString)
              IN Returns(Destroyed(m, <<returned.cell>>), Nowhere)
  <2> DEFINE m == PushedRoot(memory, Top.on, memory.cells[returned.cell].ins, AString)
             t == Destroyed(m, <<returned.cell>>)
  <2>1. stack # <<>> /\ Top.fn = "tostr" /\ Top.at = 2
    BY <1>2 DEF Reached
  <2>2. /\ Fits(Top) /\ Sound(memory) /\ returned.cell \in Nat \ {0}
        /\ Live(memory, memory.cells[returned.cell].ins)
    BY <2>1, AtTop DEF TakesRaw, TakesHandle
  <2>3. Top.on \in Processors
    BY <2>1, <2>2 DEF Fits, Processors
  <2>4. /\ Sound(m) /\ m.cells = memory.cells /\ m.frames = memory.frames
        /\ Len(m.operand[Top.on]) = Len(memory.operand[Top.on]) + 1
        /\ \A q \in Processors \ {Top.on} : m.operand[q] = memory.operand[q]
    BY <2>2, <2>3, PushedRootSound
  <2>5. Returns(t, Nowhere)
    BY <1>2
  <2> HIDE DEF m
  <2>6. ASSUME NEW c \in Nat \ {0}
        PROVE  /\ Times(c, <<returned.cell>>) = One(returned.cell = c)
               /\ Times(c, <<returned.cell>>) <= HeldBy(c, Top) + One(returned.cell = c)
    <3>1. Times(c, <<returned.cell>>) = One(returned.cell = c)
      BY TimesOf
    <3>2. HeldBy(c, Top) \in Nat /\ One(returned.cell = c) \in 0 .. 1
      BY <2>2, HeldByNat, OneNat
    <3> QED
      BY <3>1, <3>2
  <2>7. IsSeq(<<returned.cell>>)
    BY OneSeq
  <2>8. /\ Sound(t) /\ t.operand = m.operand /\ t.frames = m.frames
        /\ \A c \in Nat \ {0} : CountOf(t, c) + Times(c, <<returned.cell>>) = CountOf(memory, c)
    BY <2>1, <2>4, <2>6, <2>7, GivenUp
  <2> HIDE DEF t
  <2>9. \A c \in Nat \ {0} : CountOf(t, c) + One(returned.cell = c) = CountOf(memory, c)
    BY <2>6, <2>8
  <2> QED
    BY <2>1, <2>4, <2>5, <2>8, <2>9, LoadReturns
<1> QED
  BY <1>1, <1>2 DEF EndLoad

\* The constructor of an exception has parameters, or is passed numbers.
LEMMA TextsLen ==
  ASSUME NEW klass \in Klasses
  PROVE  /\ Arity(klass) \in Nat /\ Len(Texts[klass]) \in Nat
         /\ Len(Texts[klass]) # 0 => Len(Texts[klass]) = Arity(klass)
<1>1. Arity(klass) \in Nat
  BY DEF Arity
<1>2. Len(Texts[klass]) = IF klass = "OutOfRangeException" THEN 0 ELSE Arity(klass)
  BY AgentAssumption
<1> QED
  BY <1>1, <1>2

LEMMA RaiseTextKeeps ==
  ASSUME IInv, RaiseText
  PROVE  IInv'
<1>1. CASE /\ Reached("raise", 1) /\ NeedsText
           /\ Goes(memory, [Top EXCEPT !.at = 2],
                   <<CallString("createString", Texts[Top.klass][Len(Top.cells) + 1])>>)
  BY <1>1, FirstCall DEF Reached
<1>2. CASE /\ Reached("raise", 2)
           /\ Goes(memory, [Top EXCEPT !.at = 1, !.cells = Append(@, returned.cell)], <<>>)
  <2> DEFINE cells == Append(Top.cells, returned.cell)
             f == [Top EXCEPT !.at = 1, !.cells = cells]
  <2>1. stack # <<>> /\ Top.fn = "raise" /\ Top.at = 2
    BY <1>2 DEF Reached
  <2>2. Fits(Top)
    BY <2>1, AtTop
  <2>3. [Top EXCEPT !.at = 1, !.cells = Append(@, returned.cell)] = f
    <3>1. Top = [fn |-> Top.fn, at |-> Top.at, on |-> Top.on, klass |-> Top.klass,
                 texts |-> Top.texts, cells |-> Top.cells, args |-> Top.args, depth |-> Top.depth]
      BY <2>2 DEF Fits
    <3> HIDE DEF Top
    <3> QED
      BY <3>1
  <2>4. Goes(memory, f, <<>>)
    BY <1>2, <2>3
  <2>5. /\ Sound(memory) /\ InFrames(memory, FALSE, Top.depth)
        /\ returned = Handle(returned.cell) /\ returned.cell \in Nat \ {0}
    <3>1. ~ TakesRaw(Top) /\ TakesHandle(Top) /\ ~ RunsCtor(Top)
      BY <2>1 DEF TakesRaw, TakesHandle, RunsCtor
    <3> QED
      BY <2>1, <3>1, AtTop DEF InFrames
  <2>6. /\ Top.depth = 0 /\ Top.args = <<>> /\ Top.klass \in Klasses
        /\ Top.cells \in Seq(Nat \ {0}) /\ Len(Top.cells) < Len(Texts[Top.klass])
    BY <2>1, <2>2 DEF Fits
  <2>7. cells \in Seq(Nat \ {0}) /\ Len(cells) <= Len(Texts[Top.klass])
    <3>1. ASSUME NEW list \in Seq(Nat \ {0}), NEW e \in Nat \ {0}
          PROVE  Append(list, e) \in Seq(Nat \ {0}) /\ Len(Append(list, e)) = Len(list) + 1
                 /\ Len(list) \in Nat
      OBVIOUS
    <3>2. /\ cells \in Seq(Nat \ {0}) /\ Len(cells) = Len(Top.cells) + 1
          /\ Len(Top.cells) \in Nat
      BY <2>5, <2>6, <3>1
    <3>3. Len(Texts[Top.klass]) \in Nat /\ Len(Top.cells) < Len(Texts[Top.klass])
      BY <2>6, TextsLen
    <3> HIDE DEF cells, Top
    <3> QED
      BY <3>2, <3>3
  <2>8. f = Now(Top, 1, cells, Top.args)
    BY <2>2, ActivationNow
  <2>9. \A c : Times(c, cells) = Times(c, Top.cells) + One(returned.cell = c)
    BY <2>2, FitsSeq, TimesAppend
  <2> HIDE DEF f, cells
  <2>10. /\ f.fn = "raise" /\ f.at = 1 /\ f.cells = cells /\ f.args = <<>> /\ f.depth = 0
         /\ f.klass = Top.klass
         /\ f = [fn |-> f.fn, at |-> f.at, on |-> f.on, klass |-> f.klass, texts |-> f.texts,
                 cells |-> f.cells, args |-> f.args, depth |-> f.depth]
    <3> HIDE DEF Top
    <3> QED
      BY <2>1, <2>6, <2>8, NowIs
  <2>11. <<>> \in Seq(Nat)
    OBVIOUS
  <2>12. Fits(f)
    BY <2>6, <2>7, <2>10, <2>11 DEF Fits
  <2>13. ~ TakesRaw(f) /\ ~ TakesHandle(f) /\ ~ RunsCtor(f)
    BY <2>10 DEF TakesRaw, TakesHandle, RunsCtor
  <2>14. InFrames(memory, RunsCtor(f), f.depth)
    BY <2>5, <2>6, <2>10, <2>13 DEF InFrames
  <2>15. ASSUME NEW c \in Nat \ {0}
         PROVE  CountOf(memory, c) + HeldBy(c, Top) + One(returned.cell = c)
                  = CountOf(memory, c) + HeldBy(c, f)
    <3>1. Times(c, <<>>) = 0
      BY TimesOf
    <3>2. /\ CountOf(memory, c) \in Nat /\ Times(c, Top.cells) \in Nat
          /\ One(returned.cell = c) \in 0 .. 1
      BY <2>2, <2>5, CountNat, HeldByNat, OneNat
    <3>3. /\ HeldBy(c, f) = Times(c, Top.cells) + One(returned.cell = c)
          /\ HeldBy(c, Top) = Times(c, Top.cells)
      BY <2>6, <2>9, <2>10, <3>1, <3>2 DEF HeldBy
    <3> QED
      BY <3>2, <3>3
  <2> QED
    BY <2>1, <2>4, <2>5, <2>6, <2>10, <2>12, <2>13, <2>14, <2>15, GoesOn
<1> QED
  BY <1>1, <1>2 DEF RaiseText

LEMMA RaiseCreateKeeps ==
  ASSUME IInv, RaiseCreate
  PROVE  IInv'
<1> DEFINE cells == Top.cells
           args == IF cells = <<>> THEN [n \in 1 .. Arity(Top.klass) |-> 0] ELSE cells
           t == Copied(memory, cells)
           f == [Top EXCEPT !.at = 3]
           g == CallInstance("createInstance", Top.klass, args)
<1>1. /\ stack # <<>> /\ Top.fn = "raise" /\ Top.at = 1 /\ ~ NeedsText /\ Goes(t, f, <<g>>)
  BY DEF RaiseCreate, Reached
<1>2. /\ Fits(Top) /\ returned = Nowhere /\ Sound(memory) /\ InFrames(memory, FALSE, Top.depth)
      /\ Len(memory.frames) = Top.depth /\ IsSeq(cells)
  <2>1. ~ TakesRaw(Top) /\ ~ TakesHandle(Top) /\ ~ RunsCtor(Top)
    BY <1>1 DEF TakesRaw, TakesHandle, RunsCtor
  <2> QED
    BY <1>1, <2>1, AtTop DEF InFrames
<1>3. /\ Top.depth = 0 /\ Top.args = <<>> /\ Top.klass \in Klasses
      /\ cells \in Seq(Nat \ {0}) /\ Len(cells) = Len(Texts[Top.klass])
  <2>1. /\ Top.depth = 0 /\ Top.args = <<>> /\ Top.klass \in Klasses
        /\ cells \in Seq(Nat \ {0}) /\ Len(cells) <= Len(Texts[Top.klass])
    BY <1>1, <1>2 DEF Fits
  <2>2. ~ (Len(cells) < Len(Texts[Top.klass]))
    BY <1>1 DEF NeedsText
  <2> QED
    BY <2>1, <2>2, TextsLen
<1>4. /\ args \in Seq(Nat) /\ IsSeq(args) /\ Len(args) = Arity(Top.klass)
      /\ \A c \in Nat \ {0} : Times(c, args) = Times(c, cells)
  <2>1. CASE cells = <<>>
    <3> DEFINE zeros == [n \in 1 .. Arity(Top.klass) |-> 0]
    <3>1. args = zeros /\ Arity(Top.klass) \in Nat
      BY <1>3, <2>1, TextsLen
    <3>2. IsSeq(zeros) /\ Len(zeros) = Arity(Top.klass) /\ zeros \in Seq(Nat)
      <4>1. DOMAIN zeros = 1 .. Arity(Top.klass) /\ \A n \in DOMAIN zeros : zeros[n] = 0
        OBVIOUS
      <4>2. IsSeq(zeros) /\ Len(zeros) = Arity(Top.klass)
        BY <3>1, FunctionSeq
      <4>3. zeros \in Seq(Nat)
        BY <3>1
      <4> QED
        BY <4>2, <4>3
    <3>3. \A n \in DOMAIN zeros : zeros[n] = 0
      OBVIOUS
    <3> HIDE DEF zeros
    <3>4. ASSUME NEW c \in Nat \ {0} PROVE Times(c, zeros) = Times(c, cells)
      <4>1. Times(c, zeros) = 0
        BY <3>2, <3>3, TimesNat
      <4> QED
        BY <2>1, <4>1, TimesOf
    <3> QED
      BY <3>1, <3>2, <3>4
  <2>2. CASE cells # <<>>
    <3>1. Len(cells) # 0
      BY <1>3, <2>2
    <3>2. args = cells /\ Len(cells) = Arity(Top.klass) /\ cells \in Seq(Nat)
      BY <1>3, <2>2, <3>1, TextsLen
    <3> HIDE DEF args
    <3> QED
      BY <1>2, <3>2
  <2> QED
    BY <2>1, <2>2
<1> HIDE DEF args
<1>5. /\ Sound(t) /\ t.operand = memory.operand /\ t.frames = memory.frames
      /\ DOMAIN t.cells = DOMAIN memory.cells
      /\ \A c \in DOMAIN memory.cells : CountOf(t, c) = CountOf(memory, c) + Times(c, cells)
  BY <1>2, CopiedSound
<1>6. f = Now(Top, 3, cells, <<>>)
  <2>1. f = Now(Top, 3, Top.cells, Top.args)
    BY <1>2, ActivationNow
  <2> HIDE DEF f, Top
  <2> QED
    BY <1>3, <2>1
<1>7. g = [fn |-> "createInstance", at |-> 1, on |-> "agent", klass |-> Top.klass,
           texts |-> <<>>, cells |-> <<>>, args |-> args, depth |-> 0]
  BY <1>2, <1>3 DEF CallInstance, Call
<1> HIDE DEF f, g, t
<1>8. /\ f.fn = "raise" /\ f.at = 3 /\ f.cells = cells /\ f.args = <<>> /\ f.depth = 0
      /\ f.klass = Top.klass
      /\ f = [fn |-> f.fn, at |-> f.at, on |-> f.on, klass |-> f.klass, texts |-> f.texts,
              cells |-> f.cells, args |-> f.args, depth |-> f.depth]
  <2> HIDE DEF Top
  <2> QED
    BY <1>1, <1>3, <1>6, NowIs
<1>9. /\ g.fn = "createInstance" /\ g.at = 1 /\ g.klass = Top.klass
      /\ g.cells = <<>> /\ g.args = args /\ g.depth = 0
      /\ g = [fn |-> g.fn, at |-> g.at, on |-> g.on, klass |-> g.klass, texts |-> g.texts,
              cells |-> g.cells, args |-> g.args, depth |-> g.depth]
  BY <1>7
<1>10. /\ <<>> \in Seq(Nat) /\ <<>> \in Seq(Nat \ {0}) /\ Len(<<>>) = 0
  OBVIOUS
<1>11. Fits(f)
  <2>1. Len(cells) <= Len(Texts[Top.klass])
    BY <1>3, TextsLen
  <2> QED
    BY <1>3, <1>8, <1>10, <2>1 DEF Fits
<1>12. Fits(g)
  BY <1>3, <1>4, <1>9, <1>10 DEF Fits
<1>13. /\ CalledBy(f, g) /\ ~ TakesRaw(g) /\ ~ TakesHandle(g) /\ ~ RunsCtor(g)
  BY <1>8, <1>9 DEF CalledBy, TakesRaw, TakesHandle, RunsCtor
<1>14. InFrames(t, RunsCtor(g), g.depth)
  <2>1. InFrames(t, FALSE, 0)
    BY <1>2, <1>3, <1>5, SameFrames
  <2> QED
    BY <1>9, <1>13, <2>1 DEF InFrames
<1>15. ASSUME NEW c \in Nat \ {0}
       PROVE  CountOf(t, c) + HeldBy(c, Top) + One(returned.cell = c)
                = CountOf(memory, c) + HeldBy(c, f) + HeldBy(c, g)
  <2>1. One(returned.cell = c) = 0 /\ Times(c, <<>>) = 0
    BY <1>2, TimesOf DEF Nowhere, One
  <2>2. CountOf(memory, c) \in Nat /\ Times(c, cells) \in Nat
    BY <1>2, CountNat, TimesNat
  <2>3. /\ HeldBy(c, f) = Times(c, cells) /\ HeldBy(c, g) = Times(c, cells)
        /\ HeldBy(c, Top) = Times(c, cells)
    BY <1>3, <1>4, <1>8, <1>9, <2>1, <2>2 DEF HeldBy
  <2>4. CountOf(t, c) = CountOf(memory, c) + Times(c, cells)
    <3>1. CASE c \in DOMAIN memory.cells
      BY <1>5, <3>1
    <3>2. CASE c \notin DOMAIN memory.cells
      <4>1. CountOf(t, c) = 0 /\ CountOf(memory, c) = 0
        BY <1>5, <3>2 DEF CountOf
      <4>2. Times(c, cells) = 0
        BY <1>1, <1>2, <3>2, TimesNat, HandleThere
      <4> QED
        BY <4>1, <4>2
    <3> QED
      BY <3>1, <3>2
  <2> QED
    BY <2>1, <2>2, <2>3, <2>4
<1>16. f.fn = Top.fn /\ f.depth = Top.depth
  BY <1>1, <1>3, <1>8
<1> QED
  BY <1>1, <1>5, <1>11, <1>12, <1>13, <1>14, <1>15, <1>16, CallsOn

LEMMA RaiseHandleKeeps ==
  ASSUME IInv, RaiseHandle
  PROVE  IInv'
<1> DEFINE cell == returned.cell
           t == Destroyed(memory, Top.cells)
           f == [Top EXCEPT !.fn = "handleException", !.at = 1, !.cells = <<cell>>]
<1>1. /\ stack # <<>> /\ Top.fn = "raise" /\ Top.at = 3 /\ Goes(t, f, <<>>)
  BY DEF RaiseHandle, Reached
<1>2. /\ Fits(Top) /\ Sound(memory) /\ InFrames(memory, FALSE, Top.depth) /\ IsSeq(Top.cells)
      /\ cell \in Nat \ {0}
  <2>1. ~ TakesRaw(Top) /\ TakesHandle(Top) /\ ~ RunsCtor(Top)
    BY <1>1 DEF TakesRaw, TakesHandle, RunsCtor
  <2> QED
    BY <1>1, <2>1, AtTop DEF InFrames
<1>3. Top.depth = 0 /\ Top.args = <<>>
  BY <1>1, <1>2 DEF Fits
<1>4. f = [fn |-> "handleException", at |-> 1, on |-> Top.on, klass |-> Top.klass,
           texts |-> Top.texts, cells |-> <<cell>>, args |-> <<>>, depth |-> 0]
  <2>1. Top = [fn |-> Top.fn, at |-> Top.at, on |-> Top.on, klass |-> Top.klass,
               texts |-> Top.texts, cells |-> Top.cells, args |-> <<>>, depth |-> 0]
    BY <1>2, <1>3 DEF Fits
  <2>2. ASSUME NEW a, NEW b,
               a = [fn |-> a.fn, at |-> a.at, on |-> a.on, klass |-> a.klass, texts |-> a.texts,
                    cells |-> a.cells, args |-> <<>>, depth |-> 0],
               b = [a EXCEPT !.fn = "handleException", !.at = 1, !.cells = <<cell>>]
        PROVE  b = [fn |-> "handleException", at |-> 1, on |-> a.on, klass |-> a.klass,
                    texts |-> a.texts, cells |-> <<cell>>, args |-> <<>>, depth |-> 0]
    <3> DEFINE h == [a EXCEPT !.fn = "handleException"]
    <3>1. h = [fn |-> "handleException", at |-> a.at, on |-> a.on, klass |-> a.klass,
               texts |-> a.texts, cells |-> a.cells, args |-> <<>>, depth |-> 0]
      BY <2>2
    <3>2. b = [h EXCEPT !.at = 1, !.cells = <<cell>>]
      BY <2>2
    <3> HIDE DEF h
    <3> QED
      BY <3>1, <3>2
  <2> HIDE DEF Top
  <2> QED
    BY <2>1, <2>2
<1>5. ASSUME NEW c \in Nat \ {0}
      PROVE  /\ HeldBy(c, Top) = Times(c, Top.cells) /\ HeldBy(c, Top) \in Nat
             /\ One(cell = c) \in 0 .. 1
             /\ Times(c, Top.cells) <= HeldBy(c, Top) + One(returned.cell = c)
  <2>1. Times(c, <<>>) = 0 /\ Times(c, Top.cells) \in Nat /\ One(cell = c) \in 0 .. 1
    BY <1>2, TimesOf, TimesNat, OneNat
  <2>2. HeldBy(c, Top) = Times(c, Top.cells)
    BY <1>3, <2>1 DEF HeldBy
  <2> QED
    BY <2>1, <2>2
<1>6. /\ Sound(t) /\ t.operand = memory.operand /\ t.frames = memory.frames
      /\ \A c \in Nat \ {0} : CountOf(t, c) + Times(c, Top.cells) = CountOf(memory, c)
  BY <1>1, <1>2, <1>5, GivenUp
<1> HIDE DEF t, f
<1>7. /\ f.fn = "handleException" /\ f.at = 1 /\ f.cells = <<cell>> /\ f.args = <<>> /\ f.depth = 0
      /\ f = [fn |-> f.fn, at |-> f.at, on |-> f.on, klass |-> f.klass, texts |-> f.texts,
              cells |-> f.cells, args |-> f.args, depth |-> f.depth]
  BY <1>4
<1>8. Fits(f)
  <2>1. <<>> \in Seq(Nat) /\ <<cell>> \in Seq(Nat \ {0}) /\ Len(<<cell>>) = 1
    BY <1>2
  <2> QED
    BY <1>7, <2>1 DEF Fits
<1>9. ~ TakesRaw(f) /\ ~ TakesHandle(f) /\ ~ RunsCtor(f)
  BY <1>7 DEF TakesRaw, TakesHandle, RunsCtor
<1>10. InFrames(t, RunsCtor(f), f.depth)
  <2>1. InFrames(t, FALSE, 0)
    BY <1>2, <1>3, <1>6, SameFrames
  <2> QED
    BY <1>7, <1>9, <2>1 DEF InFrames
<1>11. ASSUME NEW c \in Nat \ {0}
       PROVE  CountOf(t, c) + HeldBy(c, Top) + One(returned.cell = c)
                = CountOf(memory, c) + HeldBy(c, f)
  <2>1. Times(c, <<>>) = 0 /\ Times(c, <<cell>>) = One(cell = c) /\ One(cell = c) \in 0 .. 1
    BY TimesOf, OneNat
  <2>2. HeldBy(c, f) = One(cell = c)
    BY <1>7, <2>1 DEF HeldBy
  <2>3. CountOf(t, c) + HeldBy(c, Top) = CountOf(memory, c) /\ CountOf(t, c) \in Nat
        /\ HeldBy(c, Top) \in Nat
    BY <1>5, <1>6, CountNat
  <2> QED
    BY <2>1, <2>2, <2>3
<1>12. f.depth = Top.depth
  BY <1>3, <1>7
<1> QED
  BY <1>1, <1>6, <1>7, <1>8, <1>9, <1>10, <1>11, <1>12, GoesOn

\* handleException, between the strings it creates.
LEMMA Handling ==
  ASSUME IInv, stack # <<>>, Top.fn = "handleException"
  PROVE  /\ Fits(Top) /\ Sound(memory) /\ InFrames(memory, FALSE, 0) /\ Front(stack) = <<>>
         /\ Top.depth = 0 /\ Top.args = <<>> /\ IsSeq(Top.cells) /\ Live(memory, Thrown)
         /\ \A c \in Nat \ {0} : HeldBy(c, Top) = Times(c, Top.cells) /\ HeldBy(c, Top) \in Nat
<1>1. ~ RunsCtor(Top) /\ Fits(Top)
  BY AtTop DEF RunsCtor
<1>2. /\ Top.depth = 0 /\ Top.args = <<>> /\ Top.cells \in Seq(Nat \ {0}) /\ Len(Top.cells) = 1
  BY <1>1 DEF Fits
<1>3. /\ Sound(memory) /\ InFrames(memory, FALSE, 0) /\ IsSeq(Top.cells)
  BY <1>1, <1>2, AtTop DEF InFrames
<1>4. Front(stack) = <<>>
  <2>1. ASSUME Front(stack) # <<>> PROVE FALSE
    BY <2>1, AtTop DEF CalledBy
  <2> QED
    BY <2>1
<1>5. Live(memory, Thrown)
  <2>1. Top.cells[1] \in Nat \ {0} /\ 1 \in DOMAIN Top.cells
    BY <1>1, <1>2, FitsSeq
  <2> QED
    BY <2>1, HandleThere DEF Thrown
<1>6. ASSUME NEW c \in Nat \ {0}
      PROVE  HeldBy(c, Top) = Times(c, Top.cells) /\ HeldBy(c, Top) \in Nat
  <2>1. Times(c, <<>>) = 0 /\ Times(c, Top.cells) \in Nat
    BY <1>3, TimesOf, TimesNat
  <2> QED
    BY <1>2, <2>1 DEF HeldBy
<1> QED
  BY <1>1, <1>2, <1>3, <1>4, <1>5, <1>6

LEMMA UnhandledKeeps ==
  ASSUME IInv, Unhandled
  PROVE  IInv'
<1> DEFINE S == Front(stack)
           t == Destroyed(memory, Top.cells)
<1>1. /\ stack # <<>> /\ Top.fn = "handleException" /\ Top.at = 1
      /\ memory' = t /\ stack' = S /\ returned' = returned
  BY DEF Unhandled, Reached
<1>2. /\ Fits(Top) /\ Sound(memory) /\ InFrames(memory, FALSE, 0) /\ S = <<>>
      /\ IsSeq(Top.cells) /\ returned = Nowhere
      /\ \A c \in Nat \ {0} : HeldBy(c, Top) = Times(c, Top.cells) /\ HeldBy(c, Top) \in Nat
  <2>1. ~ TakesRaw(Top) /\ ~ TakesHandle(Top)
    BY <1>1 DEF TakesRaw, TakesHandle
  <2> QED
    BY <1>1, <2>1, Handling, AtTop
<1>3. /\ Sound(t) /\ t.operand = memory.operand /\ t.frames = memory.frames
      /\ \A c \in Nat \ {0} : CountOf(t, c) + Times(c, Top.cells) = CountOf(memory, c)
  <2>1. ASSUME NEW c \in Nat \ {0}
        PROVE  Times(c, Top.cells) <= HeldBy(c, Top) + One(returned.cell = c)
    <3>1. One(returned.cell = c) \in 0 .. 1
      BY OneNat
    <3> QED
      BY <1>2, <3>1
  <2> QED
    BY <1>1, <1>2, <2>1, GivenUp
<1> HIDE DEF t, S
<1>4. Given(t, S, returned)
  BY <1>2 DEF Given
<1>5. InFrames(t, Runs(S), Depth(S))
  <2>1. InFrames(t, FALSE, 0)
    BY <1>2, <1>3, SameFrames
  <2>2. ~ Runs(S) /\ Depth(S) = 0
    BY <1>2 DEF Runs, Depth
  <2> QED
    BY <2>1, <2>2 DEF InFrames
<1>6. ASSUME NEW c \in Nat \ {0}
      PROVE  CountOf(t, c) + HeldBy(c, Top) + One(returned.cell = c)
                = CountOf(memory, c) + One(returned.cell = c)
  <2>1. One(returned.cell = c) \in 0 .. 1
    BY OneNat
  <2>2. CountOf(t, c) + HeldBy(c, Top) = CountOf(memory, c) /\ CountOf(t, c) \in Nat
        /\ HeldBy(c, Top) \in Nat
    BY <1>2, <1>3, CountNat
  <2> QED
    BY <2>1, <2>2
<1> QED
  BY <1>1, <1>3, <1>4, <1>5, <1>6, ReturnsTo DEF S

\* The string becomes a field of the exception, its handle goes out of scope.
LEMMA NamedSound ==
  ASSUME IInv, stack # <<>>, Top.fn = "handleException", Top.at \in 2 .. 3, NEW field
  PROVE  LET m == Named(field)
         IN /\ Sound(m) /\ m.operand = memory.operand /\ m.frames = memory.frames
            /\ \A p : Live(memory, p) => Live(m, p)
            /\ \A c \in Nat \ {0} : CountOf(m, c) + One(returned.cell = c) = CountOf(memory, c)
<1> DEFINE ptr == memory.cells[returned.cell].ins
           list == <<returned.cell>>
           s == WithField(memory, Thrown.obj, field, ptr.obj)
           m == Destroyed(s, list)
<1>1. Sound(memory) /\ Live(memory, ptr) /\ Fits(Top)
  BY AtTop DEF TakesRaw, TakesHandle
<1>2. /\ Sound(s) /\ \A p : Live(memory, p) => Live(s, p)
      /\ s.cells = memory.cells /\ s.operand = memory.operand /\ s.frames = memory.frames
  <2> HIDE DEF ptr
  <2>1. ASSUME NEW id, NEW q, Live(memory, q)
        PROVE  LET w == WithField(memory, id, field, q.obj)
               IN /\ Sound(w) /\ \A p : Live(memory, p) => Live(w, p)
                  /\ w.cells = memory.cells /\ w.operand = memory.operand
                  /\ w.frames = memory.frames
    <3> DEFINE w == WithField(memory, id, field, q.obj)
    <3>1. Sound(w)
      BY <1>1, <2>1, AssignedSound
    <3>2. w.cells = memory.cells /\ w.operand = memory.operand /\ w.frames = memory.frames
      BY <1>1 DEF WithField, Sound
    <3>3. \A p : Live(memory, p) => Live(w, p)
      BY <1>1, <2>1, AssignedSound
    <3> QED
      BY <3>1, <3>2, <3>3
  <2> QED
    BY <1>1, <2>1
<1> HIDE DEF s
<1>3. ASSUME NEW c \in Nat \ {0}
      PROVE  Times(c, list) = One(returned.cell = c)
             /\ Times(c, list) <= HeldBy(c, Top) + One(returned.cell = c)
  <2>1. Times(c, list) = One(returned.cell = c)
    BY TimesOf
  <2>2. HeldBy(c, Top) \in Nat /\ One(returned.cell = c) \in 0 .. 1
    BY <1>1, HeldByNat, OneNat
  <2> QED
    BY <2>1, <2>2
<1>4. IsSeq(list)
  BY OneSeq
<1>5. /\ Sound(m) /\ m.operand = s.operand /\ m.frames = s.frames
      /\ \A p : Live(s, p) => Live(m, p)
      /\ \A c \in Nat \ {0} : CountOf(m, c) + Times(c, list) = CountOf(memory, c)
  BY <1>2, <1>3, <1>4, GivenUp
<1>6. m = Named(field)
  BY DEF Named, WithField, s
<1> HIDE DEF m
<1>7. \A c \in Nat \ {0} : CountOf(m, c) + One(returned.cell = c) = CountOf(memory, c)
  BY <1>3, <1>5
<1> QED
  BY <1>2, <1>5, <1>6, <1>7

LEMMA HandledKeeps ==
  ASSUME IInv, Handled
  PROVE  IInv'
<1>1. CASE /\ Reached("handleException", 1)
           /\ Goes(memory, [Top EXCEPT !.at = 2], <<CallString("createString", Top.klass)>>)
  BY <1>1, FirstCall DEF Reached
<1>2. CASE /\ Reached("handleException", 2)
           /\ Goes(Named("name"), [Top EXCEPT !.at = 3], <<CallString("createString", "trace")>>)
  <2> DEFINE m == Named("name")
             f == [Top EXCEPT !.at = 3]
  <2>1. /\ stack # <<>> /\ Top.fn = "handleException" /\ Top.at = 2
        /\ Goes(m, f, <<CallString("createString", "trace")>>)
    BY <1>2 DEF Reached
  <2>2. /\ Fits(Top) /\ Sound(memory) /\ InFrames(memory, FALSE, 0) /\ Top.depth = 0
        /\ \A c \in Nat \ {0} : HeldBy(c, Top) \in Nat
    BY <2>1, Handling
  <2>3. /\ Sound(m) /\ m.operand = memory.operand /\ m.frames = memory.frames
        /\ \A c \in Nat \ {0} : CountOf(m, c) + One(returned.cell = c) = CountOf(memory, c)
    BY <2>1, NamedSound
  <2>4. f = Now(Top, 3, Top.cells, Top.args)
    BY <2>2, ActivationNow
  <2> HIDE DEF m, f
  <2>5. /\ f.fn = Top.fn /\ f.at = 3 /\ f.on = Top.on /\ f.klass = Top.klass
        /\ f.cells = Top.cells /\ f.args = Top.args /\ f.depth = Top.depth
        /\ f = [fn |-> f.fn, at |-> f.at, on |-> f.on, klass |-> f.klass, texts |-> f.texts,
                cells |-> f.cells, args |-> f.args, depth |-> f.depth]
    <3> HIDE DEF Top
    <3> QED
      BY <2>4, NowIs
  <2>6. Fits(f)
    BY <2>1, <2>2, <2>5 DEF Fits
  <2>7. Len(memory.frames) = 0
    BY <2>2 DEF InFrames
  <2>8. \A g : g.fn = "createString" /\ g.depth = Len(memory.frames) => CalledBy(f, g)
    BY <2>1, <2>2, <2>5, <2>7 DEF CalledBy
  <2>9. InFrames(m, FALSE, Len(memory.frames))
    BY <2>2, <2>3, <2>7, SameFrames
  <2>10. ASSUME NEW c \in Nat \ {0}
         PROVE  CountOf(m, c) + HeldBy(c, Top) + One(returned.cell = c)
                  = CountOf(memory, c) + HeldBy(c, f)
    <3>1. HeldBy(c, f) = HeldBy(c, Top) /\ HeldBy(c, Top) \in Nat
      BY <2>2, <2>5 DEF HeldBy
    <3>2. /\ CountOf(m, c) + One(returned.cell = c) = CountOf(memory, c)
          /\ CountOf(m, c) \in Nat /\ One(returned.cell = c) \in 0 .. 1
      BY <2>3, CountNat, OneNat
    <3> QED
      BY <3>1, <3>2
  <2>11. Len(memory.frames) \in 0 .. 1
    BY <2>7
  <2>12. "createString" \in {"createUnprotectedString", "createString", "ldstr", "tostr"}
         /\ "createString" \notin {"ldstr", "tostr"}
    OBVIOUS
  <2> HIDE DEF Top
  <2> QED
    BY <2>1, <2>3, <2>5, <2>6, <2>8, <2>9, <2>10, <2>11, <2>12, CallsString
<1>3. CASE /\ Reached("handleException", 3)
           /\ LET m == PushedRoot(Named("trace"), "main", Thrown,
                                  [klass |-> Top.klass, text |-> <<>>])
              IN Returns(Destroyed(m, Top.cells), Nowhere)
  <2> DEFINE S == Front(stack)
             x == Named("trace")
             m == PushedRoot(x, "main", Thrown, [klass |-> Top.klass, text |-> <<>>])
             t == Destroyed(m, Top.cells)
  <2>1. /\ stack # <<>> /\ Top.fn = "handleException" /\ Top.at = 3
        /\ memory' = t /\ stack' = S /\ returned' = Nowhere
    BY <1>3 DEF Reached, Returns
  <2>2. /\ Fits(Top) /\ Sound(memory) /\ InFrames(memory, FALSE, 0) /\ S = <<>>
        /\ IsSeq(Top.cells) /\ Live(memory, Thrown)
        /\ \A c \in Nat \ {0} : HeldBy(c, Top) = Times(c, Top.cells) /\ HeldBy(c, Top) \in Nat
    BY <2>1, Handling
  <2>3. /\ Sound(x) /\ x.operand = memory.operand /\ x.frames = memory.frames
        /\ Live(x, Thrown)
        /\ \A c \in Nat \ {0} : CountOf(x, c) + One(returned.cell = c) = CountOf(memory, c)
    BY <2>1, <2>2, NamedSound
  <2> HIDE DEF x
  <2>4. /\ Sound(m) /\ m.cells = x.cells /\ m.frames = x.frames
        /\ m.operand["agent"] = x.operand["agent"]
    BY <2>3, PushedRootSound DEF Processors
  <2> HIDE DEF m
  <2>5. /\ Sound(t) /\ t.operand = m.operand /\ t.frames = m.frames
        /\ \A c \in Nat \ {0} : CountOf(m, c) >= Times(c, Top.cells)
              => CountOf(t, c) = CountOf(m, c) - Times(c, Top.cells)
    BY <2>2, <2>4, DestroyedSound
  <2> HIDE DEF t, S
  <2>6. Given(t, S, Nowhere)
    BY <2>2 DEF Given
  <2>7. InFrames(t, Runs(S), Depth(S))
    <3>1. t.frames = memory.frames /\ t.operand["agent"] = memory.operand["agent"]
      BY <2>3, <2>4, <2>5
    <3>2. InFrames(t, FALSE, 0)
      BY <2>2, <3>1, SameFrames
    <3>3. ~ Runs(S) /\ Depth(S) = 0
      BY <2>2 DEF Runs, Depth
    <3> QED
      BY <3>2, <3>3 DEF InFrames
  <2>8. ASSUME NEW c \in Nat \ {0}
        PROVE  CountOf(t, c) + HeldBy(c, Top) + One(returned.cell = c)
                  = CountOf(memory, c) + One(Nowhere.cell = c)
    <3> DEFINE n == CountOf(memory, c)
               h == Held(c, Front(stack))
               b == HeldBy(c, Top)
               o == One(returned.cell = c)
               k == CountOf(m, c)
               l == CountOf(t, c)
    <3>1. n = h + b + o /\ h \in Nat /\ b \in Nat /\ o \in 0 .. 1 /\ b = Times(c, Top.cells)
      BY <2>1, <2>2, TopHandles
    <3>2. k + o = n /\ k \in Nat
      <4>1. CountOf(m, c) = CountOf(x, c)
        BY <2>4 DEF CountOf
      <4> QED
        BY <2>3, <2>4, <4>1, CountNat
    <3>3. k >= b => l = k - b
      BY <2>5, <3>1
    <3>4. One(Nowhere.cell = c) = 0
      BY DEF Nowhere, One
    <3> HIDE DEF n, h, b, o, k, l
    <3>5. l + b + o = n
      BY <3>1, <3>2, <3>3
    <3> QED
      BY <3>1, <3>4, <3>5 DEF l, b, o, n
  <2> QED
    BY <2>1, <2>5, <2>6, <2>7, <2>8, ReturnsTo DEF S
<1> QED
  BY <1>1, <1>2, <1>3 DEF Handled

-----------------------------------------------------------------------------
(***************************************************************************)
(* The instructions of a constructor.                                      *)
(***************************************************************************)
\* What runs: the last frame, and what its next instruction does.
LEMMA Executing ==
  ASSUME IInv, NEW op, Executes(op)
  PROVE  /\ stack # <<>> /\ RunsCtor(Top) /\ Fits(Top) /\ Sound(memory) /\ returned = Nowhere
         /\ Len(memory.frames) \in 1 .. 2 /\ Top.depth \in 0 .. 1
         /\ Frame = memory.frames[Len(memory.frames)]
         /\ IsFrame(memory, Frame) /\ Behaves(Frame.klass, Frame.ip)
         /\ Ctor(Frame.klass)[Frame.ip].op = op
         /\ Height(Frame) \in Nat
         /\ InFrames(memory, TRUE, Top.depth)
<1>1. stack # <<>> /\ RunsCtor(Top) /\ Inst.op = op
  BY DEF Executes, Reached, RunsCtor
<1>2. /\ Fits(Top) /\ Sound(memory) /\ InFrames(memory, TRUE, Top.depth) /\ returned = Nowhere
  <2>1. ~ TakesRaw(Top) /\ ~ TakesHandle(Top)
    BY <1>1 DEF RunsCtor, TakesRaw, TakesHandle
  <2> QED
    BY <1>1, <2>1, AtTop DEF InFrames
<1>3. Top.depth \in 0 .. 1
  BY <1>2, FitsSeq
<1>4. Len(memory.frames) \in Top.depth + 1 .. 2
  BY <1>2 DEF InFrames
<1>5. Len(memory.frames) \in 1 .. 2
  <2>1. ASSUME NEW d \in 0 .. 1, NEW n \in d + 1 .. 2 PROVE n \in 1 .. 2
    BY <2>1
  <2> QED
    BY <1>3, <1>4, <2>1
<1>6. Frame = memory.frames[Len(memory.frames)]
  BY DEF Frame, Last
<1>7. IsFrame(memory, Frame)
  <2>1. IsSeq(memory.frames)
    BY <1>2 DEF Sound, CtorFrames
  <2>2. Len(memory.frames) \in DOMAIN memory.frames
    BY <1>5, <2>1, SeqLength
  <2> QED
    BY <1>2, <1>6, <2>2 DEF Sound, CtorFrames
<1>8. Frame.klass \in Constructed /\ Frame.ip \in DOMAIN Ctor(Frame.klass)
  BY <1>7 DEF IsFrame
<1>9. Behaves(Frame.klass, Frame.ip) /\ Height(Frame) \in Nat
  BY <1>8, CtorSteps DEF Height
<1>10. Ctor(Frame.klass)[Frame.ip].op = op
  BY <1>1 DEF Inst
<1> QED
  BY <1>1, <1>2, <1>3, <1>5, <1>6, <1>7, <1>9, <1>10

\* What enters the agent again or creates an object is the constructor of an exception,
\* in the first frame.
LEMMA OneFrame ==
  ASSUME IInv,
         NEW op \in {"ldarg", "ldstr", "tostr", "newarray", "newstring", "base"}, Executes(op)
  PROVE  /\ Len(memory.frames) = 1 /\ Top.depth = 0 /\ Frame = memory.frames[1]
         /\ Len(memory.operand["agent"]) = Height(Frame)
<1>1. /\ Len(memory.frames) \in 1 .. 2 /\ Top.depth \in 0 .. 1 /\ InFrames(memory, TRUE, Top.depth)
      /\ Frame = memory.frames[Len(memory.frames)] /\ Sound(memory) /\ Height(Frame) \in Nat
  BY Executing
<1>2. Frame.klass \notin {"String", "Exception"}
  <2>1. Behaves(Frame.klass, Frame.ip) /\ Ctor(Frame.klass)[Frame.ip].op = op
    BY Executing
  <2> HIDE DEF Frame
  <2> QED
    BY <2>1 DEF Behaves
<1>3. Len(memory.frames) # 2
  BY <1>1, <1>2 DEF InFrames
<1>4. Len(memory.frames) \in Top.depth + 1 .. 2
  BY <1>1 DEF InFrames
<1>5. Len(memory.frames) = 1 /\ Top.depth = 0
  <2>1. ASSUME NEW d \in 0 .. 1, NEW n \in d + 1 .. 2, n # 2 PROVE n = 1 /\ d = 0
    BY <2>1
  <2> QED
    BY <1>1, <1>3, <1>4, <2>1
<1>6. HeightAt(memory, 1) = Height(Frame) /\ HeightAt(memory, 2) = 0
  BY <1>1, <1>5 DEF HeightAt
<1>7. Len(memory.operand["agent"]) \in Nat
  <2>1. IsSeq(memory.operand["agent"])
    BY <1>1 DEF Sound, Operands, Processors
  <2> QED
    BY <2>1, SeqLength
<1>8. Len(memory.operand["agent"]) + Top.depth = HeightAt(memory, 1) + HeightAt(memory, 2)
  BY <1>1 DEF InFrames
<1>9. Len(memory.operand["agent"]) = Height(Frame)
  <2> DEFINE n == Len(memory.operand["agent"])
             h == Height(Frame)
  <2>1. n + 0 = h + 0 /\ n \in Nat /\ h \in Nat
    BY <1>1, <1>5, <1>6, <1>7, <1>8
  <2> HIDE DEF n, h
  <2>2. n = h
    BY <2>1
  <2> QED
    BY <2>2 DEF n, h
<1> QED
  BY <1>1, <1>5, <1>9

\* The instruction pointer goes on, and the operands change as the instruction says.
LEMMA HeightsMove ==
  ASSUME NEW m, Sound(m), NEW depth, InFrames(m, TRUE, depth), Len(m.frames) \in 1 .. 2, NEW t,
         Len(t.frames) = Len(m.frames),
         t.frames[Len(m.frames)].klass = m.frames[Len(m.frames)].klass,
         \A k \in 1 .. Len(m.frames) - 1 : t.frames[k] = m.frames[k],
         Height(m.frames[Len(m.frames)]) \in Nat, Height(t.frames[Len(m.frames)]) \in Nat,
         Len(t.operand["agent"]) \in Nat, depth \in Nat,
         Len(t.operand["agent"]) + Height(m.frames[Len(m.frames)])
           = Len(m.operand["agent"]) + Height(t.frames[Len(m.frames)])
  PROVE  InFrames(t, TRUE, depth)
<1> DEFINE d == Len(m.frames)
           n == Len(m.operand["agent"])
           u == Len(t.operand["agent"])
           g == Height(m.frames[d])
           h == Height(t.frames[d])
<1>1. /\ d \in depth + 1 .. 2 /\ (d = 2 => m.frames[2].klass \in {"String", "Exception"})
      /\ n + depth = HeightAt(m, 1) + HeightAt(m, 2)
  BY DEF InFrames
<1>2. n \in Nat
  <2>1. IsSeq(m.operand["agent"])
    BY DEF Sound, Operands, Processors
  <2> QED
    BY <2>1, SeqLength
<1>3. u + depth = HeightAt(t, 1) + HeightAt(t, 2)
  <2>1. CASE d = 1
    <3>1. /\ HeightAt(m, 1) = g /\ HeightAt(m, 2) = 0
          /\ HeightAt(t, 1) = h /\ HeightAt(t, 2) = 0
      BY <2>1 DEF HeightAt
    <3>2. u + g = n + h /\ g \in Nat /\ h \in Nat /\ u \in Nat
      OBVIOUS
    <3>3. n + depth = g + 0
      BY <1>1, <3>1
    <3> HIDE DEF n, u, g, h
    <3>4. u + depth = h + 0
      BY <1>2, <3>2, <3>3
    <3> QED
      BY <3>1, <3>4
  <2>2. CASE d = 2
    <3>1. /\ HeightAt(m, 1) = Height(m.frames[1]) /\ HeightAt(m, 2) = g
          /\ HeightAt(t, 1) = Height(m.frames[1]) /\ HeightAt(t, 2) = h
      <4>1. t.frames[1] = m.frames[1]
        BY <2>2
      <4> QED
        BY <2>2, <4>1 DEF HeightAt
    <3>2. Height(m.frames[1]) \in Nat
      <4>1. IsSeq(m.frames)
        BY DEF Sound, CtorFrames
      <4>2. 1 \in DOMAIN m.frames
        BY <2>2, <4>1, SeqLength
      <4>3. IsFrame(m, m.frames[1])
        BY <4>2 DEF Sound, CtorFrames
      <4> QED
        BY <4>3, CtorSteps DEF IsFrame, Height
    <3> DEFINE b == Height(m.frames[1])
    <3>3. u + g = n + h /\ g \in Nat /\ h \in Nat /\ u \in Nat /\ b \in Nat
      BY <3>2
    <3>4. n + depth = b + g
      BY <1>1, <3>1
    <3> HIDE DEF n, u, g, h, b
    <3>5. u + depth = b + h
      BY <1>2, <3>3, <3>4
    <3> QED
      BY <3>1, <3>5 DEF b
  <2> QED
    BY <2>1, <2>2
<1>4. Len(t.frames) = 2 => t.frames[2].klass \in {"String", "Exception"}
  BY <1>1
<1>5. Len(t.frames) \in depth + 1 .. 2
  BY <1>1
<1> HIDE DEF d, n, u, g, h
<1> QED
  BY <1>3, <1>4, <1>5 DEF InFrames, u

LEMMA StepKeeps ==
  ASSUME IInv, NEW op, Executes(op), op # "ret", NEW m, Step(m), Sound(m),
         m.cells = memory.cells, m.frames = memory.frames,
         Len(m.operand["agent"]) + Heights(Frame.klass)[Frame.ip]
           = Len(memory.operand["agent"]) + Heights(Frame.klass)[Frame.ip + 1]
  PROVE  IInv'
<1> DEFINE d == Len(memory.frames)
           t == Advanced(m)
<1>1. /\ stack # <<>> /\ RunsCtor(Top) /\ Fits(Top) /\ Sound(memory) /\ returned = Nowhere
      /\ d \in 1 .. 2 /\ Top.depth \in 0 .. 1
      /\ Frame = memory.frames[d] /\ IsFrame(memory, Frame)
      /\ Height(Frame) \in Nat /\ InFrames(memory, TRUE, Top.depth)
  BY Executing
<1>2. Frame.ip + 1 \in DOMAIN Ctor(Frame.klass)
  <2>1. Behaves(Frame.klass, Frame.ip) /\ Ctor(Frame.klass)[Frame.ip].op = op
    BY Executing
  <2> HIDE DEF Frame
  <2> QED
    BY <2>1 DEF Behaves
<1>3. /\ Sound(t) /\ t.cells = memory.cells /\ t.operand = m.operand
      /\ Len(t.frames) = d
      /\ t.frames[d].klass = Frame.klass /\ t.frames[d].ip = Frame.ip + 1
      /\ \A k \in 1 .. d - 1 : t.frames[k] = memory.frames[k]
  <2>1. m.frames # <<>>
    <3>1. \A n \in 1 .. 2 : n # 0
      OBVIOUS
    <3>2. Len(memory.frames) # 0 /\ Len(<<>>) = 0
      BY <1>1, <3>1
    <3> QED
      BY <3>2
  <2>2. LET f == m.frames[Len(m.frames)] IN f.ip + 1 \in DOMAIN Ctor(f.klass)
    BY <1>1, <1>2
  <2> QED
    BY <1>1, <2>1, <2>2, AdvancedSound
<1>4. Goes(t, Top, <<>>)
  BY DEF Step
<1> HIDE DEF t
<1>5. InFrames(t, TRUE, Top.depth)
  <2>1. Height(t.frames[d]) = Heights(Frame.klass)[Frame.ip + 1]
        /\ Height(Frame) = Heights(Frame.klass)[Frame.ip]
    BY <1>3 DEF Height
  <2>2. Height(t.frames[d]) \in Nat
    <3>1. Frame.klass \in Constructed
      BY <1>1 DEF IsFrame
    <3> QED
      BY <1>2, <2>1, <3>1, CtorSteps
  <2>3. Len(t.operand["agent"]) \in Nat
    <3>1. IsSeq(t.operand["agent"])
      BY <1>3 DEF Sound, Operands, Processors
    <3> QED
      BY <3>1, SeqLength
  <2>4. Len(t.operand["agent"]) + Height(memory.frames[d])
          = Len(memory.operand["agent"]) + Height(t.frames[d])
    BY <1>1, <1>3, <2>1
  <2>5. Top.depth \in Nat
    BY <1>1
  <2> HIDE DEF Frame
  <2> QED
    BY <1>1, <1>3, <2>2, <2>3, <2>4, <2>5, HeightsMove
<1>6. InFrames(t, RunsCtor(Top), Top.depth)
  BY <1>1, <1>5 DEF InFrames
<1>7. ~ TakesRaw(Top) /\ ~ TakesHandle(Top)
  BY <1>1 DEF RunsCtor, TakesRaw, TakesHandle
<1>8. ASSUME NEW c \in Nat \ {0}
      PROVE  CountOf(t, c) + HeldBy(c, Top) + One(returned.cell = c)
                = CountOf(memory, c) + HeldBy(c, Top)
  <2>1. CountOf(t, c) = CountOf(memory, c) /\ One(returned.cell = c) = 0
    BY <1>1, <1>3 DEF CountOf, Nowhere, One
  <2>2. CountOf(memory, c) \in Nat /\ HeldBy(c, Top) \in Nat
    BY <1>1, CountNat, HeldByNat
  <2> QED
    BY <2>1, <2>2
<1> QED
  BY <1>1, <1>3, <1>4, <1>6, <1>7, <1>8, GoesOn

LEMMA LdargKeeps ==
  ASSUME IInv, Ldarg
  PROVE  IInv'
<1> DEFINE n == Inst.n + 1
           ptr == Frame.slots[n]
           m == PushedRoot(memory, "agent", ptr, Nothing)
<1>1. Executes("ldarg") /\ Step(m)
  BY DEF Ldarg
<1>2. /\ Sound(memory) /\ IsFrame(memory, Frame) /\ Behaves(Frame.klass, Frame.ip)
      /\ Ctor(Frame.klass)[Frame.ip].op = "ldarg" /\ Height(Frame) \in Nat
  BY <1>1, Executing
<1>3. /\ n \in 1 .. Arity(Frame.klass) + 1
      /\ Heights(Frame.klass)[Frame.ip + 1] = Heights(Frame.klass)[Frame.ip] + 1
  <2> HIDE DEF Frame
  <2> QED
    BY <1>2 DEF Behaves, Inst
<1>4. Live(memory, ptr)
  <2>1. /\ IsSeq(Frame.slots) /\ Len(Frame.slots) = Arity(Frame.klass) + 1
        /\ \A k \in DOMAIN Frame.slots : Live(memory, Frame.slots[k])
    BY <1>2 DEF IsFrame
  <2>2. n \in DOMAIN Frame.slots
    BY <1>3, <2>1, SeqLength
  <2> QED
    BY <2>1, <2>2
<1> HIDE DEF ptr
<1>5. /\ Sound(m) /\ m.cells = memory.cells /\ m.frames = memory.frames
      /\ Len(m.operand["agent"]) = Len(memory.operand["agent"]) + 1
  BY <1>2, <1>4, PushedRootSound DEF Processors
<1> HIDE DEF m
<1>6. Len(m.operand["agent"]) + Heights(Frame.klass)[Frame.ip]
        = Len(memory.operand["agent"]) + Heights(Frame.klass)[Frame.ip + 1]
  <2>1. IsSeq(memory.operand["agent"])
    BY <1>2 DEF Sound, Operands, Processors
  <2>2. Len(memory.operand["agent"]) \in Nat
    BY <2>1, SeqLength
  <2>3. Heights(Frame.klass)[Frame.ip] \in Nat
    BY <1>2 DEF Height
  <2> QED
    BY <1>3, <1>5, <2>2, <2>3
<1> QED
  BY <1>1, <1>5, <1>6, StepKeeps

\* What OpStfld writes is null, an object or a scrap.
LEMMA WrittenRefs ==
  ASSUME NEW m, Sound(m), NEW p, Live(m, p), NEW q, Live(m, q),
         NEW field \in {"sequence", "message"}
  PROVE  LET refs == Written(m.heap[p.obj].refs, p.obj, field, q.obj)
         IN p.obj \in DOMAIN m.heap =>
              \A f \in DOMAIN refs : refs[f] \in DOMAIN m.heap \cup {0, Scrap}
<1> DEFINE was == m.heap[p.obj].refs
           refs == Written(was, p.obj, field, q.obj)
<1>1. SUFFICES ASSUME p.obj \in DOMAIN m.heap
               PROVE  \A f \in DOMAIN refs : refs[f] \in DOMAIN m.heap \cup {0, Scrap}
  OBVIOUS
<1>2. q.obj \in DOMAIN m.heap \cup {0}
  BY LiveObject DEF Sound, Null
<1>3. \A f \in DOMAIN was : was[f] \in DOMAIN m.heap \cup {0, Scrap}
  BY <1>1 DEF Sound, Objects
<1> HIDE DEF was
<1>4. CASE field = "message"
  <2>1. refs = [message |-> q.obj, name |-> p.obj, trace |-> Scrap]
    BY <1>4 DEF Written
  <2> HIDE DEF refs
  <2> QED
    BY <1>1, <1>2, <2>1
<1>5. CASE field # "message"
  <2>1. refs = [was EXCEPT ![field] = q.obj]
    BY <1>5 DEF Written
  <2> HIDE DEF refs
  <2> QED
    BY <1>2, <1>3, <2>1
<1> QED
  BY <1>4, <1>5

LEMMA StfldSound ==
  ASSUME NEW m, Sound(m), NEW p, Live(m, p), NEW q, Live(m, q),
         NEW field \in {"sequence", "message"}
  PROVE  LET t == WithRefs(m, p.obj, Written(m.heap[p.obj].refs, p.obj, field, q.obj))
         IN /\ Sound(t)
            /\ t.cells = m.cells /\ t.operand = m.operand /\ t.frames = m.frames
<1> DEFINE refs == Written(m.heap[p.obj].refs, p.obj, field, q.obj)
           t == WithRefs(m, p.obj, refs)
<1>1. CASE p.obj \in DOMAIN m.heap
  <2>1. \A f \in DOMAIN refs : refs[f] \in DOMAIN m.heap \cup {0, Scrap}
    BY <1>1, WrittenRefs
  <2> HIDE DEF refs
  <2>2. Sound(t) /\ t.cells = m.cells /\ t.operand = m.operand /\ t.frames = m.frames
    BY <2>1, WrittenSound
  <2> QED
    BY <2>2 DEF refs
<1>2. CASE p.obj \notin DOMAIN m.heap
  <2> HIDE DEF refs
  <2>1. m.heap = [i \in DOMAIN m.heap |-> m.heap[i]]
    BY DEF Sound, Objects
  <2>2. [m.heap EXCEPT ![p.obj] = [m.heap[p.obj] EXCEPT !.refs = refs]] = m.heap
    BY <1>2, <2>1
  <2>3. m = [heap |-> m.heap, cells |-> m.cells, operand |-> m.operand, frames |-> m.frames,
             roots |-> m.roots]
    BY DEF Sound
  <2>4. t = m
    BY <2>2, <2>3 DEF WithRefs
  <2> HIDE DEF t
  <2>5. Sound(t) /\ t.cells = m.cells /\ t.operand = m.operand /\ t.frames = m.frames
    BY <2>4
  <2> QED
    BY <2>5 DEF t, refs
<1> QED
  BY <1>1, <1>2

LEMMA StfldKeeps ==
  ASSUME IInv, NEW field \in {"sequence", "message"}, Stfld(field)
  PROVE  IInv'
<1> DEFINE p == Frame.slots[1]
           q == Frame.slots[2]
           m == WithRefs(memory, p.obj, Written(memory.heap[p.obj].refs, p.obj, field, q.obj))
<1>1. Executes(field) /\ Step(m)
  BY DEF Stfld, WithRefs
<1>2. /\ Sound(memory) /\ IsFrame(memory, Frame) /\ Behaves(Frame.klass, Frame.ip)
      /\ Ctor(Frame.klass)[Frame.ip].op = field
  BY <1>1, Executing
<1>3. /\ Frame.klass \in {"String", "Exception"}
      /\ Heights(Frame.klass)[Frame.ip + 1] = Heights(Frame.klass)[Frame.ip]
  <2> HIDE DEF Frame
  <2> QED
    BY <1>2 DEF Behaves
<1>4. Live(memory, p) /\ Live(memory, q)
  <2>1. /\ IsSeq(Frame.slots) /\ Len(Frame.slots) = Arity(Frame.klass) + 1
        /\ \A k \in DOMAIN Frame.slots : Live(memory, Frame.slots[k])
    BY <1>2 DEF IsFrame
  <2>2. Arity(Frame.klass) = 1
    BY <1>3 DEF Arity
  <2>3. 1 \in DOMAIN Frame.slots /\ 2 \in DOMAIN Frame.slots
    BY <2>1, <2>2, SeqLength
  <2> QED
    BY <2>1, <2>3
<1>5. /\ Sound(m)
      /\ m.cells = memory.cells /\ m.operand = memory.operand /\ m.frames = memory.frames
  <2> HIDE DEF p, q
  <2> QED
    BY <1>2, <1>4, StfldSound
<1> HIDE DEF m
<1> QED
  BY <1>1, <1>3, <1>5, StepKeeps

LEMMA NewarrayKeeps ==
  ASSUME IInv, Newarray
  PROVE  IInv'
<1>1. Executes("newarray")
  BY DEF Newarray
<1>2. PICK room \in Room(memory) :
        LET text == TextOf(room, Operand(room, "agent", 1).ptr)
                    \o TextOf(room, Operand(room, "agent", 0).ptr)
        IN Step(PushedRoot(Created(room, "Rune[]", [n \in {} |-> 0], text),
                           "agent", Ptr(NextId(room)), Nothing))
  BY DEF Newarray
<1> DEFINE text == TextOf(room, Operand(room, "agent", 1).ptr)
                   \o TextOf(room, Operand(room, "agent", 0).ptr)
           refs == [n \in {} |-> 0]
           t == Created(room, "Rune[]", refs, text)
           m == PushedRoot(t, "agent", Ptr(NextId(room)), Nothing)
<1>3. Step(m)
  BY <1>2
<1>4. /\ Sound(memory) /\ Behaves(Frame.klass, Frame.ip)
      /\ Ctor(Frame.klass)[Frame.ip].op = "newarray" /\ Height(Frame) \in Nat
  BY <1>1, Executing
<1>5. Heights(Frame.klass)[Frame.ip + 1] = Heights(Frame.klass)[Frame.ip] + 1
  <2> HIDE DEF Frame
  <2> QED
    BY <1>4 DEF Behaves
<1>6. /\ Sound(room) /\ Unused(room) # {}
      /\ room.cells = memory.cells /\ room.operand = memory.operand /\ room.frames = memory.frames
  BY <1>4, RoomSound
<1>7. /\ Sound(t) /\ Live(t, Ptr(NextId(room)))
      /\ t.cells = room.cells /\ t.operand = room.operand /\ t.frames = room.frames
  <2>1. \A f \in DOMAIN refs : refs[f] \in DOMAIN room.heap \cup {0, Scrap}
    OBVIOUS
  <2> HIDE DEF refs, text
  <2> QED
    BY <1>6, <2>1, CreatedSound
<1> HIDE DEF t
<1>8. /\ Sound(m) /\ m.cells = t.cells /\ m.frames = t.frames
      /\ Len(m.operand["agent"]) = Len(t.operand["agent"]) + 1
  BY <1>7, PushedRootSound DEF Processors
<1> HIDE DEF m
<1>9. Len(m.operand["agent"]) + Heights(Frame.klass)[Frame.ip]
        = Len(memory.operand["agent"]) + Heights(Frame.klass)[Frame.ip + 1]
  <2>1. IsSeq(memory.operand["agent"])
    BY <1>4 DEF Sound, Operands, Processors
  <2>2. Len(memory.operand["agent"]) \in Nat
    BY <2>1, SeqLength
  <2>3. Heights(Frame.klass)[Frame.ip] \in Nat
    BY <1>4 DEF Height
  <2>4. Len(m.operand["agent"]) = Len(memory.operand["agent"]) + 1
    BY <1>6, <1>7, <1>8
  <2> DEFINE n == Len(memory.operand["agent"])
             u == Len(m.operand["agent"])
             h == Heights(Frame.klass)[Frame.ip]
             k == Heights(Frame.klass)[Frame.ip + 1]
  <2>5. n \in Nat /\ h \in Nat /\ u = n + 1 /\ k = h + 1
    BY <1>5, <2>2, <2>3, <2>4
  <2> HIDE DEF n, u, h, k
  <2>6. u + h = n + k
    BY <2>5
  <2> QED
    BY <2>6 DEF n, u, h, k
<1>10. m.cells = memory.cells /\ m.frames = memory.frames
  BY <1>6, <1>7, <1>8
<1> QED
  BY <1>1, <1>3, <1>8, <1>9, <1>10, StepKeeps

LEMMA NewstringKeeps ==
  ASSUME IInv, Newstring
  PROVE  IInv'
<1>1. Executes("newstring")
  BY DEF Newstring
<1>2. PICK room \in Room(memory) :
        LET refs == [sequence |-> Operand(room, "agent", 0).ptr.obj]
        IN Step(PushedRoot(Popped(Created(room, "String", refs, <<>>), "agent", 3),
                           "agent", Ptr(NextId(room)), Nothing))
  BY DEF Newstring
<1> DEFINE text == <<>>
           item == Operand(room, "agent", 0)
           refs == [sequence |-> item.ptr.obj]
           t == Created(room, "String", refs, text)
           u == Popped(t, "agent", 3)
           m == PushedRoot(u, "agent", Ptr(NextId(room)), Nothing)
<1>3. Step(m)
  BY <1>2
<1>4. /\ Sound(memory) /\ Behaves(Frame.klass, Frame.ip)
      /\ Ctor(Frame.klass)[Frame.ip].op = "newstring" /\ Height(Frame) \in Nat
      /\ Len(memory.operand["agent"]) = Height(Frame)
  BY <1>1, Executing, OneFrame
<1>5. /\ Heights(Frame.klass)[Frame.ip + 1] = Heights(Frame.klass)[Frame.ip] - 2
      /\ Heights(Frame.klass)[Frame.ip] >= 3
  <2> HIDE DEF Frame
  <2> QED
    BY <1>4 DEF Behaves
<1>6. /\ Sound(room) /\ Unused(room) # {}
      /\ room.cells = memory.cells /\ room.operand = memory.operand /\ room.frames = memory.frames
  BY <1>4, RoomSound
<1> DEFINE n == Len(memory.operand["agent"])
<1>7. n \in Nat /\ n >= 3 /\ n = Heights(Frame.klass)[Frame.ip]
  BY <1>4, <1>5 DEF Height
<1>8. item.ptr.obj \in DOMAIN room.heap \cup {0}
  <2>1. item = room.operand["agent"][n]
    <3>1. n - 0 = n
      BY <1>7
    <3> QED
      BY <1>6, <3>1 DEF Operand
  <2>2. IsSeq(room.operand["agent"])
    BY <1>6 DEF Sound, Operands, Processors
  <2>3. n \in DOMAIN room.operand["agent"]
    BY <1>6, <1>7, <2>2, SeqLength
  <2>4. IsItem(room, item)
    BY <1>6, <2>1, <2>3 DEF Sound, Operands, Processors
  <2> HIDE DEF item
  <2>5. Live(room, item.ptr) /\ Objects(room)
    BY <1>6, <2>4 DEF IsItem, Sound
  <2> QED
    BY <2>5, LiveObject DEF Null
<1>9. /\ Sound(t) /\ Live(t, Ptr(NextId(room)))
      /\ t.cells = room.cells /\ t.operand = room.operand /\ t.frames = room.frames
  <2>1. \A f \in DOMAIN refs : refs[f] \in DOMAIN room.heap \cup {0, Scrap}
    BY <1>8
  <2> HIDE DEF refs, text
  <2> QED
    BY <1>6, <2>1, CreatedSound
<1> HIDE DEF t, n
<1>10. /\ Sound(u) /\ u.cells = t.cells /\ u.frames = t.frames
       /\ Len(u.operand["agent"]) = n - 3 /\ Live(u, Ptr(NextId(room)))
  <2>1. Len(t.operand["agent"]) = n
    BY <1>6, <1>9 DEF n
  <2>2. 3 \in 0 .. Len(t.operand["agent"])
    BY <1>7, <2>1
  <2> QED
    BY <1>9, <2>1, <2>2, PoppedSound DEF Processors
<1> HIDE DEF u
<1>11. /\ Sound(m) /\ m.cells = u.cells /\ m.frames = u.frames
       /\ Len(m.operand["agent"]) = Len(u.operand["agent"]) + 1
  BY <1>10, PushedRootSound DEF Processors
<1> HIDE DEF m
<1>12. Len(m.operand["agent"]) + Heights(Frame.klass)[Frame.ip]
         = Len(memory.operand["agent"]) + Heights(Frame.klass)[Frame.ip + 1]
  <2>1. Len(m.operand["agent"]) = n - 2
    BY <1>7, <1>10, <1>11
  <2> QED
    BY <1>5, <1>7, <2>1 DEF n
<1>13. m.cells = memory.cells /\ m.frames = memory.frames
  BY <1>6, <1>9, <1>10, <1>11
<1> QED
  BY <1>1, <1>3, <1>11, <1>12, <1>13, StepKeeps

LEMMA CreatesStringKeeps ==
  ASSUME IInv, CreatesString
  PROVE  IInv'
<1> DEFINE op == Inst.op
           t == Advanced(memory)
<1>1. /\ op \in {"ldstr", "tostr"} /\ Executes(op)
      /\ Goes(t, Top, <<CallString(op, Inst.text)>>)
  BY DEF CreatesString, Executes
<1> HIDE DEF op
<1>2. /\ stack # <<>> /\ RunsCtor(Top) /\ Fits(Top) /\ Sound(memory) /\ returned = Nowhere
      /\ IsFrame(memory, Frame) /\ Behaves(Frame.klass, Frame.ip)
      /\ Ctor(Frame.klass)[Frame.ip].op = op /\ Height(Frame) \in Nat
      /\ Len(memory.frames) = 1 /\ Top.depth = 0 /\ Frame = memory.frames[1]
      /\ Len(memory.operand["agent"]) = Height(Frame)
  BY <1>1, Executing, OneFrame
<1>3. /\ Frame.ip + 1 \in DOMAIN Ctor(Frame.klass)
      /\ Heights(Frame.klass)[Frame.ip + 1] = Heights(Frame.klass)[Frame.ip] + 1
  <2> HIDE DEF Frame
  <2> QED
    BY <1>1, <1>2 DEF Behaves
<1>4. /\ Sound(t) /\ t.cells = memory.cells /\ t.operand = memory.operand
      /\ Len(t.frames) = 1
      /\ t.frames[1].klass = Frame.klass /\ t.frames[1].ip = Frame.ip + 1
  <2>1. memory.frames # <<>>
    <3>1. Len(<<>>) = 0
      OBVIOUS
    <3> QED
      BY <1>2, <3>1
  <2>2. LET f == memory.frames[Len(memory.frames)] IN f.ip + 1 \in DOMAIN Ctor(f.klass)
    BY <1>2, <1>3
  <2> QED
    BY <1>2, <2>1, <2>2, AdvancedSound
<1> HIDE DEF t
<1>5. InFrames(t, FALSE, 1)
  <2>1. HeightAt(t, 1) = Heights(Frame.klass)[Frame.ip + 1] /\ HeightAt(t, 2) = 0
    BY <1>4 DEF HeightAt, Height
  <2>2. /\ Len(t.operand["agent"]) = Heights(Frame.klass)[Frame.ip]
        /\ Heights(Frame.klass)[Frame.ip] \in Nat
    BY <1>2, <1>4 DEF Height
  <2>3. Len(t.operand["agent"]) + 1 = HeightAt(t, 1) + HeightAt(t, 2)
    BY <1>3, <2>1, <2>2
  <2> QED
    BY <1>4, <2>3 DEF InFrames
<1>6. \A g : g.fn = op /\ g.depth = Len(memory.frames) => CalledBy(Top, g)
  BY <1>1, <1>2 DEF CalledBy, RunsCtor
<1>7. ASSUME NEW c \in Nat \ {0}
      PROVE  CountOf(t, c) + HeldBy(c, Top) + One(returned.cell = c)
                = CountOf(memory, c) + HeldBy(c, Top)
  <2>1. CountOf(t, c) = CountOf(memory, c) /\ One(returned.cell = c) = 0
    BY <1>2, <1>4 DEF CountOf, Nowhere, One
  <2>2. CountOf(memory, c) \in Nat /\ HeldBy(c, Top) \in Nat
    BY <1>2, CountNat, HeldByNat
  <2> QED
    BY <2>1, <2>2
<1>8. /\ Len(memory.frames) \in 0 .. 1 /\ InFrames(t, FALSE, Len(memory.frames))
      /\ op \in {"createUnprotectedString", "createString", "ldstr", "tostr"}
  <2>1. 1 \in 0 .. 1
    OBVIOUS
  <2>2. Len(memory.frames) \in 0 .. 1 /\ InFrames(t, FALSE, Len(memory.frames))
    BY <1>2, <1>5, <2>1, Zenon
  <2>3. op \in {"createUnprotectedString", "createString", "ldstr", "tostr"}
    BY <1>1
  <2> QED
    BY <2>2, <2>3
<1> HIDE DEF Top
<1> QED
  BY <1>1, <1>2, <1>4, <1>6, <1>7, <1>8, CallsString

LEMMA BaseCtorKeeps ==
  ASSUME IInv, BaseCtor
  PROVE  IInv'
<1> DEFINE a == Advanced(memory)
           t == InvokeCtor(a, "Exception")
<1>1. Executes("base") /\ Goes(t, Top, <<>>)
  BY DEF BaseCtor
<1>2. /\ stack # <<>> /\ RunsCtor(Top) /\ Fits(Top) /\ Sound(memory) /\ returned = Nowhere
      /\ IsFrame(memory, Frame) /\ Behaves(Frame.klass, Frame.ip)
      /\ Ctor(Frame.klass)[Frame.ip].op = "base"
      /\ Len(memory.frames) = 1 /\ Top.depth = 0 /\ Frame = memory.frames[1]
      /\ Len(memory.operand["agent"]) = Height(Frame)
  BY <1>1, Executing, OneFrame
<1>3. /\ Frame.ip + 1 \in DOMAIN Ctor(Frame.klass)
      /\ Heights(Frame.klass)[Frame.ip] = 2 /\ Heights(Frame.klass)[Frame.ip + 1] = 0
  <2> HIDE DEF Frame
  <2> QED
    BY <1>2 DEF Behaves
<1>4. /\ Sound(a) /\ a.cells = memory.cells /\ a.operand = memory.operand
      /\ Len(a.frames) = 1
      /\ a.frames[1].klass = Frame.klass /\ a.frames[1].ip = Frame.ip + 1
  <2>1. memory.frames # <<>>
    <3>1. Len(<<>>) = 0
      OBVIOUS
    <3> QED
      BY <1>2, <3>1
  <2>2. LET f == memory.frames[Len(memory.frames)] IN f.ip + 1 \in DOMAIN Ctor(f.klass)
    BY <1>2, <1>3
  <2> QED
    BY <1>2, <2>1, <2>2, AdvancedSound
<1> HIDE DEF a
<1>5. Len(a.operand["agent"]) = 2 /\ "Exception" \in Constructed /\ Arity("Exception") = 1
  BY <1>2, <1>3, <1>4 DEF Height, Constructed, Arity
<1>6. /\ Sound(t) /\ t.cells = a.cells
      /\ Len(t.operand["agent"]) = 0
      /\ Len(t.frames) = 2 /\ t.frames[2].klass = "Exception" /\ t.frames[2].ip = 1
      /\ t.frames[1] = a.frames[1]
  <2>1. Len(a.operand["agent"]) >= Arity("Exception") + 1
    BY <1>5
  <2>2. /\ Sound(t) /\ t.cells = a.cells
        /\ Len(t.operand["agent"]) = Len(a.operand["agent"]) - (Arity("Exception") + 1)
        /\ Len(t.frames) = Len(a.frames) + 1
        /\ t.frames[Len(a.frames) + 1].klass = "Exception" /\ t.frames[Len(a.frames) + 1].ip = 1
        /\ \A k \in 1 .. Len(a.frames) : t.frames[k] = a.frames[k]
    BY <1>4, <1>5, <2>1, InvokeCtorSound
  <2> HIDE DEF t
  <2> QED
    BY <1>4, <1>5, <2>2
<1> HIDE DEF t
<1>7. InFrames(t, TRUE, 0)
  <2>1. HeightAt(t, 1) = 0
    BY <1>3, <1>4, <1>6 DEF HeightAt, Height
  <2>2. HeightAt(t, 2) = 0
    BY <1>6 DEF HeightAt, Height, Heights
  <2>3. Len(t.operand["agent"]) + 0 = HeightAt(t, 1) + HeightAt(t, 2)
    BY <1>6, <2>1, <2>2
  <2> QED
    BY <1>6, <2>3 DEF InFrames
<1>8. InFrames(t, RunsCtor(Top), Top.depth)
  BY <1>2, <1>7 DEF InFrames
<1>9. ~ TakesRaw(Top) /\ ~ TakesHandle(Top)
  BY <1>2 DEF RunsCtor, TakesRaw, TakesHandle
<1>10. ASSUME NEW c \in Nat \ {0}
       PROVE  CountOf(t, c) + HeldBy(c, Top) + One(returned.cell = c)
                = CountOf(memory, c) + HeldBy(c, Top)
  <2>1. CountOf(t, c) = CountOf(memory, c) /\ One(returned.cell = c) = 0
    BY <1>2, <1>4, <1>6 DEF CountOf, Nowhere, One
  <2>2. CountOf(memory, c) \in Nat /\ HeldBy(c, Top) \in Nat
    BY <1>2, CountNat, HeldByNat
  <2> QED
    BY <2>1, <2>2
<1> QED
  BY <1>1, <1>2, <1>6, <1>8, <1>9, <1>10, GoesOn

LEMMA RetKeeps ==
  ASSUME IInv, Ret
  PROVE  IInv'
<1> DEFINE d == Len(memory.frames)
           n == Len(memory.operand["agent"])
           at == IF d - 1 = Top.depth THEN 3 ELSE 2
           t == FrameLeft(memory)
           f == [Top EXCEPT !.at = at]
<1>1. Executes("ret") /\ Goes(t, f, <<>>)
  BY DEF Ret, FrameLeft, Frame
<1>2. /\ stack # <<>> /\ RunsCtor(Top) /\ Fits(Top) /\ Sound(memory) /\ returned = Nowhere
      /\ d \in 1 .. 2 /\ Top.depth \in 0 .. 1 /\ Frame = memory.frames[d]
      /\ Behaves(Frame.klass, Frame.ip) /\ Ctor(Frame.klass)[Frame.ip].op = "ret"
      /\ InFrames(memory, TRUE, Top.depth)
  BY <1>1, Executing
<1>3. Height(Frame) = 0
  <2> HIDE DEF Frame
  <2> QED
    BY <1>2 DEF Behaves, Height
<1>4. /\ Sound(t) /\ t.cells = memory.cells /\ t.operand = memory.operand
      /\ Len(t.frames) = d - 1
      /\ \A k \in 1 .. d - 1 : t.frames[k] = memory.frames[k]
  <2>1. memory.frames # <<>>
    <3>1. \A i \in 1 .. 2 : i # 0
      OBVIOUS
    <3>2. d # 0 /\ Len(<<>>) = 0
      BY <1>2, <3>1
    <3> QED
      BY <3>2
  <2> QED
    BY <1>2, <2>1, FrameLeftSound
<1> HIDE DEF t
<1>5. f = Now(Top, at, Top.cells, Top.args)
  BY <1>2, ActivationNow
<1> HIDE DEF f
<1>6. /\ f.fn = "createUnprotectedInstance" /\ f.at = at /\ f.on = Top.on /\ f.klass = Top.klass
      /\ f.cells = Top.cells /\ f.args = Top.args /\ f.depth = Top.depth
      /\ f = [fn |-> f.fn, at |-> f.at, on |-> f.on, klass |-> f.klass, texts |-> f.texts,
              cells |-> f.cells, args |-> f.args, depth |-> f.depth]
  <2>1. Top.fn = "createUnprotectedInstance"
    BY <1>2 DEF RunsCtor
  <2> HIDE DEF Top, at
  <2> QED
    BY <1>5, <2>1, NowIs
<1>7. /\ Fits(f) /\ ~ TakesRaw(f) /\ ~ TakesHandle(f)
      /\ RunsCtor(f) <=> at = 2
  <2>1. Top.fn = "createUnprotectedInstance" /\ Top.at = 2 /\ at \in 2 .. 3
    BY <1>2 DEF RunsCtor
  <2> HIDE DEF at
  <2> QED
    BY <1>2, <1>6, <2>1 DEF Fits, OneCell, TakesRaw, TakesHandle, RunsCtor
<1>8. HeightAt(t, 1) + HeightAt(t, 2) = HeightAt(memory, 1) + HeightAt(memory, 2)
  <2>1. CASE d = 1
    BY <1>2, <1>3, <1>4, <2>1 DEF HeightAt
  <2>2. CASE d = 2
    <3>1. t.frames[1] = memory.frames[1]
      BY <1>4, <2>2
    <3> QED
      BY <1>2, <1>3, <1>4, <2>2, <3>1 DEF HeightAt
  <2> QED
    BY <1>2, <2>1, <2>2
<1>9. /\ d \in Top.depth + 1 .. 2
      /\ Len(t.operand["agent"]) + Top.depth = HeightAt(t, 1) + HeightAt(t, 2)
  BY <1>2, <1>4, <1>8 DEF InFrames
<1>10. InFrames(t, RunsCtor(f), f.depth)
  <2>1. Len(t.frames) # 2
    <3>1. \A e \in 1 .. 2 : e - 1 # 2
      OBVIOUS
    <3> QED
      BY <1>2, <1>4, <3>1
  <2>2. CASE at = 2
    <3>1. d - 1 # Top.depth
      BY <2>2
    <3>2. d - 1 \in Top.depth + 1 .. 2
      <4>1. ASSUME NEW b \in 0 .. 1, NEW e \in b + 1 .. 2, e - 1 # b
            PROVE  e - 1 \in b + 1 .. 2
        BY <4>1
      <4> QED
        BY <1>2, <1>9, <3>1, <4>1
    <3>3. InFrames(t, TRUE, Top.depth)
      BY <1>4, <1>9, <2>1, <3>2 DEF InFrames
    <3> QED
      BY <1>6, <1>7, <2>2, <3>3 DEF InFrames
  <2>3. CASE at # 2
    <3>1. d - 1 = Top.depth
      BY <2>3
    <3>2. InFrames(t, FALSE, Top.depth)
      BY <1>4, <1>9, <2>1, <3>1 DEF InFrames
    <3> QED
      BY <1>6, <1>7, <2>3, <3>2 DEF InFrames
  <2> QED
    BY <2>2, <2>3
<1>11. ASSUME NEW c \in Nat \ {0}
       PROVE  CountOf(t, c) + HeldBy(c, Top) + One(returned.cell = c)
                = CountOf(memory, c) + HeldBy(c, f)
  <2>1. /\ CountOf(t, c) = CountOf(memory, c) /\ One(returned.cell = c) = 0
        /\ HeldBy(c, f) = HeldBy(c, Top)
    BY <1>2, <1>4, <1>6 DEF CountOf, Nowhere, One, HeldBy
  <2>2. CountOf(memory, c) \in Nat /\ HeldBy(c, Top) \in Nat
    BY <1>2, CountNat, HeldByNat
  <2> QED
    BY <2>1, <2>2
<1>12. f.fn = Top.fn
  BY <1>2, <1>6 DEF RunsCtor
<1> HIDE DEF Top, at, d, n
<1> QED
  BY <1>1, <1>2, <1>4, <1>6, <1>7, <1>10, <1>11, <1>12, GoesOn

-----------------------------------------------------------------------------
(***************************************************************************)
(* The program's processor, and the whole.                                 *)
(***************************************************************************)
LEMMA InitInv ==
  ASSUME Init
  PROVE  IInv
<1>1. /\ memory = [heap |-> [id \in {} |-> 0], cells |-> [c \in {} |-> 0],
                   operand |-> [p \in {"main", "agent"} |-> <<>>], frames |-> <<>>, roots |-> {}]
      /\ stack = <<>> /\ returned = Nowhere
  BY DEF Init
<1>2. /\ memory.heap = [id \in {} |-> 0] /\ memory.cells = [c \in {} |-> 0]
      /\ memory.operand = [p \in {"main", "agent"} |-> <<>>] /\ memory.frames = <<>>
      /\ memory.roots = {}
  BY <1>1
<1>3. DOMAIN memory.heap = {} /\ DOMAIN memory.cells = {} /\ DOMAIN memory.frames = {}
      /\ \A p \in Processors : memory.operand[p] = <<>> /\ DOMAIN memory.operand[p] = {}
  BY <1>2 DEF Processors
<1>4. IsSeq(<<>>) /\ Len(<<>>) = 0
  BY DEF IsSeq
<1>5. Sound(memory)
  <2>1. Objects(memory)
    BY <1>2, <1>3 DEF Objects
  <2>2. Cells(memory)
    <3>1. IsFiniteSet({})
      BY FS_EmptySet
    <3> QED
      BY <1>2, <1>3, <3>1 DEF Cells
  <2>3. Operands(memory)
    BY <1>2, <1>3, <1>4 DEF Operands, Processors
  <2>4. CtorFrames(memory)
    BY <1>2, <1>3, <1>4 DEF CtorFrames
  <2>5. Roots(memory)
    <3>1. CellRoots(memory) = {} /\ Slots(memory) = {}
      BY <1>3 DEF CellRoots, Slots
    <3>2. \A p \in Processors : OperandRoots(memory, p) = {}
      BY <1>3 DEF OperandRoots
    <3> QED
      BY <1>2, <1>3, <3>1, <3>2 DEF Roots, Processors
  <2>6. memory = [heap |-> memory.heap, cells |-> memory.cells, operand |-> memory.operand,
                  frames |-> memory.frames, roots |-> memory.roots]
    BY <1>1
  <2> QED
    BY <2>1, <2>2, <2>3, <2>4, <2>5, <2>6 DEF Sound
<1>6. Chain(stack)
  BY <1>1, <1>4 DEF Chain
<1>7. Given(memory, stack, returned)
  BY <1>1 DEF Given
<1>8. InFrames(memory, Runs(stack), Depth(stack))
  <2>1. ~ Runs(stack) /\ Depth(stack) = 0
    BY <1>1 DEF Runs, Depth
  <2>2. Len(memory.operand["agent"]) = 0 /\ Len(memory.frames) = 0
    BY <1>2, <1>3, <1>4 DEF Processors
  <2>3. HeightAt(memory, 1) = 0 /\ HeightAt(memory, 2) = 0
    BY <2>2 DEF HeightAt
  <2>4. Len(memory.operand["agent"]) + 0 = HeightAt(memory, 1) + HeightAt(memory, 2)
    BY <2>2, <2>3
  <2> QED
    BY <2>1, <2>2, <2>4 DEF InFrames
<1>9. Balanced(memory, stack, returned)
  <2>1. ASSUME NEW c \in Nat \ {0}
        PROVE  CountOf(memory, c) = Held(c, stack) + One(returned.cell = c)
    <3>1. CountOf(memory, c) = 0 /\ Held(c, stack) = 0 /\ One(returned.cell = c) = 0
      BY <1>1, <1>3, HeldNone DEF CountOf, Nowhere, One
    <3> QED
      BY <3>1
  <2> QED
    BY <2>1 DEF Balanced
<1> QED
  BY <1>5, <1>6, <1>7, <1>8, <1>9 DEF IInv

\* What holds when no function is active.
LEMMA Between ==
  ASSUME IInv, stack = <<>>
  PROVE  /\ Sound(memory) /\ returned = Nowhere /\ InFrames(memory, FALSE, 0)
         /\ Len(memory.frames) = 0
         /\ \A c \in Nat \ {0} : CountOf(memory, c) = 0
<1>1. ~ Runs(stack) /\ Depth(stack) = 0
  BY DEF Runs, Depth
<1>2. InFrames(memory, FALSE, 0)
  BY <1>1 DEF IInv, InFrames
<1>3. returned = Nowhere
  BY DEF IInv, Given
<1>4. ASSUME NEW c \in Nat \ {0} PROVE CountOf(memory, c) = 0
  <2>1. CountOf(memory, c) = Held(c, stack) + One(returned.cell = c)
    BY DEF IInv, Balanced
  <2>2. Held(c, stack) = 0 /\ One(returned.cell = c) = 0
    BY <1>3, HeldNone DEF Nowhere, One
  <2> QED
    BY <2>1, <2>2
<1> QED
  BY <1>2, <1>3, <1>4 DEF IInv, InFrames

LEMMA InstructionKeeps ==
  ASSUME IInv, Instruction
  PROVE  IInv'
<1>1. stack = <<>> /\ memory' = memory /\ returned' = returned
  BY DEF Instruction, Idle
<1>2. PICK fn \in {"ldstr", "tostr", "raise"}, klass \in Klasses \cup {"String"},
            texts \in {<<>>, <<"text">>} :
        /\ stack' = <<Call(fn, "main", klass, texts, <<>>)>>
        /\ fn = "raise" => klass \in Klasses
  BY DEF Instruction
<1> DEFINE a == Call(fn, "main", klass, texts, <<>>)
<1>3. /\ Sound(memory) /\ returned = Nowhere /\ InFrames(memory, FALSE, 0)
      /\ Len(memory.frames) = 0
      /\ \A c \in Nat \ {0} : CountOf(memory, c) = 0
  BY <1>1, Between
<1>4. a = [fn |-> fn, at |-> 1, on |-> "main", klass |-> klass, texts |-> texts,
           cells |-> <<>>, args |-> <<>>, depth |-> 0]
  BY <1>3 DEF Call
<1>5. stack' = <<a>>
  BY <1>2
<1> HIDE DEF a
<1>6. /\ a.fn = fn /\ a.at = 1 /\ a.on = "main" /\ a.klass = klass
      /\ a.cells = <<>> /\ a.args = <<>> /\ a.depth = 0
      /\ a = [fn |-> a.fn, at |-> a.at, on |-> a.on, klass |-> a.klass, texts |-> a.texts,
              cells |-> a.cells, args |-> a.args, depth |-> a.depth]
  BY <1>4
<1>7. Fits(a)
  <2>1. /\ <<>> \in Seq(Nat) /\ <<>> \in Seq(Nat \ {0}) /\ Len(<<>>) = 0
    OBVIOUS
  <2>2. fn = "raise" => Len(<<>>) <= Len(Texts[klass])
    BY <1>2, <2>1, TextsLen
  <2> QED
    BY <1>2, <1>6, <2>1, <2>2 DEF Fits
<1>8. /\ Chain(<<>>) /\ IsSeq(<<>>) /\ Outermost(a)
  BY <1>6 DEF Chain, IsSeq, Outermost
<1>9. Append(<<>>, a) = <<a>>
  OBVIOUS
<1>10. Chain(<<a>>) /\ Last(<<a>>) = a /\ <<a>> # <<>>
  BY <1>7, <1>8, <1>9, ChainAppend
<1>11. Given(memory, <<a>>, returned)
  BY <1>3, <1>6, <1>10 DEF Given, TakesRaw, TakesHandle
<1>12. InFrames(memory, Runs(<<a>>), Depth(<<a>>))
  <2>1. ~ Runs(<<a>>) /\ Depth(<<a>>) = 0
    BY <1>6, <1>10 DEF Runs, Depth, RunsCtor
  <2> QED
    BY <1>3, <2>1 DEF InFrames
<1>13. ASSUME NEW c \in Nat \ {0}
       PROVE  CountOf(memory, c) = Held(c, <<a>>) + One(returned.cell = c)
  <2>1. Held(c, <<a>>) = Held(c, <<>>) + HeldBy(c, a)
    <3> DEFINE st == <<>>
    <3>1. IsSeq(st) /\ \A d \in DOMAIN st : Fits(st[d])
      BY <1>8
    <3> HIDE DEF st
    <3>2. Held(c, Append(st, a)) = Held(c, st) + HeldBy(c, a)
      BY <1>7, <3>1, HeldAppend
    <3> QED
      BY <1>9, <3>2 DEF st
  <2>2. HeldBy(c, a) = 0 /\ Held(c, <<>>) = 0 /\ One(returned.cell = c) = 0
    BY <1>3, <1>6, TimesOf, HeldNone DEF HeldBy, Nowhere, One
  <2> QED
    BY <1>3, <2>1, <2>2
<1>14. Balanced(memory, <<a>>, returned)
  BY <1>13 DEF Balanced
<1> QED
  BY <1>1, <1>3, <1>5, <1>10, <1>11, <1>12, <1>14 DEF IInv

LEMMA DropKeeps ==
  ASSUME IInv, Drop
  PROVE  IInv'
<1> DEFINE t == Popped(memory, "main", 1)
<1>1. /\ stack = <<>> /\ memory.operand["main"] # <<>>
      /\ memory' = t /\ stack' = stack /\ returned' = returned
  BY DEF Drop, Idle
<1>2. /\ Sound(memory) /\ returned = Nowhere /\ InFrames(memory, FALSE, 0)
      /\ \A c \in Nat \ {0} : CountOf(memory, c) = 0
  BY <1>1, Between
<1>3. /\ Sound(t) /\ t.cells = memory.cells /\ t.frames = memory.frames
      /\ t.operand["agent"] = memory.operand["agent"]
  <2>1. IsSeq(memory.operand["main"])
    BY <1>2 DEF Sound, Operands, Processors
  <2>2. 1 \in 0 .. Len(memory.operand["main"])
    BY <1>1, <2>1 DEF IsSeq
  <2> QED
    BY <1>2, <2>2, PoppedSound DEF Processors
<1> HIDE DEF t
<1>4. InFrames(t, FALSE, 0)
  BY <1>2, <1>3, SameFrames
<1>5. InFrames(t, Runs(stack), Depth(stack))
  <2>1. ~ Runs(stack) /\ Depth(stack) = 0
    BY <1>1 DEF Runs, Depth
  <2> QED
    BY <1>4, <2>1 DEF InFrames
<1>6. Given(t, stack, returned)
  BY <1>1, <1>2 DEF Given
<1>7. Balanced(t, stack, returned)
  <2>1. \A c : CountOf(t, c) = CountOf(memory, c)
    BY <1>3 DEF CountOf
  <2>2. Balanced(memory, stack, returned)
    BY DEF IInv
  <2> QED
    BY <2>1, <2>2 DEF Balanced
<1>8. Chain(stack)
  BY DEF IInv
<1> QED
  BY <1>1, <1>3, <1>5, <1>6, <1>7, <1>8 DEF IInv

LEMMA StutterKeeps ==
  ASSUME IInv, UNCHANGED vars
  PROVE  IInv'
<1>1. memory' = memory /\ stack' = stack /\ returned' = returned
  BY DEF vars
<1> QED
  BY <1>1 DEF IInv

LEMMA NextInv ==
  ASSUME IInv, [Next]_vars
  PROVE  IInv'
<1>1. CASE Agent
  BY <1>1, BeginInstanceKeeps, EndInstanceKeeps, BeginStringKeeps, EndStringKeeps,
     BeginProtectedKeeps, EndProtectedKeeps, LdargKeeps, CreatesStringKeeps, NewarrayKeeps,
     NewstringKeeps, BaseCtorKeeps, RetKeeps, StfldKeeps, BeginLoadKeeps, EndLoadKeeps,
     RaiseTextKeeps, RaiseCreateKeeps, RaiseHandleKeeps, HandledKeeps
     DEF Agent
<1>2. CASE Unhandled
  BY <1>2, UnhandledKeeps
<1>3. CASE Instruction
  BY <1>3, InstructionKeeps
<1>4. CASE Drop
  BY <1>4, DropKeeps
<1>5. CASE Ended
  BY <1>5, StutterKeeps DEF Ended
<1>6. CASE UNCHANGED vars
  BY <1>6, StutterKeeps
<1> QED
  BY <1>1, <1>2, <1>3, <1>4, <1>5, <1>6 DEF Next

LEMMA Invariant == Spec => []IInv
BY InitInv, NextInv, PTL DEF Spec

LEMMA LiveCurrent ==
  ASSUME NEW ptr, Live(memory, ptr)
  PROVE  Current(ptr)
<1>1. CASE ptr = Null
  BY <1>1 DEF Current
<1>2. CASE \E id \in DOMAIN memory.heap : ptr = Ptr(id)
  <2>1. PICK id \in DOMAIN memory.heap : ptr = [obj |-> id, fresh |-> TRUE]
    BY <1>2 DEF Ptr
  <2>2. ptr.obj \in DOMAIN memory.heap /\ ptr.fresh
    BY <2>1
  <2> QED
    BY <2>2 DEF Current
<1> QED
  BY <1>1, <1>2 DEF Live

LEMMA CurrentInv ==
  ASSUME IInv
  PROVE  PointersCurrent
<1>1. Sound(memory) /\ Given(memory, stack, returned)
  BY DEF IInv
<1>2. ASSUME NEW c \in DOMAIN memory.cells PROVE Current(memory.cells[c].ins)
  <2>1. Live(memory, memory.cells[c].ins)
    BY <1>1 DEF Sound, Cells, IsCell
  <2> QED
    BY <2>1, LiveCurrent
<1>3. ASSUME NEW p \in DOMAIN memory.operand, NEW n \in DOMAIN memory.operand[p]
      PROVE  Current(memory.operand[p][n].ptr)
  <2>1. p \in Processors
    BY <1>1 DEF Sound, Operands
  <2>2. Live(memory, memory.operand[p][n].ptr)
    BY <1>1, <2>1 DEF Sound, Operands, IsItem
  <2> QED
    BY <2>2, LiveCurrent
<1>4. ASSUME NEW at \in Slots(memory) PROVE Current(PointerAt(memory, at))
  <2>1. PICK d \in DOMAIN memory.frames : \E n \in DOMAIN memory.frames[d].slots : at = SlotAt(d, n)
    BY DEF Slots
  <2>2. PICK n \in DOMAIN memory.frames[d].slots : at = SlotAt(d, n)
    BY <2>1
  <2>3. PointerAt(memory, at) = memory.frames[d].slots[n]
    BY <2>2, PointersAt
  <2>4. Live(memory, memory.frames[d].slots[n])
    BY <1>1 DEF Sound, CtorFrames, IsFrame
  <2> QED
    BY <2>3, <2>4, LiveCurrent
<1>5. Current(returned.ptr)
  <2>1. Live(memory, returned.ptr)
    BY <1>1 DEF Given, Raw, Handle, Nowhere, Live
  <2> QED
    BY <2>1, LiveCurrent
<1> QED
  BY <1>2, <1>3, <1>4, <1>5 DEF PointersCurrent

LEMMA BalancedInv ==
  ASSUME IInv
  PROVE  CellsBalanced
<1>1. Sound(memory) /\ Balanced(memory, stack, returned)
  BY DEF IInv
<1>2. ASSUME NEW c \in DOMAIN memory.cells PROVE memory.cells[c].count = Handles(c)
  <2>1. c \in Nat \ {0}
    BY <1>1 DEF Sound, Cells
  <2>2. memory.cells[c].count = Held(c, stack) + One(returned.cell = c)
    BY <1>1, <2>1 DEF Balanced, CountOf
  <2>3. /\ HeldIn(c, [d \in DOMAIN stack |-> stack[d].cells])
             = Cardinality(UNION {{d} \X HandlesTo(c, stack[d].cells) : d \in DOMAIN stack})
        /\ HeldIn(c, [d \in DOMAIN stack |-> stack[d].args])
             = Cardinality(UNION {{d} \X HandlesTo(c, stack[d].args) : d \in DOMAIN stack})
    BY DEF HeldIn
  <2> QED
    BY <2>2, <2>3 DEF Handles, Held, One
<1> DEFINE cellRoots == {r \in memory.roots : r[1] = "cell"}
<1>3. cellRoots = CellRoots(memory)
  <2>1. ASSUME NEW r \in CellRoots(memory) PROVE r \in cellRoots
    <3>1. PICK c \in DOMAIN memory.cells : r = CellAt(c)
      BY DEF CellRoots
    <3>2. r \in memory.roots
      BY <1>1 DEF Sound, Roots
    <3> QED
      BY <3>1, <3>2 DEF CellAt
  <2>2. ASSUME NEW r \in cellRoots PROVE r \in CellRoots(memory)
    <3>1. r[1] = "cell" /\ r \in memory.roots
      OBVIOUS
    <3>2. r \notin Slots(memory)
      <4>1. ASSUME r \in Slots(memory) PROVE FALSE
        <5>1. PICK d \in DOMAIN memory.frames :
                \E n \in DOMAIN memory.frames[d].slots : r = SlotAt(d, n)
          BY <4>1 DEF Slots
        <5> QED
          BY <3>1, <5>1 DEF SlotAt
      <4> QED
        BY <4>1
    <3>3. \A p \in Processors : r \notin OperandRoots(memory, p)
      <4>1. ASSUME NEW p \in Processors, r \in OperandRoots(memory, p) PROVE FALSE
        <5>1. PICK n \in DOMAIN memory.operand[p] : r = OperandAt(p, n)
          BY <4>1 DEF OperandRoots
        <5> QED
          BY <3>1, <5>1 DEF OperandAt, Processors
      <4> QED
        BY <4>1
    <3>4. r \in CellRoots(memory) \cup Slots(memory)
                \cup UNION {OperandRoots(memory, p) : p \in Processors}
      BY <1>1, <3>1 DEF Sound, Roots
    <3> QED
      BY <3>2, <3>3, <3>4
  <2> QED
    BY <2>1, <2>2
<1>4. {at[2] : at \in cellRoots} = DOMAIN memory.cells
  <2>1. \A c : CellAt(c)[2] = c
    BY DEF CellAt
  <2> QED
    BY <1>3, <2>1 DEF CellRoots
<1>5. ASSUME stack = <<>>
      PROVE  /\ DOMAIN memory.cells = {}
             /\ memory.operand["agent"] = <<>> /\ memory.frames = <<>>
             /\ memory.roots = {OperandAt("main", n) : n \in DOMAIN memory.operand["main"]}
  <2>1. /\ InFrames(memory, FALSE, 0) /\ Len(memory.frames) = 0
        /\ \A c \in Nat \ {0} : CountOf(memory, c) = 0
    BY <1>5, Between
  <2>2. DOMAIN memory.cells = {}
    <3>1. ASSUME NEW c \in DOMAIN memory.cells PROVE FALSE
      <4>1. c \in Nat \ {0} /\ CountOf(memory, c) # 0
        BY <1>1, CountThere DEF Sound, Cells
      <4> QED
        BY <2>1, <4>1
    <3> QED
      BY <3>1
  <2>3. memory.frames = <<>>
    <3>1. IsSeq(memory.frames)
      BY <1>1 DEF Sound, CtorFrames
    <3> QED
      BY <2>1, <3>1 DEF IsSeq
  <2>4. memory.operand["agent"] = <<>>
    <3>1. IsSeq(memory.operand["agent"])
      BY <1>1 DEF Sound, Operands, Processors
    <3>2. HeightAt(memory, 1) = 0 /\ HeightAt(memory, 2) = 0
      BY <2>1 DEF HeightAt
    <3>3. Len(memory.operand["agent"]) + 0 = 0 + 0 /\ Len(memory.operand["agent"]) \in Nat
      BY <2>1, <3>1, <3>2, SeqLength DEF InFrames
    <3>4. Len(memory.operand["agent"]) = 0
      BY <3>3
    <3> QED
      BY <3>1, <3>4 DEF IsSeq
  <2>5. memory.roots = OperandRoots(memory, "main")
    <3>1. CellRoots(memory) = {} /\ Slots(memory) = {} /\ OperandRoots(memory, "agent") = {}
      BY <2>2, <2>3, <2>4 DEF CellRoots, Slots, OperandRoots
    <3>2. /\ OperandRoots(memory, "main") \subseteq memory.roots
          /\ memory.roots \subseteq CellRoots(memory) \cup Slots(memory)
                                    \cup UNION {OperandRoots(memory, p) : p \in Processors}
      BY <1>1 DEF Sound, Roots
    <3> QED
      BY <3>1, <3>2 DEF Processors
  <2> QED
    BY <2>2, <2>3, <2>4, <2>5 DEF OperandRoots
<1> QED
  BY <1>2, <1>4, <1>5 DEF CellsBalanced

\* Whatever allocation collects and moves the objects, no pointer the virtual machine
\* goes on with is left behind (GarbageCollector::allocate, ProtectedCell, Stack::pushRoot).
THEOREM PointersStayCurrent == Spec => []PointersCurrent
<1>1. IInv => PointersCurrent
  BY CurrentInv
<1> QED
  BY <1>1, Invariant, PTL

\* Every cell counts the handles to it, and is registered until the last one is gone
\* (ProtectedCell, Agent::createUnprotectedInstance, Value::pushToStack).
THEOREM CellsStayBalanced == Spec => []CellsBalanced
<1>1. IInv => CellsBalanced
  BY BalancedInv
<1> QED
  BY <1>1, Invariant, PTL
=============================================================================
