---------------------------- MODULE DataLemmas ----------------------------
(***************************************************************************)
(* What the proofs of several components use: induction, stated of sets    *)
(* of numbers instead of predicates; sequences, whatever their elements;   *)
(* and the sort of evm/dependencies.h as a relation between the states of  *)
(* its object, for any set of vertices.                                    *)
(***************************************************************************)
EXTENDS Integers, Sequences, FiniteSetTheorems, WellFoundedInduction, TLAPS

\* A set of natural numbers that has zero and the successor of each of its
\* members is the set of all of them.
LEMMA SetInduction ==
  ASSUME NEW S, S \subseteq Nat, 0 \in S, \A n \in S : n + 1 \in S
  PROVE  S = Nat
<1> DEFINE R == {p \in Nat \X Nat : p[1] < p[2]}
<1>1. SUFFICES ASSUME Nat \ S # {} PROVE FALSE
  OBVIOUS
<1>2. IsWellFoundedOn(R, Nat)
  BY NatLessThanWellFounded DEF OpToRel
<1> HIDE DEF R
<1>3. PICK x \in Nat \ S : \A y \in Nat \ S : ~ (<<y, x>> \in R)
  <2>1. \E x \in Nat \ S : \A y \in Nat \ S : ~ (<<y, x>> \in R)
    BY <1>1, <1>2, WFMin
  <2> QED
    BY <2>1
<1>4. x \in Nat /\ x \notin S
  OBVIOUS
<1>5. x # 0 /\ x - 1 \in Nat /\ x - 1 < x
  BY <1>4
<1>6. <<x - 1, x>> \in R
  BY <1>5, <1>4 DEF R
<1>7. x - 1 \in S
  BY <1>3, <1>5, <1>6
<1>8. (x - 1) + 1 = x
  BY <1>4
<1> QED
  BY <1>4, <1>7, <1>8

\* The same up to a bound.
LEMMA BoundedInduction ==
  ASSUME NEW N \in Nat, NEW S, 0 \in S,
         \A n \in 0 .. N - 1 : n \in S => n + 1 \in S
  PROVE  \A n \in 0 .. N : n \in S
<1> DEFINE T == {n \in Nat : n <= N => n \in S}
<1>1. 0 \in T
  OBVIOUS
<1>2. ASSUME NEW n \in T PROVE n + 1 \in T
  BY <1>2
<1> HIDE DEF T
<1>3. T = Nat
  <2>1. T \subseteq Nat
    BY DEF T
  <2> QED
    BY <1>1, <1>2, <2>1, SetInduction
<1> QED
  BY <1>3 DEF T

-----------------------------------------------------------------------------
(***************************************************************************)
(* Sequences of any elements.                                              *)
(***************************************************************************)
SetOf(s) == {s[i] : i \in DOMAIN s}
IsSeq(s) == s \in Seq(SetOf(s))

LEMMA ItsElements ==
  ASSUME NEW S, NEW s \in Seq(S)
  PROVE  IsSeq(s) /\ Len(s) \in Nat /\ DOMAIN s = 1 .. Len(s)
<1>1. /\ s = [n \in 1 .. Len(s) |-> s[n]] /\ Len(s) \in Nat /\ DOMAIN s = 1 .. Len(s)
  OBVIOUS
<1>2. \A n \in 1 .. Len(s) : s[n] \in SetOf(s)
  BY <1>1 DEF SetOf
<1>3. s \in [1 .. Len(s) -> SetOf(s)]
  BY <1>1, <1>2
<1> QED
  BY <1>1, <1>3 DEF IsSeq

LEMMA SeqLength ==
  ASSUME NEW s, IsSeq(s)
  PROVE  Len(s) \in Nat /\ DOMAIN s = 1 .. Len(s)
BY DEF IsSeq

\* A function on 1 .. n is a sequence.
LEMMA FunctionSeq ==
  ASSUME NEW n \in Nat, NEW s, DOMAIN s = 1 .. n, s = [k \in 1 .. n |-> s[k]]
  PROVE  IsSeq(s) /\ Len(s) = n
<1>1. \A k \in 1 .. n : s[k] \in SetOf(s)
  BY DEF SetOf
<1>2. s \in [1 .. n -> SetOf(s)]
  BY <1>1
<1> QED
  BY <1>2 DEF IsSeq

LEMMA AppendSeq ==
  ASSUME NEW s, IsSeq(s), NEW e
  PROVE  /\ IsSeq(Append(s, e)) /\ Len(Append(s, e)) = Len(s) + 1
         /\ DOMAIN Append(s, e) = 1 .. Len(s) + 1
         /\ \A n \in 1 .. Len(s) : Append(s, e)[n] = s[n]
         /\ Append(s, e)[Len(s) + 1] = e
<1> DEFINE S == SetOf(s) \cup {e}
<1>1. s \in Seq(S) /\ e \in S
  BY DEF IsSeq
<1> HIDE DEF S
<1>2. /\ Append(s, e) \in Seq(S) /\ Len(Append(s, e)) = Len(s) + 1
      /\ DOMAIN Append(s, e) = 1 .. Len(s) + 1
      /\ \A n \in 1 .. Len(s) : Append(s, e)[n] = s[n]
      /\ Append(s, e)[Len(s) + 1] = e
  BY <1>1
<1> QED
  BY <1>2, ItsElements

LEMMA FirstSeq ==
  ASSUME NEW s, IsSeq(s), NEW k \in 0 .. Len(s)
  PROVE  /\ IsSeq(SubSeq(s, 1, k)) /\ Len(SubSeq(s, 1, k)) = k
         /\ DOMAIN SubSeq(s, 1, k) = 1 .. k
         /\ \A n \in 1 .. k : SubSeq(s, 1, k)[n] = s[n]
<1>1. s \in Seq(SetOf(s)) /\ Len(s) \in Nat
  BY DEF IsSeq
<1>2. /\ SubSeq(s, 1, k) \in Seq(SetOf(s)) /\ Len(SubSeq(s, 1, k)) = k
      /\ DOMAIN SubSeq(s, 1, k) = 1 .. k
      /\ \A n \in 1 .. k : SubSeq(s, 1, k)[n] = s[n]
  BY <1>1
<1> QED
  BY <1>2, ItsElements

LEMMA JoinSeq ==
  ASSUME NEW s, IsSeq(s), NEW t, IsSeq(t)
  PROVE  /\ IsSeq(s \o t) /\ Len(s \o t) = Len(s) + Len(t)
         /\ DOMAIN (s \o t) = 1 .. Len(s) + Len(t)
         /\ \A n \in 1 .. Len(s) : (s \o t)[n] = s[n]
         /\ \A n \in 1 .. Len(t) : (s \o t)[Len(s) + n] = t[n]
<1> DEFINE S == SetOf(s) \cup SetOf(t)
<1>1. s \in Seq(S) /\ t \in Seq(S)
  BY DEF IsSeq
<1> HIDE DEF S
<1>2. /\ s \o t \in Seq(S) /\ Len(s \o t) = Len(s) + Len(t)
      /\ DOMAIN (s \o t) = 1 .. Len(s) + Len(t)
      /\ \A n \in 1 .. Len(s) : (s \o t)[n] = s[n]
      /\ \A n \in 1 .. Len(t) : (s \o t)[Len(s) + n] = t[n]
  BY <1>1
<1> QED
  BY <1>2, ItsElements

LEMMA OneSeq ==
  ASSUME NEW e
  PROVE  /\ IsSeq(<<e>>) /\ Len(<<e>>) = 1 /\ <<e>>[1] = e /\ DOMAIN <<e>> = 1 .. 1
         /\ IsSeq(<<>>) /\ Len(<<>>) = 0
<1>1. <<e>> \in Seq({e}) /\ Len(<<e>>) = 1 /\ <<e>>[1] = e
  OBVIOUS
<1>2. <<>> \in Seq({e}) /\ Len(<<>>) = 0
  OBVIOUS
<1> QED
  BY <1>1, <1>2, ItsElements

-----------------------------------------------------------------------------
(***************************************************************************)
(* The sort.  TopologicalSort describes its steps by actions on a variable;*)
(* here s is the object before a step and t the object after it.           *)
(***************************************************************************)
Once(s) == \A i, j \in DOMAIN s : s[i] = s[j] => i = j

SortPhases == {"open", "seed", "visit", "solved"}
SortStates(V) ==
  [phase : SortPhases, vexs : SUBSET V, edges : SUBSET (V \X V),
   in_degree : [V -> Nat], visited : SUBSET V,
   q : Seq(V), order : Seq(V), todo : SUBSET V]

EmptySort(V) ==
  [phase |-> "open", vexs |-> {}, edges |-> {}, in_degree |-> [v \in V |-> 0],
   visited |-> {}, q |-> <<>>, order |-> <<>>, todo |-> {}]

VexAdded(s, t, v) == s.phase = "open" /\ t = [s EXCEPT !.vexs = @ \cup {v}]

EdgeAdded(s, t, src, dst) ==
  /\ s.phase = "open"
  /\ t = [s EXCEPT !.vexs = @ \cup {src, dst}, !.edges = @ \cup {<<src, dst>>},
                   !.in_degree[dst] = @ + 1]

SolveBegins(s, t) ==
  /\ s.phase = "open"
  /\ t = [s EXCEPT !.phase = "seed", !.todo = {v \in s.vexs : s.in_degree[v] = 0}]

SeedMoves(s, t, v) ==
  /\ s.phase = "seed" /\ v \in s.todo
  /\ t = [s EXCEPT !.q = Append(@, v), !.todo = @ \ {v}]

HeadTaken(s, t) ==
  /\ s.phase \in {"seed", "visit"} /\ s.todo = {} /\ s.q # <<>>
  /\ t = [s EXCEPT !.phase = "visit", !.order = Append(@, Head(s.q)), !.q = Tail(@),
                   !.todo = {v \in s.vexs : <<Head(s.q), v>> \in s.edges}]

EdgeTaken(s, t, dst) ==
  /\ s.phase = "visit" /\ dst \in s.todo
  /\ IF dst \in s.visited THEN t = [s EXCEPT !.todo = @ \ {dst}]
     ELSE IF s.in_degree[dst] = 1
     THEN t = [s EXCEPT !.todo = @ \ {dst}, !.in_degree[dst] = 0,
                        !.q = Append(@, dst), !.visited = @ \cup {dst}]
     ELSE t = [s EXCEPT !.todo = @ \ {dst}, !.in_degree[dst] = @ - 1]

SolveReturned(s, t) ==
  /\ s.phase \in {"seed", "visit"} /\ s.todo = {} /\ s.q = <<>>
  /\ t = [s EXCEPT !.phase = "solved"]

SortStep(V, s, t) ==
  \/ SolveBegins(s, t)
  \/ \E v \in V : SeedMoves(s, t, v) \/ EdgeTaken(s, t, v)
  \/ HeadTaken(s, t)
  \/ SolveReturned(s, t)

\* The invariant, in the parts TopologicalSortProps explains.
QueueOf(s) == SetOf(s.q)
OrderOf(s) == SetOf(s.order)
SeedsOf(s) == IF s.phase = "seed" THEN s.todo ELSE {}
ReadyOf(s) == QueueOf(s) \cup OrderOf(s) \cup SeedsOf(s)

WaitingOf(s, v) ==
  {u \in s.vexs : /\ <<u, v>> \in s.edges
                  /\ \/ u \notin OrderOf(s)
                     \/ s.phase = "visit" /\ v \in s.todo /\ u = s.order[Len(s.order)]}

SortTyped(V, s) ==
  /\ s \in SortStates(V)
  /\ s.edges \subseteq s.vexs \X s.vexs
  /\ QueueOf(s) \cup OrderOf(s) \cup s.todo \subseteq s.vexs
  /\ s.phase = "visit" => s.order # <<>>

SortOnce(s) == Once(s.order) /\ QueueOf(s) \cap OrderOf(s) = {}

SortOrdered(s) ==
  \A i, j \in DOMAIN s.order : <<s.order[i], s.order[j]>> \in s.edges => i < j

SortDegrees(s) ==
  \A v \in s.vexs :
    /\ s.in_degree[v] >= Cardinality(WaitingOf(s, v))
    /\ s.phase # "open" => (s.in_degree[v] = 0 <=> v \in ReadyOf(s))

SortContainers(s) ==
  /\ Once(s.q)
  /\ QueueOf(s) \cap SeedsOf(s) = {}
  /\ s.visited \subseteq QueueOf(s) \cup OrderOf(s)
  /\ s.phase = "open" => s.q = <<>> /\ s.order = <<>>
  /\ s.phase = "seed" => s.order = <<>>
  /\ s.phase = "visit" => \A v \in s.todo : <<s.order[Len(s.order)], v>> \in s.edges
  /\ s.phase = "solved" => s.q = <<>>

SortInv(V, s) ==
  /\ SortTyped(V, s) /\ IsFiniteSet(s.vexs)
  /\ SortOnce(s) /\ SortOrdered(s) /\ SortDegrees(s) /\ SortContainers(s)

SortAcyclic(s) ==
  \A S \in SUBSET s.vexs : S # {} => \E v \in S : \A u \in S : <<u, v>> \notin s.edges

SortCounted(s) == \A v \in s.vexs : s.in_degree[v] = Cardinality(WaitingOf(s, v))

\* The sources still waited for are finitely many.
LEMMA WaitingFinite ==
  ASSUME NEW s, IsFiniteSet(s.vexs), NEW v
  PROVE  IsFiniteSet(WaitingOf(s, v)) /\ Cardinality(WaitingOf(s, v)) \in Nat
<1>1. WaitingOf(s, v) \in SUBSET s.vexs
  BY DEF WaitingOf
<1>2. IsFiniteSet(WaitingOf(s, v))
  BY <1>1, FS_Subset
<1> QED
  BY <1>2, FS_CardinalityType

\* A set grows by at most one when an element is added, and loses one when
\* one of its elements is taken out.
LEMMA OneElement ==
  ASSUME NEW S, IsFiniteSet(S), NEW x
  PROVE  /\ Cardinality(S) \in Nat
         /\ Cardinality(S \cup {x}) \in Nat
         /\ Cardinality(S \cup {x}) <= Cardinality(S) + 1
         /\ Cardinality(S \ {x}) \in Nat
         /\ x \in S => Cardinality(S) >= 1 /\ Cardinality(S \ {x}) = Cardinality(S) - 1
<1>1. Cardinality(S) \in Nat
  BY FS_CardinalityType
<1>2. /\ IsFiniteSet(S \cup {x})
      /\ Cardinality(S \cup {x}) = IF x \in S THEN Cardinality(S) ELSE Cardinality(S) + 1
  BY FS_AddElement
<1>3. /\ IsFiniteSet(S \ {x})
      /\ Cardinality(S \ {x}) = IF x \in S THEN Cardinality(S) - 1 ELSE Cardinality(S)
  BY FS_RemoveElement
<1>4. Cardinality(S \ {x}) \in Nat
  BY <1>3, FS_CardinalityType
<1> QED
  BY <1>1, <1>2, <1>3, <1>4

\* A vertex in a container of solve has no edge left.
LEMMA ReadyHasNone ==
  ASSUME NEW V, NEW s, SortInv(V, s), s.phase # "open", NEW v \in ReadyOf(s)
  PROVE  WaitingOf(s, v) = {} /\ s.in_degree[v] = 0 /\ v \in s.vexs
<1>1. v \in s.vexs
  BY DEF SortInv, SortTyped, ReadyOf, SeedsOf, SortStates
<1>2. s.in_degree[v] = 0 /\ s.in_degree[v] >= Cardinality(WaitingOf(s, v))
  BY <1>1 DEF SortInv, SortDegrees
<1>3. IsFiniteSet(WaitingOf(s, v)) /\ Cardinality(WaitingOf(s, v)) \in Nat
  BY WaitingFinite DEF SortInv
<1>4. Cardinality(WaitingOf(s, v)) = 0
  BY <1>2, <1>3
<1> QED
  BY <1>1, <1>2, <1>3, <1>4, FS_EmptySet

-----------------------------------------------------------------------------
(***************************************************************************)
(* Building the graph.                                                     *)
(***************************************************************************)

\* While the graph is built the containers of solve are empty, and only the
\* type and the degrees have to be shown.
LEMMA OpenKeeps ==
  ASSUME NEW V, NEW s, s \in SortStates(V), s.phase = "open",
         s.q = <<>>, s.order = <<>>, s.visited = {}, s.todo \subseteq s.vexs,
         IsFiniteSet(s.vexs), s.edges \subseteq s.vexs \X s.vexs,
         \A v \in s.vexs : s.in_degree[v] >= Cardinality(WaitingOf(s, v))
  PROVE  SortInv(V, s)
<1>1. SortTyped(V, s)
  BY DEF SortTyped, QueueOf, OrderOf, SetOf
<1>2. SortOnce(s) /\ SortOrdered(s) /\ SortContainers(s)
  BY DEF SortOnce, SortOrdered, SortContainers, QueueOf, OrderOf, SeedsOf, SetOf, Once
<1>3. SortDegrees(s)
  BY DEF SortDegrees
<1> QED
  BY <1>1, <1>2, <1>3 DEF SortInv

\* The empty graph satisfies the invariant.
LEMMA EmptyKeeps ==
  ASSUME NEW V
  PROVE  SortInv(V, EmptySort(V))
<1> USE DEF EmptySort
<1>1. EmptySort(V) \in SortStates(V)
  BY DEF SortStates, SortPhases
<1>2. IsFiniteSet(EmptySort(V).vexs)
  BY FS_EmptySet
<1> QED
  BY <1>1, <1>2, OpenKeeps

\* Adding a vertex keeps the invariant: it has no edges.
LEMMA AddVexKeeps ==
  ASSUME NEW V, NEW s, NEW t, SortInv(V, s), NEW v \in V, VexAdded(s, t, v)
  PROVE  SortInv(V, t)
<1> USE DEF SortInv, SortTyped, VexAdded, SortStates
<1>1. t \in SortStates(V)
  BY DEF SortStates
<1>2. /\ t.vexs = s.vexs \cup {v} /\ t.edges = s.edges
      /\ t.in_degree = s.in_degree /\ t.phase = "open" /\ s.phase = "open"
      /\ t.q = s.q /\ t.order = s.order
      /\ t.todo = s.todo /\ t.visited = s.visited
  OBVIOUS
<1>3. IsFiniteSet(t.vexs)
  BY <1>2, FS_AddElement
<1>4. ASSUME NEW w \in t.vexs
      PROVE  t.in_degree[w] >= Cardinality(WaitingOf(t, w))
  <2>1. WaitingOf(t, w) = WaitingOf(s, w)
    BY <1>2 DEF WaitingOf, OrderOf, SetOf
  <2>2. CASE w \in s.vexs
    BY <1>2, <2>1, <2>2 DEF SortDegrees
  <2>3. CASE w \notin s.vexs
    <3>1. WaitingOf(s, w) = {}
      BY <2>3 DEF WaitingOf
    <3>2. Cardinality(WaitingOf(t, w)) = 0
      BY <2>1, <3>1, FS_EmptySet
    <3>3. t.in_degree[w] \in Nat
      BY <1>1, <1>2
    <3> HIDE DEF SortInv, SortTyped, SortStates, VexAdded
    <3> QED
      BY <3>2, <3>3
  <2> QED
    BY <2>2, <2>3
<1>5. t.q = <<>> /\ t.order = <<>> /\ t.visited = {} /\ t.todo \subseteq t.vexs
  <2>1. s.q = <<>> /\ s.order = <<>>
    BY <1>2 DEF SortContainers
  <2> QED
    BY <1>2, <2>1 DEF SortContainers, QueueOf, OrderOf, SetOf
<1>6. t.edges \subseteq t.vexs \X t.vexs
  BY <1>2
<1> HIDE DEF SortInv, SortTyped, SortStates
<1> QED
  BY <1>1, <1>2, <1>3, <1>4, <1>5, <1>6, OpenKeeps

\* Adding an edge keeps the invariant: the degree grows with every call, the
\* set of sources with some of them.
LEMMA AddEdgeKeeps ==
  ASSUME NEW V, NEW s, NEW t, SortInv(V, s), NEW src \in V, NEW dst \in V, EdgeAdded(s, t, src, dst)
  PROVE  SortInv(V, t)
<1> USE DEF SortInv, SortTyped, SortStates
<1> DEFINE counted == [s.in_degree EXCEPT ![dst] = s.in_degree[dst] + 1]
<1>0. t = [s EXCEPT !.vexs = s.vexs \cup {src, dst},
                           !.edges = s.edges \cup {<<src, dst>>},
                           !.in_degree = counted]
  BY DEF EdgeAdded
<1>a. counted \in [V -> Nat]
  OBVIOUS
<1>b. /\ s.edges \cup {<<src, dst>>} \in SUBSET (V \X V)
      /\ s.vexs \cup {src, dst} \in SUBSET V
  OBVIOUS
<1> HIDE DEF counted
<1>1. t \in SortStates(V)
  BY <1>0, <1>a, <1>b DEF SortStates
<1>2. /\ t.vexs = s.vexs \cup {src, dst}
      /\ t.edges = s.edges \cup {<<src, dst>>}
      /\ t.in_degree = counted
      /\ t.phase = "open" /\ s.phase = "open"
      /\ t.q = s.q /\ t.order = s.order
      /\ t.todo = s.todo /\ t.visited = s.visited
  BY <1>0 DEF EdgeAdded
<1>3. IsFiniteSet(t.vexs)
  <2>1. IsFiniteSet(s.vexs \cup {src})
    BY FS_AddElement
  <2>2. IsFiniteSet((s.vexs \cup {src}) \cup {dst})
    BY <2>1, FS_AddElement
  <2> QED
    BY <1>2, <2>2
<1>4. ASSUME NEW w \in t.vexs
      PROVE  t.in_degree[w] >= Cardinality(WaitingOf(t, w))
  <2>1. IsFiniteSet(WaitingOf(s, w)) /\ Cardinality(WaitingOf(s, w)) \in Nat
    BY WaitingFinite
  <2>2. s.in_degree[w] >= Cardinality(WaitingOf(s, w)) /\ s.in_degree[w] \in Nat
    <3>1. CASE w \in s.vexs
      BY <3>1 DEF SortDegrees
    <3>2. CASE w \notin s.vexs
      <4>1. WaitingOf(s, w) = {}
        BY <3>2 DEF WaitingOf
      <4> QED
        BY <1>2, <4>1, FS_EmptySet
    <3> QED
      BY <3>1, <3>2
  <2>3. CASE w = dst
    <3>1. WaitingOf(t, w) = WaitingOf(s, w) \cup {src}
      <4>1. s.order = <<>>
        BY <1>2 DEF SortContainers, Once
      <4>2. \A u : <<u, w>> \in t.edges <=> (<<u, w>> \in s.edges \/ u = src)
        BY <1>2, <2>3
      <4>3. WaitingOf(s, w) = {u \in s.vexs : <<u, w>> \in s.edges}
        BY <1>2, <4>1 DEF WaitingOf, OrderOf, SetOf
      <4>4. WaitingOf(t, w) = {u \in t.vexs : <<u, w>> \in t.edges}
        BY <1>2, <4>1 DEF WaitingOf, OrderOf, SetOf
      <4>5. \A u : <<u, w>> \in s.edges => u \in s.vexs
        OBVIOUS
      <4>6. \A u : u \in WaitingOf(t, w) <=> u \in WaitingOf(s, w) \cup {src}
        BY <1>2, <4>2, <4>3, <4>4, <4>5
      <4> QED
        BY <4>6, Zenon
    <3>2. Cardinality(WaitingOf(t, w)) <= Cardinality(WaitingOf(s, w)) + 1
      BY <2>1, <3>1, OneElement
    <3>3. Cardinality(WaitingOf(t, w)) \in Nat
      BY <2>1, <3>1, OneElement
    <3> QED
      BY <1>2, <2>1, <2>2, <2>3, <3>2, <3>3 DEF counted
  <2>4. CASE w # dst
    <3>1. WaitingOf(t, w) = WaitingOf(s, w)
      BY <1>2, <2>4 DEF WaitingOf, OrderOf, SetOf
    <3> QED
      BY <1>2, <2>2, <2>4, <3>1 DEF counted
  <2> QED
    BY <2>3, <2>4
<1>5. t.q = <<>> /\ t.order = <<>> /\ t.visited = {} /\ t.todo \subseteq t.vexs
  <2>1. s.q = <<>> /\ s.order = <<>>
    BY <1>2 DEF SortContainers
  <2> QED
    BY <1>2, <2>1 DEF SortContainers, QueueOf, OrderOf, SetOf
<1>6. t.edges \subseteq t.vexs \X t.vexs
  BY <1>2
<1> HIDE DEF SortInv, SortTyped, SortStates
<1> QED
  BY <1>1, <1>2, <1>3, <1>4, <1>5, <1>6, OpenKeeps
-----------------------------------------------------------------------------
(***************************************************************************)
(* The containers of solve are sequences without repetition.               *)
(***************************************************************************)
\* Appending a new element keeps a sequence without repetition.
LEMMA AppendOnce ==
  ASSUME NEW V, NEW s \in Seq(V), NEW x \in V
  PROVE  /\ Append(s, x) \in Seq(V) /\ Append(s, x) # <<>>
         /\ SetOf(Append(s, x)) = SetOf(s) \cup {x}
         /\ Once(s) /\ x \notin SetOf(s) => Once(Append(s, x))
         /\ Len(Append(s, x)) = Len(s) + 1
         /\ Append(s, x)[Len(s) + 1] = x
         /\ \A i \in DOMAIN s : Append(s, x)[i] = s[i]
         /\ DOMAIN Append(s, x) = DOMAIN s \cup {Len(s) + 1}
<1> DEFINE t == Append(s, x)
<1>1. /\ t \in Seq(V) /\ Len(t) = Len(s) + 1 /\ t[Len(s) + 1] = x
      /\ \A i \in 1..Len(s) : t[i] = s[i]
  OBVIOUS
<1>2. DOMAIN t = 1..Len(t) /\ DOMAIN s = 1..Len(s) /\ Len(s) \in Nat
  BY <1>1
<1> HIDE DEF t
<1>3. DOMAIN t = DOMAIN s \cup {Len(s) + 1}
  BY <1>1, <1>2
<1>4. \A i \in DOMAIN s : t[i] = s[i]
  BY <1>1, <1>2
<1>5. SetOf(t) = SetOf(s) \cup {x}
  <2>1. \A e : e \in SetOf(t) <=> (e \in SetOf(s) \/ e = x)
    BY <1>1, <1>3, <1>4 DEF SetOf
  <2> QED
    BY <2>1
<1>6. Once(s) /\ x \notin SetOf(s) => Once(t)
  BY <1>1, <1>3, <1>4 DEF Once, SetOf
<1>7. t # <<>>
  BY <1>1, <1>2
<1> QED
  BY <1>1, <1>3, <1>4, <1>5, <1>6, <1>7 DEF t

\* Taking the head of a sequence without repetition takes it out of its set.
LEMMA TailOnce ==
  ASSUME NEW V, NEW s \in Seq(V), s # <<>>, Once(s)
  PROVE  /\ Tail(s) \in Seq(V) /\ Head(s) \in SetOf(s) /\ Head(s) \in V
         /\ SetOf(Tail(s)) = SetOf(s) \ {Head(s)}
         /\ Once(Tail(s))
<1> DEFINE t == Tail(s)
<1>1. /\ t \in Seq(V) /\ Len(t) = Len(s) - 1 /\ Head(s) = s[1]
      /\ Len(s) \in Nat /\ Len(s) >= 1
      /\ \A i \in 1..Len(t) : t[i] = s[i + 1]
  OBVIOUS
<1>2. DOMAIN t = 1..(Len(s) - 1) /\ DOMAIN s = 1..Len(s)
  BY <1>1
<1> HIDE DEF t
<1>3. Head(s) \in SetOf(s) /\ Head(s) \in V
  BY <1>1, <1>2 DEF SetOf
<1>4. \A i \in DOMAIN t : i + 1 \in DOMAIN s /\ t[i] = s[i + 1]
  BY <1>1, <1>2
<1>5. \A i \in DOMAIN s : i # 1 => i - 1 \in DOMAIN t /\ t[i - 1] = s[i]
  BY <1>1, <1>2
<1>6. SetOf(t) = SetOf(s) \ {Head(s)}
  <2>1. ASSUME NEW e \in SetOf(t) PROVE e \in SetOf(s) /\ e # s[1]
    <3>1. PICK i \in DOMAIN t : e = t[i]
      BY <2>1 DEF SetOf
    <3>2. i + 1 \in DOMAIN s /\ e = s[i + 1] /\ i + 1 # 1 /\ 1 \in DOMAIN s
      BY <1>1, <1>2, <1>4, <3>1
    <3> QED
      BY <3>2 DEF SetOf, Once
  <2>2. ASSUME NEW e \in SetOf(s), e # s[1] PROVE e \in SetOf(t)
    <3>1. PICK i \in DOMAIN s : e = s[i]
      BY <2>2 DEF SetOf
    <3> QED
      BY <1>5, <2>2, <3>1 DEF SetOf
  <2> QED
    BY <1>1, <2>1, <2>2
<1>7. Once(t)
  <2> SUFFICES ASSUME NEW i \in DOMAIN t, NEW j \in DOMAIN t, t[i] = t[j]
               PROVE  i = j
    BY DEF Once
  <2>1. i + 1 = j + 1
    BY <1>4 DEF Once
  <2> QED
    BY <1>1, <1>2, <2>1
<1> QED
  BY <1>1, <1>3, <1>6, <1>7 DEF t
-----------------------------------------------------------------------------
(***************************************************************************)
(* The steps of solve.                                                     *)
(***************************************************************************)

\* solve begins: the vertices without incoming edge become the seeds.
LEMMA SolveKeeps ==
  ASSUME NEW V, NEW s, NEW t, SortInv(V, s), SolveBegins(s, t)
  PROVE  SortInv(V, t) /\ (SortCounted(s) => SortCounted(t))
<1> USE DEF SortInv, SortTyped, SortStates
<1> DEFINE seeds == {v \in s.vexs : s.in_degree[v] = 0}
<1>0. /\ s.phase = "open"
      /\ t = [s EXCEPT !.phase = "seed", !.todo = seeds]
  BY DEF SolveBegins
<1>1. seeds \in SUBSET V /\ seeds \subseteq s.vexs
  OBVIOUS
<1> HIDE DEF seeds
<1>2. t \in SortStates(V)
  BY <1>0, <1>1 DEF SortStates, SortPhases
<1>3. /\ t.phase = "seed" /\ t.todo = seeds
      /\ t.vexs = s.vexs /\ t.edges = s.edges
      /\ t.in_degree = s.in_degree /\ t.visited = s.visited
      /\ t.q = <<>> /\ t.order = <<>>
      /\ s.q = <<>> /\ s.order = <<>>
  BY <1>0 DEF SortContainers, Once
<1>4. QueueOf(t) = {} /\ OrderOf(t) = {} /\ QueueOf(s) = {} /\ OrderOf(s) = {} /\ SeedsOf(t) = seeds
  BY <1>3 DEF QueueOf, OrderOf, SeedsOf, SetOf
<1>5. SortTyped(V, t)
  BY <1>1, <1>2, <1>3, <1>4 DEF SortStates
<1>6. SortOnce(t) /\ SortOrdered(t)
  BY <1>3, <1>4 DEF SortOnce, SortOrdered, Once
<1>7. SortContainers(t)
  BY <1>3, <1>4 DEF SortContainers, Once
<1>8. \A v : WaitingOf(t, v) = WaitingOf(s, v)
  BY <1>0, <1>3, <1>4 DEF WaitingOf
<1>9. SortDegrees(t)
  <2>1. ReadyOf(t) = seeds
    BY <1>4 DEF ReadyOf
  <2> QED
    BY <1>3, <1>8, <2>1 DEF SortDegrees, seeds
<1>20. SortCounted(s) => SortCounted(t)
  BY <1>3, <1>8 DEF SortCounted
<1> QED
  BY <1>3, <1>5, <1>6, <1>7, <1>9, <1>20

\* A seed moves to the queue.
LEMMA SeedKeeps ==
  ASSUME NEW V, NEW s, NEW t, SortInv(V, s), NEW v \in V, SeedMoves(s, t, v)
  PROVE  SortInv(V, t) /\ (SortCounted(s) => SortCounted(t))
<1> USE DEF SortInv, SortTyped, SortStates
<1>0. /\ s.phase = "seed" /\ v \in s.todo
      /\ t = [s EXCEPT !.q = Append(s.q, v), !.todo = s.todo \ {v}]
  BY DEF SeedMoves
<1>1. /\ Append(s.q, v) \in Seq(V)
      /\ SetOf(Append(s.q, v)) = SetOf(s.q) \cup {v}
      /\ Once(s.q) /\ v \notin SetOf(s.q) => Once(Append(s.q, v))
  BY AppendOnce
<1>2. t \in SortStates(V)
  BY <1>0, <1>1 DEF SortStates, SortPhases
<1>3. /\ t.phase = "seed" /\ t.todo = s.todo \ {v}
      /\ t.vexs = s.vexs /\ t.edges = s.edges
      /\ t.in_degree = s.in_degree /\ t.visited = s.visited
      /\ t.q = Append(s.q, v) /\ t.order = <<>> /\ s.order = <<>>
  BY <1>0 DEF SortContainers, Once
<1>4. /\ QueueOf(t) = QueueOf(s) \cup {v} /\ OrderOf(t) = {} /\ OrderOf(s) = {}
      /\ SeedsOf(t) = SeedsOf(s) \ {v} /\ v \in SeedsOf(s)
      /\ QueueOf(s) = SetOf(s.q) /\ QueueOf(t) = SetOf(t.q)
  <2>1. QueueOf(s) = SetOf(s.q) /\ QueueOf(t) = SetOf(t.q)
    BY DEF QueueOf, SetOf
  <2>2. OrderOf(t) = {} /\ OrderOf(s) = {}
    BY <1>3 DEF OrderOf, SetOf
  <2> QED
    BY <1>0, <1>1, <1>3, <2>1, <2>2 DEF SeedsOf
<1>5. SortTyped(V, t)
  BY <1>0, <1>2, <1>3, <1>4 DEF SortStates
<1>6. SortOnce(t) /\ SortOrdered(t)
  BY <1>3, <1>4 DEF SortOnce, SortOrdered, Once
<1>7. SortContainers(t)
  <2>1. Once(t.q)
    BY <1>1, <1>3, <1>4 DEF SortContainers, Once
  <2> QED
    BY <1>3, <1>4, <2>1 DEF SortContainers, Once
<1>8. \A w : WaitingOf(t, w) = WaitingOf(s, w)
  BY <1>0, <1>3, <1>4 DEF WaitingOf
<1>9. SortDegrees(t)
  <2>1. ReadyOf(t) = ReadyOf(s)
    BY <1>4 DEF ReadyOf
  <2> QED
    BY <1>0, <1>3, <1>8, <2>1 DEF SortDegrees
<1>20. SortCounted(s) => SortCounted(t)
  BY <1>3, <1>8 DEF SortCounted
<1> QED
  BY <1>3, <1>5, <1>6, <1>7, <1>9, <1>20

\* The head of the queue moves to order; none of its sources is waited for,
\* so they are in order before it, and it has no edge into order.
LEMMA TakeKeeps ==
  ASSUME NEW V, NEW s, NEW t, SortInv(V, s), HeadTaken(s, t)
  PROVE  SortInv(V, t) /\ (SortCounted(s) => SortCounted(t))
<1> USE DEF SortInv, SortTyped, SortStates
<1> DEFINE x == Head(s.q)
           dsts == {v \in s.vexs : <<x, v>> \in s.edges}
           n == Len(s.order)
<1>0. /\ s.phase \in {"seed", "visit"} /\ s.todo = {} /\ s.q # <<>>
      /\ t = [s EXCEPT !.phase = "visit", !.order = Append(s.order, x),
                              !.q = Tail(s.q), !.todo = dsts]
  BY DEF HeadTaken
<1>1. /\ Tail(s.q) \in Seq(V) /\ x \in SetOf(s.q) /\ x \in V
      /\ SetOf(Tail(s.q)) = SetOf(s.q) \ {x} /\ Once(Tail(s.q))
  <2>1. Once(s.q)
    BY DEF SortContainers, Once
  <2> QED
    BY <1>0, <2>1, TailOnce
<1>2. /\ dsts \in SUBSET V /\ dsts \subseteq s.vexs
      /\ \A v \in dsts : <<x, v>> \in s.edges
      /\ \A v \in s.vexs : <<x, v>> \in s.edges => v \in dsts
  OBVIOUS
<1> HIDE DEF x, dsts
<1>3. /\ Append(s.order, x) \in Seq(V) /\ Append(s.order, x) # <<>>
      /\ SetOf(Append(s.order, x)) = SetOf(s.order) \cup {x}
      /\ Once(s.order) /\ x \notin SetOf(s.order) => Once(Append(s.order, x))
      /\ Len(Append(s.order, x)) = n + 1
      /\ Append(s.order, x)[n + 1] = x
      /\ \A i \in DOMAIN s.order : Append(s.order, x)[i] = s.order[i]
      /\ DOMAIN Append(s.order, x) = DOMAIN s.order \cup {n + 1}
  BY <1>1, AppendOnce
<1>4. t \in SortStates(V)
  BY <1>0, <1>1, <1>2, <1>3 DEF SortStates, SortPhases
<1>5. /\ t.phase = "visit" /\ t.todo = dsts
      /\ t.vexs = s.vexs /\ t.edges = s.edges
      /\ t.in_degree = s.in_degree /\ t.visited = s.visited
      /\ t.q = Tail(s.q) /\ t.order = Append(s.order, x)
  BY <1>0
<1>6. /\ QueueOf(t) = QueueOf(s) \ {x} /\ OrderOf(t) = OrderOf(s) \cup {x} /\ x \in QueueOf(s)
      /\ QueueOf(s) = SetOf(s.q) /\ OrderOf(s) = SetOf(s.order)
      /\ SeedsOf(s) = {} /\ SeedsOf(t) = {}
  <2>1. /\ QueueOf(s) = SetOf(s.q) /\ QueueOf(t) = SetOf(t.q)
        /\ OrderOf(s) = SetOf(s.order) /\ OrderOf(t) = SetOf(t.order)
    BY DEF QueueOf, OrderOf, SetOf
  <2>2. SeedsOf(s) = {} /\ SeedsOf(t) = {}
    BY <1>0, <1>5 DEF SeedsOf
  <2> QED
    BY <1>1, <1>3, <1>5, <2>1, <2>2
<1>7. x \notin OrderOf(s) /\ x \in s.vexs /\ x \in ReadyOf(s)
  BY <1>6 DEF SortOnce, ReadyOf, Once
<1>8. SortTyped(V, t)
  BY <1>2, <1>3, <1>4, <1>5, <1>6, <1>7 DEF SortStates
<1>9. SortOnce(t)
  <2>1. Once(s.order)
    BY DEF SortOnce, Once
  <2>2. Once(t.order)
    BY <1>3, <1>5, <1>6, <1>7, <2>1
  <2>3. QueueOf(t) \cap OrderOf(t) = {}
    BY <1>6 DEF SortOnce, Once
  <2> QED
    BY <2>2, <2>3 DEF SortOnce, Once
<1>10. \A v \in ReadyOf(s) : <<x, v>> \notin s.edges
  <2> SUFFICES ASSUME NEW v \in ReadyOf(s), <<x, v>> \in s.edges PROVE FALSE
    OBVIOUS
  <2>1. WaitingOf(s, v) = {}
    BY <1>0, ReadyHasNone
  <2> QED
    BY <1>7, <2>1 DEF WaitingOf
<1>11. SortOrdered(t)
  <2> SUFFICES ASSUME NEW i \in DOMAIN t.order, NEW j \in DOMAIN t.order,
                      <<t.order[i], t.order[j]>> \in t.edges
               PROVE  i < j
    BY DEF SortOrdered
  <2>1. n \in Nat /\ DOMAIN s.order = 1..n
    OBVIOUS
  <2>2. CASE i = n + 1
    <3>1. t.order[j] \in OrderOf(s) \cup {x}
      BY <1>3, <1>5, <1>6 DEF SetOf
    <3>2. t.order[j] \in ReadyOf(s)
      BY <1>7, <3>1 DEF ReadyOf
    <3> QED
      BY <1>3, <1>5, <1>10, <2>2, <3>2
  <2>3. CASE i # n + 1 /\ j = n + 1
    BY <1>3, <1>5, <2>1, <2>3
  <2>4. CASE i # n + 1 /\ j # n + 1
    <3>1. i \in DOMAIN s.order /\ j \in DOMAIN s.order
      BY <1>3, <1>5, <2>4
    <3> QED
      BY <1>3, <1>5, <3>1 DEF SortOrdered
  <2> QED
    BY <2>2, <2>3, <2>4
<1>12. SortContainers(t)
  BY <1>1, <1>2, <1>3, <1>5, <1>6 DEF SortContainers, Once
<1>13. \A v : WaitingOf(t, v) = WaitingOf(s, v)
  <2> TAKE v
  <2>1. \A u : u \in WaitingOf(s, v) <=> (u \in s.vexs /\ <<u, v>> \in s.edges /\ u \notin OrderOf(s))
    BY <1>0 DEF WaitingOf
  <2>2. \A u : u \in WaitingOf(t, v) <=>
          (u \in s.vexs /\ <<u, v>> \in s.edges /\ (u \notin OrderOf(s) \cup {x} \/ (v \in dsts /\ u = x)))
    BY <1>3, <1>5, <1>6 DEF WaitingOf
  <2>3. <<x, v>> \in s.edges => v \in dsts
    BY <1>2
  <2>4. \A u : u \in WaitingOf(t, v) <=> u \in WaitingOf(s, v)
    BY <1>7, <2>1, <2>2, <2>3
  <2> QED
    BY <2>4, Zenon
<1>14. SortDegrees(t)
  <2>1. ReadyOf(t) = ReadyOf(s)
    BY <1>6 DEF ReadyOf
  <2> QED
    BY <1>0, <1>5, <1>13, <2>1 DEF SortDegrees
<1>20. SortCounted(s) => SortCounted(t)
  BY <1>5, <1>13 DEF SortCounted
<1> QED
  BY <1>5, <1>8, <1>9, <1>11, <1>12, <1>14, <1>20

\* A destination that is still to be visited waits for the vertex just taken:
\* it is in no container, and the visited flag never stops an edge.
LEMMA VisitWaits ==
  ASSUME NEW V, NEW s, SortInv(V, s), NEW dst \in V, s.phase = "visit", dst \in s.todo
  PROVE  LET last == s.order[Len(s.order)]
         IN  /\ last \in WaitingOf(s, dst) /\ last \in OrderOf(s) /\ dst \in s.vexs
             /\ dst \notin ReadyOf(s) /\ dst \notin s.visited
             /\ s.in_degree[dst] \in Nat /\ s.in_degree[dst] >= 1
             /\ s.in_degree[dst] >= Cardinality(WaitingOf(s, dst))
<1> USE DEF SortInv, SortTyped, SortStates
<1> DEFINE last == s.order[Len(s.order)]
<1>1. Len(s.order) \in DOMAIN s.order
  OBVIOUS
<1>2. last \in OrderOf(s)
  BY <1>1 DEF OrderOf, SetOf
<1>3. <<last, dst>> \in s.edges
  BY DEF SortContainers, Once
<1>4. last \in WaitingOf(s, dst) /\ dst \in s.vexs
  BY <1>2, <1>3 DEF WaitingOf
<1>5. dst \notin ReadyOf(s)
  BY <1>4, ReadyHasNone
<1>6. dst \notin s.visited
  BY <1>5 DEF SortContainers, ReadyOf, Once
<1>7. s.in_degree[dst] \in Nat /\ s.in_degree[dst] >= Cardinality(WaitingOf(s, dst))
  BY <1>4 DEF SortDegrees
<1>8. s.in_degree[dst] # 0
  BY <1>4, <1>5 DEF SortDegrees
<1> QED
  BY <1>2, <1>4, <1>5, <1>6, <1>7, <1>8

\* An edge into dst is taken out: one source less is waited for, and dst goes
\* to the queue when it was the last one.
LEMMA VisitKeeps ==
  ASSUME NEW V, NEW s, NEW t, SortInv(V, s), NEW dst \in V, EdgeTaken(s, t, dst)
  PROVE  SortInv(V, t) /\ (SortCounted(s) => SortCounted(t))
<1> USE DEF SortInv, SortTyped, SortStates
<1> DEFINE last == s.order[Len(s.order)]
           d == s.in_degree[dst]
           less == [s.in_degree EXCEPT ![dst] = d - 1]
           rest == s.todo \ {dst}
<1>0. s.phase = "visit" /\ dst \in s.todo
  BY DEF EdgeTaken
<1>1. /\ last \in WaitingOf(s, dst) /\ last \in OrderOf(s) /\ dst \in s.vexs
      /\ dst \notin ReadyOf(s) /\ dst \notin s.visited
      /\ d \in Nat /\ d >= 1 /\ d >= Cardinality(WaitingOf(s, dst))
  BY <1>0, VisitWaits
<1>2. /\ less \in [V -> Nat] /\ less[dst] = d - 1
      /\ \A v \in V : v # dst => less[v] = s.in_degree[v]
  BY <1>1
<1>3. /\ d = 1 => t = [s EXCEPT !.todo = rest, !.in_degree = less,
                                       !.q = Append(s.q, dst),
                                       !.visited = s.visited \cup {dst}]
      /\ d # 1 => t = [s EXCEPT !.todo = rest, !.in_degree = less]
  <2>1. CASE d = 1
    <3>1. less = [s.in_degree EXCEPT ![dst] = 0]
      BY <2>1
    <3> QED
      BY <1>1, <2>1, <3>1 DEF EdgeTaken
  <2>2. CASE d # 1
    BY <1>1, <2>2 DEF EdgeTaken
  <2> QED
    BY <2>1, <2>2
<1>4. /\ Append(s.q, dst) \in Seq(V)
      /\ SetOf(Append(s.q, dst)) = SetOf(s.q) \cup {dst}
      /\ Once(s.q) /\ dst \notin SetOf(s.q) => Once(Append(s.q, dst))
  BY AppendOnce
<1>5. rest \in SUBSET V /\ rest \subseteq s.todo
  OBVIOUS
<1> HIDE DEF less, rest
<1>6. t \in SortStates(V)
  <2>1. CASE d = 1
    <3>1. s.visited \cup {dst} \in SUBSET V
      OBVIOUS
    <3> QED
      BY <1>2, <1>3, <1>4, <1>5, <2>1, <3>1 DEF SortStates
  <2>2. CASE d # 1
    BY <1>2, <1>3, <1>5, <2>2 DEF SortStates
  <2> QED
    BY <2>1, <2>2
<1>7. /\ t.phase = "visit" /\ t.todo = rest
      /\ t.vexs = s.vexs /\ t.edges = s.edges
      /\ t.in_degree = less /\ t.order = s.order
  BY <1>0, <1>3
<1>8. /\ d = 1 => t.q = Append(s.q, dst) /\ t.visited = s.visited \cup {dst}
      /\ d # 1 => t.q = s.q /\ t.visited = s.visited
  BY <1>3
<1>9. /\ QueueOf(s) = SetOf(s.q) /\ QueueOf(t) = SetOf(t.q)
      /\ OrderOf(t) = OrderOf(s) /\ SeedsOf(s) = {} /\ SeedsOf(t) = {}
  BY <1>0, <1>7 DEF QueueOf, OrderOf, SeedsOf, SetOf
<1>10. /\ d = 1 => QueueOf(t) = QueueOf(s) \cup {dst} /\ ReadyOf(t) = ReadyOf(s) \cup {dst}
       /\ d # 1 => QueueOf(t) = QueueOf(s) /\ ReadyOf(t) = ReadyOf(s)
  <2> HIDE DEF SortInv, SortTyped, SortStates
  <2> QED
    BY <1>4, <1>8, <1>9 DEF ReadyOf
<1>11. Once(t.q)
  <2>1. Once(s.q)
    BY DEF SortContainers, Once
  <2>2. dst \notin SetOf(s.q)
    BY <1>1, <1>9 DEF ReadyOf
  <2> QED
    BY <1>4, <1>8, <2>1, <2>2
<1>12. SortTyped(V, t)
  <2>1. QueueOf(t) \cup OrderOf(t) \cup t.todo \subseteq t.vexs
    BY <1>1, <1>5, <1>7, <1>9, <1>10
  <2>2. t.edges \subseteq t.vexs \X t.vexs /\ t.order # <<>>
    BY <1>0, <1>7
  <2> QED
    BY <1>6, <2>1, <2>2 DEF SortStates
<1>13. SortOnce(t)
  BY <1>1, <1>7, <1>9, <1>10 DEF SortOnce, ReadyOf, Once
<1>14. SortOrdered(t)
  BY <1>7 DEF SortOrdered
<1>15. SortContainers(t)
  <2>1. t.visited \subseteq QueueOf(t) \cup OrderOf(t)
    BY <1>8, <1>9, <1>10 DEF SortContainers, Once
  <2>2. \A v \in t.todo : <<t.order[Len(t.order)], v>> \in t.edges
    BY <1>0, <1>5, <1>7 DEF SortContainers, Once
  <2> QED
    BY <1>7, <1>9, <1>11, <2>1, <2>2 DEF SortContainers, Once
<1>16. \A v : v # dst => WaitingOf(t, v) = WaitingOf(s, v)
  <2> SUFFICES ASSUME NEW v, v # dst PROVE WaitingOf(t, v) = WaitingOf(s, v)
    OBVIOUS
  <2>1. v \in rest <=> v \in s.todo
    BY DEF rest
  <2> QED
    BY <1>0, <1>7, <1>9, <2>1 DEF WaitingOf
<1>17. WaitingOf(t, dst) = WaitingOf(s, dst) \ {last}
  <2>1. dst \notin t.todo
    BY <1>7 DEF rest
  <2>2. \A u : u \in WaitingOf(t, dst) <=>
          (u \in s.vexs /\ <<u, dst>> \in s.edges /\ u \notin OrderOf(s))
    BY <1>7, <1>9, <2>1 DEF WaitingOf
  <2>3. \A u : u \in WaitingOf(s, dst) <=>
          (u \in s.vexs /\ <<u, dst>> \in s.edges /\ (u \notin OrderOf(s) \/ u = last))
    BY <1>0 DEF WaitingOf
  <2>4. \A u : u \in WaitingOf(t, dst) <=> u \in WaitingOf(s, dst) \ {last}
    BY <1>1, <2>2, <2>3
  <2> QED
    BY <2>4, Zenon
<1>18. ASSUME NEW v \in s.vexs
       PROVE  /\ less[v] >= Cardinality(WaitingOf(t, v))
              /\ less[v] = 0 <=> v \in ReadyOf(t)
  <2>1. CASE v # dst
    <3>1. /\ s.in_degree[v] >= Cardinality(WaitingOf(s, v))
          /\ s.in_degree[v] = 0 <=> v \in ReadyOf(s)
      BY <1>0 DEF SortDegrees
    <3> QED
      BY <1>2, <1>10, <1>16, <2>1, <3>1
  <2>2. CASE v = dst
    <3>1. IsFiniteSet(WaitingOf(s, dst))
      BY WaitingFinite
    <3>2. /\ Cardinality(WaitingOf(s, dst) \ {last}) = Cardinality(WaitingOf(s, dst)) - 1
          /\ Cardinality(WaitingOf(s, dst)) \in Nat
      BY <1>1, <3>1, OneElement
    <3>3. less[dst] >= Cardinality(WaitingOf(t, dst))
      BY <1>1, <1>2, <1>17, <3>2
    <3>4. less[dst] = 0 <=> dst \in ReadyOf(t)
      BY <1>1, <1>2, <1>10
    <3> QED
      BY <2>2, <3>3, <3>4
  <2> QED
    BY <2>1, <2>2
<1>19. SortDegrees(t)
  BY <1>7, <1>18 DEF SortDegrees
<1>20. SortCounted(s) => SortCounted(t)
  <2> SUFFICES ASSUME SortCounted(s), NEW v \in s.vexs
               PROVE  less[v] = Cardinality(WaitingOf(t, v))
    BY <1>7 DEF SortCounted
  <2>1. CASE v # dst
    BY <1>2, <1>16, <2>1 DEF SortCounted
  <2>2. CASE v = dst
    <3>1. IsFiniteSet(WaitingOf(s, dst))
      BY WaitingFinite
    <3>2. Cardinality(WaitingOf(t, dst)) = Cardinality(WaitingOf(s, dst)) - 1
      BY <1>1, <1>17, <3>1, OneElement
    <3>3. d = Cardinality(WaitingOf(s, dst))
      BY <1>1 DEF SortCounted
    <3> QED
      BY <1>2, <2>2, <3>2, <3>3
  <2> QED
    BY <2>1, <2>2
<1> QED
  BY <1>7, <1>12, <1>13, <1>14, <1>15, <1>19, <1>20

\* solve returns.
LEMMA ReturnKeeps ==
  ASSUME NEW V, NEW s, NEW t, SortInv(V, s), SolveReturned(s, t)
  PROVE  SortInv(V, t) /\ (SortCounted(s) => SortCounted(t))
<1> USE DEF SortInv, SortTyped, SortStates
<1>0. /\ s.phase \in {"seed", "visit"} /\ s.todo = {} /\ s.q = <<>>
      /\ t = [s EXCEPT !.phase = "solved"]
  BY DEF SolveReturned
<1>1. /\ t \in SortStates(V) /\ t.phase = "solved" /\ t.todo = {}
      /\ t.vexs = s.vexs /\ t.edges = s.edges
      /\ t.in_degree = s.in_degree /\ t.visited = s.visited
      /\ t.q = s.q /\ t.order = s.order
  BY <1>0 DEF SortStates, SortPhases
<1>2. QueueOf(t) = QueueOf(s) /\ OrderOf(t) = OrderOf(s) /\ SeedsOf(s) = {} /\ SeedsOf(t) = {}
  BY <1>0, <1>1 DEF QueueOf, OrderOf, SeedsOf, SetOf
<1>3. SortTyped(V, t)
  BY <1>1, <1>2 DEF SortStates
<1>4. SortOnce(t) /\ SortOrdered(t) /\ SortContainers(t)
  BY <1>0, <1>1, <1>2 DEF SortOnce, SortOrdered, SortContainers, Once
<1>5. \A v : WaitingOf(t, v) = WaitingOf(s, v)
  BY <1>0, <1>1, <1>2 DEF WaitingOf
<1>6. SortDegrees(t)
  BY <1>0, <1>1, <1>2, <1>5 DEF SortDegrees, ReadyOf
<1>20. SortCounted(s) => SortCounted(t)
  BY <1>1, <1>5 DEF SortCounted
<1> QED
  BY <1>1, <1>3, <1>4, <1>6, <1>20

\* solve leaves the graph alone.
LEMMA SameGraphOfSteps ==
  ASSUME NEW V, NEW s, NEW t, SortInv(V, s), SortStep(V, s, t)
  PROVE  t.vexs = s.vexs /\ t.edges = s.edges
<1>1. s \in SortStates(V)
  BY DEF SortInv, SortTyped
<1> QED
  BY <1>1 DEF SortStates, SortStep, SolveBegins, SeedMoves, HeadTaken, EdgeTaken, SolveReturned

\* Every step of solve keeps the invariant and the graph, and if no edge was
\* added twice the degrees go on counting the edges that are left.
LEMMA SortStepKeeps ==
  ASSUME NEW V, NEW s, NEW t, SortInv(V, s), SortStep(V, s, t)
  PROVE  /\ SortInv(V, t) /\ t.vexs = s.vexs /\ t.edges = s.edges
         /\ SortCounted(s) => SortCounted(t)
<1>1. CASE SolveBegins(s, t)
  BY <1>1, SolveKeeps, SameGraphOfSteps
<1>2. CASE \E v \in V : SeedMoves(s, t, v)
  BY <1>2, SeedKeeps, SameGraphOfSteps
<1>3. CASE \E v \in V : EdgeTaken(s, t, v)
  BY <1>3, VisitKeeps, SameGraphOfSteps
<1>4. CASE HeadTaken(s, t)
  BY <1>4, TakeKeeps, SameGraphOfSteps
<1>5. CASE SolveReturned(s, t)
  BY <1>5, ReturnKeeps, SameGraphOfSteps
<1> QED
  BY <1>1, <1>2, <1>3, <1>4, <1>5 DEF SortStep

-----------------------------------------------------------------------------
(***************************************************************************)
(* What solve answers.                                                     *)
(***************************************************************************)

\* When solve has returned, order holds exactly the ready vertices.
LEMMA SolvedReady ==
  ASSUME NEW V, NEW s, SortInv(V, s), s.phase = "solved"
  PROVE  ReadyOf(s) = OrderOf(s) /\ \A v : WaitingOf(s, v) = {u \in s.vexs : <<u, v>> \in s.edges /\ u \notin OrderOf(s)}
<1>1. QueueOf(s) = {} /\ SeedsOf(s) = {}
  BY DEF SortInv, SortContainers, QueueOf, SeedsOf, SetOf, Once
<1>2. ReadyOf(s) = OrderOf(s)
  BY <1>1 DEF ReadyOf
<1>3. \A v : WaitingOf(s, v) = {u \in s.vexs : <<u, v>> \in s.edges /\ u \notin OrderOf(s)}
  BY DEF WaitingOf
<1> QED
  BY <1>2, <1>3

\* A graph without cycle whose edges were counted once is sorted completely:
\* a set of vertices left out would have one without predecessor in it, and
\* the degree of that one is zero.
LEMMA AcyclicIsSorted ==
  ASSUME NEW V, NEW s, SortInv(V, s), s.phase = "solved", SortAcyclic(s), SortCounted(s)
  PROVE  s.vexs \subseteq OrderOf(s)
<1> DEFINE S == s.vexs \ OrderOf(s)
<1> SUFFICES ASSUME S # {} PROVE FALSE
  OBVIOUS
<1>1. PICK v \in S : \A u \in S : <<u, v>> \notin s.edges
  BY DEF SortAcyclic
<1>2. s.in_degree[v] # 0
  BY <1>1, SolvedReady DEF SortInv, SortDegrees
<1>3. WaitingOf(s, v) = {}
  BY <1>1, SolvedReady
<1>4. Cardinality(WaitingOf(s, v)) = 0
  BY <1>3, FS_EmptySet
<1> QED
  BY <1>1, <1>2, <1>4 DEF SortCounted

\* In a graph that is sorted completely no edge was counted twice: all degrees
\* are zero and nothing is waited for.
LEMMA SortedIsCounted ==
  ASSUME NEW V, NEW s, SortInv(V, s), s.phase = "solved", s.vexs \subseteq OrderOf(s)
  PROVE  SortCounted(s)
<1> SUFFICES ASSUME NEW v \in s.vexs
             PROVE  s.in_degree[v] = Cardinality(WaitingOf(s, v))
  BY DEF SortCounted
<1>1. v \in ReadyOf(s)
  BY SolvedReady
<1>2. WaitingOf(s, v) = {} /\ s.in_degree[v] = 0
  BY <1>1, ReadyHasNone
<1> QED
  BY <1>2, FS_EmptySet

\* A graph that is sorted completely has no cycle: of a set of vertices the
\* one that comes first in order has no predecessor in the set.
LEMMA SortedIsAcyclic ==
  ASSUME NEW V, NEW s, SortInv(V, s), s.vexs \subseteq OrderOf(s)
  PROVE  SortAcyclic(s)
<1> SUFFICES ASSUME NEW S \in SUBSET s.vexs, S # {}
             PROVE  \E v \in S : \A u \in S : <<u, v>> \notin s.edges
  BY DEF SortAcyclic
<1> DEFINE R == OpToRel(<, Nat)
           T == {i \in DOMAIN s.order : s.order[i] \in S}
<1>1. DOMAIN s.order \subseteq Nat
  BY DEF SortInv, SortTyped, SortStates
<1>2. T \subseteq Nat
  BY <1>1
<1>3. T # {}
  BY DEF OrderOf, SetOf
<1>4. \A i, j \in Nat : j < i => <<j, i>> \in R
  BY DEF OpToRel
<1>5. IsWellFoundedOn(R, Nat)
  BY NatLessThanWellFounded
<1> HIDE DEF R
<1>6. PICK i \in T : \A j \in T : <<j, i>> \notin R
  <2> HIDE DEF T
  <2> QED
    BY <1>2, <1>3, <1>5, WFMin
<1>7. ASSUME NEW u \in S PROVE <<u, s.order[i]>> \notin s.edges
  <2>1. PICK j \in DOMAIN s.order : u = s.order[j]
    BY DEF OrderOf, SetOf
  <2>2. j \in T /\ ~(j < i)
    BY <1>2, <1>4, <1>6, <2>1
  <2> QED
    BY <1>6, <2>1, <2>2 DEF SortInv, SortOrdered
<1> QED
  BY <1>6, <1>7
=============================================================================
