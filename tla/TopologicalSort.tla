-------------------------- MODULE TopologicalSort --------------------------
(***************************************************************************)
(* The sort that orders the symbols the loader completes                   *)
(* (evm/dependencies.h): a graph built by addVex and addEdge, and solve,   *)
(* which takes out one after another the vertices whose in_degree is zero. *)
(*                                                                         *)
(* The two containers solve iterates over, the map of vertices and the set *)
(* dst of a vertex, are ordered by address: any order may come out.        *)
(***************************************************************************)
EXTENDS Integers, Sequences, FiniteSets

CONSTANT Vertex   \* the symbols that may be added

VARIABLE sort   \* a TopologicalSort object and the state of its solve

\* open: the graph is being built; seed: solve collects the vertices without
\* incoming edge; visit: its main loop; solved: it has returned.
Phases == {"open", "seed", "visit", "solved"}

Empty ==
  [phase |-> "open", vexs |-> {}, edges |-> {}, in_degree |-> [v \in Vertex |-> 0],
   visited |-> {}, q |-> <<>>, order |-> <<>>, todo |-> {}]

SortInit == sort = Empty

-----------------------------------------------------------------------------
(***************************************************************************)
(* Building the graph.                                                     *)
(***************************************************************************)
WithVex(s, v) == [s EXCEPT !.vexs = @ \cup {v}]

\* dst is a set, in_degree a counter: a second call with the same vertices
\* adds no edge but counts.
WithEdge(s, src, dst) ==
  [s EXCEPT !.vexs = @ \cup {src, dst}, !.edges = @ \cup {<<src, dst>>},
            !.in_degree[dst] = @ + 1]

AddVex(v) ==
  /\ sort.phase = "open"
  /\ sort' = WithVex(sort, v)

AddEdge(src, dst) ==
  /\ sort.phase = "open"
  /\ sort' = WithEdge(sort, src, dst)

-----------------------------------------------------------------------------
(***************************************************************************)
(* solve.                                                                  *)
(***************************************************************************)

Solve ==
  /\ sort.phase = "open"
  /\ sort' = [sort EXCEPT !.phase = "seed",
                          !.todo = {v \in sort.vexs : sort.in_degree[v] = 0}]

Seed(v) ==
  /\ sort.phase = "seed"
  /\ v \in sort.todo
  /\ sort' = [sort EXCEPT !.q = Append(@, v), !.todo = @ \ {v}]

\* The body of the main loop begins when the inner one has ended.
Take ==
  /\ sort.phase \in {"seed", "visit"} /\ sort.todo = {} /\ sort.q # <<>>
  /\ sort' = [sort EXCEPT !.phase = "visit",
                          !.order = Append(@, Head(sort.q)),
                          !.q = Tail(@),
                          !.todo = {v \in sort.vexs : <<Head(sort.q), v>> \in sort.edges}]

\* Mutants: a destination is enqueued one edge early; in_degree is
\* compared with zero before the edge is taken out.
Visit_Early(dst) ==
  /\ sort.phase = "visit" /\ dst \in sort.todo
  /\ IF dst \in sort.visited THEN sort' = [sort EXCEPT !.todo = @ \ {dst}]
     ELSE IF sort.in_degree[dst] <= 2
     THEN sort' = [sort EXCEPT !.todo = @ \ {dst}, !.in_degree[dst] = @ - 1,
                               !.q = Append(@, dst), !.visited = @ \cup {dst}]
     ELSE sort' = [sort EXCEPT !.todo = @ \ {dst}, !.in_degree[dst] = @ - 1]
Visit_ChecksFirst(dst) ==
  /\ sort.phase = "visit" /\ dst \in sort.todo
  /\ IF dst \in sort.visited THEN sort' = [sort EXCEPT !.todo = @ \ {dst}]
     ELSE IF sort.in_degree[dst] = 0
     THEN sort' = [sort EXCEPT !.todo = @ \ {dst}, !.q = Append(@, dst),
                               !.visited = @ \cup {dst}]
     ELSE sort' = [sort EXCEPT !.todo = @ \ {dst}, !.in_degree[dst] = @ - 1]

\* One round of the inner loop: an edge into dst is taken out.
Visit(dst) ==
  /\ sort.phase = "visit"
  /\ dst \in sort.todo
  /\ IF dst \in sort.visited THEN sort' = [sort EXCEPT !.todo = @ \ {dst}]
     ELSE IF sort.in_degree[dst] = 1
     THEN sort' = [sort EXCEPT !.todo = @ \ {dst}, !.in_degree[dst] = 0,
                               !.q = Append(@, dst), !.visited = @ \cup {dst}]
     ELSE sort' = [sort EXCEPT !.todo = @ \ {dst}, !.in_degree[dst] = @ - 1]

Return ==
  /\ sort.phase \in {"seed", "visit"} /\ sort.todo = {} /\ sort.q = <<>>
  /\ sort' = [sort EXCEPT !.phase = "solved"]

\* What solve returns: order.size() == vexs.size().  order holds every vertex
\* at most once, so the sizes are equal when every vertex is in it.
Sorted == {sort.order[i] : i \in DOMAIN sort.order}
Solved == sort.phase = "solved" /\ sort.vexs \subseteq Sorted

SolveStep ==
  \/ \E v \in Vertex : Seed(v) \/ Visit(v)
  \/ Take
  \/ Return

SortNext ==
  \/ \E v \in Vertex : AddVex(v)
  \/ \E src, dst \in Vertex : AddEdge(src, dst)
  \/ Solve
  \/ SolveStep

SortSpec == SortInit /\ [][SortNext]_sort

-----------------------------------------------------------------------------
(***************************************************************************)
(* What the loader relies on when it completes symbols in this order.      *)
(***************************************************************************)
Queued == {sort.q[i] : i \in DOMAIN sort.q}

\* The sources of the edges into v that solve has not taken out yet: those
\* not in order, and the last one in order while v is still to be visited.
Waiting(v) ==
  {u \in sort.vexs : /\ <<u, v>> \in sort.edges
                     /\ \/ u \notin Sorted
                        \/ /\ sort.phase = "visit" /\ v \in sort.todo
                           /\ u = sort.order[Len(sort.order)]}

\* Types of the fields; in_degree does not go below zero, and the containers of
\* solve hold vertices of the graph.
SortTypeOK ==
  /\ sort \in [phase : Phases, vexs : SUBSET Vertex, edges : SUBSET (Vertex \X Vertex),
               in_degree : [Vertex -> Nat], visited : SUBSET Vertex,
               q : Seq(Vertex), order : Seq(Vertex), todo : SUBSET Vertex]
  /\ sort.edges \subseteq sort.vexs \X sort.vexs
  /\ Queued \cup Sorted \cup sort.todo \subseteq sort.vexs
  /\ sort.phase = "visit" => sort.order # <<>>

\* order holds a vertex at most once, and none that still waits in the queue:
\* complete() of a symbol is called once.
OnlyOnce ==
  /\ \A i, j \in DOMAIN sort.order : sort.order[i] = sort.order[j] => i = j
  /\ Queued \cap Sorted = {}

\* The source of an edge comes before its destination in order: a class is
\* completed after its base, a record after the records it contains.
OrderRespectsEdges ==
  \A i, j \in DOMAIN sort.order :
    <<sort.order[i], sort.order[j]>> \in sort.edges => i < j

\* Every non-empty set of vertices has one without a predecessor in the set.
Acyclic ==
  \A S \in SUBSET sort.vexs :
    S # {} => \E v \in S : \A u \in S : <<u, v>> \notin sort.edges

\* No edge was added twice: what is left of in_degree are the edges left.
Counted == \A v \in sort.vexs : sort.in_degree[v] = Cardinality(Waiting(v))

\* solve() answers true exactly for the graphs without cycle to which no edge
\* was added twice.  A record with two fields of one record type adds an edge
\* twice, so the loader refuses it like a circular one.
SolveIsExact ==
  sort.phase = "solved" => (sort.vexs \subseteq Sorted <=> Acyclic /\ Counted)

-----------------------------------------------------------------------------
(***************************************************************************)
(* The inductive invariant: in_degree is at least the number of edges left *)
(* into a vertex, and the vertices whose in_degree is zero are those in    *)
(* the containers of solve, each once.                                     *)
(***************************************************************************)
Seeds == IF sort.phase = "seed" THEN sort.todo ELSE {}

Ready == Queued \cup Sorted \cup Seeds

Degrees ==
  \A v \in sort.vexs :
    /\ sort.in_degree[v] >= Cardinality(Waiting(v))
    /\ sort.phase # "open" => (sort.in_degree[v] = 0 <=> v \in Ready)

Containers ==
  /\ \A i, j \in DOMAIN sort.q : sort.q[i] = sort.q[j] => i = j
  /\ Queued \cap Seeds = {}
  /\ sort.visited \subseteq Queued \cup Sorted
  /\ sort.phase = "open" => sort.q = <<>> /\ sort.order = <<>>
  /\ sort.phase = "seed" => sort.order = <<>>
  /\ sort.phase = "visit" =>
       \A v \in sort.todo : <<sort.order[Len(sort.order)], v>> \in sort.edges
  /\ sort.phase = "solved" => sort.q = <<>>

IInv ==
  /\ SortTypeOK /\ IsFiniteSet(sort.vexs)
  /\ OnlyOnce /\ OrderRespectsEdges /\ Degrees /\ Containers
=============================================================================
