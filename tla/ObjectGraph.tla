----------------------------- MODULE ObjectGraph -----------------------------
(***************************************************************************)
(* Reachability in an object graph: a function from identities to records  *)
(* whose field "fields" maps offsets to identities.                        *)
(***************************************************************************)
EXTENDS Naturals, FiniteSets

Successors(g, i) == {g[i].fields[o] : o \in DOMAIN g[i].fields}

\* The identities of g, and which leads to which.
Drawing(g) ==
  [nodes |-> DOMAIN g,
   edges |-> UNION {{i} \X (Successors(g, i) \cap DOMAIN g) : i \in DOMAIN g}]

\* The nodes in every set that holds start and that no edge leaves.
Spanned(d, start) ==
  {i \in d.nodes : \A T \in SUBSET d.nodes :
     /\ start \subseteq T
     /\ \A e \in d.edges : e[1] \in T => e[2] \in T
     => i \in T}

\* The identities of g reached from S by following fields.
Closure(g, S) == UNION {Spanned(d, S \cap d.nodes) : d \in {Drawing(g)}}

\* g without the objects S does not reach.
Reached(g, S) == [i \in Closure(g, S) |-> g[i]]
=============================================================================
