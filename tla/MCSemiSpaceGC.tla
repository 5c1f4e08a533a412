---------------------------- MODULE MCSemiSpaceGC ----------------------------
(***************************************************************************)
(* A small instance of SemiSpaceGC: classes with one and two reference     *)
(* fields, in semi-spaces of a few words.  The header takes one word, and  *)
(* so does a field.  The store into the first of two fields (18 bytes)     *)
(* runs over the second and into the word after it; the store into the     *)
(* last field runs over a part of the header that follows the object.      *)
(***************************************************************************)
EXTENDS SemiSpaceGCProps, TLC

CONSTANTS Cons, Pair

MCOffsets == [k \in Klass |-> IF k = Cons THEN {1} ELSE {1, 2}]
MCSize == [k \in Klass |-> Cardinality(MCOffsets[k]) + 1]
MCSpill == [k \in Klass |-> [o \in MCOffsets[k] |-> IF o + 1 \in MCOffsets[k] THEN 2 ELSE 1]]
Symmetry == Permutations(Id) \cup Permutations(Word)
=============================================================================
