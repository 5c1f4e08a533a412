---------------------------- MODULE Loader_proofs ----------------------------
(***************************************************************************)
(* The loader, proved for every input: the layouts, for every set of       *)
(* classes, records and names and every program the compiler accepts; and, *)
(* with variables of their own, the two algorithms of its helper classes:  *)
(* the sort of evm/dependencies.h, whose steps are in DataLemmas because   *)
(* the loader takes them in two graphs, and the line table it generates    *)
(* for a function, with the search the processor makes in it.              *)
(***************************************************************************)
EXTENDS Loader, TopologicalSort, LineNumberTable, DataLemmas, SequenceTheorems

-----------------------------------------------------------------------------
(***************************************************************************)
(* The classes above a class.                                              *)
(***************************************************************************)
ClassCount == Cardinality(Class)

\* A step of the recursion of ProperAncestors.
Above(p, c, f, i) == IF i = 0 THEN {c} ELSE {p.base[a] : a \in f[i - 1] \ {Object}}

LEMMA ClassesFinite == IsFiniteSet(Class) /\ ClassCount \in Nat
BY ClassAssumption, FS_CardinalityType DEF ClassCount

\* The function that ProperAncestors chooses exists.
LEMMA AboveExists ==
  ASSUME NEW p, NEW c
  PROVE  \A n \in Nat : \E f : f = [i \in 0 .. n |-> Above(p, c, f, i)]
<1> DEFINE S == {n \in Nat : \E f : f = [i \in 0 .. n |-> Above(p, c, f, i)]}
<1>1. 0 \in S
  <2> DEFINE g == [i \in 0 .. 0 |-> {c}]
  <2>1. g = [i \in 0 .. 0 |-> Above(p, c, g, i)]
    BY DEF Above
  <2> HIDE DEF g
  <2> QED
    BY <2>1
<1>2. ASSUME NEW n \in S PROVE n + 1 \in S
  <2>1. PICK f : f = [i \in 0 .. n |-> Above(p, c, f, i)]
    BY <1>2
  <2> DEFINE g == [i \in 0 .. n + 1 |-> IF i = n + 1 THEN Above(p, c, f, i) ELSE f[i]]
  <2>2. ASSUME NEW i \in 0 .. n + 1 PROVE g[i] = Above(p, c, g, i)
    <3>1. n \in Nat
      OBVIOUS
    <3>2. CASE i = 0
      BY <2>1, <3>1, <3>2 DEF Above
    <3>3. CASE i # 0
      <4>1. i - 1 \in 0 .. n /\ g[i - 1] = f[i - 1]
        BY <3>1, <3>3
      <4>2. g[i] = Above(p, c, f, i)
        BY <2>1, <3>1
      <4> QED
        BY <3>3, <4>1, <4>2 DEF Above
    <3> QED
      BY <3>2, <3>3
  <2>3. g = [i \in 0 .. n + 1 |-> g[i]]
    OBVIOUS
  <2> HIDE DEF g
  <2>4. g = [i \in 0 .. n + 1 |-> Above(p, c, g, i)]
    BY <2>2, <2>3
  <2> QED
    BY <2>4
<1> HIDE DEF S
<1>3. S = Nat
  <2>1. S \subseteq Nat
    BY DEF S
  <2> QED
    BY <1>1, <1>2, <2>1, SetInduction
<1> QED
  BY <1>3 DEF S

\* What ProperAncestors collects, one step after another.
Up(p, c) == CHOOSE f : f = [i \in 0 .. ClassCount |-> Above(p, c, f, i)]

LEMMA UpSteps ==
  ASSUME NEW p, NEW c
  PROVE  /\ Up(p, c)[0] = {c}
         /\ \A i \in 1 .. ClassCount :
              Up(p, c)[i] = {p.base[a] : a \in Up(p, c)[i - 1] \ {Object}}
         /\ ProperAncestors(p, c) = UNION {Up(p, c)[i] : i \in 1 .. ClassCount}
<1>1. Up(p, c) = [i \in 0 .. ClassCount |-> Above(p, c, Up(p, c), i)]
  <2>1. \E f : f = [i \in 0 .. ClassCount |-> Above(p, c, f, i)]
    BY AboveExists, ClassesFinite
  <2> QED
    BY <2>1 DEF Up
<1>2. ProperAncestors(p, c) = UNION {Up(p, c)[i] : i \in 1 .. ClassCount}
  BY DEF ProperAncestors, Up, Above, ClassCount
<1>3. \A i \in 0 .. ClassCount : Up(p, c)[i] = Above(p, c, Up(p, c), i)
  BY <1>1
<1>4. Up(p, c)[0] = {c}
  <2>1. 0 \in 0 .. ClassCount
    BY ClassesFinite
  <2>2. Up(p, c)[0] = Above(p, c, Up(p, c), 0)
    BY <1>3, <2>1
  <2> QED
    BY <2>2 DEF Above
<1>5. \A i \in 1 .. ClassCount : Up(p, c)[i] = {p.base[a] : a \in Up(p, c)[i - 1] \ {Object}}
  <2> SUFFICES ASSUME NEW i \in 1 .. ClassCount
               PROVE  Up(p, c)[i] = {p.base[a] : a \in Up(p, c)[i - 1] \ {Object}}
    OBVIOUS
  <2>1. i \in 0 .. ClassCount /\ i # 0
    BY ClassesFinite
  <2>2. Up(p, c)[i] = Above(p, c, Up(p, c), i)
    BY <1>3, <2>1
  <2> QED
    BY <2>1, <2>2 DEF Above
<1> QED
  BY <1>2, <1>4, <1>5

\* They are the least set that has the base of c and of each of its members.
LEMMA AncestorsLeast ==
  ASSUME NEW p, NEW c, NEW T,
         c # Object => p.base[c] \in T,
         \A b \in T \ {Object} : p.base[b] \in T
  PROVE  ProperAncestors(p, c) \subseteq T
<1> DEFINE S == {i \in Nat : i < ClassCount => Up(p, c)[i + 1] \subseteq T}
<1>1. 0 \in S
  BY UpSteps, ClassesFinite
<1>2. ASSUME NEW i \in 0 .. ClassCount - 1, i \in S PROVE i + 1 \in S
  <2> SUFFICES ASSUME i + 1 < ClassCount PROVE Up(p, c)[(i + 1) + 1] \subseteq T
    OBVIOUS
  <2>1. (i + 1) + 1 \in 1 .. ClassCount /\ ((i + 1) + 1) - 1 = i + 1
    BY ClassesFinite
  <2>2. Up(p, c)[(i + 1) + 1] = {p.base[a] : a \in Up(p, c)[i + 1] \ {Object}}
    BY <2>1, UpSteps
  <2> QED
    BY <1>2, <2>2, ClassesFinite
<1> HIDE DEF S
<1>3. \A i \in 0 .. ClassCount : i \in S
  BY <1>1, <1>2, ClassesFinite, BoundedInduction
<1>4. \A i \in 1 .. ClassCount : Up(p, c)[i] \subseteq T
  <2> SUFFICES ASSUME NEW i \in 1 .. ClassCount PROVE Up(p, c)[i] \subseteq T
    OBVIOUS
  <2>1. i - 1 \in 0 .. ClassCount /\ i - 1 < ClassCount /\ (i - 1) + 1 = i
    BY ClassesFinite
  <2> QED
    BY <1>3, <2>1 DEF S
<1> QED
  BY <1>4, UpSteps

\* They are closed: the classes reached in as many steps as there are classes
\* are all there are to reach.
LEMMA AncestorsClosed ==
  ASSUME NEW p, p.base \in [Class -> Class], NEW c \in Class
  PROVE  /\ ProperAncestors(p, c) \subseteq Class
         /\ c # Object => p.base[c] \in ProperAncestors(p, c)
         /\ \A b \in ProperAncestors(p, c) \ {Object} : p.base[b] \in ProperAncestors(p, c)
<1> DEFINE R(k) == UNION {Up(p, c)[i] : i \in 1 .. k}
           Closed(k) == \A b \in R(k) \ {Object} : p.base[b] \in R(k)
           P(k) == Closed(k) \/ Cardinality(R(k)) >= k
           S == {k \in Nat : k + 1 <= ClassCount => P(k + 1)}
<1>1. ClassCount \in Nat /\ ClassCount >= 1
  <2>1. ClassCount # 0
    BY ClassesFinite, FS_EmptySet DEF ClassCount
  <2> QED
    BY <2>1, ClassesFinite
<1>2. Up(p, c)[1] = {p.base[a] : a \in {c} \ {Object}}
  BY <1>1, UpSteps
<1>3. ProperAncestors(p, c) \subseteq Class
  BY AncestorsLeast
<1>4. ASSUME NEW k \in 1 .. ClassCount
      PROVE  R(k) \subseteq Class /\ IsFiniteSet(R(k)) /\ Cardinality(R(k)) \in Nat
  <2>1. R(k) \subseteq Class
    BY <1>1, <1>3, UpSteps
  <2> HIDE DEF R
  <2>2. IsFiniteSet(R(k))
    BY <2>1, ClassesFinite, FS_Subset
  <2> QED
    BY <2>1, <2>2, FS_CardinalityType
<1>5. ASSUME NEW k \in 1 .. ClassCount - 1
      PROVE  /\ R(k) \subseteq R(k + 1)
             /\ \A b \in R(k) \ {Object} : p.base[b] \in R(k + 1)
             /\ Closed(k) => R(k + 1) = R(k)
  <2>1. k + 1 \in 1 .. ClassCount /\ (k + 1) - 1 = k /\ k \in Nat
    BY <1>1
  <2>2. R(k) \subseteq R(k + 1)
    BY <2>1
  <2>3. ASSUME NEW i \in 1 .. k, NEW b \in Up(p, c)[i] \ {Object}
        PROVE  p.base[b] \in R(k + 1)
    <3>1. i + 1 \in 1 .. ClassCount /\ (i + 1) - 1 = i /\ i + 1 \in 1 .. k + 1
      BY <1>1, <2>1
    <3>2. Up(p, c)[i + 1] = {p.base[a] : a \in Up(p, c)[i] \ {Object}}
      BY <3>1, UpSteps
    <3> QED
      BY <3>1, <3>2
  <2>4. ASSUME Closed(k) PROVE R(k + 1) \subseteq R(k)
    <3> SUFFICES ASSUME NEW i \in 1 .. k + 1, NEW x \in Up(p, c)[i] PROVE x \in R(k)
      OBVIOUS
    <3>1. CASE i = k + 1
      <4>1. Up(p, c)[k + 1] = {p.base[a] : a \in Up(p, c)[k] \ {Object}}
        BY <2>1, UpSteps
      <4>2. PICK a \in Up(p, c)[k] \ {Object} : x = p.base[a]
        BY <3>1, <4>1
      <4>3. a \in R(k)
        BY <2>1
      <4> QED
        BY <2>4, <4>2, <4>3
    <3>2. CASE i # k + 1
      BY <2>1, <3>2
    <3> QED
      BY <3>1, <3>2
  <2> QED
    BY <2>2, <2>3, <2>4
<1>6. P(1)
  <2>1. R(1) = Up(p, c)[1]
    OBVIOUS
  <2>2. CASE c = Object
    BY <1>2, <2>1, <2>2
  <2>3. CASE c # Object
    <3>1. R(1) = {p.base[c]}
      BY <1>2, <2>1, <2>3
    <3>2. Cardinality(R(1)) = 1
      BY <3>1, FS_Singleton
    <3> QED
      BY <3>2
  <2> QED
    BY <2>2, <2>3
<1>7. ASSUME NEW k \in 1 .. ClassCount - 1, P(k) PROVE P(k + 1)
  <2>0. k \in 1 .. ClassCount /\ k + 1 \in 1 .. ClassCount
    BY <1>1
  <2>1. CASE Closed(k)
    <3>1. R(k + 1) = R(k)
      BY <1>5, <2>1
    <3> QED
      BY <2>1, <3>1
  <2>2. CASE ~Closed(k)
    <3>1. PICK b \in R(k) \ {Object} : p.base[b] \notin R(k)
      BY <2>2
    <3>2. R(k) \cup {p.base[b]} \in SUBSET R(k + 1)
      BY <1>5, <3>1
    <3>3. IsFiniteSet(R(k)) /\ IsFiniteSet(R(k + 1)) /\ Cardinality(R(k)) \in Nat
      BY <1>4, <2>0
    <3>4. Cardinality(R(k + 1)) \in Nat
      BY <1>4, <2>0
    <3>5. Cardinality(R(k)) >= k
      BY <1>7, <2>2
    <3> HIDE DEF R
    <3>6. Cardinality(R(k) \cup {p.base[b]}) = Cardinality(R(k)) + 1
      BY <3>1, <3>3, FS_AddElement
    <3>7. Cardinality(R(k) \cup {p.base[b]}) <= Cardinality(R(k + 1))
      BY <3>2, <3>3, FS_Subset
    <3>8. Cardinality(R(k + 1)) >= k + 1
      BY <2>0, <3>3, <3>4, <3>5, <3>6, <3>7
    <3> QED
      BY <3>8
  <2> QED
    BY <2>1, <2>2
<1>8. P(ClassCount)
  <2>1. 0 \in S
    BY <1>6
  <2>2. ASSUME NEW k \in 0 .. (ClassCount - 1) - 1, k \in S PROVE k + 1 \in S
    <3>1. k + 1 \in 1 .. ClassCount - 1
      BY <1>1
    <3>2. P(k + 1)
      BY <1>1, <2>2
    <3> QED
      BY <1>7, <3>1, <3>2
  <2> HIDE DEF S
  <2>3. \A k \in 0 .. ClassCount - 1 : k \in S
    BY <1>1, <2>1, <2>2, BoundedInduction
  <2>4. ClassCount - 1 \in S /\ (ClassCount - 1) + 1 = ClassCount
    BY <1>1, <2>3
  <2> HIDE DEF P
  <2> QED
    BY <1>1, <2>4 DEF S
<1>9. R(ClassCount) = ProperAncestors(p, c)
  BY UpSteps
<1>10. Closed(ClassCount)
  <2> SUFFICES ASSUME Cardinality(R(ClassCount)) >= ClassCount PROVE Closed(ClassCount)
    BY <1>8
  <2> HIDE DEF R
  <2>1. /\ R(ClassCount) \in SUBSET Class /\ Cardinality(R(ClassCount)) \in Nat
        /\ ClassCount \in 1 .. ClassCount
    BY <1>1, <1>4
  <2>2. Cardinality(R(ClassCount)) <= Cardinality(Class)
    BY <2>1, ClassesFinite, FS_Subset
  <2>3. Cardinality(R(ClassCount)) = Cardinality(Class)
    BY <1>1, <2>1, <2>2 DEF ClassCount
  <2>4. R(ClassCount) = Class
    BY <2>1, <2>3, ClassesFinite, FS_Subset
  <2> QED
    BY <2>4
<1> HIDE DEF R
<1>11. c # Object => p.base[c] \in ProperAncestors(p, c)
  BY <1>1, <1>2, UpSteps
<1> QED
  BY <1>3, <1>9, <1>10, <1>11

\* The classes above c are its base and those above the base.
LEMMA AncestorsStep ==
  ASSUME NEW p, p.base \in [Class -> Class], NEW c \in Class
  PROVE  /\ ProperAncestors(p, Object) = {}
         /\ c # Object => ProperAncestors(p, c) =
                            {p.base[c]} \cup ProperAncestors(p, p.base[c])
<1>1. ProperAncestors(p, Object) = {}
  <2> DEFINE T == {}
  <2>1. /\ Object # Object => p.base[Object] \in T
        /\ \A a \in T \ {Object} : p.base[a] \in T
    OBVIOUS
  <2> HIDE DEF T
  <2>2. ProperAncestors(p, Object) \subseteq T
    BY <2>1, AncestorsLeast
  <2> QED
    BY <2>2 DEF T
<1>2. ASSUME c # Object
      PROVE  ProperAncestors(p, c) = {p.base[c]} \cup ProperAncestors(p, p.base[c])
  <2> DEFINE b == p.base[c]
  <2>1. b \in Class
    OBVIOUS
  <2>2. /\ b # Object => p.base[b] \in ProperAncestors(p, b)
        /\ \A a \in ProperAncestors(p, b) \ {Object} : p.base[a] \in ProperAncestors(p, b)
    BY <2>1, AncestorsClosed
  <2>3. /\ b \in ProperAncestors(p, c)
        /\ \A a \in ProperAncestors(p, c) \ {Object} : p.base[a] \in ProperAncestors(p, c)
    BY <1>2, AncestorsClosed
  <2> DEFINE T == {b} \cup ProperAncestors(p, b)
  <2>6. (c # Object => p.base[c] \in T) /\ \A a \in T \ {Object} : p.base[a] \in T
    BY <2>2
  <2> HIDE DEF b, T
  <2>4. ProperAncestors(p, b) \subseteq ProperAncestors(p, c)
    BY <2>3, AncestorsLeast
  <2>5. ProperAncestors(p, c) \subseteq T
    BY <2>6, AncestorsLeast
  <2> QED
    BY <2>3, <2>4, <2>5 DEF b, T
<1> QED
  BY <1>1, <1>2

-----------------------------------------------------------------------------
(***************************************************************************)
(* Programs the compiler accepts.                                          *)
(***************************************************************************)
ProgramFine == program \in Program /\ Accepted(program)

\* The parts of a program.
LEMMA ProgramParts ==
  ASSUME ProgramFine
  PROVE  /\ program.base \in [Class -> Class]
         /\ \A c \in Class : Base(c) \in Class
         /\ \A c \in Class, n \in Name : /\ Member(c, n).kind \in MemberKind
                                         /\ Member(c, n).type \in Type
         /\ program.fields \in [Record -> [Name -> Type \cup {"none"}]]
         /\ program.module \subseteq Type
<1>1. /\ program.base \in [Class -> Class]
      /\ program.member \in [Class -> [Name -> [kind : MemberKind, type : Type]]]
      /\ program.fields \in [Record -> [Name -> Type \cup {"none"}]]
      /\ program.module \subseteq Type
  BY ProgramAssumption DEF ProgramFine
<1>2. ASSUME NEW c \in Class, NEW n \in Name
      PROVE  Member(c, n).kind \in MemberKind /\ Member(c, n).type \in Type
  <2>1. program.member[c] \in [Name -> [kind : MemberKind, type : Type]]
    BY <1>1
  <2>2. program.member[c][n] \in [kind : MemberKind, type : Type]
    BY <2>1
  <2> QED
    BY <2>2 DEF Member
<1> QED
  BY <1>1, <1>2 DEF Base

\* The classes whose members an object of class c has.
LEMMA Chain ==
  ASSUME ProgramFine, NEW c \in Class
  PROVE  /\ SelfAndAncestors(c) \subseteq Class /\ c \in SelfAndAncestors(c)
         /\ c = Object => SelfAndAncestors(c) = {c}
         /\ c # Object => /\ SelfAndAncestors(c) = {c} \cup SelfAndAncestors(Base(c))
                          /\ c \notin SelfAndAncestors(Base(c))
<1>1. program.base \in [Class -> Class] /\ Base(c) \in Class
  BY ProgramParts
<1>2. ProperAncestors(program, c) \subseteq Class
  BY <1>1, AncestorsClosed
<1>3. /\ ProperAncestors(program, Object) = {}
      /\ c # Object => ProperAncestors(program, c) =
                         {Base(c)} \cup ProperAncestors(program, Base(c))
  BY <1>1, AncestorsStep DEF Base
<1>4. c \notin ProperAncestors(program, c)
  BY DEF ProgramFine, Accepted
<1> QED
  BY <1>2, <1>3, <1>4 DEF SelfAndAncestors

\* The relation is an order.
LEMMA ChainOrder ==
  ASSUME ProgramFine, NEW c \in Class, NEW a \in SelfAndAncestors(c)
  PROVE  /\ SelfAndAncestors(a) \subseteq SelfAndAncestors(c)
         /\ c \in SelfAndAncestors(a) => a = c
<1>1. program.base \in [Class -> Class]
  BY ProgramParts
<1>2. a \in Class
  BY Chain
<1>3. ASSUME a # c
      PROVE  ProperAncestors(program, a) \subseteq ProperAncestors(program, c)
  <2>1. a \in ProperAncestors(program, c)
    BY <1>3 DEF SelfAndAncestors
  <2>2. /\ a # Object => program.base[a] \in ProperAncestors(program, c)
        /\ \A b \in ProperAncestors(program, c) \ {Object} :
             program.base[b] \in ProperAncestors(program, c)
    BY <1>1, <2>1, AncestorsClosed
  <2> QED
    BY <2>2, AncestorsLeast
<1>4. c \notin ProperAncestors(program, c)
  BY DEF ProgramFine, Accepted
<1> QED
  BY <1>3, <1>4 DEF SelfAndAncestors

\* What holds of the base of c and of the base of each class it holds of holds
\* of all the classes above c.
LEMMA ChainInduction ==
  ASSUME ProgramFine, NEW c \in Class, NEW T, c \in T,
         \A a \in T \ {Object} : Base(a) \in T
  PROVE  SelfAndAncestors(c) \subseteq T
<1>1. ProperAncestors(program, c) \subseteq T
  BY AncestorsLeast DEF Base
<1> QED
  BY <1>1 DEF SelfAndAncestors

\* The nearest of some classes above c is c, if it is one of them.
LEMMA NearestSelf ==
  ASSUME ProgramFine, NEW c \in Class, NEW S \in SUBSET SelfAndAncestors(c), c \in S
  PROVE  Nearest(S) = c
<1>1. \A b \in S : b \in SelfAndAncestors(c)
  OBVIOUS
<1>2. ASSUME NEW a \in S, \A b \in S : b \in SelfAndAncestors(a)
      PROVE  a = c
  BY <1>2, ChainOrder
<1> QED
  BY <1>1, <1>2 DEF Nearest

\* Of some classes above c there is a nearest one.
LEMMA NearestExists ==
  ASSUME ProgramFine, NEW c \in Class, NEW S \in SUBSET SelfAndAncestors(c), S # {}
  PROVE  Nearest(S) \in S /\ \A b \in S : b \in SelfAndAncestors(Nearest(S))
<1> DEFINE Lowest == \E x \in S : \A b \in S : b \in SelfAndAncestors(x)
           T == {a \in Class : Lowest \/ S \subseteq SelfAndAncestors(a)}
<1>1. c \in T
  OBVIOUS
<1>2. ASSUME NEW a \in T \ {Object} PROVE Base(a) \in T
  <2>1. Base(a) \in Class
    BY ProgramParts
  <2>2. SelfAndAncestors(a) = {a} \cup SelfAndAncestors(Base(a))
    BY Chain
  <2>3. CASE Lowest
    BY <2>1, <2>3
  <2>4. CASE ~Lowest
    <3>1. S \subseteq SelfAndAncestors(a) /\ a \notin S
      BY <2>4
    <3> QED
      BY <2>1, <2>2, <3>1
  <2> QED
    BY <2>3, <2>4
<1>3. PICK s \in S : TRUE
  OBVIOUS
<1>4. SelfAndAncestors(c) \subseteq T
  <2> HIDE DEF T
  <2> QED
    BY <1>1, <1>2, ChainInduction
<1>5. s \in T
  BY <1>3, <1>4
<1>6. Lowest
  BY <1>3, <1>5
<1> QED
  BY <1>6 DEF Nearest

-----------------------------------------------------------------------------
(***************************************************************************)
(* CompletedLayout adds one member after another.                          *)
(***************************************************************************)
NameCount == Cardinality(Name)

\* A step of its recursion.
Laying(c, f, n) == IF n = 0 THEN Inherited(c) ELSE WithMember(f[n - 1], c, n)

LEMMA NamesFinite == NameCount \in Nat /\ Name = 1 .. NameCount
BY NameAssumption, FS_CardinalityType DEF NameCount

\* The function it chooses exists.
LEMMA LayingExists ==
  ASSUME NEW c
  PROVE  \A k \in Nat : \E f : f = [n \in 0 .. k |-> Laying(c, f, n)]
<1> DEFINE S == {k \in Nat : \E f : f = [n \in 0 .. k |-> Laying(c, f, n)]}
<1>1. 0 \in S
  <2> DEFINE g == [n \in 0 .. 0 |-> Inherited(c)]
  <2>1. g = [n \in 0 .. 0 |-> Laying(c, g, n)]
    BY DEF Laying
  <2> HIDE DEF g
  <2> QED
    BY <2>1
<1>2. ASSUME NEW k \in S PROVE k + 1 \in S
  <2>1. PICK f : f = [n \in 0 .. k |-> Laying(c, f, n)]
    BY <1>2
  <2> DEFINE g == [n \in 0 .. k + 1 |-> IF n = k + 1 THEN Laying(c, f, n) ELSE f[n]]
  <2>2. ASSUME NEW n \in 0 .. k + 1 PROVE g[n] = Laying(c, g, n)
    <3>1. k \in Nat
      OBVIOUS
    <3>2. CASE n = 0
      BY <2>1, <3>1, <3>2 DEF Laying
    <3>3. CASE n # 0
      <4>1. n - 1 \in 0 .. k /\ g[n - 1] = f[n - 1]
        BY <3>1, <3>3
      <4>2. g[n] = Laying(c, f, n)
        BY <2>1, <3>1
      <4> QED
        BY <3>3, <4>1, <4>2 DEF Laying
    <3> QED
      BY <3>2, <3>3
  <2>3. g = [n \in 0 .. k + 1 |-> g[n]]
    OBVIOUS
  <2> HIDE DEF g
  <2>4. g = [n \in 0 .. k + 1 |-> Laying(c, g, n)]
    BY <2>2, <2>3
  <2> QED
    BY <2>4
<1> HIDE DEF S
<1>3. S = Nat
  <2>1. S \subseteq Nat
    BY DEF S
  <2> QED
    BY <1>1, <1>2, <2>1, SetInduction
<1> QED
  BY <1>3 DEF S

\* The layouts after each member.
Laid(c) == CHOOSE f : f = [n \in 0 .. NameCount |-> Laying(c, f, n)]

LEMMA LaidSteps ==
  ASSUME NEW c
  PROVE  /\ Laid(c)[0] = Inherited(c)
         /\ \A n \in 0 .. NameCount - 1 :
              Laid(c)[n + 1] = WithMember(Laid(c)[n], c, n + 1)
         /\ CompletedLayout(c) = Laid(c)[NameCount]
<1>1. Laid(c) = [n \in 0 .. NameCount |-> Laying(c, Laid(c), n)]
  <2>1. \E f : f = [n \in 0 .. NameCount |-> Laying(c, f, n)]
    BY LayingExists, NamesFinite
  <2> QED
    BY <2>1 DEF Laid
<1>2. CompletedLayout(c) = Laid(c)[NameCount]
  BY DEF CompletedLayout, Laid, Laying, NameCount
<1>3. \A n \in 0 .. NameCount : Laid(c)[n] = Laying(c, Laid(c), n)
  BY <1>1
<1>4. Laid(c)[0] = Inherited(c)
  <2>1. 0 \in 0 .. NameCount
    BY NamesFinite
  <2>2. Laid(c)[0] = Laying(c, Laid(c), 0)
    BY <1>3, <2>1
  <2> QED
    BY <2>2 DEF Laying
<1>5. ASSUME NEW n \in 0 .. NameCount - 1
      PROVE  Laid(c)[n + 1] = WithMember(Laid(c)[n], c, n + 1)
  <2>1. n + 1 \in 0 .. NameCount /\ n + 1 # 0 /\ (n + 1) - 1 = n
    BY NamesFinite
  <2>2. Laid(c)[n + 1] = Laying(c, Laid(c), n + 1)
    BY <1>3, <2>1
  <2> QED
    BY <2>1, <2>2 DEF Laying
<1> QED
  BY <1>2, <1>4, <1>5

-----------------------------------------------------------------------------
(***************************************************************************)
(* The invariant.  A class that is complete is complete with the classes   *)
(* above it, and its layout is the one its members and the layout of its   *)
(* base give; completing another class does not touch it.                  *)
(***************************************************************************)
IsLayout(l) ==
  /\ l = [size |-> l.size, refs |-> l.refs, offset |-> l.offset, slot |-> l.slot,
          table |-> l.table]
  /\ l.refs \subseteq Nat /\ l.offset \in [Name -> Int]
  /\ l.table \in Seq(Class \X Name)
  /\ l.slot = [n \in DOMAIN l.slot |-> l.slot[n]]
  /\ \A n \in DOMAIN l.slot : n \in Name /\ l.slot[n] \in 1 .. Len(l.table)

Virtual(c, n) == Member(c, n).kind = "virtual"
Targets(c, n) == {a \in SelfAndAncestors(c) : Member(a, n).kind \in {"virtual", "override"}}

\* The fields fill the object.
Filled(c) ==
  /\ UNION {Extent(f) : f \in InstanceFields(c)} = 0 .. (layout[c].size - 1)
  /\ \A f, g \in InstanceFields(c) : f # g => Extent(f) \cap Extent(g) = {}
  /\ layout[c].refs = {layout[f[1]].offset[f[2]] : f \in
                         {g \in InstanceFields(c) :
                            Member(g[1], g[2]).type \in {"ref", "array"}}}

\* The names of the virtual methods have a slot each, the same as in the
\* classes above, and the table has the nearest method there.
Slotted(c) ==
  /\ DOMAIN layout[c].slot = {n \in Name : \E a \in SelfAndAncestors(c) : Virtual(a, n)}
  /\ \A n, m \in DOMAIN layout[c].slot :
       layout[c].slot[n] = layout[c].slot[m] => n = m
  /\ \A n \in DOMAIN layout[c].slot :
       layout[c].table[layout[c].slot[n]] = <<Nearest(Targets(c, n)), n>>
  /\ \A a \in SelfAndAncestors(c) : \A n \in DOMAIN layout[a].slot :
       n \in DOMAIN layout[c].slot /\ layout[c].slot[n] = layout[a].slot[n]

Whole(c) ==
  /\ c # Object => Complete(Base(c))
  /\ layout[c].size \in Nat
  /\ \A n \in Name : Member(c, n).kind # "none" => Member(c, n).type \notin Record
  /\ Filled(c) /\ Slotted(c)

Layouts ==
  /\ DOMAIN layout = Class
  /\ \A c \in Class : /\ IsLayout(layout[c])
                      /\ IF Complete(c) THEN Whole(c) ELSE layout[c] = NoLayout

-----------------------------------------------------------------------------
(***************************************************************************)
(* What a member adds to a layout.                                         *)
(***************************************************************************)
LEMMA Sizes ==
  ASSUME NEW type \in Type, type \notin Record
  PROVE  RuntimeSize(type) = IF type = "int" THEN 1 ELSE 2
BY RecordAssumption DEF RuntimeSize, Type

LEMMA FieldAdded ==
  ASSUME NEW l, IsLayout(l), l.size \in Nat, NEW n \in Name,
         NEW type \in Type, type \notin Record
  PROVE  LET t == WithField(l, n, type)
         IN  /\ IsLayout(t)
             /\ t.size = l.size + RuntimeSize(type)
             /\ t.offset = [l.offset EXCEPT ![n] = l.size]
             /\ t.refs = IF type \in {"ref", "array"} THEN l.refs \cup {l.size} ELSE l.refs
             /\ t.slot = l.slot /\ t.table = l.table
<1> DEFINE t == WithField(l, n, type)
           placed == [l.offset EXCEPT ![n] = l.size]
           found == IF type \in {"ref", "array"} THEN l.refs \cup {l.size} ELSE l.refs
<1>1. l = [size |-> l.size, refs |-> l.refs, offset |-> l.offset, slot |-> l.slot,
           table |-> l.table]
  BY DEF IsLayout
<1>2. t = [l EXCEPT !.offset = placed, !.size = l.size + RuntimeSize(type), !.refs = found]
  BY <1>1 DEF WithField
<1>3. placed \in [Name -> Int] /\ found \subseteq Nat
  BY DEF IsLayout
<1> HIDE DEF t, placed, found
<1>4. t = [size |-> l.size + RuntimeSize(type), refs |-> found, offset |-> placed,
           slot |-> l.slot, table |-> l.table]
  BY <1>1, <1>2
<1>5. IsLayout(t)
  BY <1>3, <1>4 DEF IsLayout
<1> QED
  BY <1>4, <1>5 DEF t, placed, found

LEMMA VirtualAdded ==
  ASSUME NEW l, IsLayout(l), NEW c \in Class, NEW n \in Name, n \notin DOMAIN l.slot
  PROVE  LET t == WithVirtual(l, c, n)
         IN  /\ IsLayout(t) /\ t.size = l.size /\ t.offset = l.offset /\ t.refs = l.refs
             /\ DOMAIN t.slot = DOMAIN l.slot \cup {n} /\ t.slot[n] = Len(l.table) + 1
             /\ \A m \in DOMAIN l.slot : t.slot[m] = l.slot[m]
             /\ t.table = Append(l.table, <<c, n>>)
<1> DEFINE t == WithVirtual(l, c, n)
           numbered == [m \in DOMAIN l.slot \cup {n} |->
                          IF m = n THEN Len(l.table) + 1 ELSE l.slot[m]]
           longer == Append(l.table, <<c, n>>)
<1>1. l = [size |-> l.size, refs |-> l.refs, offset |-> l.offset, slot |-> l.slot,
           table |-> l.table]
  BY DEF IsLayout
<1>2. t = [l EXCEPT !.slot = numbered, !.table = longer]
  BY <1>1 DEF WithVirtual
<1>3. longer \in Seq(Class \X Name) /\ Len(longer) = Len(l.table) + 1 /\ Len(l.table) \in Nat
  <2>1. <<c, n>> \in Class \X Name /\ l.table \in Seq(Class \X Name)
    BY DEF IsLayout
  <2> QED
    BY <2>1
<1>4. /\ DOMAIN numbered = DOMAIN l.slot \cup {n}
      /\ numbered = [m \in DOMAIN numbered |-> numbered[m]]
      /\ numbered[n] = Len(l.table) + 1
      /\ \A m \in DOMAIN l.slot : numbered[m] = l.slot[m]
  OBVIOUS
<1>5. \A m \in DOMAIN numbered : m \in Name /\ numbered[m] \in 1 .. Len(longer)
  <2> HIDE DEF longer, numbered
  <2>1. \A m \in DOMAIN l.slot : m \in Name /\ l.slot[m] \in 1 .. Len(l.table)
    BY DEF IsLayout
  <2> QED
    BY <1>3, <1>4, <2>1
<1> HIDE DEF t, numbered, longer
<1>6. t = [size |-> l.size, refs |-> l.refs, offset |-> l.offset,
           slot |-> numbered, table |-> longer]
  BY <1>1, <1>2
<1>7. IsLayout(t)
  BY <1>3, <1>4, <1>5, <1>6 DEF IsLayout
<1> QED
  BY <1>4, <1>6, <1>7 DEF t, longer

LEMMA OverrideAdded ==
  ASSUME NEW l, IsLayout(l), NEW c \in Class, NEW n \in Name, n \in DOMAIN l.slot
  PROVE  LET t == WithOverride(l, c, n)
         IN  /\ IsLayout(t) /\ t.size = l.size /\ t.offset = l.offset /\ t.refs = l.refs
             /\ t.slot = l.slot /\ Len(t.table) = Len(l.table)
             /\ t.table[l.slot[n]] = <<c, n>>
             /\ \A i \in 1 .. Len(l.table) : i # l.slot[n] => t.table[i] = l.table[i]
<1> DEFINE t == WithOverride(l, c, n)
           replaced == [l.table EXCEPT ![l.slot[n]] = <<c, n>>]
<1>1. l = [size |-> l.size, refs |-> l.refs, offset |-> l.offset, slot |-> l.slot,
           table |-> l.table]
  BY DEF IsLayout
<1>2. t = [l EXCEPT !.table = replaced]
  BY <1>1 DEF WithOverride
<1>3. l.table \in Seq(Class \X Name) /\ l.slot[n] \in 1 .. Len(l.table) /\ <<c, n>> \in Class \X Name
  BY DEF IsLayout
<1>4. /\ replaced \in Seq(Class \X Name) /\ Len(replaced) = Len(l.table)
      /\ replaced[l.slot[n]] = <<c, n>>
      /\ \A i \in 1 .. Len(l.table) : i # l.slot[n] => replaced[i] = l.table[i]
  BY <1>3
<1> HIDE DEF t, replaced
<1>6. t = [size |-> l.size, refs |-> l.refs, offset |-> l.offset,
           slot |-> l.slot, table |-> replaced]
  BY <1>1, <1>2
<1>7. IsLayout(t)
  BY <1>4, <1>6 DEF IsLayout
<1> QED
  BY <1>4, <1>6, <1>7 DEF t

\* What a class starts from.
LEMMA Beginning ==
  ASSUME ProgramFine, NEW c \in Class, IsLayout(layout[Base(c)]), Inherited(c).size # -1,
         layout[Base(c)].size \in Nat \cup {-1}
  PROVE  /\ IsLayout(Inherited(c)) /\ Inherited(c).size \in Nat
         /\ c = Object => /\ Inherited(c).size = 0 /\ Inherited(c).refs = {}
                          /\ DOMAIN Inherited(c).slot = {}
         /\ c # Object => /\ Inherited(c).size = layout[Base(c)].size
                          /\ Inherited(c).refs = layout[Base(c)].refs
                          /\ Inherited(c).slot = layout[Base(c)].slot
                          /\ Inherited(c).table = layout[Base(c)].table
<1>1. CASE c = Object
  <2> DEFINE l == Inherited(c)
  <2>1. l = [size |-> 0, refs |-> {}, offset |-> [n \in Name |-> -1],
             slot |-> <<>>, table |-> <<>>]
    BY <1>1 DEF Inherited, NoLayout
  <2>2. DOMAIN <<>> = {} /\ <<>> \in Seq(Class \X Name)
    OBVIOUS
  <2> HIDE DEF l
  <2>3. IsLayout(l)
    BY <2>1, <2>2 DEF IsLayout
  <2> QED
    BY <1>1, <2>1, <2>2, <2>3 DEF l
<1>2. CASE c # Object
  <2> DEFINE b == layout[Base(c)]
             none == [n \in Name |-> -1]
             l == Inherited(c)
  <2>1. b = [size |-> b.size, refs |-> b.refs, offset |-> b.offset, slot |-> b.slot,
             table |-> b.table]
    BY DEF IsLayout
  <2>2. NoLayout.offset = none
    BY DEF NoLayout
  <2>3. l = [b EXCEPT !.offset = none]
    BY <1>2, <2>2 DEF Inherited
  <2>4. none \in [Name -> Int] /\ IsLayout(b) /\ b.size \in Nat \cup {-1}
    OBVIOUS
  <2>5. l.size # -1
    OBVIOUS
  <2> HIDE DEF b, none, l
  <2>6. l = [size |-> b.size, refs |-> b.refs, offset |-> none, slot |-> b.slot,
             table |-> b.table]
    BY <2>1, <2>3
  <2>7. IsLayout(l)
    BY <2>4, <2>6 DEF IsLayout
  <2> QED
    BY <1>2, <2>4, <2>5, <2>6, <2>7 DEF b, l
<1> QED
  BY <1>1, <1>2

-----------------------------------------------------------------------------
(***************************************************************************)
(* After the members up to n.                                              *)
(***************************************************************************)
Placed(c, n) == {m \in 1 .. n : Member(c, m).kind = "field"}
Span(l, c, m) == l.offset[m] .. (l.offset[m] + RuntimeSize(Member(c, m).type) - 1)

Filling(c, n, l) ==
  /\ l.size \in Nat /\ Inherited(c).size <= l.size
  /\ UNION {Span(l, c, m) : m \in Placed(c, n)} = Inherited(c).size .. (l.size - 1)
  /\ \A m, k \in Placed(c, n) : m # k => Span(l, c, m) \cap Span(l, c, k) = {}
  /\ l.refs = Inherited(c).refs \cup
                {l.offset[m] : m \in {k \in Placed(c, n) :
                                        Member(c, k).type \in {"ref", "array"}}}

Slotting(c, n, l) ==
  /\ DOMAIN l.slot = DOMAIN Inherited(c).slot \cup {m \in 1 .. n : Virtual(c, m)}
  /\ \A m \in DOMAIN Inherited(c).slot : l.slot[m] = Inherited(c).slot[m]
  /\ \A m, k \in DOMAIN l.slot : l.slot[m] = l.slot[k] => m = k
  /\ \A m \in DOMAIN l.slot :
       l.table[l.slot[m]] =
         IF m \in 1 .. n /\ Member(c, m).kind \in {"virtual", "override"} THEN <<c, m>>
         ELSE Inherited(c).table[Inherited(c).slot[m]]

\* A field goes where the object ended.
LEMMA FieldFills ==
  ASSUME NEW c \in Class, NEW n \in Nat, n + 1 \in Name,
         NEW l, IsLayout(l), Filling(c, n, l), Inherited(c).size \in Nat,
         Member(c, n + 1).kind = "field",
         Member(c, n + 1).type \in Type, Member(c, n + 1).type \notin Record,
         NEW t, t = WithField(l, n + 1, Member(c, n + 1).type)
  PROVE  IsLayout(t) /\ Filling(c, n + 1, t) /\ t.slot = l.slot /\ t.table = l.table
<1> DEFINE type == Member(c, n + 1).type
           w == RuntimeSize(type)
           a == Inherited(c).size
<1>1. /\ IsLayout(t) /\ t.size = l.size + w
      /\ t.offset = [l.offset EXCEPT ![n + 1] = l.size]
      /\ t.refs = IF type \in {"ref", "array"} THEN l.refs \cup {l.size} ELSE l.refs
      /\ t.slot = l.slot /\ t.table = l.table
  <2>1. l.size \in Nat
    BY DEF Filling
  <2>2. type \in Type /\ type \notin Record /\ n + 1 \in Name
    OBVIOUS
  <2>3. t = WithField(l, n + 1, type)
    OBVIOUS
  <2> HIDE DEF type
  <2>4. LET u == WithField(l, n + 1, type)
        IN  /\ IsLayout(u)
            /\ u.size = l.size + RuntimeSize(type)
            /\ u.offset = [l.offset EXCEPT ![n + 1] = l.size]
            /\ u.refs = IF type \in {"ref", "array"} THEN l.refs \cup {l.size} ELSE l.refs
            /\ u.slot = l.slot /\ u.table = l.table
    BY <2>1, <2>2, FieldAdded
  <2> QED
    BY <2>3, <2>4
<1>2. w \in Nat /\ w >= 1 /\ l.size \in Nat /\ a \in Nat /\ a <= l.size
  BY Sizes DEF Filling
<1>3. l.offset \in [Name -> Int] /\ Name = 1 .. NameCount /\ NameCount \in Nat
  BY NamesFinite DEF IsLayout
<1>4. Placed(c, n + 1) = Placed(c, n) \cup {n + 1} /\ n + 1 \notin Placed(c, n)
  BY DEF Placed
<1>5. t.offset[n + 1] = l.size /\ \A m \in Placed(c, n) : t.offset[m] = l.offset[m]
  BY <1>1, <1>3 DEF Placed
<1>6. /\ Span(t, c, n + 1) = l.size .. (t.size - 1)
      /\ \A m \in Placed(c, n) : Span(t, c, m) = Span(l, c, m)
  BY <1>1, <1>2, <1>5 DEF Span
<1>7. UNION {Span(t, c, m) : m \in Placed(c, n + 1)} = a .. (t.size - 1)
  <2>1. UNION {Span(t, c, m) : m \in Placed(c, n + 1)}
          = (UNION {Span(l, c, m) : m \in Placed(c, n)}) \cup (l.size .. (t.size - 1))
    <3>1. UNION {Span(t, c, m) : m \in Placed(c, n + 1)}
            = (UNION {Span(t, c, m) : m \in Placed(c, n)}) \cup Span(t, c, n + 1)
      BY <1>4
    <3>2. UNION {Span(t, c, m) : m \in Placed(c, n)} = UNION {Span(l, c, m) : m \in Placed(c, n)}
      BY <1>6
    <3> QED
      BY <1>6, <3>1, <3>2
  <2>2. UNION {Span(l, c, m) : m \in Placed(c, n)} = a .. (l.size - 1)
    BY DEF Filling
  <2>3. (a .. (l.size - 1)) \cup (l.size .. (t.size - 1)) = a .. (t.size - 1)
    BY <1>1, <1>2
  <2> QED
    BY <2>1, <2>2, <2>3
<1>8. ASSUME NEW m \in Placed(c, n) PROVE Span(t, c, m) \cap Span(t, c, n + 1) = {}
  <2>1. Span(t, c, m) \subseteq a .. (l.size - 1)
    <3>1. UNION {Span(l, c, k) : k \in Placed(c, n)} = a .. (l.size - 1)
      BY DEF Filling
    <3> QED
      BY <1>6, <3>1
  <2>2. (a .. (l.size - 1)) \cap (l.size .. (t.size - 1)) = {}
    BY <1>1, <1>2
  <2> QED
    BY <1>6, <2>1, <2>2
<1>9. \A m, k \in Placed(c, n + 1) : m # k => Span(t, c, m) \cap Span(t, c, k) = {}
  <2> SUFFICES ASSUME NEW m \in Placed(c, n + 1), NEW k \in Placed(c, n + 1), m # k
               PROVE  Span(t, c, m) \cap Span(t, c, k) = {}
    OBVIOUS
  <2>1. CASE m \in Placed(c, n) /\ k \in Placed(c, n)
    BY <1>6, <2>1 DEF Filling
  <2>2. CASE m = n + 1
    BY <1>4, <1>8, <2>2
  <2>3. CASE k = n + 1
    BY <1>4, <1>8, <2>3
  <2> QED
    BY <1>4, <2>1, <2>2, <2>3
<1>10. t.refs = Inherited(c).refs \cup
                  {t.offset[m] : m \in {k \in Placed(c, n + 1) :
                                          Member(c, k).type \in {"ref", "array"}}}
  <2> DEFINE L == {k \in Placed(c, n) : Member(c, k).type \in {"ref", "array"}}
             M == {k \in Placed(c, n + 1) : Member(c, k).type \in {"ref", "array"}}
  <2>1. l.refs = Inherited(c).refs \cup {l.offset[m] : m \in L}
    BY DEF Filling
  <2>2. M = IF type \in {"ref", "array"} THEN L \cup {n + 1} ELSE L
    BY <1>4
  <2>3. \A m \in L : t.offset[m] = l.offset[m]
    BY <1>5
  <2>4. t.offset[n + 1] = l.size
    BY <1>5
  <2> HIDE DEF L, M, type
  <2>5. {t.offset[m] : m \in L} = {l.offset[m] : m \in L}
    BY <2>3
  <2>6. {t.offset[m] : m \in M} = IF type \in {"ref", "array"}
                                  THEN {l.offset[m] : m \in L} \cup {l.size}
                                  ELSE {l.offset[m] : m \in L}
    BY <2>2, <2>4, <2>5
  <2>7. t.refs = Inherited(c).refs \cup {t.offset[m] : m \in M}
    BY <1>1, <2>1, <2>6 DEF type
  <2> QED
    BY <2>7 DEF M
<1> QED
  BY <1>1, <1>2, <1>7, <1>9, <1>10 DEF Filling

\* Anything else takes no words.
LEMMA OthersFill ==
  ASSUME NEW c \in Class, NEW n \in Nat, NEW l, Filling(c, n, l),
         Member(c, n + 1).kind # "field",
         NEW t, t.size = l.size, t.offset = l.offset, t.refs = l.refs
  PROVE  Filling(c, n + 1, t)
<1>1. Placed(c, n + 1) = Placed(c, n)
  BY DEF Placed
<1>2. \A m : Span(t, c, m) = Span(l, c, m)
  BY DEF Span
<1> QED
  BY <1>1, <1>2 DEF Filling

\* A virtual method has a slot of its own.
LEMMA VirtualSlots ==
  ASSUME NEW c \in Class, NEW n \in Nat, n + 1 \in Name, NEW l, IsLayout(l), Slotting(c, n, l),
         Virtual(c, n + 1), n + 1 \notin DOMAIN Inherited(c).slot,
         NEW t, t = WithVirtual(l, c, n + 1)
  PROVE  Slotting(c, n + 1, t) /\ IsLayout(t) /\ t.size = l.size /\ t.offset = l.offset /\ t.refs = l.refs
<1>1. n + 1 \notin DOMAIN l.slot
  BY DEF Slotting
<1> DEFINE k == n + 1
<1>k. k \in Name /\ k \notin DOMAIN l.slot /\ t = WithVirtual(l, c, k)
  BY <1>1
<1> HIDE DEF k
<1>2. LET u == WithVirtual(l, c, k)
      IN  /\ IsLayout(u) /\ u.size = l.size /\ u.offset = l.offset /\ u.refs = l.refs
          /\ DOMAIN u.slot = DOMAIN l.slot \cup {k} /\ u.slot[k] = Len(l.table) + 1
          /\ \A m \in DOMAIN l.slot : u.slot[m] = l.slot[m]
          /\ u.table = Append(l.table, <<c, k>>)
  BY <1>k, VirtualAdded
<1>3. /\ IsLayout(t) /\ t.size = l.size /\ t.offset = l.offset /\ t.refs = l.refs
      /\ DOMAIN t.slot = DOMAIN l.slot \cup {k} /\ t.slot[k] = Len(l.table) + 1
      /\ \A m \in DOMAIN l.slot : t.slot[m] = l.slot[m]
      /\ t.table = Append(l.table, <<c, k>>)
  BY <1>k, <1>2
<1>4. /\ \A m \in DOMAIN l.slot : m \in Name /\ l.slot[m] \in 1 .. Len(l.table)
      /\ l.table \in Seq(Class \X Name) /\ Len(l.table) \in Nat
  BY DEF IsLayout
<1>5. /\ t.table[Len(l.table) + 1] = <<c, k>>
      /\ \A i \in 1 .. Len(l.table) : t.table[i] = l.table[i]
  <2>1. <<c, k>> \in Class \X Name
    BY <1>k
  <2> QED
    BY <1>3, <1>4, <2>1
<1>6. {m \in 1 .. k : Virtual(c, m)} = {m \in 1 .. n : Virtual(c, m)} \cup {k}
  BY DEF k
<1>7. DOMAIN t.slot = DOMAIN Inherited(c).slot \cup {m \in 1 .. k : Virtual(c, m)}
  BY <1>3, <1>6 DEF Slotting
<1>8. \A m \in DOMAIN Inherited(c).slot : t.slot[m] = Inherited(c).slot[m]
  BY <1>3 DEF Slotting
<1>9. \A m, j \in DOMAIN t.slot : t.slot[m] = t.slot[j] => m = j
  <2>1. \A m \in DOMAIN l.slot : t.slot[m] # Len(l.table) + 1
    BY <1>3, <1>4
  <2>2. \A m, j \in DOMAIN l.slot : t.slot[m] = t.slot[j] => m = j
    BY <1>3 DEF Slotting
  <2> QED
    BY <1>3, <2>1, <2>2
<1>10. ASSUME NEW m \in DOMAIN t.slot
       PROVE  t.table[t.slot[m]] =
                IF m \in 1 .. k /\ Member(c, m).kind \in {"virtual", "override"} THEN <<c, m>>
                ELSE Inherited(c).table[Inherited(c).slot[m]]
  <2>1. CASE m = k
    BY <1>3, <1>5, <2>1 DEF k, Virtual
  <2>2. CASE m # k
    <3>1. m \in DOMAIN l.slot /\ t.slot[m] = l.slot[m]
      BY <1>3, <2>2
    <3>2. t.table[t.slot[m]] = l.table[l.slot[m]]
      BY <1>4, <1>5, <3>1
    <3>3. m \in Name /\ Name \subseteq Nat
      BY <1>4, <3>1, NamesFinite
    <3>4. m \in 1 .. k <=> m \in 1 .. n
      BY <2>2, <3>3 DEF k
    <3> QED
      BY <3>1, <3>2, <3>4 DEF Slotting
  <2> QED
    BY <2>1, <2>2
<1>11. Slotting(c, k, t)
  BY <1>7, <1>8, <1>9, <1>10 DEF Slotting
<1> QED
  BY <1>3, <1>11 DEF k

\* An override takes the slot of its name.
LEMMA OverrideSlots ==
  ASSUME NEW c \in Class, NEW n \in Nat, n + 1 \in Name, NEW l, IsLayout(l), Slotting(c, n, l),
         Member(c, n + 1).kind = "override", n + 1 \in DOMAIN Inherited(c).slot,
         NEW t, t = WithOverride(l, c, n + 1)
  PROVE  Slotting(c, n + 1, t) /\ IsLayout(t) /\ t.size = l.size /\ t.offset = l.offset /\ t.refs = l.refs
<1>1. n + 1 \in DOMAIN l.slot
  BY DEF Slotting
<1> DEFINE k == n + 1
<1>k. k \in Name /\ k \in DOMAIN l.slot /\ t = WithOverride(l, c, k)
  BY <1>1
<1> HIDE DEF k
<1>2. LET u == WithOverride(l, c, k)
      IN  /\ IsLayout(u) /\ u.size = l.size /\ u.offset = l.offset /\ u.refs = l.refs
          /\ u.slot = l.slot /\ Len(u.table) = Len(l.table)
          /\ u.table[l.slot[k]] = <<c, k>>
          /\ \A i \in 1 .. Len(l.table) : i # l.slot[k] => u.table[i] = l.table[i]
  BY <1>k, OverrideAdded
<1>3. /\ IsLayout(t) /\ t.size = l.size /\ t.offset = l.offset /\ t.refs = l.refs
      /\ t.slot = l.slot
      /\ t.table[l.slot[k]] = <<c, k>>
      /\ \A i \in 1 .. Len(l.table) : i # l.slot[k] => t.table[i] = l.table[i]
  BY <1>k, <1>2
<1>4. \A m \in DOMAIN l.slot : m \in Name /\ l.slot[m] \in 1 .. Len(l.table)
  BY DEF IsLayout
<1>6. {m \in 1 .. k : Virtual(c, m)} = {m \in 1 .. n : Virtual(c, m)}
  BY DEF k, Virtual
<1>10. ASSUME NEW m \in DOMAIN t.slot
       PROVE  t.table[t.slot[m]] =
                IF m \in 1 .. k /\ Member(c, m).kind \in {"virtual", "override"} THEN <<c, m>>
                ELSE Inherited(c).table[Inherited(c).slot[m]]
  <2>1. CASE m = k
    BY <1>3, <2>1 DEF k
  <2>2. CASE m # k
    <3>1. m \in DOMAIN l.slot /\ l.slot[m] # l.slot[k]
      BY <1>k, <1>3, <2>2 DEF Slotting
    <3>2. t.table[t.slot[m]] = l.table[l.slot[m]]
      BY <1>3, <1>4, <3>1
    <3>3. m \in Name /\ Name \subseteq Nat
      BY <1>4, <3>1, NamesFinite
    <3>4. m \in 1 .. k <=> m \in 1 .. n
      BY <2>2, <3>3 DEF k
    <3> QED
      BY <3>1, <3>2, <3>4 DEF Slotting
  <2> QED
    BY <2>1, <2>2
<1>11. Slotting(c, k, t)
  BY <1>3, <1>6, <1>10 DEF Slotting
<1> QED
  BY <1>3, <1>11 DEF k

\* Anything else leaves the table alone.
LEMMA OthersSlot ==
  ASSUME NEW c \in Class, NEW n \in Nat, NEW l, IsLayout(l), Slotting(c, n, l),
         Member(c, n + 1).kind \notin {"virtual", "override"},
         NEW t, t.slot = l.slot, t.table = l.table
  PROVE  Slotting(c, n + 1, t)
<1>1. {m \in 1 .. n + 1 : Virtual(c, m)} = {m \in 1 .. n : Virtual(c, m)}
  BY DEF Virtual
<1>2. ASSUME NEW m \in DOMAIN l.slot
      PROVE  m \in 1 .. n + 1 /\ Member(c, m).kind \in {"virtual", "override"}
               <=> m \in 1 .. n /\ Member(c, m).kind \in {"virtual", "override"}
  <2>1. m \in Nat
    BY NamesFinite DEF IsLayout
  <2> QED
    BY <2>1
<1> QED
  BY <1>1, <1>2 DEF Slotting

\* All members are added: the fields one after another behind those of the
\* base, the methods in the slots of the base or in new ones.
LEMMA Completed ==
  ASSUME ProgramFine, NEW c \in Class, IsLayout(Inherited(c)), Inherited(c).size \in Nat,
         \A m, k \in DOMAIN Inherited(c).slot :
           Inherited(c).slot[m] = Inherited(c).slot[k] => m = k,
         \A n \in Name : /\ Member(c, n).kind # "none" => Member(c, n).type \notin Record
                         /\ Virtual(c, n) => n \notin DOMAIN Inherited(c).slot
                         /\ Member(c, n).kind = "override" => n \in DOMAIN Inherited(c).slot
  PROVE  /\ IsLayout(CompletedLayout(c))
         /\ Filling(c, NameCount, CompletedLayout(c))
         /\ Slotting(c, NameCount, CompletedLayout(c))
<1> DEFINE l == Laid(c)
           Good(n) == IsLayout(l[n]) /\ Filling(c, n, l[n]) /\ Slotting(c, n, l[n])
           S == {n \in Nat : Good(n)}
<1>1. Good(0)
  <2>1. l[0] = Inherited(c)
    BY LaidSteps
  <2>2. Placed(c, 0) = {} /\ 1 .. 0 = {}
    BY DEF Placed
  <2>3. Filling(c, 0, Inherited(c))
    BY <2>2 DEF Filling
  <2>4. Slotting(c, 0, Inherited(c))
    BY <2>2 DEF Slotting
  <2> QED
    BY <2>1, <2>3, <2>4
<1>2. ASSUME NEW n \in 0 .. NameCount - 1, Good(n) PROVE Good(n + 1)
  <2> DEFINE k == n + 1
             t == l[k]
             m == Member(c, k)
  <2>1. n \in Nat /\ k \in Name /\ k \in Nat
    BY NamesFinite
  <2>2. m.kind \in MemberKind /\ m.type \in Type
    BY <2>1, ProgramParts
  <2>3. t = WithMember(l[n], c, k)
    BY LaidSteps
  <2>4. CASE m.kind = "field"
    <3>1. t = WithField(l[n], k, m.type)
      BY <2>3, <2>4 DEF WithMember
    <3>2. m.type \notin Record
      BY <2>1, <2>4
    <3>3. IsLayout(t) /\ Filling(c, k, t) /\ t.slot = l[n].slot /\ t.table = l[n].table
      BY <1>2, <2>1, <2>2, <2>4, <3>1, <3>2, FieldFills
    <3> QED
      BY <1>2, <2>1, <2>4, <3>3, OthersSlot
  <2>5. CASE m.kind = "virtual"
    <3>1. t = WithVirtual(l[n], c, k)
      BY <2>3, <2>5 DEF WithMember
    <3>2. Virtual(c, k) /\ k \notin DOMAIN Inherited(c).slot
      BY <2>1, <2>5 DEF Virtual
    <3>3. /\ Slotting(c, k, t) /\ IsLayout(t)
          /\ t.size = l[n].size /\ t.offset = l[n].offset /\ t.refs = l[n].refs
      BY <1>2, <2>1, <3>1, <3>2, VirtualSlots
    <3> QED
      BY <1>2, <2>1, <2>5, <3>3, OthersFill
  <2>6. CASE m.kind = "override"
    <3>1. t = WithOverride(l[n], c, k)
      BY <2>3, <2>6 DEF WithMember
    <3>2. k \in DOMAIN Inherited(c).slot
      BY <2>1, <2>6
    <3>3. /\ Slotting(c, k, t) /\ IsLayout(t)
          /\ t.size = l[n].size /\ t.offset = l[n].offset /\ t.refs = l[n].refs
      BY <1>2, <2>1, <2>6, <3>1, <3>2, OverrideSlots
    <3> QED
      BY <1>2, <2>1, <2>6, <3>3, OthersFill
  <2>7. CASE m.kind \notin {"field", "virtual", "override"}
    <3>1. t = l[n]
      BY <2>3, <2>7 DEF WithMember
    <3> QED
      BY <1>2, <2>1, <2>7, <3>1, OthersFill, OthersSlot
  <2> QED
    BY <2>4, <2>5, <2>6, <2>7
<1>3. 0 \in S
  BY <1>1
<1>4. ASSUME NEW n \in 0 .. NameCount - 1, n \in S PROVE n + 1 \in S
  BY <1>2, <1>4
<1> HIDE DEF S
<1>5. \A n \in 0 .. NameCount : n \in S
  BY <1>3, <1>4, NamesFinite, BoundedInduction
<1>6. NameCount \in S
  BY <1>5, NamesFinite
<1>7. Good(NameCount)
  BY <1>6 DEF S
<1>8. CompletedLayout(c) = l[NameCount]
  BY LaidSteps
<1> QED
  BY <1>7, <1>8

-----------------------------------------------------------------------------
(***************************************************************************)
(* The layouts that are there stay as they are.                            *)
(***************************************************************************)

\* The program is not changed by loading it.
LEMMA SameProgram ==
  ASSUME program' = program
  PROVE  /\ \A c : SelfAndAncestors(c)' = SelfAndAncestors(c) /\ Base(c)' = Base(c)
         /\ \A c, n : /\ Member(c, n)' = Member(c, n) /\ Virtual(c, n)' = Virtual(c, n)
                      /\ Targets(c, n)' = Targets(c, n)
         /\ \A c : InstanceFields(c)' = InstanceFields(c)
         /\ \A S : Nearest(S)' = Nearest(S)
<1>1. \A c : SelfAndAncestors(c)' = SelfAndAncestors(c) /\ Base(c)' = Base(c)
  BY DEF SelfAndAncestors, Base
<1>2. \A c, n : Member(c, n)' = Member(c, n)
  BY DEF Member
<1>3. \A c, n : Virtual(c, n)' = Virtual(c, n) /\ Targets(c, n)' = Targets(c, n)
  BY <1>1, <1>2 DEF Virtual, Targets
<1>4. \A c : InstanceFields(c)' = InstanceFields(c)
  BY <1>1, <1>2 DEF InstanceFields
<1>5. \A S : Nearest(S)' = Nearest(S)
  BY <1>1 DEF Nearest
<1> QED
  BY <1>1, <1>2, <1>3, <1>4, <1>5

\* The classes above a complete class are complete.
LEMMA CompleteAbove ==
  ASSUME ProgramFine, Layouts, NEW d \in Class, Complete(d), NEW a \in SelfAndAncestors(d)
  PROVE  a \in Class /\ Complete(a) /\ Whole(a) /\ IsLayout(layout[a])
<1> DEFINE T == {b \in Class : Complete(b)}
<1>1. \A b \in T \ {Object} : Base(b) \in T
  <2> SUFFICES ASSUME NEW b \in T \ {Object} PROVE Base(b) \in T
    OBVIOUS
  <2>1. Base(b) \in Class
    BY ProgramParts
  <2>2. Complete(Base(b))
    BY DEF Layouts, Whole
  <2> QED
    BY <2>1, <2>2
<1>2. d \in T
  OBVIOUS
<1>3. SelfAndAncestors(d) \subseteq T
  <2> HIDE DEF T
  <2> QED
    BY <1>1, <1>2, ChainInduction
<1>4. a \in Class /\ Complete(a)
  BY <1>3
<1> QED
  BY <1>4 DEF Layouts

\* The fields of an object of a complete class have places and sizes.
LEMMA FieldSizes ==
  ASSUME ProgramFine, Layouts, NEW d \in Class, Complete(d), NEW f \in InstanceFields(d)
  PROVE  /\ f[1] \in SelfAndAncestors(d) /\ f[1] \in Class /\ f[2] \in Name /\ f = <<f[1], f[2]>>
         /\ Member(f[1], f[2]).type \in Type /\ Member(f[1], f[2]).type \notin Record
         /\ RuntimeSize(Member(f[1], f[2]).type) \in {1, 2}
         /\ layout[f[1]].offset[f[2]] \in Int
<1>1. /\ f[1] \in SelfAndAncestors(d) /\ f[2] \in Name /\ f = <<f[1], f[2]>>
      /\ Member(f[1], f[2]).kind = "field"
  BY DEF InstanceFields
<1>2. f[1] \in Class /\ Whole(f[1]) /\ IsLayout(layout[f[1]])
  BY <1>1, CompleteAbove
<1>3. Member(f[1], f[2]).type \in Type
  BY <1>1, <1>2, ProgramParts
<1>4. Member(f[1], f[2]).type \notin Record
  BY <1>1, <1>2 DEF Whole
<1>5. RuntimeSize(Member(f[1], f[2]).type) \in {1, 2}
  BY <1>3, <1>4, Sizes
<1> QED
  BY <1>1, <1>2, <1>3, <1>4, <1>5 DEF IsLayout

\* A complete class stays whole when its layout and those above it stay,
\* whatever becomes of the sizes of the records.
LEMMA WholeKept ==
  ASSUME ProgramFine, Layouts, NEW d \in Class, Complete(d),
         program' = program, \A a \in SelfAndAncestors(d) : layout'[a] = layout[a]
  PROVE  Complete(d)' /\ Whole(d)' /\ \A f \in InstanceFields(d) : Extent(f)' = Extent(f)
<1>1. /\ SelfAndAncestors(d)' = SelfAndAncestors(d) /\ Base(d)' = Base(d)
      /\ \A c, n : /\ Member(c, n)' = Member(c, n) /\ Virtual(c, n)' = Virtual(c, n)
                   /\ Targets(c, n)' = Targets(c, n)
      /\ InstanceFields(d)' = InstanceFields(d)
      /\ \A S : Nearest(S)' = Nearest(S)
  BY SameProgram
<1>2. d \in SelfAndAncestors(d) /\ (d # Object => Base(d) \in SelfAndAncestors(d))
  <2>1. d # Object => Base(d) \in Class
    BY ProgramParts
  <2> QED
    BY <2>1, Chain
<1>3. layout'[d] = layout[d] /\ (d # Object => layout'[Base(d)] = layout[Base(d)])
  BY <1>2
<1>4. Whole(d)
  BY DEF Layouts
<1>5. ASSUME NEW f \in InstanceFields(d)
      PROVE  layout'[f[1]] = layout[f[1]] /\ Extent(f)' = Extent(f)
  <2>1. /\ f[1] \in SelfAndAncestors(d)
        /\ Member(f[1], f[2]).type \in Type /\ Member(f[1], f[2]).type \notin Record
    BY FieldSizes
  <2>2. RuntimeSize(Member(f[1], f[2]).type)' = RuntimeSize(Member(f[1], f[2]).type)
    <3>1. Member(f[1], f[2])' = Member(f[1], f[2])
      BY <1>1
    <3> QED
      BY <2>1, <3>1, RecordAssumption DEF RuntimeSize, Type
  <2> QED
    BY <1>1, <2>1, <2>2 DEF Extent
<1>6. Filled(d)'
  <2>1. Filled(d)
    BY <1>4 DEF Whole
  <2>2. {Extent(f)' : f \in InstanceFields(d)'} = {Extent(f) : f \in InstanceFields(d)}
    BY <1>1, <1>5
  <2>3. (UNION {Extent(f) : f \in InstanceFields(d)} = 0 .. (layout[d].size - 1))'
    BY <1>3, <2>1, <2>2 DEF Filled
  <2>4. (\A f, g \in InstanceFields(d) : f # g => Extent(f) \cap Extent(g) = {})'
    BY <1>1, <1>5, <2>1 DEF Filled
  <2> DEFINE L == {g \in InstanceFields(d) : Member(g[1], g[2]).type \in {"ref", "array"}}
  <2>5. L' = L
    BY <1>1
  <2>6. {layout'[f[1]].offset[f[2]] : f \in L} = {layout[f[1]].offset[f[2]] : f \in L}
    BY <1>5
  <2>7. layout[d].refs = {layout[f[1]].offset[f[2]] : f \in L}
    BY <2>1 DEF Filled
  <2>8. layout'[d].refs = {layout'[f[1]].offset[f[2]] : f \in L'}
    BY <1>3, <2>5, <2>6, <2>7
  <2> QED
    BY <2>3, <2>4, <2>8 DEF Filled
<1>7. Slotted(d)'
  <2>1. Slotted(d)
    BY <1>4 DEF Whole
  <2>2. (DOMAIN layout[d].slot =
           {n \in Name : \E a \in SelfAndAncestors(d) : Virtual(a, n)})'
    BY <1>1, <1>3, <2>1 DEF Slotted
  <2>3. (\A n, m \in DOMAIN layout[d].slot :
           layout[d].slot[n] = layout[d].slot[m] => n = m)'
    BY <1>3, <2>1 DEF Slotted
  <2>4. (\A n \in DOMAIN layout[d].slot :
           layout[d].table[layout[d].slot[n]] = <<Nearest(Targets(d, n)), n>>)'
    <3>1. \A n : Nearest(Targets(d, n))' = Nearest(Targets(d, n))
      BY <1>1
    <3> QED
      BY <1>3, <2>1, <3>1 DEF Slotted
  <2>5. (\A a \in SelfAndAncestors(d) : \A n \in DOMAIN layout[a].slot :
           n \in DOMAIN layout[d].slot /\ layout[d].slot[n] = layout[a].slot[n])'
    BY <1>1, <1>3, <2>1 DEF Slotted
  <2> QED
    BY <2>2, <2>3, <2>4, <2>5 DEF Slotted
<1>8. Complete(d)' /\ (d # Object => Complete(Base(d))')
  BY <1>1, <1>3, <1>4 DEF Complete, Whole
<1> QED
  BY <1>1, <1>3, <1>4, <1>5, <1>6, <1>7, <1>8 DEF Whole

-----------------------------------------------------------------------------
(***************************************************************************)
(* A class is completed.                                                   *)
(***************************************************************************)
ClassDone(c) ==
  /\ ProgramFine /\ Layouts /\ c \in Class /\ ~Complete(c) /\ CanComplete(c)
  /\ \A r \in Record : length[r] = -1
  /\ program' = program /\ length' = length
  /\ layout' = [layout EXCEPT ![c] = CompletedLayout(c)]

\* Its base is complete, and no member of it holds a record.
LEMMA BaseFirst ==
  ASSUME NEW c, ClassDone(c)
  PROVE  /\ IsLayout(Inherited(c)) /\ Inherited(c).size \in Nat
         /\ c = Object => /\ Inherited(c).size = 0 /\ Inherited(c).refs = {}
                          /\ DOMAIN Inherited(c).slot = {}
         /\ c # Object => /\ Inherited(c).size = layout[Base(c)].size
                          /\ Inherited(c).refs = layout[Base(c)].refs
                          /\ Inherited(c).slot = layout[Base(c)].slot
                          /\ Inherited(c).table = layout[Base(c)].table
                          /\ Base(c) \in Class /\ Complete(Base(c)) /\ Whole(Base(c))
         /\ \A n \in Name : Member(c, n).kind # "none" => Member(c, n).type \notin Record
<1>0. c \in Class /\ ProgramFine
  BY DEF ClassDone
<1>1. Base(c) \in Class
  BY <1>0, ProgramParts
<1>2. IsLayout(layout[Base(c)]) /\ layout[Base(c)].size \in Nat \cup {-1}
  BY <1>1 DEF ClassDone, Layouts, Complete, Whole, NoLayout
<1>3. Inherited(c).size # -1
  BY DEF ClassDone, CanComplete
<1>4. /\ IsLayout(Inherited(c)) /\ Inherited(c).size \in Nat
      /\ c = Object => /\ Inherited(c).size = 0 /\ Inherited(c).refs = {}
                       /\ DOMAIN Inherited(c).slot = {}
      /\ c # Object => /\ Inherited(c).size = layout[Base(c)].size
                       /\ Inherited(c).refs = layout[Base(c)].refs
                       /\ Inherited(c).slot = layout[Base(c)].slot
                       /\ Inherited(c).table = layout[Base(c)].table
  BY <1>0, <1>2, <1>3, Beginning
<1>5. c # Object => Complete(Base(c)) /\ Whole(Base(c))
  BY <1>1, <1>3, <1>4 DEF ClassDone, Layouts, Complete
<1>6. ASSUME NEW n \in Name, Member(c, n).kind # "none", Member(c, n).type \in Record
      PROVE  FALSE
  <2>1. RuntimeSize(Member(c, n).type) # -1
    BY <1>6 DEF ClassDone, CanComplete, SizeKnown
  <2>2. RuntimeSize(Member(c, n).type) = length[Member(c, n).type]
    BY <1>6, RecordAssumption DEF RuntimeSize
  <2> QED
    BY <1>6, <2>1, <2>2 DEF ClassDone
<1> QED
  BY <1>1, <1>4, <1>5, <1>6

\* Its layout is the one its members give.
LEMMA DoneLayout ==
  ASSUME NEW c, ClassDone(c)
  PROVE  /\ layout'[c] = CompletedLayout(c)
         /\ IsLayout(layout'[c])
         /\ Filling(c, NameCount, layout'[c]) /\ Slotting(c, NameCount, layout'[c])
         /\ \A a \in Class : a # c => layout'[a] = layout[a]
         /\ DOMAIN layout' = Class
<1>0. c \in Class /\ ProgramFine /\ DOMAIN layout = Class
  BY DEF ClassDone, Layouts
<1>1. /\ IsLayout(Inherited(c)) /\ Inherited(c).size \in Nat
      /\ c = Object => DOMAIN Inherited(c).slot = {}
      /\ c # Object => Inherited(c).slot = layout[Base(c)].slot /\ Slotted(Base(c))
      /\ \A n \in Name : Member(c, n).kind # "none" => Member(c, n).type \notin Record
  BY BaseFirst DEF Whole
<1>2. \A m, k \in DOMAIN Inherited(c).slot :
        Inherited(c).slot[m] = Inherited(c).slot[k] => m = k
  <2>1. CASE c = Object
    BY <1>1, <2>1
  <2>2. CASE c # Object
    BY <1>1, <2>2 DEF Slotted
  <2> QED
    BY <2>1, <2>2
<1>3. ASSUME NEW n \in Name
      PROVE  /\ Virtual(c, n) => n \notin DOMAIN Inherited(c).slot
             /\ Member(c, n).kind = "override" => n \in DOMAIN Inherited(c).slot
  <2>1. /\ Virtual(c, n) => ~ \E a \in ProperAncestors(program, c) : Virtual(a, n)
        /\ Member(c, n).kind = "override" => \E a \in ProperAncestors(program, c) : Virtual(a, n)
    BY <1>0 DEF ProgramFine, Accepted, Virtual, Member
  <2>2. program.base \in [Class -> Class]
    BY <1>0, ProgramParts
  <2>3. CASE c = Object
    <3>1. ProperAncestors(program, c) = {}
      BY <1>0, <2>2, <2>3, AncestorsStep
    <3> QED
      BY <1>1, <2>1, <2>3, <3>1
  <2>4. CASE c # Object
    <3>1. ProperAncestors(program, c) = SelfAndAncestors(Base(c))
      BY <1>0, <2>2, <2>4, AncestorsStep DEF SelfAndAncestors, Base
    <3>2. DOMAIN Inherited(c).slot = {m \in Name : \E a \in SelfAndAncestors(Base(c)) : Virtual(a, m)}
      BY <1>1, <2>4 DEF Slotted
    <3> QED
      BY <2>1, <3>1, <3>2
  <2> QED
    BY <2>3, <2>4
<1>4. /\ IsLayout(CompletedLayout(c))
      /\ Filling(c, NameCount, CompletedLayout(c))
      /\ Slotting(c, NameCount, CompletedLayout(c))
  BY <1>0, <1>1, <1>2, <1>3, Completed
<1>5. /\ layout'[c] = CompletedLayout(c) /\ DOMAIN layout' = Class
      /\ \A a \in Class : a # c => layout'[a] = layout[a]
  BY <1>0 DEF ClassDone
<1> QED
  BY <1>4, <1>5

\* The other complete classes stay whole.
LEMMA OthersStay ==
  ASSUME NEW c, ClassDone(c), NEW d \in Class, Complete(d)
  PROVE  /\ d # c /\ c \notin SelfAndAncestors(d)
         /\ Complete(d)' /\ Whole(d)' /\ \A f \in InstanceFields(d) : Extent(f)' = Extent(f)
<1>1. ProgramFine /\ Layouts /\ ~Complete(c) /\ program' = program
  BY DEF ClassDone
<1>2. c \notin SelfAndAncestors(d)
  BY <1>1, CompleteAbove
<1>3. SelfAndAncestors(d) \subseteq Class
  BY <1>1, Chain
<1>4. \A a \in SelfAndAncestors(d) : layout'[a] = layout[a]
  BY <1>2, <1>3, DoneLayout
<1> QED
  BY <1>1, <1>2, <1>4, WholeKept

\* Its fields fill what the fields of the base have left.
LEMMA DoneFilled ==
  ASSUME NEW c, ClassDone(c)
  PROVE  Filled(c)'
<1> DEFINE l == layout'[c]
           s == Inherited(c).size
           Own == {<<c, m>> : m \in Placed(c, NameCount)}
           FromBase == IF c = Object THEN {} ELSE InstanceFields(Base(c))
           Refs(F) == {g \in F : Member(g[1], g[2]).type \in {"ref", "array"}}
<1>0. ProgramFine /\ Layouts /\ c \in Class /\ program' = program /\ length' = length
  BY DEF ClassDone
<1>1. /\ Filling(c, NameCount, l) /\ \A a \in Class : a # c => layout'[a] = layout[a]
  BY DoneLayout
<1>2. /\ s \in Nat /\ c = Object => s = 0 /\ Inherited(c).refs = {}
      /\ s \in Nat
      /\ c # Object => /\ s = layout[Base(c)].size /\ Inherited(c).refs = layout[Base(c)].refs
                       /\ Base(c) \in Class /\ Complete(Base(c)) /\ Filled(Base(c))
  BY BaseFirst DEF Whole
<1>3. /\ SelfAndAncestors(c)' = SelfAndAncestors(c) /\ InstanceFields(c)' = InstanceFields(c)
      /\ \A a, n : Member(a, n)' = Member(a, n)
  BY <1>0, SameProgram
<1>4. InstanceFields(c) = Own \cup FromBase
  <2>1. SelfAndAncestors(c) = IF c = Object THEN {c} ELSE {c} \cup SelfAndAncestors(Base(c))
    BY <1>0, Chain
  <2>2. Own = {f \in {c} \X Name : Member(f[1], f[2]).kind = "field"}
    BY NamesFinite DEF Placed
  <2>3. InstanceFields(c) = {f \in SelfAndAncestors(c) \X Name : Member(f[1], f[2]).kind = "field"}
    BY DEF InstanceFields
  <2>4. c # Object =>
          FromBase = {f \in SelfAndAncestors(Base(c)) \X Name : Member(f[1], f[2]).kind = "field"}
    BY DEF InstanceFields
  <2> HIDE DEF Own, FromBase
  <2>5. CASE c = Object
    BY <2>1, <2>2, <2>3, <2>5 DEF FromBase
  <2>6. CASE c # Object
    BY <2>1, <2>2, <2>3, <2>4, <2>6
  <2> QED
    BY <2>5, <2>6
<1>5. ASSUME NEW f \in FromBase
      PROVE  /\ c # Object /\ f[1] # c /\ layout'[f[1]] = layout[f[1]]
             /\ Extent(f)' = Extent(f) /\ Extent(f) \subseteq 0 .. (s - 1)
  <2>1. c # Object /\ f \in InstanceFields(Base(c))
    OBVIOUS
  <2>2. Base(c) \in Class /\ Complete(Base(c)) /\ Filled(Base(c)) /\ s = layout[Base(c)].size
    BY <1>2, <2>1
  <2>3. c \notin SelfAndAncestors(Base(c)) /\ Extent(f)' = Extent(f)
    BY <2>1, <2>2, OthersStay
  <2>4. f[1] \in SelfAndAncestors(Base(c)) /\ f[1] \in Class
    BY <1>0, <2>1, <2>2, FieldSizes
  <2>5. Extent(f) \subseteq 0 .. (s - 1)
    BY <2>1, <2>2 DEF Filled
  <2> QED
    BY <1>1, <2>1, <2>3, <2>4, <2>5
<1>6. ASSUME NEW m \in Placed(c, NameCount)
      PROVE  /\ Extent(<<c, m>>)' = Span(l, c, m) /\ Span(l, c, m) \subseteq s .. (l.size - 1)
  <2>1. Extent(<<c, m>>)' = Span(l, c, m)
    <3>1. RuntimeSize(Member(c, m).type)' = RuntimeSize(Member(c, m).type)
      BY <1>0, <1>3 DEF RuntimeSize
    <3> QED
      BY <3>1 DEF Extent, Span
  <2>2. UNION {Span(l, c, k) : k \in Placed(c, NameCount)} = s .. (l.size - 1)
    BY <1>1 DEF Filling
  <2> QED
    BY <2>1, <2>2
<1>7. (UNION {Extent(f) : f \in InstanceFields(c)} = 0 .. (layout[c].size - 1))'
  <2>1. UNION {Extent(f)' : f \in FromBase} = 0 .. (s - 1)
    <3>1. CASE c = Object
      <4>1. FromBase = {} /\ s = 0 /\ 0 .. (0 - 1) = {}
        BY <1>2, <3>1
      <4> QED
        BY <4>1
    <3>2. CASE c # Object
      <4>1. UNION {Extent(f) : f \in FromBase} = 0 .. (s - 1)
        BY <1>2, <3>2 DEF Filled
      <4>2. {Extent(f)' : f \in FromBase} = {Extent(f) : f \in FromBase}
        BY <1>5
      <4> QED
        BY <4>1, <4>2
    <3> QED
      BY <3>1, <3>2
  <2>2. UNION {Extent(f)' : f \in Own} = s .. (l.size - 1)
    <3>1. UNION {Span(l, c, m) : m \in Placed(c, NameCount)} = s .. (l.size - 1)
      BY <1>1 DEF Filling
    <3>2. {Extent(f)' : f \in Own} = {Span(l, c, m) : m \in Placed(c, NameCount)}
      BY <1>6
    <3> QED
      BY <3>1, <3>2
  <2> HIDE DEF Own, FromBase
  <2>3. UNION {Extent(f)' : f \in Own \cup FromBase}
          = (UNION {Extent(f)' : f \in Own}) \cup (UNION {Extent(f)' : f \in FromBase})
    OBVIOUS
  <2>4. (0 .. (s - 1)) \cup (s .. (l.size - 1)) = 0 .. (l.size - 1)
    BY <1>1, <1>2 DEF Filling
  <2>5. UNION {Extent(f)' : f \in InstanceFields(c)} = 0 .. (l.size - 1)
    BY <1>4, <2>1, <2>2, <2>3, <2>4
  <2> QED
    BY <1>3, <2>5
<1>8. ASSUME NEW f \in Own \cup FromBase, NEW g \in Own \cup FromBase, f # g
      PROVE  Extent(f)' \cap Extent(g)' = {}
  <2>0. (0 .. (s - 1)) \cap (s .. (l.size - 1)) = {}
    BY <1>1, <1>2 DEF Filling
  <2>1. CASE f \in FromBase /\ g \in FromBase
    BY <1>2, <1>5, <1>8, <2>1 DEF Filled
  <2>2. CASE f \in Own /\ g \in Own
    <3>1. PICK m \in Placed(c, NameCount), k \in Placed(c, NameCount) : f = <<c, m>> /\ g = <<c, k>>
      BY <2>2
    <3>2. m # k
      BY <1>8, <3>1
    <3>3. Span(l, c, m) \cap Span(l, c, k) = {}
      BY <1>1, <3>2 DEF Filling
    <3> QED
      BY <1>6, <3>1, <3>3
  <2>3. CASE f \in Own /\ g \in FromBase
    BY <1>5, <1>6, <2>0, <2>3
  <2>4. CASE f \in FromBase /\ g \in Own
    BY <1>5, <1>6, <2>0, <2>4
  <2> QED
    BY <2>1, <2>2, <2>3, <2>4
<1>9. l.refs = {layout'[f[1]].offset[f[2]] : f \in Refs(InstanceFields(c))}
  <2>1. Inherited(c).refs = {layout'[f[1]].offset[f[2]] : f \in Refs(FromBase)}
    <3>1. CASE c = Object
      BY <1>2, <3>1
    <3>2. CASE c # Object
      <4>1. Inherited(c).refs = {layout[f[1]].offset[f[2]] : f \in Refs(FromBase)}
        BY <1>2, <3>2 DEF Filled
      <4>2. {layout[f[1]].offset[f[2]] : f \in Refs(FromBase)}
              = {layout'[f[1]].offset[f[2]] : f \in Refs(FromBase)}
        BY <1>5
      <4> QED
        BY <4>1, <4>2
    <3> QED
      BY <3>1, <3>2
  <2>2. {l.offset[m] : m \in {k \in Placed(c, NameCount) : Member(c, k).type \in {"ref", "array"}}}
          = {layout'[f[1]].offset[f[2]] : f \in Refs(Own)}
    <3> DEFINE M == {k \in Placed(c, NameCount) : Member(c, k).type \in {"ref", "array"}}
    <3>1. \A m \in M : <<c, m>> \in Refs(Own)
      OBVIOUS
    <3>2. \A f \in Refs(Own) : \E m \in M : f = <<c, m>>
      OBVIOUS
    <3> DEFINE At(f) == layout'[f[1]].offset[f[2]]
               R == Refs(Own)
    <3>3. \A m : At(<<c, m>>) = l.offset[m]
      OBVIOUS
    <3> HIDE DEF M, R, At, l
    <3>4. {l.offset[m] : m \in M} = {At(f) : f \in R}
      <4>1. \A m \in M : <<c, m>> \in R
        BY <3>1 DEF R
      <4>2. \A f \in R : \E m \in M : f = <<c, m>>
        BY <3>2 DEF R
      <4> QED
        BY <3>3, <4>1, <4>2
    <3> QED
      BY <3>4 DEF M, R, At
  <2>3. l.refs = Inherited(c).refs \cup
                   {l.offset[m] : m \in {k \in Placed(c, NameCount) :
                                           Member(c, k).type \in {"ref", "array"}}}
    BY <1>1 DEF Filling
  <2>4. Refs(InstanceFields(c)) = Refs(Own) \cup Refs(FromBase)
    BY <1>4
  <2> HIDE DEF Own, FromBase, Refs
  <2> QED
    BY <2>1, <2>2, <2>3, <2>4
<1>10. (\A f, g \in InstanceFields(c) : f # g => Extent(f) \cap Extent(g) = {})'
  BY <1>3, <1>4, <1>8
<1>11. (layout[c].refs = {layout[f[1]].offset[f[2]] : f \in Refs(InstanceFields(c))})'
  <2>1. Refs(InstanceFields(c))' = Refs(InstanceFields(c))
    BY <1>3
  <2> HIDE DEF Refs
  <2> QED
    BY <1>9, <2>1
<1> QED
  BY <1>7, <1>10, <1>11 DEF Filled

\* Its methods are in the slots of the base or in new ones.
LEMMA DoneSlotted ==
  ASSUME NEW c, ClassDone(c)
  PROVE  Slotted(c)'
<1> DEFINE l == layout'[c]
           b == Base(c)
<1>0. ProgramFine /\ Layouts /\ c \in Class /\ program' = program
  BY DEF ClassDone
<1>1. /\ Slotting(c, NameCount, l) /\ \A a \in Class : a # c => layout'[a] = layout[a]
      /\ \A n \in DOMAIN l.slot : n \in Name
  <2>1. /\ Slotting(c, NameCount, l) /\ \A a \in Class : a # c => layout'[a] = layout[a]
        /\ IsLayout(l)
    BY DoneLayout
  <2> QED
    BY <2>1 DEF IsLayout
<1>2. /\ c = Object => DOMAIN Inherited(c).slot = {}
      /\ c # Object => /\ Inherited(c).slot = layout[b].slot /\ Inherited(c).table = layout[b].table
                       /\ b \in Class /\ Complete(b) /\ Slotted(b)
  BY BaseFirst DEF Whole
<1>3. /\ SelfAndAncestors(c)' = SelfAndAncestors(c)
      /\ \A a, n : Virtual(a, n)' = Virtual(a, n) /\ Targets(a, n)' = Targets(a, n)
      /\ \A S : Nearest(S)' = Nearest(S)
  BY <1>0, SameProgram
<1>4. /\ SelfAndAncestors(c) = IF c = Object THEN {c} ELSE {c} \cup SelfAndAncestors(b)
      /\ SelfAndAncestors(c) \subseteq Class
      /\ c # Object => c \notin SelfAndAncestors(b)
  BY <1>0, Chain
<1> HIDE DEF b
<1>5. DOMAIN l.slot = {n \in Name : \E a \in SelfAndAncestors(c) : Virtual(a, n)}
  <2>1. DOMAIN l.slot = DOMAIN Inherited(c).slot \cup {n \in Name : Virtual(c, n)}
    BY <1>1, NamesFinite DEF Slotting
  <2>2. CASE c = Object
    BY <1>2, <1>4, <2>1, <2>2
  <2>3. CASE c # Object
    <3>1. DOMAIN Inherited(c).slot = {n \in Name : \E a \in SelfAndAncestors(b) : Virtual(a, n)}
      BY <1>2, <2>3 DEF Slotted
    <3> QED
      BY <1>4, <2>1, <2>3, <3>1
  <2> QED
    BY <2>2, <2>3
<1>6. \A n, m \in DOMAIN l.slot : l.slot[n] = l.slot[m] => n = m
  BY <1>1 DEF Slotting
<1>7. ASSUME NEW n \in DOMAIN l.slot
      PROVE  l.table[l.slot[n]] = <<Nearest(Targets(c, n)), n>>
  <2>1. n \in Name /\ n \in 1 .. NameCount
    BY <1>1, NamesFinite
  <2>2. CASE Member(c, n).kind \in {"virtual", "override"}
    <3>1. l.table[l.slot[n]] = <<c, n>>
      BY <1>1, <2>1, <2>2 DEF Slotting
    <3>2. c \in Targets(c, n) /\ Targets(c, n) \in SUBSET SelfAndAncestors(c)
      BY <1>4, <2>2 DEF Targets
    <3>3. Nearest(Targets(c, n)) = c
      BY <1>0, <3>2, NearestSelf
    <3> QED
      BY <3>1, <3>3
  <2>3. CASE Member(c, n).kind \notin {"virtual", "override"}
    <3>1. l.table[l.slot[n]] = Inherited(c).table[Inherited(c).slot[n]]
      BY <1>1, <2>3 DEF Slotting
    <3>2. n \in DOMAIN Inherited(c).slot
      BY <1>1, <2>3 DEF Slotting, Virtual
    <3>3. c # Object
      BY <1>2, <3>2
    <3>4. Inherited(c).table[Inherited(c).slot[n]] = <<Nearest(Targets(b, n)), n>>
      BY <1>2, <3>2, <3>3 DEF Slotted
    <3>5. Targets(c, n) = Targets(b, n)
      BY <1>4, <2>3, <3>3 DEF Targets
    <3> QED
      BY <3>1, <3>4, <3>5
  <2> QED
    BY <2>2, <2>3
<1>8. ASSUME NEW a \in SelfAndAncestors(c), NEW n \in DOMAIN layout'[a].slot
      PROVE  n \in DOMAIN l.slot /\ l.slot[n] = layout'[a].slot[n]
  <2>1. CASE a = c
    BY <1>8, <2>1
  <2>2. CASE a # c
    <3>1. c # Object /\ a \in SelfAndAncestors(b) /\ layout'[a] = layout[a]
      BY <1>1, <1>4, <2>2
    <3>2. n \in DOMAIN layout[b].slot /\ layout[b].slot[n] = layout[a].slot[n]
      BY <1>2, <1>8, <3>1 DEF Slotted
    <3>3. n \in DOMAIN Inherited(c).slot /\ Inherited(c).slot[n] = layout[a].slot[n]
      BY <1>2, <3>1, <3>2
    <3> QED
      BY <1>1, <3>1, <3>3 DEF Slotting
  <2> QED
    BY <2>1, <2>2
<1>9. (DOMAIN layout[c].slot = {n \in Name : \E a \in SelfAndAncestors(c) : Virtual(a, n)})'
  BY <1>3, <1>5
<1>10. (\A n \in DOMAIN layout[c].slot :
          layout[c].table[layout[c].slot[n]] = <<Nearest(Targets(c, n)), n>>)'
  <2>1. \A n : Nearest(Targets(c, n))' = Nearest(Targets(c, n))
    BY <1>3
  <2> QED
    BY <1>7, <2>1
<1>11. (\A a \in SelfAndAncestors(c) : \A n \in DOMAIN layout[a].slot :
          n \in DOMAIN layout[c].slot /\ layout[c].slot[n] = layout[a].slot[n])'
  BY <1>3, <1>8
<1> QED
  BY <1>6, <1>9, <1>10, <1>11 DEF Slotted

\* Completing a class keeps the invariant of the layouts.
LEMMA DoneKeeps ==
  ASSUME NEW c, ClassDone(c)
  PROVE  Layouts' /\ Complete(c)' /\ \A d \in Class : d # c => (Complete(d)' <=> Complete(d))
<1>0. ProgramFine /\ Layouts /\ c \in Class /\ ~Complete(c) /\ program' = program
  BY DEF ClassDone
<1>1. /\ IsLayout(layout'[c]) /\ Filling(c, NameCount, layout'[c])
      /\ DOMAIN layout' = Class
      /\ \A a \in Class : a # c => layout'[a] = layout[a]
  BY DoneLayout
<1>2. layout'[c].size \in Nat
  BY <1>1 DEF Filling
<1>3. Complete(c)'
  BY <1>2 DEF Complete
<1>4. /\ Base(c)' = Base(c) /\ \A n : Member(c, n)' = Member(c, n)
      /\ c # Object => Base(c) # c
  <2>1. c # Object => c \notin SelfAndAncestors(Base(c)) /\ Base(c) \in SelfAndAncestors(Base(c))
    <3>1. Base(c) \in Class
      BY <1>0, ProgramParts
    <3> QED
      BY <1>0, <3>1, Chain
  <2> QED
    BY <1>0, <2>1, SameProgram
<1>5. Whole(c)'
  <2>1. c # Object => Base(c) \in Class /\ Complete(Base(c))
    BY BaseFirst
  <2>2. c # Object => Complete(Base(c))'
    BY <1>4, <2>1, OthersStay
  <2>3. \A n \in Name : Member(c, n).kind # "none" => Member(c, n).type \notin Record
    BY BaseFirst
  <2>4. Filled(c)' /\ Slotted(c)'
    BY DoneFilled, DoneSlotted
  <2> QED
    BY <1>2, <1>4, <2>2, <2>3, <2>4 DEF Whole
<1>6. ASSUME NEW d \in Class, d # c
      PROVE  /\ IsLayout(layout'[d]) /\ (Complete(d)' <=> Complete(d))
             /\ IF Complete(d)' THEN Whole(d)' ELSE layout'[d] = NoLayout
  <2>1. layout'[d] = layout[d]
    BY <1>1, <1>6
  <2>2. Complete(d)' <=> Complete(d)
    BY <2>1 DEF Complete
  <2>3. CASE Complete(d)
    BY <1>0, <2>1, <2>2, <2>3, OthersStay DEF Layouts
  <2>4. CASE ~Complete(d)
    BY <1>0, <2>1, <2>2, <2>4 DEF Layouts
  <2> QED
    BY <2>3, <2>4
<1>7. \A d \in Class : /\ IsLayout(layout[d])'
                       /\ (IF Complete(d) THEN Whole(d) ELSE layout[d] = NoLayout)'
  <2> SUFFICES ASSUME NEW d \in Class
               PROVE  /\ IsLayout(layout[d])'
                      /\ (IF Complete(d) THEN Whole(d) ELSE layout[d] = NoLayout)'
    OBVIOUS
  <2>1. CASE d = c
    BY <1>1, <1>3, <1>5, <2>1 DEF IsLayout, NoLayout
  <2>2. CASE d # c
    BY <1>6, <2>2 DEF IsLayout, NoLayout
  <2> QED
    BY <2>1, <2>2
<1> QED
  BY <1>1, <1>3, <1>6, <1>7 DEF Layouts

\* Layouts do not depend on anything else that a step changes.
LEMMA LayoutsStay ==
  ASSUME ProgramFine, Layouts, program' = program, layout' = layout
  PROVE  Layouts' /\ \A c \in Class : Complete(c)' <=> Complete(c)
<1>1. ASSUME NEW d \in Class
      PROVE  /\ IsLayout(layout[d])' /\ (Complete(d)' <=> Complete(d))
             /\ (IF Complete(d) THEN Whole(d) ELSE layout[d] = NoLayout)'
  <2>1. Complete(d)' <=> Complete(d)
    BY DEF Complete
  <2>2. CASE Complete(d)
    BY <2>1, <2>2, WholeKept DEF Layouts, IsLayout, NoLayout
  <2>3. CASE ~Complete(d)
    BY <2>1, <2>3 DEF Layouts, IsLayout, NoLayout
  <2> QED
    BY <2>2, <2>3
<1>2. DOMAIN layout' = Class
  BY DEF Layouts
<1> QED
  BY <1>1, <1>2 DEF Layouts

\* Virtual calls reach the nearest method.
LEMMA LayoutsDispatch ==
  ASSUME ProgramFine, Layouts
  PROVE  DispatchExact
<1> SUFFICES ASSUME NEW d \in Class, NEW n \in Name, Complete(d), NEW c \in SelfAndAncestors(d),
                    Owners(c, n) # {},
                    Member(Nearest(Owners(c, n)), n).kind \in {"virtual", "override"}
             PROVE  LET targets == {a \in Owners(d, n) : Member(a, n).kind \in {"virtual", "override"}}
                    IN  layout[d].table[layout[Nearest(Owners(c, n))].slot[n]]
                          = <<Nearest(targets), n>>
  BY DEF DispatchExact
<1> DEFINE s == Nearest(Owners(c, n))
           targets == {a \in Owners(d, n) : Member(a, n).kind \in {"virtual", "override"}}
<1>1. c \in Class /\ SelfAndAncestors(c) \subseteq SelfAndAncestors(d)
  BY CompleteAbove, ChainOrder
<1>2. s \in Owners(c, n)
  <2>1. Owners(c, n) \in SUBSET SelfAndAncestors(c)
    BY DEF Owners
  <2> QED
    BY <1>1, <2>1, NearestExists
<1>3. s \in SelfAndAncestors(d) /\ Member(s, n).kind \in {"virtual", "override"}
  BY <1>1, <1>2 DEF Owners
<1> HIDE DEF s
<1>4. s \in Class /\ Slotted(s) /\ Slotted(d)
  <2>1. s \in Class /\ Whole(s)
    BY <1>3, CompleteAbove
  <2>2. Whole(d)
    BY DEF Layouts
  <2> QED
    BY <2>1, <2>2 DEF Whole
<1>5. \E a \in SelfAndAncestors(s) : Virtual(a, n)
  <2>1. CASE Member(s, n).kind = "virtual"
    BY <2>1, <1>4, Chain DEF Virtual
  <2>2. CASE Member(s, n).kind = "override"
    BY <1>4, <2>2 DEF ProgramFine, Accepted, Virtual, Member, SelfAndAncestors
  <2> QED
    BY <1>3, <2>1, <2>2
<1>6. n \in DOMAIN layout[s].slot
  BY <1>4, <1>5 DEF Slotted
<1>7. n \in DOMAIN layout[d].slot /\ layout[d].slot[n] = layout[s].slot[n]
  BY <1>3, <1>4, <1>6 DEF Slotted
<1>8. layout[d].table[layout[d].slot[n]] = <<Nearest(Targets(d, n)), n>>
  BY <1>4, <1>7 DEF Slotted
<1>9. targets = Targets(d, n)
  BY DEF Owners, Targets
<1> HIDE DEF targets
<1>10. layout[d].table[layout[s].slot[n]] = <<Nearest(targets), n>>
  BY <1>7, <1>8, <1>9
<1> QED
  BY <1>10 DEF s, targets

\* The fields fill the objects.
LEMMA LayoutsFill ==
  ASSUME ProgramFine, Layouts, TypeOK
  PROVE  ObjectLayoutExact
<1>1. ASSUME NEW c \in Class, Complete(c) PROVE Filled(c)
  BY <1>1 DEF Layouts, Whole
<1> QED
  BY <1>1 DEF ObjectLayoutExact, Filled

-----------------------------------------------------------------------------
(***************************************************************************)
(* The graphs that load sorts.                                             *)
(***************************************************************************)

\* Every class has Object above it, or is Object.
LEMMA ObjectAbove ==
  ASSUME ProgramFine
  PROVE  \A c \in Class : Object \in SelfAndAncestors(c)
<1> DEFINE Count(c) == Cardinality(SelfAndAncestors(c))
           S == {k \in Nat : \A c \in Class : Count(c) <= k => Object \in SelfAndAncestors(c)}
<1>1. ASSUME NEW c \in Class
      PROVE  /\ IsFiniteSet(SelfAndAncestors(c)) /\ Count(c) \in Nat /\ Count(c) # 0
             /\ c \in SelfAndAncestors(c)
  <2>1. SelfAndAncestors(c) \in SUBSET Class /\ c \in SelfAndAncestors(c)
    BY Chain
  <2>2. IsFiniteSet(SelfAndAncestors(c))
    BY <2>1, ClassesFinite, FS_Subset
  <2>3. Count(c) \in Nat /\ (Count(c) = 0 <=> SelfAndAncestors(c) = {})
    BY <2>2, FS_CardinalityType, FS_EmptySet
  <2> QED
    BY <2>1, <2>2, <2>3
<1>2. 0 \in S
  <2> SUFFICES ASSUME NEW c \in Class, Count(c) <= 0 PROVE FALSE
    OBVIOUS
  <2>1. Count(c) \in Nat /\ Count(c) # 0
    BY <1>1
  <2> HIDE DEF Count
  <2> QED
    BY <2>1
<1>3. ASSUME NEW k \in S PROVE k + 1 \in S
  <2> SUFFICES ASSUME NEW c \in Class, Count(c) <= k + 1, c # Object
               PROVE  Object \in SelfAndAncestors(c)
    BY <1>1
  <2>1. Base(c) \in Class
    BY ProgramParts
  <2>2. /\ SelfAndAncestors(c) = {c} \cup SelfAndAncestors(Base(c))
        /\ c \notin SelfAndAncestors(Base(c))
    BY Chain
  <2>3. Count(c) = Count(Base(c)) + 1
    <3>1. IsFiniteSet(SelfAndAncestors(Base(c)))
      BY <1>1, <2>1
    <3>2. SelfAndAncestors(c) = SelfAndAncestors(Base(c)) \cup {c}
      BY <2>2
    <3> QED
      BY <2>2, <3>1, <3>2, FS_AddElement
  <2>4. Count(c) \in Nat /\ Count(Base(c)) \in Nat /\ k \in Nat
    BY <1>1, <2>1
  <2> HIDE DEF Count
  <2>5. Count(Base(c)) <= k
    BY <2>3, <2>4
  <2>6. Object \in SelfAndAncestors(Base(c))
    BY <1>3, <2>1, <2>5
  <2> QED
    BY <2>2, <2>6
<1>4. S = Nat
  <2> HIDE DEF S
  <2>1. S \subseteq Nat
    BY DEF S
  <2> QED
    BY <1>2, <1>3, <2>1, SetInduction
<1>5. \A c \in Class : Count(c) \in S
  BY <1>1, <1>4
<1> QED
  BY <1>5

Inheriting == Visited(Class) \ {Object}

LEMMA InheritGraphParts ==
  ASSUME ProgramFine
  PROVE  /\ InheritGraph.vexs = Inheriting \cup {Base(c) : c \in Inheriting}
         /\ InheritGraph.edges = {<<Base(c), c>> : c \in Inheriting}
         /\ SortInv(Class, InheritGraph) /\ SortCounted(InheritGraph)
<1> DEFINE g == InheritGraph
           V == Inheriting \cup {Base(c) : c \in Inheriting}
           E == {<<Base(c), c>> : c \in Inheriting}
           D == [c \in Class |-> IF c \in Inheriting THEN 1 ELSE 0]
<1>1. g = [phase |-> "open", vexs |-> V, edges |-> E, in_degree |-> D,
           visited |-> {}, q |-> <<>>, order |-> <<>>, todo |-> {}]
  <2> DEFINE none == [v \in Class |-> 0]
  <2>1. Inherit!Empty = [phase |-> "open", vexs |-> {}, edges |-> {}, in_degree |-> none,
                         visited |-> {}, q |-> <<>>, order |-> <<>>, todo |-> {}]
    BY DEF Inherit!Empty
  <2>2. g = [Inherit!Empty EXCEPT !.vexs = V, !.edges = E, !.in_degree = D]
    BY DEF InheritGraph, Inheriting
  <2> HIDE DEF none, g, V, E, D
  <2> QED
    BY <2>1, <2>2
<1>2. Inheriting \subseteq Class /\ \A c \in Inheriting : Base(c) \in Class
  BY ProgramParts DEF Inheriting, Visited
<1>3. V \in SUBSET Class /\ E \in SUBSET (Class \X Class) /\ D \in [Class -> Nat]
      /\ E \subseteq V \X V
  BY <1>2
<1>4. IsFiniteSet(V)
  BY <1>3, ClassesFinite, FS_Subset
<1>5. ASSUME NEW v \in V PROVE D[v] = Cardinality(WaitingOf(g, v))
  <2>1. v \in Class
    BY <1>3
  <2>2. WaitingOf(g, v) = {u \in V : <<u, v>> \in E}
    BY <1>1 DEF WaitingOf, OrderOf, SetOf
  <2>3. CASE v \in Inheriting
    <3>1. WaitingOf(g, v) = {Base(v)}
      BY <2>2, <2>3
    <3>2. Cardinality(WaitingOf(g, v)) = 1
      BY <3>1, FS_Singleton
    <3> QED
      BY <2>1, <2>3, <3>2
  <2>4. CASE v \notin Inheriting
    <3>1. WaitingOf(g, v) = {}
      BY <2>2, <2>4
    <3>2. Cardinality(WaitingOf(g, v)) = 0
      BY <3>1, FS_EmptySet
    <3> QED
      BY <2>1, <2>4, <3>2
  <2> QED
    BY <2>3, <2>4
<1> HIDE DEF g, V, E, D
<1>6. g \in SortStates(Class)
  BY <1>1, <1>3 DEF SortStates, SortPhases
<1>7. \A v \in g.vexs : g.in_degree[v] = Cardinality(WaitingOf(g, v)) /\ g.in_degree[v] \in Nat
  BY <1>1, <1>3, <1>5
<1>8. SortInv(Class, g)
  <2>1. \A v \in g.vexs : g.in_degree[v] >= Cardinality(WaitingOf(g, v))
    BY <1>7
  <2> QED
    BY <1>1, <1>3, <1>4, <1>6, <2>1, OpenKeeps
<1>9. SortCounted(g)
  BY <1>7 DEF SortCounted
<1> QED
  BY <1>1, <1>8, <1>9 DEF g, V, E

\* No class inherits from itself: of some classes one has its base elsewhere.
LEMMA InheritAcyclic ==
  ASSUME ProgramFine, inherit.vexs = InheritGraph.vexs, inherit.edges = InheritGraph.edges
  PROVE  SortAcyclic(inherit)
<1>1. /\ inherit.vexs \subseteq Class
      /\ inherit.edges = {<<Base(c), c>> : c \in Inheriting}
      /\ \A c \in Inheriting : c # Object
  <2>1. \A c \in Inheriting : c \in Class /\ Base(c) \in Class /\ c # Object
    BY ProgramParts DEF Inheriting, Visited
  <2> QED
    BY <2>1, InheritGraphParts
<1> SUFFICES ASSUME NEW S \in SUBSET inherit.vexs, S # {},
                    \A v \in S : \E u \in S : <<u, v>> \in inherit.edges
             PROVE  FALSE
  BY DEF SortAcyclic
<1>2. PICK c \in S : TRUE
  OBVIOUS
<1>3. \A v \in S : v # Object /\ Base(v) \in S
  BY <1>1
<1>4. SelfAndAncestors(c) \subseteq S
  BY <1>1, <1>2, <1>3, ChainInduction
<1>5. Object \in S
  BY <1>1, <1>2, <1>4, ObjectAbove
<1> QED
  BY <1>3, <1>5

\* A record has at least as many record fields as record types in them, and
\* as many if no two are of one type.
LEMMA ContainingCounts ==
  ASSUME ProgramFine, NEW r \in Record
  PROVE  /\ Cardinality(Containing(r)) \in Nat
         /\ Contained(r) \subseteq Record
         /\ Cardinality(Containing(r)) >= Cardinality(Contained(r))
         /\ (\A s \in Contained(r) : Cardinality(FieldsOf(r, s)) = 1) =>
              Cardinality(Containing(r)) = Cardinality(Contained(r))
<1> DEFINE f == [n \in Containing(r) |-> FieldType(r, n)]
<1>1. Containing(r) \in SUBSET Name /\ IsFiniteSet(Name)
  BY NameAssumption DEF Containing, Fields
<1>2. IsFiniteSet(Containing(r)) /\ Cardinality(Containing(r)) \in Nat
  BY <1>1, FS_Subset, FS_CardinalityType
<1>3. Contained(r) = {FieldType(r, n) : n \in Containing(r)}
  BY DEF Contained, Containing, FieldTypes
<1>4. f \in Surjection(Containing(r), Contained(r))
  BY <1>3 DEF Surjection
<1>5. /\ IsFiniteSet(Contained(r)) /\ Cardinality(Contained(r)) <= Cardinality(Containing(r))
      /\ Cardinality(Contained(r)) = Cardinality(Containing(r))
           <=> f \in Injection(Containing(r), Contained(r))
  <2> HIDE DEF f
  <2> QED
    BY <1>2, <1>4, FS_Surjection
<1>6. ASSUME \A s \in Contained(r) : Cardinality(FieldsOf(r, s)) = 1
      PROVE  f \in Injection(Containing(r), Contained(r))
  <2> SUFFICES ASSUME NEW n \in Containing(r), NEW m \in Containing(r), f[n] = f[m]
               PROVE  n = m
    BY <1>4 DEF Injection, Surjection, IsInjective
  <2> DEFINE s == FieldType(r, n)
  <2>1. s \in Contained(r) /\ n \in FieldsOf(r, s) /\ m \in FieldsOf(r, s)
    BY <1>3 DEF FieldsOf, Containing
  <2>2. IsFiniteSet(FieldsOf(r, s)) /\ Cardinality(FieldsOf(r, s)) = 1
    <3>1. FieldsOf(r, s) \in SUBSET Name
      BY DEF FieldsOf, Fields
    <3> QED
      BY <1>1, <1>6, <2>1, <3>1, FS_Subset
  <2>3. \E x : FieldsOf(r, s) = {x}
    BY <2>2, FS_Singleton
  <2> QED
    BY <2>1, <2>3
<1>7. Contained(r) \subseteq Record /\ Cardinality(Contained(r)) \in Nat
  BY <1>5, FS_CardinalityType DEF Contained
<1> HIDE DEF f
<1> QED
  BY <1>2, <1>5, <1>6, <1>7

LEMMA SizeGraphParts ==
  ASSUME ProgramFine
  PROVE  /\ SizeGraph.vexs = Visited(Record) \cup UNION {Contained(r) : r \in Visited(Record)}
         /\ SizeGraph.edges = UNION {Contained(r) \X {r} : r \in Visited(Record)}
         /\ SortInv(Record, SizeGraph)
         /\ Loadable => SortCounted(SizeGraph)
<1> DEFINE g == SizeGraph
           R == Visited(Record)
           V == R \cup UNION {Contained(r) : r \in R}
           E == UNION {Contained(r) \X {r} : r \in R}
           D == [r \in Record |-> IF r \in R THEN Cardinality(Containing(r)) ELSE 0]
<1>1. g = [phase |-> "open", vexs |-> V, edges |-> E, in_degree |-> D,
           visited |-> {}, q |-> <<>>, order |-> <<>>, todo |-> {}]
  <2> DEFINE none == [v \in Record |-> 0]
  <2>1. Size!Empty = [phase |-> "open", vexs |-> {}, edges |-> {}, in_degree |-> none,
                      visited |-> {}, q |-> <<>>, order |-> <<>>, todo |-> {}]
    BY DEF Size!Empty
  <2>2. g = [Size!Empty EXCEPT !.vexs = V, !.edges = E, !.in_degree = D]
    BY DEF SizeGraph
  <2> HIDE DEF none, g, V, E, D
  <2> QED
    BY <2>1, <2>2
<1>2. /\ R \subseteq Record
      /\ \A r \in R : Contained(r) \subseteq Record /\ Contained(r) \subseteq V
  BY ContainingCounts DEF Visited
<1>3. V \in SUBSET Record /\ D \in [Record -> Nat]
  BY <1>2, ContainingCounts
<1>4. E \in SUBSET (Record \X Record) /\ E \subseteq V \X V
  BY <1>2
<1>5. IsFiniteSet(V)
  BY <1>3, RecordAssumption, FS_Subset
<1>6. ASSUME NEW v \in V
      PROVE  /\ D[v] >= Cardinality(WaitingOf(g, v))
             /\ Loadable => D[v] = Cardinality(WaitingOf(g, v))
  <2>1. v \in Record
    BY <1>3
  <2>2. WaitingOf(g, v) = {u \in V : <<u, v>> \in E}
    BY <1>1 DEF WaitingOf, OrderOf, SetOf
  <2>3. CASE v \in R
    <3>1. WaitingOf(g, v) = Contained(v)
      BY <1>2, <2>2, <2>3
    <3>2. D[v] = Cardinality(Containing(v))
      BY <2>1, <2>3
    <3>3. Loadable => \A s \in Contained(v) : Cardinality(FieldsOf(v, s)) = 1
      BY <2>1 DEF Loadable
    <3> HIDE DEF g, V, E, D, R
    <3> QED
      BY <2>1, <3>1, <3>2, <3>3, ContainingCounts
  <2>4. CASE v \notin R
    <3>1. WaitingOf(g, v) = {}
      BY <2>2, <2>4
    <3>2. Cardinality(WaitingOf(g, v)) = 0
      BY <3>1, FS_EmptySet
    <3> QED
      BY <2>1, <2>4, <3>2
  <2> QED
    BY <2>3, <2>4
<1> HIDE DEF g, R, V, E, D
<1>7. g \in SortStates(Record)
  BY <1>1, <1>3, <1>4 DEF SortStates, SortPhases
<1>8. SortInv(Record, g)
  <2>1. \A v \in g.vexs : g.in_degree[v] >= Cardinality(WaitingOf(g, v))
    BY <1>1, <1>6
  <2> QED
    BY <1>1, <1>4, <1>5, <1>7, <2>1, OpenKeeps
<1>9. Loadable => SortCounted(g)
  BY <1>1, <1>6 DEF SortCounted
<1> QED
  BY <1>1, <1>8, <1>9 DEF g, R, V, E

\* In a program load is written for no record contains itself.
LEMMA SizeAcyclic ==
  ASSUME ProgramFine, Loadable, size.vexs = SizeGraph.vexs, size.edges = SizeGraph.edges
  PROVE  SortAcyclic(size)
<1>1. size.vexs \subseteq Record
  BY SizeGraphParts, ContainingCounts DEF Visited
<1>2. \A u, r : <<u, r>> \in size.edges => u \in Contained(r)
  BY SizeGraphParts
<1> SUFFICES ASSUME NEW S \in SUBSET size.vexs, S # {}
             PROVE  \E v \in S : \A u \in S : <<u, v>> \notin size.edges
  BY DEF SortAcyclic
<1>3. PICK r \in S : Contained(r) \cap S = {}
  BY <1>1 DEF Loadable, RecordsAcyclic
<1> QED
  BY <1>2, <1>3

-----------------------------------------------------------------------------
(***************************************************************************)
(* Length adds one field after another.                                    *)
(***************************************************************************)
FieldLength(r, n, sum) ==
  CASE n \notin Fields(r) -> 0
    [] FieldType(r, n) = r -> sum
    [] OTHER -> RuntimeSize(FieldType(r, n))

Adding(r, f, n) == IF n = 0 THEN 0 ELSE f[n - 1] + FieldLength(r, n, f[n - 1])

\* The function it chooses exists.
LEMMA AddingExists ==
  ASSUME NEW r
  PROVE  \A k \in Nat : \E f : f = [n \in 0 .. k |-> Adding(r, f, n)]
<1> DEFINE S == {k \in Nat : \E f : f = [n \in 0 .. k |-> Adding(r, f, n)]}
<1>1. 0 \in S
  <2> DEFINE g == [n \in 0 .. 0 |-> 0]
  <2>1. g = [n \in 0 .. 0 |-> Adding(r, g, n)]
    BY DEF Adding
  <2> HIDE DEF g
  <2> QED
    BY <2>1
<1>2. ASSUME NEW k \in S PROVE k + 1 \in S
  <2>1. PICK f : f = [n \in 0 .. k |-> Adding(r, f, n)]
    BY <1>2
  <2> DEFINE g == [n \in 0 .. k + 1 |-> IF n = k + 1 THEN Adding(r, f, n) ELSE f[n]]
  <2>2. ASSUME NEW n \in 0 .. k + 1 PROVE g[n] = Adding(r, g, n)
    <3>1. k \in Nat
      OBVIOUS
    <3>2. CASE n = 0
      BY <2>1, <3>1, <3>2 DEF Adding
    <3>3. CASE n # 0
      <4>1. n - 1 \in 0 .. k /\ g[n - 1] = f[n - 1]
        BY <3>1, <3>3
      <4>2. g[n] = Adding(r, f, n)
        BY <2>1, <3>1
      <4> QED
        BY <3>3, <4>1, <4>2 DEF Adding
    <3> QED
      BY <3>2, <3>3
  <2>3. g = [n \in 0 .. k + 1 |-> g[n]]
    OBVIOUS
  <2> HIDE DEF g
  <2>4. g = [n \in 0 .. k + 1 |-> Adding(r, g, n)]
    BY <2>2, <2>3
  <2> QED
    BY <2>4
<1> HIDE DEF S
<1>3. S = Nat
  <2>1. S \subseteq Nat
    BY DEF S
  <2> QED
    BY <1>1, <1>2, <2>1, SetInduction
<1> QED
  BY <1>3 DEF S

\* The lengths after each field.
Added(r) == CHOOSE f : f = [n \in 0 .. NameCount |-> Adding(r, f, n)]

\* When the sizes of the fields are known the record has a size.
LEMMA LengthKnown ==
  ASSUME ProgramFine, NEW r \in Record, length \in [Record -> Nat \cup {-1}],
         \A type \in FieldTypes(r) \ {r} : SizeKnown(type)
  PROVE  Length(r) \in Nat
<1>1. Added(r) = [n \in 0 .. NameCount |-> Adding(r, Added(r), n)]
  <2>1. \E f : f = [n \in 0 .. NameCount |-> Adding(r, f, n)]
    BY AddingExists, NamesFinite
  <2> QED
    BY <2>1 DEF Added
<1>2. Length(r) = Added(r)[NameCount]
  BY DEF Length, Added, Adding, FieldLength, NameCount
<1>3. \A n \in 0 .. NameCount : Added(r)[n] = Adding(r, Added(r), n)
  BY <1>1
<1> DEFINE S == {n \in Nat : Added(r)[n] \in Nat}
<1>4. 0 \in S
  <2>1. Added(r)[0] = Adding(r, Added(r), 0)
    BY <1>3, NamesFinite
  <2> QED
    BY <2>1 DEF Adding
<1>5. ASSUME NEW n \in 0 .. NameCount - 1, n \in S PROVE n + 1 \in S
  <2>1. n + 1 \in 0 .. NameCount /\ n + 1 # 0 /\ (n + 1) - 1 = n /\ n + 1 \in Name /\ n \in Nat
    BY NamesFinite
  <2>2. Added(r)[n] \in Nat
    BY <1>5
  <2>3. Added(r)[n + 1] = Added(r)[n] + FieldLength(r, n + 1, Added(r)[n])
    <3>1. Added(r)[n + 1] = Adding(r, Added(r), n + 1)
      BY <1>3, <2>1
    <3> QED
      BY <2>1, <3>1 DEF Adding
  <2> DEFINE k == n + 1
             type == FieldType(r, k)
  <2>4. ASSUME k \in Fields(r), type # r PROVE RuntimeSize(type) \in Nat
    <3>1. type \in FieldTypes(r) \ {r}
      BY <2>4 DEF FieldTypes
    <3>2. RuntimeSize(type) # -1
      BY <3>1 DEF SizeKnown
    <3>3. type \in Type
      <4>1. type # "none"
        BY <2>4 DEF Fields
      <4>2. type \in Type \cup {"none"}
        BY <2>1, ProgramParts DEF FieldType
      <4> QED
        BY <4>1, <4>2
    <3> HIDE DEF type
    <3>4. CASE type \in Record
      <4>1. RuntimeSize(type) = length[type]
        BY <3>4, RecordAssumption DEF RuntimeSize
      <4> QED
        BY <3>2, <3>4, <4>1
    <3>5. CASE type \notin Record
      BY <3>3, <3>5, Sizes
    <3> QED
      BY <3>4, <3>5
  <2>5. FieldLength(r, k, Added(r)[n]) \in Nat
    <3>1. CASE k \notin Fields(r)
      <4>1. type = "none"
        BY <2>1, <3>1 DEF Fields
      <4>2. type # r
        BY <4>1, RecordAssumption
      <4> QED
        BY <3>1, <4>2 DEF FieldLength
    <3>2. CASE k \in Fields(r) /\ type = r
      BY <2>2, <3>2 DEF FieldLength
    <3>3. CASE k \in Fields(r) /\ type # r
      BY <2>4, <3>3 DEF FieldLength
    <3> QED
      BY <3>1, <3>2, <3>3
  <2> QED
    BY <2>1, <2>2, <2>3, <2>5
<1> HIDE DEF S
<1>6. \A n \in 0 .. NameCount : n \in S
  BY <1>4, <1>5, NamesFinite, BoundedInduction
<1>7. NameCount \in S
  BY <1>6, NamesFinite
<1> QED
  BY <1>2, <1>7 DEF S

-----------------------------------------------------------------------------
(***************************************************************************)
(* The loops of load run over an order.                                    *)
(***************************************************************************)

\* What is left of the order of the sort s: the vertices that are open, a
\* vertex after those it depends on.
Left(V, rest, s, open) ==
  /\ rest \in Seq(V) /\ Once(rest) /\ SetOf(rest) = s.vexs \cap open
  /\ \A i, j \in DOMAIN rest : <<rest[i], rest[j]>> \in s.edges => i < j

\* A loop begins.
LEMMA AllLeft ==
  ASSUME NEW V, NEW s, SortInv(V, s), s.vexs \subseteq OrderOf(s), NEW open, s.vexs \subseteq open
  PROVE  Left(V, s.order, s, open)
<1>1. s.order \in Seq(V) /\ OrderOf(s) \subseteq s.vexs /\ Once(s.order)
  BY DEF SortInv, SortTyped, SortStates, SortOnce
<1>2. \A i, j \in DOMAIN s.order : <<s.order[i], s.order[j]>> \in s.edges => i < j
  BY DEF SortInv, SortOrdered
<1> QED
  BY <1>1, <1>2 DEF Left, OrderOf

\* A round of it: what the vertex depends on is not open.
LEMMA TailLeft ==
  ASSUME NEW V, NEW rest, NEW s, NEW open, Left(V, rest, s, open), rest # <<>>
  PROVE  /\ Head(rest) \in V /\ Head(rest) \in s.vexs /\ Head(rest) \in open
         /\ \A u \in s.vexs : <<u, Head(rest)>> \in s.edges => u \notin open
         /\ Left(V, Tail(rest), s, open \ {Head(rest)})
<1>1. /\ Tail(rest) \in Seq(V) /\ Head(rest) \in SetOf(rest) /\ Head(rest) \in V
      /\ SetOf(Tail(rest)) = SetOf(rest) \ {Head(rest)} /\ Once(Tail(rest))
  BY TailOnce DEF Left
<1>2. /\ rest \in Seq(V) /\ Head(rest) = rest[1] /\ 1 \in DOMAIN rest /\ DOMAIN rest \subseteq Nat \ {0}
      /\ \A i \in DOMAIN Tail(rest) : i + 1 \in DOMAIN rest /\ Tail(rest)[i] = rest[i + 1] /\ i \in Nat
  BY DEF Left
<1>3. ASSUME NEW u \in s.vexs, <<u, Head(rest)>> \in s.edges, u \in open PROVE FALSE
  <2>1. u \in SetOf(rest)
    BY <1>3 DEF Left
  <2>2. PICK i \in DOMAIN rest : u = rest[i]
    BY <2>1 DEF SetOf
  <2>3. i < 1
    BY <1>2, <1>3, <2>2 DEF Left
  <2> QED
    BY <1>2, <2>3
<1>4. \A i, j \in DOMAIN Tail(rest) : <<Tail(rest)[i], Tail(rest)[j]>> \in s.edges => i < j
  <2> SUFFICES ASSUME NEW i \in DOMAIN Tail(rest), NEW j \in DOMAIN Tail(rest),
                      <<Tail(rest)[i], Tail(rest)[j]>> \in s.edges
               PROVE  i < j
    OBVIOUS
  <2>1. i + 1 < j + 1
    BY <1>2 DEF Left
  <2> QED
    BY <1>2, <2>1
<1>5. SetOf(rest) = s.vexs \cap open
  BY DEF Left
<1> QED
  BY <1>1, <1>3, <1>4, <1>5 DEF Left

-----------------------------------------------------------------------------
(***************************************************************************)
(* The invariant of load.                                                  *)
(***************************************************************************)
LoadPhases ==
  {"collect", "inherit", "size", "classes", "records", "members", "done", "failed"}
Completing == phase \in {"classes", "records", "members", "done"}

SameGraph(s, t) == s.vexs = t.vexs /\ s.edges = t.edges

Graphs ==
  /\ SortInv(Class, inherit) /\ SortCounted(inherit)
  /\ SortInv(Record, size) /\ (Loadable => SortCounted(size))
  /\ phase # "collect" => SameGraph(inherit, InheritGraph) /\ SameGraph(size, SizeGraph)
  /\ phase = "size" \/ Completing => inherit.vexs \subseteq OrderOf(inherit)
  /\ Completing => size.vexs \subseteq OrderOf(size)

OpenClasses == {c \in Class : ~Complete(c)}
OpenRecords == {r \in Record : length[r] = -1}

Loops ==
  /\ phase \in {"collect", "inherit", "size"} => OpenClasses = Class
  /\ phase \in {"collect", "inherit", "size", "classes"} => OpenRecords = Record
  /\ phase = "classes" => Left(Class, todo, inherit, OpenClasses)
  /\ phase = "records" => Left(Record, todo, size, OpenRecords)
  /\ phase = "members" => size.vexs \cap OpenRecords = {}

LoadInv ==
  /\ ProgramFine /\ phase \in LoadPhases /\ length \in [Record -> Nat \cup {-1}]
  /\ Graphs /\ Layouts /\ Loops
  /\ phase = "failed" => ~Loadable

\* It implies the properties.
LEMMA LoadInvImplies ==
  ASSUME LoadInv
  PROVE  TypeOK /\ ObjectLayoutExact /\ DispatchExact /\ FailsOnlyUnloadable
<1>1. TypeOK
  <2>1. \A c \in Class :
          /\ layout[c].refs \subseteq Nat
          /\ \A n \in DOMAIN layout[c].slot : layout[c].slot[n] \in DOMAIN layout[c].table
          /\ layout[c].table \in Seq(Class \X Name)
    <3> SUFFICES ASSUME NEW c \in Class
                 PROVE  /\ layout[c].refs \subseteq Nat
                        /\ \A n \in DOMAIN layout[c].slot :
                             layout[c].slot[n] \in DOMAIN layout[c].table
                        /\ layout[c].table \in Seq(Class \X Name)
      OBVIOUS
    <3>1. IsLayout(layout[c])
      BY DEF LoadInv, Layouts
    <3>2. /\ layout[c].refs \subseteq Nat /\ layout[c].table \in Seq(Class \X Name)
          /\ \A n \in DOMAIN layout[c].slot : layout[c].slot[n] \in 1 .. Len(layout[c].table)
      BY <3>1 DEF IsLayout
    <3> QED
      BY <3>2
  <2>2. \A r \in Record : length[r] \in Nat \cup {-1}
    BY DEF LoadInv
  <2>3. phase \in {"classes"} => Elements(todo) \subseteq {c \in Class : ~Complete(c)}
    BY DEF LoadInv, Loops, Left, Elements, SetOf, OpenClasses
  <2>4. phase \in {"records"} => Elements(todo) \subseteq {r \in Record : length[r] = -1}
    BY DEF LoadInv, Loops, Left, Elements, SetOf, OpenRecords
  <2> QED
    BY <2>1, <2>2, <2>3, <2>4 DEF TypeOK, LoadInv, LoadPhases
<1>2. FailsOnlyUnloadable
  BY DEF FailsOnlyUnloadable, LoadInv
<1> QED
  BY <1>1, <1>2, LayoutsFill, LayoutsDispatch DEF LoadInv

\* What is said of the program alone does not change.
LEMMA SameMeaning ==
  ASSUME program' = program
  PROVE  /\ (ProgramFine' <=> ProgramFine) /\ (Loadable' <=> Loadable)
         /\ InheritGraph' = InheritGraph /\ SizeGraph' = SizeGraph
<1>1. ProgramFine' <=> ProgramFine
  BY DEF ProgramFine
<1>2. /\ \A S : Visited(S)' = Visited(S)
      /\ \A r, n : FieldType(r, n)' = FieldType(r, n)
      /\ \A c, n : Member(c, n)' = Member(c, n)
      /\ \A c : Base(c)' = Base(c)
  BY DEF Visited, FieldType, Member, Base
<1>3. \A r : Fields(r)' = Fields(r)
  BY <1>2 DEF Fields
<1>4. \A r : FieldTypes(r)' = FieldTypes(r) /\ Containing(r)' = Containing(r)
  BY <1>2, <1>3 DEF FieldTypes, Containing
<1>5. \A r : Contained(r)' = Contained(r)
  BY <1>4 DEF Contained
<1>6. \A r, type : FieldsOf(r, type)' = FieldsOf(r, type)
  BY <1>2, <1>3 DEF FieldsOf
<1>7. RecordsAcyclic' <=> RecordsAcyclic
  BY <1>5 DEF RecordsAcyclic
<1>8. Loadable' <=> Loadable
  BY <1>2, <1>5, <1>6, <1>7 DEF Loadable
<1>9. InheritGraph' = InheritGraph
  BY <1>2 DEF InheritGraph
<1>10. SizeGraph' = SizeGraph
  BY <1>2, <1>4, <1>5 DEF SizeGraph
<1> QED
  BY <1>1, <1>8, <1>9, <1>10

LEMMA LoadInit == Init => LoadInv
<1> SUFFICES ASSUME Init PROVE LoadInv
  OBVIOUS
<1>1. ProgramFine /\ phase = "collect" /\ length = [r \in Record |-> -1]
  BY DEF Init, ProgramFine
<1>2. inherit = EmptySort(Class) /\ size = EmptySort(Record)
  BY DEF Init, Inherit!Empty, Size!Empty, EmptySort
<1>3. Graphs
  <2>1. \A V : EmptySort(V).vexs = {}
    BY DEF EmptySort
  <2> QED
    BY <1>1, <1>2, <2>1, EmptyKeeps DEF Graphs, SortCounted, Completing
<1>4. layout = [c \in Class |-> NoLayout] /\ NoLayout.size = -1
  BY DEF Init, NoLayout
<1>5. IsLayout(NoLayout)
  <2> DEFINE none == [n \in Name |-> -1]
  <2>1. NoLayout = [size |-> -1, refs |-> {}, offset |-> none, slot |-> <<>>, table |-> <<>>]
    BY DEF NoLayout
  <2>2. DOMAIN <<>> = {} /\ <<>> \in Seq(Class \X Name) /\ none \in [Name -> Int]
    OBVIOUS
  <2> HIDE DEF none
  <2> QED
    BY <2>1, <2>2 DEF IsLayout
<1>6. \A c \in Class : layout[c] = NoLayout /\ ~Complete(c)
  BY <1>4 DEF Complete
<1>7. Layouts
  <2>1. DOMAIN layout = Class
    BY <1>4
  <2> HIDE DEF NoLayout
  <2> QED
    BY <1>5, <1>6, <2>1 DEF Layouts
<1>8. Loops
  <2>1. OpenClasses = Class
    BY <1>6 DEF OpenClasses
  <2>2. OpenRecords = Record
    BY <1>1 DEF OpenRecords
  <2> QED
    BY <1>1, <2>1, <2>2 DEF Loops
<1>9. length \in [Record -> Nat \cup {-1}]
  BY <1>1
<1> QED
  BY <1>1, <1>3, <1>7, <1>8, <1>9 DEF LoadInv, LoadPhases

\* A step that leaves the program and the layouts alone.
LEMMA QuietStep ==
  ASSUME LoadInv, program' = program, layout' = layout
  PROVE  /\ ProgramFine' /\ Layouts' /\ OpenClasses' = OpenClasses
         /\ (Loadable' <=> Loadable)
         /\ InheritGraph' = InheritGraph /\ SizeGraph' = SizeGraph
<1>1. Layouts' /\ \A c \in Class : Complete(c)' <=> Complete(c)
  BY LayoutsStay DEF LoadInv
<1>2. OpenClasses' = OpenClasses
  BY <1>1 DEF OpenClasses
<1> QED
  BY <1>1, <1>2, SameMeaning DEF LoadInv

LEMMA CollectStep ==
  ASSUME LoadInv, CollectDependencies PROVE LoadInv'
<1>1. /\ phase = "collect" /\ phase' = "inherit" /\ inherit' = InheritGraph /\ size' = SizeGraph
      /\ program' = program /\ layout' = layout /\ length' = length
  BY DEF CollectDependencies
<1>2. /\ ProgramFine' /\ Layouts' /\ OpenClasses' = OpenClasses
      /\ (Loadable' <=> Loadable)
      /\ InheritGraph' = InheritGraph /\ SizeGraph' = SizeGraph
  BY <1>1, QuietStep
<1>3. Graphs'
  <2>1. /\ SortInv(Class, inherit') /\ SortCounted(inherit')
        /\ SortInv(Record, size') /\ (Loadable => SortCounted(size'))
    BY <1>1, InheritGraphParts, SizeGraphParts DEF LoadInv
  <2> QED
    BY <1>1, <1>2, <2>1 DEF Graphs, SameGraph, Completing
<1>4. OpenRecords' = OpenRecords
  BY <1>1 DEF OpenRecords
<1>5. Loops'
  BY <1>1, <1>2, <1>4 DEF Loops, LoadInv
<1> QED
  BY <1>1, <1>2, <1>3, <1>5 DEF LoadInv, LoadPhases

LEMMA SolveInheritStep ==
  ASSUME LoadInv, SolveInherit PROVE LoadInv'
<1>1. /\ phase = "inherit" /\ phase' = phase /\ size' = size
      /\ program' = program /\ layout' = layout /\ length' = length
      /\ Inherit!Solve \/ Inherit!SolveStep
  BY DEF SolveInherit
<1>2. /\ ProgramFine' /\ Layouts' /\ OpenClasses' = OpenClasses
      /\ (Loadable' <=> Loadable)
      /\ InheritGraph' = InheritGraph /\ SizeGraph' = SizeGraph
  BY <1>1, QuietStep
<1>3. SortStep(Class, inherit, inherit')
  BY <1>1 DEF Inherit!Solve, Inherit!SolveStep, Inherit!Seed, Inherit!Visit, Inherit!Take,
       Inherit!Return, SortStep, SolveBegins, SeedMoves, HeadTaken, EdgeTaken, SolveReturned
<1>4. /\ SortInv(Class, inherit') /\ SortCounted(inherit')
      /\ inherit'.vexs = inherit.vexs /\ inherit'.edges = inherit.edges
  BY <1>3, SortStepKeeps DEF LoadInv, Graphs
<1>5. Graphs'
  BY <1>1, <1>2, <1>4 DEF LoadInv, Graphs, SameGraph, Completing
<1>6. OpenRecords' = OpenRecords
  BY <1>1 DEF OpenRecords
<1>7. Loops'
  BY <1>1, <1>2, <1>6 DEF Loops, LoadInv
<1> QED
  BY <1>1, <1>2, <1>5, <1>7 DEF LoadInv, LoadPhases

\* Inheritance without cycle is sorted completely.
LEMMA InheritSolvedStep ==
  ASSUME LoadInv, InheritSolved PROVE LoadInv'
<1>1. /\ phase = "inherit" /\ inherit.phase = "solved"
      /\ phase' = IF Inherit!Solved THEN "size" ELSE "failed"
      /\ inherit' = inherit /\ size' = size
      /\ program' = program /\ layout' = layout /\ length' = length
  BY DEF InheritSolved
<1>2. /\ ProgramFine' /\ Layouts' /\ OpenClasses' = OpenClasses
      /\ (Loadable' <=> Loadable)
      /\ InheritGraph' = InheritGraph /\ SizeGraph' = SizeGraph
  BY <1>1, QuietStep
<1>3. SortAcyclic(inherit)
  BY <1>1, InheritAcyclic DEF LoadInv, Graphs, SameGraph
<1>4. inherit.vexs \subseteq OrderOf(inherit)
  BY <1>1, <1>3, AcyclicIsSorted DEF LoadInv, Graphs
<1>5. phase' = "size"
  BY <1>1, <1>4 DEF Inherit!Solved, Inherit!Sorted, OrderOf, SetOf
<1>6. Graphs'
  BY <1>1, <1>2, <1>4, <1>5 DEF LoadInv, Graphs, SameGraph, Completing
<1>7. OpenRecords' = OpenRecords
  BY <1>1 DEF OpenRecords
<1>8. Loops'
  BY <1>1, <1>2, <1>5, <1>7 DEF Loops, LoadInv
<1> QED
  BY <1>1, <1>2, <1>5, <1>6, <1>8 DEF LoadInv, LoadPhases

LEMMA SolveSizeStep ==
  ASSUME LoadInv, SolveSize PROVE LoadInv'
<1>1. /\ phase = "size" /\ phase' = phase /\ inherit' = inherit
      /\ program' = program /\ layout' = layout /\ length' = length
      /\ Size!Solve \/ Size!SolveStep
  BY DEF SolveSize
<1>2. /\ ProgramFine' /\ Layouts' /\ OpenClasses' = OpenClasses
      /\ (Loadable' <=> Loadable)
      /\ InheritGraph' = InheritGraph /\ SizeGraph' = SizeGraph
  BY <1>1, QuietStep
<1>3. SortStep(Record, size, size')
  BY <1>1 DEF Size!Solve, Size!SolveStep, Size!Seed, Size!Visit, Size!Take,
       Size!Return, SortStep, SolveBegins, SeedMoves, HeadTaken, EdgeTaken, SolveReturned
<1>4. /\ SortInv(Record, size') /\ (SortCounted(size) => SortCounted(size'))
      /\ size'.vexs = size.vexs /\ size'.edges = size.edges
  BY <1>3, SortStepKeeps DEF LoadInv, Graphs
<1>5. Graphs'
  BY <1>1, <1>2, <1>4 DEF LoadInv, Graphs, SameGraph, Completing
<1>6. OpenRecords' = OpenRecords
  BY <1>1 DEF OpenRecords
<1>7. Loops'
  BY <1>1, <1>2, <1>6 DEF Loops, LoadInv
<1> QED
  BY <1>1, <1>2, <1>5, <1>7 DEF LoadInv, LoadPhases

\* In a program load is written for the records are sorted completely.
LEMMA SizeSolvedStep ==
  ASSUME LoadInv, SizeSolved PROVE LoadInv'
<1>1. /\ phase = "size" /\ size.phase = "solved"
      /\ phase' = IF Size!Solved THEN "classes" ELSE "failed"
      /\ inherit' = inherit /\ size' = size /\ todo' = inherit.order
      /\ program' = program /\ layout' = layout /\ length' = length
  BY DEF SizeSolved
<1>2. /\ ProgramFine' /\ Layouts' /\ OpenClasses' = OpenClasses
      /\ (Loadable' <=> Loadable)
      /\ InheritGraph' = InheritGraph /\ SizeGraph' = SizeGraph
  BY <1>1, QuietStep
<1>3. ASSUME Loadable PROVE phase' = "classes"
  <2>1. SortAcyclic(size)
    BY <1>1, <1>3, SizeAcyclic DEF LoadInv, Graphs, SameGraph
  <2>2. size.vexs \subseteq OrderOf(size)
    BY <1>1, <1>3, <2>1, AcyclicIsSorted DEF LoadInv, Graphs
  <2> QED
    BY <1>1, <2>2 DEF Size!Solved, Size!Sorted, OrderOf, SetOf
<1>4. phase' \in {"classes", "failed"}
      /\ (phase' = "classes" => size.vexs \subseteq OrderOf(size))
  BY <1>1 DEF Size!Solved, Size!Sorted, OrderOf, SetOf
<1>5. Graphs'
  BY <1>1, <1>2, <1>4 DEF LoadInv, Graphs, SameGraph, Completing
<1>6. OpenRecords' = OpenRecords
  BY <1>1 DEF OpenRecords
<1>7. phase' = "classes" => Left(Class, todo', inherit, Class)
  <2>1. inherit.vexs \subseteq OrderOf(inherit) /\ SortInv(Class, inherit)
    BY <1>1 DEF LoadInv, Graphs
  <2>2. inherit.vexs \subseteq Class
    BY <2>1 DEF SortInv, SortTyped, SortStates
  <2> QED
    BY <1>1, <2>1, <2>2, AllLeft
<1>8. Loops'
  BY <1>1, <1>2, <1>4, <1>6, <1>7 DEF Loops, LoadInv
<1> QED
  BY <1>1, <1>2, <1>3, <1>4, <1>5, <1>8 DEF LoadInv, LoadPhases

\* The next class of the order can be completed in a program load is written
\* for: its base is complete already.
LEMMA ClassReady ==
  ASSUME LoadInv, Loadable, phase = "classes", todo # <<>>
  PROVE  CanComplete(Head(todo))
<1> DEFINE c == Head(todo)
<1>1. /\ c \in Class /\ c \in inherit.vexs
      /\ \A u \in inherit.vexs : <<u, c>> \in inherit.edges => u \notin OpenClasses
  <2>1. Left(Class, todo, inherit, OpenClasses)
    BY DEF LoadInv, Loops
  <2> QED
    BY <2>1, TailLeft
<1>2. /\ inherit.vexs = Inheriting \cup {Base(a) : a \in Inheriting}
      /\ inherit.edges = {<<Base(a), a>> : a \in Inheriting}
  BY InheritGraphParts DEF LoadInv, Graphs, SameGraph
<1>3. \A a \in Inheriting : Base(a) = Object \/ Base(a) \in Inheriting
  <2>1. \A a \in Inheriting : a \in Class /\ Base(a) \in Class
    BY ProgramParts DEF Inheriting, Visited, LoadInv
  <2> QED
    BY <2>1 DEF Loadable, Inheriting, Visited
<1> HIDE DEF c
<1>4. Inherited(c).size # -1
  <2>1. CASE c = Object
    BY <2>1 DEF Inherited, NoLayout
  <2>2. CASE c # Object
    <3>1. c \in Inheriting
      BY <1>1, <1>2, <1>3, <2>2
    <3>2. Base(c) \notin OpenClasses
      BY <1>1, <1>2, <3>1
    <3>3. Base(c) \in Class
      BY <1>1, ProgramParts DEF LoadInv
    <3>4. IsLayout(layout[Base(c)]) /\ layout[Base(c)].size # -1
      BY <3>2, <3>3 DEF OpenClasses, Complete, LoadInv, Layouts
    <3> DEFINE b == layout[Base(c)]
               none == NoLayout.offset
    <3>5. b = [size |-> b.size, refs |-> b.refs, offset |-> b.offset, slot |-> b.slot,
               table |-> b.table]
      BY <3>4 DEF IsLayout
    <3>6. Inherited(c) = [b EXCEPT !.offset = none]
      BY <2>2 DEF Inherited
    <3>7. b.size # -1
      BY <3>4
    <3> HIDE DEF b, none
    <3> QED
      BY <3>5, <3>6, <3>7
  <2> QED
    BY <2>1, <2>2
<1>5. \A n \in Name : SizeKnown(Member(c, n).type)
  <2> SUFFICES ASSUME NEW n \in Name PROVE SizeKnown(Member(c, n).type)
    OBVIOUS
  <2>1. Member(c, n).type \in Type /\ Member(c, n).type \notin Record
    BY <1>1, ProgramParts DEF LoadInv, Loadable
  <2> QED
    BY <2>1, Sizes DEF SizeKnown
<1>6. CanComplete(c)
  BY <1>4, <1>5 DEF CanComplete
<1> QED
  BY <1>6 DEF c

LEMMA ClassStep ==
  ASSUME LoadInv, CompleteClass PROVE LoadInv'
<1>0. PICK c : c = Head(todo)
  OBVIOUS
<1>1. /\ phase = "classes" /\ todo # <<>> /\ todo' = Tail(todo)
      /\ phase' = IF CanComplete(c) THEN phase ELSE "failed"
      /\ layout' = IF CanComplete(c) THEN [layout EXCEPT ![c] = CompletedLayout(c)] ELSE layout
      /\ inherit' = inherit /\ size' = size /\ program' = program /\ length' = length
  BY <1>0 DEF CompleteClass
<1>2. /\ (ProgramFine' <=> ProgramFine) /\ (Loadable' <=> Loadable)
      /\ InheritGraph' = InheritGraph /\ SizeGraph' = SizeGraph
  BY <1>1, SameMeaning
<1>3. Loadable => CanComplete(c)
  BY <1>0, <1>1, ClassReady
<1>4. /\ c \in Class /\ c \in OpenClasses
      /\ Left(Class, todo', inherit, OpenClasses \ {c})
  <2>1. Left(Class, todo, inherit, OpenClasses)
    BY <1>1 DEF LoadInv, Loops
  <2> QED
    BY <1>0, <1>1, <2>1, TailLeft
<1>5. OpenRecords' = OpenRecords /\ OpenRecords = Record
  BY <1>1 DEF OpenRecords, LoadInv, Loops
<1>6. Graphs'
  BY <1>1, <1>2 DEF LoadInv, Graphs, SameGraph, Completing
<1>7. CASE CanComplete(c)
  <2>1. ClassDone(c)
    BY <1>1, <1>4, <1>5, <1>7 DEF ClassDone, LoadInv, OpenClasses, OpenRecords
  <2>2. /\ Layouts' /\ Complete(c)'
        /\ \A d \in Class : d # c => (Complete(d)' <=> Complete(d))
    BY <2>1, DoneKeeps
  <2>3. OpenClasses' = OpenClasses \ {c}
    BY <2>2 DEF OpenClasses
  <2>4. Left(Class, todo', inherit', OpenClasses')
    BY <1>1, <1>4, <2>3
  <2>5. Loops'
    BY <1>1, <1>5, <1>7, <2>4 DEF Loops
  <2> QED
    BY <1>1, <1>2, <1>6, <1>7, <2>2, <2>5 DEF LoadInv, LoadPhases
<1>8. CASE ~CanComplete(c)
  <2>1. phase' = "failed" /\ layout' = layout
    BY <1>1, <1>8
  <2>2. Layouts'
    BY <1>1, <2>1, QuietStep
  <2>3. Loops'
    BY <2>1 DEF Loops
  <2> QED
    BY <1>1, <1>2, <1>3, <1>6, <1>8, <2>1, <2>2, <2>3 DEF LoadInv, LoadPhases
<1> QED
  BY <1>7, <1>8

LEMMA EndClassesStep ==
  ASSUME LoadInv, EndClasses PROVE LoadInv'
<1>1. /\ phase = "classes" /\ phase' = "records" /\ todo' = size.order
      /\ inherit' = inherit /\ size' = size
      /\ program' = program /\ layout' = layout /\ length' = length
  BY DEF EndClasses
<1>2. /\ ProgramFine' /\ Layouts' /\ OpenClasses' = OpenClasses
      /\ (Loadable' <=> Loadable)
      /\ InheritGraph' = InheritGraph /\ SizeGraph' = SizeGraph
  BY <1>1, QuietStep
<1>3. Graphs'
  BY <1>1, <1>2 DEF LoadInv, Graphs, SameGraph, Completing
<1>4. OpenRecords' = OpenRecords /\ OpenRecords = Record
  BY <1>1 DEF OpenRecords, LoadInv, Loops
<1>5. Left(Record, todo', size', OpenRecords')
  <2>1. size.vexs \subseteq OrderOf(size) /\ SortInv(Record, size)
    BY <1>1 DEF LoadInv, Graphs, Completing
  <2>2. size.vexs \subseteq Record
    BY <2>1 DEF SortInv, SortTyped, SortStates
  <2> QED
    BY <1>1, <1>4, <2>1, <2>2, AllLeft
<1>6. Loops'
  BY <1>1, <1>5 DEF Loops
<1> QED
  BY <1>1, <1>2, <1>3, <1>6 DEF LoadInv, LoadPhases

\* The next record of the order can be completed in a program load is written
\* for: the records in it are complete.
LEMMA RecordReady ==
  ASSUME LoadInv, Loadable, phase = "records", todo # <<>>,
         NEW type \in FieldTypes(Head(todo))
  PROVE  SizeKnown(type)
<1> DEFINE r == Head(todo)
<1>1. /\ r \in Record /\ r \in size.vexs
      /\ \A u \in size.vexs : <<u, r>> \in size.edges => u \notin OpenRecords
  <2>1. Left(Record, todo, size, OpenRecords)
    BY DEF LoadInv, Loops
  <2> QED
    BY <2>1, TailLeft
<1>2. /\ size.vexs = Visited(Record) \cup UNION {Contained(s) : s \in Visited(Record)}
      /\ size.edges = UNION {Contained(s) \X {s} : s \in Visited(Record)}
  BY SizeGraphParts DEF LoadInv, Graphs, SameGraph
<1>3. r \in Visited(Record)
  BY <1>1, <1>2 DEF Loadable, Visited
<1>4. type \in Type
  <2>1. PICK n \in Fields(r) : type = FieldType(r, n)
    BY DEF FieldTypes
  <2>2. n \in Name /\ type # "none"
    BY <2>1 DEF Fields
  <2>3. type \in Type \cup {"none"}
    BY <1>1, <2>1, <2>2, ProgramParts DEF FieldType, LoadInv
  <2> QED
    BY <2>2, <2>3
<1>5. CASE type \notin Record
  BY <1>4, <1>5, Sizes DEF SizeKnown
<1>6. CASE type \in Record
  <2>1. type \in Contained(r)
    BY <1>6 DEF Contained
  <2>2. type \in size.vexs /\ <<type, r>> \in size.edges
    <3> HIDE DEF r
    <3> QED
      BY <1>2, <1>3, <2>1
  <2>5. type \notin OpenRecords
    BY <1>1, <2>2
  <2>3. length[type] # -1
    BY <1>6, <2>5 DEF OpenRecords
  <2>4. RuntimeSize(type) = length[type]
    BY <1>6, RecordAssumption DEF RuntimeSize
  <2> QED
    BY <2>3, <2>4 DEF SizeKnown
<1> QED
  BY <1>5, <1>6

LEMMA RecordStep ==
  ASSUME LoadInv, CompleteRecord PROVE LoadInv'
<1> DEFINE r == Head(todo)
           known == \A type \in FieldTypes(r) \ {r} : SizeKnown(type)
<1>1. /\ phase = "records" /\ todo # <<>> /\ todo' = Tail(todo)
      /\ phase' = IF known THEN phase ELSE "failed"
      /\ length' = IF known THEN [length EXCEPT ![r] = Length(r)] ELSE length
      /\ inherit' = inherit /\ size' = size /\ program' = program /\ layout' = layout
  BY DEF CompleteRecord
<1>2. /\ ProgramFine' /\ Layouts' /\ OpenClasses' = OpenClasses
      /\ (Loadable' <=> Loadable)
      /\ InheritGraph' = InheritGraph /\ SizeGraph' = SizeGraph
  BY <1>1, QuietStep
<1>3. Loadable => known
  BY <1>1, RecordReady
<1>4. /\ r \in Record /\ Left(Record, todo', size, OpenRecords \ {r})
  <2>1. Left(Record, todo, size, OpenRecords)
    BY <1>1 DEF LoadInv, Loops
  <2> QED
    BY <1>1, <2>1, TailLeft
<1>5. Graphs'
  BY <1>1, <1>2 DEF LoadInv, Graphs, SameGraph, Completing
<1>6. CASE known
  <2>1. Length(r) \in Nat
    BY <1>4, <1>6, LengthKnown DEF LoadInv
  <2> HIDE DEF r, known
  <2>2. length' = [length EXCEPT ![r] = Length(r)] /\ length \in [Record -> Nat \cup {-1}]
    BY <1>1, <1>6 DEF LoadInv
  <2>3. length' \in [Record -> Nat \cup {-1}]
    BY <1>4, <2>1, <2>2
  <2>4. OpenRecords' = OpenRecords \ {r}
    BY <1>4, <2>1, <2>2 DEF OpenRecords
  <2>5. Left(Record, todo', size', OpenRecords')
    BY <1>1, <1>4, <2>4
  <2>6. phase' = "records"
    BY <1>1, <1>6
  <2>7. Loops'
    BY <2>5, <2>6 DEF Loops
  <2> QED
    BY <1>2, <1>5, <2>3, <2>6, <2>7 DEF LoadInv, LoadPhases
<1>7. CASE ~known
  <2>1. phase' = "failed" /\ length' = length /\ ~Loadable
    BY <1>1, <1>3, <1>7
  <2>2. Loops'
    BY <2>1 DEF Loops
  <2> QED
    BY <1>2, <1>5, <2>1, <2>2 DEF LoadInv, LoadPhases
<1> QED
  BY <1>6, <1>7

LEMMA ArraysStep ==
  ASSUME LoadInv, CompleteArrays PROVE LoadInv'
<1>1. /\ phase = "records" /\ todo = <<>> /\ phase' = "members"
      /\ inherit' = inherit /\ size' = size
      /\ program' = program /\ layout' = layout /\ length' = length
  BY DEF CompleteArrays
<1>2. /\ ProgramFine' /\ Layouts' /\ OpenClasses' = OpenClasses
      /\ (Loadable' <=> Loadable)
      /\ InheritGraph' = InheritGraph /\ SizeGraph' = SizeGraph
  BY <1>1, QuietStep
<1>3. Graphs'
  BY <1>1, <1>2 DEF LoadInv, Graphs, SameGraph, Completing
<1>4. size.vexs \cap OpenRecords = {}
  <2>1. SetOf(<<>>) = {}
    BY DEF SetOf
  <2> QED
    BY <1>1, <2>1 DEF LoadInv, Loops, Left
<1>5. OpenRecords' = OpenRecords
  BY <1>1 DEF OpenRecords
<1>6. Loops'
  BY <1>1, <1>4, <1>5 DEF Loops
<1> QED
  BY <1>1, <1>2, <1>3, <1>6 DEF LoadInv, LoadPhases

\* The modules find the sizes of their types.
LEMMA MembersStep ==
  ASSUME LoadInv, CompleteMembers PROVE LoadInv'
<1>1. /\ phase = "members"
      /\ phase' = IF \A type \in program.module : SizeKnown(type) THEN "done" ELSE "failed"
      /\ inherit' = inherit /\ size' = size
      /\ program' = program /\ layout' = layout /\ length' = length
  BY DEF CompleteMembers
<1>2. /\ ProgramFine' /\ Layouts' /\ OpenClasses' = OpenClasses
      /\ (Loadable' <=> Loadable)
      /\ InheritGraph' = InheritGraph /\ SizeGraph' = SizeGraph
  BY <1>1, QuietStep
<1>3. ASSUME Loadable, NEW type \in program.module PROVE SizeKnown(type)
  <2>1. type \in Type
    BY ProgramParts DEF LoadInv
  <2>2. CASE type \notin Record
    BY <2>1, <2>2, Sizes DEF SizeKnown
  <2>3. CASE type \in Record
    <3>1. type \in Visited(Record)
      BY <1>3, <2>3 DEF Loadable, Visited
    <3>2. type \in size.vexs
      BY <1>1, <3>1, SizeGraphParts DEF LoadInv, Graphs, SameGraph
    <3>3. type \notin OpenRecords
      <4>1. size.vexs \cap OpenRecords = {}
        BY <1>1 DEF LoadInv, Loops
      <4> QED
        BY <3>2, <4>1
    <3>4. length[type] # -1
      BY <2>3, <3>3 DEF OpenRecords
    <3>5. RuntimeSize(type) = length[type]
      BY <2>3, RecordAssumption DEF RuntimeSize
    <3> QED
      BY <3>4, <3>5 DEF SizeKnown
  <2> QED
    BY <2>2, <2>3
<1>4. phase' \in {"done", "failed"} /\ (phase' = "failed" => ~Loadable)
  BY <1>1, <1>3
<1>5. Graphs'
  BY <1>1, <1>2, <1>4 DEF LoadInv, Graphs, SameGraph, Completing
<1>6. Loops'
  BY <1>4 DEF Loops
<1> QED
  BY <1>1, <1>2, <1>4, <1>5, <1>6 DEF LoadInv, LoadPhases

LEMMA LoadNext == LoadInv /\ [Next]_vars => LoadInv'
<1> SUFFICES ASSUME LoadInv, [Next]_vars PROVE LoadInv'
  OBVIOUS
<1>1. CASE CollectDependencies
  BY <1>1, CollectStep
<1>2. CASE SolveInherit
  BY <1>2, SolveInheritStep
<1>3. CASE InheritSolved
  BY <1>3, InheritSolvedStep
<1>4. CASE SolveSize
  BY <1>4, SolveSizeStep
<1>5. CASE SizeSolved
  BY <1>5, SizeSolvedStep
<1>6. CASE CompleteClass
  BY <1>6, ClassStep
<1>7. CASE EndClasses
  BY <1>7, EndClassesStep
<1>8. CASE CompleteRecord
  BY <1>8, RecordStep
<1>9. CASE CompleteArrays
  BY <1>9, ArraysStep
<1>10. CASE CompleteMembers
  BY <1>10, MembersStep
<1>11. CASE UNCHANGED vars
  <2>1. /\ program' = program /\ layout' = layout /\ length' = length /\ phase' = phase
        /\ inherit' = inherit /\ size' = size /\ todo' = todo
    BY <1>11 DEF vars
  <2>2. /\ ProgramFine' /\ Layouts' /\ OpenClasses' = OpenClasses
        /\ (Loadable' <=> Loadable)
        /\ InheritGraph' = InheritGraph /\ SizeGraph' = SizeGraph
    BY <2>1, QuietStep
  <2>3. Graphs'
    BY <2>1, <2>2 DEF LoadInv, Graphs, SameGraph, Completing
  <2>4. OpenRecords' = OpenRecords
    BY <2>1 DEF OpenRecords
  <2>5. Loops'
    BY <2>1, <2>2, <2>4 DEF Loops, LoadInv
  <2> QED
    BY <2>1, <2>2, <2>3, <2>5 DEF LoadInv
<1> QED
  BY <1>1, <1>2, <1>3, <1>4, <1>5, <1>6, <1>7, <1>8, <1>9, <1>10, <1>11 DEF Next

-----------------------------------------------------------------------------
(***************************************************************************)
(* What holds of every behaviour of load.                                  *)
(***************************************************************************)

\* The invariant holds in every state.
LEMMA LoadInvariance == Spec => []LoadInv
<1>1. Init => LoadInv
  BY LoadInit
<1>2. LoadInv /\ [Next]_vars => LoadInv'
  BY LoadNext
<1> QED
  BY <1>1, <1>2, PTL DEF Spec

\* Whatever the hierarchy, the fields of an object of a complete class, its own
\* and the inherited ones, fill its memory without overlap, and the offsets
\* the collector follows are exactly those of its references
\* (Class::completeFieldAndVFtn, runtime.cpp).
THEOREM ObjectsLaidOut == Spec => []ObjectLayoutExact
<1>1. LoadInv => ObjectLayoutExact
  BY LoadInvImplies
<1> QED
  BY <1>1, LoadInvariance, PTL

\* A virtual call on an object of a complete class runs the nearest method of
\* that name, in whatever class above it the call was compiled for (ldvftn
\* and callvirtual with the slots that completeFieldAndVFtn gave).
THEOREM CallsDispatched == Spec => []DispatchExact
<1>1. LoadInv => DispatchExact
  BY LoadInvImplies
<1> QED
  BY <1>1, LoadInvariance, PTL

\* load throws only on programs outside Loadable: the order it completes
\* symbols in never reaches one before what it depends on.
THEOREM OrderSuffices == Spec => []FailsOnlyUnloadable
<1>1. LoadInv => FailsOnlyUnloadable
  BY LoadInvImplies
<1> QED
  BY <1>1, LoadInvariance, PTL

\* In the order of each sort what a symbol depends on stands before it, for every
\* accepted program and in every order of iteration (TopologicalSort::solve).
THEOREM DependenciesSorted == Spec => []DependenciesFirst
<1>1. LoadInv => DependenciesFirst
  <2> SUFFICES ASSUME SortOrdered(inherit), SortOrdered(size) PROVE DependenciesFirst
    BY DEF LoadInv, Graphs, SortInv
  <2> QED
    BY DEF SortOrdered, DependenciesFirst, Inherit!OrderRespectsEdges, Size!OrderRespectsEdges
<1> QED
  BY <1>1, LoadInvariance, PTL

\* What solve answers, of a sort whose invariant holds.
LEMMA AnswerExact ==
  ASSUME NEW V, NEW s, SortInv(V, s), s.phase = "solved"
  PROVE  s.vexs \subseteq OrderOf(s) <=> SortAcyclic(s) /\ SortCounted(s)
BY AcyclicIsSorted, SortedIsCounted, SortedIsAcyclic

\* Each solve of load answers true exactly if its graph has no cycle and no edge of
\* it was added twice.
THEOREM SolvesAreExact == Spec => []SolvesExact
<1>1. SortInv(Class, inherit) => Inherit!SolveIsExact
  <2>1. /\ Inherit!Sorted = OrderOf(inherit)
        /\ \A v : Inherit!Waiting(v) = WaitingOf(inherit, v)
    BY DEF Inherit!Sorted, Inherit!Waiting, OrderOf, WaitingOf, SetOf
  <2>2. Inherit!Acyclic <=> SortAcyclic(inherit)
    BY DEF Inherit!Acyclic, SortAcyclic
  <2>3. Inherit!Counted <=> SortCounted(inherit)
    <3>1. \A S : Inherit!Cardinality(S) = Cardinality(S)
      BY DEF Inherit!Cardinality, Cardinality
    <3>2. \A v : Inherit!Cardinality(Inherit!Waiting(v)) = Cardinality(WaitingOf(inherit, v))
      BY <2>1, <3>1
    <3> QED
      BY <3>2 DEF Inherit!Counted, SortCounted
  <2> QED
    BY <2>1, <2>2, <2>3, AnswerExact DEF Inherit!SolveIsExact
<1>2. SortInv(Record, size) => Size!SolveIsExact
  <2>1. /\ Size!Sorted = OrderOf(size)
        /\ \A v : Size!Waiting(v) = WaitingOf(size, v)
    BY DEF Size!Sorted, Size!Waiting, OrderOf, WaitingOf, SetOf
  <2>2. Size!Acyclic <=> SortAcyclic(size)
    BY DEF Size!Acyclic, SortAcyclic
  <2>3. Size!Counted <=> SortCounted(size)
    <3>1. \A S : Size!Cardinality(S) = Cardinality(S)
      BY DEF Size!Cardinality, Cardinality
    <3>2. \A v : Size!Cardinality(Size!Waiting(v)) = Cardinality(WaitingOf(size, v))
      BY <2>1, <3>1
    <3> QED
      BY <3>2 DEF Size!Counted, SortCounted
  <2> QED
    BY <2>1, <2>2, <2>3, AnswerExact DEF Size!SolveIsExact
<1>3. LoadInv => SolvesExact
  BY <1>1, <1>2 DEF LoadInv, Graphs, SolvesExact
<1> QED
  BY <1>3, LoadInvariance, PTL

-----------------------------------------------------------------------------
(***************************************************************************)
(* The sort, for every set of vertices and every graph.                    *)
(***************************************************************************)
\* The parts of the invariant are those of DataLemmas.
LEMMA SameInvariant ==
  /\ IInv <=> SortInv(Vertex, sort)
  /\ Acyclic <=> SortAcyclic(sort)
  /\ Counted <=> SortCounted(sort)
  /\ Sorted = OrderOf(sort)
<1>1. Queued = QueueOf(sort) /\ Sorted = OrderOf(sort) /\ Seeds = SeedsOf(sort)
  BY DEF Queued, Sorted, Seeds, QueueOf, OrderOf, SeedsOf, SetOf
<1>2. Ready = ReadyOf(sort)
  BY <1>1 DEF Ready, ReadyOf
<1>3. \A v : Waiting(v) = WaitingOf(sort, v)
  BY <1>1 DEF Waiting, WaitingOf
<1>4. SortTypeOK <=> SortTyped(Vertex, sort)
  BY <1>1 DEF SortTypeOK, SortTyped, SortStates, SortPhases, Phases
<1>5. OnlyOnce <=> SortOnce(sort)
  BY <1>1 DEF OnlyOnce, SortOnce, Once
<1>6. OrderRespectsEdges <=> SortOrdered(sort)
  BY DEF OrderRespectsEdges, SortOrdered
<1>7. Degrees <=> SortDegrees(sort)
  BY <1>2, <1>3 DEF Degrees, SortDegrees
<1>8. Containers <=> SortContainers(sort)
  BY <1>1 DEF Containers, SortContainers, Once
<1>9. Acyclic <=> SortAcyclic(sort)
  BY DEF Acyclic, SortAcyclic
<1>10. Counted <=> SortCounted(sort)
  BY <1>3 DEF Counted, SortCounted
<1> QED
  BY <1>1, <1>4, <1>5, <1>6, <1>7, <1>8, <1>9, <1>10 DEF IInv, SortInv

\* The steps of solve are those of DataLemmas.
LEMMA SameStep == SolveStep \/ Solve => SortStep(Vertex, sort, sort')
<1>1. Solve => SolveBegins(sort, sort')
  BY DEF Solve, SolveBegins
<1>2. \A v \in Vertex : Seed(v) => SeedMoves(sort, sort', v)
  BY DEF Seed, SeedMoves
<1>3. \A v \in Vertex : Visit(v) => EdgeTaken(sort, sort', v)
  BY DEF Visit, EdgeTaken
<1>4. Take => HeadTaken(sort, sort')
  BY DEF Take, HeadTaken
<1>5. Return => SolveReturned(sort, sort')
  BY DEF Return, SolveReturned
<1> QED
  BY <1>1, <1>2, <1>3, <1>4, <1>5 DEF SolveStep, SortStep

\* The empty graph satisfies the invariant.
LEMMA SortInitInv == SortInit => IInv
<1>1. Empty = EmptySort(Vertex)
  BY DEF Empty, EmptySort
<1> QED
  BY <1>1, EmptyKeeps, SameInvariant DEF SortInit

\* Every step keeps the invariant.
LEMMA SortNextInv == IInv /\ [SortNext]_sort => IInv'
<1> SUFFICES ASSUME SortInv(Vertex, sort), [SortNext]_sort PROVE SortInv(Vertex, sort')
  <2>1. IInv <=> SortInv(Vertex, sort)
    BY SameInvariant
  <2>2. (IInv <=> SortInv(Vertex, sort))'
    BY SameInvariant, PTL
  <2> QED
    BY <2>1, <2>2
<1>1. ASSUME NEW v \in Vertex, AddVex(v) PROVE SortInv(Vertex, sort')
  <2>1. VexAdded(sort, sort', v)
    BY <1>1 DEF AddVex, WithVex, VexAdded
  <2> QED
    BY <2>1, AddVexKeeps
<1>2. ASSUME NEW src \in Vertex, NEW dst \in Vertex, AddEdge(src, dst)
      PROVE  SortInv(Vertex, sort')
  <2>1. EdgeAdded(sort, sort', src, dst)
    BY <1>2 DEF AddEdge, WithEdge, EdgeAdded
  <2> QED
    BY <2>1, AddEdgeKeeps
<1>3. CASE Solve \/ SolveStep
  BY <1>3, SameStep, SortStepKeeps
<1>4. CASE UNCHANGED sort
  BY <1>4
<1> QED
  BY <1>1, <1>2, <1>3, <1>4 DEF SortNext

\* The invariant holds in every reachable state.
THEOREM SortInvariance == SortSpec => []IInv
BY SortInitInv, SortNextInv, PTL DEF SortSpec

\* The fields have their types, and in_degree never goes below zero.
THEOREM SortTypeCorrect == SortSpec => []SortTypeOK
BY SortInvariance, PTL DEF IInv

\* Every symbol is put in order, hence completed, at most once.
THEOREM EachOnce == SortSpec => []OnlyOnce
BY SortInvariance, PTL DEF IInv

\* The order respects every edge: a base class is completed before the
\* classes derived from it.
THEOREM OrderIsTopological == SortSpec => []OrderRespectsEdges
BY SortInvariance, PTL DEF IInv

\* solve answers true exactly for acyclic graphs without an edge added twice.
THEOREM SolveExact == SortSpec => []SolveIsExact
<1>1. IInv => SolveIsExact
  <2> SUFFICES ASSUME SortInv(Vertex, sort), sort.phase = "solved"
               PROVE  sort.vexs \subseteq OrderOf(sort)
                        <=> SortAcyclic(sort) /\ SortCounted(sort)
    BY SameInvariant DEF SolveIsExact
  <2> QED
    BY AnswerExact
<1> QED
  BY <1>1, SortInvariance, PTL

-----------------------------------------------------------------------------
(***************************************************************************)
(* The search, for every table and every instruction: determineLineR never *)
(* leaves the table, never calls itself with the part it was given, and    *)
(* ends in a range that holds the offset.                                  *)
(***************************************************************************)
\* Entries as the code generator writes them: in the order of the bytecode.
Ascending(entries, codesize) ==
  /\ entries \in Seq([line : Nat, offset : Nat])
  /\ \A m, n \in DOMAIN entries : m <= n => entries[m].offset <= entries[n].offset
  /\ \A n \in DOMAIN entries : entries[n].offset <= codesize

LEMMA Successor ==
  ASSUME NEW L \in Nat, NEW n \in 1 .. L, n # L
  PROVE  n + 1 \in 1 .. L /\ n <= n + 1 /\ n + 1 # 1
OBVIOUS

\* A function on an initial segment of the numbers is a sequence of that length.
LEMMA FunctionIsSeq ==
  ASSUME NEW L \in Nat, NEW S, NEW f \in [1 .. L -> S]
  PROVE  f \in Seq(S) /\ Len(f) = L /\ DOMAIN f = 1 .. L
<1>1. f \in Seq(S)
  BY SeqDef
<1>2. DOMAIN f = 1 .. L /\ Len(f) \in Nat /\ DOMAIN f = 1 .. Len(f)
  BY <1>1, LenProperties
<1> QED
  BY <1>1, <1>2

\* generateLineTable makes a table without gaps that covers the whole bytecode of
\* any entries in ascending order: it is what the search needs to end.
THEOREM GeneratesTable ==
  ASSUME NEW codesize \in Nat, NEW entries, Ascending(entries, codesize)
  PROVE  /\ IsLineTable(GenerateLineTable(entries, codesize))
         /\ Covers(GenerateLineTable(entries, codesize), codesize)
<1> DEFINE table == GenerateLineTable(entries, codesize)
           Row == [line : Nat, begin : Nat, end : Nat]
<1>1. /\ Len(entries) \in Nat
      /\ DOMAIN entries = 1 .. Len(entries)
      /\ \A n \in 1 .. Len(entries) : entries[n].line \in Nat /\ entries[n].offset \in Nat
  <2>1. entries \in Seq([line : Nat, offset : Nat])
    BY DEF Ascending
  <2>2. Len(entries) \in Nat /\ DOMAIN entries = 1 .. Len(entries)
    BY <2>1
  <2>3. \A n \in 1 .. Len(entries) : entries[n] \in [line : Nat, offset : Nat]
    BY <2>1, ElementOfSeq
  <2> QED
    BY <2>2, <2>3
<1>2. ASSUME NEW n \in 1 .. Len(entries)
      PROVE  /\ entries[n].offset <= codesize
             /\ n # Len(entries) => /\ n + 1 \in 1 .. Len(entries)
                                    /\ entries[n].offset <= entries[n + 1].offset
  <2>1. n # Len(entries) => n + 1 \in 1 .. Len(entries) /\ n <= n + 1
    BY <1>1, Successor
  <2>2. \A k, m \in 1 .. Len(entries) : k <= m => entries[k].offset <= entries[m].offset
    BY <1>1 DEF Ascending
  <2> QED
    BY <1>1, <2>1, <2>2 DEF Ascending
<1>3. /\ table = [n \in 1 .. Len(entries) |->
                   [line  |-> entries[n].line,
                    begin |-> IF n = 1 THEN 0 ELSE entries[n].offset,
                    end   |-> IF n = Len(entries) THEN codesize ELSE entries[n + 1].offset]]
  BY <1>1 DEF GenerateLineTable
<1> HIDE DEF table
<1>4. ASSUME NEW n \in 1 .. Len(entries)
      PROVE  /\ table[n] \in Row
             /\ table[n].begin <= table[n].end
             /\ n = 1 => table[n].begin = 0
             /\ n # 1 => table[n].begin = entries[n].offset
             /\ n = Len(entries) => table[n].end = codesize
             /\ n # Len(entries) => table[n].end = entries[n + 1].offset
  <2> DEFINE first == IF n = 1 THEN 0 ELSE entries[n].offset
             last == IF n = Len(entries) THEN codesize ELSE entries[n + 1].offset
  <2>1. table[n] = [line |-> entries[n].line, begin |-> first, end |-> last]
    BY <1>3
  <2>2. first \in Nat /\ first <= entries[n].offset
    BY <1>1
  <2>3. last \in Nat /\ entries[n].offset <= last
    BY <1>1, <1>2
  <2>4. first <= last
    <3> HIDE DEF first, last
    <3>1. first \in Nat /\ last \in Nat
      BY <2>2, <2>3
    <3>2. entries[n].offset \in Nat
      BY <1>1
    <3> QED
      BY <2>2, <2>3, <3>1, <3>2
  <2>5. /\ n = 1 => first = 0
        /\ n # 1 => first = entries[n].offset
        /\ n = Len(entries) => last = codesize
        /\ n # Len(entries) => last = entries[n + 1].offset
    OBVIOUS
  <2>6. entries[n].line \in Nat
    BY <1>1
  <2> HIDE DEF first, last
  <2> QED
    BY <2>1, <2>2, <2>3, <2>4, <2>5, <2>6
<1>5. table \in Seq(Row) /\ Len(table) = Len(entries) /\ DOMAIN table = 1 .. Len(entries)
  <2>1. table \in [1 .. Len(entries) -> Row]
    BY <1>3, <1>4
  <2> QED
    BY <1>1, <2>1, FunctionIsSeq
<1>6. ASSUME NEW n \in 1 .. Len(table) - 1
      PROVE  table[n].end = table[n + 1].begin
  <2>1. /\ n \in 1 .. Len(entries) /\ n + 1 \in 1 .. Len(entries)
        /\ n # Len(entries) /\ n + 1 # 1
    <3> DEFINE L == Len(entries)
    <3>1. L \in Nat /\ n \in 1 .. L - 1
      BY <1>1, <1>5
    <3> HIDE DEF L
    <3>2. n \in 1 .. L /\ n + 1 \in 1 .. L /\ n # L /\ n + 1 # 1
      BY <3>1
    <3> QED
      BY <3>2 DEF L
  <2> QED
    BY <1>4, <2>1
<1>7. table # <<>> => 1 \in 1 .. Len(entries) /\ Len(entries) \in 1 .. Len(entries)
  BY <1>1, <1>5
<1>8. table # <<>> => table[1].begin = 0 /\ table[Len(table)].end = codesize
  BY <1>4, <1>5, <1>7
<1>9. IsLineTable(table)
  BY <1>4, <1>5, <1>6, <1>8 DEF IsLineTable
<1>10. Covers(table, codesize)
  BY <1>8 DEF Covers
<1> QED
  BY <1>9, <1>10 DEF table

-----------------------------------------------------------------------------
(***************************************************************************)
(* The part of the table that is searched always holds the offset.         *)
(***************************************************************************)
SearchTypes ==
  /\ IsLineTable(numbers)
  /\ offset \in Nat /\ beg \in Nat /\ end \in Nat
  /\ line \in Nat \cup {NoLine}

SearchInv == SearchTypes /\ Bracketed

\* Where the middle of the searched part lies.
LEMMA MidInside ==
  ASSUME SearchInv, Searching
  PROVE  /\ Len(numbers) \in Nat
         /\ Mid \in beg .. end - 1
         /\ Mid + 1 \in DOMAIN numbers
         /\ Target \in [line : Nat, begin : Nat, end : Nat]
         /\ Mid = beg => end = beg + 1
<1>1. numbers \in Seq([line : Nat, begin : Nat, end : Nat])
  BY DEF SearchInv, SearchTypes, IsLineTable
<1>2. beg \in Nat /\ end \in Nat /\ beg < end /\ end <= Len(numbers)
  BY DEF SearchInv, SearchTypes, Bracketed
<1>3. Len(numbers) \in Nat /\ DOMAIN numbers = 1 .. Len(numbers)
  BY <1>1
<1>4. Mid \in beg .. end - 1 /\ (Mid = beg => end = beg + 1)
  BY <1>2 DEF Mid
<1>5. Mid + 1 \in DOMAIN numbers
  BY <1>2, <1>3, <1>4
<1>6. Target \in [line : Nat, begin : Nat, end : Nat]
  BY <1>1, <1>3, <1>5, ElementOfSeq DEF Target
<1> QED
  BY <1>3, <1>4, <1>5, <1>6

\* A search that goes down stops short of the middle and loses no candidate.
LEMMA LowerNarrows ==
  ASSUME SearchInv, Lower
  PROVE  Bracketed' /\ beg' = beg /\ end' \in Nat /\ beg < end' /\ end' < end
<1>1. /\ beg' = beg /\ end' = Mid /\ offset' = offset /\ numbers' = numbers /\ line' = line
      /\ Searching /\ offset < Target.begin
  BY DEF Lower
<1>2. /\ Len(numbers) \in Nat /\ Mid \in beg .. end - 1 /\ Mid + 1 \in DOMAIN numbers
      /\ Target \in [line : Nat, begin : Nat, end : Nat]
  BY <1>1, MidInside
<1>3. /\ offset \in Nat /\ beg \in Nat /\ end \in Nat /\ end <= Len(numbers)
      /\ numbers[beg + 1].begin <= offset /\ numbers # <<>> /\ Covers(numbers, offset)
  BY <1>1 DEF SearchInv, SearchTypes, Bracketed
<1>4. Mid # beg
  BY <1>1, <1>2, <1>3 DEF Target
<1>5. Mid \in 1 .. Len(numbers) - 1
  BY <1>2, <1>3, <1>4
<1>6. numbers[Mid].end = Target.begin
  BY <1>5 DEF SearchInv, SearchTypes, IsLineTable, Target
<1>7. offset <= numbers[Mid].end
  BY <1>1, <1>2, <1>3, <1>6
<1>8. end' \in Nat /\ beg < end' /\ end' < end /\ end' <= Len(numbers)
  BY <1>1, <1>2, <1>3, <1>4
<1>9. Bracketed'
  BY <1>1, <1>3, <1>7, <1>8 DEF Bracketed, Covers
<1> QED
  BY <1>1, <1>8, <1>9

\* A search that goes up begins at the middle, which lies behind its beginning.
LEMMA UpperNarrows ==
  ASSUME SearchInv, Upper
  PROVE  Bracketed' /\ end' = end /\ beg' \in Nat /\ beg < beg' /\ beg' < end
<1>1. /\ beg' = Mid /\ end' = end /\ offset' = offset /\ numbers' = numbers /\ line' = line
      /\ Searching /\ offset > Target.end
  BY DEF Upper
<1>2. /\ Len(numbers) \in Nat /\ Mid \in beg .. end - 1 /\ Mid + 1 \in DOMAIN numbers
      /\ Target \in [line : Nat, begin : Nat, end : Nat] /\ (Mid = beg => end = beg + 1)
  BY <1>1, MidInside
<1>3. /\ offset \in Nat /\ beg \in Nat /\ end \in Nat /\ end <= Len(numbers)
      /\ offset <= numbers[end].end /\ numbers # <<>> /\ Covers(numbers, offset)
  BY <1>1 DEF SearchInv, SearchTypes, Bracketed
<1>4. Mid # beg
  <2> SUFFICES ASSUME Mid = beg PROVE FALSE
    OBVIOUS
  <2>1. Target = numbers[end]
    BY <1>2, <1>3 DEF Target
  <2> QED
    BY <1>1, <1>2, <1>3, <2>1
<1>5. beg' \in Nat /\ beg < beg' /\ beg' < end
  BY <1>1, <1>2, <1>3, <1>4
<1>6. Target.begin <= Target.end
  BY <1>2 DEF SearchInv, SearchTypes, IsLineTable, Target
<1>7. numbers[beg' + 1].begin <= offset
  BY <1>1, <1>2, <1>3, <1>6 DEF Target
<1>8. Bracketed'
  BY <1>1, <1>3, <1>5, <1>7 DEF Bracketed, Covers
<1> QED
  BY <1>1, <1>5, <1>8

LEMMA SearchInvInit == LineInit => SearchInv
BY DEF LineInit, SearchInv, SearchTypes, Bracketed, Searching, NoLine

LEMMA SearchInvNext == SearchInv /\ [LineNext]_lineVars => SearchInv'
<1> SUFFICES ASSUME SearchInv, [LineNext]_lineVars PROVE SearchInv'
  OBVIOUS
<1>1. CASE BeginSearch
  <2>1. /\ offset' \in Nat /\ beg' = 0 /\ end' = Len(numbers) /\ numbers' = numbers
        /\ line' = (IF numbers = <<>> THEN 0 ELSE NoLine) /\ Covers(numbers, offset')
    BY <1>1 DEF BeginSearch, StartSearch
  <2>2. numbers \in Seq([line : Nat, begin : Nat, end : Nat]) /\ Len(numbers) \in Nat
    BY DEF SearchInv, SearchTypes, IsLineTable
  <2>3. SearchTypes'
    BY <2>1, <2>2 DEF SearchInv, SearchTypes, IsLineTable, NoLine
  <2>4. ASSUME numbers # <<>>
        PROVE  0 < Len(numbers) /\ numbers[1].begin = 0
    BY <2>2, <2>4 DEF SearchInv, SearchTypes, IsLineTable
  <2>5. Bracketed'
    BY <2>1, <2>2, <2>4 DEF Bracketed, Covers, Searching, NoLine
  <2> QED
    BY <2>3, <2>5 DEF SearchInv
<1>2. CASE Lower
  BY <1>2, LowerNarrows DEF Lower, SearchInv, SearchTypes, IsLineTable
<1>3. CASE Upper
  BY <1>3, UpperNarrows DEF Upper, SearchInv, SearchTypes, IsLineTable
<1>4. CASE Found
  <2>1. Target.line \in Nat
    BY <1>4, MidInside DEF Found
  <2> QED
    BY <1>4, <2>1 DEF Found, SearchInv, SearchTypes, IsLineTable, Bracketed, Searching, NoLine
<1>5. CASE UNCHANGED lineVars
  BY <1>5 DEF lineVars, SearchInv, SearchTypes, IsLineTable, Bracketed, Searching, Covers
<1> QED
  BY <1>1, <1>2, <1>3, <1>4, <1>5 DEF LineNext, Search

\* Wherever the search looks, the offset lies in the part still searched, and that
\* part in the table: numbers[mid] is never outside the vector
\* (LineNumberTable::determineLineR).
THEOREM SearchBracketed == LineSpec => []Bracketed
<1>1. SearchInv => Bracketed
  BY DEF SearchInv
<1> QED
  BY <1>1, SearchInvInit, SearchInvNext, PTL DEF LineSpec

\* Every call of determineLineR but the last searches a strictly smaller part, also
\* when the middle is the beginning (mid = beg), so the recursion ends; and the last
\* finds a range with the offset in it.
SearchStep ==
  Search => \/ /\ line' = NoLine
               /\ beg <= beg' /\ end' <= end /\ end' - beg' < end - beg /\ beg' < end'
            \/ \E n \in DOMAIN numbers : /\ line' = numbers[n].line
                                         /\ numbers[n].begin <= offset /\ offset <= numbers[n].end

THEOREM SearchShrinks == LineSpec => [][SearchStep]_lineVars
<1>1. SearchInv => SearchStep
  <2> SUFFICES ASSUME SearchInv, Search PROVE
         \/ /\ line' = NoLine
            /\ beg <= beg' /\ end' <= end /\ end' - beg' < end - beg /\ beg' < end'
         \/ \E n \in DOMAIN numbers : /\ line' = numbers[n].line
                                      /\ numbers[n].begin <= offset /\ offset <= numbers[n].end
    BY DEF SearchStep
  <2>0. beg \in Nat /\ end \in Nat
    BY DEF SearchInv, SearchTypes
  <2>1. CASE Lower
    <3>1. line' = NoLine
      BY <2>1 DEF Lower, Searching
    <3> QED
      BY <2>0, <2>1, <3>1, LowerNarrows
  <2>2. CASE Upper
    <3>1. line' = NoLine
      BY <2>2 DEF Upper, Searching
    <3> QED
      BY <2>0, <2>2, <3>1, UpperNarrows
  <2>3. CASE Found
    <3>1. Mid + 1 \in DOMAIN numbers
      BY <2>3, MidInside DEF Found
    <3> QED
      BY <2>3, <3>1 DEF Found, Target
  <2> QED
    BY <2>1, <2>2, <2>3 DEF Search
<1>2. SearchInv /\ [LineNext]_lineVars => [SearchStep]_lineVars
  BY <1>1
<1> QED
  BY <1>2, SearchInvInit, SearchInvNext, PTL DEF LineSpec

\* Whatever the offset, one of the three cases holds: the search is never stuck.
THEOREM SearchNeverStuck ==
  ASSUME SearchInv, Searching
  PROVE  \/ offset < Target.begin
         \/ offset > Target.end
         \/ Target.begin <= offset /\ offset <= Target.end
<1>1. Target \in [line : Nat, begin : Nat, end : Nat] /\ offset \in Nat
  BY MidInside DEF SearchInv, SearchTypes
<1> QED
  BY <1>1
=============================================================================
