------------------------- MODULE RootTracking_proofs -------------------------
(***************************************************************************)
(* What the processor owes the collector, for every program and stacks of  *)
(* any depth.                                                              *)
(*                                                                         *)
(* Roots are erased by address, so a root is lost when two slots share an  *)
(* address or a slot is popped that is not where its root says.  IInv      *)
(* therefore says that slots of the operand stack follow one another, that *)
(* frames do not overlap, and that root_set is a map; RootsHold, that      *)
(* every slot in use is in it.  Where a slot lies is the sum of the sizes  *)
(* before it: the facts about SumTo are proved by induction over the       *)
(* length of a sequence.                                                   *)
(***************************************************************************)
EXTENDS RootTracking, DataLemmas

\* The function SumTo chooses exists.
Step(sizes, f, k) == IF k = 0 THEN 0 ELSE f[k - 1] + sizes[k]

\* By induction over the length that is summed up.
LEMMA SumExists ==
  ASSUME NEW sizes \in Seq(Nat)
  PROVE  \E f : f = [k \in 0 .. Len(sizes) |-> Step(sizes, f, k)]
<1> DEFINE N == Len(sizes)
<1> DEFINE Sums(m, f) == /\ f \in [0 .. m -> Nat]
                         /\ \A k \in 0 .. m : k <= N => f[k] = Step(sizes, f, k)
           S == {m \in Nat : m <= N => \E f : Sums(m, f)}
<1>1. 0 \in S
  <2>1. Sums(0, [k \in 0 .. 0 |-> 0])
    BY DEF Step
  <2> QED
    BY <2>1
<1>2. ASSUME NEW m \in S PROVE m + 1 \in S
  <2>1. SUFFICES ASSUME m + 1 <= N PROVE \E f : Sums(m + 1, f)
    OBVIOUS
  <2>2. PICK f : Sums(m, f)
    BY <1>2, <2>1
  <2> DEFINE g == [k \in 0 .. m + 1 |-> IF k = m + 1 THEN f[m] + sizes[m + 1] ELSE f[k]]
  <2>3. m \in Nat /\ sizes[m + 1] \in Nat /\ N \in Nat
    BY <2>1
  <2>4. g \in [0 .. m + 1 -> Nat]
    BY <2>2, <2>3
  <2>5. ASSUME NEW k \in 0 .. m + 1 PROVE g[k] = Step(sizes, g, k)
    <3>1. CASE k = m + 1
      BY <3>1, <2>3 DEF Step
    <3>2. CASE k # m + 1
      <4>1. k \in 0 .. m /\ k <= N /\ (k # 0 => k - 1 \in 0 .. m)
        BY <3>2, <2>3, <2>1
      <4>2. f[k] = Step(sizes, f, k)
        BY <2>2, <4>1
      <4> QED
        BY <4>1, <4>2, <2>3 DEF Step
    <3> QED
      BY <3>1, <3>2
  <2> HIDE DEF g
  <2> QED
    BY <2>4, <2>5
<1> HIDE DEF S
<1>3. S = Nat
  <2>1. S \subseteq Nat
    BY DEF S
  <2> QED
    BY <1>1, <1>2, <2>1, SetInduction
<1>4. N \in S /\ N \in Nat
  BY <1>3
<1>5. PICK f : Sums(N, f)
  BY <1>4 DEF S
<1>6. f = [k \in 0 .. N |-> Step(sizes, f, k)]
  BY <1>5, <1>4
<1> QED
  BY <1>6

\* The recursion of SumTo.
LEMMA SumFacts ==
  ASSUME NEW sizes \in Seq(Nat)
  PROVE  /\ SumTo(sizes, 0) = 0
         /\ \A n \in 1 .. Len(sizes) : SumTo(sizes, n) = SumTo(sizes, n - 1) + sizes[n]
<1> DEFINE sum == CHOOSE f : f = [k \in 0 .. Len(sizes) |-> IF k = 0 THEN 0 ELSE f[k - 1] + sizes[k]]
<1>1. \A n : SumTo(sizes, n) = sum[n]
  BY DEF SumTo
<1>2. sum = [k \in 0 .. Len(sizes) |-> IF k = 0 THEN 0 ELSE sum[k - 1] + sizes[k]]
  BY SumExists DEF Step
<1> HIDE DEF sum
<1>3. Len(sizes) \in Nat
  OBVIOUS
<1>4. sum[0] = 0
  BY <1>2, <1>3
<1>5. ASSUME NEW n \in 1 .. Len(sizes)
      PROVE  sum[n] = sum[n - 1] + sizes[n]
  BY <1>2, <1>3
<1> QED
  BY <1>1, <1>4, <1>5

\* Partial sums are natural numbers, and grow with the sizes they add up.
LEMMA SumType ==
  ASSUME NEW sizes \in Seq(Nat)
  PROVE  \A n \in 0 .. Len(sizes) : SumTo(sizes, n) \in Nat
<1> DEFINE S == {n \in 0 .. Len(sizes) : SumTo(sizes, n) \in Nat}
<1>1. Len(sizes) \in Nat /\ \A n \in 1 .. Len(sizes) : sizes[n] \in Nat
  OBVIOUS
<1>2. 0 \in S
  BY <1>1, SumFacts
<1>3. ASSUME NEW n \in 0 .. Len(sizes) - 1, n \in S PROVE n + 1 \in S
  <2>1. n + 1 \in 1 .. Len(sizes) /\ n + 1 \in 0 .. Len(sizes) /\ (n + 1) - 1 = n
    BY <1>1
  <2>2. SumTo(sizes, n + 1) = SumTo(sizes, n) + sizes[n + 1]
    BY <2>1, SumFacts
  <2> QED
    BY <1>1, <1>3, <2>1, <2>2
<1> HIDE DEF S
<1>4. \A n \in 0 .. Len(sizes) : n \in S
  BY <1>1, <1>2, <1>3, BoundedInduction
<1> QED
  BY <1>4 DEF S

\* An element lies within every sum that has it.
LEMMA SumGrows ==
  ASSUME NEW sizes \in Seq(Nat)
  PROVE  \A n \in 0 .. Len(sizes) : \A m \in 1 .. n :
           SumTo(sizes, m - 1) + sizes[m] <= SumTo(sizes, n)
<1> DEFINE P(n) == \A m \in 1 .. n : SumTo(sizes, m - 1) + sizes[m] <= SumTo(sizes, n)
           S == {n \in 0 .. Len(sizes) : P(n)}
<1>1. Len(sizes) \in Nat /\ \A n \in 1 .. Len(sizes) : sizes[n] \in Nat
  OBVIOUS
<1>2. 0 \in S
  BY <1>1
<1>3. ASSUME NEW n \in 0 .. Len(sizes) - 1, n \in S PROVE n + 1 \in S
  <2>1. /\ n + 1 \in 1 .. Len(sizes) /\ (n + 1) - 1 = n
        /\ n + 1 \in 0 .. Len(sizes) /\ n \in 0 .. Len(sizes)
    BY <1>1
  <2>2. SumTo(sizes, n + 1) = SumTo(sizes, n) + sizes[n + 1]
    BY <2>1, SumFacts
  <2>3. ASSUME NEW m \in 1 .. n + 1
        PROVE  SumTo(sizes, m - 1) + sizes[m] <= SumTo(sizes, n + 1)
    <3>1. m \in 1 .. Len(sizes) /\ m - 1 \in 0 .. Len(sizes)
      BY <2>1, <1>1
    <3>2. /\ SumTo(sizes, n) \in Nat /\ SumTo(sizes, m - 1) \in Nat
          /\ sizes[m] \in Nat /\ sizes[n + 1] \in Nat
      BY <2>1, <3>1, <1>1, SumType
    <3>3. CASE m = n + 1
      BY <3>3, <2>1, <2>2, <3>2
    <3>4. CASE m # n + 1
      <4>1. m \in 1 .. n
        BY <3>4
      <4>2. SumTo(sizes, m - 1) + sizes[m] <= SumTo(sizes, n)
        BY <4>1, <1>3
      <4> QED
        BY <4>2, <2>2, <3>2
    <3> QED
      BY <3>3, <3>4
  <2> QED
    BY <2>1, <2>3
<1> HIDE DEF S
<1>4. \A n \in 0 .. Len(sizes) : n \in S
  BY <1>1, <1>2, <1>3, BoundedInduction
<1> QED
  BY <1>4 DEF S

\* The sum of two sequences of sizes, one after the other.
LEMMA SumConcat ==
  ASSUME NEW a \in Seq(Nat), NEW b \in Seq(Nat)
  PROVE  SumTo(a \o b, Len(a \o b)) = SumTo(a, Len(a)) + SumTo(b, Len(b))
<1>1. PICK c \in Seq(Nat) : c = a \o b
  <2>1. a \o b \in Seq(Nat)
    OBVIOUS
  <2> QED
    BY <2>1
<1>2. /\ Len(c) = Len(a) + Len(b) /\ Len(a) \in Nat /\ Len(b) \in Nat
      /\ \A n \in 1 .. Len(a) : c[n] = a[n] /\ a[n] \in Nat
      /\ \A n \in 1 .. Len(b) : c[Len(a) + n] = b[n] /\ b[n] \in Nat
  BY <1>1
<1>3. \A n \in 0 .. Len(a) : SumTo(c, n) = SumTo(a, n)
  <2> DEFINE S == {n \in 0 .. Len(a) : SumTo(c, n) = SumTo(a, n)}
  <2>1. 0 \in S
    BY <1>2, SumFacts
  <2>2. ASSUME NEW n \in 0 .. Len(a) - 1, n \in S PROVE n + 1 \in S
    <3>1. /\ n + 1 \in 1 .. Len(a) /\ n + 1 \in 0 .. Len(a)
          /\ n + 1 \in 1 .. Len(c) /\ (n + 1) - 1 = n
      BY <1>2
    <3>2. /\ SumTo(c, n + 1) = SumTo(c, n) + c[n + 1]
          /\ SumTo(a, n + 1) = SumTo(a, n) + a[n + 1]
      BY <3>1, SumFacts
    <3> QED
      BY <3>1, <3>2, <2>2, <1>2
  <2> HIDE DEF S
  <2>3. \A n \in 0 .. Len(a) : n \in S
    BY <1>2, <2>1, <2>2, BoundedInduction
  <2> QED
    BY <2>3 DEF S
<1>4. \A n \in 0 .. Len(b) : SumTo(c, Len(a) + n) = SumTo(a, Len(a)) + SumTo(b, n)
  <2> DEFINE S == {n \in 0 .. Len(b) :
                     SumTo(c, Len(a) + n) = SumTo(a, Len(a)) + SumTo(b, n)}
  <2>1. 0 \in S
    <3>1. SumTo(b, 0) = 0 /\ SumTo(a, Len(a)) \in Nat /\ SumTo(c, Len(a)) = SumTo(a, Len(a))
      BY <1>2, <1>3, SumFacts, SumType
    <3>2. Len(a) + 0 = Len(a)
      BY <1>2
    <3> QED
      BY <3>1, <3>2, <1>2
  <2>2. ASSUME NEW n \in 0 .. Len(b) - 1, n \in S PROVE n + 1 \in S
    <3>1. /\ n + 1 \in 1 .. Len(b) /\ n + 1 \in 0 .. Len(b)
          /\ (n + 1) - 1 = n /\ n \in 0 .. Len(b)
          /\ Len(a) + (n + 1) \in 1 .. Len(c) /\ (Len(a) + (n + 1)) - 1 = Len(a) + n
      BY <1>2
    <3>2. /\ SumTo(c, Len(a) + (n + 1)) = SumTo(c, Len(a) + n) + c[Len(a) + (n + 1)]
          /\ SumTo(b, n + 1) = SumTo(b, n) + b[n + 1]
      BY <3>1, SumFacts
    <3>3. c[Len(a) + (n + 1)] = b[n + 1] /\ b[n + 1] \in Nat
      BY <3>1, <1>2
    <3>4. SumTo(a, Len(a)) \in Nat /\ SumTo(b, n) \in Nat
      BY <3>1, <1>2, SumType
    <3>5. SumTo(c, Len(a) + n) = SumTo(a, Len(a)) + SumTo(b, n)
      BY <2>2
    <3> QED
      BY <3>1, <3>2, <3>3, <3>4, <3>5
  <2> HIDE DEF S
  <2>3. \A n \in 0 .. Len(b) : n \in S
    BY <1>2, <2>1, <2>2, BoundedInduction
  <2> QED
    BY <2>3 DEF S
<1> QED
  BY <1>1, <1>2, <1>4

-----------------------------------------------------------------------------
(***************************************************************************)
(* Slots and frames.                                                       *)
(***************************************************************************)
LEMMA SizesType ==
  ASSUME NEW kinds \in Seq(Kinds)
  PROVE  /\ Sizes(kinds) \in Seq(Nat)
         /\ Len(Sizes(kinds)) = Len(kinds)
         /\ \A n \in 1 .. Len(kinds) : Sizes(kinds)[n] \in Nat \ {0}
  BY DEF Sizes, Kinds, SlotSize

\* The size of the slots of a frame, or of arguments,
LEMMA SizeOfAllType ==
  ASSUME NEW kinds \in Seq(Kinds)
  PROVE  SizeOfAll(kinds) \in Nat
<1>1. Len(kinds) \in 0 .. Len(kinds)
  OBVIOUS
<1> QED
  BY <1>1, SizesType, SumType DEF SizeOfAll, SizeTo

\* of two lists of them,
LEMMA SizeOfConcat ==
  ASSUME NEW a \in Seq(Kinds), NEW b \in Seq(Kinds)
  PROVE  SizeOfAll(a \o b) = SizeOfAll(a) + SizeOfAll(b)
<1>1. Sizes(a \o b) = Sizes(a) \o Sizes(b)
  BY DEF Sizes
<1>2. /\ Sizes(a) \in Seq(Nat) /\ Sizes(b) \in Seq(Nat)
      /\ Len(Sizes(a)) = Len(a) /\ Len(Sizes(b)) = Len(b)
  BY SizesType
<1>3. Len(a \o b) = Len(Sizes(a) \o Sizes(b))
  <2>1. Len(a \o b) = Len(a) + Len(b)
    OBVIOUS
  <2>2. Len(Sizes(a) \o Sizes(b)) = Len(Sizes(a)) + Len(Sizes(b))
    <3>1. \A x, y \in Seq(Nat) : Len(x \o y) = Len(x) + Len(y)
      OBVIOUS
    <3> QED
      BY <1>2, <3>1
  <2> QED
    BY <2>1, <2>2, <1>2
<1> QED
  BY <1>1, <1>2, <1>3, SumConcat DEF SizeOfAll, SizeTo

\* and of the frame of a function.
LEMMA LayoutType ==
  ASSUME NEW f \in Function
  PROVE  Layout(f) \in Seq(Kinds) /\ FrameSize(f) \in Nat
<1>1. Params[f] \in Seq(Kinds) /\ Locals[f] \in Seq(Kinds)
  BY KindAssumption
<1>2. Layout(f) \in Seq(Kinds)
  BY <1>1 DEF Layout
<1> QED
  BY <1>2, SizeOfAllType DEF FrameSize

\* The reference slots of a frame lie at addresses of their own.
LEMMA FrameSlotsApart ==
  ASSUME NEW f \in Function, NEW memory \in Nat
  PROVE  /\ \A s \in FrameSlots(f, memory) :
              s.at \in {"frame"} \X Nat /\ s.kind \in RootKinds
         /\ \A s, t \in FrameSlots(f, memory) : s.at = t.at => s = t
<1> DEFINE kinds == Layout(f)
           At(n) == memory + SizeTo(kinds, n - 1)
<1>1. kinds \in Seq(Kinds)
  BY LayoutType
<1>2. \A n \in 1 .. Len(kinds) : At(n) \in Nat
  <2>1. \A n \in 1 .. Len(kinds) : n - 1 \in 0 .. Len(kinds)
    BY <1>1
  <2> HIDE DEF kinds
  <2>2. \A n \in 0 .. Len(kinds) : SizeTo(kinds, n) \in Nat
    BY <1>1, SizesType, SumType DEF SizeTo
  <2> QED
    BY <2>1, <2>2
<1>3. \A m, n \in 1 .. Len(kinds) : m < n => At(m) < At(n)
  <2> HIDE DEF kinds
  <2> SUFFICES ASSUME NEW m \in 1 .. Len(kinds), NEW n \in 1 .. Len(kinds), m < n
               PROVE  At(m) < At(n)
    OBVIOUS
  <2>1. m \in 1 .. n - 1 /\ n - 1 \in 0 .. Len(kinds) /\ m - 1 \in 0 .. Len(kinds)
    BY <1>1
  <2>2. SizeTo(kinds, m - 1) + Sizes(kinds)[m] <= SizeTo(kinds, n - 1)
    BY <2>1, <1>1, SizesType, SumGrows DEF SizeTo
  <2>3. Sizes(kinds)[m] \in Nat \ {0}
    BY <1>1, SizesType
  <2>4. SizeTo(kinds, m - 1) \in Nat /\ SizeTo(kinds, n - 1) \in Nat
    BY <2>1, <1>1, SizesType, SumType DEF SizeTo
  <2> QED
    BY <2>2, <2>3, <2>4
<1>4. \A s \in FrameSlots(f, memory) : \E n \in 1 .. Len(kinds) :
         s = [at |-> <<"frame", At(n)>>, kind |-> kinds[n]] /\ kinds[n] \in RootKinds
  BY <1>1 DEF FrameSlots
<1> HIDE DEF kinds, At
<1>5. ASSUME NEW s \in FrameSlots(f, memory)
      PROVE  s.at \in {"frame"} \X Nat /\ s.kind \in RootKinds
  BY <1>2, <1>4
<1>6. ASSUME NEW s \in FrameSlots(f, memory), NEW t \in FrameSlots(f, memory), s.at = t.at
      PROVE  s = t
  <2>1. PICK m \in 1 .. Len(kinds) : s = [at |-> <<"frame", At(m)>>, kind |-> kinds[m]]
    BY <1>4
  <2>2. PICK n \in 1 .. Len(kinds) : t = [at |-> <<"frame", At(n)>>, kind |-> kinds[n]]
    BY <1>4
  <2>3. At(m) = At(n)
    BY <2>1, <2>2, <1>6
  <2>4. m = n
    <3>1. Len(kinds) \in Nat
      BY <1>1
    <3> QED
      BY <2>3, <1>2, <1>3, <3>1
  <2> QED
    BY <2>1, <2>2, <2>4
<1> QED
  BY <1>5, <1>6

\* What a frame or an operand slot may be.
Slot == [at : Nat, kind : Kinds]
Frame == [fn : Function, memory : Nat]

\* The slots of an operand stack lie one after the other.
Ordered(s) ==
  \A m, n \in DOMAIN s : m < n => s[m].at + SlotSize(s[m].kind) <= s[n].at

RootMap(set) ==
  /\ \A r \in set : r.at \in Address /\ r.kind \in RootKinds
  /\ \A r, s \in set : r.at = s.at => r = s

SlotsIn(set, s) ==
  \A m \in DOMAIN s :
    s[m].kind \in RootKinds => \E r \in set : r.at = <<"operand", s[m].at>>

FramesIn(set, calls) ==
  \A i \in DOMAIN calls : \A slot \in FrameSlots(calls[i].fn, calls[i].memory) :
    \E r \in set : r.at = slot.at

\* An operand stack and a set of roots as the instructions leave them.
InOrder(set, s) == s \in Seq(Slot) /\ Ordered(s) /\ RootMap(set)

\* No slot is empty.
LEMMA SlotFacts ==
  /\ \A kind \in Kinds : SlotSize(kind) \in Nat \ {0}
  /\ RootKinds \subseteq Kinds
  BY DEF Kinds, RootKinds, SlotSize

\* Popping slots with their roots leaves the others and their roots.
LEMMA PopKeeps ==
  ASSUME NEW s, NEW set, NEW n \in 0 .. Len(s), InOrder(set, s)
  PROVE  /\ InOrder(RootsPopped(set, s, n), Popped(s, n))
         /\ Len(Popped(s, n)) = Len(s) - n
         /\ SlotsIn(set, s) => SlotsIn(RootsPopped(set, s, n), Popped(s, n))
         /\ \A calls \in Seq(Frame) :
              FramesIn(set, calls) => FramesIn(RootsPopped(set, s, n), calls)
<1>1. /\ s \in Seq(Slot) /\ Len(s) \in Nat /\ Len(s) - n \in 0 .. Len(s)
      /\ DOMAIN s = 1 .. Len(s) /\ \A m \in 1 .. Len(s) : s[m] \in Slot
  BY DEF InOrder
<1>2. /\ Popped(s, n) \in Seq(Slot) /\ Len(Popped(s, n)) = Len(s) - n
      /\ DOMAIN Popped(s, n) = 1 .. Len(s) - n
      /\ \A m \in 1 .. Len(s) - n : Popped(s, n)[m] = s[m] /\ m \in 1 .. Len(s)
  <2>1. \A m \in 1 .. Len(s) - n : m \in 1 .. Len(s)
    BY <1>1
  <2>2. Popped(s, n) = [m \in 1 .. Len(s) - n |-> s[m]]
    BY <1>1 DEF Popped
  <2> QED
    BY <1>1, <2>1, <2>2
<1>3. Ordered(Popped(s, n))
  BY <1>1, <1>2 DEF Ordered, InOrder
<1>4. RootsPopped(set, s, n) \subseteq set
  BY DEF RootsPopped
<1>5. RootMap(RootsPopped(set, s, n))
  BY <1>4 DEF RootMap, InOrder
<1>6. ASSUME SlotsIn(set, s) PROVE SlotsIn(RootsPopped(set, s, n), Popped(s, n))
  <2> SUFFICES ASSUME NEW m \in 1 .. Len(s) - n, s[m].kind \in RootKinds
               PROVE  \E r \in RootsPopped(set, s, n) : r.at = <<"operand", s[m].at>>
    BY <1>1, <1>2 DEF SlotsIn
  <2>1. PICK r \in set : r.at = <<"operand", s[m].at>>
    BY <1>1, <1>2, <1>6 DEF SlotsIn
  <2>2. ASSUME NEW k \in (Len(s) - n + 1) .. Len(s)
        PROVE  r.at # <<"operand", s[k].at>>
    <3>1. m \in 1 .. Len(s) /\ k \in 1 .. Len(s) /\ m < k
      BY <1>1
    <3>2. /\ s[m].at + SlotSize(s[m].kind) <= s[k].at
          /\ s[m].at \in Nat /\ s[k].at \in Nat /\ s[m].kind \in Kinds
      <4>1. s[m] \in Slot /\ s[k] \in Slot
        BY <3>1, <1>1
      <4> QED
        BY <3>1, <1>1, <4>1 DEF InOrder, Ordered, Slot
    <3>3. SlotSize(s[m].kind) \in Nat \ {0}
      BY <3>2, SlotFacts
    <3>4. s[m].at # s[k].at
      BY <3>2, <3>3
    <3> QED
      BY <2>1, <3>4
  <2> QED
    BY <2>1, <2>2 DEF RootsPopped
<1>7. ASSUME NEW calls \in Seq(Frame), FramesIn(set, calls)
      PROVE  FramesIn(RootsPopped(set, s, n), calls)
  <2> SUFFICES ASSUME NEW i \in DOMAIN calls,
                      NEW slot \in FrameSlots(calls[i].fn, calls[i].memory)
               PROVE  \E r \in RootsPopped(set, s, n) : r.at = slot.at
    BY DEF FramesIn
  <2>1. PICK r \in set : r.at = slot.at
    BY <1>7 DEF FramesIn
  <2>2. calls[i] \in Frame
    OBVIOUS
  <2>3. calls[i].fn \in Function /\ calls[i].memory \in Nat
    BY <2>2 DEF Frame
  <2>4. slot.at \in {"frame"} \X Nat
    BY <2>3, FrameSlotsApart
  <2>5. \A a : slot.at # <<"operand", a>>
    BY <2>4
  <2> QED
    BY <2>1, <2>5 DEF RootsPopped
<1> QED
  BY <1>2, <1>3, <1>5, <1>6, <1>7 DEF InOrder

\* A slot is registered, now or before.
LEMMA AddRootThere ==
  ASSUME NEW set, NEW at, NEW kind \in RootKinds
  PROVE  \E r \in AddRoot(set, at, kind) : r.at = at
<1>1. CASE \E r \in set : r.at = at
  BY <1>1 DEF AddRoot
<1>2. CASE ~ \E r \in set : r.at = at
  <2>1. [at |-> at, kind |-> kind] \in AddRoot(set, at, kind)
    BY <1>2 DEF AddRoot
  <2> QED
    BY <2>1
<1> QED
  BY <1>1, <1>2

\* Pushing a slot with its root keeps the others and their roots.
LEMMA PushKeeps ==
  ASSUME NEW s, NEW set, NEW kind \in Kinds, InOrder(set, s)
  PROVE  /\ InOrder(RootPushed(set, s, kind), Pushed(s, kind))
         /\ SlotsIn(set, s) => SlotsIn(RootPushed(set, s, kind), Pushed(s, kind))
         /\ \A calls : FramesIn(set, calls) => FramesIn(RootPushed(set, s, kind), calls)
<1> DEFINE top == OperandTop(s)
           t == Pushed(s, kind)
           new == RootPushed(set, s, kind)
<1>1. /\ s \in Seq(Slot) /\ Len(s) \in Nat
      /\ DOMAIN s = 1 .. Len(s) /\ \A m \in 1 .. Len(s) : s[m] \in Slot
  BY DEF InOrder
<1>2. \A m \in 1 .. Len(s) : s[m].at \in Nat /\ SlotSize(s[m].kind) \in Nat \ {0}
  BY <1>1, SlotFacts DEF Slot
<1>3. top \in Nat /\ \A m \in 1 .. Len(s) : s[m].at + SlotSize(s[m].kind) <= top
  <2>1. CASE s = <<>>
    BY <2>1 DEF OperandTop
  <2>2. CASE s # <<>>
    <3>1. Len(s) \in 1 .. Len(s) /\ top = s[Len(s)].at + SlotSize(s[Len(s)].kind)
      BY <2>2, <1>1 DEF OperandTop
    <3> HIDE DEF top
    <3>2. \A m \in 1 .. Len(s) : m < Len(s) => s[m].at + SlotSize(s[m].kind) <= s[Len(s)].at
      BY <3>1, <1>1 DEF InOrder, Ordered
    <3>3. ASSUME NEW m \in 1 .. Len(s) PROVE s[m].at + SlotSize(s[m].kind) <= top
      <4>1. CASE m = Len(s)
        BY <4>1, <3>1, <1>2
      <4>2. CASE m # Len(s)
        <5>1. s[m].at + SlotSize(s[m].kind) <= s[Len(s)].at
          <6>1. Len(s) \in Nat
            BY <1>1
          <6>2. m < Len(s)
            BY <4>2, <6>1
          <6> QED
            BY <6>2, <3>2
        <5> QED
          BY <5>1, <3>1, <1>2
      <4> QED
        BY <4>1, <4>2
    <3> QED
      BY <3>1, <3>3, <1>2
  <2> QED
    BY <2>1, <2>2
<1>4. /\ t \in Seq(Slot) /\ DOMAIN t = 1 .. Len(s) + 1
      /\ t[Len(s) + 1] = [at |-> top, kind |-> kind]
      /\ \A m \in 1 .. Len(s) : t[m] = s[m]
  <2>1. [at |-> top, kind |-> kind] \in Slot
    BY <1>3 DEF Slot
  <2>2. t = Append(s, [at |-> top, kind |-> kind])
    BY DEF Pushed
  <2> HIDE DEF t, top
  <2> QED
    BY <1>1, <2>1, <2>2
<1>5. new = AddRoot(set, <<"operand", top>>, kind)
  BY DEF RootPushed
<1> HIDE DEF top, t, new
<1>6. Ordered(t)
  <2> SUFFICES ASSUME NEW m \in 1 .. Len(s) + 1, NEW n \in 1 .. Len(s) + 1, m < n
               PROVE  t[m].at + SlotSize(t[m].kind) <= t[n].at
    BY <1>4 DEF Ordered
  <2>1. m \in 1 .. Len(s) /\ t[m] = s[m]
    BY <1>1, <1>4
  <2>2. CASE n = Len(s) + 1
    BY <2>1, <2>2, <1>3, <1>4
  <2>3. CASE n # Len(s) + 1
    <3>1. n \in 1 .. Len(s) /\ t[n] = s[n]
      BY <2>3, <1>1, <1>4
    <3> QED
      BY <2>1, <3>1, <1>1 DEF InOrder, Ordered
  <2> QED
    BY <2>2, <2>3
<1>7. set \subseteq new
  BY <1>5 DEF AddRoot
<1>8. RootMap(new)
  <2>1. <<"operand", top>> \in Address
    BY <1>3 DEF Address
  <2> QED
    BY <1>5, <2>1 DEF AddRoot, RootMap, InOrder
<1>9. ASSUME SlotsIn(set, s) PROVE SlotsIn(new, t)
  <2> SUFFICES ASSUME NEW m \in 1 .. Len(s) + 1, t[m].kind \in RootKinds
               PROVE  \E r \in new : r.at = <<"operand", t[m].at>>
    BY <1>4 DEF SlotsIn
  <2>1. CASE m = Len(s) + 1
    <3>1. t[m].at = top /\ kind \in RootKinds
      BY <2>1, <1>4
    <3>2. \E r \in new : r.at = <<"operand", top>>
      BY <3>1, <1>5, AddRootThere
    <3> QED
      BY <3>1, <3>2
  <2>2. CASE m # Len(s) + 1
    <3>1. m \in 1 .. Len(s) /\ t[m] = s[m]
      BY <2>2, <1>1, <1>4
    <3> QED
      BY <3>1, <1>1, <1>7, <1>9 DEF SlotsIn
  <2> QED
    BY <2>1, <2>2
<1>10. ASSUME NEW calls, FramesIn(set, calls) PROVE FramesIn(new, calls)
  BY <1>7, <1>10 DEF FramesIn
<1> QED
  BY <1>4, <1>6, <1>8, <1>9, <1>10 DEF InOrder, t, new

\* A call adds the reference slots of a frame that is not registered yet, or
\* finds them registered.
LEMMA AddRootsKeeps ==
  ASSUME NEW set, RootMap(set), NEW f \in Function, NEW memory \in Nat
  PROVE  LET slots == FrameSlots(f, memory)
             new == AddRoots(set, slots)
         IN /\ RootMap(new) /\ set \subseteq new
            /\ \A slot \in slots : \E r \in new : r.at = slot.at
<1> DEFINE slots == FrameSlots(f, memory)
           new == AddRoots(set, slots)
<1>1. /\ \A s \in slots : s.at \in Address /\ s.kind \in RootKinds
      /\ \A s, t \in slots : s.at = t.at => s = t
  BY FrameSlotsApart DEF Address
<1> HIDE DEF slots
<1>2. RootMap(new)
  BY <1>1 DEF AddRoots, RootMap
<1>3. set \subseteq new /\ \A slot \in slots : \E r \in new : r.at = slot.at
  BY DEF AddRoots
<1> QED
  BY <1>2, <1>3 DEF slots

-----------------------------------------------------------------------------
(***************************************************************************)
(* The invariant.                                                          *)
(***************************************************************************)
IInv ==
  /\ InOrder(roots, operand)
  /\ frames \in Seq(Frame) /\ frames # <<>>
  /\ borrowed \in Nat
  /\ static \in {"ref", "val"}
  /\ FramesDisjoint

\* The part that needs StaticsAreValues and OverridesAlike.
RootsHold ==
  /\ SlotsIn(roots, operand)
  /\ FramesIn(roots, frames)
  /\ static = "val"

\* The statements the run checks follow from the invariant.
LEMMA Conclusions ==
  ASSUME IInv
  PROVE  TypeOK /\ FramesDisjoint /\ (RootsHold => SlotsRegistered)
<1>1. TypeOK
  <2>1. operand \in Seq(Slot) /\ DOMAIN operand = 1 .. Len(operand)
    BY DEF IInv, InOrder
  <2>2. \A n \in DOMAIN operand : operand[n].kind \in Kinds /\ operand[n].at \in Nat
    <3>1. \A n \in DOMAIN operand : operand[n] \in Slot
      BY <2>1
    <3> QED
      BY <3>1 DEF Slot
  <2>3. \A i \in DOMAIN frames : frames[i].fn \in Function /\ frames[i].memory \in Nat
    <3>1. \A i \in DOMAIN frames : frames[i] \in Frame
      BY DEF IInv
    <3> QED
      BY <3>1 DEF Frame
  <2> QED
    BY <2>2, <2>3 DEF IInv, InOrder, RootMap, TypeOK
<1>2. ASSUME RootsHold PROVE SlotsRegistered
  <2> SUFFICES ASSUME NEW s \in LiveSlots PROVE Registered(s.at)
    BY DEF SlotsRegistered
  <2>1. CASE \E n \in DOMAIN operand :
               operand[n].kind \in RootKinds /\ s.at = <<"operand", operand[n].at>>
    BY <1>2, <2>1 DEF RootsHold, SlotsIn, Registered
  <2>2. CASE \E i \in DOMAIN frames : s \in FrameSlots(frames[i].fn, frames[i].memory)
    BY <1>2, <2>2 DEF RootsHold, FramesIn, Registered
  <2>3. static \notin RootKinds
    BY <1>2 DEF RootsHold, RootKinds
  <2> QED
    BY <2>1, <2>2, <2>3 DEF LiveSlots
<1> QED
  BY <1>1, <1>2 DEF IInv

\* A process starts in the frame of its first function, with no operand.
LEMMA InitInv == Init => IInv /\ RootsHold
<1> SUFFICES ASSUME Init PROVE IInv /\ RootsHold
  OBVIOUS
<1>1. Main \in Function
  BY KindAssumption
<1>2. frames = <<[fn |-> Main, memory |-> 0]>> /\ [fn |-> Main, memory |-> 0] \in Frame
  BY <1>1 DEF Init, Frame
<1>3. /\ frames \in Seq(Frame) /\ frames # <<>> /\ Len(frames) = 1 /\ DOMAIN frames = {1}
      /\ frames[1].fn = Main /\ frames[1].memory = 0
  BY <1>2
<1>4. FrameSize(Main) \in Nat
  BY <1>1, LayoutType
<1>5. borrowed = FrameSize(Main) /\ operand = <<>> /\ static = "val"
  BY DEF Init
<1>6. FramesDisjoint
  BY <1>3, <1>4, <1>5 DEF FramesDisjoint
<1>7. InOrder(roots, operand)
  <2>1. RootMap(roots)
    BY <1>1, FrameSlotsApart DEF Init, RootMap, Address
  <2> QED
    BY <2>1, <1>5 DEF InOrder, Ordered
<1>8. FramesIn(roots, frames)
  BY <1>3 DEF Init, FramesIn
<1>9. SlotsIn(roots, operand)
  BY <1>5 DEF SlotsIn
<1> QED
  BY <1>3, <1>4, <1>5, <1>6, <1>7, <1>8, <1>9 DEF IInv, RootsHold

\* The slots on top are there to be popped.
LEMMA TopThere ==
  ASSUME NEW kinds \in Seq(Kinds), IInv, TopIs(kinds)
  PROVE  Len(kinds) \in 0 .. Len(operand)
  BY DEF TopIs, IInv, InOrder

\* Instructions that pop some slots and push one.
LEMMA ReplaceInv ==
  ASSUME IInv, NEW kinds \in Seq(Kinds), NEW kind \in Kinds, Replace(kinds, kind)
  PROVE  IInv' /\ (RootsHold => RootsHold')
<1> DEFINE rest == Popped(operand, Len(kinds))
           freed == RootsPopped(roots, operand, Len(kinds))
<1>1. Len(kinds) \in 0 .. Len(operand)
  BY TopThere DEF Replace
<1>2. /\ InOrder(freed, rest)
      /\ SlotsIn(roots, operand) => SlotsIn(freed, rest)
      /\ FramesIn(roots, frames) => FramesIn(freed, frames)
  BY <1>1, PopKeeps DEF IInv
<1>3. /\ operand' = Pushed(rest, kind) /\ roots' = RootPushed(freed, rest, kind)
      /\ UNCHANGED <<frames, borrowed, static>>
  BY DEF Replace
<1> HIDE DEF rest, freed
<1>4. /\ InOrder(roots', operand')
      /\ SlotsIn(freed, rest) => SlotsIn(roots', operand')
      /\ FramesIn(freed, frames) => FramesIn(roots', frames')
  BY <1>2, <1>3, PushKeeps
<1> QED
  BY <1>2, <1>3, <1>4 DEF IInv, RootsHold, FramesDisjoint

\* Instructions that pop some slots.
LEMMA TakeInv ==
  ASSUME IInv, NEW kinds \in Seq(Kinds), Take(kinds), UNCHANGED <<frames, borrowed>>
  PROVE  /\ static' \in {"ref", "val"} => IInv'
         /\ static' = "val" => (RootsHold => RootsHold')
<1>1. Len(kinds) \in 0 .. Len(operand)
  BY TopThere DEF Take
<1>2. /\ InOrder(roots', operand')
      /\ SlotsIn(roots, operand) => SlotsIn(roots', operand')
      /\ FramesIn(roots, frames) => FramesIn(roots', frames')
  BY <1>1, PopKeeps DEF IInv, Take
<1> QED
  BY <1>2 DEF IInv, RootsHold, FramesDisjoint

\* ldelem erases the roots of its index and leaves that of the array.
LEMMA LoadElementInv ==
  ASSUME IInv, NEW kind \in Kinds, LoadElement(kind)
  PROVE  IInv' /\ (RootsHold => RootsHold')
<1> DEFINE rest == Popped(operand, 2)
<1>1. Len(<<"ref", "val">>) = 2 /\ <<"ref", "val">> \in Seq(Kinds)
  BY DEF Kinds
<1>2. 2 \in 0 .. Len(operand)
  BY <1>1, TopThere DEF LoadElement
<1>3. RootsPopped(roots, operand, 2) \subseteq roots
  BY DEF RootsPopped
<1>4. /\ InOrder(roots, rest)
      /\ SlotsIn(roots, operand) => SlotsIn(roots, rest)
  <2>1. InOrder(RootsPopped(roots, operand, 2), rest)
    BY <1>2, PopKeeps DEF IInv
  <2>2. SlotsIn(roots, operand) => SlotsIn(RootsPopped(roots, operand, 2), rest)
    BY <1>2, PopKeeps DEF IInv
  <2> HIDE DEF rest
  <2>3. InOrder(roots, rest)
    BY <2>1 DEF IInv, InOrder
  <2> QED
    BY <2>2, <2>3, <1>3 DEF SlotsIn
<1>5. /\ operand' = Pushed(rest, kind) /\ roots' = RootPushed(roots, rest, kind)
      /\ UNCHANGED <<frames, borrowed, static>>
  BY DEF LoadElement
<1> HIDE DEF rest
<1>6. /\ InOrder(roots', operand')
      /\ SlotsIn(roots, rest) => SlotsIn(roots', operand')
      /\ FramesIn(roots, frames) => FramesIn(roots', frames')
  BY <1>4, <1>5, PushKeeps
<1> QED
  BY <1>4, <1>5, <1>6 DEF IInv, RootsHold, FramesDisjoint

\* Every instruction but calls, ret and throw pops slots and pushes one.
LEMMA InstructionInv ==
  ASSUME IInv, Instruction
  PROVE  IInv' /\ (StaticsAreValues /\ RootsHold => RootsHold')
<1> USE DEF Kinds, RootKinds
<1>1. ASSUME NEW k \in Kinds, Load(k) PROVE IInv' /\ (RootsHold => RootsHold')
  <2>1. <<>> \in Seq(Kinds)
    OBVIOUS
  <2> QED
    BY <1>1, <2>1, ReplaceInv DEF Load
<1>2. ASSUME NEW k \in Kinds, Discard(k) PROVE IInv' /\ (RootsHold => RootsHold')
  <2>1. <<k>> \in Seq(Kinds) /\ Take(<<k>>) /\ UNCHANGED <<frames, borrowed, static>>
    BY <1>2 DEF Discard
  <2> QED
    BY <2>1, TakeInv DEF IInv, RootsHold
<1>3. CASE NewArray \/ InstanceOf \/ CastClass
  <2>1. <<"val">> \in Seq(Kinds) /\ <<"ref">> \in Seq(Kinds)
    OBVIOUS
  <2>2. "val" \in Kinds /\ "ref" \in Kinds
    OBVIOUS
  <2> QED
    BY <1>3, <2>1, <2>2, ReplaceInv DEF NewArray, InstanceOf, CastClass
<1>4. CASE Dup
  <2> DEFINE kind == operand[Len(operand)].kind
  <2>1. kind \in Kinds
    <3>1. operand \in Seq(Slot) /\ operand # <<>>
      BY <1>4 DEF IInv, InOrder, Dup
    <3>2. operand[Len(operand)] \in Slot
      BY <3>1
    <3> QED
      BY <3>2 DEF Slot
  <2>2. /\ operand' = Pushed(operand, kind) /\ roots' = RootPushed(roots, operand, kind)
        /\ UNCHANGED <<frames, borrowed, static>>
    BY <1>4 DEF Dup
  <2> HIDE DEF kind
  <2>3. /\ InOrder(roots', operand')
        /\ SlotsIn(roots, operand) => SlotsIn(roots', operand')
        /\ FramesIn(roots, frames) => FramesIn(roots', frames')
    BY <2>1, <2>2, PushKeeps DEF IInv
  <2> QED
    BY <2>2, <2>3 DEF IInv, RootsHold, FramesDisjoint
<1>5. ASSUME NEW b \in RootKinds, NEW k \in Kinds, LoadField(b, k)
      PROVE  IInv' /\ (RootsHold => RootsHold')
  <2>1. <<b>> \in Seq(Kinds)
    OBVIOUS
  <2> QED
    BY <1>5, <2>1, ReplaceInv DEF LoadField
<1>6. ASSUME NEW b \in RootKinds, NEW k \in Kinds, StoreField(b, k)
      PROVE  IInv' /\ (RootsHold => RootsHold')
  <2>1. <<k, b>> \in Seq(Kinds) /\ Take(<<k, b>>) /\ UNCHANGED <<frames, borrowed, static>>
    BY <1>6 DEF StoreField
  <2> QED
    BY <2>1, TakeInv DEF IInv, RootsHold
<1>7. ASSUME NEW k \in {"ref", "val"}, StoreElement(k)
      PROVE  IInv' /\ (RootsHold => RootsHold')
  <2>1. <<k, "ref", "val">> \in Seq(Kinds) /\ <<"ref", "val", k>> \in Seq(Kinds)
    OBVIOUS
  <2>2. UNCHANGED <<frames, borrowed, static>>
    BY <1>7 DEF StoreElement
  <2>3. Take(<<k, "ref", "val">>) \/ Take(<<"ref", "val", k>>)
    BY <1>7 DEF StoreElement
  <2> QED
    BY <2>1, <2>2, <2>3, TakeInv DEF IInv, RootsHold
<1>8. ASSUME NEW k \in StaticKinds, StoreStatic(k)
      PROVE  IInv' /\ (StaticsAreValues /\ RootsHold => RootsHold')
  <2>1. k \in {"ref", "val"} /\ static' = k
    BY <1>8, KindAssumption DEF StoreStatic
  <2>2. <<k>> \in Seq(Kinds) /\ Take(<<k>>) /\ UNCHANGED <<frames, borrowed>>
    BY <1>8, <2>1 DEF StoreStatic
  <2>3. IInv' /\ (k = "val" => (RootsHold => RootsHold'))
    BY <2>1, <2>2, TakeInv
  <2>4. StaticsAreValues => k = "val"
    BY <2>1 DEF StaticsAreValues
  <2> QED
    BY <2>3, <2>4
<1>9. CASE LoadElementAddress
  <2>1. <<"ref", "val">> \in Seq(Kinds)
    OBVIOUS
  <2> QED
    BY <1>9, <2>1, ReplaceInv DEF LoadElementAddress
<1>10. CASE \E k \in ElementKinds : LoadElement(k)
  <2>1. ElementKinds \subseteq Kinds
    BY KindAssumption
  <2> QED
    BY <1>10, <2>1, LoadElementInv
<1> QED
  BY <1>1, <1>2, <1>3, <1>4, <1>5, <1>6, <1>7, <1>8, <1>9, <1>10 DEF Instruction

\* The slots of a call's arguments.
LEMMA ArgumentsType ==
  ASSUME NEW f \in Function
  PROVE  Arguments(f) \in Seq(Kinds)
<1>1. \A s \in Seq(Kinds) : Reversed(s) \in Seq(Kinds)
  <2> SUFFICES ASSUME NEW s \in Seq(Kinds) PROVE Reversed(s) \in Seq(Kinds)
    OBVIOUS
  <2>1. Len(s) \in Nat /\ DOMAIN s = 1 .. Len(s) /\ \A n \in 1 .. Len(s) : s[n] \in Kinds
    OBVIOUS
  <2>2. \A n \in 1 .. Len(s) : Len(s) + 1 - n \in 1 .. Len(s)
    BY <2>1
  <2>3. Reversed(s) = [n \in 1 .. Len(s) |-> s[Len(s) + 1 - n]]
    BY <2>1 DEF Reversed
  <2> QED
    BY <2>1, <2>2, <2>3
<1>2. Params[f] \in Seq(Kinds)
  BY KindAssumption
<1>3. SubSeq(Params[f], 2, Len(Params[f])) \in Seq(Kinds)
  BY <1>2
<1>4. Reversed(Params[f]) \in Seq(Kinds)
      /\ Reversed(SubSeq(Params[f], 2, Len(Params[f]))) \in Seq(Kinds)
  BY <1>1, <1>2, <1>3
<1>5. "ref" \in Kinds
  BY DEF Kinds
<1>6. \A s \in Seq(Kinds) : <<"ref">> \o s \in Seq(Kinds)
  BY <1>5
<1> QED
  BY <1>4, <1>6 DEF Arguments

\* The end of the memory of a frame, and what FramesDisjoint says of it.
End(i) == frames[i].memory + FrameSize(frames[i].fn)

\* The frame on top of the others.
LEMMA FrameFacts ==
  ASSUME IInv
  PROVE  /\ Len(frames) \in Nat \ {0} /\ DOMAIN frames = 1 .. Len(frames)
         /\ \A i \in 1 .. Len(frames) :
              /\ frames[i] \in Frame
              /\ frames[i].fn \in Function /\ frames[i].memory \in Nat
              /\ FrameSize(frames[i].fn) \in Nat
              /\ End(i) \in Nat /\ frames[i].memory <= End(i)
         /\ \A i \in 1 .. Len(frames) - 1 : End(i) <= frames[i + 1].memory
         /\ End(Len(frames)) <= borrowed
<1>1. frames \in Seq(Frame) /\ Len(frames) \in Nat \ {0} /\ DOMAIN frames = 1 .. Len(frames)
  BY DEF IInv
<1>2. ASSUME NEW i \in 1 .. Len(frames)
      PROVE  /\ frames[i] \in Frame
             /\ frames[i].fn \in Function /\ frames[i].memory \in Nat
             /\ FrameSize(frames[i].fn) \in Nat
             /\ End(i) \in Nat /\ frames[i].memory <= End(i)
  <2>1. frames[i] \in Frame
    BY <1>1
  <2>2. frames[i].fn \in Function /\ frames[i].memory \in Nat
    BY <2>1 DEF Frame
  <2> QED
    BY <2>1, <2>2, LayoutType DEF End
<1>3. ASSUME NEW i \in 1 .. Len(frames) - 1 PROVE End(i) <= frames[i + 1].memory
  <2>1. i \in DOMAIN frames /\ i # Len(frames)
    <3>1. Len(frames) \in Nat
      BY <1>1
    <3>2. i \in 1 .. Len(frames) /\ i # Len(frames)
      BY <3>1
    <3> QED
      BY <3>2, <1>1
  <2> QED
    BY <2>1 DEF IInv, FramesDisjoint, End
<1>4. End(Len(frames)) <= borrowed
  BY <1>1 DEF IInv, FramesDisjoint, End
<1> QED
  BY <1>1, <1>2, <1>3, <1>4

\* The calls that remain when those above the n-th have ended.
LEMMA CutKeeps ==
  ASSUME IInv, NEW n \in 1 .. Len(frames), frames' = SubSeq(frames, 1, n),
         borrowed' \in Nat, End(n) <= borrowed'
  PROVE  /\ frames' \in Seq(Frame) /\ frames' # <<>>
         /\ FramesDisjoint'
         /\ \A set : FramesIn(set, frames) => FramesIn(set, frames')
<1>1. /\ frames' \in Seq(Frame) /\ Len(frames') = n /\ DOMAIN frames' = 1 .. n
      /\ \A i \in 1 .. n : frames'[i] = frames[i] /\ i \in 1 .. Len(frames)
  BY FrameFacts DEF IInv
<1>2. FramesDisjoint'
  <2> SUFFICES ASSUME NEW i \in 1 .. n
               PROVE  frames[i].memory + FrameSize(frames[i].fn) <=
                        (IF i = n THEN borrowed' ELSE frames'[i + 1].memory)
    BY <1>1 DEF FramesDisjoint
  <2>1. CASE i = n
    BY <2>1 DEF End
  <2>2. CASE i # n
    <3>1. i + 1 \in 1 .. n /\ i \in 1 .. Len(frames) - 1
      BY <2>2, FrameFacts
    <3>2. frames'[i + 1] = frames[i + 1]
      BY <3>1, <1>1
    <3>3. End(i) <= frames[i + 1].memory
      BY <3>1, FrameFacts
    <3> QED
      BY <2>2, <3>2, <3>3 DEF End
  <2> QED
    BY <2>1, <2>2
<1>3. ASSUME NEW set, FramesIn(set, frames) PROVE FramesIn(set, frames')
  <2>1. \A i \in DOMAIN frames' : i \in DOMAIN frames /\ frames'[i] = frames[i]
    BY <1>1, FrameFacts
  <2> QED
    BY <2>1, <1>3 DEF FramesIn
<1>4. frames' # <<>>
  BY <1>1
<1> QED
  BY <1>1, <1>2, <1>3, <1>4

\* What a call pushes is a frame of the function dispatched to.
LEMMA CallInv ==
  ASSUME IInv, NEW f \in Function, NEW impl \in Function, Call(f, impl)
  PROVE  IInv' /\ (OverridesAlike /\ RootsHold => RootsHold')
<1> DEFINE n == Len(Arguments(f))
           rest == Popped(operand, n)
           freed == RootsPopped(roots, operand, n)
           slots == FrameSlots(f, borrowed)
           frame == [fn |-> impl, memory |-> borrowed]
<1>1. n \in 0 .. Len(operand)
  BY ArgumentsType, TopThere DEF Call
<1>2. /\ InOrder(freed, rest)
      /\ SlotsIn(roots, operand) => SlotsIn(freed, rest)
      /\ FramesIn(roots, frames) => FramesIn(freed, frames)
  BY <1>1, PopKeeps DEF IInv
<1>3. /\ operand' = rest /\ frames' = Append(frames, frame) /\ static' = static
      /\ roots' = AddRoots(freed, slots) /\ impl \in Overrides[f]
      /\ borrowed' = borrowed + SizeOfAll(Params[f]) + SizeOfAll(Locals[impl])
  BY DEF Call
<1>4. borrowed \in Nat /\ frame \in Frame
  BY DEF IInv, Frame
<1>5. borrowed' = borrowed + FrameSize(impl) /\ FrameSize(impl) \in Nat
  <2>1. Params[f] = Params[impl]
    BY <1>3, DispatchAssumption
  <2>2. Params[impl] \in Seq(Kinds) /\ Locals[impl] \in Seq(Kinds)
    BY KindAssumption
  <2>3. FrameSize(impl) = SizeOfAll(Params[impl]) + SizeOfAll(Locals[impl])
    BY <2>2, SizeOfConcat DEF FrameSize, Layout
  <2>4. SizeOfAll(Params[impl]) \in Nat /\ SizeOfAll(Locals[impl]) \in Nat
    BY <2>2, SizeOfAllType
  <2> QED
    BY <1>3, <1>4, <2>1, <2>3, <2>4
<1>6. RootMap(freed)
  BY <1>2 DEF InOrder
<1> HIDE DEF rest, freed, slots, n
<1>7. /\ RootMap(roots') /\ freed \subseteq roots'
      /\ \A slot \in slots : \E r \in roots' : r.at = slot.at
  BY <1>3, <1>4, <1>6, AddRootsKeeps DEF slots
<1>8. /\ frames' \in Seq(Frame) /\ Len(frames') = Len(frames) + 1
      /\ DOMAIN frames' = 1 .. Len(frames) + 1 /\ frames' # <<>>
      /\ frames'[Len(frames) + 1] = frame
      /\ \A i \in 1 .. Len(frames) : frames'[i] = frames[i]
  <2> HIDE DEF frame
  <2>1. frames \in Seq(Frame) /\ Len(frames) \in Nat
    BY DEF IInv
  <2> QED
    BY <2>1, <1>3, <1>4
<1>9. FramesDisjoint'
  <2> SUFFICES ASSUME NEW i \in 1 .. Len(frames) + 1
               PROVE  frames'[i].memory + FrameSize(frames'[i].fn) <=
                        (IF i = Len(frames) + 1 THEN borrowed' ELSE frames'[i + 1].memory)
    BY <1>8 DEF FramesDisjoint
  <2>1. CASE i = Len(frames) + 1
    BY <2>1, <1>4, <1>5, <1>8
  <2>2. CASE i = Len(frames)
    <3>1. frames'[i] = frames[i] /\ frames'[i + 1] = frame /\ i # Len(frames) + 1
      BY <2>2, <1>8, FrameFacts
    <3>2. End(i) <= borrowed
      BY <2>2, FrameFacts
    <3> QED
      BY <3>1, <3>2 DEF End
  <2>3. CASE i \in 1 .. Len(frames) - 1
    <3>1. frames'[i] = frames[i] /\ frames'[i + 1] = frames[i + 1] /\ i # Len(frames) + 1
      BY <2>3, <1>8, FrameFacts
    <3>2. End(i) <= frames[i + 1].memory
      BY <2>3, FrameFacts
    <3> QED
      BY <3>1, <3>2 DEF End
  <2>4. Len(frames) \in Nat
    BY FrameFacts
  <2>5. i = Len(frames) + 1 \/ i = Len(frames) \/ i \in 1 .. Len(frames) - 1
    BY <2>4
  <2> QED
    BY <2>1, <2>2, <2>3, <2>5
<1>10. IInv'
  <2>1. borrowed' \in Nat
    BY <1>4, <1>5
  <2> QED
    BY <1>2, <1>3, <1>7, <1>8, <1>9, <2>1 DEF IInv, InOrder
<1>11. ASSUME OverridesAlike, RootsHold PROVE RootsHold'
  <2>1. SlotsIn(roots', operand')
    BY <1>2, <1>3, <1>7, <1>11 DEF RootsHold, SlotsIn
  <2>2. FrameSlots(impl, borrowed) = slots
    <3>1. Params[f] = Params[impl] /\ Locals[f] = Locals[impl]
      BY <1>3, <1>11, DispatchAssumption DEF OverridesAlike
    <3> QED
      BY <3>1 DEF FrameSlots, Layout, slots
  <2>3. FramesIn(freed, frames)
    BY <1>2, <1>11 DEF RootsHold
  <2>4. FramesIn(roots', frames')
    <3> SUFFICES ASSUME NEW i \in 1 .. Len(frames) + 1,
                        NEW slot \in FrameSlots(frames'[i].fn, frames'[i].memory)
                 PROVE  \E r \in roots' : r.at = slot.at
      BY <1>8 DEF FramesIn
    <3>1. CASE i = Len(frames) + 1
      BY <3>1, <1>7, <1>8, <2>2
    <3>2. CASE i # Len(frames) + 1
      <4>1. i \in DOMAIN frames /\ frames'[i] = frames[i]
        BY <3>2, <1>8, FrameFacts
      <4> QED
        BY <4>1, <2>3, <1>7 DEF FramesIn
    <3> QED
      BY <3>1, <3>2
  <2> QED
    BY <1>3, <1>11, <2>1, <2>4 DEF RootsHold
<1> QED
  BY <1>10, <1>11

\* ret gives the memory of one frame back.
LEMMA ReturnInv ==
  ASSUME IInv, Return
  PROVE  IInv' /\ (RootsHold => RootsHold')
<1> DEFINE n == Len(frames) - 1
<1>1. /\ n \in 1 .. Len(frames) /\ n \in 1 .. Len(frames) - 1 /\ n + 1 = Len(frames)
      /\ frames' = SubSeq(frames, 1, n)
      /\ borrowed' = borrowed - FrameSize(frames[n + 1].fn)
      /\ UNCHANGED <<operand, static, roots>>
  BY FrameFacts DEF Return
<1> HIDE DEF n
<1>2. End(n + 1) <= borrowed /\ End(n) <= frames[n + 1].memory
  BY <1>1, FrameFacts
<1>3. /\ frames[n + 1].memory \in Nat /\ End(n) \in Nat /\ borrowed \in Nat
      /\ FrameSize(frames[n + 1].fn) \in Nat
  BY <1>1, FrameFacts DEF IInv
<1>4. borrowed' \in Nat /\ End(n) <= borrowed'
  BY <1>1, <1>2, <1>3 DEF End
<1>5. /\ frames' \in Seq(Frame) /\ frames' # <<>> /\ FramesDisjoint'
      /\ \A set : FramesIn(set, frames) => FramesIn(set, frames')
  BY <1>1, <1>4, CutKeeps
<1> QED
  BY <1>1, <1>4, <1>5 DEF IInv, RootsHold

\* The frames above the n-th fit between its end and that of the last one.
LEMMA MemoryAbove ==
  ASSUME IInv, NEW n \in 1 .. Len(frames)
  PROVE  MemoryOf(n + 1) \in Nat /\ MemoryOf(n + 1) + End(n) <= End(Len(frames))
<1> DEFINE N == Len(frames) - n
           sizes == FrameSizes(n + 1)
           S == {k \in 0 .. N : SumTo(sizes, k) + End(n) <= End(n + k)}
<1>1. N \in Nat /\ Len(frames) \in Nat /\ n + N = Len(frames)
  BY FrameFacts
<1>2. /\ sizes \in Seq(Nat) /\ Len(sizes) = N
      /\ \A k \in 1 .. N : sizes[k] = FrameSize(frames[n + k].fn)
  <2>0. Len(frames) \in Nat /\ n \in Nat
    BY <1>1
  <2>1. Len(frames) + 1 - (n + 1) = N /\ \A k \in 1 .. N : n + 1 - 1 + k = n + k
    BY <2>0
  <2>2. sizes = [k \in 1 .. N |-> FrameSize(frames[n + k].fn)]
    BY <2>1 DEF FrameSizes
  <2>3. \A k \in 1 .. N : n + k \in 1 .. Len(frames)
    BY <1>1
  <2>4. \A k \in 1 .. N : FrameSize(frames[n + k].fn) \in Nat
    BY <2>3, FrameFacts
  <2> HIDE DEF sizes, N
  <2> QED
    BY <1>1, <2>2, <2>4
<1> HIDE DEF sizes, N
<1>3. \A k \in 0 .. N : SumTo(sizes, k) \in Nat
  BY <1>2, SumType
<1>4. 0 \in S
  <2>1. SumTo(sizes, 0) = 0 /\ n + 0 = n /\ End(n) \in Nat
    BY <1>2, SumFacts, FrameFacts
  <2> QED
    BY <2>1, <1>1
<1>5. ASSUME NEW k \in 0 .. N - 1, k \in S PROVE k + 1 \in S
  <2>1. /\ k + 1 \in 1 .. N /\ k + 1 \in 0 .. N /\ k \in 0 .. N /\ (k + 1) - 1 = k
        /\ n + k \in 1 .. Len(frames) - 1 /\ n + k + 1 = n + (k + 1)
        /\ n + (k + 1) \in 1 .. Len(frames) /\ n + k \in 1 .. Len(frames)
    BY <1>1
  <2>2. SumTo(sizes, k + 1) = SumTo(sizes, k) + FrameSize(frames[n + (k + 1)].fn)
    BY <2>1, <1>2, SumFacts
  <2>3. End(n + k) <= frames[n + (k + 1)].memory
    BY <2>1, FrameFacts
  <2>4. /\ SumTo(sizes, k) \in Nat /\ End(n + k) \in Nat /\ End(n) \in Nat
        /\ frames[n + (k + 1)].memory \in Nat /\ FrameSize(frames[n + (k + 1)].fn) \in Nat
    BY <2>1, <1>3, FrameFacts
  <2>5. SumTo(sizes, k) + End(n) <= End(n + k)
    BY <1>5
  <2>6. End(n + (k + 1)) = frames[n + (k + 1)].memory + FrameSize(frames[n + (k + 1)].fn)
    BY DEF End
  <2>7. SumTo(sizes, k + 1) + End(n) <= End(n + (k + 1))
    BY <2>2, <2>3, <2>4, <2>5, <2>6
  <2> QED
    BY <2>1, <2>7
<1> HIDE DEF S
<1>6. N \in S
  <2>1. N \in 0 .. N
    BY <1>1
  <2> QED
    BY <2>1, <1>1, <1>4, <1>5, BoundedInduction
<1>7. MemoryOf(n + 1) = SumTo(sizes, N)
  <2>1. Len(frames) + 1 - (n + 1) = N
    <3>1. Len(frames) \in Nat /\ n \in Nat
      BY <1>1
    <3> QED
      BY <3>1 DEF N
  <2> QED
    BY <2>1 DEF MemoryOf, sizes
<1> QED
  BY <1>1, <1>3, <1>6, <1>7 DEF S

\* An exception: the operands it found are gone, frames are popped, and the
\* memory of a frame that a null call has borrowed may stay.
LEMMA UnwindInv ==
  ASSUME IInv, NEW n, NEW k \in 0 .. Len(operand), NEW top \in Nat, borrowed <= top,
         Unwind(n, Popped(operand, k), RootsPopped(roots, operand, k), top)
  PROVE  IInv' /\ (RootsHold => RootsHold')
<1> DEFINE rest == Popped(operand, k)
           freed == RootsPopped(roots, operand, k)
<1>1. /\ InOrder(freed, rest)
      /\ SlotsIn(roots, operand) => SlotsIn(freed, rest)
      /\ FramesIn(roots, frames) => FramesIn(freed, frames)
  BY PopKeeps DEF IInv
<1>2. /\ n \in DOMAIN frames /\ frames' = SubSeq(frames, 1, n)
      /\ borrowed' = top - MemoryOf(n + 1) /\ static' = static
      /\ operand' = Pushed(rest, "ref") /\ roots' = RootPushed(freed, rest, "ref")
  BY DEF Unwind
<1> HIDE DEF rest, freed
<1>3. "ref" \in Kinds
  BY DEF Kinds
<1>4. /\ InOrder(roots', operand')
      /\ SlotsIn(freed, rest) => SlotsIn(roots', operand')
      /\ FramesIn(freed, frames) => FramesIn(roots', frames)
  BY <1>1, <1>2, <1>3, PushKeeps
<1>5. n \in 1 .. Len(frames)
  BY <1>2, FrameFacts
<1>6. borrowed' \in Nat /\ End(n) <= borrowed'
  <2>1. MemoryOf(n + 1) \in Nat /\ MemoryOf(n + 1) + End(n) <= End(Len(frames))
    BY <1>5, MemoryAbove
  <2>2. /\ End(Len(frames)) <= borrowed /\ End(n) \in Nat
        /\ Len(frames) \in 1 .. Len(frames) /\ borrowed \in Nat
    BY <1>5, FrameFacts DEF IInv
  <2>3. End(Len(frames)) \in Nat
    BY <2>2, FrameFacts
  <2> QED
    BY <1>2, <2>1, <2>2, <2>3
<1>7. /\ frames' \in Seq(Frame) /\ frames' # <<>> /\ FramesDisjoint'
      /\ \A set : FramesIn(set, frames) => FramesIn(set, frames')
  BY <1>2, <1>5, <1>6, CutKeeps
<1> QED
  BY <1>1, <1>2, <1>4, <1>6, <1>7 DEF IInv, RootsHold

\* An exception gives that of all frames it leaves back,
LEMMA ThrowInv ==
  ASSUME IInv, NEW kinds \in FaultOperands, NEW n, Throw(kinds, n)
  PROVE  IInv' /\ (RootsHold => RootsHold')
<1>1. kinds \in Seq(Kinds)
  <2>1. \A k \in {"ref", "val"} :
          /\ <<"ref">> \in Seq(Kinds) /\ <<"ref", "val">> \in Seq(Kinds)
          /\ <<k, "ref">> \in Seq(Kinds) /\ <<k, "ref", "val">> \in Seq(Kinds)
          /\ <<"ref", "val", k>> \in Seq(Kinds)
    BY DEF Kinds
  <2> QED
    BY <2>1 DEF FaultOperands
<1>2. Len(kinds) \in 0 .. Len(operand)
  BY <1>1, TopThere DEF Throw
<1>3. borrowed \in Nat /\ borrowed <= borrowed
  BY DEF IInv
<1>4. Unwind(n, Popped(operand, Len(kinds)), RootsPopped(roots, operand, Len(kinds)), borrowed)
  BY DEF Throw
<1> QED
  BY <1>2, <1>3, <1>4, UnwindInv

\* and of one on a null self some stays borrowed.
LEMMA CallOnNullInv ==
  ASSUME IInv, NEW f \in Function, NEW n, CallOnNull(f, n)
  PROVE  IInv' /\ (RootsHold => RootsHold')
<1> DEFINE k == Len(Arguments(f))
           leak == IF f \in Virtual THEN SizeOfAll(Params[f]) ELSE FrameSize(f)
<1>1. k \in 0 .. Len(operand)
  BY ArgumentsType, TopThere DEF CallOnNull
<1>2. leak \in Nat
  BY KindAssumption, SizeOfAllType, LayoutType
<1>3. Unwind(n, Popped(operand, k), RootsPopped(roots, operand, k), borrowed + leak)
  BY DEF CallOnNull
<1> HIDE DEF k, leak
<1>4. borrowed + leak \in Nat /\ borrowed <= borrowed + leak
  BY <1>2 DEF IInv
<1> QED
  BY <1>1, <1>3, <1>4, UnwindInv

\* The invariant, action by action.
LEMMA StepInv ==
  ASSUME IInv, [Next]_vars
  PROVE  IInv' /\ (StaticsAreValues /\ OverridesAlike /\ RootsHold => RootsHold')
<1>1. CASE Instruction
  BY <1>1, InstructionInv
<1>2. CASE \E f, impl \in Function : Call(f, impl)
  BY <1>2, CallInv
<1>3. CASE Return
  BY <1>3, ReturnInv
<1>4. CASE \E n \in 1 .. MaxFrames : \E kinds \in FaultOperands : Throw(kinds, n)
  BY <1>4, ThrowInv
<1>5. CASE \E f \in Function, n \in 1 .. MaxFrames : CallOnNull(f, n)
  BY <1>5, CallOnNullInv
<1>6. CASE UNCHANGED vars
  BY <1>6 DEF vars, IInv, RootsHold, FramesDisjoint
<1> QED
  BY <1>1, <1>2, <1>3, <1>4, <1>5, <1>6 DEF Next

-----------------------------------------------------------------------------
\* The operand stack, the frames and root_set fit together in every reachable
\* state (the stack frames of CallEnv, GarbageCollector::addRoot).
THEOREM Invariance == Spec => []IInv
<1>1. Init => IInv
  BY InitInv
<1>2. IInv /\ [Next]_vars => IInv'
  BY StepInv
<1> QED
  BY <1>1, <1>2, PTL DEF Spec

\* Variables keep their types, and root_set stays a map of addresses
\* (GarbageCollector::addRoot, popArgsFromOperand).
THEOREM TypeCorrect == Spec => []TypeOK
<1>1. IInv => TypeOK
  BY Conclusions
<1> QED
  BY <1>1, Invariance, PTL

\* The frames of active calls never overlap, whatever is called and thrown, on
\* a frame stack of any depth (invokeStaticMethod and its siblings, ~CallEnv).
THEOREM FramesApart == Spec => []FramesDisjoint
<1>1. IInv => FramesDisjoint
  BY Conclusions
<1> QED
  BY <1>1, Invariance, PTL

\* Every reference in use is registered, in a program without references in
\* static fields whose overrides have the variables of what they override:
\* no instruction, return or exception erases a root it should not.
THEOREM LiveSlotsRegistered ==
  ASSUME StaticsAreValues, OverridesAlike
  PROVE  Spec => []SlotsRegistered
<1>1. Init => IInv /\ RootsHold
  BY InitInv
<1>2. (IInv /\ RootsHold) /\ [Next]_vars => (IInv /\ RootsHold)'
  BY StepInv
<1>3. IInv /\ RootsHold => SlotsRegistered
  BY Conclusions
<1> QED
  BY <1>1, <1>2, <1>3, PTL DEF Spec
=============================================================================
