------------------------ MODULE InteropObjects_proofs ------------------------
(***************************************************************************)
(* The objects the agent creates, proved for every set of objects and      *)
(* every text: what is created is what the source says.                    *)
(***************************************************************************)
EXTENDS InteropAgent_proofs

-----------------------------------------------------------------------------
(***************************************************************************)
(* What the objects are. Apart from a field that is not set nothing that is*)
(* said of an object here changes as long as a pointer leads to it.        *)
(***************************************************************************)
IsArray(m, id, text) == id \in DOMAIN m.heap /\ m.heap[id].text = text
HasField(m, id, field) == id \in DOMAIN m.heap /\ field \in DOMAIN m.heap[id].refs

\* A field is not set while it is null or what the store into message left in it.
Unset(id, field) == {0, Scrap} \cup (IF field = "name" THEN {id} ELSE {})
Lacks(m, id, field) == HasField(m, id, field) /\ m.heap[id].refs[field] \in Unset(id, field)
IsText(m, id, text) ==
  /\ HasField(m, id, "sequence") /\ m.heap[id].klass = "String"
  /\ IsArray(m, m.heap[id].refs["sequence"], text)
Says(m, id, field, text) ==
  /\ HasField(m, id, field) /\ m.heap[id].refs[field] # id
  /\ IsText(m, m.heap[id].refs[field], text)

\* An exception that was created, and one that was handled.
IsOf(m, id, klass) ==
  /\ id \in DOMAIN m.heap /\ m.heap[id].klass = klass
  /\ DOMAIN m.heap[id].refs = {"message", "name", "trace"}
IsRaised(m, id, klass) ==
  /\ IsOf(m, id, klass) /\ Says(m, id, "message", Message(klass))
  /\ Lacks(m, id, "name") /\ Lacks(m, id, "trace")
IsComplete(m, id, klass) ==
  /\ IsOf(m, id, klass) /\ Says(m, id, "message", Message(klass))
  /\ Says(m, id, "name", <<klass>>) /\ Says(m, id, "trace", <<"trace">>)

\* What a constructor has on the operand stack before each of its instructions: its
\* object, strings and arrays of runes.
Object == [kind |-> "self", text |-> <<>>]
Text(text) == [kind |-> "text", text |-> text]
Runes(text) == [kind |-> "runes", text |-> text]

Finish(klass) == Len(Ctor(klass))

Contents(klass) ==
  LET said == Message(klass)
      first(n) == SubSeq(said, 1, n)
  IN [ip \in DOMAIN Ctor(klass) |->
        LET n == ip \div 3
        IN IF ip \in {1, Finish(klass)} THEN <<>>
           ELSE IF ip = 2 THEN <<Object>>
           ELSE IF ip % 3 = 0 THEN <<Object, Text(first(n))>>
           ELSE IF ip % 3 = 1 THEN <<Object, Text(first(n)), Text(<<said[n + 1]>>)>>
           ELSE <<Object, Text(first(n)), Text(<<said[n + 1]>>), Runes(first(n + 1))>>]

Holds(m, id, content, self) ==
  \/ content.kind = "self"  /\ id = self
  \/ content.kind = "text"  /\ IsText(m, id, content.text)
  \/ content.kind = "runes" /\ IsArray(m, id, content.text)

-----------------------------------------------------------------------------
(***************************************************************************)
(* What each function has made so far, and what it is for.                 *)
(***************************************************************************)
InCell(m, c) == m.cells[c].ins.obj

\* The strings for the constructor of an exception.
HasArgs(m, a) ==
  \A n \in 1 .. Len(Texts[a.klass]) :
    a.args[n] # 0 /\ IsText(m, InCell(m, a.args[n]), <<Texts[a.klass][n]>>)

\* The constructor of String has two instructions: it stores the array, and returns.
MakesString(m, a) ==
  LET f == m.frames[a.depth + 1]
      self == InCell(m, a.cells[1])
      array == InCell(m, a.args[1])
  IN /\ a.args[1] # 0
     /\ a.at = 2 => /\ Len(m.frames) = a.depth + 1 /\ f.klass = "String"
                    /\ f.slots[1].obj = self /\ f.slots[2].obj = array
     /\ a.at \in 2 .. 3 => HasField(m, self, "sequence") /\ m.heap[self].klass = "String"
     /\ a.at = 2 /\ f.ip = 1 => Lacks(m, self, "sequence")
     /\ (a.at = 2 /\ f.ip # 1) \/ a.at = 3 => m.heap[self].refs["sequence"] = array

\* The constructor of an exception makes the message, then that of Exception, in a
\* frame of its own, stores it.
MakesMessage(m, a) ==
  LET f == m.frames[1]
      self == InCell(m, a.cells[1])
  IN /\ f.klass = a.klass /\ f.slots[1].obj = self
     /\ \A n \in 1 .. Len(Texts[a.klass]) : IsText(m, f.slots[n + 1].obj, <<Texts[a.klass][n]>>)
     /\ \A n \in DOMAIN m.operand["agent"] :
          Holds(m, m.operand["agent"][n].ptr.obj, Contents(a.klass)[f.ip][n], self)
     /\ IsOf(m, self, a.klass) /\ Lacks(m, self, "name") /\ Lacks(m, self, "trace")
     /\ f.ip # Finish(a.klass) => Lacks(m, self, "message")
     /\ f.ip = Finish(a.klass) /\ Len(m.frames) = 1 => Says(m, self, "message", Message(a.klass))
     /\ f.ip = Finish(a.klass) /\ Len(m.frames) = 2 =>
          LET base == m.frames[2]
          IN /\ base.klass = "Exception" /\ base.slots[1].obj = self
             /\ IsText(m, base.slots[2].obj, Message(a.klass))
             /\ IF base.ip = 1 THEN Lacks(m, self, "message")
                ELSE Says(m, self, "message", Message(a.klass))

TextFunctions == {"createUnprotectedString", "createString", "ldstr", "tostr"}
Made(m, a) ==
  /\ a.fn \in TextFunctions => a.texts = <<a.texts[1]>>
  /\ a.fn = "raise" =>
       \A n \in DOMAIN a.cells : IsText(m, InCell(m, a.cells[n]), <<Texts[a.klass][n]>>)
  /\ a.fn = "handleException" =>
       LET self == InCell(m, a.cells[1])
       IN /\ a.klass \in Klasses /\ IsOf(m, self, a.klass)
          /\ Says(m, self, "message", Message(a.klass)) /\ Lacks(m, self, "trace")
          /\ IF a.at = 3 THEN Says(m, self, "name", <<a.klass>>) ELSE Lacks(m, self, "name")
  /\ a.fn = "createUnprotectedString" /\ a.at = 2 => IsArray(m, InCell(m, a.cells[1]), a.texts)
  /\ a.fn = "createInstance" /\ a.at = 1 => HasArgs(m, a)
  /\ a.fn = "createUnprotectedInstance" =>
       IF a.klass = "String" THEN MakesString(m, a)
       ELSE /\ a.at = 1 => HasArgs(m, a)
            /\ a.at = 2 => MakesMessage(m, a)
            /\ a.at = 3 => IsRaised(m, InCell(m, a.cells[1]), a.klass)

\* The text of the string a function waits for.
Wanted(a) ==
  CASE a.fn = "raise" -> <<Texts[a.klass][Len(a.cells) + 1]>>
    [] a.fn = "handleException" -> IF a.at = 2 THEN <<a.klass>> ELSE <<"trace">>
    [] OTHER -> a.texts

\* What a function was called for.
CalledFor(m, a, b) ==
  /\ b.fn \in {"createUnprotectedString", "createString"} => b.texts = Wanted(a)
  /\ b.fn = "createInstance" => b.klass = a.klass
  /\ b.fn = "createUnprotectedInstance" =>
       IF a.fn = "createInstance" THEN b.klass = a.klass
       ELSE b.klass = "String" /\ b.args = a.cells
  /\ b.fn \in {"ldstr", "tostr"} =>
       LET ip == m.frames[1].ip
       IN /\ a.klass # "String" /\ ip # Finish(a.klass)
          /\ Contents(a.klass)[ip][Heights(a.klass)[ip]] = Text(b.texts)

\* What the last function was given.
GivenFor(m, b, v) ==
  /\ b.fn \in {"createUnprotectedString", "createString", "ldstr"} /\ b.at = 2 =>
       IsText(m, v.ptr.obj, b.texts)
  /\ b.fn = "createInstance" /\ b.at = 2 => IsRaised(m, v.ptr.obj, b.klass)
  /\ b.fn \in {"tostr", "raise", "handleException"} /\ TakesHandle(b)
     /\ ~ (b.fn = "raise" /\ b.at = 3) => IsText(m, InCell(m, v.cell), Wanted(b))
  /\ b.fn = "raise" /\ b.at = 3 => IsRaised(m, InCell(m, v.cell), b.klass)
  /\ RunsCtor(b) /\ b.klass # "String" /\ m.frames[1].ip # Finish(b.klass) => Len(m.frames) = 1

\* An operand of the program is what the source says.
IsSaid(m, item) ==
  IF item.meant.klass = "String" THEN IsText(m, item.ptr.obj, item.meant.text)
  ELSE item.meant.klass \in Klasses /\ IsComplete(m, item.ptr.obj, item.meant.klass)

Data(m, st, v) ==
  /\ \A n \in DOMAIN m.operand["main"] : IsSaid(m, m.operand["main"][n])
  /\ \A d \in DOMAIN st : Made(m, st[d]) /\ (d # 1 => CalledFor(m, st[d - 1], st[d]))
  /\ st # <<>> => GivenFor(m, Last(st), v)

DInv ==
  /\ Data(memory, stack, returned)
  /\ outcome # Nothing => outcome.text = Message(outcome.klass)

-----------------------------------------------------------------------------
(***************************************************************************)
(* What stays true of the objects.                                         *)
(***************************************************************************)
\* t has the objects K of m; fields that were not set changed at most: the one named,
\* and a name or a trace that is still not set.
MayChange(field, id, f, was, now) ==
  /\ was \in Unset(id, f)
  /\ f = field \/ (f \in {"name", "trace"} /\ now \in Unset(id, f))

Follows(m, t, K, field) ==
  /\ Enough(m, K) /\ K \subseteq DOMAIN t.heap
  /\ \A id \in K :
       /\ t.heap[id].klass = m.heap[id].klass /\ t.heap[id].text = m.heap[id].text
       /\ DOMAIN t.heap[id].refs = DOMAIN m.heap[id].refs
       /\ \A f \in DOMAIN m.heap[id].refs :
            \/ t.heap[id].refs[f] = m.heap[id].refs[f]
            \/ MayChange(field, id, f, m.heap[id].refs[f], t.heap[id].refs[f])

LEMMA FactsStay ==
  ASSUME NEW m, Sound(m), NEW t, NEW K, NEW field, Follows(m, t, K, field),
         NEW id \in K \cup {0}
  PROVE  /\ \A text : IsArray(m, id, text) => IsArray(t, id, text)
         /\ \A text : IsText(m, id, text) => IsText(t, id, text)
         /\ \A f : HasField(m, id, f) => HasField(t, id, f)
         /\ \A f, text : Says(m, id, f, text) => Says(t, id, f, text)
         /\ \A klass : IsOf(m, id, klass) => IsOf(t, id, klass)
         /\ \A f : Lacks(m, id, f) /\ f # field => Lacks(t, id, f)
         /\ \A klass : IsComplete(m, id, klass) => IsComplete(t, id, klass)
         /\ \A klass : IsRaised(m, id, klass) /\ field \notin {"name", "trace"}
                         => IsRaised(t, id, klass)
         /\ id \in DOMAIN m.heap => t.heap[id].klass = m.heap[id].klass
         /\ \A f : HasField(m, id, f) /\ f \notin {field, "name", "trace"}
                     => t.heap[id].refs[f] = m.heap[id].refs[f]
<1>0. /\ 0 \notin DOMAIN m.heap /\ Scrap \notin DOMAIN m.heap
      /\ K \subseteq DOMAIN m.heap /\ K \subseteq DOMAIN t.heap
  BY LiveObject, AgentAssumption DEF Sound, Objects, Follows, Enough, Scrap
<1>1. ASSUME NEW i \in K, NEW f \in DOMAIN m.heap[i].refs, m.heap[i].refs[f] \notin Unset(i, f)
      PROVE  m.heap[i].refs[f] \in K /\ t.heap[i].refs[f] = m.heap[i].refs[f]
  <2>1. m.heap[i].refs[f] \in References(m, i)
    BY <1>1 DEF References, Unset
  <2>2. References(m, i) \subseteq K
    BY DEF Follows, Enough
  <2>3. t.heap[i].refs[f] = m.heap[i].refs[f]
    BY <1>1 DEF Follows, MayChange
  <2> QED
    BY <2>1, <2>2, <2>3
<1>2. ASSUME NEW i \in K \cup {0}, NEW text, IsArray(m, i, text) PROVE IsArray(t, i, text)
  BY <1>0, <1>2 DEF IsArray, Follows
<1>3. ASSUME NEW i \in K \cup {0}, NEW f, HasField(m, i, f)
      PROVE  HasField(t, i, f) /\ i \in K
  BY <1>0, <1>3 DEF HasField, Follows
<1>4. ASSUME NEW i \in K \cup {0}, NEW text, IsText(m, i, text) PROVE IsText(t, i, text)
  <2> DEFINE s == m.heap[i].refs["sequence"]
  <2>1. HasField(m, i, "sequence") /\ m.heap[i].klass = "String" /\ IsArray(m, s, text)
    BY <1>4 DEF IsText
  <2>2. /\ i \in K /\ HasField(t, i, "sequence") /\ "sequence" \in DOMAIN m.heap[i].refs
        /\ s \notin Unset(i, "sequence")
    BY <1>0, <1>3, <2>1 DEF IsArray, HasField, Unset
  <2>3. s \in K /\ t.heap[i].refs["sequence"] = s
    BY <1>1, <2>2
  <2>4. t.heap[i].klass = "String"
    BY <2>1, <2>2 DEF Follows
  <2> QED
    BY <1>2, <2>1, <2>2, <2>3, <2>4 DEF IsText
<1>5. ASSUME NEW f, NEW text, Says(m, id, f, text) PROVE Says(t, id, f, text)
  <2> DEFINE s == m.heap[id].refs[f]
  <2>1. HasField(m, id, f) /\ s # id /\ IsText(m, s, text)
    BY <1>5 DEF Says
  <2>2. /\ id \in K /\ HasField(t, id, f) /\ f \in DOMAIN m.heap[id].refs
        /\ s \notin Unset(id, f)
    BY <1>0, <1>3, <2>1 DEF IsText, HasField, Unset
  <2>3. s \in K /\ t.heap[id].refs[f] = s
    BY <1>1, <2>2
  <2> QED
    BY <1>4, <2>1, <2>2, <2>3 DEF Says
<1>6. ASSUME NEW klass, IsOf(m, id, klass) PROVE IsOf(t, id, klass)
  BY <1>0, <1>6 DEF IsOf, Follows
<1>7. ASSUME NEW f, HasField(m, id, f), f \notin {field, "name", "trace"}
      PROVE  t.heap[id].refs[f] = m.heap[id].refs[f]
  BY <1>3, <1>7 DEF HasField, Follows, MayChange
<1>8. ASSUME NEW f, Lacks(m, id, f), f # field PROVE Lacks(t, id, f)
  BY <1>3, <1>8 DEF Lacks, HasField, Follows, MayChange
<1>9. ASSUME NEW klass, IsComplete(m, id, klass) PROVE IsComplete(t, id, klass)
  BY <1>5, <1>6, <1>9 DEF IsComplete
<1>10. ASSUME NEW klass, IsRaised(m, id, klass), field \notin {"name", "trace"}
       PROVE  IsRaised(t, id, klass)
  BY <1>5, <1>6, <1>8, <1>10 DEF IsRaised
<1>11. id \in DOMAIN m.heap => t.heap[id].klass = m.heap[id].klass
  BY <1>0 DEF Follows
<1> QED
  BY <1>2, <1>3, <1>4, <1>5, <1>6, <1>7, <1>8, <1>9, <1>10, <1>11

\* A cell a function has a handle to is there.
LEMMA HeldThere ==
  ASSUME NEW m, Sound(m), NEW st, Chain(st), NEW v, Balanced(m, st, v),
         NEW d \in DOMAIN st, NEW c \in Nat \ {0},
         \/ \E n \in DOMAIN st[d].cells : st[d].cells[n] = c
         \/ \E n \in DOMAIN st[d].args : st[d].args[n] = c
  PROVE  c \in DOMAIN m.cells
<1> DEFINE of(lists) == UNION {{k} \X HandlesTo(c, lists[k]) : k \in DOMAIN lists}
           cells == [k \in DOMAIN st |-> st[k].cells]
           args == [k \in DOMAIN st |-> st[k].args]
<1>1. DOMAIN st = 1 .. Len(st) /\ Len(st) \in Nat /\ \A k \in DOMAIN st : Fits(st[k])
  BY SeqLength DEF Chain
<1>2. ASSUME NEW lists, DOMAIN lists = 1 .. Len(st), \A k \in DOMAIN lists : IsSeq(lists[k])
      PROVE  /\ HeldIn(c, lists) \in Nat
             /\ \A k \in DOMAIN lists : \A n \in DOMAIN lists[k] :
                  lists[k][n] = c => HeldIn(c, lists) # 0
  <2> DEFINE each(k) == {k} \X HandlesTo(c, lists[k])
             all == {each(k) : k \in DOMAIN lists}
  <2>1. \A k \in DOMAIN lists : IsFiniteSet(HandlesTo(c, lists[k]))
    BY <1>2, TimesNat DEF HandlesTo
  <2>2. \A k \in DOMAIN lists : IsFiniteSet(each(k))
    BY <2>1, FS_Singleton, FS_Product
  <2> HIDE DEF each
  <2>3. IsFiniteSet(DOMAIN lists)
    BY <1>1, <1>2, FS_Interval
  <2>4. IsFiniteSet(all)
    <3> DEFINE f == [k \in DOMAIN lists |-> each(k)]
    <3>1. f \in Surjection(DOMAIN lists, all)
      BY DEF Surjection
    <3> QED
      BY <2>3, <3>1, FS_Surjection
  <2>5. IsFiniteSet(UNION all)
    BY <2>2, <2>4, FS_UNION
  <2>6. HeldIn(c, lists) = Cardinality(UNION all)
    BY DEF HeldIn, each
  <2>7. ASSUME NEW k \in DOMAIN lists, NEW n \in DOMAIN lists[k], lists[k][n] = c
        PROVE  UNION all # {}
    <3>1. <<k, n>> \in each(k)
      BY <2>7 DEF each, HandlesTo
    <3> QED
      BY <3>1
  <2> HIDE DEF all
  <2> QED
    BY <2>5, <2>6, <2>7, FS_EmptySet, FS_CardinalityType
<1>3. /\ DOMAIN cells = 1 .. Len(st) /\ \A k \in DOMAIN cells : IsSeq(cells[k])
      /\ DOMAIN args = 1 .. Len(st) /\ \A k \in DOMAIN args : IsSeq(args[k])
  BY <1>1, FitsSeq
<1>4. cells[d] = st[d].cells /\ args[d] = st[d].args
  OBVIOUS
<1>5. Held(c, st) = HeldIn(c, cells) + HeldIn(c, args)
  BY DEF Held
<1> HIDE DEF cells, args
<1>6. /\ HeldIn(c, cells) \in Nat /\ HeldIn(c, args) \in Nat
      /\ HeldIn(c, cells) # 0 \/ HeldIn(c, args) # 0
  BY <1>1, <1>2, <1>3, <1>4
<1>7. CountOf(m, c) = Held(c, st) + One(v.cell = c) /\ One(v.cell = c) \in 0 .. 1
  BY OneNat DEF Balanced
<1> QED
  BY <1>5, <1>6, <1>7 DEF CountOf

\* Below a function that a constructor's instruction called the program's own came.
LEMMA RunsBelow ==
  ASSUME NEW st, Chain(st), NEW d \in DOMAIN st, d # Len(st), RunsCtor(st[d])
  PROVE  /\ Last(st).depth = 1 /\ st[d].depth = 0 /\ st[d + 1].fn \in {"ldstr", "tostr"}
         /\ d + 1 \in DOMAIN st
<1>1. /\ DOMAIN st = 1 .. Len(st) /\ Len(st) \in Nat /\ Last(st) = st[Len(st)]
      /\ \A k \in DOMAIN st : k # 1 => CalledBy(st[k - 1], st[k])
  BY SeqLength, FrontSeq DEF Chain
<1>2. /\ st[d + 1].fn \in {"ldstr", "tostr"} /\ st[d].depth = 0 /\ st[d + 1].depth = 1
      /\ d + 1 \in DOMAIN st
  <2>1. d + 1 \in DOMAIN st /\ d + 1 # 1 /\ (d + 1) - 1 = d
    BY <1>1
  <2>2. CalledBy(st[d], st[d + 1])
    BY <1>1, <2>1
  <2> QED
    BY <2>1, <2>2 DEF CalledBy, RunsCtor
<1> DEFINE S == {k \in Nat : d + 1 + k \in DOMAIN st => st[d + 1 + k].depth = 1}
<1>3. 0 \in S
  BY <1>1, <1>2
<1>4. ASSUME NEW k \in S PROVE k + 1 \in S
  <2>1. SUFFICES ASSUME d + 1 + (k + 1) \in DOMAIN st PROVE st[d + 1 + (k + 1)].depth = 1
    OBVIOUS
  <2>2. /\ d + 1 + k \in DOMAIN st /\ d + 1 + (k + 1) # 1
        /\ (d + 1 + (k + 1)) - 1 = d + 1 + k
    BY <1>1, <2>1
  <2>3. st[d + 1 + k].depth = 1 /\ CalledBy(st[d + 1 + k], st[d + 1 + (k + 1)])
    BY <1>1, <2>1, <2>2
  <2> QED
    BY <2>3 DEF CalledBy
<1> HIDE DEF S
<1>5. S = Nat
  <2>1. S \subseteq Nat
    BY DEF S
  <2> QED
    BY <1>3, <1>4, <2>1, SetInduction
<1>6. Len(st) - (d + 1) \in Nat /\ d + 1 + (Len(st) - (d + 1)) = Len(st) /\ Len(st) \in DOMAIN st
  BY <1>1, <1>2
<1>7. st[d + 1 + (Len(st) - (d + 1))].depth = 1
  BY <1>5, <1>6 DEF S
<1> QED
  BY <1>1, <1>2, <1>6, <1>7

\* The cells a function has handles to are there with the same pointers.
SameCells(m, t, a) ==
  /\ \A n \in DOMAIN a.cells :
       /\ a.cells[n] \in DOMAIN m.cells
       /\ t.cells[a.cells[n]].ins = m.cells[a.cells[n]].ins
  /\ \A n \in DOMAIN a.args : a.args[n] # 0 =>
       /\ a.args[n] \in DOMAIN m.cells
       /\ t.cells[a.args[n]].ins = m.cells[a.args[n]].ins

\* The frames of a constructor are the same, or the first one and its operands are.
SameRun(m, t, a) ==
  RunsCtor(a) =>
    /\ t.operand["agent"] = m.operand["agent"]
    /\ \/ t.frames = m.frames
       \/ /\ a.klass # "String" /\ t.frames[1] = m.frames[1]
          /\ m.frames[1].ip # Finish(a.klass)

LEMMA FitsTexts ==
  ASSUME NEW a, a.klass \in Klasses
  PROVE  /\ a.klass \notin {"String", "Exception"} /\ Arity(a.klass) \in Nat
         /\ Len(Texts[a.klass]) \in Nat /\ Len(Texts[a.klass]) <= Arity(a.klass)
         /\ Len(Texts[a.klass]) # 0 => Len(Texts[a.klass]) = Arity(a.klass)
<1>1. a.klass \in {"NullPointerException", "ConversionException", "OutOfRangeException",
                   "OptionMissingException", "EvmInternalException", "DivideByZeroException"}
  BY AgentAssumption
<1>2. Arity(a.klass) \in Nat
  BY <1>1 DEF Arity
<1>3. Len(Texts[a.klass]) = IF a.klass = "OutOfRangeException" THEN 0 ELSE Arity(a.klass)
  BY AgentAssumption
<1> QED
  BY <1>1, <1>2, <1>3

LEMMA FitsCells ==
  ASSUME NEW a, Fits(a)
  PROVE  /\ DOMAIN a.cells = 1 .. Len(a.cells) /\ DOMAIN a.args = 1 .. Len(a.args)
         /\ a.fn = "handleException" => 1 \in DOMAIN a.cells
         /\ a.fn = "createUnprotectedString" /\ a.at # 1 => 1 \in DOMAIN a.cells
         /\ a.fn = "createUnprotectedInstance" /\ a.at # 1 => 1 \in DOMAIN a.cells
         /\ a.fn = "createUnprotectedInstance" /\ a.klass = "String" => 1 \in DOMAIN a.args
<1>1. DOMAIN a.cells = 1 .. Len(a.cells) /\ DOMAIN a.args = 1 .. Len(a.args)
  BY FitsSeq
<1>2. /\ a.fn = "handleException" => Len(a.cells) = 1
      /\ a.fn = "createUnprotectedString" /\ a.at # 1 => Len(a.cells) = 1
      /\ a.fn = "createUnprotectedInstance" /\ a.at # 1 => Len(a.cells) = 1
      /\ a.fn = "createUnprotectedInstance" => Len(a.args) = Arity(a.klass)
  BY DEF Fits, OneCell
<1>3. Arity("String") = 1
  BY DEF Arity
<1>4. /\ Len(a.cells) = 1 => 1 \in DOMAIN a.cells
      /\ Len(a.args) = 1 => 1 \in DOMAIN a.args
  <2> DEFINE cells == Len(a.cells)
             args == Len(a.args)
             ofCells == DOMAIN a.cells
             ofArgs == DOMAIN a.args
  <2>1. ofCells = 1 .. cells /\ ofArgs = 1 .. args
    BY <1>1
  <2> HIDE DEF cells, args, ofCells, ofArgs
  <2>2. (cells = 1 => 1 \in ofCells) /\ (args = 1 => 1 \in ofArgs)
    BY <2>1
  <2> QED
    BY <2>2 DEF cells, args, ofCells, ofArgs
<1> QED
  BY <1>1, <1>2, <1>3, <1>4

LEMMA MadeStays ==
  ASSUME NEW m, Sound(m), NEW t, NEW K, NEW field, Follows(m, t, K, field),
         NEW a, Fits(a), Made(m, a), SameCells(m, t, a), SameRun(m, t, a),
         a.fn \in {"handleException", "createUnprotectedInstance"}
           => field \notin {"message", "name", "trace"},
         a.fn = "createUnprotectedInstance" /\ a.klass = "String" => field # "sequence",
         RunsCtor(a) => Len(m.frames) \in a.depth + 1 .. 2
  PROVE  Made(t, a)
<1>0. /\ IsSeq(a.cells) /\ Len(a.cells) \in Nat /\ DOMAIN a.cells = 1 .. Len(a.cells)
      /\ IsSeq(a.args) /\ Len(a.args) \in Nat /\ DOMAIN a.args = 1 .. Len(a.args)
      /\ \A n \in DOMAIN a.cells : a.cells[n] \in Nat \ {0}
  BY FitsSeq
<1>1. \A n \in DOMAIN a.cells : /\ InCell(t, a.cells[n]) = InCell(m, a.cells[n])
                                /\ InCell(m, a.cells[n]) \in K \cup {0}
  BY DEF SameCells, InCell, Follows, Enough
<1>2. \A n \in DOMAIN a.args : a.args[n] # 0 =>
        /\ InCell(t, a.args[n]) = InCell(m, a.args[n]) /\ InCell(m, a.args[n]) \in K \cup {0}
  BY DEF SameCells, InCell, Follows, Enough
<1>3. ASSUME a.klass \in Klasses, Len(a.args) = Arity(a.klass), HasArgs(m, a)
      PROVE  HasArgs(t, a)
  <2>1. SUFFICES ASSUME NEW n \in 1 .. Len(Texts[a.klass])
                 PROVE  a.args[n] # 0 /\ IsText(t, InCell(t, a.args[n]), <<Texts[a.klass][n]>>)
    BY DEF HasArgs
  <2>2. n \in DOMAIN a.args
    BY <1>0, <1>3, FitsTexts
  <2>3. a.args[n] # 0 /\ IsText(m, InCell(m, a.args[n]), <<Texts[a.klass][n]>>)
    BY <1>3 DEF HasArgs
  <2> QED
    BY <1>2, <2>2, <2>3, FactsStay
<1>4. CASE a.fn = "raise"
  <2>1. ASSUME NEW n \in DOMAIN a.cells
        PROVE  IsText(t, InCell(t, a.cells[n]), <<Texts[a.klass][n]>>)
    <3>1. IsText(m, InCell(m, a.cells[n]), <<Texts[a.klass][n]>>)
      BY <1>4 DEF Made
    <3> QED
      BY <1>1, <3>1, FactsStay
  <2> QED
    BY <1>4, <2>1 DEF Made, TextFunctions
<1>5. CASE a.fn = "handleException"
  <2> DEFINE self == InCell(m, a.cells[1])
  <2>1. 1 \in DOMAIN a.cells
    BY <1>5, FitsCells
  <2>2. InCell(t, a.cells[1]) = self /\ self \in K \cup {0}
    BY <1>1, <2>1
  <2> HIDE DEF self
  <2>3. /\ a.klass \in Klasses /\ IsOf(m, self, a.klass)
        /\ Says(m, self, "message", Message(a.klass)) /\ Lacks(m, self, "trace")
        /\ IF a.at = 3 THEN Says(m, self, "name", <<a.klass>>) ELSE Lacks(m, self, "name")
    BY <1>5 DEF Made, self
  <2>4. field # "name" /\ field # "trace"
    BY <1>5
  <2>5. /\ IsOf(t, self, a.klass)
        /\ Says(t, self, "message", Message(a.klass)) /\ Lacks(t, self, "trace")
        /\ IF a.at = 3 THEN Says(t, self, "name", <<a.klass>>) ELSE Lacks(t, self, "name")
    BY <2>2, <2>3, <2>4, FactsStay
  <2> QED
    BY <1>5, <2>2, <2>3, <2>5 DEF Made, TextFunctions
<1>6. CASE a.fn \in TextFunctions
  <2>1. a.texts = <<a.texts[1]>>
    BY <1>6 DEF Made
  <2>2. ASSUME a.fn = "createUnprotectedString", a.at = 2
        PROVE  IsArray(t, InCell(t, a.cells[1]), a.texts)
    <3>1. 1 \in DOMAIN a.cells
      BY <2>2, FitsCells
    <3>2. IsArray(m, InCell(m, a.cells[1]), a.texts)
      BY <2>2 DEF Made
    <3> QED
      BY <1>1, <3>1, <3>2, FactsStay
  <2> QED
    BY <1>6, <2>1, <2>2 DEF Made, TextFunctions
<1>7. CASE a.fn = "createInstance"
  <2>1. ASSUME a.at = 1 PROVE HasArgs(t, a)
    BY <1>3, <1>7, <2>1 DEF Made, Fits
  <2> QED
    BY <1>7, <2>1 DEF Made, TextFunctions
<1>8. CASE a.fn = "createUnprotectedInstance" /\ a.klass = "String"
  <2> DEFINE self == InCell(m, a.cells[1])
             array == InCell(m, a.args[1])
  <2>1. MakesString(m, a)
    BY <1>8 DEF Made
  <2>2. MakesString(t, a)
    <3>1. CASE a.at \notin 2 .. 3
      BY <2>1, <3>1 DEF MakesString
    <3>2. CASE a.at \in 2 .. 3
      <4>1. 1 \in DOMAIN a.cells
        BY <1>8, <3>2, FitsCells
      <4>2. InCell(t, a.cells[1]) = self /\ self \in K \cup {0}
        BY <1>1, <4>1
      <4>3. HasField(m, self, "sequence") /\ m.heap[self].klass = "String"
        BY <2>1, <3>2 DEF MakesString
      <4>4. /\ HasField(t, self, "sequence") /\ t.heap[self].klass = "String"
            /\ t.heap[self].refs["sequence"] = m.heap[self].refs["sequence"]
        <5>1. self \in DOMAIN m.heap /\ field # "sequence"
          BY <1>8, <4>3 DEF HasField
        <5> QED
          BY <4>2, <4>3, <5>1, FactsStay
      <4> HIDE DEF self
      <4>5. a.at = 2 => t.frames = m.frames
        BY <1>8 DEF SameRun, RunsCtor
      <4>6. InCell(t, a.args[1]) = array
        <5>1. 1 \in DOMAIN a.args
          BY <1>8, FitsCells
        <5>2. a.args[1] # 0
          BY <2>1 DEF MakesString
        <5> QED
          BY <1>2, <5>1, <5>2
      <4> HIDE DEF array
      <4>7. /\ InCell(m, a.cells[1]) = self /\ InCell(m, a.args[1]) = array
        BY DEF self, array
      <4>8. Lacks(m, self, "sequence") => Lacks(t, self, "sequence")
        BY <4>4 DEF Lacks
      <4>9. CASE a.at = 2
        BY <2>1, <4>2, <4>4, <4>5, <4>6, <4>7, <4>8, <4>9 DEF MakesString
      <4>10. CASE a.at = 3
        BY <2>1, <4>2, <4>4, <4>6, <4>7, <4>10 DEF MakesString
      <4> QED
        BY <3>2, <4>9, <4>10
    <3> QED
      BY <3>1, <3>2
  <2> QED
    BY <1>8, <2>2 DEF Made, TextFunctions

<1>9. CASE a.fn = "createUnprotectedInstance" /\ a.klass # "String"
  <2> DEFINE self == InCell(m, a.cells[1])
  <2>0. a.klass \in Klasses /\ Len(a.args) = Arity(a.klass) /\ field \notin {"message", "name", "trace"}
    BY <1>9 DEF Fits
  <2>1. ASSUME a.at = 1 PROVE HasArgs(t, a)
    BY <1>3, <1>9, <2>0, <2>1 DEF Made
  <2>2. ASSUME a.at \in 2 .. 3 PROVE InCell(t, a.cells[1]) = self /\ self \in K \cup {0}
    <3>1. 1 \in DOMAIN a.cells
      BY <1>9, <2>2, FitsCells
    <3> QED
      BY <1>1, <3>1
  <2> HIDE DEF self
  <2>3. ASSUME a.at = 3 PROVE IsRaised(t, InCell(t, a.cells[1]), a.klass)
    <3>1. IsRaised(m, self, a.klass)
      BY <1>9, <2>3 DEF Made, self
    <3> QED
      BY <2>0, <2>2, <2>3, <3>1, FactsStay
  <2>4. ASSUME a.at = 2 PROVE MakesMessage(t, a)
    <3>1. RunsCtor(a) /\ MakesMessage(m, a)
      BY <1>9, <2>4 DEF RunsCtor, Made
    <3>2. /\ t.operand["agent"] = m.operand["agent"] /\ t.frames[1] = m.frames[1]
          /\ t.frames = m.frames \/ m.frames[1].ip # Finish(a.klass)
      BY <3>1 DEF SameRun
    <3>3. /\ InCell(t, a.cells[1]) = self /\ self \in K \cup {0} /\ self = InCell(m, a.cells[1])
      BY <2>2, <2>4 DEF self
    <3>4. /\ 1 \in DOMAIN m.frames /\ (Len(m.frames) = 2 => 2 \in DOMAIN m.frames)
          /\ IsFrame(m, m.frames[1])
      <4>1. DOMAIN m.frames = 1 .. Len(m.frames) /\ Len(m.frames) \in Nat
        BY SeqLength DEF Sound, CtorFrames
      <4>2. a.depth \in 0 .. 1 /\ Len(m.frames) \in a.depth + 1 .. 2
        BY <3>1, FitsSeq
      <4> QED
        BY <4>1, <4>2 DEF Sound, CtorFrames
    <3>5. \A d \in DOMAIN m.frames : \A n \in DOMAIN m.frames[d].slots :
            m.frames[d].slots[n].obj \in K \cup {0}
      BY DEF Follows, Enough
    <3>6. ASSUME NEW n \in 1 .. Len(Texts[a.klass])
          PROVE  IsText(t, m.frames[1].slots[n + 1].obj, <<Texts[a.klass][n]>>)
      <4>1. n + 1 \in DOMAIN m.frames[1].slots
        <5>1. DOMAIN m.frames[1].slots = 1 .. Arity(a.klass) + 1
          BY <3>1, <3>4, SeqLength DEF IsFrame, MakesMessage
        <5> QED
          BY <2>0, <5>1, FitsTexts
      <4>2. IsText(m, m.frames[1].slots[n + 1].obj, <<Texts[a.klass][n]>>)
        BY <3>1 DEF MakesMessage
      <4> QED
        BY <3>4, <3>5, <4>1, <4>2, FactsStay
    <3>7. ASSUME NEW n \in DOMAIN m.operand["agent"]
          PROVE  Holds(t, m.operand["agent"][n].ptr.obj, Contents(a.klass)[m.frames[1].ip][n], self)
      <4> DEFINE id == m.operand["agent"][n].ptr.obj
                 content == Contents(a.klass)[m.frames[1].ip][n]
      <4>1. Holds(m, id, content, self)
        BY <3>1 DEF MakesMessage, self
      <4>2. id \in K \cup {0}
        BY DEF Follows, Enough, Processors
      <4> HIDE DEF id, content
      <4>3. \A text : IsArray(m, id, text) => IsArray(t, id, text)
        BY <4>2, FactsStay
      <4>4. \A text : IsText(m, id, text) => IsText(t, id, text)
        BY <4>2, FactsStay
      <4>5. Holds(t, id, content, self)
        BY <4>1, <4>3, <4>4, Zenon DEF Holds
      <4> QED
        BY <4>5 DEF id, content
    <3>8. /\ IsOf(t, self, a.klass) /\ Lacks(t, self, "name") /\ Lacks(t, self, "trace")
      <4>1. /\ IsOf(m, self, a.klass) /\ Lacks(m, self, "name") /\ Lacks(m, self, "trace")
        BY <3>1 DEF MakesMessage, self
      <4> QED
        BY <2>0, <3>3, <4>1, FactsStay
    <3>9. /\ Lacks(m, self, "message") => Lacks(t, self, "message")
          /\ Says(m, self, "message", Message(a.klass)) => Says(t, self, "message", Message(a.klass))
      BY <2>0, <3>3, FactsStay
    <3>10. CASE m.frames[1].ip # Finish(a.klass)
      BY <3>1, <3>2, <3>3, <3>6, <3>7, <3>8, <3>9, <3>10 DEF MakesMessage
    <3>11. CASE t.frames = m.frames
      <4>1. ASSUME m.frames[1].ip = Finish(a.klass), Len(m.frames) = 2
            PROVE  IsText(t, m.frames[2].slots[2].obj, Message(a.klass))
        <5>1. IsText(m, m.frames[2].slots[2].obj, Message(a.klass)) /\ m.frames[2].klass = "Exception"
          BY <3>1, <4>1 DEF MakesMessage
        <5>2. 2 \in DOMAIN m.frames[2].slots
          <6>1. IsFrame(m, m.frames[2]) /\ Arity("Exception") = 1
            BY <3>4, <4>1 DEF Sound, CtorFrames, Arity
          <6> QED
            BY <5>1, <6>1, SeqLength DEF IsFrame
        <5> QED
          BY <3>4, <3>5, <4>1, <5>1, <5>2, FactsStay
      <4> QED
        BY <3>1, <3>3, <3>2, <3>6, <3>7, <3>8, <3>9, <3>11, <4>1 DEF MakesMessage
    <3> QED
      BY <3>2, <3>10, <3>11
  <2> QED
    BY <1>9, <2>1, <2>3, <2>4 DEF Made, TextFunctions
<1> QED
  BY <1>4, <1>5, <1>6, <1>7, <1>8, <1>9 DEF Fits, TextFunctions

-----------------------------------------------------------------------------
(***************************************************************************)
(* What stays true of the functions below the last one.                    *)
(***************************************************************************)
LEMMA InStack ==
  ASSUME IInv, stack # <<>>
  PROVE  /\ Chain(stack) /\ Sound(memory)
         /\ IsSeq(stack) /\ DOMAIN stack = 1 .. Len(stack) /\ Len(stack) \in Nat \ {0}
         /\ Len(stack) \in DOMAIN stack /\ stack[Len(stack)] = Top /\ Last(stack) = Top
         /\ IsSeq(Front(stack)) /\ DOMAIN Front(stack) = 1 .. Len(stack) - 1
         /\ Len(Front(stack)) = Len(stack) - 1
         /\ \A d \in DOMAIN Front(stack) : Front(stack)[d] = stack[d] /\ d # Len(stack)
                                           /\ d \in DOMAIN stack
         /\ \A d \in DOMAIN stack : Fits(stack[d])
<1>1. IsSeq(stack) /\ Chain(stack) /\ Sound(memory)
  BY DEF IInv, Chain
<1>2. /\ IsSeq(Front(stack)) /\ Len(Front(stack)) = Len(stack) - 1 /\ Len(stack) \in Nat \ {0}
      /\ \A d \in 1 .. Len(stack) - 1 : Front(stack)[d] = stack[d]
      /\ Last(stack) = stack[Len(stack)]
  BY <1>1, FrontSeq
<1>3. DOMAIN stack = 1 .. Len(stack) /\ DOMAIN Front(stack) = 1 .. Len(stack) - 1
  BY <1>1, <1>2, SeqLength
<1>4. \A d \in DOMAIN stack : Fits(stack[d])
  BY <1>1 DEF Chain
<1> QED
  BY <1>1, <1>2, <1>3, <1>4 DEF Top

LEMMA RunFrames ==
  ASSUME IInv, stack # <<>>, NEW d \in DOMAIN stack, RunsCtor(stack[d])
  PROVE  /\ Len(memory.frames) \in stack[d].depth + 1 .. 2
         /\ d # Len(stack) => /\ Top.depth = 1 /\ stack[d].depth = 0 /\ d + 1 \in DOMAIN stack
                              /\ stack[d + 1].fn \in {"ldstr", "tostr"}
<1>1. InFrames(memory, Runs(stack), Depth(stack)) /\ Depth(stack) = Top.depth
      /\ (Runs(stack) <=> RunsCtor(Top))
  <2>1. Last(stack) = Top /\ InFrames(memory, Runs(stack), Depth(stack))
    BY InStack DEF IInv
  <2> QED
    BY <2>1 DEF Depth, Runs
<1>2. CASE d = Len(stack)
  BY <1>1, <1>2, InStack DEF InFrames
<1>3. CASE d # Len(stack)
  <2>1. /\ Top.depth = 1 /\ stack[d].depth = 0 /\ stack[d + 1].fn \in {"ldstr", "tostr"}
        /\ d + 1 \in DOMAIN stack
    BY <1>3, InStack, RunsBelow
  <2>2. Len(memory.frames) \in 1 .. 2
    BY <1>1, <2>1 DEF InFrames
  <2> QED
    BY <1>3, <2>1, <2>2
<1> QED
  BY <1>2, <1>3

\* The memory of a step before what it does to cells, operands and frames.
SameMemory(m) ==
  /\ Sound(m) /\ m.operand = memory.operand /\ m.frames = memory.frames
  /\ m.cells = memory.cells

KeepsCells(m, t) ==
  \A c \in DOMAIN m.cells \cap DOMAIN t.cells : t.cells[c].ins = m.cells[c].ins

CalledInStack(m, st, d) == d # 1 => CalledFor(m, st[d - 1], st[d])

LEMMA BelowStays ==
  ASSUME IInv, IInv', stack # <<>>, NEW m, SameMemory(m),
         \A d \in DOMAIN stack : Made(m, stack[d]) /\ CalledInStack(m, stack, d),
         NEW K, NEW field, Follows(m, memory', K, field), KeepsCells(m, memory'),
         NEW d \in DOMAIN Front(stack), d \in DOMAIN stack', stack'[d] = stack[d],
         field \in {"message", "name", "trace"} =>
           stack[d].fn \notin {"handleException", "createUnprotectedInstance"},
         Top.depth = 1 => memory'.frames[1] = m.frames[1],
         RunsCtor(stack[d]) => memory'.operand["agent"] = m.operand["agent"]
  PROVE  Made(memory', stack[d]) /\ CalledInStack(memory', stack, d)
<1> DEFINE a == stack[d]
           t == memory'
<1>1. d \in DOMAIN stack /\ d # Len(stack) /\ Fits(a) /\ Made(m, a)
  BY InStack
<1>2. IInv' => Chain(stack') /\ Sound(t) /\ Balanced(t, stack', returned')
  BY DEF IInv
<1>3. Chain(stack) /\ Sound(memory) /\ Balanced(memory, stack, returned)
  BY DEF IInv
<1>4. ASSUME NEW c \in Nat \ {0},
             (\E n \in DOMAIN a.cells : a.cells[n] = c) \/ (\E n \in DOMAIN a.args : a.args[n] = c)
      PROVE  c \in DOMAIN m.cells /\ t.cells[c].ins = m.cells[c].ins
  <2>1. c \in DOMAIN memory.cells
    BY <1>1, <1>3, <1>4, HeldThere
  <2> HIDE DEF t
  <2>2. c \in DOMAIN t.cells
    <3>1. Chain(stack') /\ Sound(t) /\ Balanced(t, stack', returned') /\ stack'[d] = a
      BY <1>2
    <3> HIDE DEF a
    <3> QED
      BY <1>4, <3>1, HeldThere
  <2> QED
    BY <2>1, <2>2 DEF SameMemory, KeepsCells, t
<1>5. SameCells(m, t, a)
  <2>1. /\ \A n \in DOMAIN a.cells : a.cells[n] \in Nat \ {0}
        /\ \A n \in DOMAIN a.args : a.args[n] \in Nat
    BY <1>1, FitsSeq
  <2> HIDE DEF a, t
  <2> QED
    BY <1>4, <2>1 DEF SameCells
<1>6. ASSUME RunsCtor(a)
      PROVE  /\ Len(m.frames) \in a.depth + 1 .. 2 /\ Top.depth = 1
             /\ a.klass # "String" /\ m.frames[1].ip # Finish(a.klass)
             /\ t.frames[1] = m.frames[1] /\ t.operand["agent"] = m.operand["agent"]
  <2>1. /\ Len(memory.frames) \in a.depth + 1 .. 2
        /\ Top.depth = 1 /\ d + 1 \in DOMAIN stack /\ stack[d + 1].fn \in {"ldstr", "tostr"}
    BY <1>1, <1>6, RunFrames
  <2>2. d + 1 # 1 /\ (d + 1) - 1 = d
    BY InStack
  <2>3. CalledFor(m, a, stack[d + 1])
    BY <2>1, <2>2 DEF CalledInStack
  <2>4. a.klass # "String" /\ m.frames[1].ip # Finish(a.klass)
    BY <2>1, <2>3 DEF CalledFor
  <2>5. t.frames[1] = m.frames[1] /\ t.operand["agent"] = m.operand["agent"]
    BY <1>6, <2>1
  <2>6. Len(m.frames) \in a.depth + 1 .. 2
    BY <2>1 DEF SameMemory
  <2> QED
    BY <2>1, <2>4, <2>5, <2>6
<1>7. SameRun(m, t, a)
  BY <1>6 DEF SameRun
<1>8. Made(t, a)
  <2>1. a.fn = "createUnprotectedInstance" /\ a.klass = "String" => field # "sequence"
    <3>1. SUFFICES ASSUME a.fn = "createUnprotectedInstance", a.klass = "String" PROVE FALSE
      OBVIOUS
    <3>2. d + 1 \in DOMAIN stack /\ d + 1 # 1 /\ (d + 1) - 1 = d
      BY <1>1, InStack
    <3>3. CalledBy(a, stack[d + 1])
      BY <1>3, <3>2 DEF Chain
    <3>4. RunsCtor(a)
      BY <3>1, <3>3 DEF CalledBy, RunsCtor
    <3> QED
      BY <1>6, <3>1, <3>4
  <2>2. a.fn \in {"handleException", "createUnprotectedInstance"}
          => field \notin {"message", "name", "trace"}
    OBVIOUS
  <2>3. Sound(m)
    BY DEF SameMemory
  <2>4. Follows(m, t, K, field)
    OBVIOUS
  <2> HIDE DEF a, t
  <2> QED
    BY <1>1, <1>5, <1>6, <1>7, <2>1, <2>2, <2>3, <2>4, MadeStays
<1>9. CalledInStack(t, stack, d)
  <2>1. SUFFICES ASSUME d # 1 PROVE CalledFor(t, stack[d - 1], a)
    BY DEF CalledInStack
  <2>2. CalledFor(m, stack[d - 1], a)
    BY <1>1, <2>1 DEF CalledInStack
  <2>3. CASE a.fn \in {"ldstr", "tostr"}
    <3>1. d - 1 \in DOMAIN stack /\ d - 1 # Len(stack) /\ (d - 1) + 1 = d
      BY <1>1, <2>1, InStack
    <3>2. CalledBy(stack[d - 1], a)
      BY <1>1, <1>3, <2>1 DEF Chain
    <3>3. RunsCtor(stack[d - 1])
      BY <2>3, <3>2 DEF CalledBy, RunsCtor
    <3>4. Top.depth = 1
      BY <3>1, <3>3, RunFrames
    <3> QED
      BY <2>2, <3>4 DEF CalledFor
  <2>4. CASE a.fn \notin {"ldstr", "tostr"}
    BY <2>2, <2>4 DEF CalledFor
  <2> QED
    BY <2>3, <2>4
<1> QED
  BY <1>8, <1>9

\* What a step from m to t leaves to the functions below the last one.
Carries(m, t, field) ==
  /\ \E K : Follows(m, t, K, field)
  /\ KeepsCells(m, t) /\ t.operand["main"] = m.operand["main"]
  /\ field \in {"message", "name", "trace"} =>
       \A d \in DOMAIN Front(stack) :
         stack[d].fn \notin {"handleException", "createUnprotectedInstance"}
  /\ Top.depth = 1 => /\ t.frames[1] = m.frames[1]
                      /\ t.operand["agent"] = m.operand["agent"]

LEMMA SaidStays ==
  ASSUME NEW m, Sound(m), NEW t, NEW K, NEW field, Follows(m, t, K, field),
         NEW n \in DOMAIN m.operand["main"], IsSaid(m, m.operand["main"][n])
  PROVE  IsSaid(t, m.operand["main"][n])
<1> DEFINE item == m.operand["main"][n]
<1>1. item.ptr.obj \in K \cup {0}
  BY DEF Follows, Enough, Processors
<1> HIDE DEF item
<1>2. /\ \A text : IsText(m, item.ptr.obj, text) => IsText(t, item.ptr.obj, text)
      /\ \A klass : IsComplete(m, item.ptr.obj, klass) => IsComplete(t, item.ptr.obj, klass)
  BY <1>1, FactsStay
<1>3. IsSaid(m, item)
  BY DEF item
<1>4. IsSaid(t, item)
  BY <1>2, <1>3 DEF IsSaid
<1> QED
  BY <1>4 DEF item

LEMMA OneMore ==
  ASSUME NEW s, IsSeq(s), NEW e
  PROVE  /\ IsSeq(s \o <<e>>) /\ Len(s \o <<e>>) = Len(s) + 1
         /\ DOMAIN (s \o <<e>>) = 1 .. Len(s) + 1
         /\ \A d \in 1 .. Len(s) : (s \o <<e>>)[d] = s[d]
         /\ (s \o <<e>>)[Len(s) + 1] = e
<1> DEFINE one == <<e>>
<1>1. IsSeq(one) /\ Len(one) = 1 /\ one[1] = e
  BY OneSeq
<1> HIDE DEF one
<1>2. /\ IsSeq(s \o one) /\ Len(s \o one) = Len(s) + Len(one)
      /\ DOMAIN (s \o one) = 1 .. Len(s) + Len(one)
      /\ \A n \in 1 .. Len(s) : (s \o one)[n] = s[n]
      /\ \A n \in 1 .. Len(one) : (s \o one)[Len(s) + n] = one[n]
  <2>1. IsSeq(s \o one) /\ Len(s \o one) = Len(s) + Len(one)
    BY <1>1, JoinSeq
  <2>2. DOMAIN (s \o one) = 1 .. Len(s) + Len(one)
    BY <1>1, JoinSeq
  <2>3. \A n \in 1 .. Len(s) : (s \o one)[n] = s[n]
    BY <1>1, JoinSeq
  <2>4. \A n \in 1 .. Len(one) : (s \o one)[Len(s) + n] = one[n]
    BY <1>1, JoinSeq
  <2> QED
    BY <2>1, <2>2, <2>3, <2>4
<1>3. 1 \in 1 .. Len(one)
  BY <1>1
<1>4. /\ IsSeq(s \o one) /\ Len(s \o one) = Len(s) + 1
      /\ DOMAIN (s \o one) = 1 .. Len(s) + 1
      /\ \A n \in 1 .. Len(s) : (s \o one)[n] = s[n]
      /\ (s \o one)[Len(s) + 1] = e
  BY <1>1, <1>2, <1>3
<1> QED
  BY <1>4 DEF one

LEMMA NoneMore ==
  ASSUME NEW s, IsSeq(s)
  PROVE  s \o <<>> = s
BY DEF IsSeq

LEMMA StackGoes ==
  ASSUME IInv, stack # <<>>, NEW m, NEW f, NEW calls, Goes(m, f, calls),
         calls = <<>> \/ \E g : calls = <<g>>
  PROVE  /\ memory' = m /\ returned' = Nowhere /\ UNCHANGED outcome
         /\ stack'[Len(stack)] = f
         /\ calls = <<>> => DOMAIN stack' = 1 .. Len(stack) /\ Last(stack') = f
         /\ \A g : calls = <<g>> => /\ DOMAIN stack' = 1 .. Len(stack) + 1
                                   /\ Last(stack') = g /\ stack'[Len(stack) + 1] = g
         /\ \A d \in 1 .. Len(stack) - 1 : stack'[d] = stack[d] /\ d \in DOMAIN stack'
<1> DEFINE S == Front(stack)
           n == Len(stack)
           T == S \o <<f>>
<1>1. memory' = m /\ returned' = Nowhere /\ stack' = T \o calls /\ UNCHANGED outcome
  BY DEF Goes
<1>2. /\ IsSeq(S) /\ Len(S) = n - 1 /\ n \in Nat \ {0} /\ DOMAIN S = 1 .. n - 1
      /\ \A d \in DOMAIN S : S[d] = stack[d]
  BY InStack
<1> HIDE DEF S, n
<1>3. /\ IsSeq(T) /\ Len(T) = n /\ DOMAIN T = 1 .. n /\ T[n] = f
      /\ \A d \in 1 .. n - 1 : T[d] = stack[d]
  <2>1. /\ IsSeq(T) /\ Len(T) = Len(S) + 1 /\ DOMAIN T = 1 .. Len(S) + 1
        /\ \A d \in 1 .. Len(S) : T[d] = S[d]
        /\ T[Len(S) + 1] = f
    BY <1>2, OneMore
  <2> HIDE DEF T
  <2> QED
    BY <1>2, <2>1
<1> HIDE DEF T
<1>4. ASSUME NEW s, IsSeq(s), Len(s) \in Nat \ {0} PROVE Last(s) = s[Len(s)]
  BY <1>4 DEF Last
<1>5. CASE calls = <<>>
  <2>1. stack' = T
    BY <1>1, <1>3, <1>5, NoneMore
  <2>2. \A g : calls # <<g>>
    BY <1>5, OneSeq
  <2> QED
    BY <1>1, <1>2, <1>3, <1>4, <1>5, <2>1, <2>2 DEF n
<1>6. ASSUME NEW g, calls = <<g>>
      PROVE  /\ DOMAIN stack' = 1 .. n + 1
             /\ Last(stack') = g /\ stack'[n + 1] = g /\ stack'[n] = f
             /\ \A d \in 1 .. n - 1 : stack'[d] = stack[d] /\ d \in DOMAIN stack'
  <2>1. stack' = T \o <<g>>
    BY <1>1, <1>6
  <2> DEFINE U == T \o <<g>>
  <2>2. /\ IsSeq(U) /\ Len(U) = n + 1 /\ DOMAIN U = 1 .. n + 1 /\ U[n + 1] = g
        /\ \A d \in 1 .. n : U[d] = T[d]
    <3>1. /\ IsSeq(U) /\ Len(U) = Len(T) + 1 /\ DOMAIN U = 1 .. Len(T) + 1
          /\ \A d \in 1 .. Len(T) : U[d] = T[d]
          /\ U[Len(T) + 1] = g
      BY <1>3, OneMore
    <3> HIDE DEF U
    <3> QED
      BY <1>3, <3>1
  <2> HIDE DEF U
  <2>3. Last(U) = g
    BY <1>2, <1>4, <2>2
  <2> QED
    BY <1>2, <1>3, <2>1, <2>2, <2>3 DEF U
<1>7. calls # <<>> => \E g : calls = <<g>>
  OBVIOUS
<1>8. \A g : <<g>> # <<>>
  BY OneSeq
<1>9. CASE calls # <<>>
  BY <1>1, <1>6, <1>7, <1>9 DEF n
<1> QED
  BY <1>5, <1>9

\* A function is called for the same as long as it does not end.
LEMMA CalledForStays ==
  ASSUME IInv, stack # <<>>, Len(stack) # 1, NEW m, CalledInStack(m, stack, Len(stack)),
         SameMemory(m), NEW t, NEW field, Carries(m, t, field),
         NEW f, f.fn = Top.fn, f.texts = Top.texts, f.klass = Top.klass,
         f.args = Top.args \/ f.fn # "createUnprotectedInstance"
  PROVE  CalledFor(t, stack[Len(stack) - 1], f)
<1> DEFINE a == stack[Len(stack) - 1]
<1>1. CalledFor(m, a, Top) /\ CalledBy(a, Top)
  BY InStack DEF CalledInStack, Chain
<1>2. f.fn \in {"ldstr", "tostr"} => t.frames[1] = m.frames[1]
  BY <1>1 DEF CalledBy, Carries
<1> HIDE DEF a, Top
<1> QED
  BY <1>1, <1>2 DEF CalledFor, a

LEMMA DataOfStep ==
  ASSUME IInv, IInv', stack # <<>>, NEW m, SameMemory(m), Data(m, stack, returned),
         NEW t, NEW field, Carries(m, t, field), NEW f, NEW calls, Goes(t, f, calls),
         calls = <<>> \/ \E g : calls = <<g>>,
         Len(stack) # 1 => f.fn = Top.fn,
         f.texts = Top.texts, f.klass = Top.klass,
         f.args = Top.args \/ f.fn # "createUnprotectedInstance",
         Made(t, f),
         calls = <<>> => GivenFor(t, f, Nowhere),
         \A g : calls = <<g>> => CalledFor(t, f, g) /\ Made(t, g) /\ GivenFor(t, g, Nowhere)
  PROVE  Data(memory', stack', returned')
<1> DEFINE n == Len(stack)
<1>1. /\ memory' = t /\ returned' = Nowhere /\ stack'[n] = f
      /\ calls = <<>> => DOMAIN stack' = 1 .. n /\ Last(stack') = f
      /\ \A g : calls = <<g>> => /\ DOMAIN stack' = 1 .. n + 1
                                /\ Last(stack') = g /\ stack'[n + 1] = g
      /\ \A d \in 1 .. n - 1 : stack'[d] = stack[d] /\ d \in DOMAIN stack'
  BY StackGoes
<1>2. PICK K : Follows(m, t, K, field)
  BY DEF Carries
<1>3. \A d \in DOMAIN stack : Made(m, stack[d]) /\ CalledInStack(m, stack, d)
  BY DEF Data, CalledInStack
<1>4. n \in Nat \ {0} /\ DOMAIN Front(stack) = 1 .. n - 1 /\ n \in DOMAIN stack
  BY InStack
<1>5. ASSUME NEW d \in 1 .. n - 1
      PROVE  Made(t, stack'[d]) /\ (d # 1 => CalledFor(t, stack'[d - 1], stack'[d]))
  <2>1. d \in DOMAIN Front(stack)
    BY <1>4
  <2>2. /\ Follows(m, memory', K, field) /\ KeepsCells(m, memory')
        /\ (field \in {"message", "name", "trace"} =>
             stack[d].fn \notin {"handleException", "createUnprotectedInstance"})
        /\ (Top.depth = 1 => memory'.frames[1] = m.frames[1])
        /\ (RunsCtor(stack[d]) => memory'.operand["agent"] = m.operand["agent"])
    <3>1. RunsCtor(stack[d]) => Top.depth = 1
      BY <2>1, InStack, RunFrames
    <3> QED
      BY <1>1, <1>2, <2>1, <3>1 DEF Carries
  <2>3. d \in DOMAIN stack' /\ stack'[d] = stack[d]
    BY <1>1, <2>1
  <2>4. Made(memory', stack[d]) /\ CalledInStack(memory', stack, d)
    BY <1>3, <2>1, <2>2, <2>3, BelowStays
  <2>5. d # 1 => stack'[d - 1] = stack[d - 1]
    BY <1>1, <1>4
  <2> QED
    BY <1>1, <2>3, <2>4, <2>5 DEF CalledInStack
<1>6. n # 1 => CalledFor(t, stack'[n - 1], f)
  <2>1. SUFFICES ASSUME n # 1 PROVE CalledFor(t, stack'[n - 1], f)
    OBVIOUS
  <2>2. stack'[n - 1] = stack[n - 1]
    <3> HIDE DEF n
    <3>1. n - 1 \in 1 .. n - 1
      BY <1>4, <2>1
    <3> QED
      BY <1>1, <3>1
  <2>3. CalledFor(t, stack[n - 1], f)
    BY <1>3, <1>4, <2>1, CalledForStays
  <2> QED
    BY <2>2, <2>3
<1>7. \A k \in DOMAIN t.operand["main"] : IsSaid(t, t.operand["main"][k])
  <2>1. t.operand["main"] = m.operand["main"] /\ Sound(m)
    BY DEF Carries, SameMemory
  <2>2. \A k \in DOMAIN m.operand["main"] : IsSaid(m, m.operand["main"][k])
    BY DEF Data
  <2> QED
    BY <1>2, <2>1, <2>2, SaidStays
<1> HIDE DEF n
<1>8. CASE calls = <<>>
  <2>1. DOMAIN stack' = 1 .. n /\ Last(stack') = f
    BY <1>1, <1>4, <1>8
  <2>2. \A d \in 1 .. n : d \in 1 .. n - 1 \/ d = n
    BY <1>4
  <2>3. \A d \in 1 .. n : Made(t, stack'[d]) /\ (d # 1 => CalledFor(t, stack'[d - 1], stack'[d]))
    BY <1>1, <1>5, <1>6, <2>2
  <2> QED
    BY <1>1, <1>7, <1>8, <2>1, <2>3 DEF Data
<1>9. ASSUME NEW g, calls = <<g>> PROVE Data(memory', stack', returned')
  <2>1. DOMAIN stack' = 1 .. n + 1 /\ stack'[n + 1] = g /\ Last(stack') = g
    BY <1>1, <1>9
  <2>2. \A d \in 1 .. n + 1 : d \in 1 .. n - 1 \/ d = n \/ d = n + 1
    BY <1>4
  <2>3. CalledFor(t, stack'[n], stack'[n + 1]) /\ (n + 1) - 1 = n
    BY <1>1, <1>4, <1>9
  <2>4. \A d \in 1 .. n + 1 :
          Made(t, stack'[d]) /\ (d # 1 => CalledFor(t, stack'[d - 1], stack'[d]))
    BY <1>1, <1>5, <1>6, <1>9, <2>1, <2>2, <2>3
  <2> QED
    BY <1>1, <1>7, <1>9, <2>1, <2>4 DEF Data
<1> QED
  BY <1>8, <1>9

LEMMA Below ==
  ASSUME NEW n \in Nat \ {0}
  PROVE  /\ \A d \in 1 .. n - 1 : d # 1 => d - 1 \in 1 .. n - 1
         /\ \A d \in 1 .. n - 1 : d - 1 # n
         /\ \A d \in 1 .. n - 1 : d # 1 => d - 1 \in 1 .. n
         /\ n # 1 => n - 1 \in 1 .. n - 1
         /\ n - 1 # 0 => n # 1
<1>1. ASSUME NEW d \in 1 .. n - 1
      PROVE  (d # 1 => d - 1 \in 1 .. n - 1) /\ d - 1 # n /\ (d # 1 => d - 1 \in 1 .. n)
  OBVIOUS
<1>2. (n # 1 => n - 1 \in 1 .. n - 1) /\ (n - 1 # 0 => n # 1)
  OBVIOUS
<1> QED
  BY <1>1, <1>2

LEMMA DataOfReturn ==
  ASSUME IInv, IInv', stack # <<>>, DInv,
         NEW t, NEW v, memory' = t, returned' = v, stack' = Front(stack),
         NEW K, Follows(memory, t, K, ""), KeepsCells(memory, t),
         Top.depth = 1 => t.frames[1] = memory.frames[1],
         \A d \in DOMAIN Front(stack) :
           \/ RunsCtor(stack[d]) => t.operand["agent"] = memory.operand["agent"]
           \/ Made(t, stack[d]),
         \/ t.operand["main"] = memory.operand["main"]
         \/ \A k \in DOMAIN t.operand["main"] : IsSaid(t, t.operand["main"][k]),
         Len(stack) # 1 => GivenFor(t, stack[Len(stack) - 1], v)
  PROVE  Data(memory', stack', returned')
<1> DEFINE n == Len(stack)
<1>1. /\ n \in Nat \ {0} /\ DOMAIN stack' = 1 .. n - 1 /\ IsSeq(stack') /\ Len(stack') = n - 1
      /\ \A d \in 1 .. n - 1 : stack'[d] = stack[d] /\ d \in DOMAIN Front(stack)
  BY InStack
<1>0. /\ \A d \in 1 .. n - 1 : d # 1 => d - 1 \in 1 .. n - 1
      /\ \A d \in 1 .. n - 1 : d - 1 # n
      /\ \A d \in 1 .. n - 1 : d # 1 => d - 1 \in 1 .. n
      /\ n # 1 => n - 1 \in 1 .. n - 1
  <2>1. n \in Nat \ {0}
    BY <1>1
  <2> HIDE DEF n
  <2> QED
    BY <2>1, Below
<1>2. /\ \A d \in DOMAIN stack : Made(memory, stack[d]) /\ CalledInStack(memory, stack, d)
      /\ \A k \in DOMAIN memory.operand["main"] : IsSaid(memory, memory.operand["main"][k])
      /\ SameMemory(memory) /\ Sound(memory)
  BY DEF DInv, Data, CalledInStack, SameMemory, IInv
<1>3. ASSUME NEW d \in 1 .. n - 1
      PROVE  Made(t, stack'[d]) /\ (d # 1 => CalledFor(t, stack'[d - 1], stack'[d]))
  <2>1. /\ d \in DOMAIN Front(stack) /\ d \in DOMAIN stack' /\ stack'[d] = stack[d]
        /\ d \in DOMAIN stack /\ d # n
    BY <1>1, InStack
  <2>2. d # 1 => stack'[d - 1] = stack[d - 1]
    <3> HIDE DEF n
    <3>1. d # 1 => d - 1 \in 1 .. n - 1
      BY <1>0
    <3> QED
      BY <1>1, <3>1
  <2>3. CASE RunsCtor(stack[d]) => t.operand["agent"] = memory.operand["agent"]
    <3>1. Made(memory', stack[d]) /\ CalledInStack(memory', stack, d)
      <4>1. /\ Top.depth = 1 => memory'.frames[1] = memory.frames[1]
            /\ RunsCtor(stack[d]) => memory'.operand["agent"] = memory.operand["agent"]
            /\ Follows(memory, memory', K, "") /\ KeepsCells(memory, memory')
        BY <2>3
      <4>2. "" \notin {"message", "name", "trace"}
        OBVIOUS
      <4>3. d \in DOMAIN Front(stack) /\ d \in DOMAIN stack' /\ stack'[d] = stack[d]
        BY <2>1
      <4>4. \A i \in DOMAIN stack : Made(memory, stack[i]) /\ CalledInStack(memory, stack, i)
        BY <1>2
      <4> QED
        BY <1>2, <4>1, <4>2, <4>3, <4>4, BelowStays
    <3> QED
      BY <2>1, <2>2, <3>1 DEF CalledInStack
  <2>4. CASE Made(t, stack[d])
    <3>1. ASSUME d # 1 PROVE CalledFor(t, stack[d - 1], stack[d])
      <4>1. CalledFor(memory, stack[d - 1], stack[d])
        BY <1>2, <2>1, <3>1 DEF CalledInStack
      <4>2. CASE stack[d].fn \in {"ldstr", "tostr"}
        <5>1. d - 1 \in DOMAIN stack /\ d - 1 # n /\ CalledBy(stack[d - 1], stack[d])
          <6> HIDE DEF n
          <6>1. d \in 1 .. n - 1 /\ n \in Nat /\ DOMAIN stack = 1 .. n
            BY <1>1, InStack DEF n
          <6>2. d - 1 \in DOMAIN stack /\ d - 1 # n
            BY <1>0, <3>1, <6>1
          <6>3. CalledBy(stack[d - 1], stack[d])
            BY <2>1, <3>1, InStack DEF Chain
          <6> QED
            BY <6>2, <6>3
        <5>2. Top.depth = 1
          BY <4>2, <5>1, RunFrames DEF CalledBy, RunsCtor
        <5> QED
          BY <4>1, <5>2 DEF CalledFor
      <4>3. CASE stack[d].fn \notin {"ldstr", "tostr"}
        BY <4>1, <4>3 DEF CalledFor
      <4> QED
        BY <4>2, <4>3
    <3> QED
      BY <2>1, <2>2, <2>4, <3>1
  <2> QED
    BY <2>1, <2>3, <2>4
<1>4. \A k \in DOMAIN t.operand["main"] : IsSaid(t, t.operand["main"][k])
  BY <1>2, SaidStays
<1>5. stack' # <<>> => Last(stack') = stack[n - 1] /\ n # 1
  <2> HIDE DEF n
  <2>1. SUFFICES ASSUME stack' # <<>> PROVE Last(stack') = stack[n - 1] /\ n # 1
    OBVIOUS
  <2>2. Last(stack') = stack'[Len(stack')] /\ Len(stack') \in Nat \ {0}
    BY <1>1, <2>1, FrontSeq
  <2>3. n # 1
    <3>1. n - 1 # 0
      BY <1>1, <2>2
    <3>2. n \in Nat \ {0}
      BY <1>1
    <3> QED
      BY <3>1, <3>2, Below
  <2>4. n - 1 \in 1 .. n - 1 /\ Len(stack') = n - 1
    BY <1>0, <1>1, <2>3
  <2> QED
    BY <1>1, <2>2, <2>3, <2>4
<1> QED
  BY <1>1, <1>3, <1>4, <1>5 DEF Data

-----------------------------------------------------------------------------
(***************************************************************************)
(* Objects are created, and fields assigned.                               *)
(***************************************************************************)
LEMMA AllEnough ==
  ASSUME NEW m, Sound(m)
  PROVE  Enough(m, DOMAIN m.heap)
<1>1. 0 \notin DOMAIN m.heap
  BY AgentAssumption DEF Sound, Objects
<1>2. \A ptr : Live(m, ptr) => ptr.obj \in DOMAIN m.heap \cup {0}
  BY LiveObject DEF Sound, Null
<1>3. \A id \in DOMAIN m.heap : References(m, id) \subseteq DOMAIN m.heap
  BY DEF References, Sound, Objects
<1>4. \A c \in DOMAIN m.cells : Live(m, m.cells[c].ins)
  BY DEF Sound, Cells, IsCell
<1>5. \A p \in Processors : \A n \in DOMAIN m.operand[p] : Live(m, m.operand[p][n].ptr)
  BY DEF Sound, Operands, IsItem
<1>6. \A d \in DOMAIN m.frames : \A n \in DOMAIN m.frames[d].slots :
        Live(m, m.frames[d].slots[n])
  BY DEF Sound, CtorFrames, IsFrame
<1> QED
  BY <1>2, <1>3, <1>4, <1>5, <1>6 DEF Enough

\* No object is lost or changed.
Grows(m, t) ==
  DOMAIN m.heap \subseteq DOMAIN t.heap /\ \A id \in DOMAIN m.heap : t.heap[id] = m.heap[id]

LEMMA GrownFollows ==
  ASSUME NEW m, Sound(m), NEW t, Grows(m, t), NEW field
  PROVE  Follows(m, t, DOMAIN m.heap, field)
BY AllEnough DEF Follows, Grows

FieldIs(t, id, field, ref) == HasField(t, id, field) /\ t.heap[id].refs[field] = ref

LEMMA AssignedFollows ==
  ASSUME NEW m, Sound(m), NEW t, NEW id, NEW field, NEW ptr, Live(m, ptr), Lacks(m, id, field),
         t.heap = WithField(m, id, field, ptr.obj).heap
  PROVE  /\ Follows(m, t, DOMAIN m.heap, field)
         /\ FieldIs(t, id, field, ptr.obj)
<1> DEFINE u == WithField(m, id, field, ptr.obj)
           was == m.heap[id]
           now == [was EXCEPT !.refs[field] = ptr.obj]
<1>1. /\ DOMAIN u.heap = DOMAIN m.heap
      /\ \A i \in DOMAIN m.heap : i # id => u.heap[i] = m.heap[i]
      /\ id \in DOMAIN m.heap => u.heap[id] = now
  <2>1. OneAssigned(m, u, id, field, ptr.obj)
    BY AssignedSound
  <2> QED
    BY <2>1 DEF OneAssigned
<1>2. /\ id \in DOMAIN m.heap /\ field \in DOMAIN was.refs
      /\ was.refs[field] \in Unset(id, field)
  BY DEF Lacks, HasField
<1>3. was = [klass |-> was.klass, refs |-> was.refs, text |-> was.text]
  BY <1>2 DEF Sound, Objects
<1> HIDE DEF was, u
<1>4. /\ now.klass = was.klass /\ now.text = was.text
      /\ now.refs = [was.refs EXCEPT ![field] = ptr.obj]
  BY <1>3
<1> HIDE DEF now
<1>5. /\ DOMAIN now.refs = DOMAIN was.refs /\ now.refs[field] = ptr.obj
      /\ \A f \in DOMAIN was.refs : f # field => now.refs[f] = was.refs[f]
  BY <1>2, <1>4
<1>6. t.heap = u.heap
  BY DEF u
<1>7. ASSUME NEW i \in DOMAIN m.heap
      PROVE  /\ t.heap[i].klass = m.heap[i].klass /\ t.heap[i].text = m.heap[i].text
             /\ DOMAIN t.heap[i].refs = DOMAIN m.heap[i].refs
             /\ \A f \in DOMAIN m.heap[i].refs :
                  \/ t.heap[i].refs[f] = m.heap[i].refs[f]
                  \/ MayChange(field, i, f, m.heap[i].refs[f], t.heap[i].refs[f])
  <2>1. CASE i = id
    <3>1. t.heap[i] = now /\ m.heap[i] = was
      BY <1>1, <1>2, <1>6, <2>1 DEF was
    <3> QED
      BY <1>2, <1>4, <1>5, <2>1, <3>1 DEF MayChange
  <2>2. CASE i # id
    BY <1>1, <1>6, <2>2
  <2> QED
    BY <2>1, <2>2
<1>8. Follows(m, t, DOMAIN m.heap, field)
  BY <1>1, <1>6, <1>7, AllEnough DEF Follows
<1> QED
  BY <1>1, <1>2, <1>5, <1>6, <1>8 DEF HasField, FieldIs

\* OpStfld: the field named is set, name and trace are not.
LEMMA WrittenFollows ==
  ASSUME NEW m, Sound(m), NEW t, NEW id, NEW field \in {"sequence", "message"},
         NEW ptr, Live(m, ptr), Lacks(m, id, field),
         field = "message" => /\ DOMAIN m.heap[id].refs = {"message", "name", "trace"}
                              /\ Lacks(m, id, "name") /\ Lacks(m, id, "trace"),
         t.heap = WithRefs(m, id, Written(m.heap[id].refs, id, field, ptr.obj)).heap
  PROVE  /\ Follows(m, t, DOMAIN m.heap, field)
         /\ FieldIs(t, id, field, ptr.obj)
<1> DEFINE was == m.heap[id].refs
           now == Written(was, id, field, ptr.obj)
           u == WithRefs(m, id, now)
<1>1. /\ id \in DOMAIN m.heap /\ field \in DOMAIN was /\ was[field] \in Unset(id, field)
  BY DEF Lacks, HasField
<1>2. /\ DOMAIN now = DOMAIN was /\ now[field] = ptr.obj
      /\ \A f \in DOMAIN was : now[f] = was[f] \/ MayChange(field, id, f, was[f], now[f])
  <2>1. CASE field = "message"
    <3>1. now = [message |-> ptr.obj, name |-> id, trace |-> Scrap]
      BY <2>1 DEF Written
    <3>2. /\ DOMAIN was = {"message", "name", "trace"}
          /\ was["name"] \in Unset(id, "name") /\ was["trace"] \in Unset(id, "trace")
      BY <2>1 DEF Lacks
    <3> HIDE DEF was, now
    <3>3. /\ DOMAIN now = DOMAIN was /\ now["message"] = ptr.obj
          /\ now["name"] \in Unset(id, "name") /\ now["trace"] \in Unset(id, "trace")
      BY <3>1, <3>2 DEF Unset
    <3> QED
      BY <1>1, <2>1, <3>2, <3>3 DEF MayChange
  <2>2. CASE field # "message"
    <3>1. now = [was EXCEPT ![field] = ptr.obj]
      BY <2>2 DEF Written
    <3> HIDE DEF was, now
    <3> QED
      BY <1>1, <3>1 DEF MayChange
  <2> QED
    BY <2>1, <2>2
<1>3. \A f \in DOMAIN now : now[f] \in DOMAIN m.heap \cup {0, Scrap}
  <2>1. ptr.obj \in DOMAIN m.heap \cup {0}
    BY LiveObject DEF Sound, Null
  <2>2. \A f \in DOMAIN was : was[f] \in DOMAIN m.heap \cup {0, Scrap}
    BY <1>1 DEF Sound, Objects
  <2> HIDE DEF was, now
  <2> QED
    BY <1>1, <1>2, <2>1, <2>2 DEF MayChange, Unset
<1> HIDE DEF now
<1>4. /\ DOMAIN u.heap = DOMAIN m.heap
      /\ \A i \in DOMAIN m.heap : i # id => u.heap[i] = m.heap[i]
      /\ u.heap[id] = AnObject(m.heap[id].klass, now, m.heap[id].text)
  BY <1>1, <1>3, WrittenSound
<1>5. t.heap = u.heap
  BY DEF now
<1> HIDE DEF u
<1>6. /\ t.heap[id].klass = m.heap[id].klass /\ t.heap[id].text = m.heap[id].text
      /\ t.heap[id].refs = now
  BY <1>4, <1>5 DEF AnObject
<1>7. ASSUME NEW i \in DOMAIN m.heap
      PROVE  /\ t.heap[i].klass = m.heap[i].klass /\ t.heap[i].text = m.heap[i].text
             /\ DOMAIN t.heap[i].refs = DOMAIN m.heap[i].refs
             /\ \A f \in DOMAIN m.heap[i].refs :
                  \/ t.heap[i].refs[f] = m.heap[i].refs[f]
                  \/ MayChange(field, i, f, m.heap[i].refs[f], t.heap[i].refs[f])
  <2>1. CASE i = id
    BY <1>2, <1>6, <2>1
  <2>2. CASE i # id
    BY <1>4, <1>5, <2>2
  <2> QED
    BY <2>1, <2>2
<1>8. Follows(m, t, DOMAIN m.heap, field)
  BY <1>4, <1>5, <1>7, AllEnough DEF Follows
<1> QED
  BY <1>1, <1>2, <1>4, <1>5, <1>6, <1>8 DEF HasField, FieldIs

LEMMA RoomFollows ==
  ASSUME NEW m, Sound(m), NEW room \in Room(m)
  PROVE  \E K : \A field : Follows(m, room, K, field)
<1>1. PICK K : Enough(m, K) /\ room.heap = [id \in K |-> m.heap[id]]
  BY RoomSound
<1>2. K \subseteq DOMAIN room.heap /\ \A id \in K : room.heap[id] = m.heap[id]
  BY <1>1
<1>3. ASSUME NEW field PROVE Follows(m, room, K, field)
  BY <1>1, <1>2 DEF Follows
<1> QED
  BY <1>3

\* An allocation finds everything as it was.
LEMMA RoomData ==
  ASSUME IInv, stack # <<>>, NEW room \in Room(memory), Data(memory, stack, returned),
         ~ TakesRaw(Top), ~ TakesHandle(Top)
  PROVE  Data(room, stack, returned) /\ SameMemory(room)
<1>0. /\ Chain(stack) /\ Sound(memory) /\ Balanced(memory, stack, returned)
  BY DEF IInv
<1>1. /\ Sound(room) /\ room.operand = memory.operand /\ room.frames = memory.frames
      /\ room.cells = memory.cells
  BY <1>0, RoomSound
<1>2. PICK K : Follows(memory, room, K, "")
  BY <1>0, RoomFollows
<1>3. ASSUME NEW d \in DOMAIN stack
      PROVE  Made(room, stack[d]) /\ (d # 1 => CalledFor(room, stack[d - 1], stack[d]))
  <2> DEFINE a == stack[d]
  <2>1. Made(memory, a) /\ (d # 1 => CalledFor(memory, stack[d - 1], a)) /\ Fits(a)
    BY InStack DEF Data
  <2>2. SameCells(memory, room, a)
    <3>1. /\ \A n \in DOMAIN a.cells : a.cells[n] \in Nat \ {0}
          /\ \A n \in DOMAIN a.args : a.args[n] \in Nat
      BY <2>1, FitsSeq
    <3>2. \A n \in DOMAIN a.cells : a.cells[n] \in DOMAIN memory.cells
      BY <1>0, <3>1, HeldThere
    <3>3. \A n \in DOMAIN a.args : a.args[n] # 0 => a.args[n] \in DOMAIN memory.cells
      BY <1>0, <3>1, HeldThere
    <3> HIDE DEF a
    <3> QED
      BY <1>1, <3>2, <3>3 DEF SameCells
  <2>3. SameRun(memory, room, a)
    BY <1>1 DEF SameRun
  <2>4. RunsCtor(a) => Len(memory.frames) \in a.depth + 1 .. 2
    BY RunFrames
  <2>5. Made(room, a)
    <3> HIDE DEF a
    <3>1. "" \notin {"message", "name", "trace"} /\ "" # "sequence"
      OBVIOUS
    <3> QED
      BY <1>0, <1>2, <2>1, <2>2, <2>3, <2>4, <3>1, MadeStays
  <2>6. d # 1 => CalledFor(room, stack[d - 1], a)
    BY <1>1, <2>1 DEF CalledFor
  <2> QED
    BY <2>5, <2>6
<1>4. \A n \in DOMAIN room.operand["main"] : IsSaid(room, room.operand["main"][n])
  BY <1>0, <1>1, <1>2, SaidStays DEF Data
<1>5. GivenFor(room, Top, returned)
  <2>1. GivenFor(memory, Top, returned)
    BY InStack DEF Data
  <2> QED
    BY <1>1, <2>1 DEF GivenFor, TakesRaw, TakesHandle
<1> QED
  BY <1>1, <1>3, <1>4, <1>5, InStack DEF Data, SameMemory

LEMMA SameSeq ==
  ASSUME NEW s, IsSeq(s), NEW t, IsSeq(t), Len(s) = Len(t), \A n \in 1 .. Len(t) : s[n] = t[n]
  PROVE  s = t
BY DEF IsSeq
LEMMA TupleSeq ==
  ASSUME NEW a, NEW b, NEW c, NEW d
  PROVE /\ IsSeq(<<a, b>>) /\ Len(<<a, b>>) = 2
        /\ IsSeq(<<a, b, c>>) /\ Len(<<a, b, c>>) = 3
        /\ IsSeq(<<a, b, c, d>>) /\ Len(<<a, b, c, d>>) = 4
<1>1. <<a, b>> \in Seq({a, b}) /\ Len(<<a, b>>) = 2
  OBVIOUS
<1>2. <<a, b, c>> \in Seq({a, b, c}) /\ Len(<<a, b, c>>) = 3
  OBVIOUS
<1>3. <<a, b, c, d>> \in Seq({a, b, c, d}) /\ Len(<<a, b, c, d>>) = 4
  OBVIOUS
<1>4. IsSeq(<<a, b>>) /\ IsSeq(<<a, b, c>>) /\ IsSeq(<<a, b, c, d>>)
  BY <1>1, <1>2, <1>3, ItsElements
<1> QED
  BY <1>1, <1>2, <1>3, <1>4
LEMMA JoinOne ==
  ASSUME NEW s, IsSeq(s), NEW e, NEW t, IsSeq(t), Len(t) = Len(s) + 1,
         \A n \in 1 .. Len(s) : t[n] = s[n], t[Len(s) + 1] = e
  PROVE s \o <<e>> = t
<1> DEFINE u == s \o <<e>>
<1>1. /\ IsSeq(u) /\ Len(u) = Len(s) + 1
      /\ \A n \in 1 .. Len(s) : u[n] = s[n]
      /\ u[Len(s) + 1] = e
  BY OneMore
<1> HIDE DEF u
<1>2. \A n \in 1 .. Len(t) : n \in 1 .. Len(s) \/ n = Len(s) + 1
  BY SeqLength
<1>3. u = t
  BY <1>1, <1>2, SameSeq
<1> QED
  BY <1>3 DEF u
-----------------------------------------------------------------------------
(***************************************************************************)
(* What the constructor of an exception computes.                          *)
(***************************************************************************)
\* The instruction pushes the n-th part of the message.
Adds(klass, ip, n) ==
  LET inst == Ctor(klass)[ip]
  IN \/ /\ inst.op = "ldarg" /\ inst.n \in 1 .. Len(Texts[klass])
        /\ Texts[klass][inst.n] = Message(klass)[n]
     \/ inst.op \in {"ldstr", "tostr"} /\ inst.text = Message(klass)[n]

\* Three instructions append it.
Appends(klass, ip, n) ==
  /\ Adds(klass, ip, n) /\ Heights(klass)[ip] = 2
  /\ Ctor(klass)[ip + 1].op = "newarray" /\ Heights(klass)[ip + 1] = 3
  /\ Ctor(klass)[ip + 2].op = "newstring" /\ Heights(klass)[ip + 2] = 4

\* It pushes its object and the first part, appends the others, and calls the
\* constructor of Exception.
Composes(klass) ==
  LET k == Len(Message(klass))
      ctor == Ctor(klass)
      h == Heights(klass)
  IN /\ IsSeq(Message(klass)) /\ k \in 1 .. 4 /\ DOMAIN ctor = 1 .. 3 * k + 1
     /\ Finish(klass) = 3 * k + 1
     /\ ctor[1].op = "ldarg" /\ ctor[1].n = 0 /\ h[1] = 0
     /\ Adds(klass, 2, 1) /\ h[2] = 1
     /\ \A n \in 1 .. k - 1 : Appends(klass, 3 * n, n + 1)
     /\ ctor[3 * k].op = "base" /\ h[3 * k] = 2
     /\ ctor[3 * k + 1].op = "ret" /\ h[3 * k + 1] = 0

LEMMA OpsAre ==
  /\ \A n : Arg(n).op = "ldarg" /\ Arg(n).n = n
  /\ \A t : Str(t).op = "ldstr" /\ Str(t).text = t
  /\ ToStr.op = "tostr" /\ ToStr.text = "number"
BY DEF Arg, Str, ToStr

LEMMA ComposesOne ==
  ASSUME NEW klass \in {"EvmInternalException", "DivideByZeroException"}, klass \in Klasses
  PROVE  Composes(klass)
<1>1. Len(Message(klass)) = 1 /\ IsSeq(Message(klass))
  BY OneSeq DEF Message
<1>2. DOMAIN Ctor(klass) = 1 .. 4 /\ Finish(klass) = 4
  BY DEF Ctor, Finish
<1>3. /\ Ctor(klass)[1].op = "ldarg" /\ Ctor(klass)[1].n = 0
      /\ Ctor(klass)[3].op = "base" /\ Ctor(klass)[4].op = "ret"
  BY DEF Ctor, Arg, Str, Op
<1>4. Heights(klass) = <<0, 1, 2, 0>>
  BY DEF Heights
<1>5. Adds(klass, 2, 1)
  <2>1. CASE klass = "EvmInternalException"
    <3>1. Len(Texts[klass]) = 1
      BY <2>1, AgentAssumption DEF Arity
    <3>2. Ctor(klass)[2] = Arg(1) /\ Message(klass)[1] = Texts[klass][1]
      BY <2>1 DEF Ctor, Message
    <3> QED
      BY <3>1, <3>2, OpsAre DEF Adds
  <2>2. CASE klass = "DivideByZeroException"
    <3>1. Ctor(klass)[2] = Str("") /\ Message(klass)[1] = ""
      BY <2>2 DEF Ctor, Message
    <3> QED
      BY <3>1, OpsAre DEF Adds
  <2> QED
    BY <2>1, <2>2
<1> QED
  BY <1>1, <1>2, <1>3, <1>4, <1>5 DEF Composes

LEMMA ComposesTwo ==
  ASSUME NEW klass \in {"NullPointerException", "OptionMissingException"}, klass \in Klasses
  PROVE  Composes(klass)
<1>1. Len(Message(klass)) = 2 /\ IsSeq(Message(klass))
  BY TupleSeq DEF Message
<1>2. DOMAIN Ctor(klass) = 1 .. 7 /\ Finish(klass) = 7
  BY DEF Ctor, Finish
<1>3. /\ Ctor(klass)[1].op = "ldarg" /\ Ctor(klass)[1].n = 0
      /\ Ctor(klass)[4].op = "newarray" /\ Ctor(klass)[5].op = "newstring"
      /\ Ctor(klass)[6].op = "base" /\ Ctor(klass)[7].op = "ret"
  BY DEF Ctor, Arg, Str, Op
<1>4. Heights(klass) = <<0, 1, 2, 3, 4, 2, 0>>
  BY DEF Heights
<1>5. Adds(klass, 2, 1) /\ Adds(klass, 3, 2)
  <2>0. Len(Texts[klass]) = 1
    BY AgentAssumption DEF Arity
  <2>1. CASE klass = "NullPointerException"
    <3>1. /\ Ctor(klass)[2] = Arg(1) /\ Message(klass)[1] = Texts[klass][1]
          /\ Ctor(klass)[3] = Str("is null") /\ Message(klass)[2] = "is null"
      BY <2>1 DEF Ctor, Message
    <3>2. Ctor(klass)[2].op = "ldarg" /\ Ctor(klass)[2].n = 1
      BY <3>1, OpsAre
    <3>5. Message(klass)[1] = Texts[klass][1]
      BY <3>1
    <3>6. Ctor(klass)[2].n \in 1 .. Len(Texts[klass])
      BY <2>0, <3>2
    <3>4. Adds(klass, 2, 1)
      BY <3>2, <3>5, <3>6 DEF Adds
    <3>3. Adds(klass, 3, 2)
      BY <3>1, OpsAre DEF Adds
    <3> QED
      BY <3>3, <3>4
  <2>2. CASE klass = "OptionMissingException"
    <3>1. /\ Ctor(klass)[3] = Arg(1) /\ Message(klass)[2] = Texts[klass][1]
          /\ Ctor(klass)[2] = Str("missing") /\ Message(klass)[1] = "missing"
      BY <2>2 DEF Ctor, Message
    <3> QED
      BY <2>0, <3>1, OpsAre DEF Adds
  <2> QED
    BY <2>1, <2>2
<1>6. Appends(klass, 3, 2)
  BY <1>3, <1>4, <1>5 DEF Appends
<1>7. ASSUME NEW n \in 1 .. 1 PROVE 3 * n = 3 /\ n + 1 = 2
  OBVIOUS
<1> QED
  BY <1>1, <1>2, <1>3, <1>4, <1>5, <1>6, <1>7 DEF Composes

LEMMA ComposesThree ==
  ASSUME NEW klass, klass = "OutOfRangeException"
  PROVE  Composes(klass)
<1>1. Len(Message(klass)) = 3 /\ IsSeq(Message(klass))
  BY TupleSeq DEF Message
<1>2. DOMAIN Ctor(klass) = 1 .. 10 /\ Finish(klass) = 10
  BY DEF Ctor, Finish
<1>3. /\ Ctor(klass)[1].op = "ldarg" /\ Ctor(klass)[1].n = 0
      /\ Ctor(klass)[4].op = "newarray" /\ Ctor(klass)[5].op = "newstring"
      /\ Ctor(klass)[7].op = "newarray" /\ Ctor(klass)[8].op = "newstring"
      /\ Ctor(klass)[9].op = "base" /\ Ctor(klass)[10].op = "ret"
  BY DEF Ctor, Arg, Str, Op, ToStr
<1>4. Heights(klass) = <<0, 1, 2, 3, 4, 2, 3, 4, 2, 0>>
  BY DEF Heights
<1>5. Adds(klass, 2, 1) /\ Adds(klass, 3, 2) /\ Adds(klass, 6, 3)
  <2>1. /\ Ctor(klass)[2] = Str("length") /\ Message(klass)[1] = "length"
        /\ Ctor(klass)[3] = ToStr /\ Message(klass)[2] = "number"
        /\ Ctor(klass)[6] = ToStr /\ Message(klass)[3] = "number"
    BY DEF Ctor, Message
  <2> QED
    BY <2>1, OpsAre DEF Adds
<1>6. Appends(klass, 3, 2) /\ Appends(klass, 6, 3)
  BY <1>3, <1>4, <1>5 DEF Appends
<1>7. ASSUME NEW n \in 1 .. 2
      PROVE  (3 * n = 3 /\ n + 1 = 2) \/ (3 * n = 6 /\ n + 1 = 3)
  OBVIOUS
<1>8. \A n \in 1 .. 2 : Appends(klass, 3 * n, n + 1)
  BY <1>6, <1>7
<1>9. ASSUME NEW k, k = 3, NEW ctor, ctor = Ctor(klass), NEW h, h = Heights(klass)
      PROVE  /\ k \in 1 .. 4 /\ DOMAIN ctor = 1 .. 3 * k + 1 /\ Finish(klass) = 3 * k + 1
             /\ \A n \in 1 .. k - 1 : Appends(klass, 3 * n, n + 1)
             /\ ctor[3 * k].op = "base" /\ h[3 * k] = 2
             /\ ctor[3 * k + 1].op = "ret" /\ h[3 * k + 1] = 0
  <2>1. 3 * k = 9 /\ 3 * k + 1 = 10 /\ k - 1 = 2 /\ k \in 1 .. 4
    BY <1>9
  <2> QED
    BY <1>2, <1>3, <1>4, <1>8, <1>9, <2>1
<1>10. Heights(klass)[1] = 0 /\ Heights(klass)[2] = 1
  BY <1>4
<1> QED
  BY <1>1, <1>3, <1>5, <1>9, <1>10 DEF Composes

LEMMA ComposesFour ==
  ASSUME NEW klass, klass = "ConversionException", klass \in Klasses
  PROVE  Composes(klass)
<1>1. Len(Message(klass)) = 4 /\ IsSeq(Message(klass))
  BY TupleSeq DEF Message
<1>2. DOMAIN Ctor(klass) = 1 .. 13 /\ Finish(klass) = 13
  BY DEF Ctor, Finish
<1>3. /\ Ctor(klass)[1].op = "ldarg" /\ Ctor(klass)[1].n = 0
      /\ Ctor(klass)[4].op = "newarray" /\ Ctor(klass)[5].op = "newstring"
      /\ Ctor(klass)[7].op = "newarray" /\ Ctor(klass)[8].op = "newstring"
      /\ Ctor(klass)[10].op = "newarray" /\ Ctor(klass)[11].op = "newstring"
      /\ Ctor(klass)[12].op = "base" /\ Ctor(klass)[13].op = "ret"
  BY DEF Ctor, Arg, Str, Op
<1>4. Heights(klass) = <<0, 1, 2, 3, 4, 2, 3, 4, 2, 3, 4, 2, 0>>
  BY DEF Heights
<1>5. Adds(klass, 2, 1) /\ Adds(klass, 3, 2) /\ Adds(klass, 6, 3) /\ Adds(klass, 9, 4)
  <2>0. Len(Texts[klass]) = 2
    BY AgentAssumption DEF Arity
  <2>1. /\ Ctor(klass)[2] = Str("from") /\ Message(klass)[1] = "from"
        /\ Ctor(klass)[3] = Arg(1) /\ Message(klass)[2] = Texts[klass][1]
        /\ Ctor(klass)[6] = Str("to") /\ Message(klass)[3] = "to"
        /\ Ctor(klass)[9] = Arg(2) /\ Message(klass)[4] = Texts[klass][2]
    BY DEF Ctor, Message
  <2> QED
    BY <2>0, <2>1, OpsAre DEF Adds
<1>6. Appends(klass, 3, 2) /\ Appends(klass, 6, 3) /\ Appends(klass, 9, 4)
  BY <1>3, <1>4, <1>5 DEF Appends
<1>7. ASSUME NEW n \in 1 .. 3
      PROVE  \/ 3 * n = 3 /\ n + 1 = 2
             \/ 3 * n = 6 /\ n + 1 = 3
             \/ 3 * n = 9 /\ n + 1 = 4
  OBVIOUS
<1>8. \A n \in 1 .. 3 : Appends(klass, 3 * n, n + 1)
  BY <1>6, <1>7
<1>9. ASSUME NEW k, k = 4, NEW ctor, ctor = Ctor(klass), NEW h, h = Heights(klass)
      PROVE  /\ k \in 1 .. 4 /\ DOMAIN ctor = 1 .. 3 * k + 1 /\ Finish(klass) = 3 * k + 1
             /\ \A n \in 1 .. k - 1 : Appends(klass, 3 * n, n + 1)
             /\ ctor[3 * k].op = "base" /\ h[3 * k] = 2
             /\ ctor[3 * k + 1].op = "ret" /\ h[3 * k + 1] = 0
  <2>1. 3 * k = 12 /\ 3 * k + 1 = 13 /\ k - 1 = 3 /\ k \in 1 .. 4
    BY <1>9
  <2> QED
    BY <1>2, <1>3, <1>4, <1>8, <1>9, <2>1
<1>10. Heights(klass)[1] = 0 /\ Heights(klass)[2] = 1
  BY <1>4
<1> QED
  BY <1>1, <1>3, <1>5, <1>9, <1>10 DEF Composes

LEMMA ComposesAll ==
  ASSUME NEW klass \in Klasses
  PROVE  Composes(klass)
BY AgentAssumption, ComposesOne, ComposesTwo, ComposesThree, ComposesFour

First(klass, n) == SubSeq(Message(klass), 1, n)
Part(klass, n) == <<Message(klass)[n]>>

LEMMA Thirds ==
  ASSUME NEW n \in Nat
  PROVE  /\ (3 * n) % 3 = 0 /\ (3 * n) \div 3 = n
         /\ (3 * n + 1) % 3 = 1 /\ (3 * n + 1) \div 3 = n
         /\ (3 * n + 2) % 3 = 2 /\ (3 * n + 2) \div 3 = n
  OBVIOUS

LEMMA ContentsAt ==
  ASSUME NEW klass \in Klasses
  PROVE  LET k == Len(Message(klass))
             at == Contents(klass)
         IN /\ at[1] = <<>> /\ at[3 * k + 1] = <<>> /\ at[2] = <<Object>>
            /\ \A n \in 1 .. k : at[3 * n] = <<Object, Text(First(klass, n))>>
            /\ \A n \in 1 .. k - 1 :
                 /\ at[3 * n + 1]
                      = <<Object, Text(First(klass, n)), Text(Part(klass, n + 1))>>
                 /\ at[3 * n + 2]
                      = <<Object, Text(First(klass, n)), Text(Part(klass, n + 1)),
                          Runes(First(klass, n + 1))>>
<1> DEFINE k == Len(Message(klass))
           two(n) == <<Object, Text(First(klass, n))>>
           three(n) == <<Object, Text(First(klass, n)), Text(Part(klass, n + 1))>>
           four(n) == <<Object, Text(First(klass, n)), Text(Part(klass, n + 1)),
                        Runes(First(klass, n + 1))>>
           none == <<>>
           self == <<Object>>
<1>1. k \in 1 .. 4 /\ DOMAIN Ctor(klass) = 1 .. 3 * k + 1 /\ Finish(klass) = 3 * k + 1
  BY ComposesAll DEF Composes
<1>2. \A ip \in 1 .. 3 * k + 1 : Contents(klass)[ip] =
        IF ip \in {1, 3 * k + 1} THEN none
        ELSE IF ip = 2 THEN self
        ELSE IF ip % 3 = 0 THEN two(ip \div 3)
        ELSE IF ip % 3 = 1 THEN three(ip \div 3) ELSE four(ip \div 3)
  BY <1>1 DEF Contents, First, Part
<1> HIDE DEF k, none, self, two, three, four
<1>3. Contents(klass)[1] = none /\ Contents(klass)[3 * k + 1] = none /\ Contents(klass)[2] = self
  <2>1. /\ 1 \in 1 .. 3 * k + 1 /\ 2 \in 1 .. 3 * k + 1 /\ 3 * k + 1 \in 1 .. 3 * k + 1
        /\ 2 \notin {1, 3 * k + 1}
    BY <1>1
  <2> QED
    BY <1>2, <2>1
<1>4. ASSUME NEW n \in 1 .. k PROVE Contents(klass)[3 * n] = two(n)
  <2>1. /\ 3 * n \in 1 .. 3 * k + 1 /\ 3 * n # 1 /\ 3 * n # 2 /\ 3 * n # 3 * k + 1
    BY <1>1
  <2>2. (3 * n) % 3 = 0 /\ (3 * n) \div 3 = n
    BY <1>1, Thirds
  <2> QED
    BY <1>2, <2>1, <2>2
<1>5. ASSUME NEW n \in 1 .. k - 1
      PROVE  Contents(klass)[3 * n + 1] = three(n) /\ Contents(klass)[3 * n + 2] = four(n)
  <2> DEFINE i == 3 * n + 1
             j == 3 * n + 2
  <2>1. /\ i \in 1 .. 3 * k + 1 /\ i # 1 /\ i # 2 /\ i # 3 * k + 1
        /\ j \in 1 .. 3 * k + 1 /\ j # 1 /\ j # 2 /\ j # 3 * k + 1
    BY <1>1
  <2>2. i % 3 = 1 /\ i \div 3 = n /\ j % 3 = 2 /\ j \div 3 = n
    BY <1>1, Thirds
  <2> HIDE DEF i, j
  <2>3. Contents(klass)[i] = three(n) /\ Contents(klass)[j] = four(n)
    BY <1>2, <2>1, <2>2
  <2> QED
    BY <2>3 DEF i, j
<1> QED
  BY <1>3, <1>4, <1>5 DEF k, none, self, two, three, four

LEMMA Positions ==
  ASSUME NEW klass \in Klasses, NEW ip \in DOMAIN Ctor(klass)
  PROVE  LET k == Len(Message(klass))
             op == Ctor(klass)[ip].op
         IN /\ k \in 1 .. 4
            /\ \/ ip = 1 /\ op = "ldarg"
               \/ ip = 2 /\ Adds(klass, ip, 1)
               \/ \E n \in 1 .. k - 1 :
                    \/ ip = 3 * n /\ Adds(klass, ip, n + 1)
                    \/ ip = 3 * n + 1 /\ op = "newarray"
                    \/ ip = 3 * n + 2 /\ op = "newstring"
               \/ ip = 3 * k /\ op = "base"
               \/ ip = 3 * k + 1 /\ op = "ret"
<1> DEFINE k == Len(Message(klass))
<1>1. Composes(klass)
  BY ComposesAll
<1>2. k \in 1 .. 4 /\ ip \in 1 .. 3 * k + 1
  BY <1>1 DEF Composes
<1>3. \/ ip = 1 \/ ip = 2 \/ ip = 3 * k \/ ip = 3 * k + 1
      \/ \E n \in 1 .. k - 1 : ip \in {3 * n, 3 * n + 1, 3 * n + 2}
  <2> HIDE DEF k
  <2>1. k = 1 \/ k = 2 \/ k = 3 \/ k = 4
    BY <1>2
  <2>2. CASE k = 1
    BY <1>2, <2>2
  <2>3. CASE k = 2
    <3>1. 1 \in 1 .. k - 1 /\ ip \in 1 .. 7
      BY <1>2, <2>3
    <3>2. ip \in {1, 2, 3 * k, 3 * k + 1} \/ ip \in {3 * 1, 3 * 1 + 1, 3 * 1 + 2}
      BY <2>3, <3>1
    <3> QED
      BY <3>1, <3>2
  <2>4. CASE k = 3
    <3>1. 1 \in 1 .. k - 1 /\ 2 \in 1 .. k - 1 /\ ip \in 1 .. 10
      BY <1>2, <2>4
    <3>2. \/ ip \in {1, 2, 3 * k, 3 * k + 1} \/ ip \in {3 * 1, 3 * 1 + 1, 3 * 1 + 2}
          \/ ip \in {3 * 2, 3 * 2 + 1, 3 * 2 + 2}
      BY <2>4, <3>1
    <3> QED
      BY <3>1, <3>2
  <2>5. CASE k = 4
    <3>1. 1 \in 1 .. k - 1 /\ 2 \in 1 .. k - 1 /\ 3 \in 1 .. k - 1 /\ ip \in 1 .. 13
      BY <1>2, <2>5
    <3>2. \/ ip \in {1, 2, 3 * k, 3 * k + 1} \/ ip \in {3 * 1, 3 * 1 + 1, 3 * 1 + 2}
          \/ ip \in {3 * 2, 3 * 2 + 1, 3 * 2 + 2} \/ ip \in {3 * 3, 3 * 3 + 1, 3 * 3 + 2}
      BY <2>5, <3>1
    <3> QED
      BY <3>1, <3>2
  <2> QED
    BY <2>1, <2>2, <2>3, <2>4, <2>5
<1>4. /\ Ctor(klass)[1].op = "ldarg" /\ Adds(klass, 2, 1)
      /\ \A n \in 1 .. k - 1 : Appends(klass, 3 * n, n + 1)
      /\ Ctor(klass)[3 * k].op = "base" /\ Ctor(klass)[3 * k + 1].op = "ret"
  BY <1>1 DEF Composes
<1>5. ASSUME NEW n \in 1 .. k - 1
      PROVE  /\ Adds(klass, 3 * n, n + 1) /\ Ctor(klass)[3 * n + 1].op = "newarray"
             /\ Ctor(klass)[3 * n + 2].op = "newstring"
  BY <1>4 DEF Appends
<1> HIDE DEF k
<1>6. ASSUME NEW n \in 1 .. k - 1, ip \in {3 * n, 3 * n + 1, 3 * n + 2}
      PROVE  \/ ip = 3 * n /\ Adds(klass, ip, n + 1)
             \/ ip = 3 * n + 1 /\ Ctor(klass)[ip].op = "newarray"
             \/ ip = 3 * n + 2 /\ Ctor(klass)[ip].op = "newstring"
  BY <1>5, <1>6
<1> QED
  BY <1>2, <1>3, <1>4, <1>6 DEF k

\* The instruction adds one to what is on the stack.
Pushes(klass, ip, content) ==
  LET now == Contents(klass)[ip]
      next == Contents(klass)[ip + 1]
      h == Heights(klass)[ip]
  IN /\ \A n \in 1 .. h : next[n] = now[n]
     /\ next[h + 1] = content

LEMMA PartsJoin ==
  ASSUME NEW klass \in Klasses, NEW n \in 1 .. Len(Message(klass)) - 1
  PROVE  First(klass, n) \o Part(klass, n + 1) = First(klass, n + 1)
<1> DEFINE s == Message(klass)
           t == SubSeq(s, 1, n)
           u == SubSeq(s, 1, n + 1)
<1>1. IsSeq(s) /\ Len(s) \in Nat
  BY ComposesAll DEF Composes
<1> HIDE DEF s
<1>2. n \in 0 .. Len(s) /\ n + 1 \in 0 .. Len(s) /\ n \in Nat
  BY <1>1 DEF s
<1>3. /\ IsSeq(t) /\ Len(t) = n /\ \A i \in 1 .. n : t[i] = s[i]
      /\ IsSeq(u) /\ Len(u) = n + 1 /\ \A i \in 1 .. n + 1 : u[i] = s[i]
  BY <1>1, <1>2, FirstSeq
<1> HIDE DEF t, u
<1>4. t \o <<s[n + 1]>> = u
  <2>1. Len(u) = Len(t) + 1 /\ u[Len(t) + 1] = s[n + 1] /\ \A i \in 1 .. Len(t) : u[i] = t[i]
    BY <1>2, <1>3
  <2> QED
    BY <1>3, <2>1, JoinOne
<1> QED
  BY <1>4 DEF First, Part, s, t, u

LEMMA OneAndWhole ==
  ASSUME NEW klass \in Klasses
  PROVE  /\ First(klass, 1) = Part(klass, 1)
         /\ First(klass, Len(Message(klass))) = Message(klass)
<1> DEFINE s == Message(klass)
           t == SubSeq(s, 1, 1)
           u == SubSeq(s, 1, Len(s))
           p == <<s[1]>>
<1>1. IsSeq(s) /\ Len(s) \in Nat \ {0}
  BY ComposesAll DEF Composes
<1>2. IsSeq(p) /\ Len(p) = 1 /\ p[1] = s[1]
  BY OneSeq
<1> HIDE DEF s, p
<1>3. 1 \in 0 .. Len(s) /\ Len(s) \in 0 .. Len(s)
  BY <1>1
<1>4. /\ IsSeq(t) /\ Len(t) = 1 /\ \A i \in 1 .. 1 : t[i] = s[i]
      /\ IsSeq(u) /\ Len(u) = Len(s) /\ \A i \in 1 .. Len(s) : u[i] = s[i]
  BY <1>1, <1>3, FirstSeq
<1> HIDE DEF t, u
<1>5. t = p /\ u = s
  <2>1. \A i \in 1 .. Len(p) : t[i] = p[i]
    BY <1>2, <1>4
  <2> QED
    BY <1>1, <1>2, <1>4, <2>1, SameSeq
<1> QED
  BY <1>5 DEF First, Part, s, t, u, p

\* What an instruction pushes for the n-th part.
PushesPart(klass, ip, n) == Pushes(klass, ip, Text(Part(klass, n)))

LEMMA PartsPushed ==
  ASSUME NEW klass \in Klasses
  PROVE  /\ Pushes(klass, 1, Object) /\ PushesPart(klass, 2, 1)
         /\ \A n \in 1 .. Len(Message(klass)) - 1 :
              /\ PushesPart(klass, 3 * n, n + 1)
              /\ Pushes(klass, 3 * n + 1, Runes(First(klass, n + 1)))
<1> DEFINE k == Len(Message(klass))
           at == Contents(klass)
           h == Heights(klass)
<1>1. /\ k \in 1 .. 4 /\ h[1] = 0 /\ h[2] = 1
      /\ \A n \in 1 .. k - 1 : Appends(klass, 3 * n, n + 1)
  BY ComposesAll DEF Composes
<1>2. \A n \in 1 .. k - 1 : h[3 * n] = 2 /\ h[3 * n + 1] = 3
  BY <1>1 DEF Appends
<1>3. /\ at[2] = <<Object>>
      /\ \A n \in 1 .. k : at[3 * n] = <<Object, Text(First(klass, n))>>
      /\ \A n \in 1 .. k - 1 :
           /\ at[3 * n + 1] = <<Object, Text(First(klass, n)), Text(Part(klass, n + 1))>>
           /\ at[3 * n + 2] = <<Object, Text(First(klass, n)), Text(Part(klass, n + 1)),
                                Runes(First(klass, n + 1))>>
  BY ContentsAt
<1>4. at[3] = <<Object, Text(Part(klass, 1))>>
  <2>1. 1 \in 1 .. k /\ 3 * 1 = 3
    <3>1. k \in 1 .. 4
      BY <1>1
    <3> QED
      BY <3>1
  <2>2. at[3] = <<Object, Text(First(klass, 1))>>
    BY <1>3, <2>1
  <2> QED
    BY <2>2, OneAndWhole
<1> HIDE DEF at, h, k
<1>5. Pushes(klass, 1, Object)
  <2>1. at[1 + 1][1] = Object /\ \A i \in 1 .. 0 : FALSE
    BY <1>3
  <2> QED
    BY <1>1, <2>1 DEF Pushes, at, h
<1>6. PushesPart(klass, 2, 1)
  <2>1. at[2 + 1][1 + 1] = Text(Part(klass, 1)) /\ at[2 + 1][1] = Object /\ at[2][1] = Object
    BY <1>3, <1>4
  <2>2. \A i \in 1 .. 1 : i = 1
    OBVIOUS
  <2> QED
    BY <1>1, <2>1, <2>2 DEF PushesPart, Pushes, at, h
<1>7. ASSUME NEW n \in 1 .. k - 1
      PROVE  /\ PushesPart(klass, 3 * n, n + 1)
             /\ Pushes(klass, 3 * n + 1, Runes(First(klass, n + 1)))
  <2>1. n \in 1 .. k /\ (3 * n + 1) + 1 = 3 * n + 2
    BY <1>1
  <2>2. /\ at[3 * n] = <<Object, Text(First(klass, n))>>
        /\ at[3 * n + 1] = <<Object, Text(First(klass, n)), Text(Part(klass, n + 1))>>
        /\ at[(3 * n + 1) + 1] = <<Object, Text(First(klass, n)), Text(Part(klass, n + 1)),
                                   Runes(First(klass, n + 1))>>
    BY <1>3, <2>1
  <2> DEFINE a == at[3 * n]
             b == at[3 * n + 1]
             c == at[(3 * n + 1) + 1]
  <2>3. /\ a[1] = b[1] /\ a[2] = b[2] /\ b[3] = Text(Part(klass, n + 1))
        /\ c[1] = b[1] /\ c[2] = b[2] /\ c[3] = b[3] /\ c[4] = Runes(First(klass, n + 1))
    BY <2>2
  <2> HIDE DEF a, b, c
  <2>4. \A i \in 1 .. 2 : i = 1 \/ i = 2
    OBVIOUS
  <2>5. \A i \in 1 .. 3 : i = 1 \/ i = 2 \/ i = 3
    OBVIOUS
  <2>6. (\A i \in 1 .. 2 : b[i] = a[i]) /\ b[2 + 1] = Text(Part(klass, n + 1))
    BY <2>3, <2>4
  <2>7. (\A i \in 1 .. 3 : c[i] = b[i]) /\ c[3 + 1] = Runes(First(klass, n + 1))
    BY <2>3, <2>5
  <2>8. h[3 * n] = 2 /\ h[3 * n + 1] = 3
    BY <1>2
  <2>9. PushesPart(klass, 3 * n, n + 1)
    BY <2>6, <2>8 DEF PushesPart, Pushes, at, h, a, b
  <2>10. Pushes(klass, 3 * n + 1, Runes(First(klass, n + 1)))
    BY <2>7, <2>8 DEF Pushes, at, h, b, c
  <2> QED
    BY <2>9, <2>10
<1> QED
  BY <1>5, <1>6, <1>7 DEF k

LEMMA PushMoves ==
  ASSUME NEW klass \in Klasses, NEW ip \in DOMAIN Ctor(klass)
  PROVE  LET inst == Ctor(klass)[ip]
         IN /\ inst.op \in {"ldarg", "ldstr", "tostr"} => ip # Finish(klass) /\ ip + 1 # Finish(klass)
            /\ inst.op = "ldarg" =>
                 \/ inst.n = 0 /\ Pushes(klass, ip, Object)
                 \/ /\ inst.n \in 1 .. Len(Texts[klass])
                    /\ Pushes(klass, ip, Text(<<Texts[klass][inst.n]>>))
            /\ inst.op \in {"ldstr", "tostr"} => Pushes(klass, ip, Text(<<inst.text>>))
<1> DEFINE k == Len(Message(klass))
           inst == Ctor(klass)[ip]
<1>1. k \in 1 .. 4 /\ Finish(klass) = 3 * k + 1 /\ Ctor(klass)[1].n = 0 /\ Ctor(klass)[1].op = "ldarg"
  BY ComposesAll DEF Composes
<1>2. \/ ip = 1
      \/ ip = 2 /\ Adds(klass, ip, 1)
      \/ \E n \in 1 .. k - 1 : ip = 3 * n /\ Adds(klass, ip, n + 1)
      \/ inst.op \in {"newarray", "newstring", "base", "ret"}
  BY Positions
<1>3. ASSUME NEW n, Adds(klass, ip, n), PushesPart(klass, ip, n)
      PROVE  /\ inst.op = "ldarg" => /\ inst.n \in 1 .. Len(Texts[klass])
                                     /\ Pushes(klass, ip, Text(<<Texts[klass][inst.n]>>))
             /\ inst.op \in {"ldstr", "tostr"} => Pushes(klass, ip, Text(<<inst.text>>))
  BY <1>3 DEF Adds, PushesPart, Part
<1> HIDE DEF k, inst
<1>4. CASE ip = 1
  <2>1. inst.n = 0 /\ inst.op = "ldarg" /\ Pushes(klass, ip, Object)
    BY <1>1, <1>4, PartsPushed DEF inst
  <2>2. 1 # Finish(klass) /\ 1 + 1 # Finish(klass)
    BY <1>1
  <2> QED
    BY <1>4, <2>1, <2>2 DEF inst
<1>5. CASE ip = 2 /\ Adds(klass, ip, 1)
  <2>1. PushesPart(klass, ip, 1)
    BY <1>5, PartsPushed
  <2>2. 2 # Finish(klass) /\ 2 + 1 # Finish(klass)
    BY <1>1
  <2> QED
    BY <1>3, <1>5, <2>1, <2>2 DEF inst
<1>6. ASSUME NEW n \in 1 .. k - 1, ip = 3 * n, Adds(klass, ip, n + 1)
      PROVE  /\ ip # Finish(klass) /\ ip + 1 # Finish(klass)
             /\ inst.op = "ldarg" => /\ inst.n \in 1 .. Len(Texts[klass])
                                     /\ Pushes(klass, ip, Text(<<Texts[klass][inst.n]>>))
             /\ inst.op \in {"ldstr", "tostr"} => Pushes(klass, ip, Text(<<inst.text>>))
  <2>1. PushesPart(klass, ip, n + 1)
    BY <1>6, PartsPushed DEF k
  <2>2. 3 * n # Finish(klass) /\ 3 * n + 1 # Finish(klass)
    BY <1>1
  <2> QED
    BY <1>3, <1>6, <2>1, <2>2
<1>7. CASE inst.op \in {"newarray", "newstring", "base", "ret"}
  BY <1>7 DEF inst
<1> QED
  BY <1>2, <1>4, <1>5, <1>6, <1>7 DEF inst

LEMMA ArrayMoves ==
  ASSUME NEW klass \in Klasses, NEW ip \in DOMAIN Ctor(klass), Ctor(klass)[ip].op = "newarray"
  PROVE  /\ ip # Finish(klass) /\ ip + 1 # Finish(klass) /\ Heights(klass)[ip] = 3
         /\ \E s, t : /\ Contents(klass)[ip][2] = Text(s) /\ Contents(klass)[ip][3] = Text(t)
                      /\ Pushes(klass, ip, Runes(s \o t))
<1> DEFINE k == Len(Message(klass))
<1>1. k \in 1 .. 4 /\ Finish(klass) = 3 * k + 1 /\ Ctor(klass)[1].op = "ldarg"
  BY ComposesAll DEF Composes
<1>2. PICK n \in 1 .. k - 1 : ip = 3 * n + 1
  BY Positions DEF Adds
<1>3. ip # Finish(klass) /\ ip + 1 # Finish(klass)
  BY <1>1, <1>2
<1>4. Heights(klass)[ip] = 3
  BY <1>2, ComposesAll DEF Composes, Appends
<1>5. Contents(klass)[ip] = <<Object, Text(First(klass, n)), Text(Part(klass, n + 1))>>
  BY <1>2, ContentsAt
<1>6. Pushes(klass, ip, Runes(First(klass, n) \o Part(klass, n + 1)))
  <2>1. Pushes(klass, ip, Runes(First(klass, n + 1)))
    BY <1>2, PartsPushed
  <2> QED
    BY <2>1, PartsJoin
<1> QED
  BY <1>3, <1>4, <1>5, <1>6

LEMMA StringMoves ==
  ASSUME NEW klass \in Klasses, NEW ip \in DOMAIN Ctor(klass), Ctor(klass)[ip].op = "newstring"
  PROVE  /\ ip # Finish(klass) /\ ip + 1 # Finish(klass) /\ Heights(klass)[ip] = 4
         /\ Contents(klass)[ip + 1][1] = Contents(klass)[ip][1]
         /\ \E s : /\ Contents(klass)[ip][4] = Runes(s)
                   /\ Contents(klass)[ip + 1][2] = Text(s)
<1> DEFINE k == Len(Message(klass))
<1>1. k \in 1 .. 4 /\ Finish(klass) = 3 * k + 1 /\ Ctor(klass)[1].op = "ldarg"
  BY ComposesAll DEF Composes
<1>2. PICK n \in 1 .. k - 1 : ip = 3 * n + 2
  BY Positions DEF Adds
<1>3. ip # Finish(klass) /\ ip + 1 # Finish(klass) /\ n + 1 \in 1 .. k /\ ip + 1 = 3 * (n + 1)
  BY <1>1, <1>2
<1>4. Heights(klass)[ip] = 4
  BY <1>2, ComposesAll DEF Composes, Appends
<1>5. Contents(klass)[ip] = <<Object, Text(First(klass, n)), Text(Part(klass, n + 1)),
                              Runes(First(klass, n + 1))>>
  BY <1>2, ContentsAt
<1>6. Contents(klass)[ip + 1] = <<Object, Text(First(klass, n + 1))>>
  BY <1>3, ContentsAt
<1> QED
  BY <1>3, <1>4, <1>5, <1>6

LEMMA BaseMoves ==
  ASSUME NEW klass \in Klasses, NEW ip \in DOMAIN Ctor(klass), Ctor(klass)[ip].op = "base"
  PROVE  /\ ip # Finish(klass) /\ ip + 1 = Finish(klass) /\ Heights(klass)[ip] = 2
         /\ Contents(klass)[ip][1] = Object /\ Contents(klass)[ip][2] = Text(Message(klass))
         /\ Contents(klass)[ip + 1] = <<>>
<1> DEFINE k == Len(Message(klass))
<1>1. /\ k \in 1 .. 4 /\ Finish(klass) = 3 * k + 1 /\ Ctor(klass)[1].op = "ldarg"
      /\ Heights(klass)[3 * k] = 2
  BY ComposesAll DEF Composes
<1>2. ip = 3 * k
  BY Positions DEF Adds
<1>3. ip # Finish(klass) /\ ip + 1 = Finish(klass) /\ k \in 1 .. k
  BY <1>1, <1>2
<1>4. Contents(klass)[3 * k] = <<Object, Text(First(klass, k))>>
  BY <1>3, ContentsAt
<1>5. Contents(klass)[3 * k + 1] = <<>>
  BY ContentsAt
<1>6. First(klass, k) = Message(klass)
  BY OneAndWhole
<1> QED
  BY <1>1, <1>2, <1>3, <1>4, <1>5, <1>6

LEMMA RetMoves ==
  ASSUME NEW klass \in Klasses, NEW ip \in DOMAIN Ctor(klass)
  PROVE  /\ Ctor(klass)[ip].op = "ret" <=> ip = Finish(klass)
         /\ Ctor(klass)[ip].op \notin {"sequence", "message"}
         /\ Finish(klass) \in Nat /\ Finish(klass) # 1
<1> DEFINE k == Len(Message(klass))
<1>1. /\ k \in 1 .. 4 /\ Finish(klass) = 3 * k + 1 /\ Ctor(klass)[3 * k + 1].op = "ret"
  BY ComposesAll DEF Composes
<1>2. Ctor(klass)[ip].op \in {"ldarg", "ldstr", "tostr", "newarray", "newstring", "base"}
      \/ (ip = 3 * k + 1 /\ Ctor(klass)[ip].op = "ret")
  BY Positions DEF Adds
<1> QED
  BY <1>1, <1>2

-----------------------------------------------------------------------------
(***************************************************************************)
(* Every step leaves the objects what they are meant to be.                *)
(***************************************************************************)
LEMMA NowTexts ==
  ASSUME NEW a, NEW at, NEW cells, NEW args
  PROVE  Now(a, at, cells, args).texts = a.texts
BY DEF Now

LEMMA StringCalled ==
  ASSUME NEW fn \in TextFunctions, NEW text, NEW m, NEW v
  PROVE  LET g == CallString(fn, text)
         IN /\ g.fn = fn /\ g.texts = <<text>> /\ g.at = 1 /\ g.cells = <<>> /\ g.args = <<>>
            /\ Made(m, g) /\ GivenFor(m, g, v)
<1> DEFINE g == CallString(fn, text)
<1>1. g.fn = fn /\ g.texts = <<text>> /\ g.at = 1 /\ g.cells = <<>> /\ g.args = <<>>
  BY DEF CallString, Call
<1>2. g.texts = <<g.texts[1]>>
  BY <1>1
<1> HIDE DEF g
<1>3. Made(m, g)
  BY <1>1, <1>2 DEF Made, TextFunctions
<1>4. GivenFor(m, g, v)
  BY <1>1 DEF GivenFor, TakesHandle, RunsCtor
<1> QED
  BY <1>1, <1>3, <1>4 DEF g

LEMMA InstanceCalled ==
  ASSUME NEW fn \in {"createInstance", "createUnprotectedInstance"}, NEW klass, NEW args
  PROVE  LET g == CallInstance(fn, klass, args)
         IN g.fn = fn /\ g.klass = klass /\ g.at = 1 /\ g.cells = <<>> /\ g.args = args
BY DEF CallInstance, Call

LEMMA Steady ==
  ASSUME IInv
  PROVE  SameMemory(memory)
BY DEF IInv, SameMemory

\* Nothing but the cells is changed.
LEMMA CarriesSame ==
  ASSUME IInv, stack # <<>>, NEW t, t.heap = memory.heap, t.operand = memory.operand,
         t.frames = memory.frames, KeepsCells(memory, t)
  PROVE  Carries(memory, t, "")
<1>1. Follows(memory, t, DOMAIN memory.heap, "")
  BY GrownFollows DEF Grows, IInv
<1>2. "" \notin {"message", "name", "trace"}
  OBVIOUS
<1> QED
  BY <1>1, <1>2 DEF Carries

LEMMA CarriesNothing ==
  ASSUME IInv, stack # <<>>
  PROVE  Carries(memory, memory, "")
BY CarriesSame DEF KeepsCells

\* A function begins with a call of one that creates a string.
LEMMA OnlyCallsData ==
  ASSUME IInv, IInv', DInv, stack # <<>>, NEW n, NEW fn \in TextFunctions, NEW text,
         Goes(memory, [Top EXCEPT !.at = n], <<CallString(fn, text)>>),
         \A f : f.fn = Top.fn /\ f.klass = Top.klass /\ f.texts = Top.texts /\ f.at = n
                /\ f.cells = Top.cells /\ f.args = Top.args
                => /\ Made(memory, f)
                   /\ \A g : g.fn = fn /\ g.texts = <<text>> => CalledFor(memory, f, g)
  PROVE  DInv'
<1> DEFINE f == Now(Top, n, Top.cells, Top.args)
           g == CallString(fn, text)
<1>1. Fits(Top) /\ [Top EXCEPT !.at = n] = f
  BY AtTop, ActivationNow
<1>2. /\ f.fn = Top.fn /\ f.klass = Top.klass /\ f.texts = Top.texts /\ f.at = n
      /\ f.cells = Top.cells /\ f.args = Top.args
  BY NowIs, NowTexts
<1>3. g.fn = fn /\ g.texts = <<text>> /\ Made(memory, g) /\ GivenFor(memory, g, Nowhere)
  BY StringCalled
<1>4. Goes(memory, f, <<g>>)
  BY <1>1
<1> HIDE DEF f, g
<1>5. Made(memory, f) /\ CalledFor(memory, f, g)
  BY <1>2, <1>3
<1>6. \A h : <<g>> = <<h>> => h = g
  OBVIOUS
<1>7. <<g>> # <<>>
  OBVIOUS
<1>8. Data(memory', stack', returned')
  <2>1. Data(memory, stack, returned) /\ SameMemory(memory) /\ Carries(memory, memory, "")
    BY Steady, CarriesNothing DEF DInv
  <2>2. \A h : <<g>> = <<h>> => CalledFor(memory, f, h) /\ Made(memory, h)
                                /\ GivenFor(memory, h, Nowhere)
    BY <1>3, <1>5, <1>6
  <2>3. \E h : <<g>> = <<h>>
    OBVIOUS
  <2> QED
    BY <1>2, <1>4, <1>5, <1>7, <2>1, <2>2, <2>3, DataOfStep
<1> QED
  BY <1>4, <1>8 DEF Goes, DInv

LEMMA TopData ==
  ASSUME IInv, DInv, stack # <<>>
  PROVE  /\ Made(memory, Top) /\ GivenFor(memory, Top, returned) /\ Data(memory, stack, returned)
         /\ Len(stack) # 1 => CalledFor(memory, stack[Len(stack) - 1], Top)
BY InStack DEF DInv, Data

LEMMA BeginLoadMeant ==
  ASSUME IInv, DInv, BeginLoad
  PROVE  DInv'
<1>1. PICK fn \in {"createUnprotectedString", "createString"} :
        /\ stack # <<>> /\ Top.fn \in {"ldstr", "tostr"}
        /\ Goes(memory, [Top EXCEPT !.at = 2], <<CallString(fn, Top.texts[1])>>)
  BY DEF BeginLoad, Reached
<1>2. IInv' /\ Made(memory, Top)
  BY <1>1, BeginLoadKeeps, TopData
<1>3. Top.texts = <<Top.texts[1]>>
  BY <1>1, <1>2 DEF Made, TextFunctions
<1>4. ASSUME NEW f, f.fn = Top.fn, f.klass = Top.klass, f.texts = Top.texts, f.at = 2
      PROVE  /\ Made(memory, f)
             /\ \A g : g.fn = fn /\ g.texts = <<Top.texts[1]>> => CalledFor(memory, f, g)
  <2>1. Wanted(f) = Top.texts
    BY <1>1, <1>4 DEF Wanted
  <2>2. Made(memory, f)
    BY <1>1, <1>3, <1>4 DEF Made, TextFunctions
  <2>3. ASSUME NEW g, g.fn = fn, g.texts = <<Top.texts[1]>> PROVE CalledFor(memory, f, g)
    BY <1>3, <2>1, <2>3 DEF CalledFor
  <2> QED
    BY <2>2, <2>3
<1> QED
  BY <1>1, <1>2, <1>4, OnlyCallsData DEF TextFunctions

LEMMA CallData ==
  ASSUME IInv, IInv', DInv, stack # <<>>, NEW t, NEW field, Carries(memory, t, field),
         NEW f, NEW g, Goes(t, f, <<g>>), f.fn = Top.fn,
         f.texts = Top.texts, f.klass = Top.klass,
         f.args = Top.args \/ f.fn # "createUnprotectedInstance",
         Made(t, f), CalledFor(t, f, g), Made(t, g), GivenFor(t, g, Nowhere)
  PROVE  DInv'
<1>1. \A h : <<g>> = <<h>> => h = g
  OBVIOUS
<1>2. <<g>> # <<>>
  OBVIOUS
<1>3. Data(memory, stack, returned) /\ SameMemory(memory)
  BY Steady DEF DInv
<1>4. \A h : <<g>> = <<h>> => CalledFor(t, f, h) /\ Made(t, h) /\ GivenFor(t, h, Nowhere)
  BY <1>1
<1>5. \E h : <<g>> = <<h>>
  OBVIOUS
<1>6. Data(memory', stack', returned')
  BY <1>2, <1>3, <1>4, <1>5, DataOfStep
<1> QED
  BY <1>6 DEF Goes, DInv

LEMMA StepData ==
  ASSUME IInv, IInv', DInv, stack # <<>>, NEW t, NEW field, Carries(memory, t, field),
         NEW f, Goes(t, f, <<>>), Len(stack) # 1 => f.fn = Top.fn,
         f.texts = Top.texts, f.klass = Top.klass,
         f.args = Top.args \/ f.fn # "createUnprotectedInstance",
         Made(t, f), GivenFor(t, f, Nowhere)
  PROVE  DInv'
<1>1. \A h : <<>> # <<h>>
  OBVIOUS
<1>2. Data(memory, stack, returned) /\ SameMemory(memory)
  BY Steady DEF DInv
<1>3. Data(memory', stack', returned')
  BY <1>1, <1>2, DataOfStep
<1> QED
  BY <1>3 DEF Goes, DInv

LEMMA BeginProtectedMeant ==
  ASSUME IInv, DInv, BeginProtected
  PROVE  DInv'
<1>1. stack # <<>> /\ Top.fn \in {"createString", "createInstance"} /\ Top.at = 1
  BY DEF BeginProtected, Reached
<1>2. IInv' /\ Made(memory, Top) /\ Fits(Top)
  BY <1>1, BeginProtectedKeeps, TopData, AtTop
<1>3. CASE Top.fn = "createString"
  <2>1. Goes(memory, [Top EXCEPT !.at = 2],
             <<CallString("createUnprotectedString", Top.texts[1])>>)
    BY <1>3 DEF BeginProtected, Reached
  <2>2. Top.texts = <<Top.texts[1]>>
    BY <1>2, <1>3 DEF Made, TextFunctions
  <2>3. ASSUME NEW f, f.fn = Top.fn, f.klass = Top.klass, f.texts = Top.texts, f.at = 2
        PROVE  /\ Made(memory, f)
               /\ \A g : g.fn = "createUnprotectedString" /\ g.texts = <<Top.texts[1]>>
                           => CalledFor(memory, f, g)
    <3>1. Wanted(f) = Top.texts
      BY <1>3, <2>3 DEF Wanted
    <3>2. Made(memory, f)
      BY <1>3, <2>2, <2>3 DEF Made, TextFunctions
    <3>3. ASSUME NEW g, g.fn = "createUnprotectedString", g.texts = <<Top.texts[1]>>
          PROVE  CalledFor(memory, f, g)
      BY <2>2, <3>1, <3>3 DEF CalledFor
    <3> QED
      BY <3>2, <3>3
  <2> QED
    BY <1>1, <1>2, <2>1, <2>3, OnlyCallsData DEF TextFunctions
<1>4. CASE Top.fn = "createInstance"
  <2> DEFINE f == Now(Top, 2, Top.cells, <<>>)
             g == CallInstance("createUnprotectedInstance", Top.klass, Top.args)
  <2>1. Goes(memory, f, <<g>>)
    BY <1>2, <1>4, ActivationNow DEF BeginProtected, Reached
  <2>2. /\ f.fn = "createInstance" /\ f.klass = Top.klass /\ f.texts = Top.texts /\ f.at = 2
    BY <1>4, NowIs, NowTexts
  <2>3. g.fn = "createUnprotectedInstance" /\ g.klass = Top.klass /\ g.at = 1 /\ g.args = Top.args
    BY InstanceCalled
  <2> HIDE DEF f, g
  <2>4. HasArgs(memory, g) /\ g.klass # "String"
    <3>1. HasArgs(memory, Top) /\ Top.klass \in Klasses
      BY <1>1, <1>2, <1>4 DEF Made, Fits
    <3> QED
      BY <2>3, <3>1, AgentAssumption DEF HasArgs
  <2>5. Made(memory, g) /\ GivenFor(memory, g, Nowhere)
    BY <2>3, <2>4 DEF Made, GivenFor, TextFunctions, TakesHandle, RunsCtor
  <2>6. Made(memory, f) /\ CalledFor(memory, f, g)
    BY <2>2, <2>3 DEF Made, CalledFor, TextFunctions
  <2> QED
    BY <1>1, <1>2, <1>4, <2>1, <2>2, <2>5, <2>6, CarriesNothing, CallData
<1> QED
  BY <1>1, <1>3, <1>4

LEMMA RaiseTextMeant ==
  ASSUME IInv, DInv, RaiseText
  PROVE  DInv'
<1>1. stack # <<>> /\ Top.fn = "raise"
  BY DEF RaiseText, Reached
<1>2. IInv' /\ Made(memory, Top) /\ Fits(Top) /\ GivenFor(memory, Top, returned)
  BY <1>1, RaiseTextKeeps, TopData, AtTop
<1>3. \A n \in DOMAIN Top.cells :
        IsText(memory, InCell(memory, Top.cells[n]), <<Texts[Top.klass][n]>>)
  BY <1>1, <1>2 DEF Made
<1>4. CASE Top.at = 1
  <2> DEFINE text == Texts[Top.klass][Len(Top.cells) + 1]
  <2>1. Goes(memory, [Top EXCEPT !.at = 2], <<CallString("createString", text)>>)
    BY <1>4 DEF RaiseText, Reached
  <2>2. ASSUME NEW f, f.fn = Top.fn, f.klass = Top.klass, f.cells = Top.cells
        PROVE  /\ Made(memory, f)
               /\ \A g : g.fn = "createString" /\ g.texts = <<text>> => CalledFor(memory, f, g)
    <3>1. Wanted(f) = <<text>>
      BY <1>1, <2>2 DEF Wanted
    <3>2. Made(memory, f)
      BY <1>1, <1>3, <2>2 DEF Made, TextFunctions
    <3> HIDE DEF text
    <3>3. ASSUME NEW g, g.fn = "createString", g.texts = <<text>> PROVE CalledFor(memory, f, g)
      BY <3>1, <3>3 DEF CalledFor
    <3> QED
      BY <3>2, <3>3
  <2> QED
    BY <1>1, <1>2, <2>1, <2>2, OnlyCallsData DEF TextFunctions
<1>5. CASE Top.at = 2
  <2> DEFINE more == Append(Top.cells, returned.cell)
             f == Now(Top, 1, more, Top.args)
  <2>0. [Top EXCEPT !.at = 1, !.cells = Append(Top.cells, returned.cell)] = f
    BY <1>2, ActivationNow
  <2>1. Goes(memory, f, <<>>)
    BY <1>5, <2>0 DEF RaiseText, Reached
  <2>2. /\ f.fn = "raise" /\ f.klass = Top.klass /\ f.texts = Top.texts /\ f.at = 1
        /\ f.args = Top.args /\ f.cells = more
    <3> HIDE DEF more, Top
    <3> QED
      BY <1>1, NowIs, NowTexts
  <2>3. IsText(memory, InCell(memory, returned.cell), <<Texts[Top.klass][Len(Top.cells) + 1]>>)
    <3>1. IsText(memory, InCell(memory, returned.cell), Wanted(Top))
      BY <1>1, <1>2, <1>5 DEF GivenFor, TakesHandle
    <3> QED
      BY <1>1, <3>1 DEF Wanted
  <2>4. IsSeq(Top.cells) /\ more = Top.cells \o <<returned.cell>>
    BY <1>2, FitsSeq DEF IsSeq
  <2>5. /\ DOMAIN more = 1 .. Len(Top.cells) + 1 /\ Len(Top.cells) \in Nat
        /\ DOMAIN Top.cells = 1 .. Len(Top.cells)
        /\ \A n \in 1 .. Len(Top.cells) : more[n] = Top.cells[n]
        /\ more[Len(Top.cells) + 1] = returned.cell
    <3>1. Len(Top.cells) \in Nat /\ DOMAIN Top.cells = 1 .. Len(Top.cells)
      BY <1>2, FitsSeq
    <3> HIDE DEF more
    <3> QED
      BY <2>4, <3>1, OneMore
  <2> HIDE DEF f, more
  <2>6. ASSUME NEW n \in DOMAIN more
        PROVE  IsText(memory, InCell(memory, more[n]), <<Texts[Top.klass][n]>>)
    <3>1. n \in 1 .. Len(Top.cells) \/ n = Len(Top.cells) + 1
      BY <2>5
    <3> QED
      BY <1>3, <2>3, <2>5, <3>1
  <2>7. Made(memory, f)
    BY <2>2, <2>6 DEF Made, TextFunctions
  <2>8. GivenFor(memory, f, Nowhere)
    BY <2>2 DEF GivenFor, TakesHandle, RunsCtor
  <2> QED
    BY <1>1, <1>2, <2>1, <2>2, <2>7, <2>8, CarriesNothing, StepData
<1> QED
  BY <1>4, <1>5 DEF RaiseText, Reached

LEMMA HeldAfter ==
  ASSUME IInv', NEW d \in DOMAIN stack', NEW c \in Nat \ {0},
         \/ \E n \in DOMAIN stack'[d].cells : stack'[d].cells[n] = c
         \/ \E n \in DOMAIN stack'[d].args : stack'[d].args[n] = c
  PROVE  c \in DOMAIN memory'.cells
<1>1. Sound(memory') /\ Chain(stack') /\ Balanced(memory', stack', returned')
  BY DEF IInv
<1> QED
  BY <1>1, HeldThere

\* What is said of an object does not depend on anything but the objects.
LEMMA SameObjects ==
  ASSUME NEW m, NEW t, t.heap = m.heap, NEW id
  PROVE  /\ \A text : IsText(m, id, text) <=> IsText(t, id, text)
         /\ \A text : IsArray(m, id, text) <=> IsArray(t, id, text)
         /\ \A f, text : Says(m, id, f, text) <=> Says(t, id, f, text)
         /\ \A f : Lacks(m, id, f) <=> Lacks(t, id, f)
         /\ \A klass : IsOf(m, id, klass) <=> IsOf(t, id, klass)
         /\ \A klass : IsRaised(m, id, klass) <=> IsRaised(t, id, klass)
         /\ \A klass : IsComplete(m, id, klass) <=> IsComplete(t, id, klass)
         /\ \A f : HasField(m, id, f) <=> HasField(t, id, f)
BY DEF IsText, IsArray, Says, Lacks, IsOf, IsRaised, IsComplete, HasField

LEMMA RaiseCreateMeant ==
  ASSUME IInv, DInv, RaiseCreate
  PROVE  DInv'
<1> DEFINE t == Copied(memory, Top.cells)
           args == IF Top.cells = <<>> THEN [n \in 1 .. Arity(Top.klass) |-> 0] ELSE Top.cells
           f == Now(Top, 3, Top.cells, Top.args)
           g == CallInstance("createInstance", Top.klass, args)
<1>1. stack # <<>> /\ Top.fn = "raise" /\ Top.at = 1 /\ ~ NeedsText
  BY DEF RaiseCreate, Reached
<1>2. IInv' /\ Made(memory, Top) /\ Fits(Top) /\ Sound(memory)
  BY <1>1, RaiseCreateKeeps, TopData, AtTop
<1>3. \A n \in DOMAIN Top.cells :
        IsText(memory, InCell(memory, Top.cells[n]), <<Texts[Top.klass][n]>>)
  BY <1>1, <1>2 DEF Made
<1>4. Goes(t, f, <<g>>)
  BY <1>2, ActivationNow DEF RaiseCreate, Reached
<1>5. /\ IsSeq(Top.cells) /\ DOMAIN Top.cells = 1 .. Len(Top.cells) /\ Len(Top.cells) \in Nat
      /\ \A n \in DOMAIN Top.cells : Top.cells[n] \in Nat \ {0}
  BY <1>2, FitsSeq
<1>6. /\ t.heap = memory.heap /\ t.operand = memory.operand /\ t.frames = memory.frames
      /\ \A c \in DOMAIN memory.cells : t.cells[c].ins = memory.cells[c].ins
  BY <1>2, <1>5, CopiedSound
<1> HIDE DEF t
<1>7. /\ f.fn = Top.fn /\ f.klass = Top.klass /\ f.texts = Top.texts /\ f.at = 3
      /\ f.args = Top.args /\ f.cells = Top.cells
  BY NowIs, NowTexts
<1>8. g.fn = "createInstance" /\ g.klass = Top.klass /\ g.at = 1 /\ g.args = args
  BY InstanceCalled
<1>9. Top.cells # <<>> => args = Top.cells
  OBVIOUS
<1> HIDE DEF f, g, args
<1>10. ASSUME NEW n \in DOMAIN Top.cells
       PROVE  /\ InCell(t, Top.cells[n]) = InCell(memory, Top.cells[n])
              /\ IsText(t, InCell(t, Top.cells[n]), <<Texts[Top.klass][n]>>)
  <2>1. Top.cells[n] \in DOMAIN memory.cells
    BY <1>1, <1>5, HandleThere
  <2>2. InCell(t, Top.cells[n]) = InCell(memory, Top.cells[n])
    BY <1>6, <2>1 DEF InCell
  <2> QED
    BY <1>3, <1>6, <2>2, SameObjects
<1>11. Made(t, f)
  BY <1>1, <1>7, <1>10 DEF Made, TextFunctions
<1>12. HasArgs(t, g)
  <2>1. SUFFICES ASSUME NEW n \in 1 .. Len(Texts[Top.klass])
                 PROVE  args[n] # 0 /\ IsText(t, InCell(t, args[n]), <<Texts[Top.klass][n]>>)
    BY <1>8 DEF HasArgs
  <2>2. Len(Top.cells) = Len(Texts[Top.klass]) /\ n \in 1 .. Len(Top.cells)
    <3>1. Top.klass \in Klasses /\ Len(Top.cells) <= Len(Texts[Top.klass])
      BY <1>1, <1>2 DEF Fits
    <3>2. Len(Texts[Top.klass]) \in Nat /\ ~ (Len(Top.cells) < Len(Texts[Top.klass]))
      BY <1>1, <3>1, TextsLen DEF NeedsText
    <3>3. Len(Top.cells) = Len(Texts[Top.klass])
      BY <1>5, <3>1, <3>2
    <3> QED
      BY <3>3
  <2>3. n \in DOMAIN Top.cells /\ Top.cells # <<>>
    BY <1>5, <2>2
  <2> QED
    BY <1>5, <1>9, <1>10, <2>3
<1>13. Made(t, g) /\ CalledFor(t, f, g) /\ GivenFor(t, g, Nowhere)
  BY <1>7, <1>8, <1>12 DEF Made, CalledFor, GivenFor, TextFunctions, TakesHandle, RunsCtor
<1>14. Carries(memory, t, "")
  BY <1>1, <1>6, CarriesSame DEF KeepsCells
<1> QED
  BY <1>1, <1>2, <1>4, <1>7, <1>11, <1>13, <1>14, CallData

LEMMA RaiseHandleMeant ==
  ASSUME IInv, DInv, RaiseHandle
  PROVE  DInv'
<1> DEFINE t == Destroyed(memory, Top.cells)
           f == [Top EXCEPT !.fn = "handleException", !.at = 1, !.cells = <<returned.cell>>]
<1>1. stack # <<>> /\ Top.fn = "raise" /\ Top.at = 3 /\ Goes(t, f, <<>>)
  BY DEF RaiseHandle, Reached
<1>2. /\ IInv' /\ Made(memory, Top) /\ Fits(Top) /\ Sound(memory)
      /\ GivenFor(memory, Top, returned) /\ returned.cell \in Nat \ {0}
      /\ returned.cell \in DOMAIN memory.cells
  <2>1. ~ TakesRaw(Top) /\ TakesHandle(Top)
    BY <1>1 DEF TakesRaw, TakesHandle
  <2> QED
    BY <1>1, <2>1, RaiseHandleKeeps, TopData, AtTop
<1>3. IsSeq(Top.cells)
  BY <1>2, FitsSeq
<1>4. /\ t.heap = memory.heap /\ t.operand = memory.operand /\ t.frames = memory.frames
      /\ \A c \in DOMAIN t.cells : c \in DOMAIN memory.cells /\ t.cells[c].ins = memory.cells[c].ins
  BY <1>2, <1>3, DestroyedSound
<1> HIDE DEF t
<1>5. /\ f.fn = "handleException" /\ f.klass = Top.klass /\ f.texts = Top.texts /\ f.at = 1
      /\ f.args = Top.args /\ f.cells = <<returned.cell>>
  BY <1>2 DEF Fits
<1> HIDE DEF f
<1>6. Len(stack) = 1
  <2>1. Front(stack) = <<>>
    BY <1>1, AtTop DEF CalledBy
  <2>2. Len(stack) - 1 = 0 /\ Len(stack) \in Nat
    <3>1. Len(<<>>) = 0 /\ Len(Front(stack)) = Len(stack) - 1 /\ Len(stack) \in Nat
      BY <1>1, InStack
    <3> QED
      BY <2>1, <3>1
  <2> QED
    BY <2>2
<1>7. returned.cell \in DOMAIN t.cells
  <2>1. memory' = t /\ stack'[1] = f /\ DOMAIN stack' = 1 .. 1
    BY <1>1, <1>6, StackGoes
  <2>2. 1 \in DOMAIN stack' /\ 1 \in DOMAIN f.cells /\ f.cells[1] = returned.cell
    BY <1>5, <2>1
  <2> QED
    BY <1>2, <2>1, <2>2, HeldAfter
<1>8. InCell(t, returned.cell) = InCell(memory, returned.cell)
  BY <1>4, <1>7 DEF InCell
<1>9. IsRaised(t, InCell(t, f.cells[1]), Top.klass) /\ Top.klass \in Klasses
  <2>1. IsRaised(memory, InCell(memory, returned.cell), Top.klass)
    BY <1>1, <1>2 DEF GivenFor
  <2>2. Top.klass \in Klasses /\ f.cells[1] = returned.cell
    BY <1>1, <1>2, <1>5 DEF Fits
  <2> QED
    BY <1>4, <1>8, <2>1, <2>2, SameObjects
<1>10. Made(t, f)
  BY <1>5, <1>9 DEF Made, IsRaised, TextFunctions
<1>11. GivenFor(t, f, Nowhere)
  BY <1>5 DEF GivenFor, TakesHandle, RunsCtor
<1>12. Carries(memory, t, "")
  BY <1>1, <1>4, CarriesSame DEF KeepsCells
<1> QED
  BY <1>1, <1>2, <1>5, <1>6, <1>10, <1>11, <1>12, StepData

LEMMA NamedFollows ==
  ASSUME IInv, DInv, stack # <<>>, Top.fn = "handleException", Top.at \in 2 .. 3,
         NEW field, field = IF Top.at = 2 THEN "name" ELSE "trace"
  PROVE  LET t == Named(field)
         IN /\ Follows(memory, t, DOMAIN memory.heap, field)
            /\ Says(t, Thrown.obj, field, Wanted(Top))
            /\ \A c \in DOMAIN t.cells : c \in DOMAIN memory.cells
                                         /\ t.cells[c].ins = memory.cells[c].ins
            /\ Sound(t) /\ t.operand = memory.operand /\ t.frames = memory.frames
            /\ Live(t, Thrown)
<1> DEFINE ptr == memory.cells[returned.cell].ins
           m == WithField(memory, Thrown.obj, field, ptr.obj)
           t == Destroyed(m, <<returned.cell>>)
<1>1. /\ Sound(memory) /\ Live(memory, Thrown)
      /\ Made(memory, Top) /\ GivenFor(memory, Top, returned)
      /\ Live(memory, ptr)
  <2>1. ~ TakesRaw(Top) /\ TakesHandle(Top)
    BY DEF TakesRaw, TakesHandle
  <2> QED
    BY <2>1, TopData, AtTop, Handling
<1>2. Lacks(memory, Thrown.obj, field)
  <2>1. InCell(memory, Top.cells[1]) = Thrown.obj
    BY DEF InCell, Thrown
  <2>2. Top.at = 2 \/ Top.at = 3
    OBVIOUS
  <2>3. Top.at = 2 => Lacks(memory, InCell(memory, Top.cells[1]), "name")
    BY <1>1 DEF Made
  <2>4. Lacks(memory, InCell(memory, Top.cells[1]), "trace")
    BY <1>1 DEF Made
  <2> QED
    BY <2>1, <2>2, <2>3, <2>4
<1>3. IsText(memory, ptr.obj, Wanted(Top))
  <2>1. IsText(memory, InCell(memory, returned.cell), Wanted(Top))
    BY <1>1 DEF GivenFor, TakesHandle
  <2> QED
    BY <2>1 DEF InCell
<1>4. Named(field) = t
  BY DEF Named, WithField
<1>5. Sound(m) /\ m.cells = memory.cells
  <2> HIDE DEF ptr
  <2>1. ASSUME NEW id, NEW q, Live(memory, q)
        PROVE  LET w == WithField(memory, id, field, q.obj)
               IN Sound(w) /\ w.cells = memory.cells
    <3>1. Sound(WithField(memory, id, field, q.obj))
      BY <1>1, <2>1, AssignedSound
    <3>2. WithField(memory, id, field, q.obj).cells = memory.cells
      BY <1>1 DEF WithField, Sound
    <3> QED
      BY <3>1, <3>2
  <2> QED
    BY <1>1, <2>1
<1>6. IsSeq(<<returned.cell>>)
  BY OneSeq
<1>7. /\ t.heap = m.heap
      /\ \A c \in DOMAIN t.cells : c \in DOMAIN memory.cells /\ t.cells[c].ins = memory.cells[c].ins
  <2> HIDE DEF m
  <2> QED
    BY <1>5, <1>6, DestroyedSound
<1> HIDE DEF t
<1>8. /\ Follows(memory, t, DOMAIN memory.heap, field)
      /\ FieldIs(t, Thrown.obj, field, ptr.obj)
  <2> HIDE DEF ptr, Thrown
  <2>1. t.heap = WithField(memory, Thrown.obj, field, ptr.obj).heap
    BY <1>7
  <2> HIDE DEF m
  <2> QED
    BY <1>1, <1>2, <2>1, AssignedFollows
<1>9. IsText(t, ptr.obj, Wanted(Top))
  <2>1. ptr.obj \in DOMAIN memory.heap \cup {0}
    BY <1>3 DEF IsText, HasField
  <2> HIDE DEF ptr, m
  <2>2. Follows(memory, t, DOMAIN memory.heap, field)
    BY <1>8
  <2>3. ASSUME NEW id, id \in DOMAIN memory.heap \cup {0}, NEW text, IsText(memory, id, text)
        PROVE  IsText(t, id, text)
    BY <1>1, <2>2, <2>3, FactsStay
  <2> QED
    BY <1>3, <2>1, <2>3
<1>10. Says(t, Thrown.obj, field, Wanted(Top))
  <2>1. IsOf(memory, InCell(memory, Top.cells[1]), Top.klass) /\ Top.klass # "String"
    BY <1>1, AgentAssumption DEF Made
  <2>2. InCell(memory, Top.cells[1]) = Thrown.obj
    BY DEF InCell, Thrown
  <2>3. ptr.obj # Thrown.obj
    BY <1>3, <2>1, <2>2 DEF IsOf, IsText
  <2> QED
    BY <1>8, <1>9, <2>3 DEF Says, FieldIs
<1>11. /\ Sound(t) /\ t.operand = memory.operand /\ t.frames = memory.frames
       /\ Live(t, Thrown)
  BY <1>1, <1>4, NamedSound
<1> QED
  BY <1>4, <1>7, <1>8, <1>10, <1>11

\* Between instructions only the operands of the program are left.
LEMMA DataBetween ==
  ASSUME NEW m, NEW v, \A n \in DOMAIN m.operand["main"] : IsSaid(m, m.operand["main"][n])
  PROVE  Data(m, <<>>, v)
BY DEF Data

LEMMA UnhandledMeant ==
  ASSUME IInv, DInv, Unhandled
  PROVE  DInv'
<1> DEFINE t == Destroyed(memory, Top.cells)
<1>1. /\ stack # <<>> /\ Top.fn = "handleException" /\ Top.at = 1
      /\ outcome' = [klass |-> Top.klass,
                     text |-> TextOf(memory, [obj |-> memory.heap[Thrown.obj].refs.message])]
      /\ memory' = t /\ stack' = Front(stack)
  BY DEF Unhandled, Reached
<1>2. Sound(memory) /\ Front(stack) = <<>> /\ IsSeq(Top.cells) /\ Made(memory, Top)
  BY <1>1, Handling, TopData
<1>3. t.heap = memory.heap /\ t.operand = memory.operand
  BY <1>2, DestroyedSound
<1> HIDE DEF t
<1>4. \A n \in DOMAIN t.operand["main"] : IsSaid(t, t.operand["main"][n])
  <2>1. \A n \in DOMAIN memory.operand["main"] : IsSaid(memory, memory.operand["main"][n])
    BY DEF DInv, Data
  <2> QED
    BY <1>3, <2>1, SameObjects DEF IsSaid
<1>5. Data(memory', stack', returned')
  BY <1>1, <1>2, <1>4, DataBetween
<1>6. outcome'.text = Message(outcome'.klass)
  <2>1. Says(memory, Thrown.obj, "message", Message(Top.klass))
    BY <1>1, <1>2 DEF Made, InCell, Thrown
  <2>2. TextOf(memory, [obj |-> memory.heap[Thrown.obj].refs.message]) = Message(Top.klass)
    BY <2>1 DEF Says, IsText, IsArray, TextOf
  <2> QED
    BY <1>1, <2>2
<1> QED
  BY <1>5, <1>6 DEF DInv

LEMMA HandledMeant ==
  ASSUME IInv, DInv, Handled
  PROVE  DInv'
<1>1. stack # <<>> /\ Top.fn = "handleException" /\ Top.at \in 1 .. 3
  BY DEF Handled, Reached
<1>2. IInv' /\ Made(memory, Top) /\ Fits(Top) /\ Front(stack) = <<>> /\ Sound(memory)
  BY <1>1, HandledKeeps, TopData, Handling
<1> DEFINE self == InCell(memory, Top.cells[1])
<1>3. /\ Top.klass \in Klasses /\ IsOf(memory, self, Top.klass)
      /\ Says(memory, self, "message", Message(Top.klass)) /\ Lacks(memory, self, "trace")
      /\ IF Top.at = 3 THEN Says(memory, self, "name", <<Top.klass>>)
         ELSE Lacks(memory, self, "name")
  BY <1>1, <1>2 DEF Made
<1>4. self = Thrown.obj /\ self \in DOMAIN memory.heap
  BY <1>3 DEF InCell, Thrown, IsOf
<1> HIDE DEF self
<1>5. 1 \in DOMAIN Top.cells /\ Top.cells[1] \in Nat \ {0}
  BY <1>1, <1>2, FitsCells, FitsSeq
<1>6. CASE Top.at = 1
  <2>1. Goes(memory, [Top EXCEPT !.at = 2], <<CallString("createString", Top.klass)>>)
    BY <1>6 DEF Handled, Reached
  <2>2. ASSUME NEW f, f.fn = Top.fn, f.klass = Top.klass, f.at = 2, f.cells = Top.cells
        PROVE  /\ Made(memory, f)
               /\ \A g : g.fn = "createString" /\ g.texts = <<Top.klass>> => CalledFor(memory, f, g)
    <3>1. Wanted(f) = <<Top.klass>>
      BY <1>1, <2>2 DEF Wanted
    <3>2. Made(memory, f)
      BY <1>1, <1>3, <1>6, <2>2 DEF Made, TextFunctions, self
    <3>3. ASSUME NEW g, g.fn = "createString", g.texts = <<Top.klass>> PROVE CalledFor(memory, f, g)
      BY <3>1, <3>3 DEF CalledFor
    <3> QED
      BY <3>2, <3>3
  <2> QED
    BY <1>1, <1>2, <2>1, <2>2, OnlyCallsData DEF TextFunctions
<1>7. CASE Top.at = 2
  <2> DEFINE t == Named("name")
             f == Now(Top, 3, Top.cells, Top.args)
             g == CallString("createString", "trace")
  <2>0. Goes(t, [Top EXCEPT !.at = 3], <<g>>)
    BY <1>7 DEF Handled, Reached
  <2>1. Goes(t, f, <<g>>)
    BY <1>2, <2>0, ActivationNow
  <2>2. /\ Follows(memory, t, DOMAIN memory.heap, "name")
        /\ Says(t, Thrown.obj, "name", Wanted(Top))
        /\ \A c \in DOMAIN t.cells : t.cells[c].ins = memory.cells[c].ins
        /\ t.operand = memory.operand /\ t.frames = memory.frames
    BY <1>1, <1>7, NamedFollows
  <2>3. /\ f.fn = Top.fn /\ f.klass = Top.klass /\ f.texts = Top.texts /\ f.at = 3
        /\ f.args = Top.args /\ f.cells = Top.cells
    BY NowIs, NowTexts
  <2>4. g.fn = "createString" /\ g.texts = <<"trace">> /\ Made(t, g) /\ GivenFor(t, g, Nowhere)
    BY StringCalled DEF TextFunctions
  <2> HIDE DEF t, f, g
  <2>5. Wanted(Top) = <<Top.klass>> /\ Wanted(f) = <<"trace">>
    BY <1>1, <1>7, <2>3 DEF Wanted
  <2>6. Top.cells[1] \in DOMAIN t.cells
    <3>1. memory' = t /\ stack'[Len(stack)] = f /\ DOMAIN stack' = 1 .. Len(stack) + 1
      BY <1>1, <2>1, StackGoes
    <3>2. Len(stack) \in DOMAIN stack'
      BY <1>1, <3>1, InStack
    <3> QED
      BY <1>2, <1>5, <2>3, <3>1, <3>2, HeldAfter
  <2>7. InCell(t, f.cells[1]) = self
    BY <2>2, <2>3, <2>6 DEF InCell, self
  <2>8. /\ IsOf(t, self, Top.klass) /\ Says(t, self, "message", Message(Top.klass))
        /\ Lacks(t, self, "trace")
    <3>1. "name" # "trace"
      OBVIOUS
    <3> QED
      BY <1>2, <1>3, <1>4, <2>2, <3>1, FactsStay
  <2>9. Made(t, f)
    BY <1>1, <1>3, <1>4, <2>2, <2>3, <2>5, <2>7, <2>8 DEF Made, TextFunctions
  <2>10. CalledFor(t, f, g)
    BY <2>4, <2>5 DEF CalledFor
  <2>11. Carries(memory, t, "name")
    <3>1. \A d \in DOMAIN Front(stack) : FALSE
      BY <1>2
    <3> QED
      BY <2>2, <3>1 DEF Carries, KeepsCells
  <2> QED
    BY <1>1, <1>2, <2>1, <2>3, <2>4, <2>9, <2>10, <2>11, CallData
<1>8. CASE Top.at = 3
  <2> DEFINE s == Named("trace")
             meant == [klass |-> Top.klass, text |-> <<>>]
             u == PushedRoot(s, "main", Thrown, meant)
             t == Destroyed(u, Top.cells)
  <2>1. memory' = t /\ stack' = <<>> /\ UNCHANGED outcome
    BY <1>2, <1>8 DEF Handled, Reached, Returns
  <2>2. /\ Follows(memory, s, DOMAIN memory.heap, "trace")
        /\ Says(s, Thrown.obj, "trace", Wanted(Top))
        /\ s.operand = memory.operand /\ Sound(s) /\ Live(s, Thrown)
    BY <1>1, <1>8, NamedFollows
  <2> HIDE DEF s
  <2>3. /\ Sound(u) /\ u.heap = s.heap
        /\ Len(u.operand["main"]) = Len(s.operand["main"]) + 1
        /\ \A n \in 1 .. Len(s.operand["main"]) : u.operand["main"][n] = s.operand["main"][n]
        /\ u.operand["main"][Len(s.operand["main"]) + 1] = AnItem(Thrown, meant)
    BY <2>2, PushedRootIs DEF Processors
  <2> HIDE DEF u
  <2>4. t.heap = u.heap /\ t.operand = u.operand
    BY <1>1, <2>3, Handling, DestroyedSound
  <2> HIDE DEF t
  <2>5. IsComplete(s, self, Top.klass)
    <3>1. Wanted(Top) = <<"trace">>
      BY <1>1, <1>8 DEF Wanted
    <3>2. /\ IsOf(s, self, Top.klass) /\ Says(s, self, "message", Message(Top.klass))
          /\ Says(s, self, "name", <<Top.klass>>)
      BY <1>2, <1>3, <1>4, <1>8, <2>2, FactsStay
    <3> QED
      BY <1>4, <2>2, <3>1, <3>2 DEF IsComplete
  <2>6. \A n \in DOMAIN s.operand["main"] : IsSaid(s, s.operand["main"][n])
    <3>1. \A n \in DOMAIN memory.operand["main"] : IsSaid(memory, memory.operand["main"][n])
      BY DEF DInv, Data
    <3> QED
      BY <1>2, <2>2, <3>1, SaidStays
  <2>7. IsSaid(s, AnItem(Thrown, meant))
    BY <1>3, <1>4, <2>5, AgentAssumption DEF IsSaid, AnItem
  <2> HIDE DEF meant
  <2>8. ASSUME NEW n \in DOMAIN u.operand["main"] PROVE IsSaid(s, u.operand["main"][n])
    <3>1. /\ DOMAIN s.operand["main"] = 1 .. Len(s.operand["main"]) /\ Len(s.operand["main"]) \in Nat
          /\ DOMAIN u.operand["main"] = 1 .. Len(u.operand["main"])
      BY <2>2, <2>3, SeqLength DEF Sound, Operands, Processors
    <3>2. n \in 1 .. Len(s.operand["main"]) \/ n = Len(s.operand["main"]) + 1
      BY <2>3, <3>1
    <3> QED
      BY <2>3, <2>6, <2>7, <3>1, <3>2
  <2>9. \A n \in DOMAIN t.operand["main"] : IsSaid(t, t.operand["main"][n])
    BY <2>3, <2>4, <2>8, SameObjects DEF IsSaid
  <2>10. Data(memory', stack', returned')
    BY <2>1, <2>9, DataBetween
  <2> QED
    BY <2>1, <2>10 DEF DInv
<1> QED
  BY <1>1, <1>6, <1>7, <1>8

LEMMA InstructionMeant ==
  ASSUME IInv, DInv, Instruction
  PROVE  DInv'
<1>1. PICK call \in {Call(fn, "main", "String", <<"text">>, <<>>) : fn \in {"ldstr", "tostr"}}
                     \cup {Call("raise", "main", k, <<>>, <<>>) : k \in Klasses} :
        stack' = <<call>>
  BY DEF Instruction
<1>2. UNCHANGED <<memory, returned, outcome>>
  BY DEF Instruction
<1>3. /\ call.at = 1 /\ call.cells = <<>>
      /\ \/ call.fn \in {"ldstr", "tostr"} /\ call.texts = <<"text">>
         \/ call.fn = "raise"
  BY DEF Call
<1>4. Made(memory, call)
  <2>1. call.fn \in {"ldstr", "tostr"} => call.texts = <<call.texts[1]>>
    BY <1>3
  <2> HIDE <1>1
  <2> QED
    BY <1>3, <2>1 DEF Made, TextFunctions
<1>5. GivenFor(memory, call, returned)
  BY <1>3 DEF GivenFor, TakesHandle, RunsCtor
<1>6. DOMAIN stack' = {1} /\ stack'[1] = call /\ Last(stack') = call
  BY <1>1, OneSeq, SeqLength DEF Last
<1>7. Data(memory', stack', returned')
  BY <1>2, <1>4, <1>5, <1>6 DEF Data, DInv
<1> QED
  BY <1>2, <1>7 DEF DInv

LEMMA DropMeant ==
  ASSUME IInv, DInv, Drop
  PROVE  DInv'
<1> DEFINE t == Popped(memory, "main", 1)
<1>1. stack = <<>> /\ memory' = t /\ UNCHANGED <<stack, returned, outcome>>
      /\ memory.operand["main"] # <<>>
  BY DEF Drop, Idle
<1>2. /\ Sound(memory) /\ IsSeq(memory.operand["main"])
      /\ DOMAIN memory.operand["main"] = 1 .. Len(memory.operand["main"])
      /\ Len(memory.operand["main"]) \in Nat \ {0}
  <2>1. Sound(memory) /\ IsSeq(memory.operand["main"])
    BY <1>1, Between DEF Sound, Operands, Processors
  <2> QED
    BY <1>1, <2>1, SeqLength, FrontSeq
<1>3. /\ t.heap = memory.heap
      /\ Len(t.operand["main"]) = Len(memory.operand["main"]) - 1
      /\ \A n \in 1 .. Len(memory.operand["main"]) - 1 :
           t.operand["main"][n] = memory.operand["main"][n]
      /\ Sound(t)
  <2>1. 1 \in 0 .. Len(memory.operand["main"])
    BY <1>2
  <2> QED
    BY <1>2, <2>1, PoppedSound DEF Processors
<1> HIDE DEF t
<1>4. DOMAIN t.operand["main"] = 1 .. Len(memory.operand["main"]) - 1
  BY <1>3, SeqLength DEF Sound, Operands, Processors
<1>5. ASSUME NEW n \in DOMAIN t.operand["main"]
      PROVE  IsSaid(t, t.operand["main"][n])
  <2>1. n \in DOMAIN memory.operand["main"] /\ t.operand["main"][n] = memory.operand["main"][n]
    BY <1>2, <1>3, <1>4
  <2>2. IsSaid(memory, memory.operand["main"][n])
    BY <2>1 DEF DInv, Data
  <2> QED
    BY <1>3, <2>1, <2>2, SameObjects DEF IsSaid
<1>6. Data(memory', stack', returned')
  BY <1>1, <1>5, DataBetween
<1> QED
  BY <1>1, <1>6 DEF DInv

LEMMA InitMeant ==
  ASSUME Init
  PROVE  DInv
<1>1. DOMAIN memory.operand["main"] = {} /\ stack = <<>> /\ outcome = Nothing
  BY DEF Init
<1> QED
  BY <1>1, DataBetween DEF DInv

LEMMA StutterMeant ==
  ASSUME IInv, DInv, UNCHANGED vars
  PROVE  DInv'
<1>1. UNCHANGED <<memory, stack, returned, outcome>>
  BY DEF vars
<1> QED
  BY <1>1 DEF DInv

-----------------------------------------------------------------------------
(***************************************************************************)
(* A function returns what it was called for.                              *)
(***************************************************************************)
Caller == stack[Len(stack) - 1]

LEMMA CallerIs ==
  ASSUME IInv, DInv, stack # <<>>, Len(stack) # 1
  PROVE  /\ Len(stack) - 1 \in DOMAIN stack /\ Fits(Caller) /\ CalledBy(Caller, Top)
         /\ Made(memory, Caller) /\ CalledFor(memory, Caller, Top)
         /\ Len(stack) - 1 \in DOMAIN Front(stack)
<1>1. /\ DOMAIN stack = 1 .. Len(stack) /\ Len(stack) \in Nat \ {0} /\ Len(stack) \in DOMAIN stack
      /\ DOMAIN Front(stack) = 1 .. Len(stack) - 1
      /\ stack[Len(stack)] = Top /\ Chain(stack) /\ Fits(stack[Len(stack)])
  BY InStack
<1>2. Len(stack) - 1 \in DOMAIN stack /\ Len(stack) - 1 \in DOMAIN Front(stack)
  BY <1>1
<1>3. Fits(Caller) /\ CalledBy(Caller, Top)
  BY <1>1, <1>2 DEF Chain, Caller
<1>4. Made(memory, Caller) /\ CalledFor(memory, Caller, Top)
  BY <1>1, <1>2 DEF DInv, Data, Caller
<1> QED
  BY <1>2, <1>3, <1>4

LEMMA ReturnData ==
  ASSUME IInv, IInv', DInv, stack # <<>>, NEW t, NEW v, Returns(t, v),
         t.heap = memory.heap, KeepsCells(memory, t),
         t.operand = memory.operand, t.frames = memory.frames,
         Len(stack) # 1 => GivenFor(t, Caller, v)
  PROVE  DInv'
<1>1. Follows(memory, t, DOMAIN memory.heap, "")
  BY GrownFollows DEF Grows, IInv
<1>2. memory' = t /\ returned' = v /\ stack' = Front(stack) /\ UNCHANGED outcome
  BY DEF Returns
<1>3. Data(memory', stack', returned')
  BY <1>1, <1>2, DataOfReturn DEF Caller
<1> QED
  BY <1>2, <1>3 DEF DInv

LEMMA EndStringMeant ==
  ASSUME IInv, DInv, EndString
  PROVE  DInv'
<1> DEFINE t == Destroyed(memory, Top.cells)
<1>1. /\ stack # <<>> /\ Top.fn = "createUnprotectedString" /\ Top.at = 2
      /\ Returns(t, returned)
  BY DEF EndString, Reached
<1>2. IInv' /\ Sound(memory) /\ IsSeq(Top.cells) /\ GivenFor(memory, Top, returned)
  BY <1>1, EndStringKeeps, AtTop, TopData
<1>3. /\ t.heap = memory.heap /\ t.operand = memory.operand /\ t.frames = memory.frames
      /\ \A c \in DOMAIN t.cells : t.cells[c].ins = memory.cells[c].ins
  BY <1>2, DestroyedSound
<1> HIDE DEF t
<1>4. ASSUME Len(stack) # 1 PROVE GivenFor(t, Caller, returned)
  <2>1. CalledBy(Caller, Top) /\ CalledFor(memory, Caller, Top)
    BY <1>1, <1>4, CallerIs
  <2>2. Caller.fn \in {"ldstr", "createString"} /\ Caller.at = 2
    BY <1>1, <2>1 DEF CalledBy
  <2>3. Top.texts = Caller.texts
    BY <1>1, <2>1, <2>2 DEF CalledFor, Wanted
  <2>4. IsText(memory, returned.ptr.obj, Top.texts)
    BY <1>1, <1>2 DEF GivenFor
  <2>5. IsText(t, returned.ptr.obj, Caller.texts)
    BY <1>3, <2>3, <2>4, SameObjects
  <2> QED
    BY <2>2, <2>5 DEF GivenFor, TakesHandle, RunsCtor
<1> QED
  BY <1>1, <1>2, <1>3, <1>4, ReturnData DEF KeepsCells

LEMMA EndInstanceMeant ==
  ASSUME IInv, DInv, EndInstance
  PROVE  DInv'
<1> DEFINE t == Destroyed(memory, Top.cells \o Top.args)
           self == InCell(memory, Top.cells[1])
           v == Raw(memory.cells[Top.cells[1]].ins)
<1>1. /\ stack # <<>> /\ Top.fn = "createUnprotectedInstance" /\ Top.at = 3
      /\ Returns(t, v)
  BY DEF EndInstance, Reached
<1>2. IInv' /\ Sound(memory) /\ IsSeq(Top.cells) /\ IsSeq(Top.args) /\ Made(memory, Top)
  BY <1>1, EndInstanceKeeps, AtTop, TopData
<1>3. /\ t.heap = memory.heap /\ t.operand = memory.operand /\ t.frames = memory.frames
      /\ \A c \in DOMAIN t.cells : t.cells[c].ins = memory.cells[c].ins
  <2>1. IsSeq(Top.cells \o Top.args)
    BY <1>2, JoinSeq
  <2> QED
    BY <1>2, <2>1, DestroyedSound
<1>4. v.ptr.obj = self
  BY DEF Raw, InCell
<1> HIDE DEF t, v
<1>5. ASSUME Len(stack) # 1 PROVE GivenFor(t, Caller, v)
  <2>1. CalledBy(Caller, Top) /\ CalledFor(memory, Caller, Top) /\ Fits(Caller)
        /\ Made(memory, Caller)
    BY <1>1, <1>5, CallerIs
  <2>2. Caller.fn \in {"createInstance", "createUnprotectedString"} /\ Caller.at = 2
    BY <1>1, <2>1 DEF CalledBy
  <2>3. CASE Caller.fn = "createInstance"
    <3>1. Top.klass = Caller.klass /\ Caller.klass \in Klasses
      BY <1>1, <2>1, <2>3 DEF CalledFor, Fits
    <3>2. IsRaised(memory, self, Caller.klass)
      BY <1>1, <1>2, <3>1, AgentAssumption DEF Made
    <3>3. IsRaised(t, v.ptr.obj, Caller.klass)
      BY <1>3, <1>4, <3>2, SameObjects
    <3> QED
      BY <2>3, <3>3 DEF GivenFor, TakesHandle, RunsCtor
  <2>4. CASE Caller.fn = "createUnprotectedString"
    <3>1. Top.klass = "String" /\ Top.args = Caller.cells
      BY <1>1, <2>1, <2>4 DEF CalledFor
    <3>2. MakesString(memory, Top)
      BY <1>1, <1>2, <3>1 DEF Made
    <3>3. /\ HasField(memory, self, "sequence") /\ memory.heap[self].klass = "String"
          /\ memory.heap[self].refs["sequence"] = InCell(memory, Top.args[1])
      BY <1>1, <3>2 DEF MakesString
    <3>4. IsArray(memory, InCell(memory, Top.args[1]), Caller.texts)
      BY <2>1, <2>2, <2>4, <3>1 DEF Made
    <3>5. IsText(memory, self, Caller.texts)
      BY <3>3, <3>4 DEF IsText
    <3>6. IsText(t, v.ptr.obj, Caller.texts)
      BY <1>3, <1>4, <3>5, SameObjects
    <3> QED
      BY <2>4, <3>6 DEF GivenFor, TakesHandle, RunsCtor
  <2> QED
    BY <2>2, <2>3, <2>4
<1> QED
  BY <1>1, <1>2, <1>3, <1>5, ReturnData DEF KeepsCells

LEMMA EndProtectedMeant ==
  ASSUME IInv, DInv, EndProtected
  PROVE  DInv'
<1> DEFINE t == MakeProtectedCell(memory, returned.ptr)
           cell == NextCell(memory)
           v == Handle(cell)
<1>1. /\ stack # <<>> /\ Top.fn \in {"createString", "createInstance"} /\ Top.at = 2
      /\ Returns(t, v)
  BY DEF EndProtected, Reached
<1>2. IInv' /\ Sound(memory) /\ GivenFor(memory, Top, returned) /\ Live(memory, returned.ptr)
  <2>1. TakesRaw(Top)
    BY <1>1 DEF TakesRaw
  <2> QED
    BY <1>1, <2>1, EndProtectedKeeps, AtTop, TopData
<1>3. /\ t.heap = memory.heap /\ t.operand = memory.operand /\ t.frames = memory.frames
      /\ t.cells[cell].ins = returned.ptr
      /\ \A c \in DOMAIN memory.cells : t.cells[c] = memory.cells[c]
  BY <1>2, MadeSound
<1>4. v.cell = cell
  BY DEF Handle
<1> HIDE DEF t, v, cell
<1>5. InCell(t, v.cell) = returned.ptr.obj
  BY <1>3, <1>4 DEF InCell
<1>6. ASSUME Len(stack) # 1 PROVE GivenFor(t, Caller, v)
  <2>1. CalledBy(Caller, Top) /\ CalledFor(memory, Caller, Top)
    BY <1>1, <1>6, CallerIs
  <2>2. CASE Top.fn = "createInstance"
    <3>1. Caller.fn = "raise" /\ Caller.at = 3 /\ Top.klass = Caller.klass
      BY <2>1, <2>2 DEF CalledBy, CalledFor
    <3>2. IsRaised(memory, returned.ptr.obj, Top.klass)
      BY <1>1, <1>2, <2>2 DEF GivenFor
    <3>3. IsRaised(t, InCell(t, v.cell), Caller.klass)
      BY <1>3, <1>5, <3>1, <3>2, SameObjects
    <3> QED
      BY <3>1, <3>3 DEF GivenFor, RunsCtor
  <2>3. CASE Top.fn = "createString"
    <3>1. \/ Caller.fn \in {"tostr", "raise"} /\ Caller.at = 2
          \/ Caller.fn = "handleException"
      BY <2>1, <2>3 DEF CalledBy
    <3>2. Top.texts = Wanted(Caller)
      BY <2>1, <2>3 DEF CalledFor
    <3>3. IsText(memory, returned.ptr.obj, Top.texts)
      BY <1>1, <1>2, <2>3 DEF GivenFor
    <3>4. IsText(t, InCell(t, v.cell), Wanted(Caller))
      BY <1>3, <1>5, <3>2, <3>3, SameObjects
    <3> QED
      BY <3>1, <3>4 DEF GivenFor, RunsCtor
  <2> QED
    BY <1>1, <2>2, <2>3
<1>7. KeepsCells(memory, t)
  BY <1>3 DEF KeepsCells
<1> QED
  BY <1>1, <1>2, <1>3, <1>6, <1>7, ReturnData

OneMoreOn(m, t, p, item) ==
  /\ Len(t.operand[p]) = Len(m.operand[p]) + 1
  /\ \A n \in 1 .. Len(m.operand[p]) : t.operand[p][n] = m.operand[p][n]
  /\ t.operand[p][Len(m.operand[p]) + 1] = item
  /\ \A q \in Processors \ {p} : t.operand[q] = m.operand[q]

LEMMA PushedOneMore ==
  ASSUME NEW m, Sound(m), NEW p \in Processors, NEW ptr, Live(m, ptr), NEW meant
  PROVE  /\ OneMoreOn(m, PushedRoot(m, p, ptr, meant), p, AnItem(ptr, meant))
         /\ Sound(PushedRoot(m, p, ptr, meant))
         /\ PushedRoot(m, p, ptr, meant).heap = m.heap
         /\ PushedRoot(m, p, ptr, meant).cells = m.cells
         /\ PushedRoot(m, p, ptr, meant).frames = m.frames
<1> DEFINE t == PushedRoot(m, p, ptr, meant)
           item == AnItem(ptr, meant)
<1>1. Len(t.operand[p]) = Len(m.operand[p]) + 1
  BY PushedRootIs
<1>2. \A n \in 1 .. Len(m.operand[p]) : t.operand[p][n] = m.operand[p][n]
  BY PushedRootIs
<1>3. t.operand[p][Len(m.operand[p]) + 1] = item
  BY PushedRootIs
<1>4. \A q \in Processors \ {p} : t.operand[q] = m.operand[q]
  BY PushedRootIs
<1>5. Sound(t) /\ t.heap = m.heap /\ t.cells = m.cells /\ t.frames = m.frames
  BY PushedRootIs
<1> HIDE DEF t, item
<1>6. OneMoreOn(m, t, p, item)
  BY <1>1, <1>2, <1>3, <1>4 DEF OneMoreOn
<1> QED
  BY <1>5, <1>6 DEF t, item

LEMMA LoadedMeant ==
  ASSUME IInv, IInv', DInv, stack # <<>>, Top.fn \in {"ldstr", "tostr"}, Top.at = 2,
         NEW t, Returns(t, Nowhere), t.heap = memory.heap, KeepsCells(memory, t),
         t.frames = memory.frames,
         NEW ptr, IsText(memory, ptr.obj, Top.texts), NEW p \in Processors, p = Top.on,
         OneMoreOn(memory, t, p, AnItem(ptr, AString))
  PROVE  DInv'
<1>0. /\ Len(t.operand[p]) = Len(memory.operand[p]) + 1
      /\ \A n \in 1 .. Len(memory.operand[p]) : t.operand[p][n] = memory.operand[p][n]
      /\ t.operand[p][Len(memory.operand[p]) + 1] = AnItem(ptr, AString)
      /\ \A q \in Processors \ {p} : t.operand[q] = memory.operand[q]
  BY DEF OneMoreOn
<1>1. /\ memory' = t /\ returned' = Nowhere /\ stack' = Front(stack) /\ UNCHANGED outcome
  BY DEF Returns
<1>2. /\ Sound(memory) /\ Fits(Top) /\ InFrames(memory, FALSE, Top.depth)
      /\ Sound(t)
  <2>1. ~ RunsCtor(Top)
    BY DEF RunsCtor
  <2>2. Sound(memory) /\ Fits(Top) /\ InFrames(memory, RunsCtor(Top), Top.depth)
    BY AtTop
  <2>3. InFrames(memory, FALSE, Top.depth)
    <3> HIDE DEF Top
    <3> QED
      BY <2>1, <2>2 DEF InFrames
  <2>4. Sound(memory')
    BY DEF IInv
  <2> QED
    BY <1>1, <2>2, <2>3, <2>4
<1>3. Follows(memory, t, DOMAIN memory.heap, "")
  BY <1>2, GrownFollows DEF Grows
<1>4. /\ DOMAIN memory.operand[p] = 1 .. Len(memory.operand[p]) /\ Len(memory.operand[p]) \in Nat
      /\ DOMAIN t.operand[p] = 1 .. Len(t.operand[p])
  BY <1>0, <1>2, SeqLength DEF Sound, Operands
<1>5. \A n \in DOMAIN t.operand[p] : n \in DOMAIN memory.operand[p] \/ n = Len(memory.operand[p]) + 1
  BY <1>0, <1>4
<1>6. IsText(t, ptr.obj, Top.texts)
  BY SameObjects
<1>7. Top.depth = 0 \/ Top.depth = 1
  BY <1>2 DEF Fits
<1>8. CASE Top.depth = 0
  <2>1. p = "main" /\ Front(stack) = <<>>
    <3>1. Front(stack) = <<>>
      BY <1>8, AtTop DEF CalledBy
    <3> QED
      BY <1>2, <1>8, <3>1 DEF Fits
  <2>2. IsSaid(t, AnItem(ptr, AString))
    <3>1. AString.klass = "String" /\ AString.text = Top.texts
      BY DEF AString
    <3> HIDE DEF AString, Top
    <3> QED
      BY <1>6, <3>1 DEF IsSaid, AnItem
  <2>3. \A n \in DOMAIN memory.operand["main"] : IsSaid(t, memory.operand["main"][n])
    <3>1. \A n \in DOMAIN memory.operand["main"] : IsSaid(memory, memory.operand["main"][n])
      BY DEF DInv, Data
    <3> QED
      BY <3>1, SameObjects DEF IsSaid
  <2>4. ASSUME NEW n \in DOMAIN t.operand["main"] PROVE IsSaid(t, t.operand["main"][n])
    BY <1>0, <1>4, <1>5, <2>1, <2>2, <2>3
  <2>5. Data(memory', stack', returned')
    BY <1>1, <2>1, <2>4, DataBetween
  <2> QED
    BY <1>1, <2>5 DEF DInv
<1>9. CASE Top.depth = 1
  <2>1. p = "agent" /\ t.operand["main"] = memory.operand["main"]
    BY <1>0, <1>2, <1>9 DEF Fits, Processors
  <2>2. Len(stack) # 1
    <3>1. Front(stack) # <<>>
      BY <1>9, AtTop DEF Outermost
    <3>2. Len(stack) # 1
      <4>1. ASSUME Len(stack) = 1 PROVE FALSE
        <5>1. IsSeq(Front(stack)) /\ Len(Front(stack)) = 0
          BY <4>1, InStack
        <5> QED
          BY <3>1, <5>1, SeqLength, FrontSeq
      <4> QED
        BY <4>1
    <3> QED
      BY <3>2
  <2> DEFINE a == Caller
  <2>3. /\ Fits(a) /\ CalledBy(a, Top) /\ Made(memory, a) /\ CalledFor(memory, a, Top)
        /\ Len(stack) - 1 \in DOMAIN Front(stack)
    BY <2>2, CallerIs
  <2>4. a.fn = "createUnprotectedInstance" /\ a.at = 2 /\ a.depth = 0
    BY <2>3 DEF CalledBy
  <2>5. /\ a.klass # "String" /\ memory.frames[1].ip # Finish(a.klass)
        /\ Contents(a.klass)[memory.frames[1].ip][Heights(a.klass)[memory.frames[1].ip]]
             = Text(Top.texts)
    BY <2>3 DEF CalledFor
  <2>6. MakesMessage(memory, a)
    BY <2>3, <2>4, <2>5 DEF Made
  <2>7. Len(memory.frames) = 1
    BY <1>2, <1>9 DEF InFrames
  <2>8. Len(memory.operand["agent"]) + 1 = Heights(a.klass)[memory.frames[1].ip]
    <3>1. memory.frames[1].klass = a.klass /\ a.klass \in Klasses
      BY <2>3, <2>4, <2>5, <2>6 DEF MakesMessage, Fits
    <3>2. /\ HeightAt(memory, 1) = Heights(a.klass)[memory.frames[1].ip]
          /\ HeightAt(memory, 2) = 0
      BY <2>7, <3>1 DEF HeightAt, Height
    <3>3. Heights(a.klass)[memory.frames[1].ip] \in Nat
      <4>1. IsFrame(memory, memory.frames[1])
        <5>1. 1 \in DOMAIN memory.frames
          BY <1>2, <2>7, SeqLength DEF Sound, CtorFrames
        <5> QED
          BY <1>2, <5>1 DEF Sound, CtorFrames
      <4> QED
        BY <3>1, <4>1, CtorSteps DEF IsFrame
    <3> QED
      BY <1>2, <1>9, <3>2, <3>3 DEF InFrames
  <2> HIDE DEF a
  <2>9. a.cells[1] \in DOMAIN memory.cells /\ InCell(t, a.cells[1]) = InCell(memory, a.cells[1])
    <3>1. 1 \in DOMAIN a.cells /\ a.cells[1] \in Nat \ {0}
      BY <2>3, <2>4, FitsCells, FitsSeq DEF a
    <3>2. a.cells[1] \in DOMAIN memory.cells
      <4>1. Len(stack) - 1 \in DOMAIN stack /\ stack[Len(stack) - 1] = a
        BY <2>2, CallerIs DEF a, Caller
      <4>2. Sound(memory) /\ Chain(stack) /\ Balanced(memory, stack, returned)
        BY DEF IInv
      <4> QED
        BY <3>1, <4>1, <4>2, HeldThere
    <3>3. a.cells[1] \in DOMAIN t.cells
      <4>1. Len(stack) - 1 \in DOMAIN stack' /\ stack'[Len(stack) - 1] = a
        BY <1>1, <2>3, InStack DEF a, Caller
      <4> QED
        BY <1>1, <3>1, <4>1, HeldAfter
    <3> QED
      BY <3>2, <3>3 DEF KeepsCells, InCell
  <2>10. Made(t, a)
    <3> DEFINE ip == memory.frames[1].ip
               self == InCell(memory, a.cells[1])
    <3>1. \A n \in DOMAIN memory.operand["agent"] :
            Holds(memory, memory.operand["agent"][n].ptr.obj, Contents(a.klass)[ip][n], self)
      BY <2>6 DEF MakesMessage
    <3>2. ASSUME NEW id, NEW content, Holds(memory, id, content, self)
          PROVE  Holds(t, id, content, self)
      BY <3>2, SameObjects DEF Holds
    <3>3. Holds(t, ptr.obj, Text(Top.texts), self)
      BY <1>6 DEF Holds, Text
    <3>4. AnItem(ptr, AString).ptr = ptr
      BY DEF AnItem
    <3> HIDE DEF self, Top
    <3>5. ASSUME NEW n \in DOMAIN t.operand["agent"]
          PROVE  Holds(t, t.operand["agent"][n].ptr.obj, Contents(a.klass)[ip][n], self)
      <4>1. CASE n \in DOMAIN memory.operand["agent"]
        BY <1>0, <1>4, <2>1, <3>1, <3>2, <4>1
      <4>2. CASE n = Len(memory.operand["agent"]) + 1
        <5>1. t.operand["agent"][n] = AnItem(ptr, AString) /\ n = Heights(a.klass)[ip]
          BY <1>0, <2>1, <2>8, <4>2
        <5>2. Contents(a.klass)[ip][n] = Text(Top.texts)
          BY <2>5, <5>1 DEF a
        <5> QED
          BY <3>3, <3>4, <5>1, <5>2
      <4> QED
        BY <1>5, <2>1, <4>1, <4>2
    <3>6. MakesMessage(t, a)
      <4>1. /\ t.frames = memory.frames /\ t.heap = memory.heap
            /\ InCell(t, a.cells[1]) = self
        BY <2>9 DEF self
      <4>2. \A n \in 1 .. Len(Texts[a.klass]) :
              IsText(t, memory.frames[1].slots[n + 1].obj, <<Texts[a.klass][n]>>)
        BY <2>6, SameObjects DEF MakesMessage
      <4>3. IsOf(t, self, a.klass) /\ Lacks(t, self, "name") /\ Lacks(t, self, "trace")
            /\ Lacks(t, self, "message")
        BY <2>5, <2>6, SameObjects DEF MakesMessage, self, a
      <4>4. memory.frames[1].klass = a.klass /\ memory.frames[1].slots[1].obj = self
        BY <2>6 DEF MakesMessage, self
      <4>5. memory.frames[1].ip # Finish(a.klass)
        BY <2>5 DEF a
      <4> QED
        BY <3>5, <4>1, <4>2, <4>3, <4>4, <4>5 DEF MakesMessage
    <3> QED
      BY <2>4, <2>5, <3>6 DEF Made, TextFunctions, a
  <2>11. GivenFor(t, a, Nowhere)
    BY <2>4, <2>7 DEF GivenFor, TakesHandle, a
  <2>12. ASSUME NEW d \in DOMAIN Front(stack), d # Len(stack) - 1 PROVE ~ RunsCtor(stack[d])
    <3>1. SUFFICES ASSUME RunsCtor(stack[d]) PROVE FALSE
      OBVIOUS
    <3> DEFINE S == Front(stack)
    <3>2. /\ Chain(S) /\ d \in DOMAIN S /\ Len(S) = Len(stack) - 1 /\ S[d] = stack[d]
          /\ IsSeq(S)
      BY InStack, ChainFront
    <3>3. Last(S) = a
      <4>1. S # <<>>
        BY <2>12, <3>2
      <4>2. Last(S) = S[Len(S)]
        BY <3>2, <4>1, FrontSeq
      <4> QED
        BY <2>3, <3>2, <4>2, InStack DEF a, Caller
    <3> HIDE DEF S
    <3>4. Last(S).depth = 1
      BY <2>12, <3>1, <3>2, RunsBelow
    <3> QED
      BY <2>4, <3>3, <3>4 DEF a
  <2>13. \A d \in DOMAIN Front(stack) :
           \/ RunsCtor(stack[d]) => t.operand["agent"] = memory.operand["agent"]
           \/ Made(t, stack[d])
    BY <2>10, <2>12 DEF a, Caller
  <2>14. Data(memory', stack', returned')
    <3>1. GivenFor(t, stack[Len(stack) - 1], Nowhere)
      BY <2>11 DEF a, Caller
    <3> QED
      BY <1>1, <1>3, <2>1, <2>13, <3>1, DataOfReturn
  <2> QED
    BY <1>1, <2>14 DEF DInv
<1> QED
  BY <1>7, <1>8, <1>9

LEMMA EndLoadMeant ==
  ASSUME IInv, DInv, EndLoad
  PROVE  DInv'
<1>1. /\ stack # <<>> /\ Top.fn \in {"ldstr", "tostr"} /\ Top.at = 2
  BY DEF EndLoad, Reached
<1>2. /\ IInv' /\ Sound(memory) /\ Fits(Top) /\ GivenFor(memory, Top, returned)
      /\ Top.on \in Processors
  <2>1. Fits(Top)
    BY <1>1, AtTop
  <2> QED
    BY <1>1, <2>1, EndLoadKeeps, AtTop, TopData DEF Fits, Processors
<1>3. CASE Top.fn = "ldstr"
  <2> DEFINE t == PushedRoot(memory, Top.on, returned.ptr, AString)
  <2>1. Returns(t, Nowhere)
    BY <1>3 DEF EndLoad, Reached
  <2>2. Live(memory, returned.ptr)
    BY <1>1, <1>3, AtTop DEF TakesRaw
  <2>3. IsText(memory, returned.ptr.obj, Top.texts)
    BY <1>1, <1>2, <1>3 DEF GivenFor
  <2>4. /\ t.heap = memory.heap /\ t.cells = memory.cells /\ t.frames = memory.frames
        /\ OneMoreOn(memory, t, Top.on, AnItem(returned.ptr, AString))
    BY <1>2, <2>2, PushedOneMore
  <2>5. KeepsCells(memory, t)
    BY <2>4 DEF KeepsCells
  <2> HIDE DEF t
  <2> QED
    BY <1>1, <1>2, <2>1, <2>3, <2>4, <2>5, LoadedMeant
<1>4. CASE Top.fn = "tostr"
  <2> DEFINE ptr == memory.cells[returned.cell].ins
             m == PushedRoot(memory, Top.on, ptr, AString)
             t == Destroyed(m, <<returned.cell>>)
  <2>1. Returns(t, Nowhere)
    BY <1>4 DEF EndLoad, Reached
  <2>2. Live(memory, ptr)
    BY <1>1, <1>4, AtTop DEF TakesRaw, TakesHandle
  <2>3. IsText(memory, ptr.obj, Top.texts)
    <3>1. IsText(memory, InCell(memory, returned.cell), Wanted(Top))
      BY <1>1, <1>2, <1>4 DEF GivenFor, TakesHandle
    <3>2. Wanted(Top) = Top.texts
      BY <1>4 DEF Wanted
    <3> QED
      BY <3>1, <3>2 DEF InCell
  <2> HIDE DEF ptr
  <2>4. /\ m.heap = memory.heap /\ m.cells = memory.cells /\ m.frames = memory.frames /\ Sound(m)
        /\ OneMoreOn(memory, m, Top.on, AnItem(ptr, AString))
    BY <1>2, <2>2, PushedOneMore
  <2> HIDE DEF m
  <2>5. /\ t.heap = m.heap /\ t.operand = m.operand /\ t.frames = m.frames
        /\ \A c \in DOMAIN t.cells : t.cells[c].ins = m.cells[c].ins
    BY <2>4, OneSeq, DestroyedSound
  <2> HIDE DEF t
  <2>6. KeepsCells(memory, t)
    BY <2>4, <2>5 DEF KeepsCells
  <2>7. OneMoreOn(memory, t, Top.on, AnItem(ptr, AString))
    BY <2>4, <2>5 DEF OneMoreOn
  <2> QED
    BY <1>1, <1>2, <2>1, <2>3, <2>4, <2>5, <2>6, <2>7, LoadedMeant
<1> QED
  BY <1>1, <1>3, <1>4

-----------------------------------------------------------------------------
(***************************************************************************)
(* Objects are created.                                                    *)
(***************************************************************************)
LEMMA CallDataIn ==
  ASSUME IInv, IInv', DInv, stack # <<>>, NEW m, SameMemory(m), Data(m, stack, returned),
         NEW t, NEW field, Carries(m, t, field),
         NEW f, NEW g, Goes(t, f, <<g>>), f.fn = Top.fn,
         f.texts = Top.texts, f.klass = Top.klass,
         f.args = Top.args \/ f.fn # "createUnprotectedInstance",
         Made(t, f), CalledFor(t, f, g), Made(t, g), GivenFor(t, g, Nowhere)
  PROVE  DInv'
<1>1. \A h : <<g>> = <<h>> => h = g
  OBVIOUS
<1>2. <<g>> # <<>>
  OBVIOUS
<1>4. \A h : <<g>> = <<h>> => CalledFor(t, f, h) /\ Made(t, h) /\ GivenFor(t, h, Nowhere)
  BY <1>1
<1>5. \E h : <<g>> = <<h>>
  OBVIOUS
<1>6. Data(memory', stack', returned')
  BY <1>2, <1>4, <1>5, DataOfStep
<1> QED
  BY <1>6 DEF Goes, DInv

LEMMA StepDataIn ==
  ASSUME IInv, IInv', DInv, stack # <<>>, NEW m, SameMemory(m), Data(m, stack, returned),
         NEW t, NEW field, Carries(m, t, field),
         NEW f, Goes(t, f, <<>>), Len(stack) # 1 => f.fn = Top.fn,
         f.texts = Top.texts, f.klass = Top.klass,
         f.args = Top.args \/ f.fn # "createUnprotectedInstance",
         Made(t, f), GivenFor(t, f, Nowhere)
  PROVE  DInv'
<1>1. \A h : <<>> # <<h>>
  OBVIOUS
<1>3. Data(memory', stack', returned')
  BY <1>1, DataOfStep
<1> QED
  BY <1>3 DEF Goes, DInv

\* The objects there were stay as they are when one is created.
LEMMA CarriesGrown ==
  ASSUME NEW m, Sound(m), NEW t, Grows(m, t), KeepsCells(m, t),
         t.operand["main"] = m.operand["main"],
         Top.depth = 1 => t.frames[1] = m.frames[1] /\ t.operand["agent"] = m.operand["agent"]
  PROVE  Carries(m, t, "")
<1>1. Follows(m, t, DOMAIN m.heap, "")
  BY GrownFollows
<1>2. "" \notin {"message", "name", "trace"}
  OBVIOUS
<1> QED
  BY <1>1, <1>2 DEF Carries

LEMMA BeginStringMeant ==
  ASSUME IInv, DInv, BeginString
  PROVE  DInv'
<1>1. /\ stack # <<>> /\ Top.fn = "createUnprotectedString" /\ Top.at = 1
  BY DEF BeginString, Reached
<1>2. PICK room \in Room(memory) :
       LET cell == NextCell(room)
           array == Created(room, "Rune[]", [n \in {} |-> 0], Top.texts)
           m == MakeProtectedCell(array, Ptr(NextId(room)))
       IN Goes(Copied(m, <<cell>>), [Top EXCEPT !.at = 2, !.cells = <<cell>>],
               <<CallInstance("createUnprotectedInstance", "String", <<cell>>)>>)
  BY DEF BeginString
<1> DEFINE refs == [n \in {} |-> 0]
           id == NextId(room)
           cell == NextCell(room)
           m == MakeProtectedCell(Created(room, "Rune[]", refs, Top.texts), Ptr(id))
           t == Copied(m, <<cell>>)
           f == Now(Top, 2, <<cell>>, Top.args)
           g == CallInstance("createUnprotectedInstance", "String", <<cell>>)
<1>3. IInv' /\ Fits(Top) /\ Sound(memory) /\ Made(memory, Top)
  BY <1>1, BeginStringKeeps, AtTop, TopData
<1>4. Goes(t, f, <<g>>)
  BY <1>2, <1>3, ActivationNow
<1>5. Data(room, stack, returned) /\ SameMemory(room)
  <2>1. ~ TakesRaw(Top) /\ ~ TakesHandle(Top)
    BY <1>1 DEF TakesRaw, TakesHandle
  <2> QED
    BY <1>1, <2>1, RoomData DEF DInv
<1>6. /\ Sound(m) /\ m.operand = memory.operand /\ m.frames = memory.frames
      /\ cell \in Nat \ {0} /\ cell \in DOMAIN m.cells
      /\ cell \notin DOMAIN memory.cells
      /\ \A c \in DOMAIN memory.cells : c \in DOMAIN m.cells /\ m.cells[c] = memory.cells[c]
      /\ m.cells[cell].ins = Ptr(id)
      /\ id \in DOMAIN m.heap /\ DOMAIN room.heap \subseteq DOMAIN m.heap
      /\ m.heap[id] = AnObject("Rune[]", refs, Top.texts)
      /\ \A i \in DOMAIN room.heap : m.heap[i] = room.heap[i]
  <2>1. \A n \in DOMAIN refs : refs[n] = 0
    OBVIOUS
  <2> DEFINE text == Top.texts
             klass == "Rune[]"
  <2> HIDE DEF refs, text, klass
  <2>2. /\ Sound(m) /\ m.operand = memory.operand /\ m.frames = memory.frames
        /\ cell \in Nat \ {0} /\ cell \in DOMAIN m.cells
        /\ cell \notin DOMAIN memory.cells /\ DOMAIN memory.cells \subseteq DOMAIN m.cells
        /\ \A c \in DOMAIN memory.cells : m.cells[c] = memory.cells[c]
        /\ m.cells[cell].ins = Ptr(id)
        /\ id \in DOMAIN m.heap /\ DOMAIN room.heap \subseteq DOMAIN m.heap
        /\ m.heap[id] = AnObject(klass, refs, text)
        /\ \A i \in DOMAIN room.heap : m.heap[i] = room.heap[i]
    BY <1>3, <2>1, NewInCellIs DEF klass, text
  <2> HIDE DEF m
  <2> QED
    BY <2>2 DEF klass, text
<1> HIDE DEF m
<1>7. /\ t.heap = m.heap /\ t.operand = m.operand /\ t.frames = m.frames
      /\ DOMAIN t.cells = DOMAIN m.cells
      /\ \A c \in DOMAIN m.cells : t.cells[c].ins = m.cells[c].ins
  BY <1>6, OneSeq, CopiedSound
<1> HIDE DEF t
<1>8. Carries(room, t, "")
  <2>1. /\ Sound(room) /\ room.operand = memory.operand /\ room.frames = memory.frames
        /\ room.cells = memory.cells
    BY <1>5 DEF SameMemory
  <2>2. Grows(room, t)
    BY <1>6, <1>7 DEF Grows
  <2>3. KeepsCells(room, t)
    BY <1>6, <1>7, <2>1 DEF KeepsCells
  <2> QED
    BY <1>6, <1>7, <2>1, <2>2, <2>3, CarriesGrown
<1>9. /\ f.fn = Top.fn /\ f.klass = Top.klass /\ f.texts = Top.texts /\ f.at = 2
      /\ f.args = Top.args /\ f.cells = <<cell>>
  <2> HIDE DEF Top
  <2> QED
    BY NowIs, NowTexts
<1>10. /\ g.fn = "createUnprotectedInstance" /\ g.klass = "String" /\ g.at = 1
       /\ g.cells = <<>> /\ g.args = <<cell>>
  BY InstanceCalled
<1> HIDE DEF f, g
<1>11. IsArray(t, InCell(t, cell), Top.texts)
  <2>1. InCell(t, cell) = id
    BY <1>6, <1>7 DEF InCell, Ptr
  <2> QED
    BY <1>6, <1>7, <2>1 DEF IsArray, AnObject
<1>12. Made(t, f)
  <2>1. Top.texts = <<Top.texts[1]>>
    BY <1>1, <1>3 DEF Made, TextFunctions
  <2> HIDE DEF cell
  <2> QED
    BY <1>1, <1>9, <1>11, <2>1 DEF Made, TextFunctions
<1>13. Made(t, g)
  <2>1. g.args[1] # 0
    BY <1>6, <1>10
  <2> QED
    BY <1>10, <2>1 DEF Made, MakesString, TextFunctions
<1>14. CalledFor(t, f, g) /\ GivenFor(t, g, Nowhere)
  BY <1>1, <1>9, <1>10 DEF CalledFor, GivenFor, TakesHandle, RunsCtor
<1> QED
  BY <1>1, <1>3, <1>4, <1>5, <1>8, <1>9, <1>12, <1>13, <1>14, CallDataIn

ValuesAt(m, t, args) ==
  \A n \in DOMAIN args : t.operand["agent"][Len(m.operand["agent"]) + n] = Value(m, args[n])

LEMMA ValuesPushed ==
  ASSUME NEW m, Sound(m), NEW args, IsSeq(args),
         \A n \in DOMAIN args : args[n] = 0 \/ args[n] \in DOMAIN m.cells
  PROVE  ValuesAt(m, PushedValues(m, args), args)
<1>1. \A n \in DOMAIN args :
        PushedValues(m, args).operand["agent"][Len(m.operand["agent"]) + n] = Value(m, args[n])
  BY PushedValuesSound
<1> QED
  BY <1>1 DEF ValuesAt

\* The constructor finds its object and its arguments.
CtorStarts(m, cell, klass, args, t) ==
  LET d == Len(m.frames)
  IN /\ t.heap = m.heap /\ t.cells = m.cells /\ t.operand["main"] = m.operand["main"]
     /\ t.operand["agent"] = m.operand["agent"]
     /\ Len(t.frames) = d + 1 /\ t.frames[d + 1].klass = klass /\ t.frames[d + 1].ip = 1
     /\ \A k \in 1 .. d : t.frames[k] = m.frames[k]
     /\ t.frames[d + 1].slots[1] = m.cells[cell].ins
     /\ \A n \in 1 .. Arity(klass) : t.frames[d + 1].slots[n + 1] = Value(m, args[n]).ptr

LEMMA CtorBegins ==
  ASSUME NEW m, Sound(m), NEW cell \in DOMAIN m.cells, NEW klass \in Constructed,
         NEW args, IsSeq(args), Len(args) = Arity(klass),
         \A n \in DOMAIN args : args[n] = 0 \/ args[n] \in DOMAIN m.cells
  PROVE  CtorStarts(m, cell, klass, args,
                    InvokeCtor(PushParameters(PushedRoot(m, "agent", m.cells[cell].ins, Nothing),
                                              args), klass))
<1> DEFINE ptr == m.cells[cell].ins
           object == PushedRoot(m, "agent", ptr, Nothing)
           pushed == PushParameters(object, args)
           t == InvokeCtor(pushed, klass)
           d == Len(m.frames)
           h == Len(m.operand["agent"])
           a == Arity(klass)
<1>1. Live(m, ptr)
  BY DEF Sound, Cells, IsCell
<1>2. IsSeq(m.operand["agent"]) /\ h \in Nat /\ a \in Nat /\ d \in Nat
  <2>1. IsSeq(m.operand["agent"]) /\ IsSeq(m.frames)
    BY DEF Sound, Operands, Processors, CtorFrames
  <2> QED
    BY <2>1, SeqLength, CtorSteps
<1>3. /\ Sound(object) /\ object.heap = m.heap /\ object.cells = m.cells
      /\ object.frames = m.frames
      /\ Len(object.operand["agent"]) = h + 1
      /\ \A n \in 1 .. h : object.operand["agent"][n] = m.operand["agent"][n]
      /\ object.operand["agent"][h + 1] = AnItem(ptr, Nothing)
      /\ object.operand["main"] = m.operand["main"]
  <2> HIDE DEF ptr
  <2> QED
    BY <1>1, PushedRootIs DEF Processors
<1> HIDE DEF object
<1>4. /\ Sound(pushed) /\ pushed.heap = m.heap /\ pushed.cells = m.cells
      /\ pushed.frames = m.frames
      /\ Len(pushed.operand["agent"]) = h + 1 + a
      /\ \A n \in 1 .. h + 1 : pushed.operand["agent"][n] = object.operand["agent"][n]
      /\ \A n \in 1 .. a : pushed.operand["agent"][h + 1 + (a - n + 1)] = Value(object, args[n])
      /\ pushed.operand["main"] = m.operand["main"]
  <2> DEFINE last == Reverse(args)
  <2>1. a \in Nat /\ DOMAIN args = 1 .. a /\ Len(args) = a
    BY <1>2, SeqLength
  <2>2. DOMAIN last = 1 .. Len(args) /\ last = [n \in 1 .. Len(args) |-> last[n]]
        /\ \A n \in 1 .. Len(args) : last[n] = args[(Len(args) - n) + 1]
    BY DEF Reverse
  <2> HIDE DEF last, a
  <2>3. IsSeq(last) /\ Len(last) = a
    BY <2>1, <2>2, FunctionSeq
  <2>4. \A n \in 1 .. a : a - n + 1 \in 1 .. a /\ (a - (a - n + 1)) + 1 = n
    BY <2>1
  <2>5. \A n \in DOMAIN last : last[n] = 0 \/ last[n] \in DOMAIN object.cells
    BY <1>3, <2>1, <2>2, <2>4
  <2>6. pushed = PushedValues(object, last)
    BY DEF PushParameters, last
  <2> HIDE DEF pushed
  <2>7. /\ Sound(pushed) /\ pushed.heap = object.heap /\ pushed.cells = object.cells
        /\ pushed.frames = object.frames
        /\ Len(pushed.operand["agent"]) = Len(object.operand["agent"]) + Len(last)
        /\ \A n \in 1 .. Len(object.operand["agent"]) :
             pushed.operand["agent"][n] = object.operand["agent"][n]
        /\ \A n \in DOMAIN last :
             pushed.operand["agent"][Len(object.operand["agent"]) + n] = Value(object, last[n])
        /\ pushed.operand["main"] = object.operand["main"]
    <3> DEFINE w == PushedValues(object, last)
    <3>1. /\ Sound(w) /\ w.heap = object.heap /\ w.cells = object.cells
          /\ w.frames = object.frames
          /\ Len(w.operand["agent"]) = Len(object.operand["agent"]) + Len(last)
          /\ \A n \in 1 .. Len(object.operand["agent"]) :
               w.operand["agent"][n] = object.operand["agent"][n]
      BY <1>3, <2>3, <2>5, PushedValuesSound
    <3>2. ValuesAt(object, w, last)
      BY <1>3, <2>3, <2>5, ValuesPushed
    <3>3. w.operand["main"] = object.operand["main"]
      BY <1>3, <2>3, <2>5, PushedValuesSound
    <3> HIDE DEF w
    <3> QED
      BY <2>6, <3>1, <3>2, <3>3 DEF w, ValuesAt
  <2>8. ASSUME NEW n \in 1 .. a
        PROVE  pushed.operand["agent"][h + 1 + (a - n + 1)] = Value(object, args[n])
    <3>1. a - n + 1 \in DOMAIN last /\ last[a - n + 1] = args[n]
      <4>1. a - n + 1 \in 1 .. Len(args)
        BY <2>1, <2>4
      <4>2. last[a - n + 1] = args[(Len(args) - (a - n + 1)) + 1]
        BY <2>2, <4>1
      <4> QED
        BY <2>1, <2>2, <2>4, <4>1, <4>2
    <3> QED
      BY <1>3, <2>7, <3>1
  <2> QED
    BY <1>3, <2>3, <2>7, <2>8
<1> HIDE DEF pushed
<1>5. Len(pushed.operand["agent"]) >= a + 1 /\ Len(pushed.operand["agent"]) - (a + 1) = h
  <2> HIDE DEF a, h
  <2> QED
    BY <1>2, <1>4
<1>6. /\ Sound(t) /\ t.heap = m.heap /\ t.cells = m.cells
      /\ t.operand["main"] = m.operand["main"]
      /\ Len(t.operand["agent"]) = h
      /\ Len(t.frames) = d + 1 /\ t.frames[d + 1].klass = klass /\ t.frames[d + 1].ip = 1
      /\ \A k \in 1 .. d : t.frames[k] = m.frames[k]
      /\ \A n \in 1 .. h : t.operand["agent"][n] = pushed.operand["agent"][n]
      /\ \A n \in 1 .. a + 1 :
           t.frames[d + 1].slots[n] = Operand(pushed, "agent", IF n = 1 THEN a ELSE n - 2).ptr
  <2>1. /\ Sound(t) /\ t.heap = pushed.heap /\ t.cells = pushed.cells
        /\ t.operand["main"] = pushed.operand["main"]
        /\ Len(t.operand["agent"]) = Len(pushed.operand["agent"]) - (a + 1)
        /\ Len(t.frames) = Len(pushed.frames) + 1
        /\ t.frames[Len(pushed.frames) + 1].klass = klass
        /\ t.frames[Len(pushed.frames) + 1].ip = 1
        /\ \A k \in 1 .. Len(pushed.frames) : t.frames[k] = pushed.frames[k]
    BY <1>4, <1>5, InvokeCtorSound
  <2>2. \A n \in 1 .. Len(pushed.operand["agent"]) - (a + 1) :
           t.operand["agent"][n] = pushed.operand["agent"][n]
    BY <1>4, <1>5, InvokeCtorSound
  <2>3. \A n \in 1 .. a + 1 :
           t.frames[Len(pushed.frames) + 1].slots[n]
             = Operand(pushed, "agent", IF n = 1 THEN a ELSE n - 2).ptr
    BY <1>4, <1>5, InvokeCtorSound
  <2> HIDE DEF t
  <2> QED
    BY <1>4, <1>5, <2>1, <2>2, <2>3
<1> HIDE DEF t
<1>7. t.operand["agent"] = m.operand["agent"]
  <2>1. IsSeq(t.operand["agent"])
    BY <1>6 DEF Sound, Operands, Processors
  <2>2. \A n \in 1 .. h : n \in 1 .. h + 1
    BY <1>2
  <2>3. \A n \in 1 .. h : t.operand["agent"][n] = m.operand["agent"][n]
    BY <1>3, <1>4, <1>6, <2>2
  <2> QED
    BY <1>2, <1>6, <2>1, <2>3, SameSeq
<1>8. t.frames[d + 1].slots[1] = ptr
  <2> HIDE DEF ptr, a, h
  <2>1. 1 \in 1 .. a + 1 /\ (h + 1 + a) - a = h + 1 /\ h + 1 \in 1 .. h + 1
    BY <1>2
  <2>2. Operand(pushed, "agent", a) = pushed.operand["agent"][h + 1]
    BY <1>4, <2>1 DEF Operand
  <2>3. Operand(pushed, "agent", a).ptr = ptr
    BY <1>3, <1>4, <2>1, <2>2 DEF AnItem
  <2> QED
    BY <1>6, <2>1, <2>3
<1>9. ASSUME NEW n \in 1 .. a
      PROVE  t.frames[d + 1].slots[n + 1] = Value(m, args[n]).ptr
  <2> HIDE DEF a, h
  <2>1. /\ n + 1 \in 1 .. a + 1 /\ n + 1 # 1 /\ (n + 1) - 2 = n - 1
        /\ (h + 1 + a) - (n - 1) = h + 1 + (a - n + 1)
    BY <1>2
  <2>2. Operand(pushed, "agent", n - 1) = pushed.operand["agent"][h + 1 + (a - n + 1)]
    BY <1>4, <2>1 DEF Operand
  <2>3. Operand(pushed, "agent", n - 1) = Value(object, args[n])
    BY <1>4, <2>2
  <2>4. Value(object, args[n]) = Value(m, args[n])
    BY <1>3 DEF Value
  <2> QED
    BY <1>6, <2>1, <2>3, <2>4
<1> QED
  BY <1>6, <1>7, <1>8, <1>9 DEF t, pushed, object, CtorStarts

\* What is in a cell does not change while something is created.
LEMMA BeginInstanceMeant ==
  ASSUME IInv, DInv, BeginInstance
  PROVE  DInv'
<1>1. /\ stack # <<>> /\ Top.fn = "createUnprotectedInstance" /\ Top.at = 1
  BY DEF BeginInstance, Reached
<1>2. PICK room \in Room(memory) :
       LET refs == IF Top.klass = "String" THEN [sequence |-> 0]
                   ELSE [message |-> 0, name |-> 0, trace |-> 0]
           cell == NextCell(room)
           m == MakeProtectedCell(Created(room, Top.klass, refs, <<>>), Ptr(NextId(room)))
           pushed == PushParameters(PushedRoot(m, "agent", m.cells[cell].ins, Nothing), Top.args)
       IN Goes(InvokeCtor(pushed, Top.klass), [Top EXCEPT !.at = 2, !.cells = <<cell>>], <<>>)
  BY DEF BeginInstance
<1> DEFINE klass == Top.klass
           args == Top.args
           refs == IF klass = "String" THEN [sequence |-> 0]
                   ELSE [message |-> 0, name |-> 0, trace |-> 0]
           id == NextId(room)
           cell == NextCell(room)
           m == MakeProtectedCell(Created(room, klass, refs, <<>>), Ptr(id))
           t == InvokeCtor(PushParameters(PushedRoot(m, "agent", m.cells[cell].ins, Nothing), args),
                           klass)
           f == Now(Top, 2, <<cell>>, args)
           d == Len(memory.frames)
<1>3. IInv' /\ Fits(Top) /\ Sound(memory) /\ InFrames(memory, FALSE, Top.depth)
  <2>1. ~ RunsCtor(Top)
    BY <1>1 DEF RunsCtor
  <2>2. IInv' /\ Fits(Top) /\ Sound(memory) /\ InFrames(memory, RunsCtor(Top), Top.depth)
    BY <1>1, BeginInstanceKeeps, AtTop
  <2> HIDE DEF Top
  <2> QED
    BY <2>1, <2>2 DEF InFrames
<1>4. Goes(t, f, <<>>)
  <2>1. [Top EXCEPT !.at = 2, !.cells = <<cell>>] = Now(Top, 2, <<cell>>, Top.args)
    <3> HIDE DEF Top, cell
    <3> QED
      BY <1>3, ActivationNow
  <2> QED
    BY <1>2, <2>1
<1>5. Data(room, stack, returned) /\ SameMemory(room) /\ Made(room, Top)
  <2>1. ~ TakesRaw(Top) /\ ~ TakesHandle(Top)
    BY <1>1 DEF TakesRaw, TakesHandle
  <2>2. Data(room, stack, returned) /\ SameMemory(room)
    BY <1>1, <2>1, RoomData DEF DInv
  <2> QED
    BY <1>1, <2>2, InStack DEF Data
<1>6. /\ Sound(room) /\ room.operand = memory.operand /\ room.frames = memory.frames
      /\ room.cells = memory.cells
  BY <1>5 DEF SameMemory
<1>7. /\ klass \in Klasses \cup {"String"} /\ klass \in Constructed
      /\ Len(args) = Arity(klass) /\ (Top.depth = 1 => klass = "String")
      /\ IsSeq(args) /\ DOMAIN args = 1 .. Len(args)
      /\ Len(memory.frames) = Top.depth /\ Top.depth \in 0 .. 1
  <2>1. klass \in Klasses \cup {"String"} /\ klass \in Constructed
        /\ Len(args) = Arity(klass) /\ (Top.depth = 1 => klass = "String")
    BY <1>1, <1>3 DEF Fits, Constructed
  <2>2. Len(memory.frames) = Top.depth
    BY <1>3 DEF InFrames
  <2> QED
    BY <1>3, <2>1, <2>2, FitsSeq
<1>8. \A n \in DOMAIN args : args[n] = 0 \/ args[n] \in DOMAIN memory.cells
  <2>1. \A n \in DOMAIN args : args[n] \in Nat
    BY <1>3, FitsSeq
  <2> QED
    BY <1>1, <2>1, HandleThere
<1> HIDE DEF klass, args
<1>9. /\ Sound(m) /\ m.operand = memory.operand /\ m.frames = memory.frames
      /\ cell \in Nat \ {0} /\ cell \in DOMAIN m.cells
      /\ cell \notin DOMAIN memory.cells
      /\ \A c \in DOMAIN memory.cells : c \in DOMAIN m.cells /\ m.cells[c] = memory.cells[c]
      /\ m.cells[cell].ins = Ptr(id)
      /\ id \in DOMAIN m.heap /\ DOMAIN room.heap \subseteq DOMAIN m.heap
      /\ m.heap[id] = AnObject(klass, refs, <<>>)
      /\ \A i \in DOMAIN room.heap : m.heap[i] = room.heap[i]
  <2>1. \A n \in DOMAIN refs : refs[n] = 0
    OBVIOUS
  <2> DEFINE text == <<>>
  <2> HIDE DEF refs, text
  <2>2. /\ Sound(m) /\ m.operand = memory.operand /\ m.frames = memory.frames
        /\ cell \in Nat \ {0} /\ cell \in DOMAIN m.cells
        /\ cell \notin DOMAIN memory.cells /\ DOMAIN memory.cells \subseteq DOMAIN m.cells
        /\ \A c \in DOMAIN memory.cells : m.cells[c] = memory.cells[c]
        /\ m.cells[cell].ins = Ptr(id)
        /\ id \in DOMAIN m.heap /\ DOMAIN room.heap \subseteq DOMAIN m.heap
        /\ m.heap[id] = AnObject(klass, refs, text)
        /\ \A i \in DOMAIN room.heap : m.heap[i] = room.heap[i]
    BY <1>3, <2>1, NewInCellIs DEF text
  <2> HIDE DEF m
  <2> QED
    BY <2>2 DEF text
<1> HIDE DEF m
<1>10. /\ t.heap = m.heap /\ t.cells = m.cells /\ t.operand["main"] = m.operand["main"]
       /\ t.operand["agent"] = m.operand["agent"]
       /\ Len(t.frames) = d + 1 /\ t.frames[d + 1].klass = klass /\ t.frames[d + 1].ip = 1
       /\ \A k \in 1 .. d : t.frames[k] = memory.frames[k]
       /\ t.frames[d + 1].slots[1] = m.cells[cell].ins
       /\ \A n \in 1 .. Arity(klass) : t.frames[d + 1].slots[n + 1] = Value(m, args[n]).ptr
  <2>1. \A n \in DOMAIN args : args[n] = 0 \/ args[n] \in DOMAIN m.cells
    BY <1>8, <1>9
  <2>2. d = Len(m.frames)
    BY <1>9
  <2>3. /\ t.heap = m.heap /\ t.cells = m.cells /\ t.operand["main"] = m.operand["main"]
        /\ t.operand["agent"] = m.operand["agent"]
        /\ Len(t.frames) = Len(m.frames) + 1 /\ t.frames[Len(m.frames) + 1].klass = klass
        /\ t.frames[Len(m.frames) + 1].ip = 1
        /\ \A k \in 1 .. Len(m.frames) : t.frames[k] = m.frames[k]
        /\ t.frames[Len(m.frames) + 1].slots[1] = m.cells[cell].ins
        /\ \A n \in 1 .. Arity(klass) :
             t.frames[Len(m.frames) + 1].slots[n + 1] = Value(m, args[n]).ptr
    <3> HIDE DEF cell
    <3>1. CtorStarts(m, cell, klass, args, t)
      BY <1>7, <1>9, <2>1, CtorBegins
    <3> HIDE DEF t
    <3> QED
      BY <3>1 DEF CtorStarts
  <2> HIDE DEF t
  <2> QED
    BY <1>9, <2>2, <2>3
<1> HIDE DEF t
<1>11. Grows(room, t) /\ Carries(room, t, "")
  <2>1. Grows(room, t)
    BY <1>9, <1>10 DEF Grows
  <2>2. KeepsCells(room, t)
    BY <1>6, <1>9, <1>10 DEF KeepsCells
  <2>3. Top.depth = 1 => t.frames[1] = room.frames[1] /\ t.operand["agent"] = room.operand["agent"]
    BY <1>6, <1>7, <1>9, <1>10
  <2> QED
    BY <1>6, <1>9, <1>10, <2>1, <2>2, <2>3, CarriesGrown
<1>12. /\ f.fn = Top.fn /\ f.klass = klass /\ f.texts = Top.texts /\ f.at = 2
       /\ f.args = args /\ f.cells = <<cell>> /\ f.depth = Top.depth
  <2> HIDE DEF Top
  <2> QED
    BY NowIs, NowTexts DEF klass
<1> HIDE DEF f
<1>13. /\ InCell(t, cell) = id /\ id \in DOMAIN t.heap /\ t.heap[id].klass = klass
       /\ t.heap[id].refs = refs /\ t.frames[d + 1].slots[1].obj = id
  <2>1. Ptr(id).obj = id
    BY DEF Ptr
  <2>2. m.heap[id].klass = klass /\ m.heap[id].refs = refs
    <3> HIDE DEF refs
    <3> QED
      BY <1>9 DEF AnObject
  <2> QED
    BY <1>9, <1>10, <2>1, <2>2 DEF InCell
<1>14. ASSUME NEW n \in 1 .. Arity(klass), args[n] # 0
       PROVE  /\ t.frames[d + 1].slots[n + 1].obj = InCell(t, args[n])
              /\ InCell(t, args[n]) = InCell(room, args[n])
  <2>1. args[n] \in DOMAIN memory.cells
    BY <1>7, <1>8, <1>14
  <2>2. Value(m, args[n]).ptr = m.cells[args[n]].ins
    BY <1>14 DEF Value
  <2> QED
    BY <1>6, <1>9, <1>10, <2>1, <2>2 DEF InCell
<1> HIDE DEF id, cell
<1>15. CASE klass = "String"
  <2>1. MakesString(room, Top)
    BY <1>1, <1>5, <1>15 DEF Made, klass
  <2>2. args[1] # 0 /\ 1 \in 1 .. Arity(klass)
    BY <1>15, <2>1 DEF MakesString, Arity, args
  <2>3. t.frames[d + 1].slots[2].obj = InCell(t, args[1])
    BY <1>14, <2>2
  <2>4. HasField(t, id, "sequence") /\ Lacks(t, id, "sequence")
    BY <1>13, <1>15 DEF HasField, Lacks, Unset
  <2>5. f.cells[1] = cell
    BY <1>12
  <2>6. MakesString(t, f)
    BY <1>7, <1>10, <1>12, <1>13, <1>15, <2>2, <2>3, <2>4, <2>5 DEF MakesString
  <2>7. Made(t, f)
    BY <1>1, <1>12, <1>15, <2>6 DEF Made, TextFunctions
  <2>8. GivenFor(t, f, Nowhere)
    BY <1>1, <1>12, <1>15 DEF GivenFor, TakesHandle
  <2> QED
    BY <1>1, <1>3, <1>4, <1>5, <1>11, <1>12, <2>7, <2>8, StepDataIn DEF klass, args
<1>16. CASE klass # "String"
  <2>1. HasArgs(room, Top) /\ klass \in Klasses /\ d = 0 /\ Top.depth = 0
    BY <1>1, <1>5, <1>7, <1>16 DEF Made, klass
  <2>2. ASSUME NEW n \in 1 .. Len(Texts[klass])
        PROVE  IsText(t, t.frames[1].slots[n + 1].obj, <<Texts[klass][n]>>)
    <3>1. args[n] # 0 /\ IsText(room, InCell(room, args[n]), <<Texts[klass][n]>>)
      BY <2>1 DEF HasArgs, klass, args
    <3>2. n \in 1 .. Arity(klass)
      <4>1. Len(Texts[klass]) \in Nat /\ Arity(klass) \in Nat /\ Len(Texts[klass]) <= Arity(klass)
        BY <2>1, FitsTexts DEF klass
      <4> QED
        BY <4>1
    <3> DEFINE string == InCell(room, args[n])
               text == <<Texts[klass][n]>>
    <3>3. t.frames[1].slots[n + 1].obj = string
      BY <1>14, <2>1, <3>1, <3>2
    <3>4. IsText(room, string, text)
      BY <3>1
    <3> HIDE DEF string, text
    <3>5. string \in DOMAIN room.heap
      BY <3>4 DEF IsText, HasField
    <3>6. Follows(room, t, DOMAIN room.heap, "")
      BY <1>6, <1>11, GrownFollows
    <3>7. IsText(t, string, text)
      BY <1>6, <3>4, <3>5, <3>6, FactsStay
    <3> QED
      BY <3>3, <3>7 DEF text
  <2>3. /\ IsOf(t, id, klass) /\ Lacks(t, id, "name") /\ Lacks(t, id, "trace")
        /\ Lacks(t, id, "message")
    BY <1>13, <1>16 DEF IsOf, HasField, Lacks, Unset
  <2>4. DOMAIN t.operand["agent"] = {}
    <3>1. Len(memory.operand["agent"]) + 0 = HeightAt(memory, 1) + HeightAt(memory, 2)
      BY <1>3, <2>1 DEF InFrames
    <3>2. HeightAt(memory, 1) = 0 /\ HeightAt(memory, 2) = 0
      BY <2>1 DEF HeightAt
    <3>3. IsSeq(memory.operand["agent"])
      BY <1>3 DEF Sound, Operands, Processors
    <3>4. DOMAIN memory.operand["agent"] = 1 .. Len(memory.operand["agent"])
          /\ Len(memory.operand["agent"]) \in Nat
      BY <3>3, SeqLength
    <3>5. Len(memory.operand["agent"]) = 0
      BY <3>1, <3>2, <3>4
    <3> QED
      BY <1>9, <1>10, <3>4, <3>5
  <2>5. Finish(klass) # 1
    <3>1. 1 \in DOMAIN Ctor(klass)
      BY <1>7, CtorSteps
    <3> QED
      BY <2>1, <3>1, RetMoves
  <2>6. f.cells[1] = cell
    BY <1>12
  <2>7. Len(t.frames) = 1 /\ t.frames[1].klass = klass /\ t.frames[1].ip = 1
        /\ t.frames[1].slots[1].obj = id
    BY <1>10, <1>13, <2>1
  <2>8. MakesMessage(t, f)
    BY <1>12, <1>13, <2>2, <2>3, <2>4, <2>5, <2>6, <2>7 DEF MakesMessage
  <2>9. Made(t, f)
    BY <1>1, <1>12, <1>16, <2>8 DEF Made, TextFunctions
  <2>10. GivenFor(t, f, Nowhere)
    BY <1>1, <1>12, <2>7 DEF GivenFor, TakesHandle
  <2> QED
    BY <1>1, <1>3, <1>4, <1>5, <1>11, <1>12, <2>9, <2>10, StepDataIn DEF klass, args
<1> QED
  BY <1>15, <1>16

-----------------------------------------------------------------------------
(***************************************************************************)
(* Instructions of a constructor.                                          *)
(***************************************************************************)
MessageOps == {"ldarg", "ldstr", "tostr", "newarray", "newstring", "base"}

\* What makes a message is the constructor of an exception, in the first frame.
LEMMA MessageRuns ==
  ASSUME IInv, DInv, NEW op \in MessageOps, Executes(op)
  PROVE  /\ stack # <<>> /\ RunsCtor(Top) /\ Fits(Top) /\ Sound(memory)
         /\ Top.klass \in Klasses /\ Top.klass # "String" /\ Top.depth = 0
         /\ Len(memory.frames) = 1 /\ Frame = memory.frames[1] /\ IsFrame(memory, Frame)
         /\ Frame.klass = Top.klass /\ Frame.ip \in DOMAIN Ctor(Top.klass)
         /\ Ctor(Top.klass)[Frame.ip] = Inst /\ Inst.op = op
         /\ MakesMessage(memory, Top)
         /\ IsSeq(memory.operand["agent"])
         /\ Len(memory.operand["agent"]) = Heights(Top.klass)[Frame.ip]
         /\ DOMAIN memory.operand["agent"] = 1 .. Heights(Top.klass)[Frame.ip]
         /\ Heights(Top.klass)[Frame.ip] \in Nat
<1>1. /\ stack # <<>> /\ RunsCtor(Top) /\ Fits(Top) /\ Sound(memory)
      /\ IsFrame(memory, Frame) /\ Behaves(Frame.klass, Frame.ip)
      /\ Ctor(Frame.klass)[Frame.ip].op = op /\ Height(Frame) \in Nat
      /\ Len(memory.frames) = 1 /\ Top.depth = 0 /\ Frame = memory.frames[1]
      /\ Len(memory.operand["agent"]) = Height(Frame)
  BY Executing, OneFrame DEF MessageOps
<1>2. Frame.klass \notin {"String", "Exception"}
  <2> HIDE DEF Frame
  <2> QED
    BY <1>1 DEF Behaves, MessageOps
<1>3. Made(memory, Top) /\ Top.fn = "createUnprotectedInstance" /\ Top.at = 2
  BY <1>1, TopData DEF RunsCtor
<1>4. Top.klass # "String"
  <2>1. SUFFICES ASSUME Top.klass = "String" PROVE FALSE
    OBVIOUS
  <2>2. MakesString(memory, Top)
    BY <1>3, <2>1 DEF Made
  <2>3. memory.frames[Top.depth + 1].klass = "String"
    BY <1>3, <2>2 DEF MakesString
  <2>4. Top.depth + 1 = 1
    BY <1>1
  <2> QED
    BY <1>1, <1>2, <2>3, <2>4
<1>5. MakesMessage(memory, Top) /\ Top.klass \in Klasses
  BY <1>1, <1>3, <1>4 DEF Made, Fits
<1>6. Frame.klass = Top.klass
  BY <1>1, <1>5 DEF MakesMessage
<1>7. /\ Frame.ip \in DOMAIN Ctor(Top.klass)
      /\ Ctor(Top.klass)[Frame.ip] = Inst /\ Inst.op = op
  BY <1>1, <1>6 DEF IsFrame, Inst
<1>8. IsSeq(memory.operand["agent"])
  BY <1>1 DEF Sound, Operands, Processors
<1>9. Height(Frame) = Heights(Top.klass)[Frame.ip]
  BY <1>6 DEF Height
<1> QED
  BY <1>1, <1>4, <1>5, <1>6, <1>7, <1>8, <1>9, SeqLength

LEMMA GrownFacts ==
  ASSUME NEW m, Sound(m), NEW t, Grows(m, t), NEW id \in DOMAIN m.heap
  PROVE  /\ \A text : IsArray(m, id, text) => IsArray(t, id, text)
         /\ \A text : IsText(m, id, text) => IsText(t, id, text)
         /\ \A f : Lacks(m, id, f) => Lacks(t, id, f)
         /\ \A klass : IsOf(m, id, klass) => IsOf(t, id, klass)
         /\ \A f, text : Says(m, id, f, text) => Says(t, id, f, text)
<1> DEFINE K == DOMAIN m.heap
<1>1. Follows(m, t, K, "outside")
  BY GrownFollows
<1>2. id \in K \cup {0}
  OBVIOUS
<1> HIDE DEF K
<1>3. /\ \A text : IsArray(m, id, text) => IsArray(t, id, text)
      /\ \A text : IsText(m, id, text) => IsText(t, id, text)
      /\ \A klass : IsOf(m, id, klass) => IsOf(t, id, klass)
      /\ \A f, text : Says(m, id, f, text) => Says(t, id, f, text)
  BY <1>1, <1>2, FactsStay
<1>4. ASSUME NEW f, Lacks(m, id, f) PROVE Lacks(t, id, f)
  BY <1>4 DEF Grows, Lacks, HasField
<1> QED
  BY <1>3, <1>4

LEMMA HoldsStays ==
  ASSUME NEW m, Sound(m), NEW t, Grows(m, t), NEW id, NEW content, NEW self,
         Holds(m, id, content, self)
  PROVE  Holds(t, id, content, self)
<1>1. ASSUME NEW text, IsText(m, id, text) PROVE IsText(t, id, text)
  <2>1. id \in DOMAIN m.heap
    BY <1>1 DEF IsText, HasField
  <2> QED
    BY <1>1, <2>1, GrownFacts
<1>2. ASSUME NEW text, IsArray(m, id, text) PROVE IsArray(t, id, text)
  <2>1. id \in DOMAIN m.heap
    BY <1>2 DEF IsArray
  <2> QED
    BY <1>2, <2>1, GrownFacts
<1> QED
  BY <1>1, <1>2, Zenon DEF Holds

\* One instruction more of the first frame.
LEMMA MessageGoesOn ==
  ASSUME NEW m, Sound(m), NEW a, a.klass \in Klasses, MakesMessage(m, a), NEW t, Grows(m, t),
         InCell(t, a.cells[1]) = InCell(m, a.cells[1]),
         t.frames[1].klass = m.frames[1].klass, t.frames[1].slots = m.frames[1].slots,
         m.frames[1].ip # Finish(a.klass), t.frames[1].ip # Finish(a.klass),
         \A n \in DOMAIN t.operand["agent"] :
           Holds(t, t.operand["agent"][n].ptr.obj, Contents(a.klass)[t.frames[1].ip][n],
                 InCell(m, a.cells[1]))
  PROVE  MakesMessage(t, a)
<1> DEFINE self == InCell(m, a.cells[1])
<1>2. /\ IsOf(m, self, a.klass) /\ Lacks(m, self, "name") /\ Lacks(m, self, "trace")
      /\ Lacks(m, self, "message")
  BY DEF MakesMessage
<1>3. InCell(t, a.cells[1]) = self
  OBVIOUS
<1> HIDE DEF self
<1>4. self \in DOMAIN m.heap
  BY <1>2 DEF IsOf
<1>5. /\ IsOf(t, self, a.klass) /\ Lacks(t, self, "name") /\ Lacks(t, self, "trace")
      /\ Lacks(t, self, "message")
  BY <1>2, <1>4, GrownFacts
<1>6. ASSUME NEW n \in 1 .. Len(Texts[a.klass])
      PROVE  IsText(t, t.frames[1].slots[n + 1].obj, <<Texts[a.klass][n]>>)
  <2> DEFINE id == m.frames[1].slots[n + 1].obj
             text == <<Texts[a.klass][n]>>
  <2>1. IsText(m, id, text) /\ id = t.frames[1].slots[n + 1].obj
    BY DEF MakesMessage
  <2> HIDE DEF id, text
  <2>2. id \in DOMAIN m.heap
    BY <2>1 DEF IsText, HasField
  <2>3. IsText(t, id, text)
    BY <2>1, <2>2, GrownFacts
  <2> QED
    BY <2>1, <2>3 DEF text
<1>7. m.frames[1].klass = a.klass /\ m.frames[1].slots[1].obj = self
  BY DEF MakesMessage, self
<1>8. \A n \in DOMAIN t.operand["agent"] :
        Holds(t, t.operand["agent"][n].ptr.obj, Contents(a.klass)[t.frames[1].ip][n], self)
  BY DEF self
<1> QED
  BY <1>3, <1>5, <1>6, <1>7, <1>8 DEF MakesMessage

LEMMA FirstAdvances ==
  ASSUME IInv, DInv, NEW op \in MessageOps, Executes(op), NEW m, Sound(m),
         m.frames = memory.frames, Frame.ip # Finish(Top.klass)
  PROVE  LET t == Advanced(m)
         IN /\ Sound(t) /\ t.heap = m.heap /\ t.cells = m.cells /\ t.operand = m.operand
            /\ Len(t.frames) = 1 /\ t.frames[1].klass = Frame.klass
            /\ t.frames[1].ip = Frame.ip + 1 /\ t.frames[1].slots = Frame.slots
<1>1. /\ Len(memory.frames) = 1 /\ Frame = memory.frames[1] /\ Frame.klass = Top.klass
      /\ Frame.ip \in DOMAIN Ctor(Top.klass) /\ Ctor(Top.klass)[Frame.ip] = Inst /\ Inst.op = op
      /\ Top.klass \in Klasses
  BY MessageRuns
<1>2. Frame.ip + 1 \in DOMAIN Ctor(Frame.klass)
  <2>1. Frame.klass \in Constructed
    BY <1>1 DEF Constructed
  <2>2. Behaves(Frame.klass, Frame.ip) /\ Ctor(Frame.klass)[Frame.ip].op = op
    BY <1>1, <2>1, CtorSteps
  <2> HIDE DEF Frame
  <2> QED
    BY <2>2 DEF Behaves, MessageOps
<1>3. m.frames # <<>>
  <2>1. Len(<<>>) = 0
    OBVIOUS
  <2> QED
    BY <1>1, <2>1
<1>4. LET f == m.frames[Len(m.frames)] IN f.ip + 1 \in DOMAIN Ctor(f.klass)
  BY <1>1, <1>2
<1> QED
  BY <1>1, <1>3, <1>4, AdvancedSound

LEMMA MessageStep ==
  ASSUME IInv, IInv', DInv, NEW op \in MessageOps, Executes(op),
         NEW m, SameMemory(m), Data(m, stack, returned),
         NEW u, Step(u), Sound(u), Grows(m, u), u.cells = m.cells, u.frames = m.frames,
         u.operand["main"] = m.operand["main"],
         Frame.ip # Finish(Top.klass), Frame.ip + 1 # Finish(Top.klass),
         \A n \in DOMAIN u.operand["agent"] :
           Holds(u, u.operand["agent"][n].ptr.obj, Contents(Top.klass)[Frame.ip + 1][n],
                 InCell(memory, Top.cells[1]))
  PROVE  DInv'
<1> DEFINE t == Advanced(u)
<1>1. /\ stack # <<>> /\ RunsCtor(Top) /\ Fits(Top) /\ Top.klass \in Klasses
      /\ Top.klass # "String" /\ Top.depth = 0 /\ Len(memory.frames) = 1
      /\ Frame = memory.frames[1] /\ Frame.klass = Top.klass
  BY MessageRuns
<1>2. /\ Sound(m) /\ m.operand = memory.operand /\ m.frames = memory.frames
      /\ m.cells = memory.cells
  BY DEF SameMemory
<1>3. Goes(t, Top, <<>>)
  BY DEF Step
<1>4. /\ t.heap = u.heap /\ t.cells = u.cells /\ t.operand = u.operand
      /\ Len(t.frames) = 1 /\ t.frames[1].klass = Frame.klass
      /\ t.frames[1].ip = Frame.ip + 1 /\ t.frames[1].slots = Frame.slots
  BY <1>2, FirstAdvances
<1> HIDE DEF t
<1>5. Grows(m, t)
  BY <1>4 DEF Grows
<1>6. Carries(m, t, "")
  <2>1. KeepsCells(m, t) /\ t.operand["main"] = m.operand["main"]
    BY <1>4 DEF KeepsCells
  <2>2. Top.depth # 1
    BY <1>1
  <2> HIDE DEF Top
  <2> QED
    BY <1>2, <1>5, <2>1, <2>2, CarriesGrown
<1>7. Made(m, Top) /\ Top.fn = "createUnprotectedInstance" /\ Top.at = 2
  BY <1>1, InStack DEF Data, RunsCtor
<1>8. MakesMessage(m, Top)
  BY <1>1, <1>7 DEF Made
<1>9. ASSUME NEW n \in DOMAIN t.operand["agent"]
      PROVE  Holds(t, t.operand["agent"][n].ptr.obj, Contents(Top.klass)[t.frames[1].ip][n],
                   InCell(m, Top.cells[1]))
  <2>1. InCell(m, Top.cells[1]) = InCell(memory, Top.cells[1])
    BY <1>2 DEF InCell
  <2>2. Holds(u, u.operand["agent"][n].ptr.obj, Contents(Top.klass)[Frame.ip + 1][n],
              InCell(memory, Top.cells[1]))
    BY <1>4
  <2>3. ASSUME NEW id, NEW content, NEW self, Holds(u, id, content, self)
        PROVE  Holds(t, id, content, self)
    BY <1>4, <2>3, SameObjects DEF Holds
  <2> QED
    BY <1>4, <2>1, <2>2, <2>3
<1>10. InCell(t, Top.cells[1]) = InCell(m, Top.cells[1])
  BY <1>4 DEF InCell
<1>11. MakesMessage(t, Top)
  <2>1. /\ t.frames[1].klass = m.frames[1].klass /\ t.frames[1].slots = m.frames[1].slots
        /\ m.frames[1].ip # Finish(Top.klass) /\ t.frames[1].ip # Finish(Top.klass)
    BY <1>1, <1>2, <1>4
  <2> HIDE DEF Top
  <2> QED
    BY <1>1, <1>2, <1>5, <1>8, <1>9, <1>10, <2>1, MessageGoesOn
<1>12. Made(t, Top)
  BY <1>1, <1>7, <1>11 DEF Made, TextFunctions
<1>13. GivenFor(t, Top, Nowhere)
  BY <1>4, <1>7 DEF GivenFor, TakesHandle
<1> QED
  BY <1>1, <1>3, <1>6, <1>12, <1>13, StepDataIn

AgentGets(m, u, ptr) ==
  /\ Sound(u) /\ u.heap = m.heap /\ u.cells = m.cells /\ u.frames = m.frames
  /\ Len(u.operand["agent"]) = Len(m.operand["agent"]) + 1
  /\ \A n \in 1 .. Len(m.operand["agent"]) : u.operand["agent"][n] = m.operand["agent"][n]
  /\ u.operand["agent"][Len(m.operand["agent"]) + 1].ptr = ptr
  /\ u.operand["main"] = m.operand["main"]

LEMMA AgentPushed ==
  ASSUME NEW m, Sound(m), NEW ptr, Live(m, ptr), NEW meant
  PROVE  AgentGets(m, PushedRoot(m, "agent", ptr, meant), ptr)
<1> DEFINE u == PushedRoot(m, "agent", ptr, meant)
<1>1. "agent" \in Processors /\ "main" \in Processors \ {"agent"}
  BY DEF Processors
<1>2. Sound(u) /\ u.heap = m.heap /\ u.cells = m.cells /\ u.frames = m.frames
  BY <1>1, PushedRootIs
<1>3. Len(u.operand["agent"]) = Len(m.operand["agent"]) + 1
  BY <1>1, PushedRootIs
<1>4. \A n \in 1 .. Len(m.operand["agent"]) : u.operand["agent"][n] = m.operand["agent"][n]
  BY <1>1, PushedRootIs
<1>5. u.operand["agent"][Len(m.operand["agent"]) + 1] = AnItem(ptr, meant)
  BY <1>1, PushedRootIs
<1>6. u.operand["main"] = m.operand["main"]
  BY <1>1, PushedRootIs
<1>7. AnItem(ptr, meant).ptr = ptr
  BY DEF AnItem
<1> HIDE DEF u
<1> QED
  BY <1>2, <1>3, <1>4, <1>5, <1>6, <1>7 DEF AgentGets, u

LEMMA OnePushed ==
  ASSUME NEW klass, NEW ip, NEW content, Pushes(klass, ip, content),
         NEW m, Sound(m), NEW u, Sound(u), Grows(m, u), NEW self,
         Len(m.operand["agent"]) = Heights(klass)[ip], Heights(klass)[ip] \in Nat,
         Len(u.operand["agent"]) = Len(m.operand["agent"]) + 1,
         \A n \in 1 .. Len(m.operand["agent"]) : u.operand["agent"][n] = m.operand["agent"][n],
         \A n \in DOMAIN m.operand["agent"] :
           Holds(m, m.operand["agent"][n].ptr.obj, Contents(klass)[ip][n], self),
         Holds(u, u.operand["agent"][Len(m.operand["agent"]) + 1].ptr.obj, content, self)
  PROVE  \A n \in DOMAIN u.operand["agent"] :
           Holds(u, u.operand["agent"][n].ptr.obj, Contents(klass)[ip + 1][n], self)
<1> DEFINE h == Heights(klass)[ip]
           now == m.operand["agent"]
           next == u.operand["agent"]
<1>1. /\ h \in Nat /\ DOMAIN now = 1 .. h /\ DOMAIN next = 1 .. h + 1
      /\ \A n \in 1 .. h : next[n] = now[n]
  <2>1. IsSeq(now) /\ IsSeq(next)
    BY DEF Sound, Operands, Processors
  <2> QED
    BY <2>1, SeqLength
<1>2. /\ \A n \in 1 .. h : Contents(klass)[ip + 1][n] = Contents(klass)[ip][n]
      /\ Contents(klass)[ip + 1][h + 1] = content
  BY DEF Pushes
<1>3. Holds(u, next[h + 1].ptr.obj, content, self)
  OBVIOUS
<1>4. \A n \in 1 .. h : Holds(m, now[n].ptr.obj, Contents(klass)[ip][n], self)
  BY <1>1
<1> HIDE DEF h, now, next
<1>5. ASSUME NEW n \in 1 .. h
      PROVE  Holds(u, next[n].ptr.obj, Contents(klass)[ip + 1][n], self)
  <2>1. Holds(m, now[n].ptr.obj, Contents(klass)[ip][n], self)
    BY <1>4
  <2>2. Holds(u, now[n].ptr.obj, Contents(klass)[ip][n], self)
    BY <2>1, HoldsStays
  <2> QED
    BY <1>1, <1>2, <2>2
<1>6. \A n \in 1 .. h + 1 : n \in 1 .. h \/ n = h + 1
  BY <1>1
<1>7. \A n \in DOMAIN next : Holds(u, next[n].ptr.obj, Contents(klass)[ip + 1][n], self)
  BY <1>1, <1>2, <1>3, <1>5, <1>6
<1> QED
  BY <1>7 DEF next

LEMMA LdargMeant ==
  ASSUME IInv, DInv, Ldarg
  PROVE  DInv'
<1> DEFINE ptr == Frame.slots[Inst.n + 1]
           u == PushedRoot(memory, "agent", ptr, Nothing)
           self == InCell(memory, Top.cells[1])
<1>0. IInv'
  BY LdargKeeps
<1>1. Executes("ldarg") /\ Step(u)
  BY DEF Ldarg
<1>2. /\ stack # <<>> /\ RunsCtor(Top) /\ Fits(Top) /\ Sound(memory) /\ Top.klass \in Klasses
      /\ IsFrame(memory, Frame) /\ Frame = memory.frames[1] /\ Frame.klass = Top.klass
      /\ Frame.ip \in DOMAIN Ctor(Top.klass)
      /\ Ctor(Top.klass)[Frame.ip] = Inst /\ Inst.op = "ldarg"
      /\ MakesMessage(memory, Top)
      /\ Len(memory.operand["agent"]) = Heights(Top.klass)[Frame.ip]
      /\ Heights(Top.klass)[Frame.ip] \in Nat
  BY <1>1, MessageRuns DEF MessageOps
<1>3. Behaves(Top.klass, Frame.ip)
  BY <1>1, <1>2, Executing
<1>4. Inst.n + 1 \in 1 .. Arity(Top.klass) + 1
  BY <1>2, <1>3 DEF Behaves
<1>5. Live(memory, ptr)
  <2>1. /\ IsSeq(Frame.slots) /\ Len(Frame.slots) = Arity(Frame.klass) + 1
        /\ \A k \in DOMAIN Frame.slots : Live(memory, Frame.slots[k])
    BY <1>2 DEF IsFrame
  <2>2. Inst.n + 1 \in DOMAIN Frame.slots
    BY <1>2, <1>4, <2>1, SeqLength
  <2> QED
    BY <2>1, <2>2
<1>6. /\ Frame.ip # Finish(Top.klass) /\ Frame.ip + 1 # Finish(Top.klass)
      /\ \/ Inst.n = 0 /\ Pushes(Top.klass, Frame.ip, Object)
         \/ /\ Inst.n \in 1 .. Len(Texts[Top.klass])
            /\ Pushes(Top.klass, Frame.ip, Text(<<Texts[Top.klass][Inst.n]>>))
  BY <1>2, PushMoves
<1>7. PICK content : Pushes(Top.klass, Frame.ip, content) /\ Holds(memory, ptr.obj, content, self)
  <2>1. CASE Inst.n = 0 /\ Pushes(Top.klass, Frame.ip, Object)
    <3>1. Inst.n + 1 = 1
      BY <2>1
    <3>2. ptr.obj = self
      BY <1>2, <3>1 DEF MakesMessage
    <3>3. Holds(memory, ptr.obj, Object, self)
      BY <3>2 DEF Holds, Object
    <3> QED
      BY <2>1, <3>3
  <2>2. CASE /\ Inst.n \in 1 .. Len(Texts[Top.klass])
             /\ Pushes(Top.klass, Frame.ip, Text(<<Texts[Top.klass][Inst.n]>>))
    <3> DEFINE text == <<Texts[Top.klass][Inst.n]>>
    <3>1. IsText(memory, ptr.obj, text)
      BY <1>2, <2>2 DEF MakesMessage
    <3> HIDE DEF text, ptr, self
    <3>2. Holds(memory, ptr.obj, Text(text), self)
      BY <3>1 DEF Holds, Text
    <3> QED
      BY <2>2, <3>2 DEF text
  <2> QED
    BY <1>6, <2>1, <2>2
<1>8. SameMemory(memory) /\ Data(memory, stack, returned)
  BY Steady DEF DInv
<1> HIDE DEF ptr
<1>9. AgentGets(memory, u, ptr)
  BY <1>2, <1>5, AgentPushed
<1> HIDE DEF u
<1>10. Grows(memory, u)
  BY <1>9 DEF AgentGets, Grows
<1>11. Holds(u, u.operand["agent"][Len(memory.operand["agent"]) + 1].ptr.obj, content, self)
  <2>1. Holds(u, ptr.obj, content, self)
    BY <1>2, <1>7, <1>10, HoldsStays
  <2> QED
    BY <1>9, <2>1 DEF AgentGets
<1>12. \A n \in DOMAIN memory.operand["agent"] :
         Holds(memory, memory.operand["agent"][n].ptr.obj, Contents(Top.klass)[Frame.ip][n], self)
  BY <1>2 DEF MakesMessage
<1>13. \A n \in DOMAIN u.operand["agent"] :
         Holds(u, u.operand["agent"][n].ptr.obj, Contents(Top.klass)[Frame.ip + 1][n], self)
  <2> HIDE DEF self, Top, Frame
  <2> QED
    BY <1>2, <1>7, <1>9, <1>10, <1>11, <1>12, OnePushed DEF AgentGets
<1> QED
  BY <1>0, <1>1, <1>6, <1>8, <1>9, <1>10, <1>13, MessageStep DEF MessageOps, AgentGets

LEMMA TextIs ==
  ASSUME NEW m, NEW ptr, NEW text, IsText(m, ptr.obj, text)
  PROVE  TextOf(m, ptr) = text
BY DEF IsText, IsArray, TextOf

\* What holds in the memory an allocation found room in.
LEMMA MessageRoom ==
  ASSUME IInv, DInv, NEW op \in MessageOps, Executes(op), NEW room \in Room(memory)
  PROVE  /\ Sound(room) /\ Unused(room) # {} /\ SameMemory(room) /\ Data(room, stack, returned)
         /\ MakesMessage(room, Top)
         /\ room.cells = memory.cells /\ room.operand = memory.operand
         /\ room.frames = memory.frames
         /\ InCell(room, Top.cells[1]) = InCell(memory, Top.cells[1])
         /\ \A n \in DOMAIN room.operand["agent"] :
              Holds(room, room.operand["agent"][n].ptr.obj,
                    Contents(Top.klass)[Frame.ip][n], InCell(memory, Top.cells[1]))
<1>1. /\ stack # <<>> /\ RunsCtor(Top) /\ Sound(memory) /\ Top.klass # "String"
      /\ Frame = memory.frames[1]
  BY MessageRuns
<1>2. ~ TakesRaw(Top) /\ ~ TakesHandle(Top)
  BY <1>1 DEF RunsCtor, TakesRaw, TakesHandle
<1>3. Data(memory, stack, returned)
  BY DEF DInv
<1>4. Data(room, stack, returned) /\ SameMemory(room)
  BY <1>1, <1>2, <1>3, RoomData
<1>5. /\ Sound(room) /\ Unused(room) # {}
      /\ room.cells = memory.cells /\ room.operand = memory.operand
      /\ room.frames = memory.frames
  BY <1>1, RoomSound
<1>6. MakesMessage(room, Top)
  <2>1. Made(room, Top)
    BY <1>1, <1>4, InStack DEF Data
  <2> HIDE DEF Top
  <2> QED
    BY <1>1, <2>1 DEF Made, RunsCtor
<1>7. InCell(room, Top.cells[1]) = InCell(memory, Top.cells[1])
  BY <1>5 DEF InCell
<1>8. \A n \in DOMAIN room.operand["agent"] :
        Holds(room, room.operand["agent"][n].ptr.obj,
              Contents(Top.klass)[Frame.ip][n], InCell(memory, Top.cells[1]))
  <2>1. room.frames[1] = Frame
    BY <1>1, <1>5
  <2> HIDE DEF Top, Frame
  <2> QED
    BY <1>6, <1>7, <2>1 DEF MakesMessage
<1> QED
  BY <1>4, <1>5, <1>6, <1>7, <1>8

LEMMA NewarrayMeant ==
  ASSUME IInv, DInv, Newarray
  PROVE  DInv'
<1>0. IInv'
  BY NewarrayKeeps
<1>1. Executes("newarray")
  BY DEF Newarray
<1>2. PICK room \in Room(memory) :
        LET text == TextOf(room, Operand(room, "agent", 1).ptr)
                    \o TextOf(room, Operand(room, "agent", 0).ptr)
        IN Step(PushedRoot(Created(room, "Rune[]", [n \in {} |-> 0], text),
                           "agent", Ptr(NextId(room)), Nothing))
  BY DEF Newarray
<1> DEFINE one == Operand(room, "agent", 1).ptr
           other == Operand(room, "agent", 0).ptr
           text == TextOf(room, one) \o TextOf(room, other)
           refs == [n \in {} |-> 0]
           t == Created(room, "Rune[]", refs, text)
           ptr == Ptr(NextId(room))
           u == PushedRoot(t, "agent", ptr, Nothing)
           self == InCell(memory, Top.cells[1])
<1>3. Step(u)
  BY <1>2
<1>4. /\ Top.klass \in Klasses /\ Frame.ip \in DOMAIN Ctor(Top.klass)
      /\ Ctor(Top.klass)[Frame.ip] = Inst /\ Inst.op = "newarray"
      /\ Len(memory.operand["agent"]) = Heights(Top.klass)[Frame.ip]
      /\ Heights(Top.klass)[Frame.ip] \in Nat
  BY <1>1, MessageRuns DEF MessageOps
<1>5. /\ Sound(room) /\ Unused(room) # {} /\ SameMemory(room) /\ Data(room, stack, returned)
      /\ room.cells = memory.cells /\ room.operand = memory.operand
      /\ room.frames = memory.frames
      /\ \A n \in DOMAIN room.operand["agent"] :
           Holds(room, room.operand["agent"][n].ptr.obj, Contents(Top.klass)[Frame.ip][n], self)
  BY <1>1, MessageRoom DEF MessageOps
<1>6. /\ Frame.ip # Finish(Top.klass) /\ Frame.ip + 1 # Finish(Top.klass)
      /\ Heights(Top.klass)[Frame.ip] = 3
  BY <1>4, ArrayMoves
<1>7. PICK a, b : /\ Contents(Top.klass)[Frame.ip][2] = Text(a)
                  /\ Contents(Top.klass)[Frame.ip][3] = Text(b)
                  /\ Pushes(Top.klass, Frame.ip, Runes(a \o b))
  <2> HIDE DEF Top, Frame, Inst
  <2> QED
    BY <1>4, ArrayMoves
<1>8. one = room.operand["agent"][2].ptr /\ other = room.operand["agent"][3].ptr
  <2>1. Len(room.operand["agent"]) = 3
    BY <1>4, <1>5, <1>6
  <2>2. 3 - 1 = 2 /\ 3 - 0 = 3
    OBVIOUS
  <2> QED
    BY <2>1, <2>2 DEF Operand
<1>9. IsText(room, one.obj, a) /\ IsText(room, other.obj, b)
  <2>1. IsSeq(room.operand["agent"]) /\ Len(room.operand["agent"]) = 3
    BY <1>4, <1>5, <1>6 DEF Sound, Operands, Processors
  <2>2. 2 \in DOMAIN room.operand["agent"] /\ 3 \in DOMAIN room.operand["agent"]
    BY <2>1, SeqLength
  <2>3. Holds(room, one.obj, Text(a), self) /\ Holds(room, other.obj, Text(b), self)
    BY <1>5, <1>7, <1>8, <2>2
  <2> HIDE DEF one, other, self
  <2> QED
    BY <2>3 DEF Holds, Text
<1>10. text = a \o b
  BY <1>9, TextIs
<1> HIDE DEF one, other, text
<1>11. /\ Sound(t) /\ Live(t, ptr)
       /\ t.cells = room.cells /\ t.operand = room.operand /\ t.frames = room.frames
       /\ NextId(room) \notin DOMAIN room.heap
       /\ DOMAIN t.heap = DOMAIN room.heap \cup {NextId(room)}
       /\ t.heap[NextId(room)] = AnObject("Rune[]", refs, text)
       /\ \A i \in DOMAIN room.heap : t.heap[i] = room.heap[i]
  <2>1. \A f \in DOMAIN refs : refs[f] \in DOMAIN room.heap \cup {0, Scrap}
    OBVIOUS
  <2> HIDE DEF refs
  <2>2. Sound(t) /\ Live(t, ptr) /\ t.cells = room.cells /\ t.operand = room.operand
    BY <1>5, <2>1, CreatedIs
  <2>3. t.frames = room.frames /\ NextId(room) \notin DOMAIN room.heap
        /\ DOMAIN t.heap = DOMAIN room.heap \cup {NextId(room)}
    BY <1>5, <2>1, CreatedIs
  <2>4. /\ t.heap[NextId(room)] = AnObject("Rune[]", refs, text)
        /\ \A i \in DOMAIN room.heap : t.heap[i] = room.heap[i]
    BY <1>5, <2>1, CreatedIs
  <2> QED
    BY <2>2, <2>3, <2>4
<1> HIDE DEF t, refs
<1>12. AgentGets(t, u, ptr)
  <2> HIDE DEF ptr
  <2> QED
    BY <1>11, AgentPushed
<1> HIDE DEF u
<1>13. Grows(room, u)
  BY <1>11, <1>12 DEF AgentGets, Grows
<1>14. IsArray(u, ptr.obj, a \o b)
  <2>1. ptr.obj = NextId(room)
    BY DEF Ptr
  <2>2. AnObject("Rune[]", refs, text).text = text
    BY DEF AnObject
  <2> QED
    BY <1>10, <1>11, <1>12, <2>1, <2>2 DEF AgentGets, IsArray
<1>15. Holds(u, ptr.obj, Runes(a \o b), self)
  BY <1>14 DEF Holds, Runes
<1>16. \A n \in DOMAIN u.operand["agent"] :
         Holds(u, u.operand["agent"][n].ptr.obj, Contents(Top.klass)[Frame.ip + 1][n], self)
  <2>1. /\ Len(room.operand["agent"]) = Heights(Top.klass)[Frame.ip] /\ Sound(u)
        /\ Len(u.operand["agent"]) = Len(room.operand["agent"]) + 1
        /\ \A n \in 1 .. Len(room.operand["agent"]) :
             u.operand["agent"][n] = room.operand["agent"][n]
        /\ u.operand["agent"][Len(room.operand["agent"]) + 1].ptr = ptr
    BY <1>4, <1>5, <1>11, <1>12 DEF AgentGets
  <2> HIDE DEF self, Top, Frame, ptr
  <2>2. Holds(u, u.operand["agent"][Len(room.operand["agent"]) + 1].ptr.obj, Runes(a \o b), self)
    BY <1>15, <2>1
  <2> QED
    BY <1>4, <1>5, <1>7, <1>13, <2>1, <2>2, OnePushed
<1>17. /\ Sound(u) /\ u.cells = room.cells /\ u.frames = room.frames
       /\ u.operand["main"] = room.operand["main"]
  BY <1>11, <1>12 DEF AgentGets
<1> QED
  BY <1>0, <1>1, <1>3, <1>5, <1>6, <1>13, <1>16, <1>17, MessageStep DEF MessageOps

LEMMA AgentPopped ==
  ASSUME NEW m, Sound(m), NEW k \in 0 .. Len(m.operand["agent"])
  PROVE  Len(Popped(m, "agent", k).operand["agent"]) = Len(m.operand["agent"]) - k
<1>1. ASSUME NEW p \in Processors, k \in 0 .. Len(m.operand[p])
      PROVE  Len(Popped(m, p, k).operand[p]) = Len(m.operand[p]) - k
  BY <1>1, PoppedSound
<1>2. "agent" \in Processors
  BY DEF Processors
<1> QED
  BY <1>1, <1>2, Zenon

LEMMA NewstringMeant ==
  ASSUME IInv, DInv, Newstring
  PROVE  DInv'
<1>0. IInv'
  BY NewstringKeeps
<1>1. Executes("newstring")
  BY DEF Newstring
<1>2. PICK room \in Room(memory) :
        LET refs == [sequence |-> Operand(room, "agent", 0).ptr.obj]
        IN Step(PushedRoot(Popped(Created(room, "String", refs, <<>>), "agent", 3),
                           "agent", Ptr(NextId(room)), Nothing))
  BY DEF Newstring
<1> DEFINE array == Operand(room, "agent", 0).ptr.obj
           refs == [sequence |-> array]
           text == <<>>
           t == Created(room, "String", refs, text)
           v == Popped(t, "agent", 3)
           ptr == Ptr(NextId(room))
           u == PushedRoot(v, "agent", ptr, Nothing)
           self == InCell(memory, Top.cells[1])
<1>3. Step(u)
  BY <1>2
<1>4. /\ Top.klass \in Klasses /\ Frame.ip \in DOMAIN Ctor(Top.klass)
      /\ Ctor(Top.klass)[Frame.ip] = Inst /\ Inst.op = "newstring"
      /\ Len(memory.operand["agent"]) = Heights(Top.klass)[Frame.ip]
  BY <1>1, MessageRuns DEF MessageOps
<1>5. /\ Sound(room) /\ Unused(room) # {} /\ SameMemory(room) /\ Data(room, stack, returned)
      /\ room.cells = memory.cells /\ room.operand = memory.operand
      /\ room.frames = memory.frames
      /\ \A n \in DOMAIN room.operand["agent"] :
           Holds(room, room.operand["agent"][n].ptr.obj, Contents(Top.klass)[Frame.ip][n], self)
  BY <1>1, MessageRoom DEF MessageOps
<1>6. /\ Frame.ip # Finish(Top.klass) /\ Frame.ip + 1 # Finish(Top.klass)
      /\ Heights(Top.klass)[Frame.ip] = 4
      /\ Contents(Top.klass)[Frame.ip + 1][1] = Contents(Top.klass)[Frame.ip][1]
  BY <1>4, StringMoves
<1>7. PICK a : /\ Contents(Top.klass)[Frame.ip][4] = Runes(a)
               /\ Contents(Top.klass)[Frame.ip + 1][2] = Text(a)
  <2> HIDE DEF Top, Frame, Inst
  <2> QED
    BY <1>4, StringMoves
<1>8. /\ IsSeq(room.operand["agent"]) /\ Len(room.operand["agent"]) = 4
      /\ DOMAIN room.operand["agent"] = 1 .. 4
  <2>1. IsSeq(room.operand["agent"]) /\ Len(room.operand["agent"]) = 4
    BY <1>4, <1>5, <1>6 DEF Sound, Operands, Processors
  <2> QED
    BY <2>1, SeqLength
<1>9. array = room.operand["agent"][4].ptr.obj
  <2>1. 4 - 0 = 4
    OBVIOUS
  <2> QED
    BY <1>8, <2>1 DEF Operand
<1>10. IsArray(room, array, a)
  <2>1. Holds(room, array, Runes(a), self)
    BY <1>5, <1>7, <1>8, <1>9
  <2> HIDE DEF array, self
  <2> QED
    BY <2>1 DEF Holds, Runes
<1> HIDE DEF array
<1>11. /\ Sound(t) /\ Live(t, ptr)
       /\ t.cells = room.cells /\ t.operand = room.operand /\ t.frames = room.frames
       /\ NextId(room) \notin DOMAIN room.heap
       /\ DOMAIN t.heap = DOMAIN room.heap \cup {NextId(room)}
       /\ t.heap[NextId(room)] = AnObject("String", refs, text)
       /\ \A i \in DOMAIN room.heap : t.heap[i] = room.heap[i]
  <2>1. \A f \in DOMAIN refs : refs[f] \in DOMAIN room.heap \cup {0, Scrap}
    BY <1>10 DEF IsArray
  <2> HIDE DEF refs, text
  <2>2. Sound(t) /\ Live(t, ptr) /\ t.cells = room.cells /\ t.operand = room.operand
    BY <1>5, <2>1, CreatedIs
  <2>3. t.frames = room.frames /\ NextId(room) \notin DOMAIN room.heap
        /\ DOMAIN t.heap = DOMAIN room.heap \cup {NextId(room)}
    BY <1>5, <2>1, CreatedIs
  <2>4. /\ t.heap[NextId(room)] = AnObject("String", refs, text)
        /\ \A i \in DOMAIN room.heap : t.heap[i] = room.heap[i]
    BY <1>5, <2>1, CreatedIs
  <2> QED
    BY <2>2, <2>3, <2>4
<1>12. "sequence" \in DOMAIN refs /\ refs["sequence"] = array
  OBVIOUS
<1> HIDE DEF t, refs
<1>13. /\ Sound(v) /\ v.heap = t.heap /\ v.cells = t.cells /\ v.frames = t.frames
       /\ Len(v.operand["agent"]) = 1 /\ v.operand["agent"][1] = room.operand["agent"][1]
       /\ v.operand["main"] = room.operand["main"] /\ Live(v, ptr)
  <2>1. /\ "agent" \in Processors /\ "main" \in Processors \ {"agent"}
        /\ 3 \in 0 .. Len(t.operand["agent"]) /\ Len(t.operand["agent"]) = 4
    <3>1. Len(t.operand["agent"]) = 4 /\ 3 \in 0 .. 4
      BY <1>8, <1>11
    <3>2. "agent" \in Processors /\ "main" \in Processors \ {"agent"}
      BY DEF Processors
    <3> QED
      BY <3>1, <3>2
  <2> HIDE DEF ptr
  <2>2. Sound(v) /\ v.heap = t.heap /\ v.cells = t.cells /\ v.frames = t.frames
    BY <1>11, <2>1, PoppedSound
  <2>3. Len(v.operand["agent"]) = Len(t.operand["agent"]) - 3
    BY <1>11, <2>1, AgentPopped
  <2>4. \A n \in 1 .. Len(t.operand["agent"]) - 3 : v.operand["agent"][n] = t.operand["agent"][n]
    BY <1>11, <2>1, PoppedSound
  <2>5. v.operand["main"] = t.operand["main"]
    BY <1>11, <2>1, PoppedSound
  <2>6. Live(v, ptr)
    BY <1>11, <2>1, PoppedSound
  <2> HIDE DEF v
  <2>7. 4 - 3 = 1 /\ 1 \in 1 .. 4 - 3
    OBVIOUS
  <2>8. Len(v.operand["agent"]) = 1 /\ v.operand["agent"][1] = t.operand["agent"][1]
    BY <2>1, <2>3, <2>4, <2>7
  <2> QED
    BY <1>11, <2>2, <2>5, <2>6, <2>8
<1> HIDE DEF v
<1>14. AgentGets(v, u, ptr)
  <2> HIDE DEF ptr
  <2> QED
    BY <1>13, AgentPushed
<1> HIDE DEF u
<1>15. Grows(room, u)
  BY <1>11, <1>13, <1>14 DEF AgentGets, Grows
<1>16. IsText(u, ptr.obj, a)
  <2>1. ptr.obj = NextId(room)
    BY DEF Ptr
  <2>2. /\ AnObject("String", refs, text).klass = "String"
        /\ AnObject("String", refs, text).refs = refs
    BY DEF AnObject
  <2>3. IsArray(u, array, a)
    <3>1. array \in DOMAIN room.heap
      BY <1>10 DEF IsArray
    <3> QED
      BY <1>5, <1>10, <1>15, <3>1, GrownFacts
  <2>4. /\ u.heap = t.heap /\ NextId(room) \in DOMAIN t.heap
        /\ t.heap[NextId(room)].klass = "String" /\ t.heap[NextId(room)].refs = refs
    BY <1>11, <1>13, <1>14, <2>2 DEF AgentGets
  <2> HIDE DEF ptr, text
  <2> QED
    BY <1>12, <2>1, <2>3, <2>4 DEF IsText, HasField
<1>17. Holds(u, ptr.obj, Text(a), self)
  BY <1>16 DEF Holds, Text
<1>18. \A n \in DOMAIN u.operand["agent"] :
         Holds(u, u.operand["agent"][n].ptr.obj, Contents(Top.klass)[Frame.ip + 1][n], self)
  <2> DEFINE next == u.operand["agent"]
  <2>0. Sound(u) /\ Len(next) = 2 /\ next[1] = room.operand["agent"][1] /\ next[2].ptr = ptr
    <3>1. 1 + 1 = 2 /\ 1 \in 1 .. 1
      OBVIOUS
    <3> QED
      BY <1>13, <1>14, <3>1 DEF AgentGets
  <2>1. DOMAIN next = 1 .. 2
    <3>1. IsSeq(next)
      BY <2>0 DEF Sound, Operands, Processors
    <3> QED
      BY <2>0, <3>1, SeqLength
  <2>2. Holds(u, next[1].ptr.obj, Contents(Top.klass)[Frame.ip + 1][1], self)
    <3>1. 1 \in DOMAIN room.operand["agent"]
      BY <1>8
    <3>2. Holds(room, room.operand["agent"][1].ptr.obj, Contents(Top.klass)[Frame.ip][1], self)
      BY <1>5, <3>1
    <3>3. Holds(u, room.operand["agent"][1].ptr.obj, Contents(Top.klass)[Frame.ip][1], self)
      BY <1>5, <1>15, <3>2, HoldsStays
    <3> QED
      BY <1>6, <2>0, <3>3
  <2>3. Holds(u, next[2].ptr.obj, Contents(Top.klass)[Frame.ip + 1][2], self)
    BY <1>7, <1>17, <2>0
  <2> HIDE DEF next, self
  <2>4. \A n \in DOMAIN next : n = 1 \/ n = 2
    BY <2>1
  <2>5. \A n \in DOMAIN next :
          Holds(u, next[n].ptr.obj, Contents(Top.klass)[Frame.ip + 1][n], self)
    BY <2>2, <2>3, <2>4
  <2> QED
    BY <2>5 DEF next
<1>19. /\ Sound(u) /\ u.cells = room.cells /\ u.frames = room.frames
       /\ u.operand["main"] = room.operand["main"]
  BY <1>11, <1>13, <1>14 DEF AgentGets
<1> QED
  BY <1>0, <1>1, <1>3, <1>5, <1>6, <1>15, <1>18, <1>19, MessageStep DEF MessageOps

LEMMA CreatesStringMeant ==
  ASSUME IInv, DInv, CreatesString
  PROVE  DInv'
<1> DEFINE op == Inst.op
           text == Inst.text
           t == Advanced(memory)
           g == CallString(op, text)
           self == InCell(memory, Top.cells[1])
<1>0. IInv'
  BY CreatesStringKeeps
<1>1. op \in {"ldstr", "tostr"} /\ Executes(op) /\ Goes(t, Top, <<g>>)
  BY DEF CreatesString, Executes
<1>2. op \in MessageOps /\ op \in TextFunctions
  BY <1>1 DEF MessageOps, TextFunctions
<1>3. /\ stack # <<>> /\ RunsCtor(Top) /\ Sound(memory) /\ Top.klass \in Klasses
      /\ Top.klass # "String" /\ Top.depth = 0
      /\ Frame = memory.frames[1] /\ Frame.klass = Top.klass
      /\ Frame.ip \in DOMAIN Ctor(Top.klass) /\ Ctor(Top.klass)[Frame.ip] = Inst
      /\ MakesMessage(memory, Top)
      /\ DOMAIN memory.operand["agent"] = 1 .. Heights(Top.klass)[Frame.ip]
      /\ Heights(Top.klass)[Frame.ip] \in Nat
  BY <1>1, <1>2, MessageRuns
<1>4. Heights(Top.klass)[Frame.ip + 1] = Heights(Top.klass)[Frame.ip] + 1
  <2>1. Behaves(Top.klass, Frame.ip)
    BY <1>1, <1>3, Executing
  <2> HIDE DEF Top, Frame, Inst
  <2> QED
    BY <1>1, <1>3, <2>1 DEF Behaves
<1>5. /\ Frame.ip # Finish(Top.klass) /\ Frame.ip + 1 # Finish(Top.klass)
      /\ Pushes(Top.klass, Frame.ip, Text(<<text>>))
  BY <1>1, <1>3, PushMoves
<1>6. /\ Sound(t) /\ t.heap = memory.heap /\ t.cells = memory.cells
      /\ t.operand = memory.operand
      /\ Len(t.frames) = 1 /\ t.frames[1].klass = Frame.klass
      /\ t.frames[1].ip = Frame.ip + 1 /\ t.frames[1].slots = Frame.slots
  BY <1>1, <1>2, <1>3, <1>5, FirstAdvances
<1> HIDE DEF t
<1>7. Grows(memory, t)
  BY <1>6 DEF Grows
<1>8. Carries(memory, t, "")
  <2>1. KeepsCells(memory, t) /\ t.operand["main"] = memory.operand["main"]
    BY <1>6 DEF KeepsCells
  <2>2. Top.depth # 1
    BY <1>3
  <2> HIDE DEF Top
  <2> QED
    BY <1>3, <1>7, <2>1, <2>2, CarriesGrown
<1>9. \A n \in DOMAIN t.operand["agent"] :
        Holds(t, t.operand["agent"][n].ptr.obj, Contents(Top.klass)[t.frames[1].ip][n], self)
  <2>1. SUFFICES ASSUME NEW n \in DOMAIN memory.operand["agent"]
                 PROVE  Holds(t, memory.operand["agent"][n].ptr.obj,
                              Contents(Top.klass)[Frame.ip + 1][n], self)
    BY <1>6
  <2>2. Holds(memory, memory.operand["agent"][n].ptr.obj, Contents(Top.klass)[Frame.ip][n], self)
    BY <1>3 DEF MakesMessage
  <2>3. Contents(Top.klass)[Frame.ip + 1][n] = Contents(Top.klass)[Frame.ip][n]
    BY <1>3, <1>5 DEF Pushes
  <2> HIDE DEF self
  <2> QED
    BY <1>3, <1>7, <2>2, <2>3, HoldsStays
<1>10. InCell(t, Top.cells[1]) = self
  BY <1>6 DEF InCell
<1>11. MakesMessage(t, Top)
  <2>1. /\ t.frames[1].klass = memory.frames[1].klass
        /\ t.frames[1].slots = memory.frames[1].slots
        /\ memory.frames[1].ip # Finish(Top.klass) /\ t.frames[1].ip # Finish(Top.klass)
    BY <1>3, <1>5, <1>6
  <2> HIDE DEF Top
  <2> QED
    BY <1>3, <1>7, <1>9, <1>10, <2>1, MessageGoesOn
<1>12. Made(t, Top)
  <2> HIDE DEF Top
  <2> QED
    BY <1>3, <1>11 DEF Made, TextFunctions, RunsCtor
<1> HIDE DEF op, text
<1>13. /\ g.fn = op /\ g.texts = <<text>> /\ Made(t, g) /\ GivenFor(t, g, Nowhere)
  BY <1>2, StringCalled
<1> HIDE DEF g
<1>14. Contents(Top.klass)[t.frames[1].ip][Heights(Top.klass)[t.frames[1].ip]] = Text(g.texts)
  BY <1>4, <1>5, <1>6, <1>13 DEF Pushes
<1>15. CalledFor(t, Top, g)
  <2>1. t.frames[1].ip # Finish(Top.klass)
    BY <1>5, <1>6
  <2>2. op \notin {"createUnprotectedString", "createString", "createInstance",
                   "createUnprotectedInstance"}
    BY <1>1
  <2> HIDE DEF Top
  <2> QED
    BY <1>3, <1>13, <1>14, <2>1, <2>2 DEF CalledFor
<1> QED
  BY <1>0, <1>1, <1>3, <1>8, <1>12, <1>13, <1>15, CallData

\* What the constructor of Exception starts with.
BaseStarts(m, t) ==
  /\ t.heap = m.heap /\ t.cells = m.cells /\ t.operand["main"] = m.operand["main"]
  /\ Len(t.operand["agent"]) = 0 /\ Sound(t)
  /\ Len(t.frames) = 2 /\ t.frames[1] = m.frames[1]
  /\ t.frames[2].klass = "Exception" /\ t.frames[2].ip = 1
  /\ t.frames[2].slots[1] = m.operand["agent"][1].ptr
  /\ t.frames[2].slots[2] = m.operand["agent"][2].ptr

LEMMA BaseBegins ==
  ASSUME NEW m, Sound(m), Len(m.frames) = 1, Len(m.operand["agent"]) = 2
  PROVE  BaseStarts(m, InvokeCtor(m, "Exception"))
<1> DEFINE klass == "Exception"
           t == InvokeCtor(m, klass)
<1>1. klass \in Constructed /\ Arity(klass) = 1 /\ Len(m.operand["agent"]) >= Arity(klass) + 1
  BY DEF Constructed, Arity
<1>2. t.frames[Len(m.frames) + 1].klass = klass
  BY <1>1, InvokeCtorSound
<1> HIDE DEF klass
<1>3. Sound(t) /\ t.heap = m.heap /\ t.cells = m.cells /\ t.operand["main"] = m.operand["main"]
  BY <1>1, InvokeCtorSound
<1>4. /\ Len(t.operand["agent"]) = Len(m.operand["agent"]) - (Arity(klass) + 1)
      /\ Len(t.frames) = Len(m.frames) + 1
  BY <1>1, InvokeCtorSound
<1>5. /\ t.frames[Len(m.frames) + 1].ip = 1
      /\ \A k \in 1 .. Len(m.frames) : t.frames[k] = m.frames[k]
  BY <1>1, InvokeCtorSound
<1>6. \A n \in 1 .. Arity(klass) + 1 :
        t.frames[Len(m.frames) + 1].slots[n]
          = Operand(m, "agent", IF n = 1 THEN Arity(klass) ELSE n - 2).ptr
  BY <1>1, InvokeCtorSound
<1> HIDE DEF t
<1>7. /\ t.frames[2].slots[1] = Operand(m, "agent", 1).ptr
      /\ t.frames[2].slots[2] = Operand(m, "agent", 0).ptr
  <2>1. 1 \in 1 .. Arity(klass) + 1 /\ 2 \in 1 .. Arity(klass) + 1
    BY <1>1
  <2>2. (IF 1 = 1 THEN Arity(klass) ELSE 1 - 2) = 1 /\ (IF 2 = 1 THEN Arity(klass) ELSE 2 - 2) = 0
    BY <1>1
  <2>3. Len(m.frames) + 1 = 2
    OBVIOUS
  <2> QED
    BY <1>6, <2>1, <2>2, <2>3
<1>8. /\ Operand(m, "agent", 1) = m.operand["agent"][1]
      /\ Operand(m, "agent", 0) = m.operand["agent"][2]
  <2>1. 2 - 1 = 1 /\ 2 - 0 = 2
    OBVIOUS
  <2> QED
    BY <2>1 DEF Operand
<1>9. /\ Len(t.operand["agent"]) = 0 /\ Len(t.frames) = 2 /\ t.frames[1] = m.frames[1]
      /\ t.frames[2].klass = klass /\ t.frames[2].ip = 1
  <2>1. Len(m.frames) + 1 = 2 /\ 1 \in 1 .. Len(m.frames) /\ 2 - (1 + 1) = 0
    OBVIOUS
  <2> QED
    BY <1>1, <1>2, <1>4, <1>5, <2>1
<1> QED
  BY <1>3, <1>7, <1>8, <1>9 DEF BaseStarts, t, klass

LEMMA BaseCtorMeant ==
  ASSUME IInv, DInv, BaseCtor
  PROVE  DInv'
<1> DEFINE m == Advanced(memory)
           t == InvokeCtor(m, "Exception")
           self == InCell(memory, Top.cells[1])
<1>0. IInv'
  BY BaseCtorKeeps
<1>1. Executes("base") /\ Goes(t, Top, <<>>)
  BY DEF BaseCtor
<1>2. /\ stack # <<>> /\ RunsCtor(Top) /\ Sound(memory) /\ Top.klass \in Klasses
      /\ Top.klass # "String" /\ Top.depth = 0
      /\ Frame = memory.frames[1] /\ Frame.klass = Top.klass
      /\ Frame.ip \in DOMAIN Ctor(Top.klass) /\ Ctor(Top.klass)[Frame.ip] = Inst
      /\ Inst.op = "base" /\ MakesMessage(memory, Top)
      /\ Len(memory.operand["agent"]) = Heights(Top.klass)[Frame.ip]
      /\ DOMAIN memory.operand["agent"] = 1 .. Heights(Top.klass)[Frame.ip]
  BY <1>1, MessageRuns DEF MessageOps
<1>3. /\ Frame.ip # Finish(Top.klass) /\ Frame.ip + 1 = Finish(Top.klass)
      /\ Heights(Top.klass)[Frame.ip] = 2
      /\ Contents(Top.klass)[Frame.ip][1] = Object
      /\ Contents(Top.klass)[Frame.ip][2] = Text(Message(Top.klass))
  BY <1>2, BaseMoves
<1>4. /\ Sound(m) /\ m.heap = memory.heap /\ m.cells = memory.cells
      /\ m.operand = memory.operand
      /\ Len(m.frames) = 1 /\ m.frames[1].klass = Frame.klass
      /\ m.frames[1].ip = Frame.ip + 1 /\ m.frames[1].slots = Frame.slots
  BY <1>1, <1>2, <1>3, FirstAdvances DEF MessageOps
<1> HIDE DEF m
<1>5. BaseStarts(m, t)
  BY <1>2, <1>3, <1>4, BaseBegins
<1> HIDE DEF t
<1>6. /\ t.heap = memory.heap /\ t.cells = memory.cells
      /\ t.operand["main"] = memory.operand["main"] /\ Len(t.operand["agent"]) = 0 /\ Sound(t)
      /\ Len(t.frames) = 2 /\ t.frames[1].klass = Top.klass
      /\ t.frames[1].ip = Finish(Top.klass) /\ t.frames[1].slots = memory.frames[1].slots
      /\ t.frames[2].klass = "Exception" /\ t.frames[2].ip = 1
      /\ t.frames[2].slots[1] = memory.operand["agent"][1].ptr
      /\ t.frames[2].slots[2] = memory.operand["agent"][2].ptr
  BY <1>2, <1>3, <1>4, <1>5 DEF BaseStarts
<1>7. /\ memory.operand["agent"][1].ptr.obj = self
      /\ IsText(memory, memory.operand["agent"][2].ptr.obj, Message(Top.klass))
  <2> DEFINE now == memory.operand["agent"]
  <2>1. 1 \in DOMAIN now /\ 2 \in DOMAIN now
    BY <1>2, <1>3
  <2>2. /\ Holds(memory, now[1].ptr.obj, Contents(Top.klass)[Frame.ip][1], self)
        /\ Holds(memory, now[2].ptr.obj, Contents(Top.klass)[Frame.ip][2], self)
    BY <1>2, <2>1 DEF MakesMessage
  <2> HIDE DEF now, self, Top
  <2>3. Holds(memory, now[1].ptr.obj, Object, self)
        /\ Holds(memory, now[2].ptr.obj, Text(Message(Top.klass)), self)
    BY <1>3, <2>2
  <2>4. now[1].ptr.obj = self /\ IsText(memory, now[2].ptr.obj, Message(Top.klass))
    BY <2>3 DEF Holds, Object, Text
  <2> QED
    BY <2>4 DEF now
<1>8. Grows(memory, t)
  BY <1>6 DEF Grows
<1>9. Carries(memory, t, "")
  <2>1. KeepsCells(memory, t)
    BY <1>6 DEF KeepsCells
  <2>2. Top.depth # 1
    BY <1>2
  <2> HIDE DEF Top
  <2> QED
    BY <1>2, <1>6, <1>8, <2>1, <2>2, CarriesGrown
<1>10. InCell(t, Top.cells[1]) = self
  BY <1>6 DEF InCell
<1>11. /\ IsOf(memory, self, Top.klass) /\ Lacks(memory, self, "name")
       /\ Lacks(memory, self, "trace") /\ Lacks(memory, self, "message")
       /\ memory.frames[1].slots[1].obj = self
       /\ \A n \in 1 .. Len(Texts[Top.klass]) :
            IsText(memory, memory.frames[1].slots[n + 1].obj, <<Texts[Top.klass][n]>>)
  BY <1>2, <1>3 DEF MakesMessage
<1> HIDE DEF self
<1>12. /\ IsOf(t, self, Top.klass) /\ Lacks(t, self, "name")
       /\ Lacks(t, self, "trace") /\ Lacks(t, self, "message")
       /\ IsText(t, memory.operand["agent"][2].ptr.obj, Message(Top.klass))
  <2> HIDE DEF Top
  <2> QED
    BY <1>6, <1>7, <1>11, SameObjects
<1>13. \A n \in 1 .. Len(Texts[Top.klass]) :
         IsText(t, t.frames[1].slots[n + 1].obj, <<Texts[Top.klass][n]>>)
  <2> TAKE n \in 1 .. Len(Texts[Top.klass])
  <2> DEFINE text == <<Texts[Top.klass][n]>>
  <2>1. IsText(memory, memory.frames[1].slots[n + 1].obj, text)
    BY <1>11
  <2> HIDE DEF text, Top
  <2>2. IsText(t, memory.frames[1].slots[n + 1].obj, text)
    BY <1>6, <2>1, SameObjects
  <2> QED
    BY <1>6, <2>2 DEF text
<1>14. DOMAIN t.operand["agent"] = {}
  <2>1. IsSeq(t.operand["agent"])
    BY <1>6 DEF Sound, Operands, Processors
  <2>2. DOMAIN t.operand["agent"] = 1 .. 0
    BY <1>6, <2>1, SeqLength
  <2> QED
    BY <2>2
<1>15. MakesMessage(t, Top)
  <2> HIDE DEF Top
  <2> QED
    BY <1>6, <1>7, <1>10, <1>11, <1>12, <1>13, <1>14 DEF MakesMessage
<1>16. Made(t, Top)
  <2> HIDE DEF Top
  <2> QED
    BY <1>2, <1>15 DEF Made, TextFunctions, RunsCtor
<1>17. GivenFor(t, Top, Nowhere)
  <2> HIDE DEF Top
  <2> QED
    BY <1>2, <1>6 DEF GivenFor, RunsCtor, TakesHandle
<1> QED
  BY <1>0, <1>1, <1>2, <1>9, <1>16, <1>17, StepData

LEMMA ShortCtors ==
  ASSUME NEW klass \in {"String", "Exception"}, NEW ip \in DOMAIN Ctor(klass)
  PROVE  /\ ip = 1 => Ctor(klass)[ip].op = IF klass = "String" THEN "sequence" ELSE "message"
         /\ ip # 1 => Ctor(klass)[ip].op = "ret"
<1>1. CASE klass = "String"
  <2>1. Ctor(klass) = <<Op("sequence"), Op("ret")>>
    BY <1>1 DEF Ctor
  <2>2. ip = 1 \/ ip = 2
    BY <2>1
  <2>3. Op("sequence").op = "sequence" /\ Op("ret").op = "ret"
    BY DEF Op
  <2> QED
    BY <1>1, <2>1, <2>2, <2>3
<1>2. CASE klass = "Exception"
  <2>1. Ctor(klass) = <<Op("message"), Op("ret")>>
    BY <1>2 DEF Ctor
  <2>2. ip = 1 \/ ip = 2
    BY <2>1
  <2>3. Op("message").op = "message" /\ Op("ret").op = "ret"
    BY DEF Op
  <2> QED
    BY <1>2, <2>1, <2>2, <2>3
<1> QED
  BY <1>1, <1>2

\* Where the instructions are executed that are no part of composing a message.
InString(op) ==
  /\ Top.klass = "String" /\ MakesString(memory, Top)
  /\ Len(memory.frames) = Top.depth + 1 /\ Frame.klass = "String"
  /\ IF op = "ret" THEN Frame.ip # 1 ELSE Frame.ip = 1 /\ op = "sequence"
InBase(op) ==
  /\ Top.klass \in Klasses /\ Top.klass # "String" /\ Top.depth = 0 /\ MakesMessage(memory, Top)
  /\ Len(memory.frames) = 2 /\ memory.frames[1].ip = Finish(Top.klass)
  /\ Frame.klass = "Exception"
  /\ IF op = "ret" THEN Frame.ip # 1 ELSE Frame.ip = 1 /\ op = "message"
InDerived(op) ==
  /\ Top.klass \in Klasses /\ Top.klass # "String" /\ Top.depth = 0 /\ MakesMessage(memory, Top)
  /\ Len(memory.frames) = 1 /\ memory.frames[1].ip = Finish(Top.klass)
  /\ op = "ret"

LEMMA RunsWhere ==
  ASSUME IInv, DInv, NEW op \in {"sequence", "message", "ret"}, Executes(op)
  PROVE  InString(op) \/ InBase(op) \/ InDerived(op)
<1>1. /\ stack # <<>> /\ RunsCtor(Top) /\ Fits(Top)
      /\ Len(memory.frames) \in 1 .. 2 /\ Frame = memory.frames[Len(memory.frames)]
      /\ IsFrame(memory, Frame) /\ Ctor(Frame.klass)[Frame.ip].op = op
  BY Executing
<1>2. Made(memory, Top) /\ GivenFor(memory, Top, returned)
  BY <1>1, TopData
<1>3. Frame.klass \in {"String", "Exception"} =>
        IF op = "ret" THEN Frame.ip # 1
        ELSE Frame.ip = 1 /\ op = IF Frame.klass = "String" THEN "sequence" ELSE "message"
  <2>1. Frame.ip \in DOMAIN Ctor(Frame.klass)
    BY <1>1 DEF IsFrame
  <2> HIDE DEF Frame
  <2> QED
    BY <1>1, <2>1, ShortCtors
<1>4. CASE Top.klass = "String"
  <2>1. MakesString(memory, Top)
    <3> HIDE DEF Top
    <3> QED
      BY <1>1, <1>2, <1>4 DEF Made, RunsCtor
  <2>2. Len(memory.frames) = Top.depth + 1 /\ Frame.klass = "String"
    <3>1. /\ Len(memory.frames) = Top.depth + 1
          /\ memory.frames[Top.depth + 1].klass = "String"
      <4> HIDE DEF Top
      <4> QED
        BY <1>1, <2>1 DEF MakesString, RunsCtor
    <3> QED
      BY <1>1, <3>1
  <2> HIDE DEF Top, Frame
  <2> QED
    BY <1>3, <1>4, <2>1, <2>2 DEF InString
<1>5. CASE Top.klass # "String"
  <2>1. Top.klass \in Klasses /\ Top.depth = 0
    <3> HIDE DEF Top
    <3> QED
      BY <1>1, <1>5 DEF Fits, RunsCtor
  <2>2. MakesMessage(memory, Top)
    <3> HIDE DEF Top
    <3> QED
      BY <1>1, <1>2, <1>5 DEF Made, RunsCtor
  <2>3. memory.frames[1].ip # Finish(Top.klass) => Len(memory.frames) = 1
    <3> HIDE DEF Top
    <3> QED
      BY <1>1, <1>2, <1>5 DEF GivenFor
  <2>4. CASE Len(memory.frames) = 1
    <3>1. Frame = memory.frames[1] /\ Frame.klass = Top.klass
      BY <1>1, <2>2, <2>4 DEF MakesMessage
    <3>2. Frame.ip \in DOMAIN Ctor(Top.klass) /\ Ctor(Top.klass)[Frame.ip].op = op
      BY <1>1, <3>1 DEF IsFrame
    <3>3. op = "ret" /\ Frame.ip = Finish(Top.klass)
      <4>1. /\ Ctor(Top.klass)[Frame.ip].op = "ret" <=> Frame.ip = Finish(Top.klass)
            /\ Ctor(Top.klass)[Frame.ip].op \notin {"sequence", "message"}
        BY <2>1, <3>2, RetMoves
      <4> QED
        BY <3>2, <4>1
    <3> HIDE DEF Top, Frame
    <3> QED
      BY <1>5, <2>1, <2>2, <2>4, <3>1, <3>3 DEF InDerived
  <2>5. CASE Len(memory.frames) = 2
    <3>1. memory.frames[1].ip = Finish(Top.klass) /\ Frame = memory.frames[2]
      BY <1>1, <2>3, <2>5
    <3>2. memory.frames[2].klass = "Exception"
      BY <2>2, <2>5, <3>1 DEF MakesMessage
    <3> HIDE DEF Top, Frame
    <3> QED
      BY <1>3, <1>5, <2>1, <2>2, <2>5, <3>1, <3>2 DEF InBase
  <2> QED
    BY <1>1, <2>4, <2>5
<1> QED
  BY <1>4, <1>5

LEMMA RetMeant ==
  ASSUME IInv, DInv, Ret
  PROVE  DInv'
<1> DEFINE d == Len(memory.frames)
           at == IF d - 1 = Top.depth THEN 3 ELSE 2
           t == FrameLeft(memory)
           f == [Top EXCEPT !.at = at]
           self == InCell(memory, Top.cells[1])
<1>0. IInv'
  BY RetKeeps
<1>1. Executes("ret") /\ Goes(t, f, <<>>)
  BY DEF Ret, FrameLeft, Frame
<1>2. /\ stack # <<>> /\ RunsCtor(Top) /\ Fits(Top) /\ Sound(memory)
      /\ d \in 1 .. 2 /\ Frame = memory.frames[d] /\ Top.depth \in 0 .. 1
  BY <1>1, Executing
<1>3. InString("ret") \/ InBase("ret") \/ InDerived("ret")
  BY <1>1, RunsWhere
<1>4. /\ Sound(t) /\ t.heap = memory.heap /\ t.cells = memory.cells
      /\ t.operand = memory.operand /\ Len(t.frames) = d - 1
      /\ \A k \in 1 .. d - 1 : t.frames[k] = memory.frames[k]
  <2>1. memory.frames # <<>>
    <3>1. \A i \in 1 .. 2 : i # 0
      OBVIOUS
    <3>2. d # 0 /\ Len(<<>>) = 0
      BY <1>2, <3>1
    <3> QED
      BY <3>2
  <2> QED
    BY <1>2, <2>1, FrameLeftSound
<1> HIDE DEF t
<1>5. f = Now(Top, at, Top.cells, Top.args)
  BY <1>2, ActivationNow
<1> HIDE DEF f
<1>6. /\ f.fn = Top.fn /\ f.at = at /\ f.klass = Top.klass /\ f.texts = Top.texts
      /\ f.cells = Top.cells /\ f.args = Top.args /\ f.depth = Top.depth
      /\ f.fn = "createUnprotectedInstance"
  <2>1. Top.fn = "createUnprotectedInstance"
    BY <1>2 DEF RunsCtor
  <2> HIDE DEF Top, at
  <2> QED
    BY <1>5, <2>1, NowIs, NowTexts
<1>7. Grows(memory, t) /\ KeepsCells(memory, t) /\ t.operand["main"] = memory.operand["main"]
  BY <1>4 DEF Grows, KeepsCells
<1>8. Carries(memory, t, "")
  <2>1. Top.depth = 1 => /\ t.frames[1] = memory.frames[1]
                         /\ t.operand["agent"] = memory.operand["agent"]
    <3>1. SUFFICES ASSUME Top.depth = 1 PROVE t.frames[1] = memory.frames[1]
      BY <1>4
    <3>2. d = 2
      BY <1>3, <3>1 DEF InString, InBase, InDerived
    <3>3. 1 \in 1 .. 2 - 1
      OBVIOUS
    <3> QED
      BY <1>4, <3>2, <3>3
  <2> HIDE DEF Top
  <2> QED
    BY <1>2, <1>7, <2>1, CarriesGrown
<1>9. \A c : InCell(t, c) = InCell(memory, c)
  BY <1>4 DEF InCell
<1>10. CASE InString("ret")
  <2>1. at = 3
    <3>1. d = Top.depth + 1
      BY <1>10 DEF InString
    <3>2. \A k \in 0 .. 1 : (k + 1) - 1 = k
      OBVIOUS
    <3> QED
      BY <1>2, <3>1, <3>2
  <2>2. /\ Top.klass = "String" /\ MakesString(memory, Top)
        /\ memory.frames[Top.depth + 1].ip # 1 /\ Top.at = 2
    BY <1>2, <1>10 DEF InString, RunsCtor
  <2> HIDE DEF at, Top, self
  <2>3. MakesString(t, f)
    <3>1. /\ Top.args[1] # 0
          /\ HasField(memory, InCell(memory, Top.cells[1]), "sequence")
          /\ memory.heap[InCell(memory, Top.cells[1])].klass = "String"
          /\ memory.heap[InCell(memory, Top.cells[1])].refs["sequence"]
               = InCell(memory, Top.args[1])
      BY <2>2 DEF MakesString
    <3>2. HasField(t, InCell(memory, Top.cells[1]), "sequence")
      BY <1>4, <3>1, SameObjects
    <3> QED
      BY <1>4, <1>6, <1>9, <2>1, <3>1, <3>2 DEF MakesString
  <2>4. Made(t, f) /\ GivenFor(t, f, Nowhere)
    <3>1. Made(t, f)
      BY <1>6, <2>2, <2>3 DEF Made, TextFunctions
    <3>2. GivenFor(t, f, Nowhere)
      BY <1>6, <2>1 DEF GivenFor, RunsCtor, TakesHandle
    <3> QED
      BY <3>1, <3>2
  <2> QED
    BY <1>0, <1>1, <1>2, <1>6, <1>8, <2>4, StepData
<1>11. CASE InDerived("ret")
  <2>1. at = 3
    BY <1>11 DEF InDerived
  <2>2. /\ Top.klass # "String" /\ MakesMessage(memory, Top)
        /\ memory.frames[1].ip = Finish(Top.klass) /\ Len(memory.frames) = 1
    BY <1>11 DEF InDerived
  <2> HIDE DEF at, Top
  <2>3. IsRaised(memory, self, Top.klass)
    BY <2>2 DEF MakesMessage, IsRaised
  <2>4. IsRaised(t, InCell(t, f.cells[1]), f.klass)
    <3>1. InCell(t, f.cells[1]) = self /\ f.klass = Top.klass
      BY <1>6, <1>9
    <3> HIDE DEF self
    <3>2. IsRaised(t, self, Top.klass)
      BY <1>4, <2>3, SameObjects
    <3> QED
      BY <3>1, <3>2
  <2>5. Made(t, f)
    BY <1>6, <2>1, <2>2, <2>4 DEF Made, TextFunctions
  <2>6. GivenFor(t, f, Nowhere)
    BY <1>6, <2>1 DEF GivenFor, RunsCtor, TakesHandle
  <2> QED
    BY <1>0, <1>1, <1>2, <1>6, <1>8, <2>5, <2>6, StepData
<1>12. CASE InBase("ret")
  <2>1. at = 2
    <3>1. d = 2 /\ Top.depth = 0 /\ 2 - 1 # 0
      BY <1>12 DEF InBase
    <3> QED
      BY <3>1
  <2>2. /\ Top.klass # "String" /\ MakesMessage(memory, Top)
        /\ memory.frames[1].ip = Finish(Top.klass) /\ Len(memory.frames) = 2
        /\ memory.frames[2].ip # 1
    BY <1>2, <1>12 DEF InBase
  <2>3. Len(t.frames) = 1 /\ t.frames[1] = memory.frames[1]
    <3>1. 2 - 1 = 1 /\ 1 \in 1 .. 2 - 1
      OBVIOUS
    <3> QED
      BY <1>4, <2>2, <3>1
  <2> HIDE DEF at, Top
  <2>4. /\ memory.frames[1].klass = Top.klass /\ memory.frames[1].slots[1].obj = self
        /\ IsOf(memory, self, Top.klass) /\ Lacks(memory, self, "name")
        /\ Lacks(memory, self, "trace") /\ Says(memory, self, "message", Message(Top.klass))
    BY <2>2 DEF MakesMessage
  <2>5. InCell(t, f.cells[1]) = self /\ f.klass = Top.klass
    BY <1>6, <1>9
  <2>6. \A n \in 1 .. Len(Texts[Top.klass]) :
          IsText(memory, memory.frames[1].slots[n + 1].obj, <<Texts[Top.klass][n]>>)
    BY <2>2 DEF MakesMessage
  <2>7. \A n \in DOMAIN memory.operand["agent"] :
          Holds(memory, memory.operand["agent"][n].ptr.obj,
                Contents(Top.klass)[memory.frames[1].ip][n], self)
    BY <2>2 DEF MakesMessage
  <2> HIDE DEF self
  <2>8. /\ IsOf(t, self, Top.klass) /\ Lacks(t, self, "name")
        /\ Lacks(t, self, "trace") /\ Says(t, self, "message", Message(Top.klass))
    BY <1>4, <2>4, SameObjects
  <2>9. ASSUME NEW n \in 1 .. Len(Texts[Top.klass])
        PROVE  IsText(t, t.frames[1].slots[n + 1].obj, <<Texts[Top.klass][n]>>)
    <3> DEFINE text == <<Texts[Top.klass][n]>>
    <3>1. IsText(memory, memory.frames[1].slots[n + 1].obj, text)
      BY <2>6
    <3> HIDE DEF text
    <3>2. IsText(t, memory.frames[1].slots[n + 1].obj, text)
      BY <1>4, <3>1, SameObjects
    <3> QED
      BY <2>3, <3>2 DEF text
  <2>10. \A n \in DOMAIN t.operand["agent"] :
           Holds(t, t.operand["agent"][n].ptr.obj, Contents(Top.klass)[t.frames[1].ip][n], self)
    BY <1>2, <1>4, <1>7, <2>3, <2>7, HoldsStays
  <2>11. MakesMessage(t, f)
    BY <2>2, <2>3, <2>4, <2>5, <2>8, <2>9, <2>10 DEF MakesMessage
  <2>12. Made(t, f)
    BY <1>6, <2>1, <2>2, <2>11 DEF Made, TextFunctions
  <2>13. GivenFor(t, f, Nowhere)
    BY <1>6, <2>2, <2>3 DEF GivenFor, RunsCtor, TakesHandle
  <2> QED
    BY <1>0, <1>1, <1>2, <1>6, <1>8, <2>12, <2>13, StepData
<1> QED
  BY <1>3, <1>10, <1>11, <1>12

\* An exception is created for a function that raises it, and for nothing else.
LEMMA RaisedBelow ==
  ASSUME IInv, DInv, stack # <<>>, Top.fn = "createUnprotectedInstance", Top.klass # "String"
  PROVE  \A d \in DOMAIN Front(stack) :
           stack[d].fn \notin {"handleException", "createUnprotectedInstance"}
<1> DEFINE n == Len(stack)
<1>1. /\ n \in Nat \ {0} /\ DOMAIN stack = 1 .. n /\ DOMAIN Front(stack) = 1 .. n - 1
      /\ stack[n] = Top
  BY InStack
<1>2. \A d \in DOMAIN stack : IF d = 1 THEN Outermost(stack[d]) ELSE CalledBy(stack[d - 1], stack[d])
  BY DEF IInv, Chain
<1>3. n # 1
  <2>1. ~ Outermost(Top)
    BY DEF Outermost
  <2> QED
    BY <1>1, <1>2, <2>1
<1>4. stack[n - 1].fn = "createInstance"
  <2>1. Len(stack) # 1
    BY <1>3
  <2>2. CalledBy(Caller, Top) /\ CalledFor(memory, Caller, Top)
    BY <2>1, CallerIs
  <2>3. Caller.fn = "createInstance"
    BY <2>2 DEF CalledFor
  <2> QED
    BY <2>3 DEF Caller
<1>5. n - 1 # 1 /\ n - 1 \in DOMAIN stack
  <2>1. n - 1 \in DOMAIN stack
    <3> HIDE DEF n
    <3> QED
      BY <1>1, <1>3
  <2>2. ~ Outermost(stack[n - 1])
    BY <1>4 DEF Outermost
  <2> QED
    BY <1>2, <2>1, <2>2
<1>6. stack[(n - 1) - 1].fn = "raise" /\ (n - 1) - 1 \in DOMAIN stack
  <2>1. CalledBy(stack[(n - 1) - 1], stack[n - 1])
    BY <1>2, <1>5
  <2>2. (n - 1) - 1 \in DOMAIN stack
    <3> HIDE DEF n
    <3> QED
      BY <1>1, <1>5
  <2> QED
    BY <1>4, <2>1, <2>2 DEF CalledBy
<1>7. (n - 1) - 1 = 1
  <2>1. \A a : ~ CalledBy(a, stack[(n - 1) - 1])
    BY <1>6 DEF CalledBy
  <2> QED
    BY <1>2, <1>6, <2>1
<1>8. \A d \in DOMAIN Front(stack) : d = n - 1 \/ d = (n - 1) - 1
  <2> HIDE DEF n
  <2>1. n = 3
    BY <1>1, <1>7
  <2> QED
    BY <1>1, <2>1
<1> QED
  BY <1>4, <1>6, <1>8

LEMMA StfldMeant ==
  ASSUME IInv, DInv, NEW field \in {"sequence", "message"}, Stfld(field)
  PROVE  DInv'
<1> DEFINE id == Frame.slots[1].obj
           ptr == Frame.slots[2]
           u == WithRefs(memory, id, Written(memory.heap[id].refs, id, field, ptr.obj))
           t == Advanced(u)
           self == InCell(memory, Top.cells[1])
           d == Len(memory.frames)
<1>0. IInv'
  BY StfldKeeps
<1>1. Executes(field) /\ Goes(t, Top, <<>>)
  BY DEF Stfld, WithRefs, Step
<1>2. /\ stack # <<>> /\ RunsCtor(Top) /\ Fits(Top) /\ Sound(memory)
      /\ d \in 1 .. 2 /\ Frame = memory.frames[d] /\ Top.depth \in 0 .. 1
      /\ IsFrame(memory, Frame) /\ Behaves(Frame.klass, Frame.ip)
      /\ Ctor(Frame.klass)[Frame.ip].op = field
  BY <1>1, Executing
<1>3. InString(field) \/ InBase(field)
  BY <1>1, RunsWhere DEF InDerived
<1>4. Live(memory, ptr) /\ Live(memory, Frame.slots[1])
  <2>1. /\ IsSeq(Frame.slots) /\ Len(Frame.slots) = Arity(Frame.klass) + 1
        /\ \A k \in DOMAIN Frame.slots : Live(memory, Frame.slots[k])
    BY <1>2 DEF IsFrame
  <2>2. Arity(Frame.klass) = 1
    BY <1>3 DEF InString, InBase, Arity
  <2>3. 1 \in DOMAIN Frame.slots /\ 2 \in DOMAIN Frame.slots
    BY <2>1, <2>2, SeqLength
  <2> QED
    BY <2>1, <2>3
<1> HIDE DEF ptr
<1>5. /\ Sound(u) /\ u.cells = memory.cells /\ u.operand = memory.operand
      /\ u.frames = memory.frames
  <2> DEFINE p == Frame.slots[1]
  <2>1. Live(memory, p)
    BY <1>4
  <2> HIDE DEF p
  <2>2. LET w == WithRefs(memory, p.obj, Written(memory.heap[p.obj].refs, p.obj, field, ptr.obj))
        IN Sound(w) /\ w.cells = memory.cells /\ w.operand = memory.operand
           /\ w.frames = memory.frames
    BY <1>2, <1>4, <2>1, StfldSound
  <2> QED
    BY <2>2 DEF p
<1>6. /\ t.heap = u.heap /\ t.cells = memory.cells /\ t.operand = memory.operand
      /\ Len(t.frames) = d /\ t.frames[d].klass = Frame.klass
      /\ t.frames[d].ip = Frame.ip + 1 /\ t.frames[d].slots = Frame.slots
      /\ \A k \in 1 .. d - 1 : t.frames[k] = memory.frames[k]
  <2>1. u.frames # <<>>
    <3>1. \A i \in 1 .. 2 : i # 0
      OBVIOUS
    <3>2. d # 0 /\ Len(<<>>) = 0
      BY <1>2, <3>1
    <3> QED
      BY <1>5, <3>2
  <2>2. Frame.ip + 1 \in DOMAIN Ctor(Frame.klass)
    <3> HIDE DEF Frame
    <3> QED
      BY <1>2 DEF Behaves
  <2>3. LET f == u.frames[Len(u.frames)] IN f.ip + 1 \in DOMAIN Ctor(f.klass)
    BY <1>2, <1>5, <2>2
  <2> HIDE DEF u
  <2>4. t.heap = u.heap /\ t.cells = u.cells /\ t.operand = u.operand
    BY <1>5, <2>1, <2>3, AdvancedSound
  <2>5. /\ Len(t.frames) = Len(u.frames)
        /\ t.frames[Len(u.frames)].klass = u.frames[Len(u.frames)].klass
        /\ t.frames[Len(u.frames)].ip = u.frames[Len(u.frames)].ip + 1
        /\ t.frames[Len(u.frames)].slots = u.frames[Len(u.frames)].slots
        /\ \A k \in 1 .. Len(u.frames) - 1 : t.frames[k] = u.frames[k]
    BY <1>5, <2>1, <2>3, AdvancedSound
  <2> HIDE DEF t, Frame
  <2> QED
    BY <1>2, <1>5, <2>4, <2>5
<1>7. /\ id = self /\ Lacks(memory, self, field)
      /\ field = "message" => /\ DOMAIN memory.heap[self].refs = {"message", "name", "trace"}
                              /\ Lacks(memory, self, "name") /\ Lacks(memory, self, "trace")
  <2>1. CASE InString(field)
    <3>1. /\ MakesString(memory, Top) /\ Top.at = 2 /\ Frame = memory.frames[Top.depth + 1]
          /\ memory.frames[Top.depth + 1].ip = 1 /\ field = "sequence"
      BY <1>2, <2>1 DEF InString, RunsCtor
    <3>2. /\ memory.frames[Top.depth + 1].slots[1].obj = self
          /\ Lacks(memory, self, "sequence")
      <4> HIDE DEF Top
      <4> QED
        BY <3>1 DEF MakesString
    <3> QED
      BY <3>1, <3>2
  <2>2. CASE InBase(field)
    <3>1. /\ MakesMessage(memory, Top) /\ Frame = memory.frames[2] /\ Len(memory.frames) = 2
          /\ memory.frames[2].ip = 1 /\ memory.frames[1].ip = Finish(Top.klass)
          /\ field = "message"
      BY <1>2, <2>2 DEF InBase
    <3>2. /\ memory.frames[2].slots[1].obj = self /\ Lacks(memory, self, "message")
          /\ DOMAIN memory.heap[self].refs = {"message", "name", "trace"}
          /\ Lacks(memory, self, "name") /\ Lacks(memory, self, "trace")
      <4> HIDE DEF Top
      <4> QED
        BY <3>1 DEF MakesMessage, IsOf
    <3> QED
      BY <3>1, <3>2
  <2> QED
    BY <1>3, <2>1, <2>2
<1>8. /\ Follows(memory, t, DOMAIN memory.heap, field)
      /\ FieldIs(t, self, field, ptr.obj)
  <2>1. t.heap = WithRefs(memory, self, Written(memory.heap[self].refs, self, field, ptr.obj)).heap
    BY <1>6, <1>7
  <2> HIDE DEF t, self, id, u
  <2> QED
    BY <1>2, <1>4, <1>7, <2>1, WrittenFollows
<1> HIDE DEF t, u
<1>9. KeepsCells(memory, t) /\ t.operand["main"] = memory.operand["main"]
      /\ \A c : InCell(t, c) = InCell(memory, c)
  BY <1>6 DEF KeepsCells, InCell
<1>10. Carries(memory, t, field)
  <2>1. Top.depth = 1 => /\ t.frames[1] = memory.frames[1]
                         /\ t.operand["agent"] = memory.operand["agent"]
    <3>1. SUFFICES ASSUME Top.depth = 1 PROVE t.frames[1] = memory.frames[1]
      BY <1>6
    <3>2. d = 2
      BY <1>3, <3>1 DEF InString, InBase
    <3>3. 1 \in 1 .. 2 - 1
      OBVIOUS
    <3> QED
      BY <1>6, <3>2, <3>3
  <2>2. field \in {"message", "name", "trace"} =>
          \A k \in DOMAIN Front(stack) :
            stack[k].fn \notin {"handleException", "createUnprotectedInstance"}
    <3>1. field = "message" => Top.klass # "String"
      BY <1>3 DEF InString, InBase
    <3>2. Top.fn = "createUnprotectedInstance"
      BY <1>2 DEF RunsCtor
    <3> QED
      BY <1>2, <3>1, <3>2, RaisedBelow
  <2> HIDE DEF Top
  <2> QED
    BY <1>8, <1>9, <2>1, <2>2 DEF Carries
<1>11. CASE InString(field)
  <2>1. /\ MakesString(memory, Top) /\ Top.at = 2 /\ Frame = memory.frames[Top.depth + 1]
        /\ memory.frames[Top.depth + 1].ip = 1 /\ field = "sequence" /\ d = Top.depth + 1
        /\ Top.klass = "String" /\ Frame.klass = "String" /\ Frame.ip = 1
    BY <1>2, <1>11 DEF InString, RunsCtor
  <2>2. /\ t.frames[Top.depth + 1].klass = "String" /\ t.frames[Top.depth + 1].ip = 2
        /\ t.frames[Top.depth + 1].slots = memory.frames[Top.depth + 1].slots
        /\ Len(t.frames) = Top.depth + 1
    <3>1. 1 + 1 = 2
      OBVIOUS
    <3> HIDE DEF Top, Frame
    <3> QED
      BY <1>6, <2>1, <3>1
  <2>3. ptr = memory.frames[Top.depth + 1].slots[2]
    BY <2>1 DEF ptr
  <2>4. Top.fn = "createUnprotectedInstance"
    BY <1>2 DEF RunsCtor
  <2> HIDE DEF Top, Frame
  <2>5. /\ Top.args[1] # 0
        /\ memory.frames[Top.depth + 1].slots[1].obj = self
        /\ ptr.obj = InCell(memory, Top.args[1])
        /\ memory.heap[self].klass = "String"
    BY <2>1, <2>3 DEF MakesString
  <2> HIDE DEF self
  <2>6. t.heap[self].klass = "String"
    BY <1>7, <1>8, <2>5 DEF Follows, Lacks, HasField
  <2>7. HasField(t, self, "sequence") /\ t.heap[self].refs["sequence"] = InCell(t, Top.args[1])
    BY <1>8, <1>9, <2>1, <2>5 DEF FieldIs
  <2>8. InCell(t, Top.cells[1]) = self
    BY <1>9 DEF self
  <2>9. MakesString(t, Top)
    BY <1>9, <2>1, <2>2, <2>5, <2>6, <2>7, <2>8 DEF MakesString
  <2>10. Made(t, Top)
    BY <2>1, <2>4, <2>9 DEF Made, TextFunctions
  <2>11. GivenFor(t, Top, Nowhere)
    BY <2>1, <2>4 DEF GivenFor, TakesHandle
  <2> QED
    BY <1>0, <1>1, <1>2, <1>10, <2>10, <2>11, StepData
<1>12. CASE InBase(field)
  <2>1. /\ MakesMessage(memory, Top) /\ Top.at = 2 /\ Frame = memory.frames[2] /\ d = 2
        /\ Len(memory.frames) = 2 /\ memory.frames[1].ip = Finish(Top.klass)
        /\ field = "message" /\ Top.klass # "String"
        /\ Frame.klass = "Exception" /\ Frame.ip = 1
        /\ Top.fn = "createUnprotectedInstance"
    BY <1>2, <1>12 DEF InBase, RunsCtor
  <2>2. /\ t.frames[2].klass = "Exception" /\ t.frames[2].ip = 2
        /\ t.frames[2].slots = memory.frames[2].slots
        /\ t.frames[1] = memory.frames[1] /\ Len(t.frames) = 2
    <3>1. 1 + 1 = 2 /\ 1 \in 1 .. 2 - 1
      OBVIOUS
    <3> HIDE DEF Top, Frame
    <3> QED
      BY <1>6, <2>1, <3>1
  <2>3. ptr = memory.frames[2].slots[2]
    BY <2>1 DEF ptr
  <2> HIDE DEF Top, Frame
  <2>4. /\ memory.frames[1].klass = Top.klass /\ memory.frames[1].slots[1].obj = self
        /\ IsOf(memory, self, Top.klass) /\ Lacks(memory, self, "name")
        /\ Lacks(memory, self, "trace")
        /\ memory.frames[2].slots[1].obj = self
        /\ IsText(memory, memory.frames[2].slots[2].obj, Message(Top.klass))
    BY <2>1 DEF MakesMessage
  <2>5. \A n \in 1 .. Len(Texts[Top.klass]) :
          IsText(memory, memory.frames[1].slots[n + 1].obj, <<Texts[Top.klass][n]>>)
    BY <2>1 DEF MakesMessage
  <2>6. \A n \in DOMAIN memory.operand["agent"] :
          Holds(memory, memory.operand["agent"][n].ptr.obj,
                Contents(Top.klass)[memory.frames[1].ip][n], self)
    BY <2>1 DEF MakesMessage
  <2>7. InCell(t, Top.cells[1]) = self
    BY <1>9 DEF self
  <2> HIDE DEF self
  <2>8. ASSUME NEW i \in DOMAIN memory.heap
        PROVE  /\ \A text : IsText(memory, i, text) => IsText(t, i, text)
               /\ \A text : IsArray(memory, i, text) => IsArray(t, i, text)
               /\ \A f : Lacks(memory, i, f) /\ f # field => Lacks(t, i, f)
               /\ \A klass : IsOf(memory, i, klass) => IsOf(t, i, klass)
    <3> DEFINE K == DOMAIN memory.heap
    <3>1. i \in K \cup {0} /\ Follows(memory, t, K, field)
      BY <1>8
    <3> HIDE DEF K
    <3> QED
      BY <1>2, <3>1, FactsStay
  <2>9. ASSUME NEW i, NEW text, IsText(memory, i, text) PROVE IsText(t, i, text)
    BY <2>8, <2>9 DEF IsText, HasField
  <2>10. ASSUME NEW i, NEW text, IsArray(memory, i, text) PROVE IsArray(t, i, text)
    BY <2>8, <2>10 DEF IsArray
  <2>11. IsOf(t, self, Top.klass) /\ Lacks(t, self, "name") /\ Lacks(t, self, "trace")
    <3>1. self \in DOMAIN memory.heap
      BY <2>4 DEF IsOf
    <3> QED
      BY <2>1, <2>4, <2>8, <3>1
  <2>12. IsText(t, memory.frames[2].slots[2].obj, Message(Top.klass))
    BY <2>4, <2>9
  <2>13. Says(t, self, "message", Message(Top.klass))
    <3>1. ptr.obj # self
      BY <2>1, <2>3, <2>4 DEF IsOf, IsText
    <3> QED
      BY <1>8, <2>1, <2>3, <2>12, <3>1 DEF Says, FieldIs
  <2>14. \A n \in 1 .. Len(Texts[Top.klass]) :
           IsText(t, t.frames[1].slots[n + 1].obj, <<Texts[Top.klass][n]>>)
    <3> TAKE n \in 1 .. Len(Texts[Top.klass])
    <3> DEFINE text == <<Texts[Top.klass][n]>>
    <3>1. IsText(memory, memory.frames[1].slots[n + 1].obj, text)
      BY <2>5
    <3> HIDE DEF text
    <3>2. IsText(t, memory.frames[1].slots[n + 1].obj, text)
      BY <2>9, <3>1
    <3> QED
      BY <2>2, <3>2 DEF text
  <2>15. \A n \in DOMAIN t.operand["agent"] :
           Holds(t, t.operand["agent"][n].ptr.obj, Contents(Top.klass)[t.frames[1].ip][n], self)
    <3>1. ASSUME NEW i, NEW content, Holds(memory, i, content, self)
          PROVE  Holds(t, i, content, self)
      BY <2>9, <2>10, <3>1, Zenon DEF Holds
    <3> QED
      BY <1>6, <2>2, <2>6, <3>1
  <2>16. MakesMessage(t, Top)
    BY <2>1, <2>2, <2>4, <2>7, <2>11, <2>12, <2>13, <2>14, <2>15 DEF MakesMessage
  <2>17. Made(t, Top)
    BY <2>1, <2>16 DEF Made, TextFunctions
  <2>18. GivenFor(t, Top, Nowhere)
    BY <2>1, <2>2 DEF GivenFor, TakesHandle
  <2> QED
    BY <1>0, <1>1, <1>2, <1>10, <2>17, <2>18, StepData
<1> QED
  BY <1>3, <1>11, <1>12

LEMMA NextMeant ==
  ASSUME IInv, DInv, [Next]_vars
  PROVE  DInv'
<1>1. CASE Agent
  BY <1>1, BeginInstanceMeant, EndInstanceMeant, BeginStringMeant, EndStringMeant,
     BeginProtectedMeant, EndProtectedMeant, LdargMeant, CreatesStringMeant, NewarrayMeant,
     NewstringMeant, BaseCtorMeant, RetMeant, StfldMeant, BeginLoadMeant, EndLoadMeant,
     RaiseTextMeant, RaiseCreateMeant, RaiseHandleMeant, HandledMeant
     DEF Agent
<1>2. CASE Unhandled
  BY <1>2, UnhandledMeant
<1>3. CASE Instruction
  BY <1>3, InstructionMeant
<1>4. CASE Drop
  BY <1>4, DropMeant
<1>5. CASE Ended
  BY <1>5, StutterMeant DEF Ended
<1>6. CASE UNCHANGED vars
  BY <1>6, StutterMeant
<1> QED
  BY <1>1, <1>2, <1>3, <1>4, <1>5, <1>6 DEF Next

LEMMA MeantInv ==
  ASSUME DInv
  PROVE  CreatedAsMeant
<1>1. ASSUME NEW id, NEW text, IsText(memory, id, text)
      PROVE  TextOf(memory, [obj |-> id]) = text /\ memory.heap[id].klass = "String"
  <2> DEFINE ptr == [obj |-> id]
  <2>1. ptr.obj = id
    OBVIOUS
  <2> HIDE DEF ptr
  <2>2. TextOf(memory, ptr) = text
    BY <1>1, <2>1, TextIs
  <2> QED
    BY <1>1, <2>2 DEF IsText, ptr
<1>2. ASSUME NEW id, NEW field, NEW text, Says(memory, id, field, text)
      PROVE  FieldText(id, field) = text
  BY <1>1, <1>2 DEF Says, FieldText
<1>3. ASSUME NEW n \in DOMAIN memory.operand["main"]
      PROVE  IsMeant(memory.operand["main"][n].ptr.obj, memory.operand["main"][n].meant)
  <2> DEFINE item == memory.operand["main"][n]
             id == item.ptr.obj
             meant == item.meant
  <2>1. IsSaid(memory, item)
    BY DEF DInv, Data
  <2>2. /\ meant.klass = "String" => IsText(memory, id, meant.text)
        /\ meant.klass # "String" => IsComplete(memory, id, meant.klass)
    BY <2>1 DEF IsSaid
  <2> HIDE DEF item, id, meant
  <2>3. ASSUME meant.klass = "String" PROVE IsMeant(id, meant)
    BY <1>1, <2>2, <2>3 DEF IsMeant
  <2>4. ASSUME meant.klass # "String" PROVE IsMeant(id, meant)
    <3> DEFINE name == <<meant.klass>>
               trace == <<"trace">>
    <3>1. /\ memory.heap[id].klass = meant.klass
          /\ Says(memory, id, "message", Message(meant.klass))
          /\ Says(memory, id, "name", name) /\ Says(memory, id, "trace", trace)
      BY <2>2, <2>4 DEF IsComplete, IsOf
    <3>2. FieldText(id, "message") = Message(meant.klass)
      BY <1>2, <3>1
    <3>3. FieldText(id, "name") = name
      BY <1>2, <3>1
    <3>4. FieldText(id, "trace") = trace
      BY <1>2, <3>1
    <3> QED
      BY <2>4, <3>1, <3>2, <3>3, <3>4 DEF IsMeant
  <2>5. IsMeant(id, meant)
    BY <2>3, <2>4
  <2> QED
    BY <2>5 DEF id, item, meant
<1> QED
  BY <1>3 DEF CreatedAsMeant, DInv

LEMMA MeantInvariant == Spec => [](IInv /\ DInv)
<1>1. Init => IInv /\ DInv
  BY InitInv, InitMeant
<1>2. IInv /\ DInv /\ [Next]_vars => IInv' /\ DInv'
  BY NextInv, NextMeant
<1> QED
  BY <1>1, <1>2, PTL DEF Spec

\* Every string the virtual machine creates has its text, and every exception its message,
\* its name and its trace, whatever was allocated while it was made
\* (Agent::createUnprotectedString, createUnprotectedInstance, Processor::handleException).
THEOREM ObjectsAsMeant == Spec => []CreatedAsMeant
<1>1. IInv /\ DInv => CreatedAsMeant
  BY MeantInv
<1> QED
  BY <1>1, MeantInvariant, PTL

=============================================================================
