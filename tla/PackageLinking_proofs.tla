----------------------- MODULE PackageLinking_proofs -----------------------
(***************************************************************************)
(* Packages find each other's symbols, proved for every set of packages,   *)
(* whatever they declare and in whatever order they are built again.       *)
(***************************************************************************)
EXTENDS PackageLinking, DataLemmas

ArrayMark == Lower("[]")

-----------------------------------------------------------------------------
(***************************************************************************)
(* Dictionaries whose tokens refer by place to those before them.          *)
(***************************************************************************)
IsText(D, id) == id \in DOMAIN D /\ D[id].token.kind = "text"

Plain(D, i, text) ==
  /\ D[i] = [key |-> <<Lower(text)>>, token |-> TextToken(i, text)]
  /\ Lower(text) # ArrayMark
Constructed(D, i, ids) ==
  /\ IsSeq(ids) /\ Len(ids) > 1
  /\ \A n \in DOMAIN ids : ids[n] \in 1 .. i - 1 /\ IsText(D, ids[n])
  /\ D[i] = [key |-> [n \in DOMAIN ids |-> D[ids[n]].key[1]], token |-> ConstructedToken(i, ids)]
OfArrays(D, i, id) ==
  /\ id \in 1 .. i - 1 /\ D[id].token.kind # "array"
  /\ D[i] = [key |-> D[id].key \o <<ArrayMark>>, token |-> ArrayToken(i, id)]

Entry(D, i) ==
  \/ \E text : Plain(D, i, text)
  \/ \E ids : Constructed(D, i, ids)
  \/ \E id : OfArrays(D, i, id)

Dict(D) ==
  /\ IsSeq(D)
  /\ \A i \in DOMAIN D : Entry(D, i)
  /\ \A i, j \in DOMAIN D : D[i].key = D[j].key => i = j

Extends(D, E) ==
  /\ IsSeq(D) /\ IsSeq(E) /\ Len(D) <= Len(E)
  /\ \A i \in 1 .. Len(D) : E[i] = D[i]

LEMMA ExtendsTransitive ==
  ASSUME NEW D, NEW E, NEW F, Extends(D, E), Extends(E, F)
  PROVE  Extends(D, F)
BY SeqLength DEF Extends

LEMMA EntryStays ==
  ASSUME NEW D, NEW E, Dict(D), Extends(D, E), NEW i \in DOMAIN D
  PROVE  Entry(E, i)
<1>1. Len(D) \in Nat /\ Len(E) \in Nat /\ DOMAIN D = 1 .. Len(D) /\ DOMAIN E = 1 .. Len(E)
  BY SeqLength DEF Dict, Extends
<1>2. /\ Len(D) <= Len(E) /\ \A k \in DOMAIN D : k \in DOMAIN E /\ E[k] = D[k]
      /\ E[i] = D[i]
  BY <1>1 DEF Extends
<1>3. ASSUME NEW text, Plain(D, i, text) PROVE Plain(E, i, text)
  BY <1>2, <1>3 DEF Plain
<1>4. ASSUME NEW ids, Constructed(D, i, ids) PROVE Constructed(E, i, ids)
  <2>1. \A n \in DOMAIN ids : /\ ids[n] \in DOMAIN D /\ IsText(D, ids[n])
                              /\ E[ids[n]] = D[ids[n]] /\ IsText(E, ids[n])
    BY <1>1, <1>2, <1>4 DEF Constructed, IsText
  <2>2. [n \in DOMAIN ids |-> D[ids[n]].key[1]] = [n \in DOMAIN ids |-> E[ids[n]].key[1]]
    BY <2>1
  <2> QED
    BY <1>2, <1>4, <2>1, <2>2 DEF Constructed
<1>5. ASSUME NEW id, OfArrays(D, i, id) PROVE OfArrays(E, i, id)
  <2>1. id \in DOMAIN D /\ E[id] = D[id]
    BY <1>1, <1>2, <1>5 DEF OfArrays
  <2> QED
    BY <1>2, <1>5, <2>1 DEF OfArrays
<1>6. Entry(D, i)
  BY DEF Dict
<1> QED
  BY <1>3, <1>4, <1>5, <1>6 DEF Entry

\* What a key says of the token found by it.
LEMMA EntryShape ==
  ASSUME NEW D, Dict(D), NEW i \in DOMAIN D
  PROVE  /\ IsSeq(D[i].key) /\ D[i].token.id = i
         /\ D[i].token.kind \in {"text", "constructed", "array"}
         /\ D[i].token.kind = "text" =>
              /\ D[i].token.of = <<D[i].token.of[1]>> /\ D[i].key = <<Lower(D[i].token.of[1])>>
              /\ Len(D[i].key) = 1
         /\ D[i].token.kind = "constructed" => Len(D[i].key) > 1
         /\ D[i].token.kind # "array" => \A n \in 1 .. Len(D[i].key) : D[i].key[n] # ArrayMark
         /\ D[i].token.kind = "array" =>
              Len(D[i].key) > 1 /\ D[i].key[Len(D[i].key)] = ArrayMark
<1>1. Len(D) \in Nat /\ DOMAIN D = 1 .. Len(D)
  BY SeqLength DEF Dict
<1> DEFINE Shape(k) ==
         /\ IsSeq(D[k].key) /\ D[k].token.id = k
         /\ D[k].token.kind \in {"text", "constructed", "array"}
         /\ D[k].token.kind = "text" =>
              /\ D[k].token.of = <<D[k].token.of[1]>> /\ D[k].key = <<Lower(D[k].token.of[1])>>
              /\ Len(D[k].key) = 1
         /\ D[k].token.kind = "constructed" => Len(D[k].key) > 1
         /\ D[k].token.kind # "array" => \A n \in 1 .. Len(D[k].key) : D[k].key[n] # ArrayMark
         /\ D[k].token.kind = "array" =>
              Len(D[k].key) > 1 /\ D[k].key[Len(D[k].key)] = ArrayMark
<1>2. ASSUME NEW k \in DOMAIN D, NEW text, Plain(D, k, text) PROVE Shape(k) /\ Len(D[k].key) = 1
  <2>1. /\ D[k].key = <<Lower(text)>> /\ D[k].token = TextToken(k, text)
        /\ Lower(text) # ArrayMark
    BY <1>2 DEF Plain
  <2>2. IsSeq(<<Lower(text)>>) /\ Len(<<Lower(text)>>) = 1 /\ <<Lower(text)>>[1] = Lower(text)
    BY OneSeq
  <2>3. D[k].token.id = k /\ D[k].token.kind = "text" /\ D[k].token.of = <<text>>
    BY <2>1 DEF TextToken
  <2>4. \A n \in 1 .. 1 : n = 1
    OBVIOUS
  <2> QED
    BY <2>1, <2>2, <2>3, <2>4
<1>3. ASSUME NEW k \in DOMAIN D, D[k].token.kind = "text"
      PROVE  Shape(k) /\ Len(D[k].key) = 1
  <2>1. \A ids : ~Constructed(D, k, ids)
    BY <1>3 DEF Constructed, ConstructedToken
  <2>2. \A id : ~OfArrays(D, k, id)
    BY <1>3 DEF OfArrays, ArrayToken
  <2>3. Entry(D, k)
    BY DEF Dict
  <2> QED
    BY <1>2, <2>1, <2>2, <2>3 DEF Entry
<1>4. ASSUME NEW k \in DOMAIN D, NEW ids, Constructed(D, k, ids)
      PROVE  Shape(k) /\ D[k].token.kind = "constructed"
  <2>1. Len(ids) \in Nat /\ DOMAIN ids = 1 .. Len(ids) /\ Len(ids) > 1
    BY <1>4, SeqLength DEF Constructed
  <2>2. /\ D[k].key = [n \in DOMAIN ids |-> D[ids[n]].key[1]]
        /\ D[k].token.id = k /\ D[k].token.kind = "constructed"
    BY <1>4 DEF Constructed, ConstructedToken
  <2>3. IsSeq(D[k].key) /\ Len(D[k].key) = Len(ids)
    <3>1. D[k].key = [n \in 1 .. Len(ids) |-> D[k].key[n]] /\ DOMAIN D[k].key = 1 .. Len(ids)
      BY <2>1, <2>2
    <3> QED
      BY <2>1, <3>1, FunctionSeq
  <2>4. ASSUME NEW n \in 1 .. Len(ids) PROVE D[k].key[n] # ArrayMark
    <3>1. IsText(D, ids[n]) /\ D[k].key[n] = D[ids[n]].key[1]
      BY <1>4, <2>1, <2>2 DEF Constructed
    <3>2. ids[n] \in DOMAIN D /\ D[ids[n]].token.kind = "text"
      BY <3>1 DEF IsText
    <3>3. Shape(ids[n]) /\ Len(D[ids[n]].key) = 1
      BY <3>2, <1>3
    <3> QED
      BY <3>1, <3>2, <3>3
  <2> QED
    BY <2>1, <2>2, <2>3, <2>4
<1>5. ASSUME NEW k \in DOMAIN D, D[k].token.kind # "array" PROVE Shape(k) /\ Len(D[k].key) >= 1
  <2>1. \A id : ~OfArrays(D, k, id)
    BY <1>5 DEF OfArrays, ArrayToken
  <2>2. Entry(D, k)
    BY DEF Dict
  <2>3. Shape(k)
    BY <1>2, <1>4, <2>1, <2>2 DEF Entry
  <2>4. Len(D[k].key) \in Nat
    BY <2>3, SeqLength
  <2> QED
    BY <1>5, <2>3, <2>4
<1>6. ASSUME NEW k \in DOMAIN D, NEW id, OfArrays(D, k, id) PROVE Shape(k)
  <2>1. /\ id \in DOMAIN D /\ D[id].token.kind # "array"
        /\ D[k].key = D[id].key \o <<ArrayMark>>
        /\ D[k].token.id = k /\ D[k].token.kind = "array"
    BY <1>1, <1>6 DEF OfArrays, ArrayToken
  <2>2. IsSeq(D[id].key) /\ Len(D[id].key) >= 1 /\ Len(D[id].key) \in Nat
    BY <1>5, <2>1, SeqLength
  <2>3. IsSeq(<<ArrayMark>>) /\ Len(<<ArrayMark>>) = 1 /\ <<ArrayMark>>[1] = ArrayMark
    BY OneSeq
  <2>4. /\ IsSeq(D[id].key \o <<ArrayMark>>)
        /\ Len(D[id].key \o <<ArrayMark>>) = Len(D[id].key) + 1
        /\ \A n \in 1 .. 1 : (D[id].key \o <<ArrayMark>>)[Len(D[id].key) + n] = <<ArrayMark>>[n]
    BY <2>2, <2>3, JoinSeq
  <2>5. (D[id].key \o <<ArrayMark>>)[Len(D[id].key) + 1] = ArrayMark
    BY <2>3, <2>4
  <2> QED
    BY <2>1, <2>2, <2>4, <2>5
<1>7. Entry(D, i)
  BY DEF Dict
<1>8. Shape(i)
  BY <1>2, <1>4, <1>6, <1>7 DEF Entry
<1> QED
  BY <1>8

-----------------------------------------------------------------------------
(***************************************************************************)
(* The names of tokens.                                                    *)
(***************************************************************************)
LEMMA SameSeq ==
  ASSUME NEW s, IsSeq(s), NEW t, IsSeq(t), Len(s) = Len(t), \A i \in 1 .. Len(s) : s[i] = t[i]
  PROVE  s = t
<1>1. s = [i \in 1 .. Len(s) |-> s[i]] /\ t = [i \in 1 .. Len(t) |-> t[i]]
  BY DEF IsSeq
<1> QED
  BY <1>1

\* FlattenSeq of sequences of one element each, and of one sequence.
Flattening(seqs, f, i) == IF i = 1 THEN seqs[i] ELSE f[i-1] \o seqs[i]

LEMMA FlattenOnes ==
  ASSUME NEW s, IsSeq(s), Len(s) > 0
  PROVE  FlattenSeq([i \in DOMAIN s |-> <<s[i]>>]) = s
<1> DEFINE seqs == [i \in DOMAIN s |-> <<s[i]>>]
           F == CHOOSE f : f = [i \in 1 .. Len(seqs) |-> Flattening(seqs, f, i)]
           firsts == [i \in 1 .. Len(s) |-> SubSeq(s, 1, i)]
<1>1. Len(s) \in Nat /\ DOMAIN s = 1 .. Len(s) /\ Len(seqs) = Len(s)
  <2>1. Len(s) \in Nat /\ DOMAIN s = 1 .. Len(s)
    BY SeqLength
  <2>2. DOMAIN seqs = 1 .. Len(s) /\ seqs = [i \in 1 .. Len(s) |-> seqs[i]]
    BY <2>1
  <2> HIDE DEF seqs
  <2> QED
    BY <2>1, <2>2, FunctionSeq
<1>2. ASSUME NEW i \in 1 .. Len(s) PROVE firsts[i] = Flattening(seqs, firsts, i)
  <2>1. seqs[i] = <<s[i]>>
    BY <1>1
  <2>2. CASE i = 1
    <3>1. IsSeq(SubSeq(s, 1, 1)) /\ Len(SubSeq(s, 1, 1)) = 1 /\ SubSeq(s, 1, 1)[1] = s[1]
      BY <1>1, FirstSeq
    <3>2. SubSeq(s, 1, 1) = <<s[1]>>
      <4> DEFINE b == SubSeq(s, 1, 1)
                 c == <<s[1]>>
      <4>1. IsSeq(c) /\ Len(c) = 1 /\ c[1] = s[1]
        BY OneSeq
      <4>2. IsSeq(b) /\ Len(b) = 1 /\ b[1] = s[1]
        BY <3>1
      <4> HIDE DEF b, c
      <4>3. \A n \in 1 .. Len(b) : b[n] = c[n]
        BY <4>1, <4>2
      <4>4. b = c
        BY <4>1, <4>2, <4>3, SameSeq
      <4> QED
        BY <4>4 DEF b, c
    <3> QED
      BY <2>1, <2>2, <3>2 DEF Flattening
  <2>3. CASE i # 1
    <3>1. i - 1 \in 1 .. Len(s) /\ i - 1 \in 0 .. Len(s) /\ i \in 0 .. Len(s)
      BY <1>1, <2>3
    <3> DEFINE a == SubSeq(s, 1, i - 1)
               b == SubSeq(s, 1, i)
    <3>2. IsSeq(a) /\ Len(a) = i - 1 /\ \A n \in 1 .. i - 1 : a[n] = s[n]
      BY <3>1, FirstSeq
    <3>3. IsSeq(b) /\ Len(b) = i /\ \A n \in 1 .. i : b[n] = s[n]
      BY <3>1, FirstSeq
    <3>4. /\ IsSeq(a \o <<s[i]>>) /\ Len(a \o <<s[i]>>) = i
          /\ \A n \in 1 .. i - 1 : (a \o <<s[i]>>)[n] = a[n]
          /\ (a \o <<s[i]>>)[i] = s[i]
      <4> DEFINE c == <<s[i]>>
      <4>1. IsSeq(c) /\ Len(c) = 1 /\ c[1] = s[i]
        BY OneSeq
      <4> HIDE DEF a, c
      <4>0. IsSeq(a) /\ IsSeq(c)
        BY <3>2, <4>1
      <4>2. /\ IsSeq(a \o c) /\ Len(a \o c) = Len(a) + Len(c)
            /\ \A n \in 1 .. Len(a) : (a \o c)[n] = a[n]
            /\ \A n \in 1 .. Len(c) : (a \o c)[Len(a) + n] = c[n]
        BY <4>0, JoinSeq
      <4>3. (i - 1) + 1 = i /\ 1 \in 1 .. Len(c)
        BY <4>1
      <4>4. /\ IsSeq(a \o c) /\ Len(a \o c) = i
            /\ \A n \in 1 .. i - 1 : (a \o c)[n] = a[n]
            /\ (a \o c)[i] = s[i]
        BY <3>2, <4>1, <4>2, <4>3
      <4> QED
        BY <4>4 DEF c
    <3>5. a \o <<s[i]>> = b
      <4> HIDE DEF a, b
      <4> DEFINE c == a \o <<s[i]>>
      <4>1. IsSeq(c) /\ Len(c) = i /\ \A n \in 1 .. i : c[n] = b[n]
        <5>1. IsSeq(c) /\ Len(c) = i /\ c[i] = s[i]
          BY <3>4
        <5>2. ASSUME NEW n \in 1 .. i PROVE c[n] = b[n]
          <6>1. CASE n = i
            BY <3>3, <5>1, <6>1
          <6>2. CASE n # i
            <7>1. n \in 1 .. i - 1
              BY <6>2
            <7>2. c[n] = a[n]
              BY <3>4, <7>1
            <7> QED
              BY <3>2, <3>3, <7>1, <7>2
          <6> QED
            BY <6>1, <6>2
        <5> QED
          BY <5>1, <5>2
      <4> HIDE DEF c
      <4>2. c = b
        BY <3>3, <4>1, SameSeq
      <4> QED
        BY <4>2 DEF c
    <3> QED
      BY <2>1, <2>3, <3>1, <3>5 DEF Flattening
  <2> QED
    BY <2>2, <2>3
<1>3. firsts = [i \in 1 .. Len(seqs) |-> Flattening(seqs, firsts, i)]
  <2>1. firsts = [i \in 1 .. Len(s) |-> firsts[i]]
    OBVIOUS
  <2> HIDE DEF firsts, seqs
  <2> QED
    BY <1>1, <1>2, <2>1
<1>4. F = [i \in 1 .. Len(s) |-> Flattening(seqs, F, i)]
  <2> HIDE DEF firsts, seqs
  <2>1. \E f : f = [i \in 1 .. Len(seqs) |-> Flattening(seqs, f, i)]
    BY <1>3
  <2> QED
    BY <1>1, <2>1
<1>5. \A i \in 1 .. Len(s) : F[i] = firsts[i]
  <2> DEFINE S == {i \in 0 .. Len(s) : i = 0 \/ F[i] = firsts[i]}
  <2> HIDE DEF F, firsts, seqs
  <2>1. 0 \in S
    BY <1>1
  <2>2. ASSUME NEW i \in 0 .. Len(s) - 1, i \in S PROVE i + 1 \in S
    <3>1. i + 1 \in 1 .. Len(s) /\ (i + 1) - 1 = i
      BY <1>1
    <3>2. F[i + 1] = Flattening(seqs, F, i + 1) /\ firsts[i + 1] = Flattening(seqs, firsts, i + 1)
      BY <3>1, <1>2, <1>4
    <3>3. i # 0 => F[i] = firsts[i]
      BY <2>2
    <3>4. F[i + 1] = firsts[i + 1]
      BY <3>1, <3>2, <3>3 DEF Flattening
    <3> QED
      BY <1>1, <3>1, <3>4
  <2> HIDE DEF S
  <2>3. \A i \in 0 .. Len(s) : i \in S
    BY <1>1, <2>1, <2>2, BoundedInduction
  <2> QED
    BY <1>1, <2>3 DEF S
<1>6. FlattenSeq(seqs) = F[Len(seqs)]
  <2>1. Len(seqs) # 0
    BY <1>1
  <2> HIDE DEF seqs
  <2> QED
    BY <2>1 DEF FlattenSeq, Flattening
<1>7. firsts[Len(s)] = s
  <2>1. Len(s) \in 1 .. Len(s)
    BY <1>1
  <2>2. SubSeq(s, 1, Len(s)) = s
    BY <1>1 DEF IsSeq
  <2> QED
    BY <2>1, <2>2
<1> HIDE DEF F, firsts
<1> QED
  BY <1>1, <1>5, <1>6, <1>7

LEMMA FlattenOne ==
  ASSUME NEW s
  PROVE  FlattenSeq(<<s>>) = s
<1> DEFINE seqs == <<s>>
           F == CHOOSE f : f = [i \in 1 .. Len(seqs) |-> Flattening(seqs, f, i)]
           g == [i \in 1 .. 1 |-> s]
<1>1. Len(seqs) = 1 /\ seqs[1] = s
  OBVIOUS
<1>2. g = [i \in 1 .. Len(seqs) |-> Flattening(seqs, g, i)]
  <2>1. \A i \in 1 .. 1 : i = 1
    OBVIOUS
  <2> QED
    BY <1>1, <2>1 DEF Flattening
<1> HIDE DEF seqs, g
<1>3. F = [i \in 1 .. Len(seqs) |-> Flattening(seqs, F, i)]
  BY <1>2
<1>4. FlattenSeq(seqs) = F[Len(seqs)]
  BY <1>1 DEF FlattenSeq, Flattening
<1> HIDE DEF F
<1>5. F[1] = Flattening(seqs, F, 1)
  BY <1>1, <1>3
<1>6. FlattenSeq(seqs) = s
  BY <1>1, <1>4, <1>5 DEF Flattening
<1> QED
  BY <1>6 DEF seqs

\* A step of the recursion of QualifiedName.
TokensWith(D, token) == {token} \cup {D[i].token : i \in DOMAIN D}
Named(D, tokens, f, depth) ==
  [t \in tokens |->
     IF t.kind = "text" THEN t.of
     ELSE IF depth = 0 \/ \E i \in DOMAIN t.of : t.of[i] \notin DOMAIN D THEN <<>>
     ELSE FlattenSeq([i \in DOMAIN t.of |-> f[depth - 1][D[t.of[i]].token]])
            \o (IF t.kind = "array" THEN <<"[]">> ELSE <<>>)]

LEMMA NamedFrom ==
  ASSUME NEW D, NEW tokens, NEW f, NEW g, NEW depth, depth # 0 => f[depth - 1] = g[depth - 1]
  PROVE  Named(D, tokens, f, depth) = Named(D, tokens, g, depth)
<1>1. CASE depth = 0
  BY <1>1 DEF Named
<1>2. CASE depth # 0
  <2>1. f[depth - 1] = g[depth - 1]
    BY <1>2
  <2> QED
    BY <2>1 DEF Named
<1> QED
  BY <1>1, <1>2

LEMMA NamesExist ==
  ASSUME NEW D, NEW tokens
  PROVE  \A k \in Nat : \E f : f = [n \in 0 .. k |-> Named(D, tokens, f, n)]
<1> DEFINE S == {k \in Nat : \E f : f = [n \in 0 .. k |-> Named(D, tokens, f, n)]}
<1>1. 0 \in S
  <2> DEFINE g == [n \in 0 .. 0 |-> Named(D, tokens, <<>>, 0)]
  <2>1. g = [n \in 0 .. 0 |-> Named(D, tokens, g, n)]
    <3>1. Named(D, tokens, <<>>, 0) = Named(D, tokens, g, 0)
      BY NamedFrom
    <3>2. \A n \in 0 .. 0 : n = 0
      OBVIOUS
    <3> QED
      BY <3>1, <3>2
  <2> HIDE DEF g
  <2> QED
    BY <2>1
<1>2. ASSUME NEW k \in S PROVE k + 1 \in S
  <2>1. PICK f : f = [n \in 0 .. k |-> Named(D, tokens, f, n)]
    BY <1>2
  <2> DEFINE g == [n \in 0 .. k + 1 |-> IF n = k + 1 THEN Named(D, tokens, f, n) ELSE f[n]]
  <2>2. ASSUME NEW n \in 0 .. k + 1 PROVE g[n] = Named(D, tokens, g, n)
    <3>1. k \in Nat
      OBVIOUS
    <3>2. n # 0 => n - 1 \in 0 .. k /\ g[n - 1] = f[n - 1]
      BY <3>1
    <3>3. g[n] = Named(D, tokens, f, n)
      <4>1. n = k + 1 => g[n] = Named(D, tokens, f, n)
        OBVIOUS
      <4>2. n # k + 1 => g[n] = f[n] /\ n \in 0 .. k
        BY <3>1
      <4> QED
        BY <2>1, <4>1, <4>2
    <3> HIDE DEF g
    <3>4. Named(D, tokens, f, n) = Named(D, tokens, g, n)
      BY <3>2, NamedFrom
    <3> QED
      BY <3>3, <3>4
  <2>3. g = [n \in 0 .. k + 1 |-> g[n]]
    OBVIOUS
  <2> HIDE DEF g
  <2>4. g = [n \in 0 .. k + 1 |-> Named(D, tokens, g, n)]
    BY <2>2, <2>3
  <2> QED
    BY <2>4
<1> HIDE DEF S
<1>3. S = Nat
  <2>1. S \subseteq Nat
    BY DEF S
  <2> QED
    BY <1>1, <1>2, <2>1, SetInduction
<1> QED
  BY <1>3 DEF S

Names(D, token) == CHOOSE f : f = [n \in 0 .. Len(D) + 1 |-> Named(D, TokensWith(D, token), f, n)]

LEMMA NamesSteps ==
  ASSUME NEW D, IsSeq(D), NEW token
  PROVE  /\ QualifiedName(D, token) = Names(D, token)[Len(D) + 1][token]
         /\ \A n \in 0 .. Len(D) + 1 :
              Names(D, token)[n] = Named(D, TokensWith(D, token), Names(D, token), n)
<1>1. Len(D) + 1 \in Nat
  BY SeqLength
<1>2. \E f : f = [n \in 0 .. Len(D) + 1 |-> Named(D, TokensWith(D, token), f, n)]
  BY <1>1, NamesExist
<1>3. Names(D, token) = [n \in 0 .. Len(D) + 1 |-> Named(D, TokensWith(D, token), Names(D, token), n)]
  BY <1>2 DEF Names
<1>4. QualifiedName(D, token) = Names(D, token)[Len(D) + 1][token]
  BY DEF QualifiedName, Names, Named, TokensWith
<1> QED
  BY <1>3, <1>4

LEMMA TextNamed ==
  ASSUME NEW D, IsSeq(D), NEW token, NEW t \in TokensWith(D, token), t.kind = "text",
         NEW n \in 0 .. Len(D) + 1
  PROVE  Names(D, token)[n][t] = t.of
<1>1. Names(D, token)[n] = Named(D, TokensWith(D, token), Names(D, token), n)
  BY NamesSteps
<1> QED
  BY <1>1 DEF Named

\* A token made of texts has their names.
TextsAt(D, ids) == [i \in DOMAIN ids |-> D[ids[i]].token.of[1]]

LEMMA ConstructedNamed ==
  ASSUME NEW D, Dict(D), NEW token, NEW t \in TokensWith(D, token), t.kind = "constructed",
         IsSeq(t.of), Len(t.of) > 0, \A i \in DOMAIN t.of : IsText(D, t.of[i]),
         NEW n \in 1 .. Len(D) + 1
  PROVE  Names(D, token)[n][t] = TextsAt(D, t.of)
<1> DEFINE N == Names(D, token)
           texts == TextsAt(D, t.of)
<1>1. IsSeq(D) /\ Len(D) \in Nat /\ n # 0 /\ n \in 0 .. Len(D) + 1 /\ n - 1 \in 0 .. Len(D) + 1
  BY SeqLength DEF Dict
<1>2. N[n] = Named(D, TokensWith(D, token), N, n)
  BY <1>1, NamesSteps
<1>3. ~ \E i \in DOMAIN t.of : t.of[i] \notin DOMAIN D
  BY DEF IsText
<1>4. N[n][t] = FlattenSeq([i \in DOMAIN t.of |-> N[n - 1][D[t.of[i]].token]]) \o <<>>
  <2> HIDE DEF N
  <2> QED
    BY <1>1, <1>2, <1>3 DEF Named
<1>5. ASSUME NEW i \in DOMAIN t.of
      PROVE  N[n - 1][D[t.of[i]].token] = <<texts[i]>>
  <2>1. t.of[i] \in DOMAIN D /\ D[t.of[i]].token.kind = "text"
    BY DEF IsText
  <2>2. D[t.of[i]].token \in TokensWith(D, token)
    BY <2>1 DEF TokensWith
  <2>3. N[n - 1][D[t.of[i]].token] = D[t.of[i]].token.of
    BY <1>1, <2>1, <2>2, TextNamed
  <2>4. D[t.of[i]].token.of = <<D[t.of[i]].token.of[1]>>
    BY <2>1, EntryShape
  <2> QED
    BY <2>3, <2>4 DEF TextsAt
<1>6. /\ DOMAIN texts = DOMAIN t.of /\ IsSeq(texts) /\ Len(texts) = Len(t.of)
  <2>1. Len(t.of) \in Nat /\ DOMAIN t.of = 1 .. Len(t.of)
    BY SeqLength
  <2>2. DOMAIN texts = 1 .. Len(t.of) /\ texts = [i \in 1 .. Len(t.of) |-> texts[i]]
    BY <2>1 DEF TextsAt
  <2> QED
    BY <2>1, <2>2, FunctionSeq
<1> HIDE DEF N, texts
<1>7. [i \in DOMAIN t.of |-> N[n - 1][D[t.of[i]].token]] = [i \in DOMAIN texts |-> <<texts[i]>>]
  BY <1>5, <1>6
<1>8. FlattenSeq([i \in DOMAIN texts |-> <<texts[i]>>]) = texts
  BY <1>6, FlattenOnes
<1>9. texts \o <<>> = texts
  BY <1>6 DEF IsSeq
<1> QED
  BY <1>4, <1>7, <1>8, <1>9 DEF N, texts

LEMMA KeyOfTexts ==
  ASSUME NEW D, Dict(D), NEW ids, \A i \in DOMAIN ids : IsText(D, ids[i])
  PROVE  KeyOf(TextsAt(D, ids)) = [i \in DOMAIN ids |-> D[ids[i]].key[1]]
<1>1. ASSUME NEW i \in DOMAIN ids PROVE Lower(D[ids[i]].token.of[1]) = D[ids[i]].key[1]
  <2>1. ids[i] \in DOMAIN D /\ D[ids[i]].token.kind = "text"
    BY DEF IsText
  <2>2. D[ids[i]].key = <<Lower(D[ids[i]].token.of[1])>>
    BY <2>1, EntryShape
  <2> QED
    BY <2>2, OneSeq
<1> QED
  BY <1>1 DEF KeyOf, TextsAt

LEMMA KeyOfOne ==
  ASSUME NEW text
  PROVE  KeyOf(<<text>>) = <<Lower(text)>>
<1> DEFINE s == <<text>>
           k == <<Lower(text)>>
           l == KeyOf(s)
<1>1. IsSeq(s) /\ Len(s) = 1 /\ s[1] = text /\ DOMAIN s = 1 .. 1
  BY OneSeq
<1>2. IsSeq(k) /\ Len(k) = 1 /\ k[1] = Lower(text)
  BY OneSeq
<1>3. DOMAIN l = 1 .. 1 /\ l = [i \in 1 .. 1 |-> l[i]] /\ l[1] = Lower(text)
  <2> HIDE DEF s
  <2> QED
    BY <1>1 DEF KeyOf
<1> HIDE DEF k, l
<1>4. IsSeq(l) /\ Len(l) = 1
  BY <1>3, FunctionSeq
<1>5. \A i \in 1 .. Len(l) : l[i] = k[i]
  BY <1>2, <1>3, <1>4
<1>6. l = k
  BY <1>2, <1>4, <1>5, SameSeq
<1> QED
  BY <1>6 DEF k, l

LEMMA KeySeq ==
  ASSUME NEW s, IsSeq(s)
  PROVE  /\ IsSeq(KeyOf(s)) /\ Len(KeyOf(s)) = Len(s) /\ DOMAIN KeyOf(s) = 1 .. Len(s)
         /\ \A i \in 1 .. Len(s) : KeyOf(s)[i] = Lower(s[i])
<1>1. Len(s) \in Nat /\ DOMAIN s = 1 .. Len(s)
  BY SeqLength
<1>2. /\ DOMAIN KeyOf(s) = 1 .. Len(s) /\ KeyOf(s) = [i \in 1 .. Len(s) |-> KeyOf(s)[i]]
      /\ \A i \in 1 .. Len(s) : KeyOf(s)[i] = Lower(s[i])
  BY <1>1 DEF KeyOf
<1> QED
  BY <1>1, <1>2, FunctionSeq

LEMMA KeyOfJoin ==
  ASSUME NEW s, IsSeq(s), NEW text
  PROVE  KeyOf(s \o <<text>>) = KeyOf(s) \o <<Lower(text)>>
<1> DEFINE t == <<text>>
           l == <<Lower(text)>>
           a == KeyOf(s \o t)
           b == KeyOf(s) \o l
<1>1. IsSeq(t) /\ Len(t) = 1 /\ t[1] = text
  BY OneSeq
<1>2. IsSeq(l) /\ Len(l) = 1 /\ l[1] = Lower(text)
  BY OneSeq
<1>3. /\ IsSeq(KeyOf(s)) /\ Len(KeyOf(s)) = Len(s) /\ Len(s) \in Nat
      /\ \A i \in 1 .. Len(s) : KeyOf(s)[i] = Lower(s[i])
  BY KeySeq, SeqLength
<1> HIDE DEF t, l
<1>0. IsSeq(t) /\ IsSeq(l) /\ IsSeq(KeyOf(s))
  BY <1>1, <1>2, <1>3
<1>4. /\ IsSeq(s \o t) /\ Len(s \o t) = Len(s) + Len(t)
      /\ \A i \in 1 .. Len(s) : (s \o t)[i] = s[i]
      /\ \A i \in 1 .. Len(t) : (s \o t)[Len(s) + i] = t[i]
  BY <1>0, JoinSeq
<1>5. /\ IsSeq(b) /\ Len(b) = Len(KeyOf(s)) + Len(l)
      /\ \A i \in 1 .. Len(KeyOf(s)) : b[i] = KeyOf(s)[i]
      /\ \A i \in 1 .. Len(l) : b[Len(KeyOf(s)) + i] = l[i]
  BY <1>0, JoinSeq
<1>6. /\ IsSeq(a) /\ Len(a) = Len(s) + 1
      /\ \A i \in 1 .. Len(s) + 1 : a[i] = Lower((s \o t)[i])
  BY <1>1, <1>4, KeySeq
<1>7. ASSUME NEW i \in 1 .. Len(a) PROVE a[i] = b[i]
  <2> HIDE DEF a, b
  <2>1. CASE i \in 1 .. Len(s)
    BY <1>3, <1>4, <1>5, <1>6, <2>1
  <2>2. CASE i = Len(s) + 1
    <3>1. 1 \in 1 .. Len(t) /\ 1 \in 1 .. Len(l)
      BY <1>1, <1>2
    <3>2. (s \o t)[i] = text /\ b[i] = Lower(text)
      BY <1>1, <1>2, <1>3, <1>4, <1>5, <2>2, <3>1
    <3> QED
      BY <1>6, <2>2, <3>2, <1>3
  <2> QED
    BY <1>3, <1>6, <2>1, <2>2
<1> HIDE DEF a, b
<1>8. a = b
  BY <1>1, <1>2, <1>3, <1>5, <1>6, <1>7, SameSeq
<1> QED
  BY <1>8 DEF a, b, t, l

LEMMA KeyNamed ==
  ASSUME NEW D, Dict(D), NEW token, NEW k \in DOMAIN D, D[k].token.kind # "array",
         NEW n \in 1 .. Len(D) + 1
  PROVE  /\ IsSeq(Names(D, token)[n][D[k].token])
         /\ KeyOf(Names(D, token)[n][D[k].token]) = D[k].key
<1> DEFINE name == Names(D, token)[n][D[k].token]
<1>1. IsSeq(D) /\ D[k].token \in TokensWith(D, token)
  BY DEF Dict, TokensWith
<1>2. n \in 0 .. Len(D) + 1
  OBVIOUS
<1>3. ASSUME NEW text, Plain(D, k, text) PROVE IsSeq(name) /\ KeyOf(name) = D[k].key
  <2>1. /\ D[k].token.kind = "text" /\ D[k].token.of = <<text>> /\ D[k].key = <<Lower(text)>>
    BY <1>3 DEF Plain, TextToken
  <2>2. name = <<text>>
    BY <1>1, <1>2, <2>1, TextNamed
  <2> QED
    BY <2>1, <2>2, KeyOfOne, OneSeq
<1>4. ASSUME NEW ids, Constructed(D, k, ids) PROVE IsSeq(name) /\ KeyOf(name) = D[k].key
  <2>1. /\ D[k].token.kind = "constructed" /\ D[k].token.of = ids
        /\ D[k].key = [i \in DOMAIN ids |-> D[ids[i]].key[1]]
    BY <1>4 DEF Constructed, ConstructedToken
  <2>2. IsSeq(ids) /\ Len(ids) \in Nat /\ Len(ids) > 0 /\ DOMAIN ids = 1 .. Len(ids)
    BY <1>4, SeqLength DEF Constructed
  <2>3. \A i \in DOMAIN ids : IsText(D, ids[i])
    BY <1>4 DEF Constructed
  <2>4. name = TextsAt(D, ids)
    BY <1>1, <2>1, <2>2, <2>3, ConstructedNamed
  <2>5. IsSeq(TextsAt(D, ids))
    <3> DEFINE texts == TextsAt(D, ids)
    <3>1. DOMAIN texts = 1 .. Len(ids) /\ texts = [i \in 1 .. Len(ids) |-> texts[i]]
      BY <2>2 DEF TextsAt
    <3> QED
      BY <2>2, <3>1, FunctionSeq
  <2>6. KeyOf(TextsAt(D, ids)) = D[k].key
    BY <2>1, <2>3, KeyOfTexts
  <2> QED
    BY <2>4, <2>5, <2>6
<1>5. \A id : ~OfArrays(D, k, id)
  BY DEF OfArrays, ArrayToken
<1>6. Entry(D, k)
  BY DEF Dict
<1> QED
  BY <1>3, <1>4, <1>5, <1>6 DEF Entry

\* The key of a token of each kind.
QualifiedKey(D, token) == KeyOf(QualifiedName(D, token))

LEMMA TextKey ==
  ASSUME NEW D, IsSeq(D), NEW i, NEW text
  PROVE  QualifiedKey(D, TextToken(i, text)) = <<Lower(text)>>
<1> DEFINE t == TextToken(i, text)
<1>1. t.kind = "text" /\ t.of = <<text>> /\ t \in TokensWith(D, t)
  BY DEF TextToken, TokensWith
<1>2. Len(D) \in Nat /\ Len(D) + 1 \in 0 .. Len(D) + 1
  BY SeqLength
<1> HIDE DEF t
<1>3. Names(D, t)[Len(D) + 1][t] = t.of
  BY <1>1, <1>2, TextNamed
<1>4. QualifiedName(D, t) = <<text>>
  BY <1>1, <1>3, NamesSteps
<1> QED
  BY <1>4, KeyOfOne DEF QualifiedKey, t

LEMMA ConstructedKey ==
  ASSUME NEW D, Dict(D), NEW i, NEW ids, IsSeq(ids), Len(ids) > 0,
         \A n \in DOMAIN ids : IsText(D, ids[n])
  PROVE  QualifiedKey(D, ConstructedToken(i, ids)) = [n \in DOMAIN ids |-> D[ids[n]].key[1]]
<1> DEFINE t == ConstructedToken(i, ids)
<1>1. t.kind = "constructed" /\ t.of = ids /\ t \in TokensWith(D, t)
  BY DEF ConstructedToken, TokensWith
<1>2. IsSeq(D) /\ Len(D) \in Nat /\ Len(D) + 1 \in 1 .. Len(D) + 1
  BY SeqLength DEF Dict
<1> HIDE DEF t
<1>3. Names(D, t)[Len(D) + 1][t] = TextsAt(D, ids)
  BY <1>1, <1>2, ConstructedNamed
<1>4. QualifiedName(D, t) = TextsAt(D, ids)
  BY <1>2, <1>3, NamesSteps
<1> QED
  BY <1>4, KeyOfTexts DEF QualifiedKey, t

LEMMA ArrayKey ==
  ASSUME NEW D, Dict(D), NEW i, NEW k \in DOMAIN D, D[k].token.kind # "array"
  PROVE  QualifiedKey(D, ArrayToken(i, k)) = D[k].key \o <<ArrayMark>>
<1> DEFINE t == ArrayToken(i, k)
           N == Names(D, t)
           L == Len(D)
<1>1. IsSeq(D) /\ L \in Nat /\ L >= 1 /\ L + 1 \in 0 .. L + 1 /\ L \in 1 .. L + 1
  <2>1. IsSeq(D) /\ L \in Nat /\ DOMAIN D = 1 .. L
    BY SeqLength DEF Dict
  <2> QED
    BY <2>1
<1>2. t.kind = "array" /\ t.of = <<k>> /\ t \in TokensWith(D, t)
  BY DEF ArrayToken, TokensWith
<1>3. /\ DOMAIN t.of = 1 .. 1 /\ t.of[1] = k
      /\ ~ \E n \in DOMAIN t.of : t.of[n] \notin DOMAIN D
  <2>1. DOMAIN <<k>> = 1 .. 1 /\ <<k>>[1] = k
    BY OneSeq
  <2> QED
    BY <1>2, <2>1
<1>4. QualifiedName(D, t) = N[L + 1][t] /\ N[L + 1] = Named(D, TokensWith(D, t), N, L + 1)
  BY <1>1, NamesSteps
<1>5. IsSeq(N[L][D[k].token]) /\ KeyOf(N[L][D[k].token]) = D[k].key
  BY <1>1, KeyNamed
<1> DEFINE name == N[L][D[k].token]
<1>6. [n \in DOMAIN t.of |-> N[L][D[t.of[n]].token]] = <<name>>
  <2> DEFINE s == <<name>>
             r == [n \in DOMAIN t.of |-> N[L][D[t.of[n]].token]]
  <2>1. IsSeq(s) /\ Len(s) = 1 /\ s[1] = name
    BY OneSeq
  <2>2. DOMAIN r = 1 .. 1 /\ r = [n \in 1 .. 1 |-> r[n]] /\ r[1] = name
    <3> HIDE DEF t, N
    <3> QED
      BY <1>3
  <2> HIDE DEF r, s, name
  <2>3. IsSeq(r) /\ Len(r) = 1
    BY <2>2, FunctionSeq
  <2>4. \A n \in 1 .. Len(r) : r[n] = s[n]
    BY <2>1, <2>2, <2>3
  <2>5. r = s
    BY <2>1, <2>3, <2>4, SameSeq
  <2> QED
    BY <2>5 DEF r, s
<1>7. N[L + 1][t] = FlattenSeq(<<name>>) \o <<"[]">>
  <2> HIDE DEF t, N, L, name
  <2>1. L + 1 # 0 /\ (L + 1) - 1 = L
    BY <1>1
  <2>2. N[L + 1][t] = FlattenSeq([n \in DOMAIN t.of |-> N[(L + 1) - 1][D[t.of[n]].token]])
                        \o <<"[]">>
    BY <1>2, <1>3, <1>4, <2>1 DEF Named
  <2> QED
    BY <1>6, <2>1, <2>2
<1> HIDE DEF t, N, L, name
<1>8. QualifiedName(D, t) = name \o <<"[]">>
  BY <1>4, <1>7, FlattenOne
<1>9. KeyOf(name \o <<"[]">>) = KeyOf(name) \o <<Lower("[]")>>
  BY <1>5, KeyOfJoin DEF name
<1> QED
  BY <1>5, <1>8, <1>9 DEF QualifiedKey, ArrayMark, t, name

-----------------------------------------------------------------------------
(***************************************************************************)
(* What is added to a dictionary.                                          *)
(***************************************************************************)
LEMMA Found1 ==
  ASSUME NEW D, Dict(D), NEW i \in DOMAIN D
  PROVE  Has(D, D[i].key) /\ IdOf(D, D[i].key) = i
<1>1. Has(D, D[i].key)
  BY DEF Has
<1> DEFINE j == CHOOSE n \in DOMAIN D : D[n].key = D[i].key
<1>2. j \in DOMAIN D /\ D[j].key = D[i].key
  BY <1>1 DEF Has
<1> HIDE DEF j
<1>3. j = i
  BY <1>2 DEF Dict
<1>4. D[i].token.id = i
  BY EntryShape
<1> QED
  BY <1>1, <1>3, <1>4 DEF IdOf, j

LEMMA IdLeads ==
  ASSUME NEW D, Dict(D), NEW key, Has(D, key)
  PROVE  IdOf(D, key) \in DOMAIN D /\ D[IdOf(D, key)].key = key
<1>1. PICK i \in DOMAIN D : D[i].key = key
  BY DEF Has
<1> QED
  BY <1>1, Found1

LEMMA HasStays ==
  ASSUME NEW D, Dict(D), NEW E, Dict(E), Extends(D, E), NEW key, Has(D, key)
  PROVE  Has(E, key) /\ IdOf(E, key) = IdOf(D, key)
<1>1. IdOf(D, key) \in DOMAIN D /\ D[IdOf(D, key)].key = key
  BY IdLeads
<1>2. Len(D) \in Nat /\ Len(E) \in Nat /\ DOMAIN D = 1 .. Len(D) /\ DOMAIN E = 1 .. Len(E)
  BY SeqLength DEF Dict
<1>3. IdOf(D, key) \in DOMAIN E /\ E[IdOf(D, key)] = D[IdOf(D, key)]
  BY <1>1, <1>2 DEF Extends
<1> QED
  BY <1>1, <1>3, Found1

LEMMA ExtendsItself ==
  ASSUME NEW D, IsSeq(D)
  PROVE  Extends(D, D)
BY SeqLength DEF Extends

LEMMA AppendExtends ==
  ASSUME NEW D, IsSeq(D), NEW entry
  PROVE  Extends(D, Append(D, entry))
<1>1. Len(D) \in Nat
  BY SeqLength
<1>2. /\ IsSeq(Append(D, entry)) /\ Len(Append(D, entry)) = Len(D) + 1
      /\ \A n \in 1 .. Len(D) : Append(D, entry)[n] = D[n]
  BY AppendSeq
<1> QED
  BY <1>1, <1>2 DEF Extends

\* A dictionary stays one when an entry with a new key comes behind it.
LEMMA AppendKeeps ==
  ASSUME NEW D, Dict(D), NEW entry, ~Has(D, entry.key),
         Entry(Append(D, entry), Len(D) + 1)
  PROVE  /\ Dict(Append(D, entry)) /\ Extends(D, Append(D, entry))
         /\ Has(Append(D, entry), entry.key)
<1> DEFINE E == Append(D, entry)
           n == Len(D) + 1
<1>1. IsSeq(D) /\ Len(D) \in Nat /\ DOMAIN D = 1 .. Len(D)
  BY SeqLength DEF Dict
<1>2. /\ IsSeq(E) /\ DOMAIN E = 1 .. n /\ E[n] = entry
      /\ \A i \in 1 .. Len(D) : E[i] = D[i]
  BY <1>1, AppendSeq
<1>3. Extends(D, E)
  BY <1>1, AppendExtends
<1> HIDE DEF E
<1>4. ASSUME NEW i \in DOMAIN E PROVE Entry(E, i)
  <2>1. i = n \/ i \in DOMAIN D
    BY <1>1, <1>2
  <2>2. CASE i = n
    BY <2>2 DEF E
  <2>3. CASE i \in DOMAIN D
    BY <2>3, <1>3, EntryStays
  <2> QED
    BY <2>1, <2>2, <2>3
<1>5. ASSUME NEW i \in DOMAIN E, NEW j \in DOMAIN E, E[i].key = E[j].key PROVE i = j
  <2>1. (i = n \/ i \in DOMAIN D) /\ (j = n \/ j \in DOMAIN D)
    BY <1>1, <1>2
  <2>2. \A k \in DOMAIN D : E[k] = D[k] /\ D[k].key # entry.key
    BY <1>1, <1>2 DEF Has
  <2> QED
    BY <1>2, <1>5, <2>1, <2>2 DEF Dict
<1>6. Has(E, entry.key)
  BY <1>1, <1>2 DEF Has
<1> QED
  BY <1>2, <1>3, <1>4, <1>5, <1>6 DEF Dict, E

\* A token whose own key is missing is added with this key.
LEMMA AddKeeps ==
  ASSUME NEW D, Dict(D), NEW token, NEW key, QualifiedKey(D, token) = key,
         ~Has(D, key) => Entry(Append(D, [key |-> key, token |-> token]), Len(D) + 1)
  PROVE  Dict(Add(D, token)) /\ Extends(D, Add(D, token)) /\ Has(Add(D, token), key)
<1>1. CASE Has(D, key)
  <2>1. Add(D, token) = D
    BY <1>1 DEF Add, QualifiedKey
  <2> QED
    BY <1>1, <2>1, ExtendsItself DEF Dict
<1>2. CASE ~Has(D, key)
  <2> DEFINE entry == [key |-> key, token |-> token]
  <2>1. Add(D, token) = Append(D, entry)
    BY <1>2 DEF Add, QualifiedKey
  <2>2. entry.key = key
    OBVIOUS
  <2>3. Entry(Append(D, entry), Len(D) + 1) /\ ~Has(D, entry.key)
    BY <1>2
  <2> HIDE DEF entry
  <2> QED
    BY <2>1, <2>2, <2>3, AppendKeeps
<1> QED
  BY <1>1, <1>2

LEMMA QueryNameKeeps ==
  ASSUME NEW D, Dict(D), NEW text, Lower(text) # ArrayMark
  PROVE  /\ Dict(QueryName(D, text)) /\ Extends(D, QueryName(D, text))
         /\ Has(QueryName(D, text), <<Lower(text)>>)
<1> DEFINE key == <<Lower(text)>>
           n == Len(D) + 1
           token == TextToken(n, text)
           entry == [key |-> key, token |-> token]
<1>1. KeyOf(<<text>>) = key
  BY KeyOfOne
<1>2. CASE Has(D, key)
  <2>1. QueryName(D, text) = D
    BY <1>1, <1>2 DEF QueryName
  <2> QED
    BY <1>2, <2>1, ExtendsItself DEF Dict
<1>3. CASE ~Has(D, key)
  <2>1. QueryName(D, text) = Add(D, token)
    BY <1>1, <1>3 DEF QueryName
  <2>2. QualifiedKey(D, token) = key
    BY TextKey DEF Dict
  <2>3. Append(D, entry)[n] = entry
    BY AppendSeq DEF Dict
  <2>4. Plain(Append(D, entry), n, text)
    BY <2>3 DEF Plain
  <2>5. Entry(Append(D, entry), n)
    BY <2>4 DEF Entry
  <2> HIDE DEF key, token
  <2>6. Dict(Add(D, token)) /\ Extends(D, Add(D, token)) /\ Has(Add(D, token), key)
    BY <2>2, <2>5, AddKeeps
  <2> QED
    BY <2>1, <2>6 DEF key
<1> QED
  BY <1>2, <1>3

\* A step of the recursion of QueryNames.
Querying(D, texts, f, n) == IF n = 0 THEN D ELSE QueryName(f[n - 1], texts[n])

LEMMA QueriesExist ==
  ASSUME NEW D, NEW texts
  PROVE  \A k \in Nat : \E f : f = [n \in 0 .. k |-> Querying(D, texts, f, n)]
<1> DEFINE S == {k \in Nat : \E f : f = [n \in 0 .. k |-> Querying(D, texts, f, n)]}
<1>1. 0 \in S
  <2> DEFINE g == [n \in 0 .. 0 |-> D]
  <2>1. g = [n \in 0 .. 0 |-> Querying(D, texts, g, n)]
    BY DEF Querying
  <2> HIDE DEF g
  <2> QED
    BY <2>1
<1>2. ASSUME NEW k \in S PROVE k + 1 \in S
  <2>1. PICK f : f = [n \in 0 .. k |-> Querying(D, texts, f, n)]
    BY <1>2
  <2> DEFINE g == [n \in 0 .. k + 1 |-> IF n = k + 1 THEN Querying(D, texts, f, n) ELSE f[n]]
  <2>2. ASSUME NEW n \in 0 .. k + 1 PROVE g[n] = Querying(D, texts, g, n)
    <3>1. k \in Nat
      OBVIOUS
    <3>2. n # 0 => n - 1 \in 0 .. k /\ g[n - 1] = f[n - 1]
      BY <3>1
    <3>3. g[n] = Querying(D, texts, f, n)
      <4>1. n = k + 1 => g[n] = Querying(D, texts, f, n)
        OBVIOUS
      <4>2. n # k + 1 => g[n] = f[n] /\ n \in 0 .. k
        BY <3>1
      <4> QED
        BY <2>1, <4>1, <4>2
    <3> HIDE DEF g
    <3> QED
      BY <3>2, <3>3 DEF Querying
  <2>3. g = [n \in 0 .. k + 1 |-> g[n]]
    OBVIOUS
  <2> HIDE DEF g
  <2>4. g = [n \in 0 .. k + 1 |-> Querying(D, texts, g, n)]
    BY <2>2, <2>3
  <2> QED
    BY <2>4
<1> HIDE DEF S
<1>3. S = Nat
  <2>1. S \subseteq Nat
    BY DEF S
  <2> QED
    BY <1>1, <1>2, <2>1, SetInduction
<1> QED
  BY <1>3 DEF S

LEMMA QueryNamesKeeps ==
  ASSUME NEW D, Dict(D), NEW texts, IsSeq(texts),
         \A i \in DOMAIN texts : Lower(texts[i]) # ArrayMark
  PROVE  /\ Dict(QueryNames(D, texts)) /\ Extends(D, QueryNames(D, texts))
         /\ \A i \in DOMAIN texts : Has(QueryNames(D, texts), <<Lower(texts[i])>>)
<1> DEFINE L == Len(texts)
           F == CHOOSE f : f = [n \in 0 .. L |-> Querying(D, texts, f, n)]
           Good(n) == /\ Dict(F[n]) /\ Extends(D, F[n])
                      /\ \A i \in 1 .. n : Has(F[n], <<Lower(texts[i])>>)
           S == {n \in 0 .. L : Good(n)}
<1>1. L \in Nat /\ DOMAIN texts = 1 .. L
  BY SeqLength
<1>2. F = [n \in 0 .. L |-> Querying(D, texts, F, n)]
  <2>1. \E f : f = [n \in 0 .. L |-> Querying(D, texts, f, n)]
    BY <1>1, QueriesExist
  <2> HIDE DEF L
  <2> QED
    BY <2>1
<1>3. QueryNames(D, texts) = F[L]
  BY DEF QueryNames, Querying
<1> HIDE DEF F, L
<1>4. \A n \in 0 .. L : F[n] = Querying(D, texts, F, n)
  BY <1>2
<1>5. 0 \in S
  <2>1. F[0] = D
    BY <1>1, <1>4 DEF Querying
  <2>2. Extends(D, D)
    BY ExtendsItself DEF Dict
  <2> QED
    BY <1>1, <2>1, <2>2
<1>6. ASSUME NEW n \in 0 .. L - 1, n \in S PROVE n + 1 \in S
  <2>1. n + 1 \in 0 .. L /\ n + 1 \in 1 .. L /\ n + 1 # 0 /\ (n + 1) - 1 = n
    BY <1>1
  <2>2. F[n + 1] = QueryName(F[n], texts[n + 1])
    BY <1>4, <2>1 DEF Querying
  <2>3. /\ Dict(F[n]) /\ Extends(D, F[n])
        /\ \A i \in 1 .. n : Has(F[n], <<Lower(texts[i])>>)
    BY <1>6
  <2>4. Lower(texts[n + 1]) # ArrayMark
    BY <1>1, <2>1
  <2>5. /\ Dict(F[n + 1]) /\ Extends(F[n], F[n + 1])
        /\ Has(F[n + 1], <<Lower(texts[n + 1])>>)
    BY <2>2, <2>3, <2>4, QueryNameKeeps
  <2>6. Extends(D, F[n + 1])
    BY <2>3, <2>5, ExtendsTransitive
  <2>7. ASSUME NEW i \in 1 .. n + 1 PROVE Has(F[n + 1], <<Lower(texts[i])>>)
    <3>1. CASE i = n + 1
      BY <2>5, <3>1
    <3>2. CASE i # n + 1
      <4>1. i \in 1 .. n
        BY <1>1, <3>2
      <4> QED
        BY <2>3, <2>5, <4>1, HasStays
    <3> QED
      BY <3>1, <3>2
  <2> QED
    BY <2>1, <2>5, <2>6, <2>7
<1>7. \A n \in 0 .. L : n \in S
  <2> HIDE DEF S
  <2> QED
    BY <1>1, <1>5, <1>6, BoundedInduction
<1>8. Good(L)
  BY <1>1, <1>7
<1> QED
  BY <1>1, <1>3, <1>8

\* A key of one name is that of a text.
LEMMA OneNameIsText ==
  ASSUME NEW D, Dict(D), NEW text, Has(D, <<text>>)
  PROVE  /\ IsText(D, IdOf(D, <<text>>)) /\ IdOf(D, <<text>>) \in 1 .. Len(D)
         /\ D[IdOf(D, <<text>>)].key = <<text>>
<1>1. /\ IdOf(D, <<text>>) \in DOMAIN D /\ D[IdOf(D, <<text>>)].key = <<text>>
  BY IdLeads
<1>2. Len(<<text>>) = 1
  BY OneSeq
<1>3. DOMAIN D = 1 .. Len(D)
  BY SeqLength DEF Dict
<1>4. D[IdOf(D, <<text>>)].token.kind = "text"
  <2> DEFINE e == D[IdOf(D, <<text>>)]
  <2>1. /\ e.token.kind \in {"text", "constructed", "array"}
        /\ e.token.kind = "constructed" => Len(e.key) > 1
        /\ e.token.kind = "array" => Len(e.key) > 1
    BY <1>1, EntryShape
  <2>2. Len(e.key) = 1
    BY <1>1, <1>2
  <2> HIDE DEF e
  <2>3. e.token.kind = "text"
    BY <2>1, <2>2
  <2> QED
    BY <2>3 DEF e
<1> QED
  BY <1>1, <1>3, <1>4 DEF IsText

\* Names of a symbol, none of them that of arrays.
NameSeq(path) ==
  IsSeq(path) /\ path # <<>> /\ \A i \in DOMAIN path : Lower(path[i]) # ArrayMark

LEMMA QuerySymbolKeeps ==
  ASSUME NEW D, Dict(D), NEW path, NameSeq(path)
  PROVE  /\ Dict(QuerySymbol(D, path)) /\ Extends(D, QuerySymbol(D, path))
         /\ Has(QuerySymbol(D, path), KeyOf(path))
<1>1. /\ IsSeq(path) /\ Len(path) \in Nat /\ DOMAIN path = 1 .. Len(path) /\ Len(path) # 0
      /\ \A i \in DOMAIN path : Lower(path[i]) # ArrayMark
  <2>1. Len(path) = 0 => path = <<>>
    BY DEF NameSeq, IsSeq
  <2> QED
    BY <2>1, SeqLength DEF NameSeq
<1>2. CASE Has(D, KeyOf(path))
  <2>1. QuerySymbol(D, path) = D
    BY <1>2 DEF QuerySymbol
  <2> QED
    BY <1>2, <2>1, ExtendsItself DEF Dict
<1>3. CASE ~Has(D, KeyOf(path)) /\ Len(path) = 1
  <2>1. QuerySymbol(D, path) = QueryName(D, path[1])
    BY <1>3 DEF QuerySymbol
  <2>2. path = <<path[1]>>
    <3>1. IsSeq(<<path[1]>>) /\ Len(<<path[1]>>) = 1 /\ <<path[1]>>[1] = path[1]
      BY OneSeq
    <3> DEFINE s == <<path[1]>>
    <3>2. \A i \in 1 .. Len(path) : path[i] = s[i]
      BY <1>3, <3>1
    <3> HIDE DEF s
    <3>3. path = s
      BY <1>1, <1>3, <3>1, <3>2, SameSeq DEF s
    <3> QED
      BY <3>3 DEF s
  <2>3. KeyOf(path) = <<Lower(path[1])>>
    BY <2>2, KeyOfOne
  <2>4. Lower(path[1]) # ArrayMark
    BY <1>1, <1>3
  <2> QED
    BY <2>1, <2>3, <2>4, QueryNameKeeps
<1>4. CASE ~Has(D, KeyOf(path)) /\ Len(path) # 1
  <2> DEFINE Q == QueryNames(D, path)
             ids == [i \in DOMAIN path |-> IdOf(Q, KeyOf(<<path[i]>>))]
             n == Len(Q) + 1
             token == ConstructedToken(n, ids)
             key == KeyOf(path)
             entry == [key |-> key, token |-> token]
  <2>1. QuerySymbol(D, path) = Add(Q, token)
    BY <1>4 DEF QuerySymbol
  <2>2. /\ Dict(Q) /\ Extends(D, Q)
        /\ \A i \in DOMAIN path : Has(Q, <<Lower(path[i])>>)
    BY <1>1, QueryNamesKeeps
  <2> HIDE DEF Q
  <2>3. ASSUME NEW i \in DOMAIN path
        PROVE  /\ IsText(Q, ids[i]) /\ ids[i] \in 1 .. Len(Q)
               /\ Q[ids[i]].key[1] = Lower(path[i])
    <3>1. ids[i] = IdOf(Q, <<Lower(path[i])>>)
      BY KeyOfOne
    <3>2. IsText(Q, ids[i]) /\ ids[i] \in 1 .. Len(Q) /\ Q[ids[i]].key = <<Lower(path[i])>>
      BY <2>2, <3>1, OneNameIsText
    <3> QED
      BY <3>2, OneSeq
  <2>4. IsSeq(ids) /\ Len(ids) = Len(path) /\ DOMAIN ids = DOMAIN path
    <3>1. DOMAIN ids = 1 .. Len(path) /\ ids = [i \in 1 .. Len(path) |-> ids[i]]
      BY <1>1
    <3> HIDE DEF ids
    <3> QED
      BY <1>1, <3>1, FunctionSeq
  <2>5. Len(ids) > 1
    BY <1>1, <1>4, <2>4
  <2>6. [i \in DOMAIN ids |-> Q[ids[i]].key[1]] = key
    <3> HIDE DEF ids
    <3> QED
      BY <2>3, <2>4 DEF KeyOf
  <2> HIDE DEF ids
  <2>7. QualifiedKey(Q, token) = key
    <3>1. \A i \in DOMAIN ids : IsText(Q, ids[i])
      BY <2>3, <2>4
    <3>2. Len(ids) > 0
      BY <2>5, <2>4, <1>1
    <3> QED
      BY <2>2, <2>4, <2>6, <3>1, <3>2, ConstructedKey
  <2>8. Constructed(Append(Q, entry), n, ids)
    <3> DEFINE E == Append(Q, entry)
    <3>1. IsSeq(Q) /\ Len(Q) \in Nat /\ DOMAIN Q = 1 .. Len(Q)
      BY <2>2, SeqLength DEF Dict
    <3>2. DOMAIN E = 1 .. n /\ E[n] = entry /\ \A i \in 1 .. Len(Q) : E[i] = Q[i]
      BY <3>1, AppendSeq
    <3> HIDE DEF E, entry
    <3>3. \A i \in DOMAIN ids : /\ ids[i] \in 1 .. n - 1 /\ IsText(E, ids[i])
                                /\ E[ids[i]].key[1] = Q[ids[i]].key[1]
      BY <2>3, <2>4, <3>1, <3>2 DEF IsText
    <3>4. [i \in DOMAIN ids |-> E[ids[i]].key[1]] = key
      <4> HIDE DEF key
      <4> QED
        BY <2>6, <3>3
    <3>5. E[n] = [key |-> [i \in DOMAIN ids |-> E[ids[i]].key[1]], token |-> token]
      BY <3>2, <3>4 DEF entry
    <3>6. Constructed(E, n, ids)
      BY <2>4, <2>5, <3>3, <3>5 DEF Constructed
    <3> QED
      BY <3>6 DEF E
  <2>9. Entry(Append(Q, entry), n)
    BY <2>8 DEF Entry
  <2> HIDE DEF key, token
  <2>10. Dict(Add(Q, token)) /\ Extends(Q, Add(Q, token)) /\ Has(Add(Q, token), key)
    BY <2>2, <2>7, <2>9, AddKeeps
  <2>11. Extends(D, Add(Q, token))
    BY <2>2, <2>10, ExtendsTransitive
  <2> QED
    BY <2>1, <2>10, <2>11 DEF key
<1> QED
  BY <1>2, <1>3, <1>4

LEMMA ArrayPath ==
  ASSUME NEW path, NameSeq(path)
  PROVE  /\ IsSeq(path \o <<"[]">>) /\ Front(path \o <<"[]">>) = path
         /\ IsArray(path \o <<"[]">>)
         /\ KeyOf(path \o <<"[]">>) = KeyOf(path) \o <<ArrayMark>>
         /\ ~IsArray(path)
<1> DEFINE s == path \o <<"[]">>
           m == <<"[]">>
           f == Front(s)
<1>1. IsSeq(path) /\ Len(path) \in Nat /\ DOMAIN path = 1 .. Len(path) /\ Len(path) # 0
  <2>1. Len(path) = 0 => path = <<>>
    BY DEF NameSeq, IsSeq
  <2> QED
    BY <2>1, SeqLength DEF NameSeq
<1>2. IsSeq(m) /\ Len(m) = 1 /\ m[1] = "[]"
  BY OneSeq
<1>3. IsSeq(m) /\ IsSeq(path)
  BY <1>1, <1>2
<1>4. /\ IsSeq(s) /\ Len(s) = Len(path) + Len(m)
      /\ \A n \in 1 .. Len(path) : s[n] = path[n]
      /\ \A n \in 1 .. Len(m) : s[Len(path) + n] = m[n]
  <2> HIDE DEF m
  <2>1. /\ IsSeq(path \o m) /\ Len(path \o m) = Len(path) + Len(m)
        /\ \A n \in 1 .. Len(path) : (path \o m)[n] = path[n]
        /\ \A n \in 1 .. Len(m) : (path \o m)[Len(path) + n] = m[n]
    BY <1>3, JoinSeq
  <2> QED
    BY <2>1 DEF m
<1> HIDE DEF s, m
<1>5. Len(s) = Len(path) + 1 /\ s[Len(path) + 1] = "[]"
  <2>1. 1 \in 1 .. Len(m)
    BY <1>2
  <2> QED
    BY <1>2, <1>4, <2>1
<1>6. IsArray(s)
  BY <1>5 DEF IsArray, Last
<1>7. f = path
  <2>1. f = SubSeq(s, 1, Len(path))
    BY <1>1, <1>5 DEF Front
  <2>2. Len(path) \in 0 .. Len(s)
    BY <1>1, <1>5
  <2>3. /\ IsSeq(SubSeq(s, 1, Len(path))) /\ Len(SubSeq(s, 1, Len(path))) = Len(path)
        /\ \A n \in 1 .. Len(path) : SubSeq(s, 1, Len(path))[n] = s[n]
    BY <1>4, <2>2, FirstSeq
  <2> HIDE DEF f
  <2>4. \A n \in 1 .. Len(f) : f[n] = path[n]
    BY <1>4, <2>1, <2>3
  <2> QED
    BY <1>1, <2>1, <2>3, <2>4, SameSeq
<1>8. KeyOf(s) = KeyOf(path) \o <<ArrayMark>>
  BY <1>1, KeyOfJoin DEF s, m, ArrayMark
<1>9. ~IsArray(path)
  <2>1. Len(path) \in DOMAIN path
    BY <1>1
  <2>2. Lower(path[Len(path)]) # ArrayMark
    BY <2>1 DEF NameSeq
  <2> QED
    BY <2>2 DEF IsArray, Last, ArrayMark
<1> QED
  BY <1>4, <1>6, <1>7, <1>8, <1>9 DEF s, m

\* The key of a symbol is not that of an array.
LEMMA SymbolIsNoArray ==
  ASSUME NEW D, Dict(D), NEW path, NameSeq(path), Has(D, KeyOf(path))
  PROVE  D[IdOf(D, KeyOf(path))].token.kind # "array"
<1> DEFINE e == D[IdOf(D, KeyOf(path))]
<1>1. IdOf(D, KeyOf(path)) \in DOMAIN D /\ e.key = KeyOf(path)
  BY IdLeads
<1>2. e.token.kind = "array" => e.key[Len(e.key)] = ArrayMark
  BY <1>1, EntryShape
<1>3. /\ IsSeq(path) /\ Len(path) \in DOMAIN path /\ Len(path) \in 1 .. Len(path)
  <2>1. Len(path) = 0 => path = <<>>
    BY DEF NameSeq, IsSeq
  <2> QED
    BY <2>1, SeqLength DEF NameSeq
<1>4. /\ Len(KeyOf(path)) = Len(path)
      /\ KeyOf(path)[Len(path)] = Lower(path[Len(path)])
  BY <1>3, KeySeq
<1>5. Lower(path[Len(path)]) # ArrayMark
  BY <1>3 DEF NameSeq
<1> HIDE DEF e
<1>6. e.token.kind # "array"
  BY <1>1, <1>2, <1>4, <1>5
<1> QED
  BY <1>6 DEF e

LEMMA QueryKeeps ==
  ASSUME NEW D, Dict(D), NEW path, NameSeq(path)
  PROVE  /\ Dict(Query(D, path)) /\ Extends(D, Query(D, path))
         /\ Has(Query(D, path), KeyOf(path))
BY QuerySymbolKeeps, ArrayPath DEF Query

LEMMA QueryArrayKeeps ==
  ASSUME NEW D, Dict(D), NEW path, NameSeq(path)
  PROVE  LET q == Query(D, path \o <<"[]">>)
         IN Dict(q) /\ Extends(D, q) /\ Has(q, KeyOf(path) \o <<ArrayMark>>)
<1> DEFINE s == path \o <<"[]">>
           key == KeyOf(path) \o <<ArrayMark>>
           Q == QuerySymbol(D, path)
           k == IdOf(Q, KeyOf(path))
           n == Len(Q) + 1
           token == ArrayToken(n, k)
           entry == [key |-> key, token |-> token]
<1>1. IsArray(s) /\ Front(s) = path /\ KeyOf(s) = key
  BY ArrayPath
<1>2. CASE Has(D, key)
  <2>1. Query(D, s) = D
    BY <1>1, <1>2 DEF Query
  <2> QED
    BY <1>2, <2>1, ExtendsItself DEF Dict
<1>3. CASE ~Has(D, key)
  <2>1. Query(D, s) = Add(Q, token)
    <3> HIDE DEF s, key
    <3> QED
      BY <1>1, <1>3 DEF Query
  <2>2. Dict(Q) /\ Extends(D, Q) /\ Has(Q, KeyOf(path))
    BY QuerySymbolKeeps
  <2> HIDE DEF Q
  <2>3. k \in DOMAIN Q /\ Q[k].key = KeyOf(path) /\ Q[k].token.kind # "array"
    BY <2>2, IdLeads, SymbolIsNoArray
  <2> HIDE DEF k
  <2>4. QualifiedKey(Q, token) = key
    BY <2>2, <2>3, ArrayKey
  <2>5. OfArrays(Append(Q, entry), n, k)
    <3> DEFINE E == Append(Q, entry)
    <3>1. IsSeq(Q) /\ Len(Q) \in Nat /\ DOMAIN Q = 1 .. Len(Q)
      BY <2>2, SeqLength DEF Dict
    <3>2. E[n] = entry /\ \A i \in 1 .. Len(Q) : E[i] = Q[i]
      BY <3>1, AppendSeq
    <3> HIDE DEF E
    <3>3. k \in 1 .. n - 1 /\ E[k] = Q[k]
      BY <2>3, <3>1, <3>2
    <3>4. OfArrays(E, n, k)
      BY <2>3, <3>2, <3>3 DEF OfArrays
    <3> QED
      BY <3>4 DEF E
  <2>6. Entry(Append(Q, entry), n)
    BY <2>5 DEF Entry
  <2> HIDE DEF key, token
  <2>7. Dict(Add(Q, token)) /\ Extends(Q, Add(Q, token)) /\ Has(Add(Q, token), key)
    BY <2>2, <2>4, <2>6, AddKeeps
  <2>8. Extends(D, Add(Q, token))
    BY <2>2, <2>7, ExtendsTransitive
  <2> QED
    BY <2>1, <2>7, <2>8 DEF key
<1> QED
  BY <1>2, <1>3

-----------------------------------------------------------------------------
(***************************************************************************)
(* The tokens of a file.                                                   *)
(***************************************************************************)
LEMMA EntryKinds ==
  ASSUME NEW D, Dict(D), NEW i \in DOMAIN D
  PROVE  /\ D[i] = [key |-> D[i].key, token |-> D[i].token]
         /\ D[i].token.kind = "text" => Plain(D, i, D[i].token.of[1])
         /\ D[i].token.kind = "constructed" => Constructed(D, i, D[i].token.of)
         /\ D[i].token.kind = "array" => OfArrays(D, i, D[i].token.of[1])
<1> DEFINE Kinds ==
         /\ D[i] = [key |-> D[i].key, token |-> D[i].token]
         /\ D[i].token.kind = "text" => Plain(D, i, D[i].token.of[1])
         /\ D[i].token.kind = "constructed" => Constructed(D, i, D[i].token.of)
         /\ D[i].token.kind = "array" => OfArrays(D, i, D[i].token.of[1])
<1>1. ASSUME NEW text, Plain(D, i, text) PROVE Kinds
  <2>1. D[i].token.kind = "text" /\ D[i].token.of = <<text>>
    BY <1>1 DEF Plain, TextToken
  <2>2. D[i].token.of[1] = text
    BY <2>1, OneSeq
  <2>3. D[i] = [key |-> D[i].key, token |-> D[i].token]
    BY <1>1 DEF Plain
  <2> QED
    BY <1>1, <2>1, <2>2, <2>3
<1>2. ASSUME NEW ids, Constructed(D, i, ids) PROVE Kinds
  <2>1. D[i].token.kind = "constructed" /\ D[i].token.of = ids
    BY <1>2 DEF Constructed, ConstructedToken
  <2>2. D[i] = [key |-> D[i].key, token |-> D[i].token]
    BY <1>2 DEF Constructed
  <2> QED
    BY <1>2, <2>1, <2>2
<1>3. ASSUME NEW id, OfArrays(D, i, id) PROVE Kinds
  <2>1. D[i].token.kind = "array" /\ D[i].token.of = <<id>>
    BY <1>3 DEF OfArrays, ArrayToken
  <2>2. D[i].token.of[1] = id
    BY <2>1, OneSeq
  <2>3. D[i] = [key |-> D[i].key, token |-> D[i].token]
    BY <1>3 DEF OfArrays
  <2> QED
    BY <1>3, <2>1, <2>2, <2>3
<1>4. Entry(D, i)
  BY DEF Dict
<1>5. Kinds
  <2> HIDE DEF Kinds
  <2> QED
    BY <1>1, <1>2, <1>3, <1>4 DEF Entry
<1> QED
  BY <1>5

\* The key of a token follows from those before it.
LEMMA TokenKey ==
  ASSUME NEW E, Dict(E), NEW n \in DOMAIN E, NEW D, Dict(D),
         \A i \in 1 .. n - 1 : i \in DOMAIN D /\ D[i] = E[i]
  PROVE  QualifiedKey(D, E[n].token) = E[n].key
<1>1. IsSeq(D) /\ E[n].token.kind \in {"text", "constructed", "array"}
  BY EntryShape DEF Dict
<1>2. CASE E[n].token.kind = "text"
  <2>1. Plain(E, n, E[n].token.of[1])
    BY <1>2, EntryKinds
  <2>2. PICK text : Plain(E, n, text)
    BY <2>1
  <2>3. E[n].token = TextToken(n, text) /\ E[n].key = <<Lower(text)>>
    BY <2>2 DEF Plain
  <2> QED
    BY <1>1, <2>3, TextKey
<1>3. CASE E[n].token.kind = "constructed"
  <2>1. PICK ids : Constructed(E, n, ids)
    BY <1>3, EntryKinds
  <2>2. /\ IsSeq(ids) /\ Len(ids) > 0 /\ E[n].token = ConstructedToken(n, ids)
        /\ E[n].key = [i \in DOMAIN ids |-> E[ids[i]].key[1]]
    BY <2>1, SeqLength DEF Constructed
  <2>3. \A i \in DOMAIN ids : IsText(D, ids[i]) /\ D[ids[i]] = E[ids[i]]
    BY <2>1 DEF Constructed, IsText
  <2>4. QualifiedKey(D, E[n].token) = [i \in DOMAIN ids |-> D[ids[i]].key[1]]
    BY <2>2, <2>3, ConstructedKey
  <2> QED
    BY <2>2, <2>3, <2>4
<1>4. CASE E[n].token.kind = "array"
  <2>1. PICK id : OfArrays(E, n, id)
    BY <1>4, EntryKinds
  <2>2. /\ id \in DOMAIN D /\ D[id] = E[id] /\ D[id].token.kind # "array"
        /\ E[n].token = ArrayToken(n, id) /\ E[n].key = E[id].key \o <<ArrayMark>>
    BY <2>1 DEF OfArrays
  <2> QED
    BY <2>2, ArrayKey
<1> QED
  BY <1>1, <1>2, <1>3, <1>4

\* The same tokens have the same keys.
LEMMA SameKeys ==
  ASSUME NEW D, Dict(D), NEW E, Dict(E), Len(D) <= Len(E),
         \A i \in 1 .. Len(D) : D[i].token = E[i].token
  PROVE  Extends(D, E)
<1> DEFINE L == Len(D)
           S == {n \in 0 .. L : \A i \in 1 .. n : D[i] = E[i]}
<1>1. /\ IsSeq(D) /\ IsSeq(E) /\ L \in Nat /\ Len(E) \in Nat
      /\ DOMAIN D = 1 .. L /\ DOMAIN E = 1 .. Len(E)
  BY SeqLength DEF Dict
<1> HIDE DEF L
<1>2. 0 \in S
  BY <1>1
<1>3. ASSUME NEW n \in 0 .. L - 1, n \in S PROVE n + 1 \in S
  <2> DEFINE m == n + 1
  <2>1. /\ m \in 0 .. L /\ m \in DOMAIN D /\ m \in DOMAIN E
        /\ \A i \in 1 .. m - 1 : i \in DOMAIN D /\ D[i] = E[i]
    BY <1>1, <1>3 DEF L
  <2>2. m \in 1 .. Len(D)
    BY <2>1, <1>1 DEF L
  <2> HIDE DEF m
  <2>3. QualifiedKey(D, E[m].token) = E[m].key
    BY <2>1, TokenKey
  <2>4. QualifiedKey(D, D[m].token) = D[m].key
    <3>1. \A i \in 1 .. m - 1 : i \in DOMAIN D /\ D[i] = D[i]
      BY <2>1
    <3> QED
      BY <2>1, <3>1, TokenKey
  <2>5. D[m].token = E[m].token
    BY <2>2
  <2>6. /\ D[m] = [key |-> D[m].key, token |-> D[m].token]
        /\ E[m] = [key |-> E[m].key, token |-> E[m].token]
    BY <2>1, EntryKinds
  <2>7. D[m] = E[m]
    BY <2>3, <2>4, <2>5, <2>6
  <2>8. \A i \in 1 .. m : D[i] = E[i]
    <3>1. \A i \in 1 .. m : i = m \/ i \in 1 .. n
      BY <1>1 DEF m
    <3> QED
      BY <1>3, <2>7, <3>1
  <2> QED
    BY <2>1, <2>8 DEF m
<1>4. \A n \in 0 .. L : n \in S
  <2> HIDE DEF S
  <2> QED
    BY <1>1, <1>2, <1>3, BoundedInduction
<1>5. \A i \in 1 .. L : D[i] = E[i]
  <2>1. L \in 0 .. L
    BY <1>1
  <2>2. L \in S
    BY <1>4, <2>1
  <2> QED
    BY <2>2
<1> QED
  BY <1>1, <1>5 DEF Extends, L

LEMMA FirstDict ==
  ASSUME NEW E, Dict(E), NEW k \in 0 .. Len(E)
  PROVE  /\ Dict(SubSeq(E, 1, k)) /\ Extends(SubSeq(E, 1, k), E)
         /\ Len(SubSeq(E, 1, k)) = k
<1> DEFINE D == SubSeq(E, 1, k)
<1>1. IsSeq(E) /\ Len(E) \in Nat /\ DOMAIN E = 1 .. Len(E)
  BY SeqLength DEF Dict
<1>2. /\ IsSeq(D) /\ Len(D) = k /\ DOMAIN D = 1 .. k
      /\ \A n \in 1 .. k : D[n] = E[n]
  BY <1>1, FirstSeq
<1> HIDE DEF D
<1>3. \A n \in 1 .. k : n \in DOMAIN E /\ D[n] = E[n]
  BY <1>1, <1>2
<1>4. ASSUME NEW i \in DOMAIN D PROVE Entry(D, i)
  <2>1. i \in 1 .. k /\ i \in DOMAIN E /\ D[i] = E[i] /\ \A n \in 1 .. i - 1 : n \in 1 .. k
    BY <1>2, <1>3
  <2>2. ASSUME NEW text, Plain(E, i, text) PROVE Plain(D, i, text)
    BY <2>1, <2>2 DEF Plain
  <2>3. ASSUME NEW ids, Constructed(E, i, ids) PROVE Constructed(D, i, ids)
    <3>1. \A n \in DOMAIN ids : IsText(D, ids[n]) /\ D[ids[n]] = E[ids[n]]
      BY <1>2, <1>3, <2>1, <2>3 DEF Constructed, IsText
    <3>2. [n \in DOMAIN ids |-> E[ids[n]].key[1]] = [n \in DOMAIN ids |-> D[ids[n]].key[1]]
      BY <3>1
    <3> QED
      BY <2>1, <2>3, <3>1, <3>2 DEF Constructed
  <2>4. ASSUME NEW id, OfArrays(E, i, id) PROVE OfArrays(D, i, id)
    <3>1. D[id] = E[id]
      BY <1>3, <2>1, <2>4 DEF OfArrays
    <3> QED
      BY <2>1, <2>4, <3>1 DEF OfArrays
  <2>5. Entry(E, i)
    BY <2>1 DEF Dict
  <2> QED
    BY <2>2, <2>3, <2>4, <2>5 DEF Entry
<1>5. \A i, j \in DOMAIN D : D[i].key = D[j].key => i = j
  BY <1>2, <1>3 DEF Dict
<1>6. Dict(D)
  BY <1>2, <1>4, <1>5 DEF Dict
<1>7. Extends(D, E)
  BY <1>1, <1>2, <1>3 DEF Extends
<1> QED
  BY <1>2, <1>6, <1>7 DEF D

LEMMA AddAgain ==
  ASSUME NEW D, Dict(D), NEW n \in DOMAIN D
  PROVE  Add(D, D[n].token) = D
<1>1. \A i \in 1 .. n - 1 : i \in DOMAIN D /\ D[i] = D[i]
  BY SeqLength DEF Dict
<1>2. QualifiedKey(D, D[n].token) = D[n].key
  BY <1>1, TokenKey
<1>3. Has(D, D[n].key)
  BY Found1
<1> QED
  BY <1>2, <1>3 DEF Add, QualifiedKey

LEMMA AddNext ==
  ASSUME NEW E, Dict(E), NEW n \in DOMAIN E
  PROVE  Add(SubSeq(E, 1, n - 1), E[n].token) = SubSeq(E, 1, n)
<1> DEFINE D == SubSeq(E, 1, n - 1)
           F == SubSeq(E, 1, n)
           entry == [key |-> E[n].key, token |-> E[n].token]
           G == Append(D, entry)
<1>1. /\ IsSeq(E) /\ Len(E) \in Nat /\ DOMAIN E = 1 .. Len(E)
      /\ n \in 0 .. Len(E) /\ n - 1 \in 0 .. Len(E)
  BY SeqLength DEF Dict
<1>2. /\ IsSeq(D) /\ Len(D) = n - 1 /\ DOMAIN D = 1 .. n - 1
      /\ \A i \in 1 .. n - 1 : D[i] = E[i]
  BY <1>1, FirstSeq
<1>3. Dict(D)
  BY <1>1, FirstDict
<1>4. IsSeq(F) /\ Len(F) = n /\ \A i \in 1 .. n : F[i] = E[i]
  BY <1>1, FirstSeq
<1> HIDE DEF D, F
<1>5. QualifiedKey(D, E[n].token) = E[n].key
  BY <1>2, <1>3, TokenKey
<1>6. ~Has(D, E[n].key)
  <2>1. ASSUME NEW i \in DOMAIN D, D[i].key = E[n].key PROVE FALSE
    <3>1. i \in DOMAIN E /\ E[i].key = E[n].key /\ i # n
      BY <1>1, <1>2, <2>1
    <3> QED
      BY <3>1 DEF Dict
  <2> QED
    BY <2>1 DEF Has
<1>7. Add(D, E[n].token) = G
  BY <1>5, <1>6 DEF Add, QualifiedKey
<1>8. entry = E[n]
  BY EntryKinds
<1> HIDE DEF entry
<1>9. /\ IsSeq(G) /\ Len(G) = Len(D) + 1 /\ G[Len(D) + 1] = entry
      /\ \A i \in 1 .. Len(D) : G[i] = D[i]
  BY <1>2, AppendSeq
<1> HIDE DEF G
<1>10. \A i \in 1 .. Len(G) : G[i] = F[i]
  <2>1. \A i \in 1 .. Len(G) : i = n \/ i \in 1 .. n - 1
    BY <1>1, <1>2, <1>9
  <2> QED
    BY <1>1, <1>2, <1>4, <1>8, <1>9, <2>1
<1>11. Len(G) = Len(F)
  BY <1>1, <1>2, <1>4, <1>9
<1>12. G = F
  BY <1>4, <1>9, <1>10, <1>11, SameSeq
<1> QED
  BY <1>7, <1>12 DEF D, F

\* A step of the recursion of AddAll.
Adding(D, tokens, f, n) == IF n = 0 THEN D ELSE Add(f[n - 1], tokens[n])

\* What a file adds when one of the tables is the beginning of the other.
LEMMA AddAllKeeps ==
  ASSUME NEW D, Dict(D), NEW E, Dict(E), Extends(D, E) \/ Extends(E, D)
  PROVE  LET all == AddAll(D, TokensOf(E))
         IN Dict(all) /\ Extends(D, all) /\ Extends(E, all)
<1> DEFINE tokens == TokensOf(E)
           L == Len(E)
           F == CHOOSE f : f = [n \in 0 .. Len(tokens) |-> Adding(D, tokens, f, n)]
           R(n) == IF n <= Len(D) THEN D ELSE SubSeq(E, 1, n)
           g == [n \in 0 .. L |-> R(n)]
<1>1. /\ IsSeq(D) /\ IsSeq(E) /\ L \in Nat /\ Len(D) \in Nat
      /\ DOMAIN D = 1 .. Len(D) /\ DOMAIN E = 1 .. L
  BY SeqLength DEF Dict
<1>2. Len(tokens) = L /\ \A n \in 1 .. L : tokens[n] = E[n].token
  <2>1. /\ DOMAIN tokens = 1 .. L /\ tokens = [n \in 1 .. L |-> tokens[n]]
        /\ \A n \in 1 .. L : tokens[n] = E[n].token
    BY <1>1 DEF TokensOf
  <2> HIDE DEF tokens
  <2> QED
    BY <1>1, <2>1, FunctionSeq
<1> HIDE DEF tokens, L
<1>3. ASSUME NEW n \in 1 .. L PROVE R(n) = Add(R(n - 1), tokens[n])
  <2>1. CASE n <= Len(D)
    <3>1. n \in DOMAIN D /\ n - 1 <= Len(D)
      BY <1>1, <2>1
    <3>2. D[n] = E[n]
      BY <1>1, <2>1, <3>1 DEF Extends, L
    <3>3. Add(D, D[n].token) = D
      BY <3>1, AddAgain
    <3> QED
      BY <1>2, <2>1, <3>1, <3>2, <3>3
  <2>2. CASE ~(n <= Len(D))
    <3>1. n \in DOMAIN E
      BY <1>1
    <3>2. R(n - 1) = SubSeq(E, 1, n - 1)
      <4>1. CASE n - 1 <= Len(D)
        <5>1. n - 1 = Len(D) /\ Len(D) <= L
          BY <1>1, <2>2, <4>1
        <5>2. Extends(D, E)
          <6>1. CASE Extends(E, D)
            <7>1. FALSE
              BY <1>1, <2>2, <6>1 DEF Extends, L
            <7> QED
              BY <7>1
          <6> QED
            BY <6>1
        <5>3. D = SubSeq(E, 1, Len(D))
          <6> DEFINE s == SubSeq(E, 1, Len(D))
          <6>1. Len(D) \in 0 .. Len(E)
            BY <1>1, <5>1 DEF L
          <6>2. IsSeq(s) /\ Len(s) = Len(D) /\ \A i \in 1 .. Len(D) : s[i] = E[i]
            BY <1>1, <6>1, FirstSeq
          <6> HIDE DEF s
          <6>3. \A i \in 1 .. Len(D) : D[i] = s[i]
            BY <5>2, <6>2 DEF Extends
          <6>4. D = s
            BY <1>1, <6>2, <6>3, SameSeq
          <6> QED
            BY <6>4 DEF s
        <5> QED
          BY <4>1, <5>1, <5>3
      <4> QED
        BY <4>1
    <3>3. Add(SubSeq(E, 1, n - 1), E[n].token) = SubSeq(E, 1, n)
      BY <3>1, AddNext
    <3> QED
      BY <1>2, <2>2, <3>2, <3>3
  <2> QED
    BY <2>1, <2>2
<1>4. R(0) = D
  BY <1>1
<1> HIDE DEF R
<1>5. g = [n \in 0 .. L |-> Adding(D, tokens, g, n)]
  <2>1. ASSUME NEW n \in 0 .. L PROVE g[n] = Adding(D, tokens, g, n)
    <3>1. CASE n = 0
      BY <1>4, <3>1 DEF Adding
    <3>2. CASE n # 0
      <4>1. n \in 1 .. L /\ n - 1 \in 0 .. L
        BY <1>1, <3>2
      <4>2. g[n] = R(n) /\ g[n - 1] = R(n - 1)
        BY <4>1
      <4> HIDE DEF g
      <4> QED
        BY <1>3, <3>2, <4>1, <4>2 DEF Adding
    <3> QED
      BY <3>1, <3>2
  <2>2. g = [n \in 0 .. L |-> g[n]]
    OBVIOUS
  <2> HIDE DEF g
  <2> QED
    BY <2>1, <2>2
<1>6. F = [n \in 0 .. L |-> Adding(D, tokens, F, n)]
  <2> HIDE DEF g
  <2>1. \E f : f = [n \in 0 .. Len(tokens) |-> Adding(D, tokens, f, n)]
    BY <1>2, <1>5
  <2> QED
    BY <1>2, <2>1
<1>7. AddAll(D, tokens) = F[L]
  BY <1>2 DEF AddAll, Adding
<1> HIDE DEF F, g
<1>8. \A n \in 0 .. L : F[n] = R(n)
  <2> DEFINE S == {n \in 0 .. L : F[n] = R(n)}
  <2>1. 0 \in S
    BY <1>1, <1>4, <1>6 DEF Adding
  <2>2. ASSUME NEW n \in 0 .. L - 1, n \in S PROVE n + 1 \in S
    <3>1. n + 1 \in 1 .. L /\ n + 1 \in 0 .. L /\ n + 1 # 0 /\ (n + 1) - 1 = n
      BY <1>1
    <3>2. F[n + 1] = Add(F[n], tokens[n + 1])
      BY <1>6, <3>1 DEF Adding
    <3>3. R(n + 1) = Add(R(n), tokens[n + 1])
      BY <1>3, <3>1
    <3> QED
      BY <2>2, <3>1, <3>2, <3>3
  <2> HIDE DEF S
  <2>3. \A n \in 0 .. L : n \in S
    BY <1>1, <2>1, <2>2, BoundedInduction
  <2> QED
    BY <2>3 DEF S
<1>9. AddAll(D, tokens) = R(L)
  BY <1>1, <1>7, <1>8
<1>10. Extends(D, D) /\ Extends(E, E)
  BY <1>1, ExtendsItself
<1>11. CASE L <= Len(D)
  <2>1. R(L) = D
    BY <1>11 DEF R
  <2>2. Extends(E, D)
    <3>1. CASE Extends(D, E)
      BY <1>1, <1>11, <3>1 DEF Extends, L
    <3> QED
      BY <3>1
  <2> QED
    BY <1>9, <1>10, <2>1, <2>2 DEF tokens
<1>12. CASE ~(L <= Len(D))
  <2>1. R(L) = SubSeq(E, 1, L)
    BY <1>12 DEF R
  <2>2. SubSeq(E, 1, L) = E
    BY <1>1 DEF L, IsSeq
  <2>3. Extends(D, E)
    BY <1>1, <1>12 DEF Extends, L
  <2> QED
    BY <1>9, <1>10, <2>1, <2>2, <2>3 DEF tokens
<1> QED
  BY <1>11, <1>12

LEMMA PrefixExtends ==
  ASSUME NEW D, Dict(D), NEW E, Dict(E), IsPrefix(TokensOf(D), TokensOf(E))
  PROVE  Extends(D, E)
<1> DEFINE s == TokensOf(D)
           t == TokensOf(E)
<1>1. /\ IsSeq(D) /\ IsSeq(E) /\ Len(D) \in Nat /\ Len(E) \in Nat
      /\ DOMAIN D = 1 .. Len(D) /\ DOMAIN E = 1 .. Len(E)
  BY SeqLength DEF Dict
<1>2. IsSeq(s) /\ Len(s) = Len(D) /\ \A i \in 1 .. Len(D) : s[i] = D[i].token
  <2>1. /\ DOMAIN s = 1 .. Len(D) /\ s = [i \in 1 .. Len(D) |-> s[i]]
        /\ \A i \in 1 .. Len(D) : s[i] = D[i].token
    BY <1>1 DEF TokensOf
  <2> HIDE DEF s
  <2> QED
    BY <1>1, <2>1, FunctionSeq
<1>3. IsSeq(t) /\ Len(t) = Len(E) /\ \A i \in 1 .. Len(E) : t[i] = E[i].token
  <2>1. /\ DOMAIN t = 1 .. Len(E) /\ t = [i \in 1 .. Len(E) |-> t[i]]
        /\ \A i \in 1 .. Len(E) : t[i] = E[i].token
    BY <1>1 DEF TokensOf
  <2> HIDE DEF t
  <2> QED
    BY <1>1, <2>1, FunctionSeq
<1> HIDE DEF s, t
<1>4. Len(s) <= Len(t) /\ SubSeq(s, 1, Len(s)) = SubSeq(t, 1, Len(s))
  BY DEF IsPrefix, s, t
<1>5. \A i \in 1 .. Len(s) : SubSeq(s, 1, Len(s))[i] = s[i]
  <2>1. Len(s) \in 0 .. Len(s)
    BY <1>1, <1>2
  <2> QED
    BY <1>2, <2>1, FirstSeq
<1>6. \A i \in 1 .. Len(s) : SubSeq(t, 1, Len(s))[i] = t[i]
  <2>1. Len(s) \in 0 .. Len(t)
    BY <1>1, <1>2, <1>3, <1>4
  <2> QED
    BY <1>3, <2>1, FirstSeq
<1>7. \A i \in 1 .. Len(D) : D[i].token = E[i].token
  <2>1. \A i \in 1 .. Len(D) : i \in 1 .. Len(E)
    BY <1>1, <1>2, <1>3, <1>4
  <2>2. \A i \in 1 .. Len(D) : s[i] = t[i]
    BY <1>2, <1>4, <1>5, <1>6
  <2> QED
    BY <1>2, <1>3, <2>1, <2>2
<1>8. Len(D) <= Len(E)
  BY <1>2, <1>3, <1>4
<1> QED
  BY <1>7, <1>8, SameKeys

-----------------------------------------------------------------------------
(***************************************************************************)
(* The invariant: the tables of the packages and of the compiler, as long  *)
(* as they agree, come from dictionaries whose keys are those the symbols  *)
(* are declared with, and what a package uses stands in it or in one it    *)
(* depends on.                                                             *)
(***************************************************************************)
Declared(p) == ToSet(Declares[p])

Leads(D, use) ==
  /\ use.id \in DOMAIN D
  /\ D[use.id].key \in {KeyOf(use.of), KeyOf(use.of) \o <<ArrayMark>>}

\* A dictionary a file was written from.
Explains(D, file) ==
  /\ Dict(D) /\ file.tokens = TokensOf(D)
  /\ \A path \in DOMAIN file.names : /\ file.names[path] \in DOMAIN D
                                     /\ D[file.names[path]].key = <<Lower(Last(path))>>
  /\ \A use \in file.uses : Leads(D, use)

AreWritten(packages) ==
  /\ IsSeq(packages)
  /\ \A i \in DOMAIN packages : packages[i] \in Packages /\ files[packages[i]].written

DeclaredIn(of, p, dependencies) ==
  of \in Declared(p) \/ \E i \in DOMAIN dependencies : of \in Declared(dependencies[i])

FileSound(p) ==
  LET file == files[p]
  IN file.written =>
       /\ AreWritten(file.dependencies)
       /\ DOMAIN file.names = Declared(p)
       /\ \A use \in file.uses : DeclaredIn(use.of, p, file.dependencies)
       /\ file.agree => \E D : Explains(D, file)

FilesSound == DOMAIN files = Packages /\ \A p \in Packages : FileSound(p)

\* The dictionary of the compiler.
EnvAgrees ==
  /\ Dict(env.dict)
  /\ \A k \in env.known : KeyOf(k.name) = KeyOf(k.of)
  /\ \A use \in env.uses : Leads(env.dict, use)

EnvSound ==
  \/ env.phase = "idle"
  \/ /\ env.phase \in {"read", "generate"} /\ machine.phase = "idle"
     /\ env = [phase |-> env.phase, package |-> env.package, dict |-> env.dict,
               known |-> env.known, queue |-> env.queue, dependencies |-> env.dependencies,
               uses |-> env.uses, agree |-> env.agree]
     /\ env.package \in Packages
     /\ AreWritten(env.queue) /\ AreWritten(env.dependencies)
     /\ \A k \in env.known : IsSeq(k.name) /\ DeclaredIn(k.of, env.package, env.dependencies)
     /\ \A use \in env.uses : DeclaredIn(use.of, env.package, env.dependencies)
     /\ env.agree => EnvAgrees

MachineSound ==
  machine.phase = "run" =>
    /\ env.phase = "idle"
    /\ machine.packages \subseteq Packages
    /\ \A p \in machine.packages : /\ files[p].written
                                   /\ ToSet(files[p].dependencies) \subseteq machine.packages

LinkInv == FilesSound /\ EnvSound /\ MachineSound

\* What is declared.
LEMMA PathDeclared ==
  ASSUME NEW p \in Packages, NEW path \in Declared(p)
  PROVE  /\ NameSeq(path) /\ Len(path) \in Nat /\ DOMAIN path = 1 .. Len(path)
         /\ \A i \in 1 .. Len(path) : /\ SubSeq(path, 1, i) \in Declared(p)
                                      /\ Last(SubSeq(path, 1, i)) = path[i]
         /\ Lower(Last(path)) # ArrayMark
<1>1. /\ path # <<>>
      /\ \A i \in DOMAIN path : /\ SubSeq(path, 1, i) \in ToSet(Declares[p])
                                /\ Lower(path[i]) # Lower("[]")
  BY DeclaresAssumption DEF Declared
<1>2. Declares[p] \in Seq(Seq(STRING))
  BY DeclaresAssumption
<1>3. path \in Seq(STRING)
  BY <1>2 DEF Declared, ToSet
<1>4. IsSeq(path) /\ Len(path) \in Nat /\ DOMAIN path = 1 .. Len(path)
  BY <1>3, ItsElements
<1>5. NameSeq(path)
  BY <1>1, <1>4 DEF NameSeq, ArrayMark
<1>6. ASSUME NEW i \in 1 .. Len(path) PROVE Last(SubSeq(path, 1, i)) = path[i]
  <2>1. i \in 0 .. Len(path) /\ i \in 1 .. i
    BY <1>4
  <2>2. Len(SubSeq(path, 1, i)) = i /\ SubSeq(path, 1, i)[i] = path[i]
    BY <1>4, <2>1, FirstSeq
  <2> QED
    BY <2>2 DEF Last
<1>7. Lower(Last(path)) # ArrayMark
  <2>1. Len(path) = 0 => path = <<>>
    BY <1>3
  <2>2. Len(path) \in DOMAIN path
    BY <1>1, <1>4, <2>1
  <2> QED
    BY <1>1, <2>2 DEF Last, ArrayMark
<1> QED
  BY <1>1, <1>4, <1>5, <1>6, <1>7 DEF Declared

LEMMA LeadsStays ==
  ASSUME NEW D, Dict(D), NEW E, Extends(D, E), NEW use, Leads(D, use)
  PROVE  Leads(E, use)
<1>1. DOMAIN D = 1 .. Len(D) /\ DOMAIN E = 1 .. Len(E) /\ Len(D) \in Nat /\ Len(E) \in Nat
  BY SeqLength DEF Dict, Extends
<1>2. use.id \in DOMAIN E /\ E[use.id] = D[use.id]
  BY <1>1 DEF Leads, Extends
<1> QED
  BY <1>2 DEF Leads

LEMMA TailSeq ==
  ASSUME NEW s, IsSeq(s), s # <<>>
  PROVE  /\ IsSeq(Tail(s)) /\ Head(s) = s[1] /\ 1 \in DOMAIN s
         /\ \A i \in DOMAIN Tail(s) : i + 1 \in DOMAIN s /\ Tail(s)[i] = s[i + 1]
<1>1. s \in Seq(SetOf(s))
  BY DEF IsSeq
<1>2. Tail(s) \in Seq(SetOf(s)) /\ Len(s) \in Nat /\ Len(s) # 0
  BY <1>1
<1>3. Len(Tail(s)) = Len(s) - 1 /\ \A i \in 1 .. Len(s) - 1 : Tail(s)[i] = s[i + 1]
  BY <1>1, <1>2
<1>4. DOMAIN Tail(s) = 1 .. Len(s) - 1 /\ DOMAIN s = 1 .. Len(s)
  BY <1>1, <1>2, <1>3
<1>5. IsSeq(Tail(s))
  BY <1>2, ItsElements
<1>6. Head(s) = s[1]
  BY <1>1, <1>2
<1> QED
  BY <1>2, <1>3, <1>4, <1>5, <1>6

LEMMA InitSound == Init => LinkInv
<1> SUFFICES ASSUME Init PROVE LinkInv
  OBVIOUS
<1>1. DOMAIN files = Packages /\ \A p \in Packages : files[p] = NoFile
  BY DEF Init
<1>2. \A p \in Packages : FileSound(p)
  BY <1>1 DEF FileSound, NoFile
<1>3. env.phase = "idle" /\ machine.phase = "idle"
  BY DEF Init, Idle
<1> QED
  BY <1>1, <1>2, <1>3 DEF LinkInv, FilesSound, EnvSound, MachineSound

LEMMA SameFiles ==
  ASSUME FilesSound, files' = files
  PROVE  FilesSound'
BY DEF FilesSound, FileSound, AreWritten

LEMMA CoreFirst ==
  ASSUME NEW imports \in SUBSET Package, NEW order \in SetToSeqs(imports)
  PROVE  /\ IsSeq(<<core>> \o order)
         /\ \A i \in DOMAIN (<<core>> \o order) : (<<core>> \o order)[i] \in imports \cup {core}
<1> DEFINE s == <<core>>
           n == Cardinality(imports)
<1>1. n \in Nat
  <2>1. IsFiniteSet(imports)
    BY LinkingAssumption, FS_Subset
  <2> QED
    BY <2>1, FS_CardinalityType
<1>2. order \in [1 .. n -> imports]
  BY DEF SetToSeqs
<1>3. IsSeq(order) /\ Len(order) = n /\ \A i \in 1 .. n : order[i] \in imports
  <2>1. order \in Seq(imports)
    BY <1>1, <1>2
  <2> HIDE DEF n
  <2>2. IsSeq(order) /\ Len(order) = n
    BY <1>1, <1>2, <2>1, ItsElements
  <2> QED
    BY <1>2, <2>2
<1>4. IsSeq(s) /\ Len(s) = 1 /\ s[1] = core
  BY OneSeq
<1>5. IsSeq(s) /\ IsSeq(order)
  BY <1>3, <1>4
<1> HIDE DEF n, s
<1>6. /\ IsSeq(s \o order) /\ DOMAIN (s \o order) = 1 .. Len(s) + Len(order)
      /\ \A i \in 1 .. Len(s) : (s \o order)[i] = s[i]
      /\ \A i \in 1 .. Len(order) : (s \o order)[Len(s) + i] = order[i]
  BY <1>5, JoinSeq
<1>7. ASSUME NEW i \in DOMAIN (s \o order) PROVE (s \o order)[i] \in imports \cup {core}
  <2>1. CASE i = 1
    BY <1>4, <1>6, <2>1
  <2>2. CASE i # 1
    <3>1. i - 1 \in 1 .. Len(order) /\ Len(s) + (i - 1) = i
      BY <1>1, <1>3, <1>4, <1>6, <2>2
    <3>2. (s \o order)[Len(s) + (i - 1)] = order[i - 1]
      BY <1>6, <3>1
    <3> QED
      BY <1>3, <3>1, <3>2
  <2> QED
    BY <2>1, <2>2
<1> QED
  BY <1>6, <1>7 DEF s

LEMMA EmptyDict == Dict(<<>>)
<1>1. IsSeq(<<>>) /\ Len(<<>>) = 0
  BY OneSeq
<1>2. DOMAIN <<>> = {}
  OBVIOUS
<1> QED
  BY <1>1, <1>2 DEF Dict

LEMMA StartKeeps ==
  ASSUME LinkInv, NEW p \in Packages, NEW imports \in Imports[p], Start(p, imports)
  PROVE  LinkInv'
<1>1. /\ env.phase = "idle" /\ machine.phase = "idle" /\ machine' = machine /\ files' = files
      /\ \A q \in (IF p = core THEN {} ELSE imports \cup {core}) : files[q].written
  BY DEF Start
<1>2. PICK order \in SetToSeqs(imports) :
        env' = [phase |-> "read", package |-> p, dict |-> <<>>,
                known |-> {Known(path, path) : path \in ToSet(Declares[p])},
                queue |-> IF p = core THEN <<>> ELSE <<core>> \o order,
                dependencies |-> <<>>, uses |-> {}, agree |-> TRUE]
  BY DEF Start
<1>3. imports \in SUBSET Package
  BY LinkingAssumption
<1>4. AreWritten(env.queue)'
  <2>1. IsSeq(<<>>) /\ DOMAIN <<>> = {}
    BY EmptyDict DEF Dict
  <2>2. CASE p = core
    <3>1. env'.queue = <<>>
      BY <1>2, <2>2
    <3> QED
      BY <2>1, <3>1 DEF AreWritten
  <2>3. CASE p # core
    <3> DEFINE q == <<core>> \o order
    <3>1. env'.queue = q
      BY <1>2, <2>3
    <3>2. IsSeq(q) /\ \A i \in DOMAIN q : q[i] \in imports \cup {core}
      BY <1>3, CoreFirst
    <3> HIDE DEF q
    <3>3. \A i \in DOMAIN q : q[i] \in Packages /\ files[q[i]].written
      BY <1>1, <1>3, <2>3, <3>2 DEF Packages
    <3> QED
      BY <1>1, <3>1, <3>2, <3>3 DEF AreWritten
  <2> QED
    BY <2>2, <2>3
<1>5. AreWritten(env.dependencies)'
  <2>1. env'.dependencies = <<>> /\ IsSeq(<<>>) /\ DOMAIN <<>> = {}
    BY <1>2, OneSeq
  <2> QED
    BY <2>1 DEF AreWritten
<1>6. ASSUME NEW k \in env'.known
      PROVE  /\ IsSeq(k.name) /\ KeyOf(k.name) = KeyOf(k.of) /\ k.of \in Declared(p)
  <2>1. PICK path \in ToSet(Declares[p]) : k = Known(path, path)
    BY <1>2
  <2>2. k.name = path /\ k.of = path
    BY <2>1 DEF Known
  <2>3. IsSeq(path)
    BY PathDeclared DEF Declared, NameSeq
  <2> QED
    BY <2>2, <2>3 DEF Declared
<1>7. EnvAgrees'
  <2>1. env'.dict = <<>> /\ env'.uses = {}
    BY <1>2
  <2>2. Dict(env'.dict)
    BY <2>1, EmptyDict
  <2> QED
    BY <2>1, <2>2, <1>6 DEF EnvAgrees
<1>8. EnvSound'
  <2>1. /\ env'.phase = "read" /\ env'.package = p /\ env'.uses = {}
        /\ env' = [phase |-> env'.phase, package |-> env'.package, dict |-> env'.dict,
               known |-> env'.known, queue |-> env'.queue, dependencies |-> env'.dependencies,
               uses |-> env'.uses, agree |-> env'.agree]
    BY <1>2
  <2>2. \A k \in env'.known : IsSeq(k.name) /\ DeclaredIn(k.of, env'.package, env'.dependencies)
    BY <1>6, <2>1 DEF DeclaredIn
  <2> QED
    BY <1>1, <1>4, <1>5, <1>7, <2>1, <2>2 DEF EnvSound
<1>9. FilesSound'
  BY <1>1, SameFiles DEF LinkInv
<1>10. MachineSound'
  BY <1>1 DEF MachineSound
<1> QED
  BY <1>8, <1>9, <1>10 DEF LinkInv

LEMMA EndReadKeeps ==
  ASSUME LinkInv, EndRead
  PROVE  LinkInv'
<1>1. /\ env.phase = "read" /\ env' = [env EXCEPT !.phase = "generate"]
      /\ files' = files /\ machine' = machine
  BY DEF EndRead
<1>2. /\ machine.phase = "idle"
      /\ env = [phase |-> env.phase, package |-> env.package, dict |-> env.dict,
               known |-> env.known, queue |-> env.queue, dependencies |-> env.dependencies,
               uses |-> env.uses, agree |-> env.agree]
      /\ env.package \in Packages
      /\ AreWritten(env.queue) /\ AreWritten(env.dependencies)
      /\ \A k \in env.known : IsSeq(k.name) /\ DeclaredIn(k.of, env.package, env.dependencies)
      /\ \A use \in env.uses : DeclaredIn(use.of, env.package, env.dependencies)
      /\ env.agree => EnvAgrees
  BY <1>1 DEF LinkInv, EnvSound
<1>3. env' = [phase |-> "generate", package |-> env.package, dict |-> env.dict,
               known |-> env.known, queue |-> env.queue, dependencies |-> env.dependencies,
               uses |-> env.uses, agree |-> env.agree]
  BY <1>1, <1>2
<1>4. EnvSound'
  <2>1. /\ env'.package = env.package /\ env'.dict = env.dict /\ env'.known = env.known
        /\ env'.queue = env.queue /\ env'.dependencies = env.dependencies
        /\ env'.uses = env.uses /\ env'.agree = env.agree /\ env'.phase = "generate"
    BY <1>3
  <2>2. AreWritten(env.queue)' /\ AreWritten(env.dependencies)'
    BY <1>1, <1>2, <2>1 DEF AreWritten
  <2>3. env'.agree => EnvAgrees'
    BY <1>2, <2>1 DEF EnvAgrees
  <2> QED
    BY <1>1, <1>2, <1>3, <2>1, <2>2, <2>3 DEF EnvSound
<1>5. FilesSound'
  BY <1>1, SameFiles DEF LinkInv
<1>6. MachineSound'
  BY <1>1, <1>2 DEF MachineSound
<1> QED
  BY <1>4, <1>5, <1>6 DEF LinkInv

LEMMA ExitKeeps ==
  ASSUME LinkInv, Exit
  PROVE  LinkInv'
<1>1. machine.phase = "run" /\ machine' = Idle /\ files' = files /\ env' = env
  BY DEF Exit
<1>2. env.phase = "idle"
  BY <1>1 DEF LinkInv, MachineSound
<1>3. EnvSound'
  BY <1>1, <1>2 DEF EnvSound
<1>4. FilesSound'
  BY <1>1, SameFiles DEF LinkInv
<1>5. MachineSound'
  BY <1>1 DEF MachineSound, Idle
<1> QED
  BY <1>3, <1>4, <1>5 DEF LinkInv

LEMMA RunKeeps ==
  ASSUME LinkInv, NEW p \in Packages, Run(p)
  PROVE  LinkInv'
<1>1. /\ env.phase = "idle" /\ files[p].written /\ files' = files /\ env' = env
      /\ machine' = [phase |-> "run", packages |-> FromPath(p)]
  BY DEF Run
<1> DEFINE Closed(S) == \A r \in S : Dependencies(r) \subseteq S
           Written == {q \in Packages : files[q].written}
<1>2. ASSUME NEW q \in Packages PROVE Dependencies(q) \subseteq Written
  <2>1. CASE files[q].written
    <3>1. AreWritten(files[q].dependencies)
      BY <2>1 DEF LinkInv, FilesSound, FileSound
    <3>2. Dependencies(q) = ToSet(files[q].dependencies)
      BY <2>1 DEF Dependencies
    <3> QED
      BY <3>1, <3>2 DEF AreWritten, ToSet
  <2>2. CASE ~files[q].written
    BY <2>2 DEF Dependencies
  <2> QED
    BY <2>1, <2>2
<1>3. FromPath(p) \subseteq Written
  <2>1. Written \in SUBSET Packages /\ p \in Written /\ Closed(Written)
    BY <1>1, <1>2
  <2> HIDE DEF Written
  <2> QED
    BY <2>1 DEF FromPath
<1>4. ASSUME NEW r \in FromPath(p) PROVE ToSet(files[r].dependencies) \subseteq FromPath(p)
  <2>1. r \in Packages /\ files[r].written
    BY <1>3
  <2>2. Dependencies(r) = ToSet(files[r].dependencies)
    BY <2>1 DEF Dependencies
  <2>3. ASSUME NEW d \in Dependencies(r) PROVE d \in FromPath(p)
    <3>1. d \in Packages
      BY <1>2, <2>1, <2>3
    <3>2. ASSUME NEW S \in SUBSET Packages, p \in S, Closed(S) PROVE d \in S
      <4>1. r \in S
        BY <3>2 DEF FromPath
      <4> QED
        BY <2>3, <3>2, <4>1
    <3> QED
      BY <3>1, <3>2 DEF FromPath
  <2> QED
    BY <2>2, <2>3
<1>5. MachineSound'
  <2>1. machine'.packages = FromPath(p) /\ machine'.packages \subseteq Packages
    BY <1>1, <1>3
  <2> QED
    BY <1>1, <1>3, <1>4, <2>1 DEF MachineSound
<1>6. EnvSound'
  BY <1>1 DEF EnvSound
<1>7. FilesSound'
  BY <1>1, SameFiles DEF LinkInv
<1> QED
  BY <1>5, <1>6, <1>7 DEF LinkInv

\* The names FromFile gives are those the symbols have, but for the case.
LEMMA ReadNames ==
  ASSUME NEW E, NEW file, Explains(E, file), NEW D, Dict(D), Extends(E, D),
         NEW p \in Packages, DOMAIN file.names = Declared(p), NEW path \in Declared(p)
  PROVE  KeyOf(NameRead(D, file.names, path)) = KeyOf(path)
<1> DEFINE name == NameRead(D, file.names, path)
           Id(i) == file.names[SubSeq(path, 1, i)]
<1>1. DOMAIN E = 1 .. Len(E) /\ DOMAIN D = 1 .. Len(D) /\ Len(E) \in Nat /\ Len(D) \in Nat
  BY SeqLength DEF Explains, Dict
<1>2. DOMAIN path = 1 .. Len(path)
  BY PathDeclared
<1>3. ASSUME NEW i \in DOMAIN path PROVE Lower(name[i]) = Lower(path[i])
  <2>1. SubSeq(path, 1, i) \in Declared(p) /\ Last(SubSeq(path, 1, i)) = path[i]
    BY <1>2, PathDeclared
  <2>2. Id(i) \in DOMAIN E /\ E[Id(i)].key = <<Lower(path[i])>>
    BY <2>1 DEF Explains
  <2>3. Id(i) \in DOMAIN D /\ D[Id(i)] = E[Id(i)]
    BY <1>1, <2>2 DEF Extends
  <2>4. Has(D, <<Lower(path[i])>>) /\ IdOf(D, <<Lower(path[i])>>) = Id(i)
    BY <2>2, <2>3, Found1
  <2>5. IsText(D, Id(i))
    BY <2>4, OneNameIsText
  <2>6. D[Id(i)].key = <<Lower(D[Id(i)].token.of[1])>> /\ D[Id(i)].token.kind = "text"
    BY <2>5, EntryShape DEF IsText
  <2>7. Lower(D[Id(i)].token.of[1]) = Lower(path[i])
    <3>1. <<Lower(D[Id(i)].token.of[1])>>[1] = <<Lower(path[i])>>[1]
      BY <2>2, <2>3, <2>6
    <3> QED
      BY <3>1
  <2>8. name[i] = D[Id(i)].token.of[1]
    BY <2>3, <2>6 DEF NameRead
  <2> QED
    BY <2>7, <2>8
<1>4. DOMAIN name = DOMAIN path
  BY DEF NameRead
<1> HIDE DEF name
<1>5. KeyOf(name) = KeyOf(path)
  BY <1>3, <1>4 DEF KeyOf
<1> QED
  BY <1>5 DEF name

LEMMA ReadKeeps ==
  ASSUME LinkInv, Read
  PROVE  LinkInv'
<1> DEFINE q == Head(env.queue)
           file == files[q]
           dict == AddAll(env.dict, file.tokens)
           more == IF q = core THEN <<>> ELSE file.dependencies
           prefixes == \/ IsPrefix(file.tokens, TokensOf(env.dict))
                       \/ IsPrefix(TokensOf(env.dict), file.tokens)
<1>1. /\ env.phase = "read" /\ env.queue # <<>> /\ files' = files /\ machine' = machine
      /\ env' = [env EXCEPT
          !.dict = dict,
          !.known = @ \cup {Known(path, NameRead(dict, file.names, path)) : path \in DOMAIN file.names},
          !.queue = Tail(@) \o more,
          !.dependencies = Append(@, q),
          !.agree = @ /\ file.agree /\ prefixes]
  BY DEF Read
<1>2. /\ machine.phase = "idle"
      /\ env = [phase |-> env.phase, package |-> env.package, dict |-> env.dict,
               known |-> env.known, queue |-> env.queue, dependencies |-> env.dependencies,
               uses |-> env.uses, agree |-> env.agree]
      /\ env.package \in Packages
      /\ AreWritten(env.queue) /\ AreWritten(env.dependencies)
      /\ \A k \in env.known : IsSeq(k.name) /\ DeclaredIn(k.of, env.package, env.dependencies)
      /\ \A use \in env.uses : DeclaredIn(use.of, env.package, env.dependencies)
      /\ env.agree => EnvAgrees
  BY <1>1 DEF LinkInv, EnvSound
<1>3. q \in Packages /\ file.written
  <2>1. q = env.queue[1] /\ 1 \in DOMAIN env.queue
    BY <1>1, <1>2, TailSeq DEF AreWritten
  <2> QED
    BY <1>2, <2>1 DEF AreWritten
<1>4. /\ AreWritten(file.dependencies) /\ DOMAIN file.names = Declared(q)
      /\ file.agree => \E D : Explains(D, file)
  BY <1>3 DEF LinkInv, FilesSound, FileSound
<1> HIDE DEF q, file, dict, more, prefixes
<1>5. /\ env'.phase = "read" /\ env'.package = env.package /\ env'.dict = dict
      /\ env'.known = env.known \cup {Known(path, NameRead(dict, file.names, path)) : path \in DOMAIN file.names}
      /\ env'.queue = Tail(env.queue) \o more
      /\ env'.dependencies = Append(env.dependencies, q)
      /\ env'.uses = env.uses /\ env'.agree = (env.agree /\ file.agree /\ prefixes)
      /\ env' = [phase |-> env'.phase, package |-> env'.package, dict |-> env'.dict,
               known |-> env'.known, queue |-> env'.queue, dependencies |-> env'.dependencies,
               uses |-> env'.uses, agree |-> env'.agree]
  BY <1>1, <1>2
<1>6. AreWritten(env.queue)'
  <2> DEFINE rest == Tail(env.queue)
  <2>1. AreWritten(rest)
    <3>1. /\ IsSeq(rest)
          /\ \A i \in DOMAIN rest : i + 1 \in DOMAIN env.queue /\ rest[i] = env.queue[i + 1]
      BY <1>1, <1>2, TailSeq DEF AreWritten
    <3> HIDE DEF rest
    <3> QED
      BY <1>2, <3>1 DEF AreWritten
  <2>2. AreWritten(more)
    <3>1. IsSeq(<<>>) /\ DOMAIN <<>> = {}
      BY EmptyDict DEF Dict
    <3> QED
      BY <1>4, <3>1 DEF AreWritten, more
  <2> HIDE DEF rest
  <2>3. IsSeq(rest) /\ IsSeq(more)
    BY <2>1, <2>2 DEF AreWritten
  <2> DEFINE s == rest \o more
  <2>4. /\ IsSeq(s) /\ DOMAIN s = 1 .. Len(rest) + Len(more)
        /\ \A i \in 1 .. Len(rest) : s[i] = rest[i]
        /\ \A i \in 1 .. Len(more) : s[Len(rest) + i] = more[i]
    BY <2>3, JoinSeq
  <2>5. /\ DOMAIN rest = 1 .. Len(rest) /\ Len(rest) \in Nat
        /\ DOMAIN more = 1 .. Len(more) /\ Len(more) \in Nat
    BY <2>3, SeqLength
  <2> HIDE DEF s
  <2>6. ASSUME NEW i \in DOMAIN s PROVE s[i] \in Packages /\ files[s[i]].written
    <3>1. CASE i \in 1 .. Len(rest)
      BY <2>1, <2>4, <2>5, <3>1 DEF AreWritten
    <3>2. CASE i \notin 1 .. Len(rest)
      <4> DEFINE j == i - Len(rest)
      <4>1. j \in 1 .. Len(more) /\ Len(rest) + j = i
        BY <2>4, <2>5, <3>2
      <4> HIDE DEF j
      <4>2. s[i] = more[j]
        BY <2>4, <4>1
      <4> QED
        BY <2>2, <2>5, <4>1, <4>2 DEF AreWritten
    <3> QED
      BY <3>1, <3>2
  <2>7. env'.queue = s
    BY <1>5 DEF s, rest
  <2> QED
    BY <1>1, <2>4, <2>6, <2>7 DEF AreWritten
<1>7. /\ AreWritten(env.dependencies)'
      /\ DOMAIN env'.dependencies = 1 .. Len(env.dependencies) + 1
      /\ \A i \in DOMAIN env.dependencies : /\ i \in DOMAIN env'.dependencies
                                            /\ env'.dependencies[i] = env.dependencies[i]
      /\ Len(env.dependencies) + 1 \in DOMAIN env'.dependencies
      /\ env'.dependencies[Len(env.dependencies) + 1] = q
  <2> DEFINE n == Len(env.dependencies)
             s == Append(env.dependencies, q)
  <2>1. n \in Nat /\ DOMAIN env.dependencies = 1 .. n
    BY <1>2, SeqLength DEF AreWritten
  <2>2. /\ IsSeq(s) /\ DOMAIN s = 1 .. n + 1 /\ s[n + 1] = q
        /\ \A i \in 1 .. n : s[i] = env.dependencies[i]
    BY <1>2, AppendSeq DEF AreWritten
  <2>3. env'.dependencies = s
    BY <1>5
  <2> HIDE DEF s, n
  <2>4. \A i \in DOMAIN s : i = n + 1 \/ i \in 1 .. n
    BY <2>1, <2>2
  <2>5. \A i \in DOMAIN s : s[i] \in Packages /\ files[s[i]].written
    BY <1>2, <1>3, <2>1, <2>2, <2>4 DEF AreWritten, file
  <2>6. AreWritten(env.dependencies)'
    BY <1>1, <2>2, <2>3, <2>5 DEF AreWritten
  <2> QED
    BY <2>1, <2>2, <2>3, <2>6 DEF n
<1>8. ASSUME NEW of, DeclaredIn(of, env.package, env.dependencies)
      PROVE  DeclaredIn(of, env'.package, env'.dependencies)
  BY <1>5, <1>7, <1>8 DEF DeclaredIn
<1>9. ASSUME NEW k \in env'.known
      PROVE  IsSeq(k.name) /\ DeclaredIn(k.of, env'.package, env'.dependencies)
  <2>1. CASE k \in env.known
    BY <1>2, <1>8, <2>1
  <2>2. CASE k \notin env.known
    <3>1. PICK path \in DOMAIN file.names : k = Known(path, NameRead(dict, file.names, path))
      BY <1>5, <2>2
    <3>2. k.of = path /\ k.name = NameRead(dict, file.names, path)
      BY <3>1 DEF Known
    <3>3. path \in Declared(q)
      BY <1>4, <3>1
    <3>4. DOMAIN path = 1 .. Len(path) /\ Len(path) \in Nat
      BY <1>3, <3>3, PathDeclared
    <3>5. DOMAIN k.name = 1 .. Len(path) /\ k.name = [i \in 1 .. Len(path) |-> k.name[i]]
      BY <3>2, <3>4 DEF NameRead
    <3>6. IsSeq(k.name)
      BY <3>4, <3>5, FunctionSeq
    <3> QED
      BY <1>7, <3>2, <3>3, <3>6 DEF DeclaredIn
  <2> QED
    BY <2>1, <2>2
<1>10. ASSUME env'.agree PROVE EnvAgrees'
  <2>1. env.agree /\ file.agree /\ prefixes
    BY <1>5, <1>10
  <2>2. PICK E : Explains(E, file)
    BY <1>4, <2>1
  <2>3. Dict(E) /\ file.tokens = TokensOf(E) /\ Dict(env.dict)
    BY <1>2, <2>1, <2>2 DEF Explains, EnvAgrees
  <2>4. Extends(env.dict, E) \/ Extends(E, env.dict)
    BY <2>1, <2>3, PrefixExtends DEF prefixes
  <2>5. Dict(dict) /\ Extends(env.dict, dict) /\ Extends(E, dict)
    BY <2>3, <2>4, AddAllKeeps DEF dict
  <2>6. ASSUME NEW k \in env'.known PROVE KeyOf(k.name) = KeyOf(k.of)
    <3>1. CASE k \in env.known
      BY <1>2, <2>1, <3>1 DEF EnvAgrees
    <3>2. CASE k \notin env.known
      <4>1. PICK path \in DOMAIN file.names : k = Known(path, NameRead(dict, file.names, path))
        BY <1>5, <3>2
      <4>2. k.of = path /\ k.name = NameRead(dict, file.names, path)
        BY <4>1 DEF Known
      <4>3. KeyOf(NameRead(dict, file.names, path)) = KeyOf(path)
        BY <1>3, <1>4, <2>2, <2>5, <4>1, ReadNames
      <4> QED
        BY <4>2, <4>3
    <3> QED
      BY <3>1, <3>2
  <2>7. \A use \in env'.uses : Leads(env'.dict, use)
    <3>1. \A use \in env.uses : Leads(env.dict, use)
      BY <1>2, <2>1 DEF EnvAgrees
    <3> QED
      BY <1>5, <2>3, <2>5, <3>1, LeadsStays
  <2> QED
    BY <1>5, <2>5, <2>6, <2>7 DEF EnvAgrees
<1>11. EnvSound'
  <2>1. \A use \in env'.uses : DeclaredIn(use.of, env'.package, env'.dependencies)
    BY <1>2, <1>5, <1>8
  <2> QED
    BY <1>1, <1>2, <1>5, <1>6, <1>7, <1>9, <1>10, <2>1 DEF EnvSound
<1>12. FilesSound'
  BY <1>1, SameFiles DEF LinkInv
<1>13. MachineSound'
  BY <1>1, <1>2 DEF MachineSound
<1> QED
  BY <1>11, <1>12, <1>13 DEF LinkInv

\* Names that differ from declared ones in case only.
LEMMA LikeDeclared ==
  ASSUME NEW p \in Packages, NEW path \in Declared(p), NEW name, IsSeq(name),
         KeyOf(name) = KeyOf(path)
  PROVE  NameSeq(name)
<1>1. /\ NameSeq(path) /\ DOMAIN path = 1 .. Len(path) /\ Len(path) \in Nat /\ Len(path) # 0
  <2>1. Len(path) = 0 => path = <<>>
    BY PathDeclared DEF NameSeq, IsSeq
  <2> QED
    BY <2>1, PathDeclared DEF NameSeq
<1>2. /\ Len(KeyOf(path)) = Len(path)
      /\ \A i \in 1 .. Len(path) : KeyOf(path)[i] = Lower(path[i])
  BY <1>1, KeySeq DEF NameSeq
<1>3. /\ Len(KeyOf(name)) = Len(name) /\ DOMAIN name = 1 .. Len(name)
      /\ \A i \in 1 .. Len(name) : KeyOf(name)[i] = Lower(name[i])
  BY KeySeq, SeqLength
<1>4. Len(name) = Len(path)
  BY <1>2, <1>3
<1>5. \A i \in DOMAIN name : Lower(name[i]) # ArrayMark
  BY <1>1, <1>2, <1>3, <1>4 DEF NameSeq
<1>6. name # <<>>
  <2>1. Len(<<>>) = 0
    BY EmptyDict
  <2> QED
    BY <1>1, <1>4, <2>1
<1> QED
  BY <1>5, <1>6 DEF NameSeq

LEMMA DeclaredSomewhere ==
  ASSUME NEW of, NEW p \in Packages, NEW dependencies, AreWritten(dependencies),
         DeclaredIn(of, p, dependencies)
  PROVE  \E q \in Packages : of \in Declared(q)
BY DEF DeclaredIn, AreWritten

LEMMA UseKeeps ==
  ASSUME LinkInv, env.phase = "generate", NEW symbol \in env.known, NEW array \in BOOLEAN,
         Use(symbol, array)
  PROVE  LinkInv'
<1> DEFINE name == symbol.name \o (IF array THEN <<"[]">> ELSE <<>>)
           dict == Query(env.dict, name)
           use == [id |-> IdOf(dict, KeyOf(name)), of |-> symbol.of]
<1>1. /\ files' = files /\ machine' = machine
      /\ env' = IF ~Has(dict, KeyOf(name)) THEN Idle
                ELSE [env EXCEPT !.dict = dict, !.uses = @ \cup {use}]
  BY DEF Use
<1>2. /\ machine.phase = "idle"
      /\ env = [phase |-> env.phase, package |-> env.package, dict |-> env.dict,
               known |-> env.known, queue |-> env.queue, dependencies |-> env.dependencies,
               uses |-> env.uses, agree |-> env.agree]
      /\ env.package \in Packages
      /\ AreWritten(env.queue) /\ AreWritten(env.dependencies)
      /\ \A k \in env.known : IsSeq(k.name) /\ DeclaredIn(k.of, env.package, env.dependencies)
      /\ \A u \in env.uses : DeclaredIn(u.of, env.package, env.dependencies)
      /\ env.agree => EnvAgrees
  BY DEF LinkInv, EnvSound
<1>3. FilesSound' /\ MachineSound'
  BY <1>1, <1>2, SameFiles DEF LinkInv, MachineSound
<1> HIDE DEF name, dict, use
<1>4. CASE ~Has(dict, KeyOf(name))
  <2>1. env'.phase = "idle"
    BY <1>1, <1>4 DEF Idle
  <2> QED
    BY <1>3, <2>1 DEF LinkInv, EnvSound
<1>5. CASE Has(dict, KeyOf(name))
  <2>1. /\ env'.phase = env.phase /\ env'.package = env.package /\ env'.dict = dict
        /\ env'.known = env.known /\ env'.queue = env.queue
        /\ env'.dependencies = env.dependencies /\ env'.uses = env.uses \cup {use}
        /\ env'.agree = env.agree
        /\ env' = [phase |-> env'.phase, package |-> env'.package, dict |-> env'.dict,
               known |-> env'.known, queue |-> env'.queue, dependencies |-> env'.dependencies,
               uses |-> env'.uses, agree |-> env'.agree]
    BY <1>1, <1>2, <1>5
  <2>2. AreWritten(env.queue)' /\ AreWritten(env.dependencies)'
    BY <1>1, <1>2, <2>1 DEF AreWritten
  <2>3. use.of = symbol.of /\ use.id = IdOf(dict, KeyOf(name))
    BY DEF use
  <2>4. \A u \in env'.uses : DeclaredIn(u.of, env.package, env.dependencies)
    BY <1>2, <2>1, <2>3
  <2>5. ASSUME env.agree PROVE EnvAgrees'
    <3>1. /\ Dict(env.dict) /\ \A k \in env.known : KeyOf(k.name) = KeyOf(k.of)
          /\ \A u \in env.uses : Leads(env.dict, u)
      BY <1>2, <2>5 DEF EnvAgrees
    <3>2. PICK q \in Packages : symbol.of \in Declared(q)
      BY <1>2, DeclaredSomewhere
    <3>3. NameSeq(symbol.name)
      BY <1>2, <3>1, <3>2, LikeDeclared
    <3>4. /\ Dict(dict) /\ Extends(env.dict, dict)
          /\ KeyOf(name) \in {KeyOf(use.of), KeyOf(use.of) \o <<ArrayMark>>}
      <4>1. CASE array
        <5>1. name = symbol.name \o <<"[]">>
          BY <4>1 DEF name
        <5>2. Dict(dict) /\ Extends(env.dict, dict)
          BY <3>1, <3>3, <5>1, QueryArrayKeeps DEF dict
        <5>3. KeyOf(name) = KeyOf(symbol.name) \o <<ArrayMark>>
          BY <3>3, <5>1, ArrayPath
        <5> QED
          BY <2>3, <3>1, <5>2, <5>3
      <4>2. CASE ~array
        <5>1. name = symbol.name
          <6>1. symbol.name \o <<>> = symbol.name
            BY <3>3 DEF NameSeq, IsSeq
          <6> QED
            BY <4>2, <6>1 DEF name
        <5>2. Dict(dict) /\ Extends(env.dict, dict)
          BY <3>1, <3>3, <5>1, QueryKeeps DEF dict
        <5> QED
          BY <2>3, <3>1, <5>1, <5>2
      <4> QED
        BY <4>1, <4>2
    <3>5. Leads(dict, use)
      <4>1. use.id \in DOMAIN dict /\ dict[use.id].key = KeyOf(name)
        BY <1>5, <2>3, <3>4, IdLeads
      <4> QED
        BY <3>4, <4>1 DEF Leads
    <3>6. \A u \in env'.uses : Leads(dict, u)
      <4>1. \A u \in env.uses : Leads(dict, u)
        BY <3>1, <3>4, LeadsStays
      <4> QED
        BY <2>1, <3>5, <4>1
    <3> QED
      BY <2>1, <3>1, <3>4, <3>6 DEF EnvAgrees
  <2>6. EnvSound'
    BY <1>1, <1>2, <2>1, <2>2, <2>4, <2>5 DEF EnvSound
  <2> QED
    BY <1>3, <2>6 DEF LinkInv
<1> QED
  BY <1>4, <1>5

LEMMA SaveKeeps ==
  ASSUME LinkInv, Save
  PROVE  LinkInv'
<1> DEFINE p == env.package
           texts == [i \in DOMAIN Declares[p] |-> Last(Declares[p][i])]
           dict == QueryNames(env.dict, texts)
           names == [path \in ToSet(Declares[p]) |-> IdOf(dict, KeyOf(<<Last(path)>>))]
           file == [written |-> TRUE, tokens |-> TokensOf(dict),
                    dependencies |-> env.dependencies, names |-> names,
                    uses |-> env.uses, agree |-> env.agree]
<1>1. /\ env.phase = "generate" /\ files' = [files EXCEPT ![p] = file]
      /\ env' = Idle /\ machine' = machine
  BY DEF Save
<1>2. /\ machine.phase = "idle"
      /\ p \in Packages
      /\ AreWritten(env.dependencies)
      /\ \A u \in env.uses : DeclaredIn(u.of, p, env.dependencies)
      /\ env.agree => EnvAgrees
  BY <1>1 DEF LinkInv, EnvSound
<1>3. EnvSound' /\ MachineSound'
  BY <1>1, <1>2 DEF EnvSound, MachineSound, Idle
<1>4. ASSUME env.agree PROVE Explains(dict, file)
  <2>1. Dict(env.dict) /\ \A u \in env.uses : Leads(env.dict, u)
    BY <1>2, <1>4 DEF EnvAgrees
  <2>2. Declares[p] \in Seq(Seq(STRING))
    BY <1>2, DeclaresAssumption
  <2>3. Len(Declares[p]) \in Nat /\ DOMAIN Declares[p] = 1 .. Len(Declares[p])
    BY <2>2
  <2>4. IsSeq(texts) /\ DOMAIN texts = 1 .. Len(Declares[p])
    <3>1. /\ DOMAIN texts = 1 .. Len(Declares[p])
          /\ texts = [i \in 1 .. Len(Declares[p]) |-> texts[i]]
      BY <2>3
    <3> HIDE DEF texts
    <3> QED
      BY <2>3, <3>1, FunctionSeq
  <2>5. ASSUME NEW i \in DOMAIN texts PROVE Lower(texts[i]) # ArrayMark
    <3>1. Declares[p][i] \in Declared(p) /\ texts[i] = Last(Declares[p][i])
      BY <2>3, <2>4 DEF Declared, ToSet
    <3> QED
      BY <1>2, <3>1, PathDeclared
  <2>6. ASSUME NEW path \in Declared(p)
        PROVE  \E i \in DOMAIN texts : texts[i] = Last(path)
    <3>1. PICK i \in DOMAIN Declares[p] : Declares[p][i] = path
      BY <2>6 DEF Declared, ToSet
    <3> QED
      BY <2>3, <2>4, <3>1
  <2> HIDE DEF texts
  <2>7. /\ Dict(dict) /\ Extends(env.dict, dict)
        /\ \A i \in DOMAIN texts : Has(dict, <<Lower(texts[i])>>)
    BY <2>1, <2>4, <2>5, QueryNamesKeeps
  <2> HIDE DEF dict
  <2>8. ASSUME NEW path \in Declared(p)
        PROVE  names[path] \in DOMAIN dict /\ dict[names[path]].key = <<Lower(Last(path))>>
    <3>1. Has(dict, <<Lower(Last(path))>>)
      BY <2>6, <2>7
    <3>2. names[path] = IdOf(dict, <<Lower(Last(path))>>)
      <4>1. KeyOf(<<Last(path)>>) = <<Lower(Last(path))>>
        BY KeyOfOne
      <4> QED
        BY <4>1 DEF Declared
    <3> QED
      BY <2>7, <3>1, <3>2, IdLeads
  <2>9. DOMAIN names = Declared(p)
    BY DEF Declared
  <2>10. \A u \in env.uses : Leads(dict, u)
    BY <2>1, <2>7, LeadsStays
  <2> HIDE DEF p, names
  <2>11. /\ file.tokens = TokensOf(dict) /\ file.names = names /\ file.uses = env.uses
    OBVIOUS
  <2> QED
    BY <2>7, <2>8, <2>9, <2>10, <2>11 DEF Explains
<1>5. DOMAIN names = Declared(p)
  BY DEF Declared
<1>6. DOMAIN files = Packages /\ \A q \in Packages : FileSound(q)
  BY DEF LinkInv, FilesSound
<1> HIDE DEF p, names, dict
<1>7. /\ DOMAIN files' = Packages /\ files'[p] = file
      /\ \A q \in Packages : q # p => files'[q] = files[q]
  BY <1>1, <1>2, <1>6
<1>8. ASSUME NEW q \in Packages PROVE FileSound(q)'
  <2>1. CASE q = p
    <3> DEFINE ds == env.dependencies
    <3>1. IsSeq(ds) /\ \A i \in DOMAIN ds : ds[i] \in Packages /\ files'[ds[i]].written
      BY <1>2, <1>7 DEF AreWritten
    <3>2. /\ file.written /\ file.dependencies = ds /\ file.names = names
          /\ file.uses = env.uses /\ file.agree = env.agree
      OBVIOUS
    <3>3. file.agree => \E D : Explains(D, file)
      BY <1>4, <3>2
    <3>4. files'[q] = file
      BY <1>7, <2>1
    <3> HIDE DEF file
    <3>5. AreWritten(files[q].dependencies)'
      BY <3>1, <3>2, <3>4 DEF AreWritten
    <3>6. \A u \in file.uses : DeclaredIn(u.of, q, file.dependencies)
      BY <1>2, <2>1, <3>2
    <3>7. DOMAIN file.names = Declared(q)
      BY <1>5, <2>1, <3>2
    <3> QED
      BY <3>3, <3>4, <3>5, <3>6, <3>7 DEF FileSound
  <2>2. CASE q # p
    <3>1. files'[q] = files[q] /\ FileSound(q)
      BY <1>6, <1>7, <2>2
    <3>2. \A r \in Packages : files[r].written => files'[r].written
      BY <1>7
    <3> QED
      BY <3>1, <3>2 DEF FileSound, AreWritten
  <2> QED
    BY <2>1, <2>2
<1>9. FilesSound'
  BY <1>7, <1>8 DEF FilesSound
<1> QED
  BY <1>3, <1>9 DEF LinkInv

-----------------------------------------------------------------------------
(***************************************************************************)
(* What the invariant says of the packages that were loaded.               *)
(***************************************************************************)
\* Two names that differ in case only are the same when the tables agree on it.
TextsOf(file) == {t \in ToSet(file.tokens) : t.kind = "text"}
InTable(name, file) == \A i \in DOMAIN name : \E t \in TextsOf(file) : t.of[1] = name[i]

LEMMA SameNames ==
  ASSUME CaseAgrees, NEW p \in Packages, files[p].written, NEW q \in Packages, files[q].written,
         NEW a, IsSeq(a), InTable(a, files[p]), NEW b, IsSeq(b), InTable(b, files[q]),
         KeyOf(a) = KeyOf(b)
  PROVE  a = b
<1>1. /\ Len(a) \in Nat /\ Len(b) \in Nat /\ DOMAIN a = 1 .. Len(a) /\ DOMAIN b = 1 .. Len(b)
      /\ Len(KeyOf(a)) = Len(a) /\ Len(KeyOf(b)) = Len(b)
      /\ \A i \in 1 .. Len(a) : KeyOf(a)[i] = Lower(a[i])
      /\ \A i \in 1 .. Len(b) : KeyOf(b)[i] = Lower(b[i])
  BY KeySeq, SeqLength
<1>2. Len(a) = Len(b)
  BY <1>1
<1>3. ASSUME NEW i \in 1 .. Len(a) PROVE a[i] = b[i]
  <2>1. PICK t \in TextsOf(files[p]) : t.of[1] = a[i]
    BY <1>1 DEF InTable
  <2>2. PICK u \in TextsOf(files[q]) : u.of[1] = b[i]
    BY <1>1, <1>2 DEF InTable
  <2>3. Lower(t.of[1]) = Lower(u.of[1])
    BY <1>1, <1>2, <2>1, <2>2
  <2>4. t.of = u.of
    <3> DEFINE written == {r \in Packages : files[r].written}
               texts == {v \in UNION {ToSet(files[r].tokens) : r \in written} : v.kind = "text"}
    <3>1. t \in texts /\ u \in texts
      BY DEF TextsOf
    <3>2. \A v, w \in texts : Lower(v.of[1]) = Lower(w.of[1]) => v.of = w.of
      BY DEF CaseAgrees
    <3> HIDE DEF texts
    <3> QED
      BY <2>3, <3>1, <3>2
  <2> QED
    BY <2>1, <2>2, <2>4
<1> QED
  BY <1>2, <1>3, SameSeq

LEMMA TokenIn ==
  ASSUME NEW D, NEW file, Explains(D, file), NEW id \in DOMAIN D
  PROVE  /\ id \in DOMAIN file.tokens /\ file.tokens[id] = D[id].token
         /\ D[id].token.kind = "text" => D[id].token \in TextsOf(file)
<1>1. file.tokens = [i \in DOMAIN D |-> D[i].token]
  BY DEF Explains, TokensOf
<1>2. id \in DOMAIN file.tokens /\ file.tokens[id] = D[id].token
  BY <1>1
<1> QED
  BY <1>2 DEF TextsOf, ToSet

\* The names of a symbol in the virtual machine.
LEMMA NamesThere ==
  ASSUME NEW p \in Packages, NEW D, Explains(D, files[p]), DOMAIN files[p].names = Declared(p),
         NEW path \in Declared(p)
  PROVE  /\ IsSeq(NameOf(p, path)) /\ KeyOf(NameOf(p, path)) = KeyOf(path)
         /\ InTable(NameOf(p, path), files[p])
<1> DEFINE name == NameOf(p, path)
           Id(i) == files[p].names[SubSeq(path, 1, i)]
<1>1. DOMAIN path = 1 .. Len(path) /\ Len(path) \in Nat
  BY PathDeclared
<1>2. Dict(D)
  BY DEF Explains
<1>3. ASSUME NEW i \in DOMAIN path
      PROVE  /\ Lower(name[i]) = Lower(path[i])
             /\ \E t \in TextsOf(files[p]) : t.of[1] = name[i]
  <2>1. SubSeq(path, 1, i) \in Declared(p) /\ Last(SubSeq(path, 1, i)) = path[i]
    BY <1>1, PathDeclared
  <2>2. Id(i) \in DOMAIN D /\ D[Id(i)].key = <<Lower(path[i])>>
    BY <2>1 DEF Explains
  <2>3. Has(D, <<Lower(path[i])>>) /\ IdOf(D, <<Lower(path[i])>>) = Id(i)
    BY <1>2, <2>2, Found1
  <2>4. IsText(D, Id(i))
    BY <1>2, <2>3, OneNameIsText
  <2>5. D[Id(i)].key = <<Lower(D[Id(i)].token.of[1])>> /\ D[Id(i)].token.kind = "text"
    BY <1>2, <2>4, EntryShape DEF IsText
  <2>6. Lower(D[Id(i)].token.of[1]) = Lower(path[i])
    <3>1. <<Lower(D[Id(i)].token.of[1])>>[1] = <<Lower(path[i])>>[1]
      BY <2>2, <2>5
    <3> QED
      BY <3>1
  <2>7. files[p].tokens[Id(i)] = D[Id(i)].token /\ D[Id(i)].token \in TextsOf(files[p])
    BY <2>2, <2>5, TokenIn
  <2>8. name[i] = D[Id(i)].token.of[1]
    BY <2>7 DEF NameOf
  <2> QED
    BY <2>6, <2>7, <2>8
<1>4. /\ DOMAIN name = DOMAIN path /\ name = [i \in 1 .. Len(path) |-> name[i]]
  BY <1>1 DEF NameOf
<1> HIDE DEF name
<1>5. KeyOf(name) = KeyOf(path)
  BY <1>3, <1>4 DEF KeyOf
<1>6. IsSeq(name)
  BY <1>1, <1>4, FunctionSeq
<1>7. InTable(name, files[p])
  BY <1>3, <1>4 DEF InTable
<1> QED
  BY <1>5, <1>6, <1>7 DEF name

\* Of two keys with one more name each, the names before it.
LEMMA SameElement ==
  ASSUME NEW a, IsSeq(a), NEW b, IsSeq(b), NEW e, a \o <<e>> = b \o <<e>>
  PROVE  a = b
<1> DEFINE t == <<e>>
           s == a \o t
           r == b \o t
<1>1. IsSeq(t) /\ Len(t) = 1
  BY OneSeq
<1>2. IsSeq(t)
  BY <1>1
<1>3. Len(a) \in Nat /\ Len(b) \in Nat
  BY SeqLength
<1>4. s = r
  OBVIOUS
<1> HIDE DEF t
<1>5. Len(s) = Len(a) + Len(t) /\ \A n \in 1 .. Len(a) : s[n] = a[n]
  BY <1>2, JoinSeq
<1>6. Len(r) = Len(b) + Len(t) /\ \A n \in 1 .. Len(b) : r[n] = b[n]
  BY <1>2, JoinSeq
<1> HIDE DEF s, r
<1>7. Len(a) = Len(b)
  BY <1>1, <1>3, <1>4, <1>5, <1>6
<1>8. \A n \in 1 .. Len(a) : a[n] = b[n]
  BY <1>4, <1>5, <1>6, <1>7
<1> QED
  BY <1>7, <1>8, SameSeq

SymbolNames(table, symbol) ==
  IF symbol.kind = "text" THEN symbol.of ELSE [i \in DOMAIN symbol.of |-> table[symbol.of[i]].of[1]]

LEMMA SymbolFound ==
  ASSUME NEW D, NEW file, Explains(D, file), NEW k \in DOMAIN D, D[k].token.kind # "array"
  PROVE  LET names == SymbolNames(file.tokens, file.tokens[k])
         IN IsSeq(names) /\ KeyOf(names) = D[k].key /\ InTable(names, file)
<1> DEFINE names == SymbolNames(file.tokens, file.tokens[k])
<1>1. Dict(D) /\ file.tokens[k] = D[k].token
  BY TokenIn DEF Explains
<1>2. CASE D[k].token.kind = "text"
  <2>1. /\ D[k].token.of = <<D[k].token.of[1]>> /\ D[k].key = <<Lower(D[k].token.of[1])>>
    BY <1>1, <1>2, EntryShape
  <2> DEFINE text == D[k].token.of[1]
  <2>2. names = <<text>>
    BY <1>1, <1>2, <2>1 DEF SymbolNames
  <2>3. IsSeq(<<text>>) /\ DOMAIN <<text>> = 1 .. 1 /\ <<text>>[1] = text
    BY OneSeq
  <2>4. KeyOf(<<text>>) = D[k].key
    BY <2>1, KeyOfOne
  <2>5. D[k].token \in TextsOf(file)
    BY <1>2, TokenIn
  <2>6. InTable(<<text>>, file)
    <3>1. \A i \in DOMAIN <<text>> : <<text>>[i] = text
      BY <2>3
    <3> QED
      BY <2>5, <3>1 DEF InTable
  <2> QED
    BY <2>2, <2>3, <2>4, <2>6
<1>3. CASE D[k].token.kind = "constructed"
  <2> DEFINE ids == D[k].token.of
  <2>1. Constructed(D, k, ids)
    BY <1>1, <1>3, EntryKinds
  <2>2. /\ IsSeq(ids) /\ Len(ids) \in Nat /\ DOMAIN ids = 1 .. Len(ids)
        /\ \A i \in DOMAIN ids : IsText(D, ids[i])
        /\ D[k] = [key |-> [i \in DOMAIN ids |-> D[ids[i]].key[1]], token |-> ConstructedToken(k, ids)]
    BY <2>1, SeqLength DEF Constructed
  <2>3. D[k].key = [i \in DOMAIN ids |-> D[ids[i]].key[1]]
    <3> HIDE DEF ids
    <3> QED
      BY <2>2
  <2>4. ASSUME NEW i \in DOMAIN ids
        PROVE  /\ file.tokens[ids[i]].of[1] = D[ids[i]].token.of[1]
               /\ D[ids[i]].token \in TextsOf(file)
    <3>1. ids[i] \in DOMAIN D /\ D[ids[i]].token.kind = "text"
      BY <2>2 DEF IsText
    <3> QED
      BY <3>1, TokenIn
  <2>5. names = TextsAt(D, ids)
    <3>1. names = [i \in DOMAIN ids |-> file.tokens[ids[i]].of[1]]
      BY <1>1, <1>3 DEF SymbolNames
    <3> HIDE DEF ids, names
    <3> QED
      BY <2>4, <3>1 DEF TextsAt
  <2> HIDE DEF ids, names
  <2>6. KeyOf(names) = D[k].key
    BY <1>1, <2>2, <2>3, <2>5, KeyOfTexts
  <2>7. /\ DOMAIN names = 1 .. Len(ids) /\ names = [i \in 1 .. Len(ids) |-> names[i]]
        /\ \A i \in DOMAIN ids : names[i] = D[ids[i]].token.of[1]
    BY <2>2, <2>5 DEF TextsAt
  <2>8. IsSeq(names)
    BY <2>2, <2>7, FunctionSeq
  <2>9. InTable(names, file)
    BY <2>2, <2>4, <2>7 DEF InTable
  <2> QED
    BY <2>6, <2>8, <2>9 DEF names
<1>4. D[k].token.kind \in {"text", "constructed", "array"}
  BY <1>1, EntryShape
<1> QED
  BY <1>2, <1>3, <1>4

LEMMA SearchNames ==
  ASSUME NEW D, NEW file, Explains(D, file), NEW use \in file.uses,
         NEW q \in Packages, use.of \in Declared(q)
  PROVE  LET names == Search(file.tokens, file.tokens[use.id])
         IN /\ use.id \in DOMAIN file.tokens
            /\ IsSeq(names) /\ KeyOf(names) = KeyOf(use.of) /\ InTable(names, file)
<1> DEFINE id == use.id
           key == KeyOf(use.of)
           names == Search(file.tokens, file.tokens[id])
<1>1. Dict(D) /\ id \in DOMAIN D /\ D[id].key \in {key, key \o <<ArrayMark>>}
  BY DEF Explains, Leads
<1>2. id \in DOMAIN file.tokens /\ file.tokens[id] = D[id].token
  BY <1>1, TokenIn
<1>3. NameSeq(use.of) /\ IsSeq(use.of)
  BY PathDeclared DEF NameSeq
<1>4. IsSeq(key)
  BY <1>3, KeySeq
<1>5. CASE D[id].token.kind # "array"
  <2>1. names = SymbolNames(file.tokens, file.tokens[id])
    BY <1>2, <1>5 DEF Search, SymbolNames
  <2>2. IsSeq(names) /\ KeyOf(names) = D[id].key /\ InTable(names, file)
    BY <1>1, <1>5, <2>1, SymbolFound
  <2>3. D[id].key # key \o <<ArrayMark>>
    <3> DEFINE e == <<ArrayMark>>
               long == key \o e
    <3>1. IsSeq(e) /\ Len(e) = 1 /\ e[1] = ArrayMark
      BY OneSeq
    <3>2. IsSeq(e) /\ IsSeq(key) /\ Len(key) \in Nat
      BY <1>4, <3>1, SeqLength
    <3> HIDE DEF e, key
    <3>3. Len(long) = Len(key) + Len(e) /\ \A n \in 1 .. Len(e) : long[Len(key) + n] = e[n]
      BY <3>2, JoinSeq
    <3> HIDE DEF long
    <3>4. long[Len(long)] = ArrayMark /\ Len(long) \in 1 .. Len(long)
      <4>1. 1 \in 1 .. Len(e) /\ Len(long) = Len(key) + 1
        BY <3>1, <3>3
      <4>2. long[Len(key) + 1] = ArrayMark
        BY <3>1, <3>3, <4>1
      <4> QED
        BY <3>2, <4>1, <4>2
    <3>5. \A n \in 1 .. Len(D[id].key) : D[id].key[n] # ArrayMark
      BY <1>1, <1>5, EntryShape
    <3>6. D[id].key # long
      BY <3>4, <3>5
    <3> QED
      BY <3>6 DEF long, e
  <2> QED
    BY <1>1, <1>2, <2>2, <2>3
<1>6. CASE D[id].token.kind = "array"
  <2>1. PICK k : OfArrays(D, id, k)
    BY <1>1, <1>6, EntryKinds
  <2>2. /\ k \in 1 .. id - 1 /\ D[k].token.kind # "array" /\ D[id].token = ArrayToken(id, k)
        /\ D[id].key = D[k].key \o <<ArrayMark>>
    BY <2>1 DEF OfArrays
  <2>3. k \in DOMAIN D
    <3>1. DOMAIN D = 1 .. Len(D) /\ Len(D) \in Nat
      BY <1>1, SeqLength DEF Dict
    <3> QED
      BY <1>1, <2>2, <3>1
  <2>4. D[id].token.of[1] = k
    <3>1. D[id].token.of = <<k>>
      BY <2>2 DEF ArrayToken
    <3> QED
      BY <3>1, OneSeq
  <2>5. names = SymbolNames(file.tokens, file.tokens[k])
    BY <1>2, <1>6, <2>4 DEF Search, SymbolNames
  <2>6. IsSeq(names) /\ KeyOf(names) = D[k].key /\ InTable(names, file)
    BY <2>2, <2>3, <2>5, SymbolFound
  <2>7. IsSeq(D[k].key)
    BY <1>1, <2>3, EntryShape
  <2>8. D[id].key # key
    <3>1. D[id].key[Len(D[id].key)] = ArrayMark /\ Len(D[id].key) > 1
      BY <1>1, <1>6, EntryShape
    <3>2. Len(key) = Len(use.of) /\ \A i \in 1 .. Len(use.of) : key[i] = Lower(use.of[i])
      BY <1>3, KeySeq
    <3>3. DOMAIN use.of = 1 .. Len(use.of) /\ Len(use.of) \in Nat
      BY <1>3, SeqLength
    <3>4. \A i \in 1 .. Len(use.of) : key[i] # ArrayMark
      BY <1>3, <3>2, <3>3 DEF NameSeq
    <3> HIDE DEF key
    <3>5. ASSUME D[id].key = key PROVE FALSE
      <4>1. Len(key) \in 1 .. Len(use.of)
        BY <3>1, <3>2, <3>3, <3>5
      <4> QED
        BY <3>1, <3>4, <3>5, <4>1
    <3> QED
      BY <3>5
  <2>9. D[k].key = key
    <3>1. D[k].key \o <<ArrayMark>> = key \o <<ArrayMark>>
      BY <1>1, <2>2, <2>8
    <3> QED
      BY <1>4, <2>7, <3>1, SameElement
  <2> QED
    BY <1>2, <2>6, <2>9
<1> QED
  BY <1>5, <1>6

\* The virtual machine finds what the compiler meant.
LEMMA LinkInvLinks == LinkInv => UsesLink
<1> SUFFICES ASSUME LinkInv, machine.phase = "run", CaseAgrees,
                    \A p \in machine.packages : files[p].agree,
                    NEW p \in machine.packages, NEW use \in files[p].uses
             PROVE  /\ use.id \in DOMAIN files[p].tokens
                    /\ Found(Search(files[p].tokens, files[p].tokens[use.id])) = {use.of}
  BY DEF UsesLink
<1> DEFINE names == Search(files[p].tokens, files[p].tokens[use.id])
<1>1. ASSUME NEW q \in machine.packages
      PROVE  /\ q \in Packages /\ files[q].written /\ DOMAIN files[q].names = Declared(q)
             /\ ToSet(files[q].dependencies) \subseteq machine.packages
             /\ \A u \in files[q].uses : DeclaredIn(u.of, q, files[q].dependencies)
             /\ \E D : Explains(D, files[q])
  <2>1. /\ q \in Packages /\ files[q].written
        /\ ToSet(files[q].dependencies) \subseteq machine.packages
    BY DEF LinkInv, MachineSound
  <2>2. FileSound(q) /\ files[q].agree
    BY <2>1 DEF LinkInv, FilesSound
  <2> QED
    BY <2>1, <2>2 DEF FileSound
<1>2. PICK D : Explains(D, files[p])
  BY <1>1
<1>3. PICK home \in machine.packages : use.of \in Declared(home)
  <2>1. CASE use.of \in Declared(p)
    BY <2>1
  <2>2. CASE use.of \notin Declared(p)
    <3>1. PICK i \in DOMAIN files[p].dependencies : use.of \in Declared(files[p].dependencies[i])
      BY <1>1, <2>2 DEF DeclaredIn
    <3>2. files[p].dependencies[i] \in machine.packages
      BY <1>1 DEF ToSet
    <3> QED
      BY <3>1, <3>2
  <2> QED
    BY <2>1, <2>2
<1>4. /\ use.id \in DOMAIN files[p].tokens
      /\ IsSeq(names) /\ KeyOf(names) = KeyOf(use.of) /\ InTable(names, files[p])
  BY <1>1, <1>2, <1>3, SearchNames
<1> HIDE DEF names
<1>5. ASSUME NEW q \in machine.packages, NEW path \in Declared(q)
      PROVE  NameOf(q, path) = names <=> KeyOf(path) = KeyOf(use.of)
  <2>1. PICK E : Explains(E, files[q])
    BY <1>1
  <2>2. /\ IsSeq(NameOf(q, path)) /\ KeyOf(NameOf(q, path)) = KeyOf(path)
        /\ InTable(NameOf(q, path), files[q])
    BY <1>1, <2>1, NamesThere
  <2>3. ASSUME KeyOf(path) = KeyOf(use.of) PROVE NameOf(q, path) = names
    BY <1>1, <1>4, <2>2, <2>3, SameNames
  <2> QED
    BY <1>4, <2>2, <2>3
<1>6. use.of \in Found(names)
  BY <1>1, <1>3, <1>5 DEF Found
<1>7. ASSUME NEW path \in Found(names) PROVE path = use.of
  <2>1. PICK q \in machine.packages : path \in DOMAIN files[q].names /\ NameOf(q, path) = names
    BY DEF Found
  <2>2. path \in Declared(q) /\ q \in Packages /\ home \in Packages
    BY <1>1, <2>1
  <2>3. KeyOf(path) = KeyOf(use.of)
    BY <1>5, <2>1, <2>2
  <2> QED
    BY <1>3, <2>2, <2>3, DeclaresAssumption DEF Declared
<1> QED
  BY <1>4, <1>6, <1>7 DEF names

LEMMA LinkInvKept == LinkInv /\ [Next]_vars => LinkInv'
<1> SUFFICES ASSUME LinkInv, [Next]_vars PROVE LinkInv'
  OBVIOUS
<1>1. ASSUME NEW p \in Packages, Run(p) PROVE LinkInv'
  BY <1>1, RunKeeps
<1>2. ASSUME NEW p \in Packages, NEW imports \in Imports[p], Start(p, imports) PROVE LinkInv'
  BY <1>2, StartKeeps
<1>3. ASSUME env.phase = "generate", NEW symbol \in env.known, NEW array \in BOOLEAN,
             Use(symbol, array)
      PROVE  LinkInv'
  BY <1>3, UseKeeps
<1>4. CASE UNCHANGED vars
  <2>1. files' = files /\ env' = env /\ machine' = machine
    BY <1>4 DEF vars
  <2>2. FilesSound'
    BY <2>1, SameFiles DEF LinkInv
  <2>3. EnvSound'
    BY <2>1 DEF LinkInv, EnvSound, EnvAgrees, AreWritten
  <2>4. MachineSound'
    BY <2>1 DEF LinkInv, MachineSound
  <2> QED
    BY <2>2, <2>3, <2>4 DEF LinkInv
<1> QED
  BY <1>1, <1>2, <1>3, <1>4, ReadKeeps, EndReadKeeps, SaveKeeps, ExitKeeps DEF Next

\* Whatever packages there are and however often each is compiled again: every
\* token of a loaded package leads the virtual machine to the symbol the compiler
\* meant, as long as the tables agree (TokenDict.QueryToken and ReadTokenTable,
\* Loader::fromPath, TokenTable::search).
THEOREM PackagesLink == Spec => []UsesLink
<1>1. Spec => []LinkInv
  BY InitSound, LinkInvKept, PTL DEF Spec
<1> QED
  BY <1>1, LinkInvLinks, PTL

=============================================================================
