---------------------------- MODULE AbstractHeap ----------------------------
(***************************************************************************)
(* What the virtual machine promises a program about its objects: a        *)
(* reference goes on denoting the object it was given, and a field of an   *)
(* object the program can still reach changes only when the program stores *)
(* into it.  There are no addresses here and there is no collector: an     *)
(* object the program can no longer reach simply stops mattering.          *)
(***************************************************************************)
EXTENDS ObjectGraph

CONSTANTS Klass, RefOffsets, Id, Word, Interior, Null

VARIABLES
  handle,  \* the object each word denotes
  place,   \* the object and offset each interior pointer denotes
  held,    \* the words and interior pointers in use
  graph,   \* the reachable objects: class and reference fields
  ended    \* the process has ended

vars == <<handle, place, held, graph, ended>>

Node(k, f) == [klass |-> k, fields |-> f]

Roots(h, p) == {h[w] : w \in Word} \cup {p[i].base : i \in Interior}

NoPlace == [base |-> Null, offset |-> 0]

Init ==
  /\ handle = [w \in Word |-> Null]
  /\ place = [i \in Interior |-> NoPlace]
  /\ held = {}
  /\ graph = [i \in {} |-> Null]
  /\ ended = FALSE

Keep(g) == graph' = Reached(g, Roots(handle', place'))

Take(w, id) ==
  /\ ~ended
  /\ w \in Word \ held
  /\ held' = held \cup {w}
  /\ handle' = [handle EXCEPT ![w] = id]
  /\ UNCHANGED <<place, ended>>

New(k, w) ==
  \E i \in Id \ DOMAIN graph :
    /\ Take(w, i)
    /\ Keep([j \in DOMAIN graph \cup {i} |->
               IF j = i THEN Node(k, [o \in RefOffsets[k] |-> Null]) ELSE graph[j]])

Copy(w, v) ==
  /\ w \in held \cap Word
  /\ Take(v, handle[w])
  /\ Keep(graph)

HasField(i, o) == i # Null /\ o \in DOMAIN graph[i].fields

Load(w, o, v) ==
  /\ w \in held \cap Word
  /\ HasField(handle[w], o)
  /\ Take(v, graph[handle[w]].fields[o])
  /\ Keep(graph)

LoadThrough(i, v) ==
  /\ i \in held \cap Interior
  /\ HasField(place[i].base, place[i].offset)
  /\ Take(v, graph[place[i].base].fields[place[i].offset])
  /\ Keep(graph)

\* The fields lost denote the object itself afterwards.
Put(i, o, v, lost) ==
  /\ ~ended
  /\ v \in held \cap Word
  /\ HasField(i, o)
  /\ UNCHANGED <<handle, place, held, ended>>
  /\ Keep([graph EXCEPT ![i].fields = [f \in DOMAIN @ |-> IF f = o THEN handle[v]
                                         ELSE IF f \in lost THEN i ELSE @[f]]])

\* A store through a reference may also change the field behind the one it
\* names.
Store(w, o, v) ==
  /\ w \in held \cap Word
  /\ \E lost \in SUBSET {o + 1} : Put(handle[w], o, v, lost)

StoreThrough(i, v) ==
  i \in held \cap Interior /\ Put(place[i].base, place[i].offset, v, {})

\* A store through a reference that destroys more than that.  Nothing is
\* promised from then on.
Overrun(w, o, v) ==
  /\ ~ended
  /\ {w, v} \subseteq held \cap Word
  /\ HasField(handle[w], o)
  /\ ended' = TRUE
  /\ held' = held

Point(i, p) ==
  /\ ~ended
  /\ i \in Interior \ held
  /\ held' = held \cup {i}
  /\ place' = [place EXCEPT ![i] = p]
  /\ UNCHANGED <<handle, ended>>
  /\ Keep(graph)

AddressOf(w, o, i) ==
  /\ w \in held \cap Word
  /\ HasField(handle[w], o)
  /\ Point(i, [base |-> handle[w], offset |-> o])

\* The address of a variable that is not in an object.
AddressOfLocal(i) == Point(i, NoPlace)

\* The operation that gives a reference up may be the one the process ends in.
Drop(w) ==
  /\ ~ended
  /\ w \in held
  /\ held' = held \ {w}
  /\ handle' = IF w \in Word THEN [handle EXCEPT ![w] = Null] ELSE handle
  /\ place' = IF w \in Interior THEN [place EXCEPT ![w] = NoPlace] ELSE place
  /\ Keep(graph)
  /\ ended' \in BOOLEAN

\* Out of memory, or a crash.
End ==
  /\ ~ended
  /\ ended' = TRUE
  /\ UNCHANGED <<handle, place, held, graph>>

Offset == UNION {RefOffsets[k] : k \in Klass}

Next ==
  \/ \E k \in Klass, w \in Word : New(k, w)
  \/ \E w, v \in Word : Copy(w, v)
  \/ \E w, v \in Word, o \in Offset : Load(w, o, v) \/ Store(w, o, v) \/ Overrun(w, o, v)
  \/ \E i \in Interior, v \in Word : LoadThrough(i, v) \/ StoreThrough(i, v)
  \/ \E w \in Word, o \in Offset, i \in Interior : AddressOf(w, o, i)
  \/ \E i \in Interior : AddressOfLocal(i)
  \/ \E w \in Word \cup Interior : Drop(w)
  \/ End

Spec == Init /\ [][Next]_vars
=============================================================================
