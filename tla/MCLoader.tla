------------------------------ MODULE MCLoader ------------------------------
(***************************************************************************)
(* Two families of programs.  In the first, three classes under Object     *)
(* inherit from each other in every way and have their members from a      *)
(* menu: fields, virtual methods that fill several slots, overrides, and   *)
(* methods that hide virtual ones.  In the second, three records contain   *)
(* each other, and classes or module members use them.                     *)
(***************************************************************************)
EXTENDS Loader

CONSTANTS object, array, B, C, R1, R2, R3

M(kind, type) == [kind |-> kind, type |-> type]
none == M("none", "int")

Root == <<M("virtual", "int"), none, none>>
Plain == <<none, none, none>>

Bodies ==
  { Plain,
    <<M("override", "int"), M("virtual", "int"), M("field", "ref")>>,
    <<M("field", "int"), M("override", "int"), M("field", "array")>>,
    <<M("plain", "int"), M("static", "ref"), M("virtual", "int")>>,
    <<M("override", "array"), M("override", "int"), M("override", "int")>> }

NoFields == [n \in Name |-> "none"]

Hierarchies ==
  [ base : {f \in [Class -> Class] : f[object] = object /\ f[array] = object},
    member : {f \in [Class -> Bodies \cup {Root}] :
                f[object] = Root /\ \A k \in Class \ {object} : f[k] \in Bodies},
    fields : {[k \in Record |-> NoFields]},
    hidden : {{}, {B}},
    module : {{"int"}} ]

Contents ==
  {<<"int", "ref", "none">>, <<R2, "int", "none">>, <<R2, R3, "none">>,
   <<R3, "array", R3>>, <<R1, "none", "int">>}

Users ==
  { Plain, <<M("field", R1), none, none>>, <<none, M("plain", R2), M("field", "ref")>> }

Records ==
  [ base : {[k \in Class |-> object]},
    member : {f \in [Class -> Users \cup {Root}] :
                f[object] = Root /\ f[array] = Plain /\ f[B] = Plain /\ f[C] \in Users},
    fields : [Record -> Contents],
    hidden : {{}, {R2}, {C}},
    module : {{R1, "array"}, {R2}} ]

MCProgram == Hierarchies \cup Records
=============================================================================
