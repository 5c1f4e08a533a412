--------------------------- MODULE MCDeclarations ---------------------------
(***************************************************************************)
(* Programs over a core package of two classes and a primitive type: one   *)
(* family for names and access, one for inheritance in any order of the    *)
(* text, one for the types of overrides, one for constructors and self.    *)
(***************************************************************************)
EXTENDS Declarations

Node(kind, name, in, flags, path) ==
  [kind |-> kind, name |-> name, in |-> in, flags |-> flags, path |-> path,
   args |-> NoPart, from |-> "source"]
From(origin, nodes) == [i \in DOMAIN nodes |-> [nodes[i] EXCEPT !.from = origin]]
Pub == {"Public"}

Core == From("core",
  << Node("Class", "object", 0, Pub, <<>>),
     Node("Ctor", "#ctor", 1, Pub, <<>>),
     Node("Method", "tostring", 1, {"Public", "Virtual"}, <<>>),
     Node("Class", "exception", 0, Pub, <<"object">>),
     Node("Ctor", "#ctor", 4, Pub, <<>>),
     Node("Primitive", "integer", 0, Pub, <<>>) >>)

F(public) == IF public THEN Pub ELSE {}

\* Two modules; a class with a nested class and a record, which refer to each
\* other; a class of the other module that may extend the first.
NamePrograms ==
  { Core \o
    << Node("Module", "m", 0, F(m), <<>>),                  \* 7
       Node("Class", "a", 7, F(a), <<>>),                   \* 8
       Node("Class", "i", 8, F(i), <<>>),                   \* 9
       Node("Variable", "up", 9, Pub, <<"a">>),
       Node("Variable", "self", 8, Pub, self),
       Node("Record", "r", 7, F(a), <<>>),                  \* 12
       Node("Variable", "of", 12, Pub, <<"a">>),
       Node("Module", "n", 0, Pub, <<>>),                   \* 14
       Node("Class", "b", 14, F(i), base),                  \* 15
       Node("Variable", "x", 15, Pub, path),
       Node("Method", "f", 15, {}, <<>>),                   \* 17
       Node("Dim", "y", 17, {}, body[1]),
       Node("Name", "up", 17, {}, body[2]) >> :
    m, a, i \in BOOLEAN, self \in {<<"a">>, <<"i">>, <<"m", "r">>},
    base \in {<<>>, <<"m", "a">>},
    path \in {<<"a">>, <<"i">>, <<"m", "a", "i">>, <<"m", "r">>, <<"integer", "a">>},
    body \in {<< <<"b">>, <<"self">> >>, << <<"b">>, <<"r">> >>, << <<"i">>, <<"y">> >>,
              << <<"m", "a">>, <<"self">> >>, << <<"m", "a">>, <<"y">> >>} }

\* Three classes, each with a method and any base; x is the name of nothing.
Bases3 == {<<>>, <<"a">>, <<"b">>, <<"c">>, <<"exception">>}
InheritPrograms ==
  { Core \o
    << Node("Class", "a", 0, Pub, base[1]),                 \* 7
       Node("Method", "f", 7, flag[1], <<>>),
       Node("Class", "b", 0, Pub, base[2]),                 \* 9
       Node("Method", "f", 9, flag[2], <<>>),
       Node("Class", "c", 0, Pub, base[3]),                 \* 11
       Node("Method", "tostring", 11, {"Override"}, <<>>),
       Node("Method", "f", 11, flag[3], <<>>),
       Node("Name", "f", 13, {}, name) >> :
    name \in {<<"f">>, <<"x">>}, base \in [1..3 -> Bases3],
    flag \in {<<{"Virtual"}, {"Override"}, {"Override"}>>, <<{"Virtual"}, {}, {"Virtual"}>>,
              <<{}, {"Virtual"}, {"Override"}>>} }

\* A virtual method and an override of it, whose parameters have class types.
OverridePrograms ==
  { Core \o
    << Node("Class", "a", 0, Pub, <<>>),                    \* 7
       Node("Method", "f", 7, {"Virtual"}, result),         \* 8
       Node("Parameter", "p", 8, {}, types[1]),
       Node("Class", "b", 0, Pub, <<"a">>),                 \* 10
       Node("Method", "f", 10, {"Override"}, <<>>),         \* 11
       Node("Parameter", "p", 11, {}, types[2]),
       Node("Class", "c", 0, Pub, <<"b">>),                 \* 13
       Node("Method", "f", 13, {"Override"}, <<>>),         \* 14
       Node("Parameter", "p", 14, {}, types[3]) >> \o more :
    types \in [1..3 -> {<<"a">>, <<"b">>, <<"c">>, <<"nothere">>}],
    result \in {<<>>, <<"integer">>},
    more \in {<<>>, << Node("Parameter", "q", 14, {}, <<"a">>) >>} }

\* The program without the nodes drop.
Without(p, drop) ==
  LET kept == SelectSeq([n \in DOMAIN p |-> n], LAMBDA n : n \notin drop)
  IN [i \in DOMAIN kept |-> [p[kept[i]] EXCEPT !.in =
        IF @ = 0 THEN 0 ELSE CHOOSE k \in DOMAIN kept : kept[k] = @]]
Args(node, args) == [node EXCEPT !.args = args]

\* A class with a member, a method, a constructor and a nested class before or
\* behind them; a class that extends it or a class of an imported package.
CtorPrograms ==
  { Without(Core \o
    << Node("Class", "a", 0, Pub, <<>>),                    \* 7
       Node("Class", "i", 7, Pub, <<>>),                    \* 8
       Node("Method", "g", 8, {}, <<>>),
       Node("Name", "v", 9, {}, <<"v">>),
       Node("Variable", "v", 7, member, <<"integer">>),     \* 11
       Node("Ctor", "#ctor", 7, {}, <<>>),                  \* 12
       Node("Parameter", "p", 12, {}, <<"integer">>),
       Node("Name", "v", 12, {}, <<"v">>),
       Node("Method", "f", 7, static, <<>>),                \* 15
       Node("Name", "v", 15, {}, <<"v">>),
       Node("Class", "j", 7, Pub, nested),                  \* 17
       Node("Method", "g", 17, {}, <<>>),
       Node("Name", "v", 18, {}, <<"v">>),
       Node("Class", "b", 0, Pub, base),                    \* 20
       Args(Node("Ctor", "#ctor", 20, {}, <<>>), args[1]),
       Node("Method", "h", 20, {}, <<>>),                   \* 22
       Node("Name", "f", 22, {}, <<"f">>),
       Node("Block", "try", 22, {}, <<>>),                  \* 24
       Node("Dim", "w", 24, {}, <<"b">>),
       Node("Dim", "w", 24, {}, <<"a">>),
       Args(Node("New", "new", 24, {}, <<"a">>), args[2]),
       Node("Name", "w", 24, {}, <<"w">>) >>
    \o From("import",
    << Node("Class", "z", 0, Pub, <<"object">>),            \* 29
       Node("Ctor", "#ctor", 29, Pub, <<>>) >>), early \cup late \cup a \cup b \cup {26}) :
    member \in {{}, {"Static"}}, static \in {{}, {"Static"}}, nested \in {<<>>, <<"a">>},
    base \in {<<"a">>, <<"z">>}, args \in {<<NoPart, 0>>, <<0, 1>>, <<1, 1>>},
    early \in {{}, 8..10}, late \in {{}, 17..19}, a \in {{}, {13}, 12..14},
    b \in {{}, {21}} }

\* What is declared twice, and constructors where there is no class.
WrongPrograms ==
  { Without(Core \o
    << Node("Module", "m", 0, Pub, <<>>),                   \* 7
       Node("Class", "a", 7, Pub, base),                    \* 8
       Node("Ctor", "#ctor", 8, {}, <<>>),
       Node("Ctor", "#ctor", 8, {}, <<>>),
       Node("Ctor", "#ctor", 7, {}, <<>>),                  \* 11
       Node("Record", "r", 7, {}, <<>>),                    \* 12
       Node("Variable", "x", 12, Pub, <<"integer">>),
       Node("Variable", "x", 12, Pub, <<"r">>),
       Node("Method", "f", 7, {}, <<>>),                    \* 15
       Node("Dim", "x", 15, {}, <<"r">>),
       Node("Dim", "x", 15, {}, <<"a">>),
       Node("New", "new", 15, {}, <<"r">>),
       Node("Method", "f", 7, {}, <<"integer">>) >>, drop) :
    base \in {<<>>, <<"r">>, <<"nothere">>, <<"exception">>},
    drop \in {{}, {9}, {11}, {10, 11}, {10, 11, 16, 19}} }

MCPrograms == NamePrograms \cup InheritPrograms \cup OverridePrograms
              \cup CtorPrograms \cup WrongPrograms
=============================================================================
