-------------------------- MODULE MCPackageLinking --------------------------
(***************************************************************************)
(* core and three libraries: A, B that may import A or not, and C that may *)
(* import both. Some names differ in case only.                            *)
(***************************************************************************)
EXTENDS PackageLinking

MCDeclares ==
  [core |-> << <<"o">> >>,
   A |-> << <<"m">>, <<"m", "x">> >>,
   B |-> << <<"n">>, <<"n", "X">>, <<"n", "m">> >>,
   C |-> << <<"c">> >>]
MCImports ==
  [core |-> {{}}, A |-> {{}}, B |-> {{}, {"A"}}, C |-> {{"A", "B"}, {"B"}}]
MCMaxUses == [p \in {"core", "A", "B", "C"} |-> IF p = "core" THEN 0 ELSE 1]
MCLower(name) == IF name = "X" THEN "x" ELSE name
=============================================================================
