------------------------ MODULE MCExceptionHandling ------------------------
(***************************************************************************)
(* Small programs: an exception class with a derived one, and an           *)
(* unrelated one.                                                          *)
(***************************************************************************)
EXTENDS ExceptionHandling, TLC

CONSTANTS Failure, OutOfRange, Conversion

Related == {Failure, OutOfRange}
All == {Failure, OutOfRange, Conversion}
MCBaseClass ==
  (Failure :> NoClass) @@ (OutOfRange :> Failure) @@ (Conversion :> NoClass)
OneCatch == {<<c>> : c \in Class}
Symmetry == Permutations(Node)
=============================================================================
