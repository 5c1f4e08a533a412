--------------------------- MODULE MCRootTracking ---------------------------
(***************************************************************************)
(* A program of five functions: the entry, a static function with a        *)
(* reference parameter, one with a by-reference parameter, and a virtual   *)
(* method with an override.                                                *)
(***************************************************************************)
EXTENDS RootTracking, TLC

CONSTANTS main, byval, byref, method, override

MCParams ==
  (main :> <<>>) @@ (byval :> <<"ref">>) @@ (byref :> <<"itp">>)
    @@ (method :> <<"ref", "itp">>) @@ (override :> <<"ref", "itp">>)
Dispatch ==
  (main :> {main}) @@ (byval :> {byval}) @@ (byref :> {byref})
    @@ (method :> {method, override}) @@ (override :> {override})

MCOverrides == [f \in Function |-> Dispatch[f] \cap Function]

\* The override has the variables of the method it overrides.
MCLocals ==
  (main :> <<>>) @@ (byval :> <<>>) @@ (byref :> <<>>)
    @@ (method :> <<"ref">>) @@ (override :> <<"ref">>)
=============================================================================
