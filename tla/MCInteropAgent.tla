--------------------------- MODULE MCInteropAgent ---------------------------
(***************************************************************************)
(* Every exception the processors raise, each with the strings they create *)
(* for its constructor. A semi-space has room for what is alive in any     *)
(* state: a collection is never forced, and may come with every allocation.*)
(***************************************************************************)
EXTENDS InteropAgent

MCTexts ==
  [NullPointerException |-> <<"?">>, ConversionException |-> <<"source", "target">>,
   OutOfRangeException |-> <<>>, OptionMissingException |-> <<"option">>,
   EvmInternalException |-> <<"intrinsic">>, DivideByZeroException |-> <<>>]
MCKlasses == DOMAIN MCTexts
=============================================================================
