---------------------------- MODULE MCMaintenance ----------------------------
(***************************************************************************)
(* A small instance of Maintenance: a response in the encoding of old and  *)
(* in that of now, and another response.                                   *)
(***************************************************************************)
EXTENDS Maintenance, TLC

CONSTANTS n1, n2, h1, h2, raw, packed, other, text, word

MCMeaningOf == raw :> text @@ packed :> text @@ other :> word
MCStartRows == [content : {raw, other}, old : {TRUE}]

Symmetry == Permutations(Names) \cup Permutations(Handlers)
=============================================================================
