----------------------------- MODULE MCHofCrawl -----------------------------
(***************************************************************************)
(* A small instance of HofCrawl: two pages, which show any of two names.   *)
(***************************************************************************)
EXTENDS HofCrawl, TLC

Symmetry == Permutations(Names) \cup Permutations(Pollers) \cup Permutations(Reporters)
=============================================================================
