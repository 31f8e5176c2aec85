---------------------------- MODULE MCCrawlQueue ----------------------------
(***************************************************************************)
(* A small instance of CrawlQueue.  One unit of time is a lease; the       *)
(* delays keep the order of the real ones (half an hour < 11..14 h < 1 d < *)
(* 2..4 d < 10..14 d), one draw for each tier.                             *)
(***************************************************************************)
EXTENDS CrawlQueue, TLC

MCBackoff == [t \in Tiers |-> CASE t = "changed" -> {2}
                                [] t = "new"     -> {3}
                                [] t = "recent"  -> {3}
                                [] t = "week"    -> {3}
                                [] t = "stale"   -> {4}]

Symmetry == Permutations(Names) \cup Permutations(Pollers) \cup Permutations(Handlers)
=============================================================================
