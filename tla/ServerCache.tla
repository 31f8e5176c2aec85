----------------------------- MODULE ServerCache -----------------------------
(***************************************************************************)
(* What the caches of one server promise to those who read them: they hold *)
(* maps and sets that change only by a whole batch of updates at once, by  *)
(* the rules of CacheContents.  The two caches are updated one after the   *)
(* other.  Advice implements this with lists that are sorted, searched and *)
(* compressed.                                                             *)
(***************************************************************************)
EXTENDS CacheContents

CONSTANT
  Batches     \* the maps from players to contents that are applied

VARIABLES
  nude,       \* NUDE_PLAYER_CACHE of the server, a map of players
  info,       \* player_info of its SCRAPBOOK_PLAYER_CACHE, a map of players
  index       \* its equipment: a map from idents to sets of players

cvars == <<nude, info, index>>

Init == nude = NoMap /\ info = NoMap /\ index = NoMap

ListNude(b) == nude' = NudeAfter(nude, b) /\ UNCHANGED <<info, index>>

Record(b) ==
  /\ info' = InfoAfter(info, b)
  /\ index' = IndexAfter(index, b)
  /\ UNCHANGED nude

Next == \E b \in Batches : ListNude(b) \/ Record(b)

Spec == Init /\ [][Next]_cvars
=============================================================================
