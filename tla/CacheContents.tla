---------------------------- MODULE CacheContents ----------------------------
(***************************************************************************)
(* What a PlayerUpdate does to the caches of a server, as maps and sets:   *)
(* the rules of update_scrapbook_cache and update_underworld_enemies,      *)
(* apart from how the code stores the result.  CacheUpdates delivers       *)
(* updates by these rules, ServerCache is the cache of one server that     *)
(* follows them, and Advice implements that cache with sorted, compressed  *)
(* lists.                                                                  *)
(***************************************************************************)
EXTENDS Naturals, FiniteSets

CONSTANTS
  Updates,    \* contents of a PlayerUpdate: items, stats and level
  ItemsOf,    \* ItemsOf[u]: its equipment ids
  KindOf,     \* KindOf[u]: "nude", "dressed" (more than 3 items) or "low" (level < 25)
  Gone,       \* the update of mark_removed: no items, stats 0, level 0
  None        \* no data

Contents == Updates \cup {Gone}
Items(u) == IF u = Gone THEN {} ELSE ItemsOf[u]
NoMap == [p \in {} |-> None]

(* update_underworld_enemies: a low level is passed over unless it stands  *)
(* for a removal, a dressed player leaves the list, a nude one is listed.  *)
NudeAfter_Replaces(old, updates) ==
  LET listed == {p \in DOMAIN updates :
                   updates[p] # Gone /\ KindOf[updates[p]] = "nude"}
  IN  [p \in listed |-> updates[p]]

NudeAfter(old, updates) ==
  LET listed == {p \in DOMAIN updates :
                   updates[p] # Gone /\ KindOf[updates[p]] = "nude"}
      low    == {p \in DOMAIN updates :
                   updates[p] # Gone /\ KindOf[updates[p]] = "low"}
  IN  [p \in listed \cup (DOMAIN old \ (DOMAIN updates \ low)) |->
         IF p \in listed THEN updates[p] ELSE old[p]]

(* update_scrapbook_cache: an empty index is built from the updates, any   *)
(* other has each of its idents corrected for the players concerned.       *)
Owners(updates, i) == {p \in DOMAIN updates : i \in Items(updates[p])}

IndexAfter(old, updates) ==
  IF DOMAIN old = {}
  THEN [i \in UNION {Items(updates[p]) : p \in DOMAIN updates} |-> Owners(updates, i)]
  ELSE [i \in DOMAIN old |-> (old[i] \ DOMAIN updates) \cup Owners(updates, i)]

InfoAfter(old, updates) ==
  [p \in DOMAIN old \cup DOMAIN updates |->
     IF p \in DOMAIN updates THEN updates[p] ELSE old[p]]
=============================================================================
