--------------------------- MODULE MCCacheUpdates ---------------------------
(***************************************************************************)
(* A small instance of CacheUpdates: a player in one item who counts as    *)
(* nude, the same player dressed in another item, and a low level one.     *)
(***************************************************************************)
EXTENDS CacheUpdates

CONSTANTS p1, p2, s1, s2, a, b, bare, clad, young

OneServer == p1 :> s1 @@ p2 :> s1
TwoServers == p1 :> s1 @@ p2 :> s2
MCItemsOf == [u \in Updates |-> IF u = clad THEN {b} ELSE {a}]
MCKindOf == [u \in Updates |-> IF u = bare THEN "nude" ELSE
                               IF u = clad THEN "dressed" ELSE "low"]
=============================================================================
