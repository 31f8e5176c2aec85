--------------------------- MODULE MCPlayerReports ---------------------------
(***************************************************************************)
(* A small instance of PlayerReports: r1 and r2 show the same profile, r1  *)
(* and r3 the same guild and description, r2 a player without a guild.     *)
(***************************************************************************)
EXTENDS PlayerReports, TLC

CONSTANTS r1, r2, r3, g1, d1, d2, low, high, none, removed

MCResponses == {r1, r2, r3}
MCGuilds == {g1}
MCDescriptions == {d1, d2}
MCProfileOf == r1 :> low @@ r2 :> low @@ r3 :> high
MCGuildOf == r1 :> g1 @@ r2 :> none @@ r3 :> g1
MCDescriptionOf == r1 :> d1 @@ r2 :> d2 @@ r3 :> d1

(* Names and handlers are interchangeable; responses are not. *)
NameAndHandlerSymmetry == Permutations(Names) \cup Permutations(Handlers)
=============================================================================
