------------------------------ MODULE MCAdvice ------------------------------
(***************************************************************************)
(* A small instance of Advice.  The distances of the three players' ids    *)
(* take two bytes and three; two of them may be equally strong.            *)
(***************************************************************************)
EXTENDS Advice

CONSTANTS r1, r2, bare, vain, clad, young, all, some, odd, lost

Hat == [model |-> 1, color |-> 2, typ |-> 1, class |-> "mage"]
Belt == [model |-> 3, color |-> 0, typ |-> 6, class |-> "none"]
Ring == [model |-> 99, color |-> 0, typ |-> 7, class |-> "none"]
Id(e) == compress_ident(e)

MCItemsOf == bare :> {Id(Hat)} @@ vain :> {Id(Hat), Id(Belt)}
             @@ clad :> {Id(Belt), Id(Ring)} @@ young :> {Id(Ring)}
MCKindOf == bare :> "nude" @@ vain :> "nude" @@ clad :> "dressed" @@ young :> "low"
MCStatsOf == bare :> 2 @@ vain :> 2 @@ clad :> 3 @@ young :> 1
MCLevelOf == bare :> 30 @@ vain :> 40 @@ clad :> 50 @@ young :> 10

MCBatches == {1 :> bare @@ 5 :> vain @@ 46 :> clad,
              1 :> vain @@ 46 :> bare,
              1 :> clad @@ 5 :> Gone,
              46 :> young,
              1 :> vain}

MCBookOf == all :> {} @@ some :> {Hat} @@ odd :> {Belt} @@ lost :> {}
MCBookKind == all :> "good" @@ some :> "good" @@ odd :> "refused" @@ lost :> "absent"
MCMaxOf == all :> 3 @@ some :> 2 @@ odd :> 3 @@ lost :> 3

HandlerSymmetry == Permutations(Handlers)
=============================================================================
