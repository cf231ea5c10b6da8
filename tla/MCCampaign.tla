----------------------------- MODULE MCCampaign -----------------------------
(* A key run and a cheaper descriptive one, of two pairs each.             *)
EXTENDS Campaign, TLC

CONSTANTS p1, p2, keyCell, other

MCSelected == <<p1, p2>>
MCCells == {keyCell, other}
MCCost == keyCell :> 3 @@ other :> 1
=============================================================================
