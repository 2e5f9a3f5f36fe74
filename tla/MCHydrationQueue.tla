-------------------------- MODULE MCHydrationQueue --------------------------
(* Instances of HydrationQueue: one page whose lease is lost and taken over, *)
(* and two pages of one store that compete for the claim.                    *)
EXTENDS HydrationQueue, TLC
CONSTANTS pg1, pg2

OneStore == pg1 :> 0
TwoPages == (pg1 :> 0) @@ (pg2 :> 0)
ShortBackoff == <<1, 2>>
OneBackoff == <<1>>
MCSymmetry == Permutations(Workers)
=============================================================================
