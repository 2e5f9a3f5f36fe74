-------------------------- MODULE MCProductRefresh --------------------------
(* Two unleased callers of refresh_url on one page: the smallest instance in  *)
(* which one refresh overtakes another.                                       *)
EXTENDS ProductRefresh, TLC
MCSymmetry == Permutations(Refreshers)
=============================================================================
