---------------------------- MODULE MCMarketBook ----------------------------
(* MarketBook for TLC.  Users are interchangeable: no tie is ever broken   *)
(* by username, so their permutations are a symmetry.                      *)
EXTENDS MarketBook

CONSTANTS alice, bob, carol

UserSymmetry == Permutations({alice, bob, carol})
=============================================================================
