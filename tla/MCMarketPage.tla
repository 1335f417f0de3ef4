---------------------------- MODULE MCMarketPage ----------------------------
(* MarketPage for TLC.                                                     *)
EXTENDS MarketPage

CONSTANTS m1, m2
=============================================================================
