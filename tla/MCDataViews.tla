---------------------------- MODULE MCDataViews ----------------------------
(* DataViews for TLC: every page on its own.                               *)
EXTENDS DataViews

CONSTANTS ann, bob

AllPages ==
  {"profile", "user", "stats", "market", "markets", "search", "nav"}
=============================================================================
