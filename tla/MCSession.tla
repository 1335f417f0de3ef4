----------------------------- MODULE MCSession -----------------------------
(* Session for TLC: an administrator with a first password and a trader.   *)
EXTENDS Session

CONSTANTS ann, bob

MCPermissions ==
  [u \in Users |-> {IF u = ann THEN "create_users" ELSE "create_markets"}]
=============================================================================
