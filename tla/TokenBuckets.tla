---------------------------- MODULE TokenBuckets ----------------------------
(***************************************************************************)
(* What the rate limiter promises: every address has one bucket of tokens  *)
(* that fills with time and pays for the requests that are let through.    *)
(* Only when the server stops and starts are buckets full again.           *)
(***************************************************************************)
EXTENDS Naturals

CONSTANTS
  Addresses,  \* client addresses
  Burst,      \* requests that a full bucket pays for
  Period      \* ticks of the clock that one request costs

VARIABLES
  tokens,  \* ticks saved up by each address
  running  \* whether the server answers requests

TBvars == <<tokens, running>>

Full == Burst * Period
AllFull == [a \in Addresses |-> Full]
Filled(t) == IF t < Full THEN t + 1 ELSE Full

TBInit == tokens = AllFull /\ running = FALSE

TBServe(a) ==
  /\ running /\ tokens[a] >= Period
  /\ tokens' = [tokens EXCEPT ![a] = @ - Period]
  /\ UNCHANGED running

TBTick ==
  /\ running
  /\ tokens' = [a \in Addresses |-> Filled(tokens[a])]
  /\ UNCHANGED running

TBRestart == running' = ~running /\ tokens' = AllFull

TBNext == (\E a \in Addresses : TBServe(a)) \/ TBTick \/ TBRestart

TBSpec == TBInit /\ [][TBNext]_TBvars
=============================================================================
