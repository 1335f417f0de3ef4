------------------------------- MODULE Server -------------------------------
(***************************************************************************)
(* The life of a server process: it starts (Startup), then answers         *)
(* requests behind the rate limiter (RateLimiter), which keeps its buckets *)
(* in memory only; the database outlives the process.                      *)
(***************************************************************************)
EXTENDS Startup, RateLimiter

vars == <<startupVars, limiterVars>>

Init == StartupInit /\ LimiterInit

Starting == StartupNext /\ UNCHANGED limiterVars
Limiting == main.at = "serve" /\ LimiterNext /\ UNCHANGED startupVars
Ending == Stop /\ Forget

Next == Starting \/ Limiting \/ Ending

(* A running process runs its requests and its cleanup, and time passes.   *)
Fairness ==
  /\ WF_vars(Limiting /\ Sweep) /\ WF_vars(Limiting /\ Tick)
  /\ WF_vars(Limiting /\ \E c \in calls : Allow(c))

Spec == Init /\ [][Next]_vars /\ Fairness

-----------------------------------------------------------------------------
(* The values of all variables; buckets exist only while the server runs.  *)
TypeOK ==
  /\ StartupTypeOK /\ LimiterTypeOK
  /\ main.at # "serve" => calls = {} /\ DOMAIN limiters = {}

(* The buckets as TokenBuckets sees them.                                  *)
Promise == INSTANCE TokenBuckets WITH
             tokens <- [a \in Addresses |-> Found(a)],
             running <- main.at = "serve"

(* Forgetting unused buckets gives nobody extra requests and costs nobody  *)
(* any: each address has the one bucket of TokenBuckets, except for what   *)
(* requests take that were between GetLimiter and Allow() when their       *)
(* bucket was swept.                                                       *)
ImplementsBuckets == Promise!TBSpec
=============================================================================
