---------------------------- MODULE RateLimiter -----------------------------
(***************************************************************************)
(* security/ratelimit.go: a map from client addresses to token buckets, a  *)
(* middleware that takes a token or refuses, and a goroutine that deletes  *)
(* full buckets from the map.  The mutex covers the map and the whole      *)
(* cleanup, but not the Allow() on the bucket that GetLimiter returned: a  *)
(* request may still hold a bucket that the map has lost.                  *)
(* The buckets are golang.org/x/time/rate, which counts in float64; here   *)
(* one unit is what one tick of the clock brings.                          *)
(***************************************************************************)
EXTENDS Naturals, FiniteSets

CONSTANTS
  Addresses,  \* client addresses
  Burst,      \* config.LoginBurst, config.GeneralBurst
  Period,     \* ticks per request of config.LoginRate, config.GeneralRate
  MaxRequests \* bound on the requests to one process

ASSUME LimiterAssumption ==
  Burst \in Nat \ {0} /\ Period \in Nat \ {0} /\ MaxRequests \in Nat

VARIABLES
  limiters,  \* rl.limiters: the bucket of each address that has one
  buckets,   \* contents of the buckets that the map or a request refers to
  calls,     \* requests between GetLimiter and Allow
  sweep,     \* the cleanup: the keys left, and the key found full
  arrived    \* requests so far to this process

limiterVars == <<limiters, buckets, calls, sweep, arrived>>

Full == Burst * Period
BucketIds == 1..MaxRequests
Idle == [on |-> FALSE, left |-> {}, full |-> {}]

(* swept is history: the cleanup found the bucket full during the call.    *)
Call == [id : 1..MaxRequests, address : Addresses, bucket : BucketIds,
         swept : BOOLEAN]

LimiterInit ==
  /\ limiters = [a \in {} |-> 1] /\ buckets = [i \in {} |-> 0]
  /\ calls = {} /\ sweep = Idle /\ arrived = 0

(* Buckets that nothing refers to are garbage.                             *)
Live(map, cs) == {map[a] : a \in DOMAIN map} \cup {c.bucket : c \in cs}
Kept(b, map, cs) == [i \in DOMAIN b \cap Live(map, cs) |-> b[i]]

-----------------------------------------------------------------------------
(* The middleware: getClientIP and GetLimiter, under the mutex.            *)
Receives(a, i) ==
  /\ ~sweep.on /\ arrived < MaxRequests
  /\ arrived' = arrived + 1
  /\ limiters' = [k \in DOMAIN limiters \cup {a} |->
                    IF k = a THEN i ELSE limiters[k]]
  /\ calls' = calls \cup
       {[id |-> arrived', address |-> a, bucket |-> i, swept |-> FALSE]}
  /\ buckets' = Kept([k \in DOMAIN buckets \cup {i} |->
                        IF k \in DOMAIN buckets THEN buckets[k] ELSE Full],
                     limiters', calls')
  /\ UNCHANGED sweep

NewBucket == CHOOSE i \in BucketIds : i \notin DOMAIN buckets

(* Mutant: the key is looked up before the mutex is taken, so that a       *)
(* request that met no bucket replaces the one made meanwhile.             *)
GetLimiterUnlocked(a) ==
  \/ a \in DOMAIN limiters /\ Receives(a, limiters[a])
  \/ Receives(a, NewBucket)

GetLimiter(a) ==
  Receives(a, IF a \in DOMAIN limiters THEN limiters[a] ELSE NewBucket)

(* Allow() lets the request through for Period units, or answers 429.      *)
Allow(c) ==
  LET pays == buckets[c.bucket] >= Period
  IN  /\ calls' = calls \ {c}
      /\ buckets' = Kept(IF pays THEN [buckets EXCEPT ![c.bucket] = @ - Period]
                         ELSE buckets, limiters, calls')
      /\ UNCHANGED <<limiters, sweep, arrived>>

-----------------------------------------------------------------------------
(* cleanupRoutine: the ticker fires, the mutex is taken.                   *)
SweepStart ==
  /\ ~sweep.on /\ DOMAIN limiters # {}
  /\ sweep' = [on |-> TRUE, left |-> DOMAIN limiters, full |-> {}]
  /\ UNCHANGED <<limiters, buckets, calls, arrived>>

Looks(a, full) ==
  /\ a \in sweep.left /\ sweep.full = {}
  /\ sweep' = [sweep EXCEPT !.left = @ \ {a},
                             !.full = IF full THEN {a} ELSE {}]
  /\ calls' = {[c EXCEPT !.swept = @ \/ (full /\ c.address = a)] :
                 c \in calls}
  /\ UNCHANGED <<limiters, buckets, arrived>>

(* Mutant: a bucket that has gained anything again counts as unused.       *)
SweepLookGaining(a) ==
  a \in sweep.left /\ Looks(a, buckets[limiters[a]] > 0)

(* Mutant: a bucket has to be fuller than full to be unused.               *)
SweepLookOverfull(a) ==
  a \in sweep.left /\ Looks(a, buckets[limiters[a]] > Full)

(* TokensAt(time.Now()) == burst.                                          *)
SweepLook(a) ==
  a \in sweep.left /\ Looks(a, buckets[limiters[a]] = Full)

(* delete(rl.limiters, key): an Allow() may have come in between.          *)
SweepDelete(a) ==
  /\ a \in sweep.full
  /\ limiters' = [k \in DOMAIN limiters \ {a} |-> limiters[k]]
  /\ buckets' = Kept(buckets, limiters', calls)
  /\ sweep' = [sweep EXCEPT !.full = {}]
  /\ UNCHANGED <<calls, arrived>>

SweepEnd ==
  /\ sweep.on /\ sweep.left = {} /\ sweep.full = {}
  /\ sweep' = Idle
  /\ UNCHANGED <<limiters, buckets, calls, arrived>>

Sweep == \/ SweepStart \/ SweepEnd
         \/ \E a \in Addresses : SweepLook(a) \/ SweepDelete(a)

(* Time passes: every bucket gains a unit, up to its burst.                *)
Tick ==
  /\ \E i \in DOMAIN buckets : buckets[i] < Full
  /\ buckets' = [i \in DOMAIN buckets |->
                   IF buckets[i] < Full THEN buckets[i] + 1 ELSE Full]
  /\ UNCHANGED <<limiters, calls, sweep, arrived>>

(* The process ends: the map and the requests are gone.                    *)
Forget ==
  /\ limiters' = [a \in {} |-> 1] /\ buckets' = [i \in {} |-> 0]
  /\ calls' = {} /\ sweep' = Idle /\ arrived' = 0

LimiterNext ==
  \/ \E a \in Addresses : GetLimiter(a)
  \/ \E c \in calls : Allow(c)
  \/ Sweep \/ Tick

-----------------------------------------------------------------------------
(* The values the variables take; buckets are those referred to, and the   *)
(* map never refers to a bucket that is gone.  A request holds another     *)
(* bucket than the next one of its address gets only if it was swept.      *)
LimiterTypeOK ==
  /\ DOMAIN limiters \subseteq Addresses
  /\ DOMAIN buckets = Live(limiters, calls)
  /\ \A i \in DOMAIN buckets : i \in BucketIds /\ buckets[i] \in 0..Full
  /\ calls \subseteq Call /\ arrived \in 0..MaxRequests
  /\ sweep.left \subseteq DOMAIN limiters
  /\ sweep.full \subseteq DOMAIN limiters \ sweep.left
  /\ ~sweep.on => sweep = Idle
  /\ \A c \in calls :
       (c.address \notin DOMAIN limiters \/ limiters[c.address] # c.bucket)
         => c.swept

(* What the next request of an address finds: its bucket, or a new one.    *)
Found(a) ==
  IF a \in DOMAIN limiters /\ a \notin sweep.full
  THEN buckets[limiters[a]] ELSE Full

(* The map does not grow for ever: the bucket of an address that stops     *)
(* sending (the bound on requests makes it) is removed.                    *)
LimitersReleased == \A a \in Addresses : a \in DOMAIN limiters
                                         ~> a \notin DOMAIN limiters
=============================================================================
