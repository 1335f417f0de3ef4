---------------------------- MODULE ServerProofs ----------------------------
(***************************************************************************)
(* The theorems about the process of the server.  The rate limiter: for    *)
(* any number of clients and requests, any burst and any rate, the map of  *)
(* buckets with its cleanup implements one bucket for each address         *)
(* (TokenBuckets).  The start: for any set of permissions, and any number  *)
(* of starts that fail or die anywhere, what is on record is applied,      *)
(* nobody loses rights or settings, and a start that goes well completes   *)
(* all that is left to do.                                                 *)
(***************************************************************************)
EXTENDS Server, FiniteSetTheorems, SequenceTheorems, TLAPS

-----------------------------------------------------------------------------
(* The limiter: the inductive invariant *)

(* No bucket serves two addresses, in the map or in requests.              *)
OwnBuckets ==
  /\ \A a, b \in DOMAIN limiters : limiters[a] = limiters[b] => a = b
  /\ \A c \in calls, a \in DOMAIN limiters :
       limiters[a] = c.bucket => a = c.address
  /\ \A c, d \in calls : c.bucket = d.bucket => c.address = d.address

(* Each request has made at most one bucket.                               *)
BucketsLeft == Cardinality(DOMAIN buckets) <= arrived

(* The cleanup holds the mutex, so no request arrives between its look at  *)
(* a bucket and the delete.                                                *)
SweptCalls == \A a \in sweep.full, c \in calls : c.address = a => c.swept

SweepTyped ==
  sweep \in [on : BOOLEAN, left : SUBSET Addresses, full : SUBSET Addresses]

LimiterInv ==
  LimiterTypeOK /\ OwnBuckets /\ BucketsLeft /\ SweptCalls /\ SweepTyped

-----------------------------------------------------------------------------
(* Lemmas about the map and its buckets *)

LEMMA LiveTyped ==
  ASSUME LimiterInv
  PROVE  /\ \A a \in DOMAIN limiters :
              limiters[a] \in DOMAIN buckets /\ a \in Addresses
         /\ \A c \in calls : /\ c.bucket \in DOMAIN buckets
                             /\ c \in Call /\ c.address \in Addresses
         /\ \A i \in DOMAIN buckets : i \in BucketIds /\ buckets[i] \in 0..Full
         /\ DOMAIN buckets \subseteq BucketIds
         /\ Full \in Nat \ {0}
<1>1. Full \in Nat \ {0}
  BY LimiterAssumption DEF Full
<1> QED  BY <1>1 DEF LimiterInv, LimiterTypeOK, Live, Call

(* While requests may still arrive there is a bucket that nothing refers   *)
(* to.                                                                     *)
LEMMA NewBucketFree ==
  ASSUME LimiterInv, arrived < MaxRequests
  PROVE  NewBucket \in BucketIds /\ NewBucket \notin DOMAIN buckets
<1>1. MaxRequests \in Nat /\ arrived \in Nat
  BY LimiterAssumption DEF LimiterInv, LimiterTypeOK
<1>2. IsFiniteSet(BucketIds) /\ Cardinality(BucketIds) = MaxRequests
  BY <1>1, FS_Interval DEF BucketIds
<1>3. DOMAIN buckets \in SUBSET BucketIds
  BY LiveTyped
<1>4. DOMAIN buckets # BucketIds
  BY <1>1, <1>2 DEF LimiterInv, BucketsLeft
<1>5. \E i \in BucketIds : i \notin DOMAIN buckets
  BY <1>3, <1>4
<1> QED  BY <1>5 DEF NewBucket

(* Dropping buckets that nothing refers to.                                *)
LEMMA KeptIs ==
  ASSUME NEW b, NEW map, NEW cs
  PROVE  /\ DOMAIN Kept(b, map, cs) = DOMAIN b \cap Live(map, cs)
         /\ \A i \in DOMAIN b \cap Live(map, cs) : Kept(b, map, cs)[i] = b[i]
  BY DEF Kept

(* Fewer buckets than before.                                              *)
LEMMA FewerLeft ==
  ASSUME LimiterInv, DOMAIN buckets' \subseteq DOMAIN buckets,
         arrived' = arrived
  PROVE  BucketsLeft'
<1>1. IsFiniteSet(BucketIds)
  BY LimiterAssumption, FS_Interval DEF BucketIds
<1>2. IsFiniteSet(DOMAIN buckets)
  BY <1>1, LiveTyped, FS_Subset
<1>3. Cardinality(DOMAIN buckets') <= Cardinality(DOMAIN buckets)
  BY <1>2, FS_Subset
<1>4. IsFiniteSet(DOMAIN buckets')
  BY <1>2, FS_Subset
<1>5. /\ Cardinality(DOMAIN buckets') \in Nat
      /\ Cardinality(DOMAIN buckets) \in Nat /\ arrived \in Nat
  BY <1>2, <1>4, FS_CardinalityType, LimiterAssumption
  DEF LimiterInv, LimiterTypeOK
<1> QED  BY <1>3, <1>5 DEF LimiterInv, BucketsLeft

-----------------------------------------------------------------------------
(* A request gets its bucket.                                              *)

LEMMA ReceivesSound ==
  ASSUME LimiterInv, NEW a \in Addresses, NEW i \in BucketIds,
         Receives(a, i),
         \/ a \in DOMAIN limiters /\ i = limiters[a]
         \/ a \notin DOMAIN limiters /\ i \notin DOMAIN buckets
  PROVE  /\ LimiterInv' /\ sweep' = Idle
         /\ \A k \in Addresses : Found(k)' = Found(k)
<1> DEFINE new == [id |-> arrived + 1, address |-> a, bucket |-> i,
                   swept |-> FALSE]
           b   == [k \in DOMAIN buckets \cup {i} |->
                     IF k \in DOMAIN buckets THEN buckets[k] ELSE Full]
<1>1. /\ ~sweep.on /\ arrived < MaxRequests /\ arrived' = arrived + 1
      /\ limiters' = [k \in DOMAIN limiters \cup {a} |->
                        IF k = a THEN i ELSE limiters[k]]
      /\ calls' = calls \cup {new}
      /\ buckets' = Kept(b, limiters', calls')
      /\ sweep' = sweep /\ sweep = Idle
  BY DEF Receives, LimiterInv, LimiterTypeOK
<1>2. /\ arrived' \in 1..MaxRequests /\ arrived \in Nat
      /\ new \in Call
  BY <1>1, LimiterAssumption DEF LimiterInv, LimiterTypeOK, Call, BucketIds
<1>3. /\ DOMAIN limiters' = DOMAIN limiters \cup {a}
      /\ limiters'[a] = i
      /\ \A k \in DOMAIN limiters \ {a} : limiters'[k] = limiters[k]
  BY <1>1
<1>4. Live(limiters', calls') = Live(limiters, calls) \cup {i}
  <2>1. Live(limiters', calls') \subseteq Live(limiters, calls) \cup {i}
    BY <1>1, <1>3 DEF Live
  <2>2. i \in Live(limiters', calls')
    BY <1>3 DEF Live
  <2>3. ASSUME NEW c \in calls
        PROVE  c.bucket \in Live(limiters', calls')
    BY <1>1 DEF Live
  <2>4. ASSUME NEW k \in DOMAIN limiters
        PROVE  limiters[k] \in Live(limiters', calls')
    <3>1. limiters[k] = limiters'[k]
      <4>1. CASE k = a  BY <1>3, <4>1
      <4>2. CASE k # a  BY <1>3, <4>2
      <4> QED  BY <4>1, <4>2
    <3> QED  BY <1>3, <3>1 DEF Live
  <2> QED  BY <2>1, <2>2, <2>3, <2>4 DEF Live
<1>5. DOMAIN buckets = Live(limiters, calls)
  BY DEF LimiterInv, LimiterTypeOK
<1>6. /\ DOMAIN buckets' = DOMAIN buckets \cup {i}
      /\ \A k \in DOMAIN buckets' : buckets'[k] = b[k]
  <2>1. DOMAIN b = DOMAIN buckets \cup {i}
    OBVIOUS
  <2> HIDE DEF b
  <2>2. DOMAIN b \cap Live(limiters', calls') = DOMAIN buckets \cup {i}
    BY <1>4, <1>5, <2>1
  <2> DEFINE kept == Kept(b, limiters', calls')
  <2>3. /\ DOMAIN kept = DOMAIN b \cap Live(limiters', calls')
        /\ \A k \in DOMAIN b \cap Live(limiters', calls') : kept[k] = b[k]
    BY KeptIs
  <2>4. buckets' = kept
    BY <1>1
  <2> HIDE DEF kept
  <2> QED  BY <2>2, <2>3, <2>4
<1>7. \A k \in DOMAIN buckets' : k \in BucketIds /\ buckets'[k] \in 0..Full
  <2> SUFFICES ASSUME NEW k \in DOMAIN buckets'
               PROVE  k \in BucketIds /\ buckets'[k] \in 0..Full
    OBVIOUS
  <2>1. CASE k \in DOMAIN buckets
    BY <1>6, <2>1, LiveTyped
  <2>2. CASE k \notin DOMAIN buckets
    <3>1. k = i /\ buckets'[k] = Full
      BY <1>6, <2>2
    <3> QED  BY <3>1, LiveTyped
  <2> QED  BY <2>1, <2>2
<1> HIDE DEF b
<1>8. \A c \in calls' :
        (c.address \notin DOMAIN limiters' \/ limiters'[c.address] # c.bucket)
          => c.swept
  <2> SUFFICES ASSUME NEW c \in calls'
               PROVE  \/ c.address \in DOMAIN limiters'
                         /\ limiters'[c.address] = c.bucket
                      \/ c.swept
    OBVIOUS
  <2>1. CASE c = new
    BY <1>3, <2>1
  <2>2. CASE c \in calls
    <3>1. \/ c.address \in DOMAIN limiters /\ limiters[c.address] = c.bucket
          \/ c.swept
      BY <2>2 DEF LimiterInv, LimiterTypeOK
    <3> QED  BY <1>3, <3>1
  <2> QED  BY <1>1, <2>1, <2>2
<1>9. LimiterTypeOK'
  <2>1. DOMAIN limiters \subseteq Addresses /\ calls \subseteq Call
    BY DEF LimiterInv, LimiterTypeOK
  <2>2. sweep.left = {} /\ sweep.full = {} /\ ~sweep.on
    BY <1>1 DEF Idle
  <2>3. DOMAIN limiters' \subseteq Addresses
    BY <1>3, <2>1
  <2>4. DOMAIN buckets' = Live(limiters', calls')
    BY <1>4, <1>5, <1>6
  <2>5. calls' \subseteq Call /\ arrived' \in 0..MaxRequests
    <3>1. calls' \subseteq Call
      <4> HIDE DEF new
      <4> QED  BY <1>1, <1>2, <2>1
    <3>2. arrived' \in 0..MaxRequests
      BY <1>2, LimiterAssumption
    <3> QED  BY <3>1, <3>2
  <2>6. /\ sweep'.left \subseteq DOMAIN limiters'
        /\ sweep'.full \subseteq DOMAIN limiters' \ sweep'.left
        /\ ~sweep'.on => sweep' = Idle
    BY <1>1, <2>2
  <2> QED
    BY <1>7, <1>8, <2>3, <2>4, <2>5, <2>6 DEF LimiterTypeOK
(* The bucket is that of address a, or nobody's.                           *)
<1>10. /\ \A k \in DOMAIN limiters : limiters[k] = i => k = a
       /\ \A c \in calls : c.bucket = i => c.address = a
  <2>1. CASE a \in DOMAIN limiters /\ i = limiters[a]
    BY <2>1 DEF LimiterInv, OwnBuckets
  <2>2. CASE i \notin DOMAIN buckets
    BY <2>2, LiveTyped
  <2> QED  BY <2>1, <2>2
<1>11. OwnBuckets'
  <2>1. \A k, l \in DOMAIN limiters' :
          limiters'[k] = limiters'[l] => k = l
    BY <1>3, <1>10 DEF LimiterInv, OwnBuckets
  <2>2. \A c \in calls', k \in DOMAIN limiters' :
          limiters'[k] = c.bucket => k = c.address
    BY <1>1, <1>3, <1>10 DEF LimiterInv, OwnBuckets
  <2>3. \A c, d \in calls' : c.bucket = d.bucket => c.address = d.address
    BY <1>1, <1>10 DEF LimiterInv, OwnBuckets
  <2> QED  BY <2>1, <2>2, <2>3 DEF OwnBuckets
<1>12. BucketsLeft'
  <2>1. IsFiniteSet(DOMAIN buckets)
    <3>1. IsFiniteSet(BucketIds)
      BY LimiterAssumption, FS_Interval DEF BucketIds
    <3> QED  BY <3>1, LiveTyped, FS_Subset
  <2>2. /\ Cardinality(DOMAIN buckets \cup {i}) =
             IF i \in DOMAIN buckets THEN Cardinality(DOMAIN buckets)
             ELSE Cardinality(DOMAIN buckets) + 1
        /\ Cardinality(DOMAIN buckets) \in Nat
    BY <2>1, FS_AddElement, FS_CardinalityType
  <2>3. Cardinality(DOMAIN buckets) <= arrived
    BY DEF LimiterInv, BucketsLeft
  <2>4. Cardinality(DOMAIN buckets') <= arrived'
    BY <1>1, <1>2, <1>6, <2>2, <2>3
  <2> QED  BY <2>4 DEF BucketsLeft
<1>13. SweptCalls' /\ SweepTyped'
  BY <1>1 DEF LimiterInv, SweptCalls, SweepTyped, Idle
<1>14. ASSUME NEW k \in Addresses
       PROVE  Found(k)' = Found(k)
  <2>1. sweep.full = {} /\ sweep'.full = {}
    BY <1>1 DEF Idle
  <2>2. CASE k \in DOMAIN limiters
    <3>1. k \in DOMAIN limiters' /\ limiters'[k] = limiters[k]
      <4>1. CASE k = a  BY <1>3, <2>2, <4>1, <1>10, LiveTyped
      <4>2. CASE k # a  BY <1>3, <2>2, <4>2
      <4> QED  BY <4>1, <4>2
    <3>2. limiters[k] \in DOMAIN buckets
      BY <2>2, LiveTyped
    <3>3. buckets'[limiters[k]] = buckets[limiters[k]]
      BY <1>6, <3>2 DEF b
    <3> QED  BY <2>1, <2>2, <3>1, <3>3 DEF Found
  <2>3. CASE k \notin DOMAIN limiters /\ k # a
    BY <1>3, <2>1, <2>3 DEF Found
  <2>4. CASE k \notin DOMAIN limiters /\ k = a
    <3>1. i \notin DOMAIN buckets /\ limiters'[a] = i
      BY <1>3, <2>4
    <3>2. buckets'[i] = Full
      BY <1>6, <3>1 DEF b
    <3> QED  BY <1>3, <2>1, <2>4, <3>1, <3>2 DEF Found
  <2> QED  BY <2>2, <2>3, <2>4
<1> QED  BY <1>1, <1>9, <1>11, <1>12, <1>13, <1>14 DEF LimiterInv

LEMMA GetLimiterSound ==
  ASSUME LimiterInv, NEW a \in Addresses, GetLimiter(a)
  PROVE  /\ LimiterInv' /\ sweep' = Idle
         /\ \A k \in Addresses : Found(k)' = Found(k)
<1>1. CASE a \in DOMAIN limiters
  <2>1. limiters[a] \in BucketIds /\ Receives(a, limiters[a])
    BY <1>1, LiveTyped DEF GetLimiter
  <2> QED  BY <1>1, <2>1, ReceivesSound
<1>2. CASE a \notin DOMAIN limiters
  <2>1. Receives(a, NewBucket) /\ arrived < MaxRequests
    BY <1>2 DEF GetLimiter, Receives
  <2> QED  BY <1>2, <2>1, NewBucketFree, ReceivesSound
<1> QED  BY <1>1, <1>2

-----------------------------------------------------------------------------
(* The bucket pays, the cleanup looks and deletes, time passes.            *)

(* A step that makes no bucket and gives none to another address.          *)
LEMMA DropsSound ==
  ASSUME LimiterInv, LimiterTypeOK', SweptCalls', SweepTyped',
         DOMAIN limiters' \subseteq DOMAIN limiters,
         \A a \in DOMAIN limiters' : limiters'[a] = limiters[a],
         \A c \in calls' : \E d \in calls :
           c.bucket = d.bucket /\ c.address = d.address,
         DOMAIN buckets' \subseteq DOMAIN buckets, arrived' = arrived
  PROVE  LimiterInv'
<1>1. OwnBuckets'
  <2>1. \A a, b \in DOMAIN limiters' : limiters'[a] = limiters'[b] => a = b
    BY DEF LimiterInv, OwnBuckets
  <2>2. ASSUME NEW c \in calls', NEW a \in DOMAIN limiters',
               limiters'[a] = c.bucket
        PROVE  a = c.address
    <3>1. PICK d \in calls : c.bucket = d.bucket /\ c.address = d.address
      OBVIOUS
    <3> QED  BY <2>2, <3>1 DEF LimiterInv, OwnBuckets
  <2>3. ASSUME NEW c \in calls', NEW d \in calls', c.bucket = d.bucket
        PROVE  c.address = d.address
    <3>1. PICK e \in calls : c.bucket = e.bucket /\ c.address = e.address
      OBVIOUS
    <3>2. PICK f \in calls : d.bucket = f.bucket /\ d.address = f.address
      OBVIOUS
    <3>3. e.bucket = f.bucket
      BY <2>3, <3>1, <3>2
    <3>4. e.address = f.address
      BY <3>3 DEF LimiterInv, OwnBuckets
    <3> QED  BY <3>1, <3>2, <3>4
  <2> QED  BY <2>1, <2>2, <2>3 DEF OwnBuckets
<1>2. BucketsLeft'
  BY FewerLeft
<1> QED  BY <1>1, <1>2 DEF LimiterInv

LEMMA AllowSound ==
  ASSUME LimiterInv, NEW c \in calls, Allow(c)
  PROVE  /\ LimiterInv'
         /\ DOMAIN buckets' = DOMAIN buckets \cap Live(limiters, calls')
         /\ \A i \in DOMAIN buckets' :
              buckets'[i] = IF i = c.bucket /\ buckets[i] >= Period
                            THEN buckets[i] - Period ELSE buckets[i]
<1> DEFINE b == IF buckets[c.bucket] >= Period
                THEN [buckets EXCEPT ![c.bucket] = @ - Period] ELSE buckets
<1>1. /\ calls' = calls \ {c} /\ UNCHANGED <<limiters, sweep, arrived>>
      /\ buckets' = Kept(b, limiters, calls')
  BY DEF Allow
<1>2. /\ DOMAIN b = DOMAIN buckets
      /\ \A i \in DOMAIN buckets :
           b[i] = IF i = c.bucket /\ buckets[i] >= Period
                  THEN buckets[i] - Period ELSE buckets[i]
  BY LiveTyped
<1> HIDE DEF b
<1>3. /\ DOMAIN buckets' = DOMAIN buckets \cap Live(limiters, calls')
      /\ \A i \in DOMAIN buckets' : buckets'[i] = b[i]
  <2> DEFINE kept == Kept(b, limiters, calls')
  <2>1. /\ DOMAIN kept = DOMAIN b \cap Live(limiters, calls')
        /\ \A k \in DOMAIN b \cap Live(limiters, calls') : kept[k] = b[k]
    BY KeptIs
  <2> HIDE DEF kept
  <2> QED  BY <1>1, <1>2, <2>1 DEF kept
<1>4. Live(limiters, calls') \subseteq DOMAIN buckets
  BY <1>1, LiveTyped DEF Live
<1>5. \A i \in DOMAIN buckets' : i \in BucketIds /\ buckets'[i] \in 0..Full
  BY <1>2, <1>3, LiveTyped, LimiterAssumption
<1>6. LimiterTypeOK'
  BY <1>1, <1>3, <1>4, <1>5 DEF LimiterInv, LimiterTypeOK
<1>7. SweptCalls' /\ SweepTyped'
  BY <1>1 DEF LimiterInv, SweptCalls, SweepTyped
<1>8. LimiterInv'
  BY <1>1, <1>3, <1>6, <1>7, DropsSound
<1> QED  BY <1>2, <1>3, <1>8

LEMMA SweepStartSound ==
  ASSUME LimiterInv, SweepStart
  PROVE  LimiterInv'
<1>1. /\ UNCHANGED <<limiters, buckets, calls, arrived>>
      /\ sweep' = [on |-> TRUE, left |-> DOMAIN limiters, full |-> {}]
  BY DEF SweepStart
<1>2. LimiterTypeOK'
  BY <1>1 DEF LimiterInv, LimiterTypeOK
<1>3. SweptCalls' /\ SweepTyped'
  BY <1>1 DEF LimiterInv, LimiterTypeOK, SweptCalls, SweepTyped
<1> QED  BY <1>1, <1>2, <1>3, DropsSound

LEMMA SweepLookSound ==
  ASSUME LimiterInv, NEW a \in Addresses, SweepLook(a)
  PROVE  LimiterInv'
<1> DEFINE full == buckets[limiters[a]] = Full
           seen(c) == [c EXCEPT !.swept = @ \/ (full /\ c.address = a)]
<1>1. /\ a \in sweep.left /\ sweep.full = {}
      /\ sweep' = [sweep EXCEPT !.left = @ \ {a},
                                !.full = IF full THEN {a} ELSE {}]
      /\ calls' = {seen(c) : c \in calls}
      /\ UNCHANGED <<limiters, buckets, arrived>>
  BY DEF SweepLook, Looks
<1>2. /\ sweep'.left = sweep.left \ {a} /\ sweep'.on = sweep.on
      /\ sweep'.full = IF full THEN {a} ELSE {}
      /\ sweep' \in [on : BOOLEAN, left : SUBSET Addresses,
                     full : SUBSET Addresses]
  BY <1>1 DEF LimiterInv, SweepTyped
<1>3. sweep.on
  BY <1>1 DEF LimiterInv, LimiterTypeOK, Idle
<1>4. \A c \in calls : /\ seen(c) \in Call
                       /\ seen(c).bucket = c.bucket
                       /\ seen(c).address = c.address
                       /\ c.swept => seen(c).swept
                       /\ full /\ c.address = a => seen(c).swept
  BY DEF LimiterInv, LimiterTypeOK, Call
<1> HIDE DEF full, seen
<1>5. Live(limiters', calls') = Live(limiters, calls)
  <2>1. {c.bucket : c \in calls'} = {c.bucket : c \in calls}
    BY <1>1, <1>4
  <2> QED  BY <1>1, <2>1 DEF Live
<1>6. LimiterTypeOK'
  <2>1. calls' \subseteq Call
    BY <1>1, <1>4
  <2>2. \A c \in calls' :
          (c.address \notin DOMAIN limiters'
             \/ limiters'[c.address] # c.bucket) => c.swept
    <3> SUFFICES ASSUME NEW c \in calls,
                        \/ c.address \notin DOMAIN limiters
                        \/ limiters[c.address] # c.bucket
                 PROVE  seen(c).swept
      BY <1>1, <1>4
    <3>1. c.swept
      BY DEF LimiterInv, LimiterTypeOK
    <3> QED  BY <1>4, <3>1
  <2>3. /\ sweep'.left \subseteq DOMAIN limiters
        /\ sweep'.full \subseteq DOMAIN limiters \ sweep'.left
    BY <1>1, <1>2 DEF LimiterInv, LimiterTypeOK
  <2> QED
    BY <1>1, <1>2, <1>3, <1>5, <2>1, <2>2, <2>3 DEF LimiterInv, LimiterTypeOK
<1>7. SweptCalls'
  BY <1>1, <1>2, <1>4 DEF SweptCalls
<1>8. SweepTyped'
  BY <1>2 DEF SweepTyped
<1>9. \A c \in calls' : \E d \in calls :
        c.bucket = d.bucket /\ c.address = d.address
  BY <1>1, <1>4
<1> QED  BY <1>1, <1>6, <1>7, <1>8, <1>9, DropsSound

LEMMA SweepDeleteSound ==
  ASSUME LimiterInv, NEW a \in Addresses, SweepDelete(a)
  PROVE  /\ LimiterInv'
         /\ DOMAIN limiters' = DOMAIN limiters \ {a}
         /\ \A k \in DOMAIN limiters' : limiters'[k] = limiters[k]
         /\ \A i \in DOMAIN buckets' : buckets'[i] = buckets[i]
         /\ sweep'.full = {}
<1>1. /\ a \in sweep.full
      /\ limiters' = [k \in DOMAIN limiters \ {a} |-> limiters[k]]
      /\ buckets' = Kept(buckets, limiters', calls)
      /\ sweep' = [sweep EXCEPT !.full = {}]
      /\ UNCHANGED <<calls, arrived>>
  BY DEF SweepDelete
<1>2. /\ DOMAIN limiters' = DOMAIN limiters \ {a}
      /\ \A k \in DOMAIN limiters' : limiters'[k] = limiters[k]
  BY <1>1
<1>3. /\ sweep'.full = {} /\ sweep'.left = sweep.left /\ sweep'.on = sweep.on
      /\ sweep' \in [on : BOOLEAN, left : SUBSET Addresses,
                     full : SUBSET Addresses]
  BY <1>1 DEF LimiterInv, SweepTyped
<1>4. /\ DOMAIN buckets' = DOMAIN buckets \cap Live(limiters', calls)
      /\ \A i \in DOMAIN buckets' : buckets'[i] = buckets[i]
  <2> DEFINE kept == Kept(buckets, limiters', calls)
  <2>1. /\ DOMAIN kept = DOMAIN buckets \cap Live(limiters', calls)
        /\ \A k \in DOMAIN buckets \cap Live(limiters', calls) :
             kept[k] = buckets[k]
    BY KeptIs
  <2> HIDE DEF kept
  <2> QED  BY <1>1, <2>1 DEF kept
<1>5. DOMAIN buckets' = Live(limiters', calls')
  <2>1. Live(limiters', calls) \subseteq DOMAIN buckets
    BY <1>2, LiveTyped DEF Live
  <2> QED  BY <1>1, <1>4, <2>1
<1>6. LimiterTypeOK'
  <2>1. \A c \in calls' :
          (c.address \notin DOMAIN limiters'
             \/ limiters'[c.address] # c.bucket) => c.swept
    <3> SUFFICES ASSUME NEW c \in calls,
                        \/ c.address \notin DOMAIN limiters'
                        \/ limiters'[c.address] # c.bucket
                 PROVE  c.swept
      BY <1>1
    <3>1. CASE c.address = a
      BY <1>1, <3>1 DEF LimiterInv, SweptCalls
    <3>2. CASE c.address # a
      BY <1>2, <3>2 DEF LimiterInv, LimiterTypeOK
    <3> QED  BY <3>1, <3>2
  <2>2. \A i \in DOMAIN buckets' : i \in BucketIds /\ buckets'[i] \in 0..Full
    BY <1>4, LiveTyped
  <2>3. /\ DOMAIN limiters' \subseteq Addresses
        /\ sweep'.left \subseteq DOMAIN limiters'
    BY <1>1, <1>2, <1>3 DEF LimiterInv, LimiterTypeOK
  <2>4. sweep.on
    BY <1>1 DEF LimiterInv, LimiterTypeOK, Idle
  <2> QED
    BY <1>1, <1>3, <1>5, <2>1, <2>2, <2>3, <2>4
    DEF LimiterInv, LimiterTypeOK
<1>7. SweptCalls' /\ SweepTyped'
  BY <1>3 DEF SweptCalls, SweepTyped
<1>8. LimiterInv'
  BY <1>1, <1>2, <1>4, <1>6, <1>7, DropsSound
<1> QED  BY <1>2, <1>3, <1>4, <1>8

LEMMA SweepEndSound ==
  ASSUME LimiterInv, SweepEnd
  PROVE  LimiterInv'
<1>1. sweep' = Idle /\ UNCHANGED <<limiters, buckets, calls, arrived>>
  BY DEF SweepEnd
<1>2. LimiterTypeOK'
  BY <1>1 DEF LimiterInv, LimiterTypeOK, Idle
<1>3. SweptCalls' /\ SweepTyped'
  BY <1>1 DEF SweptCalls, SweepTyped, Idle
<1> QED  BY <1>1, <1>2, <1>3, DropsSound

LEMMA TickSound ==
  ASSUME LimiterInv, Tick
  PROVE  LimiterInv'
<1>1. /\ UNCHANGED <<limiters, calls, sweep, arrived>>
      /\ DOMAIN buckets' = DOMAIN buckets
      /\ \A i \in DOMAIN buckets :
           buckets'[i] = IF buckets[i] < Full THEN buckets[i] + 1 ELSE Full
  BY DEF Tick
<1>2. \A i \in DOMAIN buckets : i \in BucketIds /\ buckets'[i] \in 0..Full
  BY <1>1, LiveTyped
<1>3. LimiterTypeOK'
  BY <1>1, <1>2 DEF LimiterInv, LimiterTypeOK
<1>4. SweptCalls' /\ SweepTyped'
  BY <1>1 DEF LimiterInv, SweptCalls, SweepTyped
<1> QED  BY <1>1, <1>3, <1>4, DropsSound

LEMMA EmptySound ==
  ASSUME limiters = [a \in {} |-> 1], buckets = [i \in {} |-> 0],
         calls = {}, sweep = Idle, arrived = 0
  PROVE  LimiterInv
<1>1. LimiterTypeOK
  BY LimiterAssumption DEF LimiterTypeOK, Live, Idle
<1>2. Cardinality(DOMAIN buckets) = 0
  BY FS_EmptySet
<1> QED
  BY <1>1, <1>2
  DEF LimiterInv, OwnBuckets, BucketsLeft, SweptCalls, SweepTyped, Idle

-----------------------------------------------------------------------------
(* The steps as TokenBuckets sees them *)

(* The cleanup remembers at most one bucket as full.                       *)
OneFull == \A a, b \in sweep.full : a = b

Sees == LimiterInv /\ OneFull

(* Allow() takes a request's worth out of its address's bucket, or nothing *)
(* that TokenBuckets knows of.                                             *)
LEMMA AllowSeen ==
  ASSUME Sees, NEW c \in calls, Allow(c)
  PROVE  /\ c.address \in Addresses
         /\ \/ \A k \in Addresses : Found(k)' = Found(k)
            \/ /\ Found(c.address) >= Period
               /\ \A k \in Addresses :
                    Found(k)' = IF k = c.address THEN Found(k) - Period
                                ELSE Found(k)
<1>1. LimiterInv /\ limiters' = limiters /\ sweep' = sweep
  BY DEF Sees, Allow
<1>2. /\ DOMAIN buckets' = DOMAIN buckets \cap Live(limiters, calls')
      /\ \A i \in DOMAIN buckets' :
           buckets'[i] = IF i = c.bucket /\ buckets[i] >= Period
                         THEN buckets[i] - Period ELSE buckets[i]
  BY <1>1, AllowSound
<1>3. \A k \in DOMAIN limiters :
        /\ limiters[k] \in DOMAIN buckets'
        /\ limiters[k] = c.bucket => k = c.address
  <2>1. \A k \in DOMAIN limiters : limiters[k] \in Live(limiters, calls')
    BY DEF Live
  <2> QED  BY <1>1, <1>2, <2>1, LiveTyped DEF LimiterInv, OwnBuckets
<1>4. CASE /\ c.address \in DOMAIN limiters
           /\ c.address \notin sweep.full
           /\ limiters[c.address] = c.bucket
           /\ buckets[c.bucket] >= Period
  <2>1. Found(c.address) >= Period
    BY <1>4 DEF Found
  <2>2. ASSUME NEW k \in Addresses
        PROVE  Found(k)' = IF k = c.address THEN Found(k) - Period
                           ELSE Found(k)
    <3>1. CASE k = c.address
      BY <1>1, <1>2, <1>3, <1>4, <3>1 DEF Found
    <3>2. CASE k # c.address
      BY <1>1, <1>2, <1>3, <3>2 DEF Found
    <3> QED  BY <3>1, <3>2
  <2> QED  BY <1>1, <2>1, <2>2, LiveTyped
<1>5. CASE ~ /\ c.address \in DOMAIN limiters
             /\ c.address \notin sweep.full
             /\ limiters[c.address] = c.bucket
             /\ buckets[c.bucket] >= Period
  <2>1. ASSUME NEW k \in Addresses
        PROVE  Found(k)' = Found(k)
    <3>1. CASE k \in DOMAIN limiters /\ k \notin sweep.full
      <4>1. ~(limiters[k] = c.bucket /\ buckets[limiters[k]] >= Period)
        BY <1>3, <1>5, <3>1
      <4> QED  BY <1>1, <1>2, <1>3, <3>1, <4>1 DEF Found
    <3>2. CASE ~(k \in DOMAIN limiters /\ k \notin sweep.full)
      BY <1>1, <3>2 DEF Found
    <3> QED  BY <3>1, <3>2
  <2> QED  BY <1>1, <2>1, LiveTyped
<1> QED  BY <1>4, <1>5

(* A bucket found full counts as deleted at once.                          *)
LEMMA SweepSeen ==
  ASSUME Sees, Sweep
  PROVE  /\ Sees'
         /\ \A k \in Addresses : Found(k)' = Found(k)
<1> USE DEF Sees
<1>1. CASE SweepStart
  <2>1. /\ UNCHANGED <<limiters, buckets>>
        /\ sweep.full = {} /\ sweep'.full = {}
    BY <1>1 DEF SweepStart, LimiterInv, LimiterTypeOK, Idle
  <2> QED  BY <1>1, <2>1, SweepStartSound DEF Found, OneFull
<1>2. CASE SweepEnd
  <2>1. /\ UNCHANGED <<limiters, buckets>>
        /\ sweep.full = {} /\ sweep'.full = {}
    BY <1>2 DEF SweepEnd, Idle
  <2> QED  BY <1>2, <2>1, SweepEndSound DEF Found, OneFull
<1>3. ASSUME NEW a \in Addresses, SweepLook(a)
      PROVE  Sees' /\ \A k \in Addresses : Found(k)' = Found(k)
  <2>1. /\ UNCHANGED <<limiters, buckets>> /\ sweep.full = {}
        /\ sweep' = [sweep EXCEPT !.left = @ \ {a},
                       !.full = IF buckets[limiters[a]] = Full
                                THEN {a} ELSE {}]
        /\ a \in DOMAIN limiters
    BY <1>3 DEF SweepLook, Looks, LimiterInv, LimiterTypeOK
  <2>2. sweep'.full = IF buckets[limiters[a]] = Full THEN {a} ELSE {}
    BY <2>1 DEF LimiterInv, SweepTyped
  <2> QED  BY <1>3, <2>1, <2>2, SweepLookSound DEF Found, OneFull
<1>4. ASSUME NEW a \in Addresses, SweepDelete(a)
      PROVE  Sees' /\ \A k \in Addresses : Found(k)' = Found(k)
  <2>1. /\ LimiterInv' /\ sweep'.full = {}
        /\ DOMAIN limiters' = DOMAIN limiters \ {a}
        /\ \A k \in DOMAIN limiters' : limiters'[k] = limiters[k]
        /\ \A i \in DOMAIN buckets' : buckets'[i] = buckets[i]
    BY <1>4, SweepDeleteSound
  <2>2. a \in sweep.full /\ \A k \in sweep.full : k = a
    BY <1>4 DEF SweepDelete, OneFull
  <2>3. \A k \in DOMAIN limiters' : limiters'[k] \in DOMAIN buckets'
    BY <2>1 DEF LimiterInv, LimiterTypeOK, Live
  <2>4. OneFull'
    BY <2>1 DEF OneFull
  <2> QED  BY <2>1, <2>2, <2>3, <2>4 DEF Found
<1> QED  BY <1>1, <1>2, <1>3, <1>4 DEF Sweep

LEMMA TickSeen ==
  ASSUME Sees, Tick
  PROVE  \A k \in Addresses : Found(k)' = Promise!Filled(Found(k))
<1>1. /\ UNCHANGED <<limiters, sweep>>
      /\ \A i \in DOMAIN buckets :
           buckets'[i] = IF buckets[i] < Full THEN buckets[i] + 1 ELSE Full
  BY DEF Tick
<1>2. /\ \A a \in DOMAIN limiters : limiters[a] \in DOMAIN buckets
      /\ Full \in Nat
  BY LiveTyped DEF Sees
<1>3. \A t : Promise!Filled(t) = IF t < Full THEN t + 1 ELSE Full
  BY DEF Promise!Filled, Promise!Full, Full
<1> QED  BY <1>1, <1>2, <1>3 DEF Found

-----------------------------------------------------------------------------
(* The server around it *)

(* A process that does not serve has no buckets.                           *)
ServerInv ==
  Sees /\ (main.at # "serve" => calls = {} /\ DOMAIN limiters = {})

LEMMA ServerInitSound ==
  ASSUME Init
  PROVE  ServerInv
<1>1. LimiterInit
  BY DEF Init
<1>2. calls = {} /\ DOMAIN limiters = {} /\ sweep.full = {}
  BY <1>1 DEF LimiterInit, Idle
<1>3. LimiterInv
  BY <1>1, EmptySound DEF LimiterInit
<1> QED  BY <1>2, <1>3 DEF ServerInv, Sees, OneFull

(* Nothing but Stop ends serving.                                          *)
LEMMA ServesOn ==
  ASSUME StartupNext, main.at = "serve"
  PROVE  main' = main
<1> QED
  BY DEF StartupNext, Start, Connect, LoadApplied, Migrate, MigrateFails,
         RecordMigration, SeedPermission, FindAdmin, CreateAdmin,
         ReplacePermissions, NewMarket, ChangeAdminPassword

LEMMA StartingSeen ==
  ASSUME ServerInv, Starting
  PROVE  /\ ServerInv' /\ [Promise!TBNext]_(Promise!TBvars)
<1>1. UNCHANGED <<limiters, buckets, calls, sweep, arrived>>
  BY DEF Starting, limiterVars
<1>2. \A k \in Addresses : Found(k)' = Found(k)
  BY <1>1 DEF Found
<1>3. Sees'
  BY <1>1 DEF ServerInv, Sees, LimiterInv, LimiterTypeOK, OwnBuckets,
              BucketsLeft, SweptCalls, SweepTyped, OneFull
<1>4. CASE main.at = "serve"
  <2>1. main' = main
    BY <1>4, ServesOn DEF Starting
  <2> QED  BY <1>1, <1>2, <1>3, <2>1 DEF ServerInv, Promise!TBvars
<1>5. CASE main.at # "serve"
  <2>1. calls' = {} /\ DOMAIN limiters' = {}
    BY <1>1, <1>5 DEF ServerInv
  <2>2. ServerInv'
    BY <1>3, <2>1 DEF ServerInv
  <2>3. CASE main'.at # "serve"
    BY <1>2, <1>5, <2>2, <2>3 DEF Promise!TBvars
  <2>4. CASE main'.at = "serve"
    <3>1. \A k \in Addresses : Found(k)' = Full
      BY <2>1 DEF Found
    <3>2. Promise!TBRestart
      BY <1>5, <2>4, <3>1
      DEF Promise!TBRestart, Promise!AllFull, Promise!Full, Full
    <3> QED  BY <2>2, <3>2 DEF Promise!TBNext
  <2> QED  BY <2>3, <2>4
<1> QED  BY <1>4, <1>5

LEMMA LimitingSeen ==
  ASSUME ServerInv, Limiting
  PROVE  /\ ServerInv' /\ [Promise!TBNext]_(Promise!TBvars)
<1>1. /\ main.at = "serve" /\ main' = main /\ LimiterNext
      /\ Sees /\ LimiterInv
  BY DEF Limiting, startupVars, ServerInv, Sees
<1>2. Sees' => ServerInv'
  BY <1>1 DEF ServerInv
<1>3. ASSUME \A k \in Addresses : Found(k)' = Found(k)
      PROVE  UNCHANGED (Promise!TBvars)
  BY <1>1, <1>3 DEF Promise!TBvars
<1>4. ASSUME NEW a \in Addresses, GetLimiter(a)
      PROVE  ServerInv' /\ [Promise!TBNext]_(Promise!TBvars)
  <2>1. /\ LimiterInv' /\ sweep' = Idle
        /\ \A k \in Addresses : Found(k)' = Found(k)
    BY <1>1, <1>4, GetLimiterSound
  <2>2. Sees'
    BY <2>1 DEF Sees, OneFull, Idle
  <2> QED  BY <1>2, <1>3, <2>1, <2>2
<1>5. ASSUME NEW c \in calls, Allow(c)
      PROVE  ServerInv' /\ [Promise!TBNext]_(Promise!TBvars)
  <2>1. LimiterInv'
    BY <1>1, <1>5, AllowSound
  <2>2. Sees'
    BY <1>1, <1>5, <2>1 DEF Sees, OneFull, Allow
  <2>3. /\ c.address \in Addresses
        /\ \/ \A k \in Addresses : Found(k)' = Found(k)
           \/ /\ Found(c.address) >= Period
              /\ \A k \in Addresses :
                   Found(k)' = IF k = c.address THEN Found(k) - Period
                               ELSE Found(k)
    BY <1>1, <1>5, AllowSeen
  <2>4. CASE \A k \in Addresses : Found(k)' = Found(k)
    BY <1>2, <1>3, <2>2, <2>4
  <2>5. CASE /\ Found(c.address) >= Period
             /\ \A k \in Addresses :
                  Found(k)' = IF k = c.address THEN Found(k) - Period
                              ELSE Found(k)
    <3>1. Promise!TBServe(c.address)
      BY <1>1, <2>3, <2>5 DEF Promise!TBServe
    <3> QED  BY <1>2, <2>2, <2>3, <3>1 DEF Promise!TBNext
  <2> QED  BY <2>3, <2>4, <2>5
<1>6. CASE Sweep
  BY <1>1, <1>2, <1>3, <1>6, SweepSeen
<1>7. CASE Tick
  <2>1. Sees'
    BY <1>1, <1>7, TickSound DEF Sees, OneFull, Tick
  <2>2. Promise!TBTick
    BY <1>1, <1>7, TickSeen DEF Promise!TBTick
  <2> QED  BY <1>2, <2>1, <2>2 DEF Promise!TBNext
<1> QED  BY <1>1, <1>4, <1>5, <1>6, <1>7 DEF LimiterNext

LEMMA EndingSeen ==
  ASSUME ServerInv, Ending
  PROVE  /\ ServerInv' /\ [Promise!TBNext]_(Promise!TBvars)
<1>1. Stop /\ Forget
  BY DEF Ending
<1>2. main'.at = "down"
  BY <1>1 DEF Stop, Goes, Down
<1>3. /\ limiters' = [a \in {} |-> 1] /\ buckets' = [i \in {} |-> 0]
      /\ calls' = {} /\ sweep' = Idle /\ arrived' = 0
  BY <1>1 DEF Forget
<1>4. LimiterInv'
  <2>1. Cardinality(DOMAIN buckets') = 0
    BY <1>3, FS_EmptySet
  <2> QED
    BY <1>3, <2>1, LimiterAssumption
    DEF LimiterInv, LimiterTypeOK, OwnBuckets, BucketsLeft, SweptCalls,
        SweepTyped, Live, Idle
<1>5. ServerInv'
  BY <1>3, <1>4 DEF ServerInv, Sees, OneFull, Idle
<1>6. \A k \in Addresses : Found(k)' = Full
  BY <1>3 DEF Found
<1>7. CASE main.at = "serve"
  <2>1. Promise!TBRestart
    BY <1>2, <1>6, <1>7
    DEF Promise!TBRestart, Promise!AllFull, Promise!Full, Full
  <2> QED  BY <1>5, <2>1 DEF Promise!TBNext
<1>8. CASE main.at # "serve"
  <2>1. \A k \in Addresses : Found(k) = Full
    BY <1>8 DEF ServerInv, Found
  <2> QED  BY <1>2, <1>5, <1>6, <1>8, <2>1 DEF Promise!TBvars
<1> QED  BY <1>7, <1>8

LEMMA ServerStep ==
  ASSUME ServerInv, [Next]_vars
  PROVE  ServerInv' /\ [Promise!TBNext]_(Promise!TBvars)
<1>1. CASE Starting
  BY <1>1, StartingSeen
<1>2. CASE Limiting
  BY <1>2, LimitingSeen
<1>3. CASE Ending
  BY <1>3, EndingSeen
<1>4. CASE UNCHANGED vars
  <2>1. /\ main' = main
        /\ UNCHANGED <<limiters, buckets, calls, sweep, arrived>>
    BY <1>4 DEF vars, startupVars, limiterVars
  <2>2. ServerInv'
    BY <2>1
    DEF ServerInv, Sees, LimiterInv, LimiterTypeOK, OwnBuckets,
        BucketsLeft, SweptCalls, SweepTyped, OneFull
  <2>3. UNCHANGED (Promise!TBvars)
    BY <2>1 DEF Promise!TBvars, Found
  <2> QED  BY <2>2, <2>3
<1> QED  BY <1>1, <1>2, <1>3, <1>4 DEF Next

LEMMA ServerInvariant == Init /\ [][Next]_vars => []ServerInv
<1>1. Init => ServerInv
  BY ServerInitSound
<1>2. ServerInv /\ [Next]_vars => ServerInv'
  BY ServerStep
<1> QED  BY <1>1, <1>2, PTL

-----------------------------------------------------------------------------
(* Whatever the clients send and whenever the cleanup runs, the map of     *)
(* buckets (GetLimiter, cleanupRoutine of security/ratelimit.go) lets      *)
(* through what one bucket for each address would, and only a restart of   *)
(* the server refills them: for every set of addresses, burst, rate and    *)
(* number of requests.                                                     *)
THEOREM LimiterImplementsBuckets == Spec => ImplementsBuckets
<1>1. Init => Promise!TBInit
  <2> SUFFICES ASSUME Init
               PROVE  Promise!TBInit
    OBVIOUS
  <2>1. main.at = "down" /\ DOMAIN limiters = {}
    BY DEF Init, StartupInit, LimiterInit, Down
  <2> QED
    BY <2>1 DEF Promise!TBInit, Promise!AllFull, Promise!Full, Full, Found
<1>2. ServerInv /\ [Next]_vars => [Promise!TBNext]_(Promise!TBvars)
  BY ServerStep
<1>3. Init /\ [][Next]_vars => Promise!TBSpec
  BY <1>1, <1>2, ServerInvariant, PTL DEF Promise!TBSpec
<1> QED  BY <1>3 DEF Spec, ImplementsBuckets

-----------------------------------------------------------------------------
(* The start: the inductive invariant, the database *)

(* A text of a column that exists is there, if perhaps blank.              *)
TextsExist ==
  \A m \in DOMAIN markets, c \in TextColumns \cap schema :
    markets[m][c] # "none"

OldVersion == "old" \in DOMAIN markets

(* The old column is not dropped before its holders have their             *)
(* permissions, and migration 4 is not recorded before it is dropped.      *)
RightsMoved ==
  OldVersion /\ ~lost =>
    /\ "user_type" \notin schema => boss = Permissions
    /\ 4 \in recorded => boss = Permissions

(* Only an admin can have a password of his own.                           *)
OwnerExists == admin.password = "own" => admin.exists

DatabaseInv == TextsExist /\ RightsMoved /\ OwnerExists /\ RecordedIsApplied

-----------------------------------------------------------------------------
(* The start: the inductive invariant, the process *)

(* A migration runs after all before it are on record.                     *)
InOrder ==
  /\ main.at \in {"up", "record"} =>
       /\ main.id \in Ids /\ main.step \in DOMAIN Up[main.id]
       /\ main.applied \subseteq recorded
       /\ \A i \in Ids : i < main.id => i \in recorded
  /\ main.at = "seed" => main.step > 0

(* What a statement that has run leaves; no later one takes it back.       *)
Done(s) ==
  /\ s.do = "create" => Makes(s.what) \subseteq schema
  /\ s.do = "fill" => \A m \in DOMAIN markets :
                        markets[m][s.what] \notin {"none", "blank"}

StatementsDone ==
  /\ main.at = "up" =>
       \A k \in DOMAIN Up[main.id] : k < main.step => Done(Up[main.id][k])
  /\ main.at = "record" =>
       \A k \in DOMAIN Up[main.id] : Done(Up[main.id][k])

(* What one that moves rights leaves, if it had a column to move them      *)
(* from and did not fail.                                                  *)
Moved(s) ==
  /\ s.do = "has" => main.typed
  /\ s.do = "find" => main.found
  /\ s.do = "grant" => s.what \in boss

RightsMoving ==
  OldVersion /\ ~lost /\ "user_type" \in schema =>
    /\ main.at = "up" => \A k \in DOMAIN Up[main.id] :
                           k < main.step => Moved(Up[main.id][k])
    /\ main.at = "record" => main.id # 4

(* As long as nothing failed in this start.                                *)
CleanSoFar ==
  main.clean =>
    /\ main.at \in {"seed", "insert", "replace", "serve"} => recorded = Ids
    /\ main.at = "seed" => \A k \in DOMAIN PermissionList :
         k < main.step => PermissionList[k] \in names \cap main.listed
    /\ main.at \in {"insert", "replace"} => main.listed = Permissions
    /\ main.at \in {"insert", "replace", "serve"} => names = Permissions
    /\ main.at = "replace" => main.known
    /\ main.at \in {"replace", "serve"} => admin.exists
    /\ main.at = "serve" => admin.perms = Permissions

ProcessInv == InOrder /\ StatementsDone /\ RightsMoving /\ CleanSoFar

StartupInv == StartupTypeOK /\ DatabaseInv /\ ProcessInv

-----------------------------------------------------------------------------
(* Lemmas about the migrations *)

(* The list has each permission.                                           *)
LEMMA PermissionsListed ==
  /\ PermissionList \in Seq(Permissions) /\ Len(PermissionList) \in Nat
  /\ DOMAIN PermissionList = 1..Len(PermissionList)
  /\ \A p \in Permissions :
       \E k \in DOMAIN PermissionList : PermissionList[k] = p
<1> DEFINE n == Cardinality(Permissions)
           fs == {f \in [1..n -> Permissions] : IsInjective(f)}
<1>1. n \in Nat /\ ExistsBijection(1..n, Permissions)
  BY StartupAssumption, FS_CardinalityType
<1>2. \E f \in [1..n -> Permissions] : IsInjective(f)
  BY <1>1 DEF ExistsBijection, Bijection, Injection
<1>3. PermissionList = CHOOSE f \in [1..n -> Permissions] : IsInjective(f)
  BY DEF PermissionList, SetToSeq
<1>4. PermissionList \in Injection(1..n, Permissions)
  BY <1>2, <1>3 DEF Injection
<1>5. IsFiniteSet(1..n) /\ Cardinality(1..n) = n
  BY <1>1, FS_Interval
<1>6. PermissionList \in Surjection(1..n, Permissions)
  BY <1>4, <1>5, StartupAssumption, FS_Injection
<1>7. PermissionList \in [1..n -> Permissions]
  BY <1>4 DEF Injection
<1> HIDE DEF n
<1>8. PermissionList \in Seq(Permissions) /\ Len(PermissionList) = n
  BY <1>1, <1>7
<1> QED  BY <1>1, <1>6, <1>7, <1>8 DEF Surjection

Statements ==
  {Create("permissions"), Create("user_permissions"), HasUserType,
   FindAdmins, DropUserType}
    \cup {Row(p) : p \in Permissions} \cup {Grant(p) : p \in Permissions}

(* Where the fourth migration has what.                                    *)
LEMMA PermissionsLayout ==
  LET n == Len(PermissionList)
      up == AddPermissions
  IN  /\ up \in Seq(Statements) /\ Len(up) = 5 + 2 * n
      /\ up[1] = Create("permissions") /\ up[2] = Create("user_permissions")
      /\ \A k \in 1..n : up[2 + k] = Row(PermissionList[k])
      /\ up[3 + n] = HasUserType /\ up[4 + n] = FindAdmins
      /\ \A k \in 1..n : up[4 + n + k] = Grant(PermissionList[k])
      /\ up[5 + 2 * n] = DropUserType
<1> DEFINE n == Len(PermissionList)
           s1 == <<Create("permissions"), Create("user_permissions")>>
           s2 == Each(Row, PermissionList)
           s3 == <<HasUserType, FindAdmins>>
           s4 == Each(Grant, PermissionList)
           s5 == <<DropUserType>>
<1>1. n \in Nat /\ \A k \in 1..n : PermissionList[k] \in Permissions
  BY PermissionsListed, ElementOfSeq
<1>2. /\ s1 \in Seq(Statements) /\ Len(s1) = 2
      /\ s1[1] = Create("permissions") /\ s1[2] = Create("user_permissions")
  BY DEF Statements
<1>3. /\ s2 \in Seq(Statements) /\ Len(s2) = n
      /\ \A k \in 1..n : s2[k] = Row(PermissionList[k])
  <2>1. s2 = [k \in 1..n |-> Row(PermissionList[k])]
    BY PermissionsListed DEF Each
  <2>2. \A k \in 1..n : Row(PermissionList[k]) \in Statements
    BY <1>1 DEF Statements
  <2>3. s2 \in [1..n -> Statements]
    BY <2>1, <2>2
  <2> HIDE DEF n, s2
  <2> QED  BY <1>1, <2>1, <2>3
<1>4. /\ s3 \in Seq(Statements) /\ Len(s3) = 2
      /\ s3[1] = HasUserType /\ s3[2] = FindAdmins
  BY DEF Statements
<1>5. /\ s4 \in Seq(Statements) /\ Len(s4) = n
      /\ \A k \in 1..n : s4[k] = Grant(PermissionList[k])
  <2>1. s4 = [k \in 1..n |-> Grant(PermissionList[k])]
    BY PermissionsListed DEF Each
  <2>2. \A k \in 1..n : Grant(PermissionList[k]) \in Statements
    BY <1>1 DEF Statements
  <2>3. s4 \in [1..n -> Statements]
    BY <2>1, <2>2
  <2> HIDE DEF n, s4
  <2> QED  BY <1>1, <2>1, <2>3
<1>6. s5 \in Seq(Statements) /\ Len(s5) = 1 /\ s5[1] = DropUserType
  BY DEF Statements
<1>7. AddPermissions = s1 \o s2 \o s3 \o s4 \o s5
  BY DEF AddPermissions
<1> HIDE DEF n, s1, s2, s3, s4, s5
<1> DEFINE s12 == s1 \o s2
           s123 == s12 \o s3
           s1234 == s123 \o s4
           up == s1234 \o s5
<1>8. /\ s12 \in Seq(Statements) /\ Len(s12) = 2 + n
      /\ \A i \in 1..(2 + n) :
           s12[i] = IF i <= 2 THEN s1[i] ELSE s2[i - 2]
  <2>1. /\ s1 \o s2 \in Seq(Statements)
        /\ Len(s1 \o s2) = Len(s1) + Len(s2)
        /\ \A i \in 1..(Len(s1) + Len(s2)) :
             (s1 \o s2)[i] =
               IF i <= Len(s1) THEN s1[i] ELSE s2[i - Len(s1)]
    BY <1>2, <1>3, ConcatProperties
  <2>2. s12 = s1 \o s2
    BY DEF s12
  <2> HIDE DEF s12
  <2> QED  BY <1>1, <1>2, <1>3, <2>1, <2>2
<1> HIDE DEF s12
<1>9. /\ s123 \in Seq(Statements) /\ Len(s123) = 4 + n
      /\ \A i \in 1..(4 + n) :
           s123[i] = IF i <= 2 + n THEN s12[i] ELSE s3[i - (2 + n)]
  <2>1. (2 + n) + 2 = 4 + n
    BY <1>1
  <2>2. /\ s12 \o s3 \in Seq(Statements)
        /\ Len(s12 \o s3) = Len(s12) + Len(s3)
        /\ \A i \in 1..(Len(s12) + Len(s3)) :
             (s12 \o s3)[i] =
               IF i <= Len(s12) THEN s12[i] ELSE s3[i - Len(s12)]
    BY <1>8, <1>4, ConcatProperties
  <2>3. s123 = s12 \o s3
    BY DEF s123
  <2> HIDE DEF s123
  <2> QED  BY <1>1, <1>8, <1>4, <2>1, <2>2, <2>3
<1> HIDE DEF s123
<1>10. /\ s1234 \in Seq(Statements) /\ Len(s1234) = 4 + 2 * n
       /\ \A i \in 1..(4 + 2 * n) :
            s1234[i] = IF i <= 4 + n THEN s123[i] ELSE s4[i - (4 + n)]
  <2>1. (4 + n) + n = 4 + 2 * n
    BY <1>1
  <2>2. /\ s123 \o s4 \in Seq(Statements)
        /\ Len(s123 \o s4) = Len(s123) + Len(s4)
        /\ \A i \in 1..(Len(s123) + Len(s4)) :
             (s123 \o s4)[i] =
               IF i <= Len(s123) THEN s123[i] ELSE s4[i - Len(s123)]
    BY <1>9, <1>5, ConcatProperties
  <2>3. s1234 = s123 \o s4
    BY DEF s1234
  <2> HIDE DEF s1234
  <2> QED  BY <1>1, <1>9, <1>5, <2>1, <2>2, <2>3
<1> HIDE DEF s1234
<1>11. /\ up \in Seq(Statements) /\ Len(up) = 5 + 2 * n
       /\ \A i \in 1..(5 + 2 * n) :
            up[i] = IF i <= 4 + 2 * n THEN s1234[i] ELSE s5[i - (4 + 2 * n)]
  <2>1. (4 + 2 * n) + 1 = 5 + 2 * n
    BY <1>1
  <2>2. /\ s1234 \o s5 \in Seq(Statements)
        /\ Len(s1234 \o s5) = Len(s1234) + Len(s5)
        /\ \A i \in 1..(Len(s1234) + Len(s5)) :
             (s1234 \o s5)[i] =
               IF i <= Len(s1234) THEN s1234[i] ELSE s5[i - Len(s1234)]
    BY <1>10, <1>6, ConcatProperties
  <2>3. up = s1234 \o s5
    BY DEF up
  <2> HIDE DEF up
  <2> QED  BY <1>1, <1>10, <1>6, <2>1, <2>2, <2>3
<1>12. AddPermissions = up
  BY <1>7 DEF s12, s123, s1234
<1> HIDE DEF up
<1>13. \A i \in 1..(4 + n) : up[i] = s123[i]
  BY <1>1, <1>10, <1>11
<1>14. \A i \in 1..(2 + n) : up[i] = s12[i]
  BY <1>1, <1>9, <1>13
<1>15. /\ up[1] = Create("permissions")
       /\ up[2] = Create("user_permissions")
  BY <1>1, <1>2, <1>8, <1>14
<1>16. ASSUME NEW k \in 1..n
       PROVE  up[2 + k] = Row(PermissionList[k])
  <2>1. 2 + k \in 1..(2 + n) /\ ~(2 + k <= 2) /\ (2 + k) - 2 = k
    BY <1>1
  <2> QED  BY <1>3, <1>8, <1>14, <2>1
<1>17. up[3 + n] = HasUserType
  <2>1. 3 + n \in 1..(4 + n) /\ ~(3 + n <= 2 + n) /\ (3 + n) - (2 + n) = 1
    BY <1>1
  <2> QED  BY <1>4, <1>9, <1>13, <2>1
<1>18. up[4 + n] = FindAdmins
  <2>1. 4 + n \in 1..(4 + n) /\ ~(4 + n <= 2 + n) /\ (4 + n) - (2 + n) = 2
    BY <1>1
  <2> QED  BY <1>4, <1>9, <1>13, <2>1
<1>19. ASSUME NEW k \in 1..n
       PROVE  up[4 + n + k] = Grant(PermissionList[k])
  <2>1. /\ 4 + n + k \in 1..(5 + 2 * n) /\ 4 + n + k <= 4 + 2 * n
        /\ 4 + n + k \in 1..(4 + 2 * n)
        /\ ~(4 + n + k <= 4 + n) /\ (4 + n + k) - (4 + n) = k
    BY <1>1
  <2> QED  BY <1>5, <1>10, <1>11, <2>1
<1>20. up[5 + 2 * n] = DropUserType
  <2>1. /\ 5 + 2 * n \in 1..(5 + 2 * n) /\ ~(5 + 2 * n <= 4 + 2 * n)
        /\ (5 + 2 * n) - (4 + 2 * n) = 1
    BY <1>1
  <2> QED  BY <1>6, <1>11, <2>1
<1> QED
  BY <1>11, <1>12, <1>15, <1>16, <1>17, <1>18, <1>19, <1>20 DEF n

LEMMA UpIs ==
  /\ Ids = 1..5
  /\ Up[1] = CoreModels /\ Up[2] = AddMarketLabels
  /\ Up[3] = AddMarketCategory /\ Up[4] = AddPermissions
  /\ Up[5] = AddMarketImage
BY DEF Ids, Up

LEMMA UpShape ==
  ASSUME NEW id \in Ids
  PROVE  /\ Len(Up[id]) \in Nat \ {0}
         /\ DOMAIN Up[id] = 1..Len(Up[id])
<1>1. CASE id = 4
  <2>1. /\ AddPermissions \in Seq(Statements)
        /\ Len(AddPermissions) = 5 + 2 * Len(PermissionList)
        /\ Len(PermissionList) \in Nat
    BY PermissionsLayout, PermissionsListed
  <2> QED  BY <1>1, <2>1, UpIs, LenProperties
<1>2. CASE id # 4
  <2>1. id \in {1, 2, 3, 5}
    BY <1>2, UpIs
  <2> QED
    BY <2>1, UpIs
    DEF CoreModels, AddMarketLabels, AddMarketCategory, AddMarketImage
<1> QED  BY <1>1, <1>2

(* A statement of the fourth migration.                                    *)
LEMMA PermissionsKinds ==
  ASSUME NEW k \in DOMAIN AddPermissions
  PROVE  LET s == AddPermissions[k]
             n == Len(PermissionList)
         IN  \/ k <= 2 /\ s = Create("permissions")
             \/ k <= 2 /\ s = Create("user_permissions")
             \/ k > 2 /\ k < 3 + n /\ \E p \in Permissions : s = Row(p)
             \/ k = 3 + n /\ s = HasUserType
             \/ k = 4 + n /\ s = FindAdmins
             \/ /\ k > 4 + n /\ k < 5 + 2 * n
                /\ \E p \in Permissions : s = Grant(p)
             \/ k = 5 + 2 * n /\ s = DropUserType
<1> DEFINE n == Len(PermissionList)
<1>1. n \in Nat /\ \A j \in 1..n : PermissionList[j] \in Permissions
  BY PermissionsListed, ElementOfSeq
<1>2. k \in 1..(5 + 2 * n)
  BY UpIs, UpShape, PermissionsLayout
<1>3. CASE k > 2 /\ k < 3 + n
  <2>1. k - 2 \in 1..n /\ 2 + (k - 2) = k
    BY <1>1, <1>2, <1>3
  <2>2. AddPermissions[k] = Row(PermissionList[k - 2])
    BY <2>1, PermissionsLayout
  <2> QED  BY <1>1, <1>3, <2>1, <2>2
<1>4. CASE k > 4 + n /\ k < 5 + 2 * n
  <2>1. k - (4 + n) \in 1..n /\ 4 + n + (k - (4 + n)) = k
    BY <1>1, <1>2, <1>4
  <2>2. AddPermissions[k] = Grant(PermissionList[k - (4 + n)])
    BY <2>1, PermissionsLayout
  <2> QED  BY <1>1, <1>4, <2>1, <2>2
<1>5. CASE k = 1 \/ k = 2
  BY <1>5, PermissionsLayout
<1>6. CASE k \in {3 + n, 4 + n, 5 + 2 * n}
  BY <1>6, PermissionsLayout
<1>7. \/ k = 1 \/ k = 2 \/ (k > 2 /\ k < 3 + n) \/ k = 3 + n \/ k = 4 + n
      \/ (k > 4 + n /\ k < 5 + 2 * n) \/ k = 5 + 2 * n
  BY <1>1, <1>2
<1> QED  BY <1>3, <1>4, <1>5, <1>6, <1>7

(* The tables and columns that AutoMigrate is called for.                  *)
Created == {"users", "markets", "bets"} \cup Complete

LEMMA CompleteIs ==
  Complete = {"users", "markets", "bets", "yes_label", "no_label",
              "category", "permissions", "user_permissions", "image_url"}
BY UpIs DEF Complete, Made

LEMMA MakesIs ==
  ASSUME NEW x \in Created
  PROVE  /\ x \in Makes(x) /\ Makes(x) \subseteq Complete
         /\ "user_type" \notin Makes(x)
         /\ Makes(x) \cap TextColumns # {} =>
              "markets" \in Makes(x) \/ x \in TextColumns
BY CompleteIs DEF Created, Makes, TextColumns

(* What the statements are, and what they find done when they run.         *)
LEMMA StatementKinds ==
  ASSUME NEW id \in Ids, NEW k \in DOMAIN Up[id]
  PROVE  LET s == Up[id][k]
         IN  \/ \E x \in Created : /\ s = Create(x)
                                   /\ x \in TextColumns => id > 1
             \/ \E x \in TextColumns : /\ s = Fill(x)
                                       /\ \E j \in DOMAIN Up[id] :
                                            j < k /\ Up[id][j] = Create(x)
             \/ id = 4 /\ \E p \in Permissions : s = Row(p) \/ s = Grant(p)
             \/ id = 4 /\ s \in {HasUserType, FindAdmins, DropUserType}
<1>1. CASE id = 4
  <2>1. k \in DOMAIN AddPermissions /\ Up[id][k] = AddPermissions[k]
    BY <1>1, UpIs
  <2>2. {"permissions", "user_permissions"} \subseteq Created
    BY CompleteIs DEF Created
  <2> QED  BY <1>1, <2>1, <2>2, PermissionsKinds
<1>2. CASE id \in {1, 5}
  <2>1. \E x \in Created \ TextColumns : Up[id][k] = Create(x)
    BY <1>2, UpIs, CompleteIs
    DEF CoreModels, AddMarketImage, Created, TextColumns
  <2> QED  BY <2>1
<1>3. CASE id = 2
  <2>1. /\ Up[id] = AddMarketLabels /\ k \in 1..4 /\ DOMAIN Up[id] = 1..4
        /\ Up[id][1] = Create("yes_label") /\ Up[id][2] = Create("no_label")
        /\ Up[id][3] = Fill("yes_label") /\ Up[id][4] = Fill("no_label")
    BY <1>3, UpIs DEF AddMarketLabels
  <2>2. /\ {"yes_label", "no_label"} \subseteq Created
        /\ {"yes_label", "no_label"} \subseteq TextColumns
    BY CompleteIs DEF Created, TextColumns
  <2> QED  BY <1>3, <2>1, <2>2
<1>4. CASE id = 3
  <2>1. /\ k \in 1..2 /\ DOMAIN Up[id] = 1..2
        /\ Up[id][1] = Create("category") /\ Up[id][2] = Fill("category")
    BY <1>4, UpIs DEF AddMarketCategory
  <2>2. "category" \in Created /\ "category" \in TextColumns
    BY CompleteIs DEF Created, TextColumns
  <2> QED  BY <1>4, <2>1, <2>2
<1> QED  BY <1>1, <1>2, <1>3, <1>4, UpIs

Fits(id, k, s) ==
  /\ s.do \in {"create", "fill", "row", "has", "find", "grant", "drop"}
  /\ s.do = "create" => /\ s.what \in Created
                        /\ s.what \in TextColumns => id > 1
  /\ s.do = "fill" => /\ s.what \in TextColumns
                      /\ \E j \in DOMAIN Up[id] :
                           j < k /\ Up[id][j] = Create(s.what)
  /\ s.do \in {"row", "grant"} => s.what \in Permissions
  /\ s.do \in {"has", "find", "drop"} => s.what = "user_type"
  /\ s.do \notin {"create", "fill"} => id = 4

LEMMA StatementFits ==
  ASSUME NEW id \in Ids, NEW k \in DOMAIN Up[id]
  PROVE  Fits(id, k, Up[id][k])
<1> SUFFICES ASSUME NEW s, s = Up[id][k]
             PROVE  Fits(id, k, s)
  OBVIOUS
<1>1. /\ \A x : /\ Create(x).do = "create" /\ Create(x).what = x
                /\ Fill(x).do = "fill" /\ Fill(x).what = x
                /\ Row(x).do = "row" /\ Row(x).what = x
                /\ Grant(x).do = "grant" /\ Grant(x).what = x
      /\ HasUserType.do = "has" /\ HasUserType.what = "user_type"
      /\ FindAdmins.do = "find" /\ FindAdmins.what = "user_type"
      /\ DropUserType.do = "drop" /\ DropUserType.what = "user_type"
  BY DEF Create, Fill, Row, Grant, HasUserType, FindAdmins, DropUserType
<1>2. \/ \E x \in Created : s = Create(x) /\ (x \in TextColumns => id > 1)
      \/ \E x \in TextColumns : /\ s = Fill(x)
                                /\ \E j \in DOMAIN Up[id] :
                                     j < k /\ Up[id][j] = Create(x)
      \/ id = 4 /\ \E p \in Permissions : s = Row(p) \/ s = Grant(p)
      \/ id = 4 /\ s \in {HasUserType, FindAdmins, DropUserType}
  BY StatementKinds
<1>3. CASE \E x \in Created : s = Create(x) /\ (x \in TextColumns => id > 1)
  BY <1>1, <1>3 DEF Fits
<1>4. CASE \E x \in TextColumns : /\ s = Fill(x)
                                  /\ \E j \in DOMAIN Up[id] :
                                       j < k /\ Up[id][j] = Create(x)
  BY <1>1, <1>4 DEF Fits
<1>5. CASE id = 4 /\ \E p \in Permissions : s = Row(p) \/ s = Grant(p)
  BY <1>1, <1>5 DEF Fits
<1>6. CASE id = 4 /\ s \in {HasUserType, FindAdmins, DropUserType}
  BY <1>1, <1>6 DEF Fits
<1> QED  BY <1>2, <1>3, <1>4, <1>5, <1>6

(* The order of the fourth migration.                                      *)
LEMMA RightsOrder ==
  /\ \A j, k \in DOMAIN Up[4] :
       /\ Up[4][k].do = "has" /\ j > k =>
            Up[4][j].do \in {"find", "grant", "drop"}
       /\ Up[4][k].do = "drop" => k = Len(Up[4])
  /\ Up[4][Len(Up[4])] = DropUserType
  /\ \A k \in DOMAIN Up[4] : Up[4][k].do = "grant" =>
       \E j \in DOMAIN Up[4] : j < k /\ Up[4][j].do = "find"
  /\ \A p \in Permissions : \E k \in DOMAIN Up[4] :
       k < Len(Up[4]) /\ Up[4][k] = Grant(p)
<1> DEFINE n == Len(PermissionList)
<1>1. n \in Nat /\ Len(Up[4]) = 5 + 2 * n /\ DOMAIN Up[4] = 1..(5 + 2 * n)
  BY UpIs, UpShape, PermissionsLayout, PermissionsListed
<1>2. /\ Create("permissions").do = "create"
      /\ Create("user_permissions").do = "create"
      /\ HasUserType.do = "has" /\ FindAdmins.do = "find"
      /\ DropUserType.do = "drop"
      /\ \A p : Row(p).do = "row" /\ Grant(p).do = "grant"
  BY DEF Create, HasUserType, FindAdmins, DropUserType, Row, Grant
<1>3. ASSUME NEW k \in DOMAIN Up[4]
      PROVE  /\ Up[4][k].do = "has" => k = 3 + n
             /\ Up[4][k].do = "drop" => k = 5 + 2 * n
             /\ Up[4][k].do = "grant" => k > 4 + n
             /\ k > 3 + n => Up[4][k].do \in {"find", "grant", "drop"}
  <2>1. k \in DOMAIN AddPermissions /\ Up[4][k] = AddPermissions[k]
    BY UpIs
  <2> QED  BY <1>1, <1>2, <2>1, PermissionsKinds
<1>4. Up[4][4 + n] = FindAdmins /\ Up[4][5 + 2 * n] = DropUserType
  BY UpIs, PermissionsLayout
<1>5. ASSUME NEW p \in Permissions
      PROVE  \E k \in DOMAIN Up[4] : k < Len(Up[4]) /\ Up[4][k] = Grant(p)
  <2>1. PICK j \in 1..n : PermissionList[j] = p
    BY PermissionsListed
  <2>2. Up[4][4 + n + j] = Grant(p)
    BY <2>1, UpIs, PermissionsLayout
  <2>3. 4 + n + j \in 1..(5 + 2 * n) /\ 4 + n + j < 5 + 2 * n
    BY <1>1
  <2> QED  BY <1>1, <2>2, <2>3
<1>6. 4 + n \in DOMAIN Up[4]
  BY <1>1
<1> HIDE DEF n
<1> QED  BY <1>1, <1>2, <1>3, <1>4, <1>5, <1>6

(* What is made, the migration has statements for.                         *)
LEMMA MadeByStatements ==
  ASSUME NEW id \in Ids
  PROVE  /\ Made(id) \subseteq Complete /\ "user_type" \notin Made(id)
         /\ \A x \in Made(id) :
              x \in Created /\ \E k \in DOMAIN Up[id] : Up[id][k] = Create(x)
         /\ \A x \in Made(id) \cap TextColumns :
              \E k \in DOMAIN Up[id] : Up[id][k] = Fill(x)
<1>1. CASE id = 1
  <2>1. /\ DOMAIN Up[id] = 1..3 /\ Up[id][1] = Create("users")
        /\ Up[id][2] = Create("markets") /\ Up[id][3] = Create("bets")
    BY <1>1, UpIs DEF CoreModels
  <2> QED  BY <1>1, <2>1, CompleteIs DEF Made, Created, TextColumns
<1>2. CASE id = 2
  <2>1. /\ DOMAIN Up[id] = 1..4
        /\ Up[id][1] = Create("yes_label") /\ Up[id][2] = Create("no_label")
        /\ Up[id][3] = Fill("yes_label") /\ Up[id][4] = Fill("no_label")
    BY <1>2, UpIs DEF AddMarketLabels
  <2> QED  BY <1>2, <2>1, CompleteIs DEF Made, Created, TextColumns
<1>3. CASE id = 3
  <2>1. /\ DOMAIN Up[id] = 1..2
        /\ Up[id][1] = Create("category") /\ Up[id][2] = Fill("category")
    BY <1>3, UpIs DEF AddMarketCategory
  <2> QED  BY <1>3, <2>1, CompleteIs DEF Made, Created, TextColumns
<1>4. CASE id = 4
  <2>1. /\ {1, 2} \subseteq DOMAIN Up[id]
        /\ Up[id][1] = Create("permissions")
        /\ Up[id][2] = Create("user_permissions")
    <3>1. 5 + 2 * Len(PermissionList) >= 2
      BY PermissionsListed
    <3> QED  BY <1>4, <3>1, UpIs, UpShape, PermissionsLayout
  <2> QED  BY <1>4, <2>1, CompleteIs DEF Made, Created, TextColumns
<1>5. CASE id = 5
  <2>1. DOMAIN Up[id] = 1..1 /\ Up[id][1] = Create("image_url")
    BY <1>5, UpIs DEF AddMarketImage
  <2> QED  BY <1>5, <2>1, CompleteIs DEF Made, Created, TextColumns
<1> QED  BY <1>1, <1>2, <1>3, <1>4, <1>5, UpIs

-----------------------------------------------------------------------------
(* Lemmas about the process *)

LEMMA DownIs ==
  /\ Down \in Main /\ Down.at = "down" /\ Down.id = 0 /\ Down.step = 0
  /\ Down.applied = {} /\ Down.typed = FALSE /\ Down.found = FALSE
  /\ Down.clean = TRUE /\ Down.listed = {} /\ Down.known = FALSE
BY DEF Down, Main

LEMMA StartupTyped ==
  ASSUME StartupInv
  PROVE  /\ main \in Main /\ main.step \in Nat /\ main.id \in Ids \cup {0}
         /\ main.applied \subseteq Ids /\ main.clean \in BOOLEAN
         /\ main.listed \subseteq Permissions
         /\ lost \in BOOLEAN /\ fills \in BOOLEAN /\ recorded \subseteq Ids
         /\ admin \in Admin /\ names \subseteq Permissions
         /\ boss \subseteq Permissions
BY DEF StartupInv, StartupTypeOK, Main

(* Where the migration goes after a statement.                             *)
LEMMA PastIs ==
  ASSUME StartupInv, NEW m \in Main, m.step = main.step
  PROVE  LET goes == /\ main.step < Len(Up[main.id])
                     /\ Statement.do = "has" => m.typed
         IN  /\ Past(m) \in Main
             /\ Past(m).at = IF goes THEN m.at ELSE "record"
             /\ Past(m).step = IF goes THEN m.step + 1 ELSE m.step
             /\ Past(m).id = m.id /\ Past(m).applied = m.applied
             /\ Past(m).typed = m.typed /\ Past(m).found = m.found
             /\ Past(m).clean = m.clean /\ Past(m).listed = m.listed
<1>1. m.step + 1 \in Nat
  BY StartupTyped
<1>2. CASE /\ main.step < Len(Up[main.id])
           /\ Statement.do = "has" => m.typed
  <2>1. Past(m) = [m EXCEPT !.step = @ + 1]
    BY <1>2 DEF Past
  <2> QED  BY <1>1, <1>2, <2>1 DEF Main
<1>3. CASE ~ /\ main.step < Len(Up[main.id])
             /\ Statement.do = "has" => m.typed
  <2>1. Past(m) = [m EXCEPT !.at = "record"]
    BY <1>3 DEF Past
  <2> QED  BY <1>3, <2>1 DEF Main
<1> QED  BY <1>2, <1>3

LEMMA LearnsIs ==
  ASSUME StartupInv, NEW s
  PROVE  /\ Learns(s) \in Main /\ Learns(s).at = main.at
         /\ Learns(s).step = main.step /\ Learns(s).id = main.id
         /\ Learns(s).applied = main.applied
         /\ s.do = "has" => (Learns(s).typed <=> s.what \in schema)
         /\ s.do # "has" => Learns(s).typed = main.typed
         /\ Learns(s).found = IF s.do = "find" THEN TRUE
                              ELSE main.found
<1>1. main \in Main
  BY StartupTyped
<1>2. CASE s.do = "has"
  <2>1. Learns(s) = [main EXCEPT !.typed = s.what \in schema]
    BY <1>2 DEF Learns
  <2>2. CASE s.what \in schema
    <3>1. (s.what \in schema) = TRUE
      BY <2>2
    <3>2. Learns(s) = [main EXCEPT !.typed = TRUE]
      BY <2>1, <3>1
    <3> QED  BY <1>1, <1>2, <2>2, <3>2 DEF Main
  <2>3. CASE s.what \notin schema
    <3>1. (s.what \in schema) = FALSE
      BY <2>3
    <3>2. Learns(s) = [main EXCEPT !.typed = FALSE]
      BY <2>1, <3>1
    <3> QED  BY <1>1, <1>2, <2>3, <3>2 DEF Main
  <2> QED  BY <2>2, <2>3
<1>3. CASE s.do = "find"
  <2>1. Learns(s) = [main EXCEPT !.found = TRUE]
    BY <1>3 DEF Learns
  <2> QED  BY <1>1, <1>3, <2>1 DEF Main
<1>4. CASE s.do \notin {"has", "find"}
  <2>1. Learns(s) = main
    BY <1>4 DEF Learns
  <2> QED  BY <1>1, <1>4, <2>1 DEF Main
<1> QED  BY <1>2, <1>3, <1>4

(* The next migration starts after all before it are on record; after the  *)
(* last one all are.                                                       *)
LEMMA NextUpSound ==
  ASSUME StartupInv, NEW id \in 0..5, NEW applied \in SUBSET Ids,
         applied \subseteq recorded', recorded' \subseteq Ids,
         \A i \in Ids : i <= id => i \in recorded',
         main' = NextUp(id, applied)
  PROVE  main' \in Main /\ ProcessInv'
<1> DEFINE todo == {i \in Ids : i > id /\ i \notin applied}
<1>1. main.clean \in BOOLEAN
  BY StartupTyped
<1>2. CASE todo = {}
  <2> DEFINE next == [Down EXCEPT !.at = "seed", !.step = 1,
                                  !.clean = main.clean]
  <2>1. main' = next
    BY <1>2 DEF NextUp
  <2>2. next \in Main /\ next.at = "seed" /\ next.step = 1
    BY <1>1, DownIs DEF Main
  <2> HIDE DEF next
  <2>3. \A i \in Ids : i \in recorded'
    BY <1>2, UpIs
  <2>4. \A k \in DOMAIN PermissionList : ~(k < 1)
    BY PermissionsListed
  <2> QED
    BY <2>1, <2>2, <2>3, <2>4
    DEF ProcessInv, InOrder, StatementsDone, RightsMoving, CleanSoFar
<1>3. CASE todo # {}
  <2> DEFINE min == CHOOSE i \in todo : \A j \in todo : i <= j
             next == [Down EXCEPT !.at = "up", !.step = 1,
                        !.clean = main.clean, !.applied = applied,
                        !.id = min]
  <2>1. \E i \in todo : \A j \in todo : i <= j
    BY <1>3, UpIs
  <2>2. min \in todo /\ \A j \in todo : min <= j
    BY <2>1
  <2>3. main' = next
    BY <1>3 DEF NextUp
  <2> HIDE DEF min
  <2>4. /\ next \in Main /\ next.at = "up" /\ next.step = 1
        /\ next.id = min /\ next.applied = applied
    BY <1>1, <2>2, DownIs DEF Main
  <2> HIDE DEF next
  <2>5. min \in Ids /\ \A i \in Ids : i < min => i \in recorded'
    BY <2>2, UpIs
  <2>6. 1 \in DOMAIN Up[min] /\ \A k \in DOMAIN Up[min] : ~(k < 1)
    BY <2>5, UpShape
  <2> QED
    BY <2>3, <2>4, <2>5, <2>6
    DEF ProcessInv, InOrder, StatementsDone, RightsMoving, CleanSoFar
<1> QED  BY <1>2, <1>3

(* Nothing is expected of a process outside the migrations, unless all     *)
(* went well.                                                              *)
LEMMA IdleSound ==
  ASSUME main'.at \notin {"up", "record"},
         main'.at = "seed" => main'.step > 0,
         main'.clean => main'.at \in {"down", "connect", "load"}
  PROVE  ProcessInv'
BY DEF ProcessInv, InOrder, StatementsDone, RightsMoving, CleanSoFar

(* A step that leaves the database alone.                                  *)
LEMMA DatabaseKept ==
  ASSUME StartupInv, UNCHANGED <<database, fills>>, lost' \in BOOLEAN,
         lost => lost', main' \in Main
  PROVE  StartupTypeOK' /\ DatabaseInv'
<1>1. UNCHANGED <<schema, recorded, markets, names, admin, boss, fills>>
  BY DEF database
<1>2. StartupTypeOK'
  BY <1>1 DEF StartupInv, StartupTypeOK
<1>3. DatabaseInv'
  BY <1>1
  DEF StartupInv, DatabaseInv, TextsExist, RightsMoved, OwnerExists,
      RecordedIsApplied, OldVersion
<1> QED  BY <1>2, <1>3

LEMMA WarnSound ==
  ASSUME StartupInv, Warn, UNCHANGED database
  PROVE  StartupInv'
<1> DEFINE next == [Down EXCEPT !.at = "seed", !.step = 1, !.clean = FALSE]
<1>1. main' = next /\ UNCHANGED <<fills, lost>>
  BY DEF Warn, Goes
<1>2. /\ next \in Main /\ next.at = "seed" /\ next.clean = FALSE
      /\ next.step = 1
  BY DownIs DEF Main
<1> HIDE DEF next
<1>3. ProcessInv'
  BY <1>1, <1>2, IdleSound
<1> QED  BY <1>1, <1>2, <1>3, DatabaseKept, StartupTyped DEF StartupInv

LEMMA StartSound ==
  ASSUME StartupInv, Start \/ Stop \/ Connect
  PROVE  StartupInv'
<1>1. UNCHANGED <<database, fills, lost>>
  BY DEF Start, Stop, Connect, Goes
<1>2. CASE Start \/ Stop
  <2>1. main' \in Main /\ main'.at \in {"connect", "down"}
    BY <1>2, DownIs DEF Start, Stop, Goes, Main
  <2> QED
    BY <1>1, <2>1, IdleSound, DatabaseKept, StartupTyped DEF StartupInv
<1>3. CASE Connect
  <2>1. main' \in Main /\ main'.at = "load"
    BY <1>3, StartupTyped DEF Connect, Goes, Main
  <2> QED
    BY <1>1, <2>1, IdleSound, DatabaseKept, StartupTyped DEF StartupInv
<1> QED  BY <1>2, <1>3

LEMMA LoadAppliedSound ==
  ASSUME StartupInv, LoadApplied
  PROVE  StartupInv'
<1>1. CASE Warn
  BY <1>1, WarnSound DEF LoadApplied
<1>2. CASE Goes(NextUp(0, recorded))
  <2>1. /\ main' = NextUp(0, recorded) /\ UNCHANGED <<database, fills, lost>>
        /\ recorded' = recorded /\ recorded \in SUBSET Ids
    BY <1>2, StartupTyped DEF LoadApplied, Goes, database
  <2>2. \A i \in Ids : ~(i <= 0)
    BY UpIs
  <2>3. main' \in Main /\ ProcessInv'
    BY <2>1, <2>2, NextUpSound
  <2> QED  BY <2>1, <2>3, DatabaseKept, StartupTyped DEF StartupInv
<1> QED  BY <1>1, <1>2 DEF LoadApplied

-----------------------------------------------------------------------------
(* A migration goes on *)

(* What its next statement is.                                             *)
LEMMA AtStatement ==
  ASSUME StartupInv, main.at = "up"
  PROVE  /\ main.id \in Ids /\ main.step \in DOMAIN Up[main.id]
         /\ main.step \in 1..Len(Up[main.id])
         /\ Len(Up[main.id]) \in Nat
         /\ DOMAIN Up[main.id] = 1..Len(Up[main.id])
         /\ Statement = Up[main.id][main.step]
BY UpShape DEF StartupInv, ProcessInv, InOrder, Statement

(* The process after a statement, if the statement did what it should and  *)
(* took nothing back.                                                      *)
LEMMA AdvanceSound ==
  ASSUME StartupInv, main.at = "up", NEW id, id = main.id,
         NEW m \in Main, m.at = "up", m.id = id, m.step = main.step,
         m.applied = main.applied, main' = Past(m),
         recorded' = recorded,
         \A k \in DOMAIN Up[id] : k <= main.step => Done(Up[id][k])',
         OldVersion' /\ ~lost' /\ "user_type" \in schema' =>
           /\ \A k \in DOMAIN Up[id] : k <= main.step => Moved(Up[id][k])'
           /\ id = 4 => /\ main.step < Len(Up[id])
                        /\ Up[id][main.step].do = "has" => m.typed
  PROVE  main' \in Main /\ ProcessInv'
<1> DEFINE goes == /\ main.step < Len(Up[id])
                   /\ Statement.do = "has" => m.typed
<1>1. /\ id \in Ids /\ main.step \in 1..Len(Up[id]) /\ Len(Up[id]) \in Nat
      /\ DOMAIN Up[id] = 1..Len(Up[id]) /\ Statement = Up[id][main.step]
  BY AtStatement
<1>2. /\ main' \in Main /\ main'.id = id /\ main'.applied = main.applied
      /\ main'.at = IF goes THEN "up" ELSE "record"
      /\ main'.step = IF goes THEN main.step + 1 ELSE main.step
  BY PastIs
<1>3. InOrder'
  <2>1. main'.step \in DOMAIN Up[id]
    BY <1>1, <1>2
  <2>2. /\ main.applied \subseteq recorded
        /\ \A i \in Ids : i < id => i \in recorded
    BY DEF StartupInv, ProcessInv, InOrder
  <2> QED  BY <1>1, <1>2, <2>1, <2>2 DEF InOrder
<1>4. CASE goes
  <2>1. \A k \in DOMAIN Up[id] : k < main'.step => k <= main.step
    BY <1>1, <1>2, <1>4
  <2>2. StatementsDone' /\ RightsMoving'
    BY <1>2, <1>4, <2>1 DEF StatementsDone, RightsMoving
  <2> QED  BY <1>2, <1>3, <1>4, <2>2 DEF ProcessInv, CleanSoFar
<1>5. CASE ~goes
  <2>1. ASSUME NEW k \in DOMAIN Up[id], k > main.step
        PROVE  Done(Up[id][k])'
    <3>1. id = 4 /\ Statement.do = "has"
      <4>1. Statement.do = "has"
        BY <1>1, <1>5, <2>1
      <4> QED  BY <1>1, <4>1, StatementFits DEF Fits
    <3>2. Up[id][k].do \in {"find", "grant", "drop"}
      BY <1>1, <2>1, <3>1, RightsOrder
    <3> QED  BY <3>2 DEF Done
  <2>2. \A k \in DOMAIN Up[id] : Done(Up[id][k])'
    BY <1>1, <2>1
  <2>3. StatementsDone'
    BY <1>2, <1>5, <2>2 DEF StatementsDone
  <2>4. OldVersion' /\ ~lost' /\ "user_type" \in schema' => id # 4
    BY <1>1, <1>5
  <2>5. RightsMoving'
    BY <1>2, <1>5, <2>4 DEF RightsMoving
  <2> QED  BY <1>2, <1>3, <1>5, <2>3, <2>5 DEF ProcessInv, CleanSoFar
<1> QED  BY <1>4, <1>5

(* A statement that only adds takes nothing back.                          *)
Adds ==
  /\ schema \subseteq schema' \cup {"user_type"}
  /\ DOMAIN markets' = DOMAIN markets
  /\ \A m \in DOMAIN markets, c \in TextColumns :
       markets[m][c] \notin {"none", "blank"} =>
         markets'[m][c] = markets[m][c]

LEMMA AddsKeeps ==
  ASSUME StartupInv, Adds, NEW id \in Ids, NEW k \in DOMAIN Up[id],
         Done(Up[id][k])
  PROVE  Done(Up[id][k])'
<1>1. CASE Up[id][k].do = "create"
  <2>1. Up[id][k].what \in Created
    BY <1>1, StatementFits DEF Fits
  <2>2. Makes(Up[id][k].what) \subseteq schema'
    BY <1>1, <2>1, MakesIs DEF Done, Adds
  <2> QED  BY <1>1, <2>2 DEF Done
<1>2. CASE Up[id][k].do = "fill"
  <2>1. Up[id][k].what \in TextColumns
    BY <1>2, StatementFits DEF Fits
  <2>2. \A m \in DOMAIN markets' :
          markets'[m][Up[id][k].what] \notin {"none", "blank"}
    BY <1>2, <2>1 DEF Done, Adds
  <2> QED  BY <1>2, <2>2 DEF Done
<1>3. CASE Up[id][k].do \notin {"create", "fill"}
  BY <1>3 DEF Done
<1> QED  BY <1>1, <1>2, <1>3

LEMMA AddsKeepsRecord ==
  ASSUME StartupInv, Adds, recorded' = recorded
  PROVE  RecordedIsApplied'
<1> SUFFICES ASSUME NEW i \in recorded
             PROVE  /\ Made(i) \subseteq schema'
                    /\ \A c \in Made(i) \cap TextColumns,
                          m \in DOMAIN markets' :
                         markets'[m][c] \notin {"none", "blank"}
  BY DEF RecordedIsApplied, StartupInv, DatabaseInv
<1>1. /\ Made(i) \subseteq schema
      /\ \A c \in Made(i) \cap TextColumns, m \in DOMAIN markets :
           markets[m][c] \notin {"none", "blank"}
  BY DEF RecordedIsApplied, StartupInv, DatabaseInv
<1>2. "user_type" \notin Made(i)
  BY MadeByStatements, StartupTyped
<1> QED  BY <1>1, <1>2 DEF Adds

(* A statement that ran.                                                   *)
LEMMA RanSound ==
  ASSUME StartupInv, main.at = "up", NEW s, s = Statement,
         main' = Past(Learns(s)), UNCHANGED <<recorded, lost>>, Adds,
         boss \subseteq boss', Done(s)',
         OldVersion /\ ~lost /\ "user_type" \in schema' =>
           /\ s.do # "drop" /\ "user_type" \in schema
           /\ s.do = "grant" /\ main.found => s.what \in boss'
  PROVE  main' \in Main /\ ProcessInv'
<1> SUFFICES ASSUME NEW id, id = main.id
             PROVE  main' \in Main /\ ProcessInv'
  OBVIOUS
<1>1. /\ id \in Ids /\ main.step \in 1..Len(Up[id]) /\ Len(Up[id]) \in Nat
      /\ DOMAIN Up[id] = 1..Len(Up[id]) /\ s = Up[id][main.step]
  BY AtStatement
<1> DEFINE m == Learns(s)
<1>2. /\ m \in Main /\ m.at = "up" /\ m.step = main.step /\ m.id = id
      /\ m.applied = main.applied
      /\ s.do = "has" => (m.typed <=> s.what \in schema)
      /\ s.do # "has" => m.typed = main.typed
      /\ m.found = IF s.do = "find" THEN TRUE ELSE main.found
  BY LearnsIs
<1> HIDE DEF m
<1>3. main'.typed = m.typed /\ main'.found = m.found
  BY <1>2, PastIs DEF m
<1>4. ASSUME NEW k \in DOMAIN Up[id], k <= main.step
      PROVE  Done(Up[id][k])'
  <2>1. CASE k = main.step
    BY <1>1, <2>1
  <2>2. CASE k < main.step
    <3>1. Done(Up[id][k])
      BY <2>2 DEF StartupInv, ProcessInv, StatementsDone
    <3> QED  BY <1>1, <3>1, AddsKeeps
  <2> QED  BY <1>1, <1>4, <2>1, <2>2
<1>5. ASSUME OldVersion, ~lost, "user_type" \in schema'
      PROVE  /\ \A k \in DOMAIN Up[id] : k <= main.step => Moved(Up[id][k])'
             /\ id = 4 => /\ main.step < Len(Up[id])
                          /\ Up[id][main.step].do = "has" => m.typed
  <2>1. /\ "user_type" \in schema /\ s.do # "drop"
        /\ s.do = "grant" /\ main.found => s.what \in boss'
    BY <1>5
  <2>2. Fits(id, main.step, s)
    BY <1>1, StatementFits
  <2>3. s.do = "has" => m.typed
    BY <1>2, <2>1, <2>2 DEF Fits
  <2>4. \A k \in DOMAIN Up[id] : k < main.step => Moved(Up[id][k])
    BY <1>5, <2>1 DEF StartupInv, ProcessInv, RightsMoving
  <2>5. ASSUME NEW k \in DOMAIN Up[id], k < main.step
        PROVE  Moved(Up[id][k])'
    <3>1. Moved(Up[id][k])
      BY <2>4, <2>5
    <3>2. Up[id][k].do = "has" => main'.typed
      <4>1. CASE s.do = "has"
        BY <1>3, <2>3, <4>1
      <4>2. CASE s.do # "has"
        BY <1>2, <1>3, <3>1, <4>2 DEF Moved
      <4> QED  BY <4>1, <4>2
    <3>3. Up[id][k].do = "find" => main'.found
      BY <1>2, <1>3, <3>1 DEF Moved
    <3>4. Up[id][k].do = "grant" => Up[id][k].what \in boss'
      BY <3>1 DEF Moved
    <3> QED  BY <3>2, <3>3, <3>4 DEF Moved
  <2>6. Moved(s)'
    <3>1. s.do = "has" => main'.typed
      BY <1>3, <2>3
    <3>2. s.do = "find" => main'.found
      BY <1>2, <1>3
    <3>3. ASSUME s.do = "grant"
          PROVE  s.what \in boss'
      <4>1. id = 4
        BY <2>2, <3>3 DEF Fits
      <4>2. PICK j \in DOMAIN Up[id] : j < main.step /\ Up[id][j].do = "find"
        BY <1>1, <3>3, <4>1, RightsOrder
      <4>3. main.found
        BY <2>4, <4>2 DEF Moved
      <4> QED  BY <2>1, <3>3, <4>3
    <3> QED  BY <3>1, <3>2, <3>3 DEF Moved
  <2>7. \A k \in DOMAIN Up[id] : k <= main.step => Moved(Up[id][k])'
    <3> SUFFICES ASSUME NEW k \in DOMAIN Up[id], k <= main.step
                 PROVE  Moved(Up[id][k])'
      OBVIOUS
    <3>1. CASE k = main.step
      BY <1>1, <2>6, <3>1
    <3>2. CASE k < main.step
      BY <2>5, <3>2
    <3> QED  BY <1>1, <3>1, <3>2
  <2>8. ASSUME id = 4
        PROVE  main.step < Len(Up[id])
    <3>1. Up[4][Len(Up[4])].do = "drop"
      BY RightsOrder DEF DropUserType
    <3> QED  BY <1>1, <2>1, <2>8, <3>1
  <2> QED  BY <1>1, <2>3, <2>7, <2>8
<1>6. (OldVersion' <=> OldVersion) /\ (lost' <=> lost)
  BY DEF OldVersion, Adds
<1> QED
  BY <1>2, <1>4, <1>5, <1>6, AdvanceSound DEF m

LEMMA CreateSound ==
  ASSUME StartupInv, main.at = "up", NEW s, s = Statement,
         s.do = "create", Effect(s), Goes(Past(Learns(s)))
  PROVE  StartupInv'
<1>1. /\ CreateMissing(s.what) /\ main' = Past(Learns(s))
      /\ UNCHANGED <<recorded, names, admin, boss, fills, lost>>
  BY DEF Effect, Goes
<1>2. /\ schema' = schema \cup Makes(s.what)
      /\ DOMAIN markets' = DOMAIN markets
      /\ \A m \in DOMAIN markets :
           markets'[m] = [c \in TextColumns |->
             IF markets[m][c] # "none" \/ c \notin schema' THEN markets[m][c]
             ELSE IF fills THEN "default" ELSE "blank"]
  BY <1>1 DEF CreateMissing
<1>3. main.id \in Ids /\ Fits(main.id, main.step, s)
  BY AtStatement, StatementFits
<1>4. /\ s.what \in Created /\ Makes(s.what) \subseteq Complete
      /\ "user_type" \notin Makes(s.what)
      /\ Makes(s.what) \cap TextColumns # {} =>
           "markets" \in Makes(s.what) \/ main.id > 1
  BY <1>3, MakesIs DEF Fits
<1>5. ASSUME NEW m \in DOMAIN markets, NEW c \in TextColumns
      PROVE  /\ markets'[m][c] =
                  IF markets[m][c] # "none" \/ c \notin schema'
                  THEN markets[m][c]
                  ELSE IF fills THEN "default" ELSE "blank"
             /\ markets[m][c] \in Texts
  BY <1>2 DEF StartupInv, StartupTypeOK
<1>6. Adds
  BY <1>2, <1>5 DEF Adds
<1>7. TextColumns \cap schema' # {} => "markets" \in schema'
  <2>1. main.id > 1 => "markets" \in schema
    <3>1. main.id > 1 => 1 \in recorded
      BY <1>3, UpIs DEF StartupInv, ProcessInv, InOrder
    <3>2. 1 \in recorded => Made(1) \subseteq schema
      BY DEF StartupInv, DatabaseInv, RecordedIsApplied
    <3> QED  BY <3>1, <3>2 DEF Made
  <2> QED  BY <1>2, <1>4, <2>1 DEF StartupInv, StartupTypeOK
<1>8. Done(s)'
  BY <1>2 DEF Done
<1>9. main' \in Main /\ ProcessInv'
  BY <1>1, <1>2, <1>4, <1>6, <1>8, RanSound
<1>10. StartupTypeOK'
  <2>1. \A m \in DOMAIN markets' : markets'[m] \in [TextColumns -> Texts]
    <3> SUFFICES ASSUME NEW m \in DOMAIN markets
                 PROVE  markets'[m] \in [TextColumns -> Texts]
      BY <1>2
    <3>1. \A c \in TextColumns : markets'[m][c] \in Texts
      BY <1>5 DEF Texts
    <3> QED  BY <1>2, <3>1
  <2> QED
    BY <1>1, <1>2, <1>4, <1>7, <1>9, <2>1 DEF StartupInv, StartupTypeOK
<1>11. DatabaseInv'
  <2>1. RecordedIsApplied'
    BY <1>1, <1>6, AddsKeepsRecord
  <2>2. TextsExist'
    BY <1>2, <1>5 DEF TextsExist
  <2>3. RightsMoved' /\ OwnerExists'
    BY <1>1, <1>2, <1>4
    DEF StartupInv, DatabaseInv, RightsMoved, OwnerExists, OldVersion
  <2> QED  BY <2>1, <2>2, <2>3 DEF DatabaseInv
<1> QED  BY <1>9, <1>10, <1>11 DEF StartupInv

LEMMA FillSound ==
  ASSUME StartupInv, main.at = "up", NEW s, s = Statement,
         s.do = "fill", Effect(s), Goes(Past(Learns(s)))
  PROVE  StartupInv'
<1>1. /\ markets' = [m \in DOMAIN markets |->
                       [markets[m] EXCEPT ![s.what] = Filled(@)]]
      /\ main' = Past(Learns(s))
      /\ UNCHANGED <<schema, recorded, names, admin, boss, fills, lost>>
  BY DEF Effect, Goes
<1>2. PICK id : id = main.id
  OBVIOUS
<1>3. /\ id \in Ids /\ s.what \in TextColumns
      /\ \E j \in DOMAIN Up[id] : j < main.step /\ Up[id][j] = Create(s.what)
  BY <1>2, AtStatement, StatementFits DEF Fits
<1>4. s.what \in schema
  <2>1. PICK j \in DOMAIN Up[id] : j < main.step /\ Up[id][j] = Create(s.what)
    BY <1>3
  <2>2. Done(Create(s.what))
    BY <1>2, <2>1 DEF StartupInv, ProcessInv, StatementsDone
  <2>3. s.what \in Created
    BY <1>3, <2>1, StatementFits DEF Fits, Create
  <2> QED  BY <2>2, <2>3, MakesIs DEF Done, Create
<1>5. ASSUME NEW m \in DOMAIN markets
      PROVE  /\ markets'[m] \in [TextColumns -> Texts]
             /\ \A c \in TextColumns :
                  markets'[m][c] = IF c = s.what THEN Filled(markets[m][c])
                                   ELSE markets[m][c]
             /\ markets'[m][s.what] \notin {"none", "blank"}
  <2>1. /\ markets[m] \in [TextColumns -> Texts]
        /\ markets[m][s.what] # "none"
    BY <1>3, <1>4
    DEF StartupInv, StartupTypeOK, DatabaseInv, TextsExist
  <2>2. \A t \in Texts : Filled(t) \in Texts /\ (t # "none" =>
                           Filled(t) \notin {"none", "blank"})
    BY DEF Filled, Texts
  <2>3. markets'[m] = [markets[m] EXCEPT ![s.what] = Filled(@)]
    BY <1>1
  <2> QED  BY <1>3, <2>1, <2>2, <2>3
<1>6. \A t : t \notin {"none", "blank"} => Filled(t) = t
  BY DEF Filled
<1>7. Adds
  BY <1>1, <1>5, <1>6 DEF Adds
<1>8. Done(s)'
  BY <1>1, <1>5 DEF Done
<1>9. main' \in Main /\ ProcessInv'
  BY <1>1, <1>7, <1>8, RanSound
<1>10. StartupTypeOK'
  BY <1>1, <1>5, <1>9 DEF StartupInv, StartupTypeOK
<1>11. DatabaseInv'
  <2>1. RecordedIsApplied'
    BY <1>1, <1>7, AddsKeepsRecord
  <2>2. TextsExist'
    BY <1>1, <1>5 DEF TextsExist, StartupInv, DatabaseInv
  <2>3. RightsMoved' /\ OwnerExists'
    BY <1>1
    DEF StartupInv, DatabaseInv, RightsMoved, OwnerExists, OldVersion
  <2> QED  BY <2>1, <2>2, <2>3 DEF DatabaseInv
<1> QED  BY <1>9, <1>10, <1>11 DEF StartupInv

(* Statements about permissions: those of the fourth migration.            *)
LEMMA RightsSound ==
  ASSUME StartupInv, main.at = "up", NEW s, s = Statement,
         s.do \in {"row", "has", "find", "grant"},
         Effect(s), Goes(Past(Learns(s)))
  PROVE  StartupInv'
<1>1. main' = Past(Learns(s)) /\ UNCHANGED <<fills, lost>>
  BY DEF Goes
<1>2. s.do \in {"row", "grant"} => s.what \in Permissions
  BY AtStatement, StatementFits DEF Fits
<1>3. /\ UNCHANGED <<schema, recorded, markets>>
      /\ names' \subseteq Permissions
      /\ boss' \subseteq Permissions /\ boss \subseteq boss'
      /\ admin' \in Admin /\ admin'.password = admin.password
      /\ admin'.exists = admin.exists
      /\ s.do = "grant" /\ main.found => s.what \in boss'
  <2>1. CASE s.do = "row"
    <3>1. /\ names' = names \cup {s.what}
          /\ UNCHANGED <<schema, recorded, markets, admin, boss>>
      BY <2>1 DEF Effect
    <3> QED  BY <1>2, <2>1, <3>1, StartupTyped
  <2>2. CASE s.do = "grant" /\ main.found
    <3>1. /\ boss' = boss \cup {s.what}
          /\ admin' = [admin EXCEPT !.perms = @ \cup {s.what}]
          /\ UNCHANGED <<schema, recorded, markets, names>>
      BY <2>2 DEF Effect
    <3>2. /\ admin' \in Admin /\ admin'.password = admin.password
          /\ admin'.exists = admin.exists
      BY <1>2, <2>2, <3>1, StartupTyped DEF Admin
    <3> QED  BY <1>2, <2>2, <3>1, <3>2, StartupTyped
  <2>3. CASE s.do \in {"has", "find"} \/ (s.do = "grant" /\ ~main.found)
    <3>1. UNCHANGED <<schema, recorded, markets, names, admin, boss>>
      BY <2>3 DEF Effect, database
    <3> QED  BY <2>3, <3>1, StartupTyped
  <2> QED  BY <2>1, <2>2, <2>3
<1>4. Adds /\ Done(s)'
  BY <1>3 DEF Adds, Done
<1>5. main' \in Main /\ ProcessInv'
  BY <1>1, <1>3, <1>4, RanSound
<1>6. StartupTypeOK'
  BY <1>1, <1>3, <1>5 DEF StartupInv, StartupTypeOK
<1>7. RecordedIsApplied'
  BY <1>3, <1>4, AddsKeepsRecord
<1>8. TextsExist' /\ OwnerExists'
  BY <1>3 DEF StartupInv, DatabaseInv, TextsExist, OwnerExists
<1>9. RightsMoved'
  <2>1. boss = Permissions => boss' = Permissions
    BY <1>3
  <2> QED
    BY <1>1, <1>3, <2>1
    DEF StartupInv, DatabaseInv, RightsMoved, OldVersion
<1> QED  BY <1>5, <1>6, <1>7, <1>8, <1>9 DEF StartupInv, DatabaseInv

(* The old column goes: all its holders have all permissions.              *)
LEMMA DropSound ==
  ASSUME StartupInv, main.at = "up", NEW s, s = Statement,
         s.do = "drop", Effect(s), Goes(Past(Learns(s)))
  PROVE  StartupInv'
<1>1. /\ schema' = schema \ {s.what} /\ main' = Past(Learns(s))
      /\ UNCHANGED <<recorded, markets, names, admin, boss, fills, lost>>
  BY DEF Effect, Goes
<1>2. PICK id : id = main.id
  OBVIOUS
<1>3. /\ s.what = "user_type" /\ id = 4 /\ main.step = Len(Up[4])
  BY <1>2, AtStatement, StatementFits, RightsOrder DEF Fits
<1>4. Adds /\ Done(s)'
  BY <1>1, <1>3 DEF Adds, Done
<1>5. main' \in Main /\ ProcessInv'
  BY <1>1, <1>3, <1>4, RanSound
<1>6. StartupTypeOK'
  BY <1>1, <1>3, <1>5 DEF StartupInv, StartupTypeOK, TextColumns
<1>7. RecordedIsApplied'
  BY <1>1, <1>4, AddsKeepsRecord
<1>8. TextsExist' /\ OwnerExists'
  BY <1>1 DEF StartupInv, DatabaseInv, TextsExist, OwnerExists
<1>9. ASSUME OldVersion, ~lost
      PROVE  boss = Permissions
  <2>1. CASE "user_type" \notin schema
    BY <1>9, <2>1 DEF StartupInv, DatabaseInv, RightsMoved
  <2>2. CASE "user_type" \in schema
    <3>1. ASSUME NEW p \in Permissions
          PROVE  p \in boss
      <4>1. PICK k \in DOMAIN Up[4] : k < Len(Up[4]) /\ Up[4][k] = Grant(p)
        BY RightsOrder
      <4>2. Moved(Grant(p))
        BY <1>2, <1>3, <1>9, <2>2, <4>1
        DEF StartupInv, ProcessInv, RightsMoving
      <4> QED  BY <4>2 DEF Moved, Grant
    <3> QED  BY <3>1, StartupTyped
  <2> QED  BY <2>1, <2>2
<1>10. RightsMoved'
  BY <1>1, <1>9 DEF RightsMoved, OldVersion
<1> QED  BY <1>5, <1>6, <1>7, <1>8, <1>10 DEF StartupInv, DatabaseInv

LEMMA MigrateSound ==
  ASSUME StartupInv, Migrate
  PROVE  StartupInv'
<1>1. PICK s : s = Statement
  OBVIOUS
<1>2. main.at = "up" /\ Effect(s) /\ Goes(Past(Learns(s)))
  BY <1>1 DEF Migrate
<1>3. s.do \in {"create", "fill", "row", "has", "find", "grant", "drop"}
  BY <1>1, <1>2, AtStatement, StatementFits DEF Fits
<1> QED  BY <1>1, <1>2, <1>3, CreateSound, FillSound, RightsSound, DropSound

LEMMA MigrateFailsSound ==
  ASSUME StartupInv, MigrateFails
  PROVE  StartupInv'
<1>1. main.at = "up" /\ UNCHANGED database
  BY DEF MigrateFails
<1>2. CASE Statement.do \notin Swallowed
  <2>1. Warn
    BY <1>2 DEF MigrateFails
  <2> QED  BY <1>1, <2>1, WarnSound
<1>3. CASE Statement.do \in Swallowed
  <2> DEFINE m == [main EXCEPT !.clean = FALSE]
  <2>1. /\ main' = Past(m) /\ fills' = fills
        /\ lost' = (lost \/ "user_type" \in schema)
    BY <1>3 DEF MigrateFails
  <2>2. /\ m \in Main /\ m.at = "up" /\ m.step = main.step /\ m.id = main.id
        /\ m.applied = main.applied /\ m.typed = main.typed
        /\ m.found = main.found
    BY <1>1, StartupTyped DEF Main
  <2> HIDE DEF m
  <2>3. PICK id : id = main.id
    OBVIOUS
  <2>4. /\ id \in Ids /\ main.step \in DOMAIN Up[id]
        /\ main.step \in 1..Len(Up[id])
        /\ DOMAIN Up[id] = 1..Len(Up[id]) /\ Len(Up[id]) \in Nat
        /\ Statement = Up[id][main.step]
    BY <1>1, <2>3, AtStatement
  <2>5. UNCHANGED <<schema, recorded, markets, names, admin, boss>>
    BY <1>1 DEF database
  <2>6. Adds
    BY <2>5 DEF Adds
  <2>7. ASSUME NEW k \in DOMAIN Up[id], k <= main.step
        PROVE  Done(Up[id][k])'
    <3>1. CASE k < main.step
      <4>1. Done(Up[id][k])
        BY <1>1, <2>3, <3>1 DEF StartupInv, ProcessInv, StatementsDone
      <4> QED  BY <2>4, <2>6, <4>1, AddsKeeps
    <3>2. CASE k = main.step
      BY <1>3, <2>4, <3>2 DEF Swallowed, Done
    <3> QED  BY <2>4, <2>7, <3>1, <3>2
  <2>8. ~(~lost' /\ "user_type" \in schema')
    BY <2>1, <2>5
  <2>9. main' \in Main /\ ProcessInv'
    BY <1>1, <2>1, <2>2, <2>3, <2>5, <2>7, <2>8, AdvanceSound
  <2>10. lost' \in BOOLEAN /\ (lost => lost')
    BY <2>1
  <2> QED  BY <1>1, <2>1, <2>9, <2>10, DatabaseKept DEF StartupInv
<1> QED  BY <1>2, <1>3

(* A migration is recorded.                                                *)
LEMMA RecordMigrationSound ==
  ASSUME StartupInv, RecordMigration
  PROVE  StartupInv'
<1>1. /\ main.at = "record"
      /\ UNCHANGED <<schema, markets, names, admin, boss>>
  BY DEF RecordMigration
<1>2. CASE Warn /\ UNCHANGED recorded
  BY <1>1, <1>2, WarnSound DEF database
<1>3. CASE /\ recorded' = recorded \cup {main.id}
           /\ Goes(NextUp(main.id, main.applied))
  <2>1. PICK id : id = main.id
    OBVIOUS
  <2>2. /\ id \in Ids /\ main.applied \subseteq recorded
        /\ \A i \in Ids : i < id => i \in recorded
        /\ id \in 0..5 /\ Ids = 1..5
    BY <1>1, <2>1, UpIs DEF StartupInv, ProcessInv, InOrder
  <2>3. /\ main' = NextUp(id, main.applied) /\ UNCHANGED <<fills, lost>>
        /\ recorded' = recorded \cup {id}
    BY <1>3, <2>1 DEF Goes
  <2>4. main.applied \in SUBSET Ids /\ recorded' \subseteq Ids
    BY <2>2, <2>3, StartupTyped
  <2>5. \A i \in Ids : i <= id => i \in recorded'
    BY <2>2, <2>3
  <2>6. main' \in Main /\ ProcessInv'
    <3>1. main.applied \subseteq recorded'
      BY <2>2, <2>3
    <3> QED  BY <2>2, <2>3, <2>4, <2>5, <3>1, NextUpSound
  <2>7. StartupTypeOK'
    BY <1>1, <2>3, <2>4, <2>6 DEF StartupInv, StartupTypeOK
  <2>8. ASSUME NEW i \in recorded'
        PROVE  /\ 1..i \subseteq recorded' /\ Made(i) \subseteq schema
               /\ \A c \in Made(i) \cap TextColumns, m \in DOMAIN markets :
                    markets[m][c] \notin {"none", "blank"}
    <3>1. CASE i \in recorded
      BY <2>3, <3>1 DEF StartupInv, DatabaseInv, RecordedIsApplied
    <3>2. CASE i = id
      <4>1. 1..i \subseteq recorded'
        BY <2>2, <2>5, <3>2
      <4>2. \A k \in DOMAIN Up[id] : Done(Up[id][k])
        BY <1>1, <2>1 DEF StartupInv, ProcessInv, StatementsDone
      <4>3. ASSUME NEW x \in Made(id)
            PROVE  x \in schema
        <5>1. x \in Created /\ Done(Create(x))
          BY <2>2, <4>2, MadeByStatements
        <5> QED  BY <5>1, MakesIs DEF Done, Create
      <4>4. ASSUME NEW c \in Made(id) \cap TextColumns,
                   NEW m \in DOMAIN markets
            PROVE  markets[m][c] \notin {"none", "blank"}
        <5>1. Done(Fill(c))
          BY <2>2, <4>2, MadeByStatements
        <5> QED  BY <5>1 DEF Done, Fill
      <4> QED  BY <3>2, <4>1, <4>3, <4>4
    <3> QED  BY <2>3, <2>8, <3>1, <3>2
  <2>9. RecordedIsApplied'
    BY <1>1, <2>8 DEF RecordedIsApplied
  <2>10. RightsMoved'
    <3>1. OldVersion /\ ~lost /\ id = 4 => "user_type" \notin schema
      BY <1>1, <2>1 DEF StartupInv, ProcessInv, RightsMoving
    <3> QED
      BY <1>1, <2>3, <3>1
      DEF StartupInv, DatabaseInv, RightsMoved, OldVersion
  <2>11. TextsExist' /\ OwnerExists'
    BY <1>1 DEF StartupInv, DatabaseInv, TextsExist, OwnerExists
  <2> QED
    BY <2>6, <2>7, <2>9, <2>10, <2>11 DEF StartupInv, DatabaseInv
<1> QED  BY <1>2, <1>3 DEF RecordMigration

-----------------------------------------------------------------------------
(* The seed, and requests *)

LEMMA SeedPermissionSound ==
  ASSUME StartupInv, SeedPermission
  PROVE  StartupInv'
<1>1. /\ main.at = "seed" /\ main.step <= Len(PermissionList)
      /\ UNCHANGED <<schema, recorded, markets, admin, boss, fills, lost>>
  BY DEF SeedPermission, Goes
<1>2. main.step > 0
  BY <1>1 DEF StartupInv, ProcessInv, InOrder
<1>3. main.step \in DOMAIN PermissionList
  BY <1>1, <1>2, StartupTyped, PermissionsListed
<1> DEFINE p == PermissionList[main.step]
           seeded == [main EXCEPT !.step = @ + 1, !.listed = @ \cup {p}]
           failed == [main EXCEPT !.step = @ + 1, !.clean = FALSE]
<1>4. p \in Permissions
  BY <1>3, PermissionsListed, ElementOfSeq
<1>5. \/ main' = seeded /\ names' = names \cup {p}
      \/ main' = failed /\ names' = names
  BY DEF SeedPermission, Goes
<1> HIDE DEF p
<1>6. /\ seeded \in Main /\ seeded.at = "seed" /\ seeded.step = main.step + 1
      /\ seeded.listed = main.listed \cup {p} /\ seeded.clean = main.clean
  <2>1. main.step + 1 \in Nat /\ main.listed \cup {p} \subseteq Permissions
    BY <1>4, StartupTyped
  <2> QED  BY <1>1, <2>1, StartupTyped DEF Main
<1>7. /\ failed \in Main /\ failed.at = "seed" /\ failed.step = main.step + 1
      /\ failed.clean = FALSE
  <2>1. main.step + 1 \in Nat
    BY StartupTyped
  <2> QED  BY <1>1, <2>1, StartupTyped DEF Main
<1> HIDE DEF seeded, failed
<1>8. /\ main' \in Main /\ main'.at = "seed" /\ main'.step = main.step + 1
      /\ names' \subseteq Permissions
  BY <1>4, <1>5, <1>6, <1>7, StartupTyped
<1>9. ASSUME main'.clean
      PROVE  /\ recorded' = Ids
             /\ \A k \in DOMAIN PermissionList :
                  k < main'.step =>
                    PermissionList[k] \in names' \cap main'.listed
  <2>1. main' = seeded /\ names' = names \cup {p} /\ main.clean
    BY <1>5, <1>6, <1>7, <1>9
  <2>2. /\ recorded = Ids
        /\ \A k \in DOMAIN PermissionList :
             k < main.step => PermissionList[k] \in names \cap main.listed
    BY <1>1, <2>1 DEF StartupInv, ProcessInv, CleanSoFar
  <2>3. ASSUME NEW k \in DOMAIN PermissionList, k < main.step + 1
        PROVE  PermissionList[k] \in names' \cap main'.listed
    <3>1. k < main.step \/ k = main.step
      BY <2>3, PermissionsListed, StartupTyped
    <3> QED  BY <1>6, <2>1, <2>2, <3>1 DEF p
  <2> QED  BY <1>1, <1>8, <2>2, <2>3
<1>10. ProcessInv'
  BY <1>2, <1>8, <1>9, StartupTyped
  DEF ProcessInv, InOrder, StatementsDone, RightsMoving, CleanSoFar
<1>11. StartupTypeOK'
  BY <1>1, <1>8 DEF StartupInv, StartupTypeOK
<1>12. DatabaseInv'
  BY <1>1
  DEF StartupInv, DatabaseInv, TextsExist, RightsMoved, OwnerExists,
      RecordedIsApplied, OldVersion
<1> QED  BY <1>10, <1>11, <1>12 DEF StartupInv

LEMMA FindAdminSound ==
  ASSUME StartupInv, FindAdmin
  PROVE  StartupInv'
<1>1. /\ main.at = "seed" /\ main.step > Len(PermissionList)
      /\ UNCHANGED <<database, fills, lost>>
  BY DEF FindAdmin, Goes
<1>2. UNCHANGED <<schema, recorded, markets, names, admin, boss>>
  BY <1>1 DEF database
<1>3. main.clean =>
        recorded = Ids /\ names = Permissions /\ main.listed = Permissions
  <2> SUFFICES ASSUME main.clean
               PROVE  /\ recorded = Ids /\ names = Permissions
                      /\ main.listed = Permissions
    OBVIOUS
  <2>1. /\ recorded = Ids
        /\ \A k \in DOMAIN PermissionList :
             k < main.step => PermissionList[k] \in names \cap main.listed
    BY <1>1 DEF StartupInv, ProcessInv, CleanSoFar
  <2>2. \A k \in DOMAIN PermissionList : k < main.step
    BY <1>1, PermissionsListed, StartupTyped
  <2> QED  BY <2>1, <2>2, PermissionsListed, StartupTyped
<1>4. /\ main' \in Main /\ main'.at \in {"insert", "replace"}
      /\ main'.clean => main.clean
      /\ main'.listed = main.listed
      /\ main'.at = "replace" => main'.known /\ admin.exists
  <2>1. CASE admin.exists /\ Goes([main EXCEPT !.at = "replace",
                                               !.known = TRUE])
    BY <2>1, StartupTyped DEF Goes, Main
  <2>2. CASE Goes([main EXCEPT !.at = "insert"])
    BY <2>2, StartupTyped DEF Goes, Main
  <2>3. CASE Goes([main EXCEPT !.at = "insert", !.clean = FALSE])
    BY <2>3, StartupTyped DEF Goes, Main
  <2> QED  BY <2>1, <2>2, <2>3 DEF FindAdmin
<1>5. ProcessInv'
  BY <1>2, <1>3, <1>4
  DEF ProcessInv, InOrder, StatementsDone, RightsMoving, CleanSoFar
<1> QED  BY <1>1, <1>4, <1>5, DatabaseKept, StartupTyped DEF StartupInv

LEMMA CreateAdminSound ==
  ASSUME StartupInv, CreateAdmin
  PROVE  StartupInv'
<1>1. /\ main.at = "insert"
      /\ UNCHANGED <<schema, recorded, markets, names, boss, fills, lost>>
  BY DEF CreateAdmin, Goes
<1>2. /\ main' \in Main /\ main'.at = "replace" /\ main'.listed = main.listed
      /\ main'.clean => main.clean /\ main'.known /\ admin'.exists
      /\ admin' \in Admin
      /\ admin'.password = "own" => admin'.exists
  <2>1. CASE /\ admin' = [exists |-> TRUE, password |-> "seeded",
                          perms |-> {}]
             /\ Goes([main EXCEPT !.at = "replace", !.known = TRUE])
    BY <2>1, StartupTyped DEF Goes, Main, Admin
  <2>2. CASE /\ Goes([main EXCEPT !.at = "replace", !.clean = FALSE])
             /\ UNCHANGED admin
    BY <2>2, StartupTyped
    DEF Goes, Main, StartupInv, DatabaseInv, OwnerExists
  <2> QED  BY <2>1, <2>2 DEF CreateAdmin
<1>3. ProcessInv'
  BY <1>1, <1>2
  DEF StartupInv, ProcessInv, InOrder, StatementsDone, RightsMoving,
      CleanSoFar
<1>4. StartupTypeOK'
  BY <1>1, <1>2 DEF StartupInv, StartupTypeOK
<1>5. DatabaseInv'
  BY <1>1, <1>2
  DEF StartupInv, DatabaseInv, TextsExist, RightsMoved, OwnerExists,
      RecordedIsApplied, OldVersion
<1> QED  BY <1>3, <1>4, <1>5 DEF StartupInv

LEMMA ReplacePermissionsSound ==
  ASSUME StartupInv, ReplacePermissions
  PROVE  StartupInv'
<1>1. /\ main.at = "replace"
      /\ UNCHANGED <<schema, recorded, markets, names, boss, fills, lost>>
  BY DEF ReplacePermissions, Serve, Goes
<1>2. /\ main' \in Main /\ main'.at = "serve"
      /\ admin' \in Admin /\ admin'.exists = admin.exists
      /\ admin'.password = admin.password
      /\ main'.clean => main.clean /\ (main.listed = Permissions =>
                                         admin'.perms = Permissions)
  <2>1. \A clean \in BOOLEAN : Serve(clean) =>
          main' \in Main /\ main'.at = "serve" /\ main'.clean = clean
    <3> SUFFICES ASSUME NEW clean \in BOOLEAN, Serve(clean)
                 PROVE  /\ main' \in Main /\ main'.at = "serve"
                        /\ main'.clean = clean
      OBVIOUS
    <3> QED  BY DownIs DEF Serve, Goes, Main
  <2>2. ASSUME Serve(main.clean),
               NEW ps \in IF main.listed = Permissions THEN {Permissions}
                          ELSE SUBSET Permissions,
               admin' = [admin EXCEPT !.perms = ps]
        PROVE  /\ admin' \in Admin /\ admin'.exists = admin.exists
               /\ admin'.password = admin.password
               /\ main.listed = Permissions => admin'.perms = Permissions
    <3>1. ps \in SUBSET Permissions
      OBVIOUS
    <3> QED  BY <2>2, <3>1, StartupTyped DEF Admin
  <2>3. CASE Serve(FALSE) /\ UNCHANGED admin
    BY <2>1, <2>3, StartupTyped
  <2> QED  BY <2>1, <2>2, <2>3, StartupTyped DEF ReplacePermissions
<1>3. ProcessInv'
  BY <1>1, <1>2
  DEF StartupInv, ProcessInv, InOrder, StatementsDone, RightsMoving,
      CleanSoFar
<1>4. StartupTypeOK'
  BY <1>1, <1>2 DEF StartupInv, StartupTypeOK
<1>5. DatabaseInv'
  BY <1>1, <1>2
  DEF StartupInv, DatabaseInv, TextsExist, RightsMoved, OwnerExists,
      RecordedIsApplied, OldVersion
<1> QED  BY <1>3, <1>4, <1>5 DEF StartupInv

LEMMA NewMarketSound ==
  ASSUME StartupInv, NewMarket
  PROVE  StartupInv'
<1>1. /\ main.at = "serve"
      /\ UNCHANGED <<schema, recorded, names, admin, boss, fills, main, lost>>
      /\ DOMAIN markets' = DOMAIN markets \cup {"new"}
      /\ markets'["new"] = [c \in TextColumns |-> "own"]
      /\ \A m \in DOMAIN markets : m # "new" => markets'[m] = markets[m]
      /\ "new" \notin DOMAIN markets
  BY DEF NewMarket
<1>2. ASSUME NEW m \in DOMAIN markets'
      PROVE  \/ m \in DOMAIN markets /\ markets'[m] = markets[m]
             \/ markets'[m] = [c \in TextColumns |-> "own"]
  BY <1>1
<1>3. \A c \in TextColumns : [d \in TextColumns |-> "own"][c] = "own"
  OBVIOUS
<1>4. StartupTypeOK'
  <2>1. \A m \in DOMAIN markets' : markets'[m] \in [TextColumns -> Texts]
    BY <1>2 DEF StartupInv, StartupTypeOK, Texts
  <2>2. DOMAIN markets' \subseteq {"old", "new"}
    BY <1>1 DEF StartupInv, StartupTypeOK
  <2> QED  BY <1>1, <2>1, <2>2 DEF StartupInv, StartupTypeOK
<1>5. DatabaseInv'
  <2>1. TextsExist'
    BY <1>1, <1>2, <1>3 DEF StartupInv, DatabaseInv, TextsExist
  <2>2. RecordedIsApplied'
    BY <1>1, <1>2, <1>3 DEF StartupInv, DatabaseInv, RecordedIsApplied
  <2>3. RightsMoved' /\ OwnerExists'
    BY <1>1
    DEF StartupInv, DatabaseInv, RightsMoved, OwnerExists, OldVersion
  <2> QED  BY <2>1, <2>2, <2>3 DEF DatabaseInv
<1>6. ProcessInv'
  BY <1>1
  DEF StartupInv, ProcessInv, InOrder, StatementsDone, RightsMoving,
      CleanSoFar
<1> QED  BY <1>4, <1>5, <1>6 DEF StartupInv

LEMMA ChangeAdminPasswordSound ==
  ASSUME StartupInv, ChangeAdminPassword
  PROVE  StartupInv'
<1>1. /\ main.at = "serve" /\ admin.exists
      /\ UNCHANGED <<schema, recorded, markets, names, boss, fills, main,
                     lost>>
      /\ admin' \in Admin /\ admin'.exists /\ admin'.perms = admin.perms
  BY StartupTyped DEF ChangeAdminPassword, Admin
<1>2. StartupTypeOK'
  BY <1>1 DEF StartupInv, StartupTypeOK
<1>3. DatabaseInv'
  BY <1>1
  DEF StartupInv, DatabaseInv, TextsExist, RightsMoved, OwnerExists,
      RecordedIsApplied, OldVersion
<1>4. ProcessInv'
  BY <1>1
  DEF StartupInv, ProcessInv, InOrder, StatementsDone, RightsMoving,
      CleanSoFar
<1> QED  BY <1>2, <1>3, <1>4 DEF StartupInv

-----------------------------------------------------------------------------
(* The invariant *)

LEMMA StartupInitSound ==
  ASSUME StartupInit
  PROVE  StartupInv
<1>1. main = Down /\ lost = FALSE
  BY DEF StartupInit
<1>2. ProcessInv
  BY <1>1, DownIs
  DEF ProcessInv, InOrder, StatementsDone, RightsMoving, CleanSoFar
<1>3. CASE /\ schema = {} /\ recorded = {} /\ fills = TRUE
           /\ markets = [m \in {} |-> [c \in TextColumns |-> "none"]]
           /\ names = {} /\ boss = {}
           /\ admin = [exists |-> FALSE, password |-> "seeded",
                       perms |-> {}]
  <2>1. StartupTypeOK
    BY <1>1, <1>3, DownIs DEF StartupTypeOK, Admin
  <2>2. DatabaseInv
    BY <1>3
    DEF DatabaseInv, TextsExist, RightsMoved, OwnerExists, RecordedIsApplied,
        OldVersion
  <2> QED  BY <1>2, <2>1, <2>2 DEF StartupInv
<1>4. ASSUME NEW n \in 0..4, recorded = 1..n, fills \in BOOLEAN,
             schema = (IF n < 4 THEN Old ELSE Old \ {"user_type"})
                        \cup UNION {Made(i) : i \in 1..n},
             markets = [m \in {"old"} |-> [c \in TextColumns |->
               IF c \in schema THEN "own" ELSE "none"]],
             names = Granted(n), boss = Granted(n),
             admin = [exists |-> TRUE, password |-> "own",
                      perms |-> Granted(n)]
      PROVE  StartupInv
  <2>1. \A i \in 1..n : i \in Ids /\ Made(i) \subseteq Complete
    BY UpIs, MadeByStatements
  <2>2. /\ DOMAIN markets = {"old"}
        /\ \A c \in TextColumns :
             markets["old"][c] = IF c \in schema THEN "own" ELSE "none"
        /\ markets["old"] \in [TextColumns -> Texts]
    BY <1>4 DEF Texts
  <2>3. /\ schema \subseteq Old \cup Complete
        /\ "markets" \in schema /\ (n < 4 => "user_type" \in schema)
        /\ \A i \in 1..n : Made(i) \subseteq schema
    BY <1>4, <2>1 DEF Old
  <2>4. /\ Granted(n) \subseteq Permissions
        /\ n = 4 => Granted(n) = Permissions
        /\ admin \in Admin
    BY <1>4 DEF Admin, Granted
  <2>5. StartupTypeOK
    BY <1>1, <1>4, <2>1, <2>2, <2>3, <2>4, DownIs DEF StartupTypeOK
  <2>6. TextsExist /\ OwnerExists
    BY <1>4, <2>2 DEF TextsExist, OwnerExists
  <2>7. RecordedIsApplied
    BY <1>4, <2>2, <2>3 DEF RecordedIsApplied
  <2>8. RightsMoved
    <3>1. n < 4 => "user_type" \in schema /\ 4 \notin recorded
      BY <1>4, <2>3
    <3>2. n = 4 => boss = Permissions
      BY <1>4, <2>4
    <3> QED  BY <3>1, <3>2 DEF RightsMoved
  <2> QED  BY <1>2, <2>5, <2>6, <2>7, <2>8 DEF StartupInv, DatabaseInv
<1> QED  BY <1>3, <1>4 DEF StartupInit

LEMMA StartupStep ==
  ASSUME StartupInv, [Next]_vars
  PROVE  StartupInv'
<1>1. CASE Starting
  <2>1. StartupNext
    BY <1>1 DEF Starting
  <2> QED
    BY <2>1, StartSound, LoadAppliedSound, MigrateSound, MigrateFailsSound,
       RecordMigrationSound, SeedPermissionSound, FindAdminSound,
       CreateAdminSound, ReplacePermissionsSound, NewMarketSound,
       ChangeAdminPasswordSound
    DEF StartupNext
<1>2. CASE Ending
  BY <1>2, StartSound DEF Ending
<1>3. CASE UNCHANGED startupVars
  <2>1. UNCHANGED <<schema, recorded, markets, names, admin, boss, fills,
                    main, lost>>
    BY <1>3 DEF startupVars, database
  <2> QED
    BY <2>1
    DEF StartupInv, StartupTypeOK, DatabaseInv, TextsExist, RightsMoved,
        OldVersion, OwnerExists, RecordedIsApplied, ProcessInv, InOrder,
        StatementsDone, Done, RightsMoving, Moved, CleanSoFar
<1>4. Limiting \/ UNCHANGED vars => UNCHANGED startupVars
  BY DEF Limiting, vars
<1> QED  BY <1>1, <1>2, <1>3, <1>4 DEF Next

LEMMA StartupInvariant == Init /\ [][Next]_vars => []StartupInv
<1>1. Init => StartupInv
  BY StartupInitSound DEF Init
<1>2. StartupInv /\ [Next]_vars => StartupInv'
  BY StartupStep
<1> QED  BY <1>1, <1>2, PTL

-----------------------------------------------------------------------------
(* The theorems *)

(* All variables keep their types for any number of starts, clients and    *)
(* permissions; no column exists without its table, and a request whose    *)
(* bucket the map has lost was there when the cleanup deleted it.          *)
THEOREM ServerTypeCorrect == Spec => []TypeOK
<1>1. ServerInv /\ StartupInv => TypeOK
  BY DEF ServerInv, Sees, LimiterInv, StartupInv, TypeOK
<1> QED  BY <1>1, ServerInvariant, StartupInvariant, PTL DEF Spec

(* Whatever fails or dies in whichever start (MigrateDB, the migrations):  *)
(* an id in schema_migrations means that all before it are there too, its  *)
(* columns exist and no market has an empty text in them.                  *)
THEOREM RecordIsTrue == Spec => []RecordedIsApplied
<1>1. StartupInv => RecordedIsApplied
  BY DEF StartupInv, DatabaseInv
<1> QED  BY <1>1, StartupInvariant, PTL DEF Spec

(* A start in which nothing fails (MigrateDB, SeedUsers) completes what    *)
(* any earlier ones left half done.                                        *)
THEOREM CleanStartsComplete == Spec => []CleanStartCompletes
<1>1. ASSUME StartupInv
      PROVE  CleanStartCompletes
  <2> SUFFICES ASSUME main.at = "serve", main.clean
               PROVE  /\ recorded = Ids /\ Complete \subseteq schema
                      /\ names = Permissions
                      /\ admin.exists /\ admin.perms = Permissions
    BY DEF CleanStartCompletes
  <2>1. /\ recorded = Ids /\ names = Permissions
        /\ admin.exists /\ admin.perms = Permissions
    BY <1>1 DEF StartupInv, ProcessInv, CleanSoFar
  <2>2. \A i \in Ids : Made(i) \subseteq schema
    BY <1>1, <2>1 DEF StartupInv, DatabaseInv, RecordedIsApplied
  <2> QED  BY <2>1, <2>2 DEF Complete
<1> QED  BY <1>1, StartupInvariant, PTL DEF Spec

(* Dying anywhere in the migration to permissions costs no former          *)
(* administrator a right: the column that says who they are is dropped     *)
(* only after all have been granted.                                       *)
THEOREM RightsSurviveMigration == Spec => []AdminsKeepRights
<1>1. StartupInv => AdminsKeepRights
  BY DEF StartupInv, DatabaseInv, RightsMoved, OldVersion, AdminsKeepRights
<1> QED  BY <1>1, StartupInvariant, PTL DEF Spec

(* No statement of a migration or of the seed overwrites a text or a       *)
(* password that a user has set.                                           *)
THEOREM SettingsAreKept == Spec => SettingsSurvive
<1> DEFINE Keeps ==
      /\ \A m \in DOMAIN markets, c \in TextColumns :
           markets[m][c] = "own" => markets'[m][c] = "own"
      /\ admin.password = "own" => admin'.password = "own"
<1>1. ASSUME StartupInv, [Next]_vars
      PROVE  [Keeps]_database
  <2>1. CASE UNCHANGED database
    BY <2>1
  <2>2. CASE Migrate
    <3>1. Effect(Statement)
      BY <2>2 DEF Migrate
    <3>2. CASE Statement.do = "create"
      <4>1. CreateMissing(Statement.what) /\ UNCHANGED admin
        BY <3>1, <3>2 DEF Effect
      <4> QED  BY <4>1 DEF CreateMissing
    <3>3. CASE Statement.do = "fill"
      <4>1. /\ markets' = [m \in DOMAIN markets |->
                            [markets[m] EXCEPT ![Statement.what] = Filled(@)]]
            /\ UNCHANGED admin
        BY <3>1, <3>3 DEF Effect
      <4>2. Filled("own") = "own"
        BY DEF Filled
      <4>3. \A m \in DOMAIN markets : markets[m] \in [TextColumns -> Texts]
        BY <1>1 DEF StartupInv, StartupTypeOK
      <4> QED  BY <4>1, <4>2, <4>3
    <3>4. CASE Statement.do \notin {"create", "fill"}
      <4>1. markets' = markets /\ admin'.password = admin.password
        <5>1. CASE Statement.do = "row"
          BY <3>1, <5>1 DEF Effect
        <5>2. CASE Statement.do = "drop"
          BY <3>1, <5>2 DEF Effect
        <5>3. CASE Statement.do = "grant" /\ main.found
          BY <1>1, <3>1, <5>3, StartupTyped DEF Effect, Admin
        <5>4. CASE ~(Statement.do = "grant" /\ main.found)
                   /\ Statement.do \notin {"row", "drop"}
          BY <3>1, <3>4, <5>4 DEF Effect, database
        <5> QED  BY <5>1, <5>2, <5>3, <5>4
      <4> QED  BY <4>1
    <3> QED  BY <3>2, <3>3, <3>4
  <2>3. CASE CreateAdmin
    <3>1. /\ markets' = markets
          /\ \/ ~admin.exists
             \/ admin' = admin
      BY <2>3 DEF CreateAdmin
    <3> QED  BY <1>1, <3>1 DEF StartupInv, DatabaseInv, OwnerExists
  <2>4. CASE ReplacePermissions
    BY <1>1, <2>4, StartupTyped DEF ReplacePermissions, Admin
  <2>5. CASE NewMarket
    BY <2>5 DEF NewMarket
  <2>6. CASE ChangeAdminPassword
    BY <1>1, <2>6, StartupTyped DEF ChangeAdminPassword, Admin
  <2>7. CASE RecordMigration \/ SeedPermission
    BY <2>7 DEF RecordMigration, SeedPermission
  <2>8. \/ UNCHANGED database \/ Migrate \/ CreateAdmin \/ ReplacePermissions
        \/ NewMarket \/ ChangeAdminPassword
        \/ RecordMigration \/ SeedPermission
    <3>1. CASE Starting
      BY <3>1
      DEF Starting, StartupNext, Start, Connect, LoadApplied, MigrateFails,
          FindAdmin
    <3>2. CASE Limiting \/ Ending \/ UNCHANGED vars
      BY <3>2 DEF Limiting, Ending, Stop, vars, startupVars
    <3> QED  BY <1>1, <3>1, <3>2 DEF Next
  <2> QED
    BY <2>1, <2>2, <2>3, <2>4, <2>5, <2>6, <2>7, <2>8
<1>2. []StartupInv /\ [][Next]_vars => [][Keeps]_database
  BY <1>1, PTL
<1> QED  BY <1>2, StartupInvariant, PTL DEF Spec, SettingsSurvive
=============================================================================
