----------------------------- MODULE BookProofs -----------------------------
(***************************************************************************)
(* What the pricing pipeline guarantees for every log of buys and sales,   *)
(* every amount, and whichever way the float arithmetic falls out: the     *)
(* theorems at the end, for the module MarketBook, and before them the     *)
(* lemmas about each stage.  The stages are only defined while the         *)
(* denominators of the prices are positive (the program divides by them),  *)
(* so the theorems are about the behaviours in which PriceDefined always   *)
(* holds.                                                                  *)
(***************************************************************************)
EXTENDS MarketBook, MathProofs, SequenceTheorems

-----------------------------------------------------------------------------
(* Dealing out a remainder *)

(* Places in a queue are numbered without gaps: if B[u] is who comes       *)
(* before u, r of them have fewer than r before them.                      *)
LEMMA PlacesAreCounted ==
  ASSUME NEW H, IsFiniteSet(H), NEW B \in [H -> SUBSET H],
         \A u \in H : u \notin B[u],
         \A u, v \in H : u # v => u \in B[v] \/ v \in B[u],
         \A u, v \in H : u \in B[v] => B[u] \subseteq B[v],
         NEW r \in 0..Cardinality(H)
  PROVE  Cardinality({u \in H : Cardinality(B[u]) < r}) = r
<1> DEFINE n == Cardinality(H)
           place == [u \in H |-> Cardinality(B[u])]
           First == {u \in H : place[u] < r}
           p == [u \in First |-> place[u]]
<1>1. n \in Nat /\ \A u \in H : IsFiniteSet(B[u]) /\ place[u] \in Nat
  BY FS_CardinalityType, FS_Subset
<1>2. \A u, v \in H : u \in B[v] => place[u] < place[v]
  <2> SUFFICES ASSUME NEW u \in H, NEW v \in H, u \in B[v]
               PROVE  place[u] < place[v]
    OBVIOUS
  <2>1. B[u] \subseteq B[v] /\ B[u] # B[v]
    OBVIOUS
  <2>2. place[u] <= place[v] /\ place[u] # place[v]
    BY <2>1, <1>1, FS_Subset
  <2> QED  BY <2>2, <1>1
<1>3. \A u \in H : place[u] < n
  <2> SUFFICES ASSUME NEW u \in H PROVE place[u] < n
    OBVIOUS
  <2>1. B[u] \in SUBSET H /\ B[u] # H
    OBVIOUS
  <2>2. place[u] <= n /\ place[u] # n
    BY <2>1, FS_Subset
  <2> QED  BY <2>2, <1>1
<1>4. IsFiniteSet(0..(n - 1)) /\ Cardinality(0..(n - 1)) = n
  <2> HIDE DEF n
  <2>1. 0 \in Int /\ n - 1 \in Int /\ (n - 1) - 0 + 1 = n
    BY <1>1
  <2>2. 0 > n - 1 => n = 0
    BY <1>1
  <2> QED  BY <2>1, <2>2, FS_Interval
<1>5. place \in Injection(H, 0..(n - 1))
  <2>1. place \in [H -> 0..(n - 1)]
    BY <1>1, <1>3
  <2>2. \A u, v \in H : place[u] = place[v] => u = v
    BY <1>1, <1>2
  <2> HIDE DEF place
  <2> QED  BY <2>1, <2>2 DEF Injection, IsInjective
<1>6. place \in Surjection(H, 0..(n - 1))
  BY <1>4, <1>5, FS_Injection
<1>7. p \in Bijection(First, 0..(r - 1))
  <2>1. p \in [First -> 0..(r - 1)]
    BY <1>1
  <2>2. \A u, v \in First : p[u] = p[v] => u = v
    BY <1>5 DEF Injection, IsInjective
  <2>3. \A k \in 0..(r - 1) : \E u \in First : p[u] = k
    <3> SUFFICES ASSUME NEW k \in 0..(r - 1) PROVE \E u \in First : p[u] = k
      OBVIOUS
    <3>1. k \in 0..(n - 1)
      BY <1>1
    <3>2. PICK u \in H : place[u] = k
      BY <3>1, <1>6 DEF Surjection
    <3> QED  BY <3>2
  <2> HIDE DEF p, First
  <2> QED  BY <2>1, <2>2, <2>3
           DEF Bijection, Injection, Surjection, IsInjective
<1>8. IsFiniteSet(First)
  BY FS_Subset
<1>9. Cardinality(0..(r - 1)) = Cardinality(First)
  <2> HIDE DEF p, First
  <2> QED  BY <1>7, <1>8, FS_Bijection DEF ExistsBijection
<1>10. Cardinality(0..(r - 1)) = r
  BY <1>1, FS_Interval
<1>11. First = {u \in H : Cardinality(B[u]) < r}
  OBVIOUS
<1> QED  BY <1>9, <1>10, <1>11

(* The first position in a list of numbers: FiniteSetsExt's Min.           *)
LEMMA MinIsLeast ==
  ASSUME NEW S \in SUBSET Nat, S # {}
  PROVE  Min(S) \in S /\ \A x \in S : Min(S) <= x
<1>1. \E x \in S : \A y \in S : x <= y
  BY LeastNat
<1> QED  BY <1>1 DEF Min

LEMMA EarliestBets ==
  ASSUME NEW log, NEW n \in Nat, DOMAIN log = 1..n
  PROVE  /\ \A u \in Bettors(log) : /\ EarliestBet(log, u) \in 1..n
                                    /\ log[EarliestBet(log, u)].user = u
         /\ \A u, v \in Bettors(log) :
              EarliestBet(log, u) = EarliestBet(log, v) => u = v
<1>1. ASSUME NEW u \in Bettors(log)
      PROVE  EarliestBet(log, u) \in 1..n /\ log[EarliestBet(log, u)].user = u
  <2> DEFINE S == {i \in DOMAIN log : log[i].user = u}
  <2>1. S \in SUBSET Nat /\ S # {}
    BY DEF Bettors
  <2>2. EarliestBet(log, u) = Min(S)
    BY DEF EarliestBet
  <2>3. Min(S) \in S
    BY <2>1, MinIsLeast
  <2> QED  BY <2>2, <2>3
<1>2. ASSUME NEW u \in Bettors(log), NEW v \in Bettors(log),
             EarliestBet(log, u) = EarliestBet(log, v)
      PROVE  u = v
  <2>1. log[EarliestBet(log, u)].user = u /\ log[EarliestBet(log, v)].user = v
    BY <1>1
  <2> QED  BY <2>1, <1>2
<1> QED  BY <1>1, <1>2

Holders(values) == {u \in DOMAIN values : values[u] > 0}

LEMMA HoldersInTurn ==
  ASSUME NEW log, NEW n \in Nat, DOMAIN log = 1..n,
         NEW values \in [Bettors(log) -> Int],
         IsFiniteSet(Bettors(log)),
         NEW r \in 0..Cardinality(Holders(values))
  PROVE  Cardinality({u \in Holders(values) :
           Cardinality(Before(log, values, Holders(values), u)) < r}) = r
<1> DEFINE H == Holders(values)
           B == [u \in H |-> Before(log, values, H, u)]
           at(u) == EarliestBet(log, u)
<1>1. H \subseteq Bettors(log) /\ IsFiniteSet(H)
  BY FS_Subset DEF Holders
<1>2. /\ \A u \in H : at(u) \in Nat /\ values[u] \in Int
      /\ \A u, v \in H : at(u) = at(v) => u = v
  BY <1>1, EarliestBets
<1>3. \A u, v \in H : u \in B[v] <=>
        values[u] > values[v] \/ (values[u] = values[v] /\ at(u) < at(v))
  BY DEF Before
<1>4. B \in [H -> SUBSET H]
  BY DEF Before
<1> HIDE DEF H, B, at
<1>5. \A u \in H : u \notin B[u]
  BY <1>2, <1>3
<1>6. \A u, v \in H : u # v => u \in B[v] \/ v \in B[u]
  BY <1>2, <1>3
<1>7. \A u, v \in H : u \in B[v] => B[u] \subseteq B[v]
  <2> SUFFICES ASSUME NEW u \in H, NEW v \in H, u \in B[v],
                      NEW w \in B[u]
               PROVE  w \in B[v]
    OBVIOUS
  <2>1. w \in H
    BY <1>4
  <2> QED  BY <2>1, <1>2, <1>3
<1>8. r \in 0..Cardinality(H)
  BY DEF H
<1>9. Cardinality({u \in H : Cardinality(B[u]) < r}) = r
  BY <1>1, <1>4, <1>5, <1>6, <1>7, <1>8, PlacesAreCounted
<1>10. {u \in H : Cardinality(B[u]) < r} =
         {u \in Holders(values) :
            Cardinality(Before(log, values, Holders(values), u)) < r}
  BY DEF H, B
<1> QED  BY <1>9, <1>10

(* Division with remainder, and what q a head with m extra adds up to.     *)
LEMMA Remainder ==
  ASSUME NEW a \in Nat, NEW b \in Nat \ {0}
  PROVE  /\ a \div b \in Nat /\ a % b \in 0..(b - 1)
         /\ a = b * (a \div b) + (a % b)
  BY SMT

LEMMA Shares ==
  ASSUME NEW q \in Int, NEW k \in Int, NEW c \in Int, NEW m \in Int
  PROVE  (q + k) * m + q * (c - m) = q * c + k * m
  BY SMT

(* A sum in which every term gains k, and the terms of T gain e more.      *)
LEMMA SumBumped ==
  ASSUME NEW S, IsFiniteSet(S), NEW T \in SUBSET S,
         NEW f, IntsOn(f, S), NEW k \in Int, NEW e \in Int, NEW h,
         \A x \in S : h[x] = f[x] + (IF x \in T THEN k + e ELSE k)
  PROVE  SumOf(h, S) = SumOf(f, S) + (k * Cardinality(S)
                                        + e * Cardinality(T))
<1> DEFINE g == [x \in S |-> IF x \in T THEN k + e ELSE k]
           c == Cardinality(S)
           m == Cardinality(T)
<1>1. IntsOn(g, S) /\ \A x \in S : h[x] = f[x] + g[x]
  BY DEF IntsOn
<1>2. /\ IsFiniteSet(T) /\ IsFiniteSet(S \ T) /\ S \cap T = T
      /\ c \in Nat /\ m \in Nat
  BY FS_Subset, FS_CardinalityType
<1>3. Cardinality(S \ T) = c - m
  <2>1. Cardinality(S \ T) = c - Cardinality(S \cap T)
    BY FS_Difference
  <2> QED  BY <2>1, <1>2, Zenon
<1>4. (\A x \in T : g[x] = k + e) /\ (\A x \in S \ T : g[x] = k)
  OBVIOUS
<1> HIDE DEF g, c, m
<1>5. SumOf(g, T) = (k + e) * m /\ SumOf(g, S \ T) = k * (c - m)
  <2>1. SumOf(g, T) = (k + e) * Cardinality(T)
    BY <1>2, <1>4, SumConstant
  <2>2. SumOf(g, S \ T) = k * Cardinality(S \ T)
    BY <1>2, <1>4, SumConstant
  <2> QED  BY <2>1, <2>2, <1>3 DEF m
<1>6. SumOf(g, S) = k * c + e * m
  <2>1. SumOf(g, S) = SumOf(g, T) + SumOf(g, S \ T)
    BY <1>1, SumSplit
  <2>2. (k + e) * m + k * (c - m) = k * c + e * m
    BY <1>2, Shares
  <2> QED  BY <2>1, <2>2, <1>5
<1>7. SumOf(h, S) = SumOf(f, S) + SumOf(g, S)
  BY <1>1, SumPlus
<1> QED  BY <1>6, <1>7 DEF c, m

(* adjust_valuation.go deals out the whole difference to the volume.       *)
LEMMA ValuesAreDealtOut ==
  ASSUME NEW log, NEW n \in Nat, DOMAIN log = 1..n,
         IsFiniteSet(Bettors(log)), Volume(log) \in Int,
         NEW values \in [Bettors(log) -> Int]
  PROVE  LET adjusted == AdjustUserValuationsToMarketVolume(log, values)
         IN  /\ adjusted \in [Bettors(log) -> Int]
             /\ Holders(values) = {} => adjusted = values
             /\ Holders(values) # {} =>
                  SumOf(adjusted, Bettors(log)) = Volume(log)
<1> DEFINE D == Bettors(log)
           H == Holders(values)
           V == Volume(log)
           S == SumOf(values, H)
           delta == V - S
           sign == IF delta < 0 THEN -1 ELSE 1
           c == Cardinality(H)
           q == Absolute(delta) \div c
           m == Absolute(delta) % c
           place(u) == Cardinality(Before(log, values, H, u))
           adjusted == AdjustUserValuationsToMarketVolume(log, values)
<1>1. adjusted = [u \in D |->
        IF u \in H
        THEN values[u] + sign * (q + (IF place(u) < m THEN 1 ELSE 0))
        ELSE IF H = {} THEN values[u] ELSE 0]
  BY DEF AdjustUserValuationsToMarketVolume, Holders
<1>2. H \subseteq D /\ IsFiniteSet(H) /\ IntsOn(values, H) /\ S \in Int
  <2>1. H \subseteq D /\ IsFiniteSet(H) /\ IntsOn(values, H)
    BY FS_Subset DEF Holders, IntsOn
  <2> QED  BY <2>1, SumInt
<1>3. delta \in Int /\ Absolute(delta) \in Nat /\ sign \in {1, -1}
      /\ delta = sign * Absolute(delta) /\ c \in Nat /\ (H # {} => c # 0)
  <2>1. delta \in Int /\ c \in Nat /\ (H # {} => c # 0)
    BY <1>2, FS_CardinalityType, FS_EmptySet
  <2> HIDE DEF delta, c
  <2> QED  BY <2>1 DEF Absolute
<1> HIDE DEF adjusted, H, S, delta, c
<1>4. CASE H = {}
  <2>1. adjusted = values
    BY <1>1, <1>4
  <2> QED  BY <2>1, <1>4 DEF adjusted, H
<1>5. CASE H # {}
  <2>1. /\ q \in Nat /\ m \in 0..(c - 1)
        /\ Absolute(delta) = c * q + m
    BY <1>3, <1>5, Remainder
  <2> HIDE DEF q, m, sign
  <2> DEFINE First == {u \in H : place(u) < m}
  <2>2. Cardinality(First) = m
    <3>1. m \in 0..Cardinality(Holders(values))
      BY <1>3, <2>1 DEF c, H
    <3> QED  BY <3>1, HoldersInTurn DEF H
  <2>3. \A u \in H : values[u] \in Int /\ adjusted[u] =
          values[u] + (IF u \in First THEN sign * q + sign ELSE sign * q)
    <3> SUFFICES ASSUME NEW u \in H
                 PROVE  values[u] \in Int /\ adjusted[u] =
          values[u] + (IF u \in First THEN sign * q + sign ELSE sign * q)
      OBVIOUS
    <3>1. adjusted[u] = values[u]
                          + sign * (q + (IF place(u) < m THEN 1 ELSE 0))
      BY <1>1, <1>2
    <3>2. values[u] \in Int
      BY <1>2 DEF IntsOn
    <3> HIDE DEF place
    <3>3. CASE place(u) < m
      BY <3>1, <3>2, <3>3, <1>3, <2>1
    <3>4. CASE ~(place(u) < m)
      BY <3>1, <3>2, <3>4, <1>3, <2>1
    <3> QED  BY <3>3, <3>4
  <2>4. adjusted \in [D -> Int]
    <3>1. \A u \in D : adjusted[u] \in Int
      <4> TAKE u \in D
      <4>1. CASE u \in H
        <5>1. sign * q \in Int /\ sign * q + sign \in Int
          BY <1>3, <2>1
        <5> HIDE DEF First
        <5> QED  BY <4>1, <5>1, <2>3
      <4>2. CASE u \notin H
        BY <4>2, <1>1, <1>5
      <4> QED  BY <4>1, <4>2
    <3> QED  BY <3>1, <1>1
  <2>5. (sign * q) * c + sign * m = sign * Absolute(delta)
    <3>1. CASE sign = 1
      BY <3>1, <1>3, <2>1
    <3>2. CASE sign = -1
      BY <3>2, <1>3, <2>1
    <3> QED  BY <3>1, <3>2, <1>3
  <2>6. SumOf(adjusted, H) = S + delta
    <3>1. First \in SUBSET H /\ sign * q \in Int /\ sign \in Int
      BY <1>3, <2>1
    <3> HIDE DEF First
    <3>2. SumOf(adjusted, H) = SumOf(values, H)
            + ((sign * q) * Cardinality(H) + sign * Cardinality(First))
      BY <1>2, <2>3, <3>1, SumBumped
    <3> QED  BY <3>2, <2>2, <2>5, <1>3 DEF S, c
  <2>7. SumOf(adjusted, D \ H) = 0
    <3>1. IsFiniteSet(D \ H)
      BY FS_Subset
    <3>2. \A u \in D \ H : adjusted[u] = 0
      BY <1>1, <1>5
    <3>3. SumOf(adjusted, D \ H) = 0 * Cardinality(D \ H)
      BY <3>1, <3>2, SumConstant
    <3> QED  BY <3>1, <3>3, FS_CardinalityType
  <2>8. SumOf(adjusted, D) = SumOf(adjusted, H) + SumOf(adjusted, D \ H)
    <3>1. IntsOn(adjusted, D)
      BY <2>4 DEF IntsOn
    <3> QED  BY <3>1, <1>2, SumSplit
  <2>9. SumOf(adjusted, D) = V
    <3>1. S + (V - S) + 0 = V
      BY <1>2
    <3> QED  BY <3>1, <2>6, <2>7, <2>8 DEF delta
  <2> QED  BY <2>4, <2>9, <1>5 DEF adjusted, H
<1> QED  BY <1>4, <1>5

-----------------------------------------------------------------------------
(* Raising rows to one share *)

(* Computed only makes TLC compute the elements of a sequence.             *)
LEMMA ComputedIsItself ==
  ASSUME NEW n \in Nat, NEW s, s = [i \in 1..n |-> s[i]]
  PROVE  Computed(s) = s
<1>1. Len(s) = n
  OBVIOUS
<1> QED  BY <1>1 DEF Computed

(* Of finitely many rows one has the first largest payout.                 *)
LEMMA FirstLargest ==
  ASSUME NEW S \in SUBSET Nat, IsFiniteSet(S), S # {}, NEW p, IntsOn(p, S)
  PROVE  \E j \in S : \A k \in S : p[j] > p[k] \/ (p[j] = p[k] /\ j <= k)
<1> DEFINE Best(T, j) == \A k \in T : p[j] > p[k] \/ (p[j] = p[k] /\ j <= k)
           Good == {T \in SUBSET S : T # {} => \E j \in T : Best(T, j)}
<1>1. {} \in Good
  OBVIOUS
<1>2. ASSUME NEW T \in SUBSET S, NEW x \in S, T \in Good, x \notin T
      PROVE  T \cup {x} \in Good
  <2>0. \A j \in S : j \in Nat /\ p[j] \in Int
    BY DEF IntsOn
  <2>1. CASE T = {}
    <3>1. Best(T \cup {x}, x)
      BY <2>0, <2>1
    <3> QED  BY <3>1
  <2>2. CASE T # {}
    <3>1. PICK j \in T : Best(T, j)
      BY <1>2, <2>2
    <3>2. CASE p[j] > p[x] \/ (p[j] = p[x] /\ j <= x)
      <4>1. Best(T \cup {x}, j)
        BY <3>1, <3>2
      <4> QED  BY <4>1
    <3>3. CASE ~(p[j] > p[x] \/ (p[j] = p[x] /\ j <= x))
      <4>1. p[x] > p[j] \/ (p[x] = p[j] /\ x <= j)
        BY <2>0, <3>3
      <4>2. Best(T \cup {x}, x)
        BY <2>0, <3>1, <4>1
      <4> QED  BY <4>2
    <3> QED  BY <3>2, <3>3
  <2> QED  BY <2>1, <2>2
<1> HIDE DEF Good
<1>3. S \in Good
  BY <1>1, <1>2, SetInduction
<1> QED  BY <1>3 DEF Good

(* The rows of i's side, other than i.                                     *)
Others(log, i) == Rows(log, log[i].outcome) \ {i}

(* A row that cannot be raised, because nobody on its side has enough.     *)
Stuck(log, p, i) ==
  p[i] <= 0 => \A j \in Others(log, i) : p[j] <= 1 - p[i]

(* The payouts after donor d raised row i to one share.                    *)
Raised(n, p, i, d) ==
  [j \in 1..n |-> IF j = i THEN 1
                  ELSE IF j = d THEN p[d] - (1 - p[i]) ELSE p[j]]

(* What one row takes from a donor of its side.                            *)
LEMMA RaiseCases ==
  ASSUME NEW n \in Nat, NEW log, DOMAIN log = 1..n,
         NEW p \in [1..n -> Int], NEW i \in 1..n
  PROVE  \/ RaiseToOne(log, p, i) = p /\ Stuck(log, p, i)
         \/ \E d \in Others(log, i) :
              /\ p[i] <= 0 /\ p[d] > 1 - p[i]
              /\ RaiseToOne(log, p, i) = Raised(n, p, i, d)
<1> DEFINE side == {j \in Others(log, i) : p[j] > 0}
           delta == 1 - p[i]
           donor == {j \in Donors(log, p, i) : p[j] > delta}
           raised == [j \in 1..n |->
             IF j = i /\ donor # {} THEN 1
             ELSE IF j \in donor THEN p[j] - delta ELSE p[j]]
<1>0. Donors(log, p, i) =
        {j \in side : \A k \in side : p[j] > p[k] \/ (p[j] = p[k] /\ j <= k)}
  BY DEF Donors, Others
<1>1. side \subseteq 1..n /\ side \in SUBSET Nat /\ IsFiniteSet(side)
  <2>1. side \subseteq 1..n /\ side \in SUBSET Nat
    BY DEF Others, Rows
  <2>2. IsFiniteSet(1..n)
    BY FS_Interval
  <2> QED  BY <2>1, <2>2, FS_Subset
<1>2. RaiseToOne(log, p, i) = IF p[i] > 0 THEN p ELSE raised
  <2>1. Computed(raised) = raised
    BY ComputedIsItself
  <2>2. RaiseToOne(log, p, i) = IF p[i] > 0 THEN p ELSE Computed(raised)
    BY DEF RaiseToOne
  <2> QED  BY <2>1, <2>2
<1>3. CASE p[i] > 0
  BY <1>2, <1>3 DEF Stuck
<1>4. CASE p[i] <= 0 /\ donor = {}
  <2>1. raised = p
    BY <1>4
  <2>2. Stuck(log, p, i)
    <3> SUFFICES ASSUME NEW j \in Others(log, i), p[j] > delta PROVE FALSE
      BY DEF Stuck, Others, Rows
    <3>1. j \in side
      BY <1>4 DEF Others, Rows
    <3>2. IntsOn(p, side)
      BY <1>1 DEF IntsOn
    <3>3. PICK d \in side :
            \A k \in side : p[d] > p[k] \/ (p[d] = p[k] /\ d <= k)
      <4> HIDE DEF side
      <4> QED  BY <1>1, <3>1, <3>2, FirstLargest
    <3>4. p[d] >= p[j] /\ p[d] \in Int /\ p[j] \in Int
      BY <1>1, <3>1, <3>3
    <3>5. d \in donor
      BY <1>0, <3>3, <3>4
    <3> QED  BY <3>5, <1>4
  <2> QED  BY <1>2, <1>4, <2>1, <2>2
<1>5. CASE p[i] <= 0 /\ donor # {}
  <2>1. PICK d \in donor : TRUE
    BY <1>5
  <2>2. d \in Others(log, i) /\ p[d] > delta
    BY <1>0, <2>1
  <2>3. \A j \in 1..n : j \in donor <=> j = d
    <3> SUFFICES ASSUME NEW j \in 1..n, j \in donor PROVE j = d
      BY <2>1
    <3>1. /\ p[j] > p[d] \/ (p[j] = p[d] /\ j <= d)
          /\ p[d] > p[j] \/ (p[d] = p[j] /\ d <= j)
      BY <1>0, <2>1
    <3>2. d \in 1..n
      BY <1>0, <1>1, <2>1
    <3> QED  BY <3>1, <3>2
  <2>4. raised = Raised(n, p, i, d)
    <3> HIDE DEF donor
    <3> QED  BY <1>5, <2>3 DEF Raised
  <2>5. ~(p[i] > 0)
    BY <1>5
  <2> HIDE DEF raised
  <2> QED  BY <1>2, <1>5, <2>2, <2>4, <2>5
<1> QED  BY <1>3, <1>4, <1>5

LEMMA RowsFinite ==
  ASSUME NEW n \in Nat, NEW log, DOMAIN log = 1..n
  PROVE  /\ IsFiniteSet(1..n)
         /\ \A o : IsFiniteSet(Rows(log, o)) /\ Rows(log, o) \subseteq 1..n
<1>1. IsFiniteSet(1..n)
  BY FS_Interval
<1>2. ASSUME NEW o
      PROVE  IsFiniteSet(Rows(log, o)) /\ Rows(log, o) \subseteq 1..n
  <2>1. Rows(log, o) \subseteq 1..n
    BY DEF Rows
  <2> QED  BY <1>1, <2>1, FS_Subset
<1> QED  BY <1>1, <1>2

(* Raising moves shares within a side, and leaves no stuck row behind that *)
(* was not stuck before, nor i itself unless it is stuck.                  *)
LEMMA RaiseKeeps ==
  ASSUME NEW n \in Nat, NEW log, DOMAIN log = 1..n,
         NEW p \in [1..n -> Int], NEW i \in 1..n
  PROVE  LET q == RaiseToOne(log, p, i)
         IN  /\ q \in [1..n -> Int]
             /\ \A o : SumOf(q, Rows(log, o)) = SumOf(p, Rows(log, o))
             /\ Stuck(log, q, i)
             /\ \A k \in 1..n : Stuck(log, p, k) => Stuck(log, q, k)
<1> DEFINE q == RaiseToOne(log, p, i)
<1>1. CASE q = p /\ Stuck(log, p, i)
  BY <1>1
<1>2. ASSUME NEW d \in Others(log, i), p[i] <= 0, p[d] > 1 - p[i],
             q = Raised(n, p, i, d)
      PROVE  /\ q \in [1..n -> Int]
             /\ \A o : SumOf(q, Rows(log, o)) = SumOf(p, Rows(log, o))
             /\ Stuck(log, q, i)
             /\ \A k \in 1..n : Stuck(log, p, k) => Stuck(log, q, k)
  <2>0. /\ d \in 1..n /\ d # i /\ log[d].outcome = log[i].outcome
        /\ p[d] \in Int /\ p[i] \in Int
    BY DEF Others, Rows
  <2> HIDE DEF q
  <2>1. q \in [1..n -> Int]
    BY <1>2, <2>0 DEF Raised
  <2>2. /\ q[i] = 1 /\ q[d] = p[d] - (1 - p[i]) /\ q[d] > 0
        /\ \A j \in 1..n : j # i /\ j # d => q[j] = p[j]
    BY <1>2, <2>0 DEF Raised
  <2>3. ASSUME NEW o PROVE SumOf(q, Rows(log, o)) = SumOf(p, Rows(log, o))
    <3> DEFINE S == Rows(log, o)
               T == (S \ {i}) \ {d}
    <3>1. /\ IsFiniteSet(S) /\ S \subseteq 1..n
          /\ IsFiniteSet(S \ {i}) /\ IsFiniteSet(T)
      <4>1. IsFiniteSet(S) /\ S \subseteq 1..n
        BY RowsFinite
      <4> QED  BY <4>1, FS_Subset
    <3>2. /\ IntsOn(p, S) /\ IntsOn(p, S \ {i}) /\ IntsOn(p, T)
          /\ IntsOn(q, S) /\ IntsOn(q, S \ {i}) /\ IntsOn(q, T)
      BY <2>1, <3>1 DEF IntsOn
    <3>3. SumOf(q, T) = SumOf(p, T) /\ SumOf(p, T) \in Int
      <4>1. \A j \in T : q[j] = p[j]
        BY <2>2, <3>1
      <4> HIDE DEF T
      <4> QED  BY <3>1, <3>2, <4>1, SumCongruent, SumInt
    <3>4. CASE o = log[i].outcome
      <4>1. i \in S /\ d \in S \ {i}
        BY <2>0, <3>4 DEF Rows
      <4> HIDE DEF S
      <4>2. /\ SumOf(q, S) = q[i] + SumOf(q, S \ {i})
            /\ SumOf(p, S) = p[i] + SumOf(p, S \ {i})
        BY <3>1, <3>2, <4>1, SumRemove
      <4>3. /\ SumOf(q, S \ {i}) = q[d] + SumOf(q, T)
            /\ SumOf(p, S \ {i}) = p[d] + SumOf(p, T)
        BY <3>1, <3>2, <4>1, SumRemove
      <4>4. SumOf(q, S) = SumOf(p, S)
        <5> HIDE DEF T
        <5> QED  BY <4>2, <4>3, <3>3, <2>0, <2>2
      <4> QED  BY <4>4 DEF S
    <3>5. CASE o # log[i].outcome
      <4>1. i \notin S /\ d \notin S
        BY <2>0, <3>5 DEF Rows
      <4>2. T = S
        BY <4>1
      <4> QED  BY <4>2, <3>3, Zenon
    <3> QED  BY <3>4, <3>5
  <2>4. Stuck(log, q, i)
    BY <2>2 DEF Stuck
  <2>5. ASSUME NEW k \in 1..n, Stuck(log, p, k) PROVE Stuck(log, q, k)
    <3> SUFFICES ASSUME q[k] <= 0, NEW j \in Others(log, k)
                 PROVE  q[j] <= 1 - q[k]
      BY DEF Stuck
    <3>1. k # i /\ k # d /\ q[k] = p[k] /\ p[k] <= 0
      BY <2>2
    <3>2. p[j] <= 1 - p[k]
      BY <3>1, <2>5 DEF Stuck
    <3>3. j \in 1..n /\ p[j] \in Int /\ p[k] \in Int
      BY DEF Others, Rows
    <3>4. CASE j = i
      BY <3>1, <3>3, <3>4, <2>2
    <3>5. CASE j = d
      BY <3>1, <3>2, <3>3, <3>5, <2>2, <2>0, <1>2
    <3>6. CASE j # i /\ j # d
      BY <3>1, <3>2, <3>3, <3>6, <2>2
    <3> QED  BY <3>4, <3>5, <3>6
  <2> QED  BY <2>1, <2>3, <2>4, <2>5
<1>3. \/ q = p /\ Stuck(log, p, i)
      \/ \E d \in Others(log, i) :
           p[i] <= 0 /\ p[d] > 1 - p[i] /\ q = Raised(n, p, i, d)
  BY RaiseCases
<1> HIDE DEF q
<1>4. /\ q \in [1..n -> Int]
      /\ \A o : SumOf(q, Rows(log, o)) = SumOf(p, Rows(log, o))
      /\ Stuck(log, q, i)
      /\ \A k \in 1..n : Stuck(log, p, k) => Stuck(log, q, k)
  BY <1>1, <1>2, <1>3
<1> QED  BY <1>4 DEF q

LEMMA MaxIsGreatest ==
  ASSUME NEW S \in SUBSET Nat, IsFiniteSet(S), S # {}
  PROVE  Max(S) \in S /\ \A x \in S : Max(S) >= x
<1> DEFINE id == [x \in S |-> x]
<1>1. IntsOn(id, S)
  BY DEF IntsOn
<1>2. PICK x \in S : \A y \in S : id[x] > id[y] \/ (id[x] = id[y] /\ x <= y)
  <2> HIDE DEF id
  <2> QED  BY <1>1, FirstLargest
<1>3. \A y \in S : x >= y
  BY <1>2
<1> QED  BY <1>3 DEF Max

(* What raising the rows 1..k has achieved.                                *)
Kept(log, p, n, k, q) ==
  /\ q \in [1..n -> Int]
  /\ \A o : SumOf(q, Rows(log, o)) = SumOf(p, Rows(log, o))
  /\ \A i \in 1..k : Stuck(log, q, i)

(* EnsureMinimumPayouts visits every row once, oldest first.               *)
LEMMA EnsureKeeps ==
  ASSUME NEW n \in Nat, NEW log, DOMAIN log = 1..n, NEW p \in [1..n -> Int]
  PROVE  Kept(log, p, n, n, EnsureMinimumPayouts(log, p))
<1> DEFINE D == 1..n
           V == [D -> Int]
           it == CHOOSE g : g = [s \in SUBSET D |->
                   IF s = {} THEN p
                   ELSE RaiseToOne(log, g[s \ {Max(s)}],
                                   [i \in D |-> i][Max(s)])]
           Body(g) == [s \in SUBSET D |->
                         IF s = {} THEN p
                         ELSE RaiseToOne(log, g[s \ {Max(s)}],
                                         [i \in D |-> i][Max(s)])]
           c == [s \in SUBSET D |-> IF s = {} THEN {} ELSE Max(s)]
           step == [x \in D \X V |-> RaiseToOne(log, x[2], x[1])]
<1>1. IsFiniteSet(D) /\ \A s \in SUBSET D : s # {} =>
        Max(s) \in s /\ \A x \in s : Max(s) >= x
  <2>1. IsFiniteSet(D) /\ \A s \in SUBSET D : IsFiniteSet(s)
    BY RowsFinite, FS_Subset
  <2> QED  BY <2>1, MaxIsGreatest
<1>2. \E g \in [SUBSET D -> V] : Solves(g, SUBSET D, p, c, step)
  <2>1. /\ c \in [SUBSET D -> D \cup {{}}]
        /\ \A s \in SUBSET D : s # {} => c[s] \in s
    BY <1>1
  <2>2. step \in [D \X V -> V]
    <3>1. \A x \in D \X V : RaiseToOne(log, x[2], x[1]) \in V
      BY RaiseKeeps
    <3> QED  BY <3>1
  <2> HIDE DEF c, step, D, V
  <2>3. p \in V
    BY DEF V, D
  <2> QED  BY <1>1, <2>1, <2>2, <2>3, FoldExists, Zenon
<1>3. PICK g \in [SUBSET D -> V] : Solves(g, SUBSET D, p, c, step)
  BY <1>2
<1>4. g = Body(g)
  <2>1. ASSUME NEW s \in SUBSET D PROVE g[s] = Body(g)[s]
    <3>1. CASE s = {}
      BY <3>1, <1>3 DEF Solves
    <3>2. CASE s # {}
      <4>1. /\ c[s] = Max(s) /\ Max(s) \in D /\ s \ {Max(s)} \in SUBSET D
            /\ g[s \ {Max(s)}] \in V
        BY <3>2, <1>1, <1>3
      <4>2. g[s] = step[<<c[s], g[s \ {c[s]}]>>]
        BY <3>2, <1>3 DEF Solves
      <4>3. step[<<Max(s), g[s \ {Max(s)}]>>]
              = RaiseToOne(log, g[s \ {Max(s)}], Max(s))
        <5> HIDE DEF D, V
        <5> QED  BY <4>1
      <4>4. [i \in D |-> i][Max(s)] = Max(s)
        BY <4>1
      <4> HIDE DEF c, step, D, V
      <4>5. g[s] = step[<<Max(s), g[s \ {Max(s)}]>>]
        BY <4>1, <4>2, Zenon
      <4>6. Body(g)[s] = RaiseToOne(log, g[s \ {Max(s)}], Max(s))
        BY <3>2, <4>4
      <4> QED  BY <4>3, <4>5, <4>6
    <3> QED  BY <3>1, <3>2
  <2> QED  BY <2>1, <1>3
<1>5. it = Body(it)
  <2> HIDE DEF D, V
  <2> QED  BY <1>4
<1>6. EnsureMinimumPayouts(log, p) = it[D]
  <2>1. DOMAIN p = D /\ DOMAIN [i \in D |-> i] = D
    OBVIOUS
  <2> QED  BY <2>1 DEF EnsureMinimumPayouts, FoldLeft, MapThenFoldSet
<1> HIDE DEF it
<1>7. it[{}] = p /\ \A s \in SUBSET D : s # {} =>
        it[s] = RaiseToOne(log, it[s \ {Max(s)}], Max(s))
  <2>1. \A s \in SUBSET D : it[s] = Body(it)[s]
    BY <1>5
  <2>2. \A s \in SUBSET D : s # {} => [i \in D |-> i][Max(s)] = Max(s)
    BY <1>1
  <2> HIDE DEF D
  <2> QED  BY <2>1, <2>2
<1> DEFINE Bad == {k \in Nat : k <= n /\ ~Kept(log, p, n, k, it[1..k])}
<1>8. Bad = {}
  <2> SUFFICES ASSUME Bad # {} PROVE FALSE
    OBVIOUS
  <2>1. PICK k \in Bad : \A m \in Bad : k <= m
    BY LeastNat
  <2>2. CASE k = 0
    <3>1. 1..0 = {}
      OBVIOUS
    <3> QED  BY <2>1, <2>2, <3>1, <1>7 DEF Kept
  <2>3. CASE k # 0
    <3> DEFINE q == it[1..(k - 1)]
    <3>1. k - 1 \in Nat /\ k \in 1..n /\ k - 1 \notin Bad
      BY <2>1, <2>3
    <3>2. Kept(log, p, n, k - 1, q)
      BY <3>1
    <3>3. /\ 1..k \in SUBSET D /\ 1..k # {} /\ Max(1..k) = k
          /\ (1..k) \ {k} = 1..(k - 1)
      <4>1. 1..k \in SUBSET (1..n) /\ 1..k # {}
        BY <3>1
      <4>2. Max(1..k) \in 1..k /\ \A x \in 1..k : Max(1..k) >= x
        BY <1>1, <4>1, Zenon
      <4> QED  BY <4>1, <4>2, <3>1
    <3>4. it[1..k] = RaiseToOne(log, q, k)
      BY <1>7, <3>3, Zenon
    <3> HIDE DEF q
    <3>5. /\ RaiseToOne(log, q, k) \in [1..n -> Int]
          /\ \A o : SumOf(RaiseToOne(log, q, k), Rows(log, o))
                      = SumOf(q, Rows(log, o))
          /\ Stuck(log, RaiseToOne(log, q, k), k)
          /\ \A j \in 1..n : Stuck(log, q, j)
               => Stuck(log, RaiseToOne(log, q, k), j)
      BY <3>1, <3>2, RaiseKeeps DEF Kept
    <3>6. \A i \in 1..k : i = k \/ i \in 1..(k - 1)
      BY <3>1
    <3>7. Kept(log, p, n, k, it[1..k])
      <4> DEFINE r == RaiseToOne(log, q, k)
      <4>1. r \in [1..n -> Int]
            /\ \A o : SumOf(r, Rows(log, o)) = SumOf(p, Rows(log, o))
        BY <3>2, <3>5 DEF Kept
      <4>2. \A i \in 1..k : Stuck(log, r, i)
        <5> TAKE i \in 1..k
        <5>1. CASE i = k
          BY <5>1, <3>5
        <5>2. CASE i \in 1..(k - 1)
          <6>1. i \in 1..n /\ Stuck(log, q, i)
            BY <5>2, <3>1, <3>2 DEF Kept
          <6> QED  BY <6>1, <3>5
        <5> QED  BY <5>1, <5>2, <3>6
      <4> HIDE DEF r
      <4>3. Kept(log, p, n, k, r)
        BY <4>1, <4>2 DEF Kept
      <4> QED  BY <4>3, <3>4 DEF r
    <3> QED  BY <2>1, <3>7
  <2> QED  BY <2>2, <2>3
<1> QED  BY <1>6, <1>8

-----------------------------------------------------------------------------
(* The stages of the pipeline answer in integers *)

RowSet == [user : Users, outcome : Outcomes, amount : Int \ {0}]

(* A log whose prices are all defined.                                     *)
LogOk(log) ==
  /\ log \in Seq(RowSet)
  /\ \A k \in 1..Len(log) : Probability(log, k).den > 0

LEMMA LogRows ==
  ASSUME NEW log, LogOk(log)
  PROVE  /\ Len(log) \in Nat /\ DOMAIN log = 1..Len(log)
         /\ \A i \in 1..Len(log) : /\ log[i].user \in Users
                                   /\ log[i].outcome \in Outcomes
                                   /\ log[i].amount \in Int
         /\ Stakes(log) \in [1..Len(log) -> Int]
         /\ IsFiniteSet(1..Len(log)) /\ IntsOn(Stakes(log), 1..Len(log))
<1>1. Len(log) \in Nat /\ DOMAIN log = 1..Len(log)
      /\ \A i \in 1..Len(log) : log[i] \in RowSet
  BY DEF LogOk
<1>2. IsFiniteSet(1..Len(log))
  BY <1>1, FS_Interval
<1>3. Stakes(log) \in [1..Len(log) -> Int]
  BY <1>1 DEF RowSet, Stakes
<1> QED  BY <1>1, <1>2, <1>3 DEF RowSet, IntsOn

LEMMA StakesInt ==
  ASSUME NEW log \in Seq(RowSet), NEW o, NEW k
  PROVE  StakeOn(log, o, k) \in Int
<1>1. Len(log) \in Nat /\ DOMAIN log = 1..Len(log)
      /\ \A i \in 1..Len(log) : log[i].amount \in Int
  <2>1. Len(log) \in Nat /\ DOMAIN log = 1..Len(log)
        /\ \A i \in 1..Len(log) : log[i] \in RowSet
    OBVIOUS
  <2> QED  BY <2>1 DEF RowSet
<1>2. IsFiniteSet(1..Len(log))
  BY <1>1, FS_Interval
<1> DEFINE S == {i \in Rows(log, o) : i <= k}
<1>3. S \subseteq 1..Len(log)
  BY <1>1 DEF Rows
<1>4. IsFiniteSet(S)
  BY <1>2, <1>3, FS_Subset
<1>5. IntsOn(Stakes(log), S)
  BY <1>1, <1>3 DEF IntsOn, Stakes
<1> HIDE DEF S
<1>6. SumOf(Stakes(log), S) \in Int
  BY <1>4, <1>5, SumInt
<1> QED  BY <1>6 DEF StakeOn, S

LEMMA PriceType ==
  ASSUME NEW log \in Seq(RowSet), NEW k \in Nat
  PROVE  /\ Probability(log, k).num \in Int
         /\ Probability(log, k).den \in Int
         /\ k = 0 => Probability(log, k).den > 0
<1>1. CASE k = 0
  BY <1>1, SubsidyAssumption DEF Probability
<1>2. CASE k # 0
  <2> DEFINE yes == StakeOn(log, "YES", k)
             no == StakeOn(log, "NO", k)
  <2>1. yes \in Int /\ no \in Int
    BY StakesInt
  <2>2. /\ Probability(log, k).num = InitialCredit + (InitialYes + yes)
        /\ Probability(log, k).den = Subsidization + (InitialYes + yes)
                                       + (InitialNo + no)
    BY <1>2 DEF Probability
  <2> HIDE DEF yes, no
  <2> QED  BY <1>2, <2>1, <2>2, SubsidyAssumption
<1> QED  BY <1>1, <1>2

LEMMA PricesDefined ==
  ASSUME NEW log, LogOk(log), NEW k \in 0..Len(log)
  PROVE  /\ Probability(log, k).num \in Int
         /\ Probability(log, k).den \in Nat \ {0}
<1>1. k \in Nat /\ log \in Seq(RowSet) /\ (k = 0 \/ k \in 1..Len(log))
  BY LogRows DEF LogOk
<1>2. Probability(log, k).den > 0
  BY <1>1, PriceType DEF LogOk
<1> QED  BY <1>1, <1>2, PriceType

LEMMA DivisorType ==
  ASSUME NEW a \in Int, NEW b \in Nat \ {0}
  PROVE  GreatestDivisor(a, b) \in Nat \ {0}
<1> DEFINE S == {d \in 1..b : a % d = 0 /\ b % d = 0}
<1>1. IsFiniteSet(1..b) /\ S \in SUBSET (1..b)
  BY FS_Interval
<1>2. IsFiniteSet(S) /\ S \in SUBSET Nat
  BY <1>1, FS_Subset
<1>3. a % 1 = 0 /\ b % 1 = 0
  OBVIOUS
<1>4. S # {}
  BY <1>3
<1>5. Max(S) \in S
  <2> HIDE DEF S
  <2> QED  BY <1>2, <1>4, MaxIsGreatest
<1> QED  BY <1>1, <1>5 DEF GreatestDivisor

(* A common multiple of finitely many numbers is a number.                 *)
LEMMA MultipleInt ==
  ASSUME NEW S \in SUBSET (Nat \ {0}), IsFiniteSet(S)
  PROVE  CommonMultiple(S) \in Int
<1> DEFINE By(d, m) == m * (d \div GreatestDivisor(m, d))
           c == [s \in SUBSET S |-> IF s = {} THEN {} ELSE Taken(s)]
           step == [x \in S \X Int |-> By(x[1], x[2])]
           Body(g) == [s \in SUBSET S |->
                         IF s = {} THEN 1
                         ELSE By(Taken(s), g[s \ {Taken(s)}])]
           it == CHOOSE g : g = Body(g)
<1>1. \A s \in SUBSET S : s # {} => Taken(s) \in s
  BY DEF Taken
<1>2. \A d \in S, m \in Int : By(d, m) \in Int
  <2> TAKE d \in S, m \in Int
  <2>1. d \in Nat /\ GreatestDivisor(m, d) \in Nat \ {0}
    BY DivisorType
  <2>2. d \div GreatestDivisor(m, d) \in Nat
    BY <2>1, Quotient
  <2> QED  BY <2>2
<1>3. CommonMultiple(S) = it[S]
  BY DEF CommonMultiple, FoldSet, MapThenFoldSet, Taken
<1> HIDE DEF By
<1>4. \E g \in [SUBSET S -> Int] : Solves(g, SUBSET S, 1, c, step)
  <2>1. /\ c \in [SUBSET S -> S \cup {{}}]
        /\ \A s \in SUBSET S : s # {} => c[s] \in s
    BY <1>1
  <2>2. step \in [S \X Int -> Int] /\ 1 \in Int
    <3>1. \A x \in S \X Int : x[1] \in S /\ x[2] \in Int
      OBVIOUS
    <3>2. \A x \in S \X Int : By(x[1], x[2]) \in Int
      BY <1>2, <3>1, Zenon
    <3> QED  BY <3>2
  <2> HIDE DEF c, step
  <2> QED  BY <2>1, <2>2, FoldExists, Zenon
<1>5. PICK g \in [SUBSET S -> Int] : Solves(g, SUBSET S, 1, c, step)
  BY <1>4
<1>6. g = Body(g)
  <2>1. ASSUME NEW s \in SUBSET S PROVE g[s] = Body(g)[s]
    <3>1. CASE s = {}
      BY <3>1, <1>5 DEF Solves
    <3>2. CASE s # {}
      <4>1. c[s] = Taken(s) /\ Taken(s) \in S /\ g[s \ {Taken(s)}] \in Int
        BY <3>2, <1>1
      <4>2. g[s] = step[<<c[s], g[s \ {c[s]}]>>]
        BY <3>2, <1>5 DEF Solves
      <4> HIDE DEF c
      <4>3. g[s] = step[<<Taken(s), g[s \ {Taken(s)}]>>]
        BY <4>1, <4>2, Zenon
      <4> QED  BY <4>1, <4>3, <3>2
    <3> QED  BY <3>1, <3>2
  <2> QED  BY <2>1
<1>7. it = Body(it)
  BY <1>6
<1> HIDE DEF it
<1>8. \A s \in SUBSET S : it[s] = Body(it)[s]
  BY <1>7
<1> DEFINE Bad == {s \in SUBSET S : it[s] \notin Int}
<1>9. Bad = {}
  <2> SUFFICES ASSUME Bad # {} PROVE FALSE
    OBVIOUS
  <2>1. \A s \in Bad : IsFiniteSet(s)
    BY FS_Subset
  <2>2. \E s \in Bad : \A u \in Bad : ~(u \subseteq s /\ u # s)
    <3> HIDE DEF Bad
    <3> QED  BY <2>1, LeastSet
  <2>3. PICK s \in Bad : \A u \in Bad : ~(u \subseteq s /\ u # s)
    BY <2>2
  <2>4. CASE s = {}
    <3>1. it[{}] = 1
      BY <1>8
    <3>2. it[s] = 1
      BY <3>1, <2>4, Zenon
    <3> QED  BY <3>2, <2>3
  <2>5. CASE s # {}
    <3>1. Taken(s) \in s /\ Taken(s) \in S
      BY <1>1, <2>5
    <3>2. it[s \ {Taken(s)}] \in Int
      BY <2>3, <3>1
    <3>3. it[s] = By(Taken(s), it[s \ {Taken(s)}])
      BY <1>8, <2>5
    <3>4. By(Taken(s), it[s \ {Taken(s)}]) \in Int
      BY <1>2, <3>1, <3>2, Zenon
    <3> QED  BY <2>3, <3>3, <3>4
  <2> QED  BY <2>4, <2>5
<1> QED  BY <1>3, <1>9

LEMMA RoundedQuotientInt ==
  ASSUME NEW a \in Int, NEW b \in Nat \ {0}, NEW low
  PROVE  /\ RoundedQuotient(a, b, low) \in Int
         /\ a >= 0 => RoundedQuotient(a, b, low) >= 0
<1> DEFINE half == IF low THEN b - 1 ELSE b
           size == (2 * Absolute(a) + half) \div (2 * b)
<1>1. Absolute(a) \in Nat /\ half \in Nat
  BY DEF Absolute
<1> HIDE DEF half
<1>2. 2 * Absolute(a) + half \in Nat /\ 2 * b \in Nat \ {0}
  BY <1>1
<1>3. size \in Nat
  BY <1>2, Quotient
<1>4. RoundedQuotient(a, b, low) = IF a < 0 THEN -size ELSE size
  BY DEF RoundedQuotient, half
<1> HIDE DEF size
<1> QED  BY <1>3, <1>4

LEMMA CourseTyped ==
  ASSUME NEW log, LogOk(log)
  PROVE  CoursePayouts(log) \in [1..Len(log) -> Int]
<1> DEFINE n == Len(log)
           P == [i \in 1..n |-> Probability(log, i)]
           dens == {P[i].den : i \in 1..n}
           den == [i \in 1..n |-> P[i].den]
           unit == CommonMultiple(dens)
           num == [i \in 1..n |-> P[i].num * (unit \div P[i].den)]
           course == [i \in 1..n |-> Absolute(num[n] - num[i]) * log[i].amount]
<1>1. n \in Nat /\ \A i \in 1..n : log[i].amount \in Int
  BY LogRows
<1>2. \A i \in 1..n : P[i].num \in Int /\ P[i].den \in Nat \ {0}
  BY PricesDefined
<1>3. CoursePayouts(log) = Computed(course)
  BY DEF CoursePayouts
<1> HIDE DEF n, P
<1>4. unit \in Int
  <2>1. IsFiniteSet(1..n)
    BY <1>1, FS_Interval
  <2>2. dens \in SUBSET (Nat \ {0}) /\ den \in Surjection(1..n, dens)
    BY <1>2 DEF Surjection
  <2>3. IsFiniteSet(dens)
    <3> HIDE DEF den, dens
    <3> QED  BY <2>1, <2>2, FS_Surjection
  <2> HIDE DEF dens
  <2> QED  BY <2>2, <2>3, MultipleInt
<1> HIDE DEF unit
<1>5. \A i \in 1..n : num[i] \in Int
  <2> TAKE i \in 1..n
  <2>1. unit \div P[i].den \in Int
    BY <1>2, <1>4
  <2> QED  BY <1>2, <2>1
<1> HIDE DEF num
<1>6. course \in [1..n -> Int]
  <2> SUFFICES ASSUME NEW i \in 1..n PROVE course[i] \in Int
    OBVIOUS
  <2>1. num[n] \in Int /\ num[i] \in Int
    BY <1>1, <1>5
  <2>2. Absolute(num[n] - num[i]) \in Int
    BY <2>1 DEF Absolute
  <2> QED  BY <1>1, <2>2
<1>7. Computed(course) = course
  BY <1>1, ComputedIsItself
<1> QED  BY <1>3, <1>6, <1>7 DEF n

LEMMA VolumeInt ==
  ASSUME NEW log, LogOk(log)
  PROVE  Volume(log) \in Int
BY LogRows, SumInt DEF Volume

LEMMA SharesTyped ==
  ASSUME NEW log, LogOk(log), NEW pools, NEW o \in Outcomes
  PROVE  DivideUpMarketPoolShares(log, pools)[o] \in Int
<1> DEFINE p == CurrentProbability(log)
           v == Volume(log)
           single == SingleCreditYesNoAllocator(log)
           q == PoolFractions(log)
           divided == [x \in Outcomes |->
                         RoundedQuotient(q[x].num, q[x].den, x \in pools)]
<1>1. p.num \in Int /\ p.den \in Nat \ {0}
  BY LogRows, PricesDefined DEF CurrentProbability
<1>2. v \in Int
  BY VolumeInt
<1>3. o = "YES" \/ o = "NO"
  BY DEF Outcomes
<1>4. single["YES"] \in Int /\ single["NO"] \in Int
  BY DEF SingleCreditYesNoAllocator
<1>5. q = [YES |-> [num |-> v * p.num, den |-> p.den],
           NO  |-> [num |-> v * (p.den - p.num), den |-> p.den]]
  BY DEF PoolFractions
<1>6. DivideUpMarketPoolShares(log, pools) = IF v = 1 THEN single ELSE divided
  BY DEF DivideUpMarketPoolShares
<1> HIDE DEF p, v, single, q
<1>7. q[o].num \in Int /\ q[o].den \in Nat \ {0}
  <2>1. v * p.num \in Int /\ v * (p.den - p.num) \in Int
    BY <1>1, <1>2
  <2> QED  BY <1>1, <1>3, <1>5, <2>1
<1>8. divided[o] \in Int
  BY <1>7, RoundedQuotientInt
<1> HIDE DEF divided
<1> QED  BY <1>3, <1>4, <1>6, <1>8

LEMMA FactorTyped ==
  ASSUME NEW log, LogOk(log), NEW leftover \in SUBSET Cancelled(log),
         NEW o \in Outcomes
  PROVE  LET factor == NormalizationFactor(CoursePayouts(log), Rows(log, o),
                                           o \in leftover)
         IN  factor.num \in Int /\ factor.den \in Nat \ {0}
<1> DEFINE course == CoursePayouts(log)
           side == Rows(log, o)
           sizes == {Absolute(course[i]) : i \in side}
           size == [i \in side |-> Absolute(course[i])]
           sum == SumOf(course, side)
<1>1. /\ IsFiniteSet(side) /\ side \subseteq 1..Len(log)
      /\ course \in [1..Len(log) -> Int]
  BY LogRows, RowsFinite, CourseTyped
<1>2. sum \in Int
  <2>1. IntsOn(course, side)
    BY <1>1 DEF IntsOn
  <2> QED  BY <1>1, <2>1, SumInt
<1> HIDE DEF course, sum
<1>3. ASSUME o \in leftover PROVE Max(sizes) \in Nat \ {0}
  <2>1. PICK i \in side : course[i] # 0
    BY <1>3 DEF Cancelled, course
  <2> HIDE DEF side
  <2>2. \A j \in side : Absolute(course[j]) \in Nat
    BY <1>1 DEF Absolute
  <2>3. Absolute(course[i]) # 0
    BY <1>1, <2>1 DEF Absolute
  <2>4. size \in Surjection(side, sizes)
    BY DEF Surjection
  <2>5. IsFiniteSet(sizes)
    <3> HIDE DEF size, sizes
    <3> QED  BY <1>1, <2>4, FS_Surjection
  <2>6. sizes \in SUBSET Nat /\ Absolute(course[i]) \in sizes
    BY <2>2
  <2> HIDE DEF sizes
  <2>7. Max(sizes) \in sizes /\ Max(sizes) >= Absolute(course[i])
    BY <2>5, <2>6, MaxIsGreatest
  <2>8. Max(sizes) \in Nat /\ Absolute(course[i]) \in Nat
    BY <2>2, <2>6, <2>7
  <2> QED  BY <2>3, <2>7, <2>8
<1>4. NormalizationFactor(course, side, o \in leftover) =
        IF sum > 0 THEN [num |-> 1, den |-> sum]
        ELSE IF o \in leftover THEN [num |-> LeftoverScale, den |-> Max(sizes)]
        ELSE [num |-> 0, den |-> 1]
  BY DEF NormalizationFactor, sum
<1> HIDE DEF side, sizes
<1>5. LET factor == NormalizationFactor(course, side, o \in leftover)
      IN  factor.num \in Int /\ factor.den \in Nat \ {0}
  BY <1>2, <1>3, <1>4, SubsidyAssumption
<1> QED  BY <1>5 DEF course, side

LEMMA FractionsTyped ==
  ASSUME NEW log, LogOk(log), NEW pools,
         NEW leftover \in SUBSET Cancelled(log)
  PROVE  LET q == ScaledFractions(log, pools, leftover)
         IN  /\ DOMAIN q = 1..Len(log)
             /\ \A i \in 1..Len(log) : /\ q[i].num \in Int
                                       /\ q[i].den \in Nat \ {0}
<1> DEFINE n == Len(log)
           course == CoursePayouts(log)
           shares == DivideUpMarketPoolShares(log, pools)
           factor == [o \in Outcomes |->
             NormalizationFactor(course, Rows(log, o), o \in leftover)]
           scaled == [i \in 1..n |->
             LET o == log[i].outcome
             IN  [num |-> course[i] * Absolute(shares[o]) * factor[o].num,
                  den |-> factor[o].den]]
<1>1. /\ n \in Nat /\ DOMAIN log = 1..n /\ course \in [1..n -> Int]
      /\ \A i \in 1..n : log[i].outcome \in Outcomes
  BY LogRows, CourseTyped
<1>2. \A o \in Outcomes : factor[o].num \in Int /\ factor[o].den \in Nat \ {0}
  BY FactorTyped
<1>3. \A o \in Outcomes : Absolute(shares[o]) \in Int
  BY SharesTyped DEF Absolute
<1>4. ScaledFractions(log, pools, leftover) = Computed(scaled)
  BY <1>1 DEF ScaledFractions, Normalized
<1> HIDE DEF n, course, shares, factor
<1>5. Computed(scaled) = scaled
  BY <1>1, ComputedIsItself
<1>6. \A i \in 1..n : scaled[i].num \in Int /\ scaled[i].den \in Nat \ {0}
  <2> TAKE i \in 1..n
  <2>1. course[i] \in Int
    BY <1>1
  <2> QED  BY <2>1, <1>1, <1>2, <1>3
<1> HIDE DEF scaled
<1>7. DOMAIN scaled = 1..n
  BY DEF scaled
<1> QED  BY <1>4, <1>5, <1>6, <1>7 DEF n

LEMMA ScaledTyped ==
  ASSUME NEW log, LogOk(log), NEW f, f.leftover \in SUBSET Cancelled(log)
  PROVE  CalculateScaledPayouts(log, f) \in [1..Len(log) -> Int]
<1> DEFINE q == ScaledFractions(log, f.pools, f.leftover)
           rounded == [i \in 1..Len(log) |->
             RoundedQuotient(q[i].num, q[i].den, i \in f.low)]
<1>1. /\ DOMAIN q = 1..Len(log)
      /\ \A i \in 1..Len(log) : q[i].num \in Int /\ q[i].den \in Nat \ {0}
  BY FractionsTyped
<1>2. CalculateScaledPayouts(log, f) = Computed(rounded)
  BY <1>1 DEF CalculateScaledPayouts, Rounded
<1> HIDE DEF q
<1>3. \A i \in 1..Len(log) :
        RoundedQuotient(q[i].num, q[i].den, i \in f.low) \in Int
  BY <1>1, RoundedQuotientInt
<1>4. Computed(rounded) = rounded
  BY LogRows, ComputedIsItself
<1> QED  BY <1>2, <1>3, <1>4

LEMMA AdjustedTyped ==
  ASSUME NEW log, LogOk(log), NEW p \in [1..Len(log) -> Int]
  PROVE  AdjustPayouts(log, p) \in [1..Len(log) -> Int]
<1> DEFINE n == Len(log)
           excess == CalculateExcess(log, p)
<1>1. n \in Nat /\ DOMAIN p = 1..n /\ Len(p) = n
  BY LogRows
<1>2. excess \in Int
  <2>1. IsFiniteSet(1..n) /\ IntsOn(p, 1..n)
    BY LogRows DEF IntsOn
  <2>2. SumOf(p, 1..n) \in Int
    BY <2>1, SumInt
  <2> QED  BY <2>2, <1>1, VolumeInt DEF CalculateExcess
<1>3. AdjustPayouts(log, p) =
        IF log = <<>> \/ excess = 0 THEN p
        ELSE IF excess > 0 THEN Computed(AdjustForPositiveExcess(p, excess))
        ELSE Computed(AdjustForNegativeExcess(p, excess))
  BY DEF AdjustPayouts
<1> HIDE DEF excess
<1>4. CASE log = <<>> \/ excess = 0
  BY <1>3, <1>4
<1>5. CASE log # <<>> /\ excess > 0
  <2> DEFINE r == AdjustForPositiveExcess(p, excess)
  <2>1. n # 0
    BY <1>5 DEF LogOk
  <2>2. excess \div n \in Int
    BY <1>1, <1>2, <1>5, <2>1
  <2>3. r = [i \in 1..n |-> r[i]] /\ \A i \in 1..n : r[i] \in Int
    BY <1>1, <2>2 DEF AdjustForPositiveExcess
  <2> HIDE DEF r
  <2>4. Computed(r) = r
    BY <1>1, <2>3, ComputedIsItself
  <2> QED  BY <1>3, <1>5, <2>3, <2>4 DEF r
<1>6. CASE log # <<>> /\ excess < 0
  <2> DEFINE r == AdjustForNegativeExcess(p, excess)
  <2>1. n # 0
    BY <1>6 DEF LogOk
  <2>2. (-excess) \div n \in Int
    BY <1>1, <1>2, <1>6, <2>1
  <2>3. r = [i \in 1..n |-> r[i]] /\ \A i \in 1..n : r[i] \in Int
    BY <1>1, <2>2 DEF AdjustForNegativeExcess
  <2> HIDE DEF r
  <2>4. Computed(r) = r
    BY <1>1, <2>3, ComputedIsItself
  <2> QED  BY <1>2, <1>3, <1>6, <2>3, <2>4 DEF r
<1> QED  BY <1>2, <1>4, <1>5, <1>6

-----------------------------------------------------------------------------
(* The corrections make the payouts add up to the volume *)

(* What AdjustForPositiveExcess finds nobody to take from.                 *)
Missed(n, p, excess) ==
  LET payers == {i \in 1..n : p[i] > excess \div n}
  IN  IF excess % n > Cardinality(payers)
      THEN (excess % n) - Cardinality(payers) ELSE 0

LEMMA PositiveExcess ==
  ASSUME NEW n \in Nat \ {0}, NEW p \in [1..n -> Int],
         NEW excess \in Nat \ {0}
  PROVE  SumOf(AdjustForPositiveExcess(p, excess), 1..n)
           = SumOf(p, 1..n) - excess + Missed(n, p, excess)
<1> DEFINE base == excess \div n
           rest == excess % n
           payers == {i \in 1..n : p[i] > base}
           B == [i \in payers |-> {j \in (i + 1)..n : p[j] - base > 0}]
           T == {i \in payers : Cardinality(B[i]) < rest}
           h == AdjustForPositiveExcess(p, excess)
           c == Cardinality(payers)
<1>1. base \in Nat /\ rest \in 0..(n - 1) /\ excess = n * base + rest
  BY Remainder
<1>2. IsFiniteSet(1..n) /\ Cardinality(1..n) = n /\ IntsOn(p, 1..n)
      /\ IsFiniteSet(payers) /\ c \in Nat
  <2>1. IsFiniteSet(1..n) /\ Cardinality(1..n) = n
    BY FS_Interval
  <2>2. IsFiniteSet(payers)
    BY <2>1, FS_Subset
  <2> QED  BY <2>1, <2>2, FS_CardinalityType DEF IntsOn
<1>3. \A i \in 1..n :
        h[i] = IF p[i] - base > 0
                    /\ Cardinality({j \in (i + 1)..n : p[j] - base > 0}) < rest
               THEN (p[i] - base) - 1 ELSE p[i] - base
  <2>1. Len(p) = n
    OBVIOUS
  <2> DEFINE reduced == [i \in 1..n |-> p[i] - base]
  <2>2. \A i \in 1..n : h[i] =
          IF reduced[i] > 0
               /\ Cardinality({j \in (i + 1)..n : reduced[j] > 0}) < rest
          THEN reduced[i] - 1 ELSE reduced[i]
    BY <2>1 DEF AdjustForPositiveExcess
  <2>3. \A i \in 1..n : {j \in (i + 1)..n : reduced[j] > 0}
                          = {j \in (i + 1)..n : p[j] - base > 0}
    OBVIOUS
  <2>4. \A i \in 1..n : reduced[i] = p[i] - base
    OBVIOUS
  <2> HIDE DEF reduced, h, base, rest
  <2> QED  BY <2>2, <2>3, <2>4, Zenon
<1> HIDE DEF base, rest, h
<1>4. \A i \in 1..n : p[i] \in Int /\ (i \in payers <=> p[i] - base > 0)
  BY <1>1
<1>5. \A i \in payers : Cardinality(B[i])
        = Cardinality({j \in (i + 1)..n : p[j] - base > 0})
  OBVIOUS
<1>6. \A i \in 1..n : h[i] = p[i] + (IF i \in T THEN -base - 1 ELSE -base)
  <2> TAKE i \in 1..n
  <2>1. CASE i \in T
    <3>1. h[i] = (p[i] - base) - 1
      BY <1>3, <1>4, <1>5, <2>1
    <3> QED  BY <3>1, <1>1, <1>4, <2>1
  <2>2. CASE i \notin T
    <3>1. h[i] = p[i] - base
      <4>1. CASE i \in payers
        BY <1>3, <1>5, <2>2, <4>1
      <4>2. CASE i \notin payers
        BY <1>3, <1>4, <4>2
      <4> QED  BY <4>1, <4>2
    <3> QED  BY <3>1, <1>1, <1>4, <2>2
  <2> QED  BY <2>1, <2>2
<1>7. Cardinality(T) = IF rest > c THEN c ELSE rest
  <2>1. B \in [payers -> SUBSET payers]
    BY <1>4
  <2>2. \A u \in payers : u \notin B[u]
    OBVIOUS
  <2>3. \A u, v \in payers : u # v => u \in B[v] \/ v \in B[u]
    BY <1>4
  <2>4. \A u, v \in payers : u \in B[v] => B[u] \subseteq B[v]
    OBVIOUS
  <2> HIDE DEF B, payers
  <2>5. CASE rest <= c
    <3>1. rest \in 0..Cardinality(payers)
      BY <1>1, <1>2, <2>5 DEF c
    <3>2. Cardinality(T) = rest
      BY <1>2, <2>1, <2>2, <2>3, <2>4, <3>1, PlacesAreCounted
    <3> HIDE DEF T, c
    <3> QED  BY <3>2, <2>5, <1>1, <1>2
  <2>6. CASE rest > c
    <3>1. \A u \in payers : Cardinality(B[u]) < rest
      <4> TAKE u \in payers
      <4>1. /\ Cardinality(B[u]) <= Cardinality(payers)
            /\ Cardinality(B[u]) \in Nat
        BY <1>2, <2>1, FS_Subset, FS_CardinalityType
      <4> QED  BY <4>1, <2>6, <1>1, <1>2
    <3>2. T = payers
      BY <3>1
    <3> QED  BY <3>2, <2>6
  <2> QED  BY <2>5, <2>6, <1>1, <1>2
<1>8. SumOf(h, 1..n) = SumOf(p, 1..n)
        + ((-base) * Cardinality(1..n) + (-1) * Cardinality(T))
  <2> DEFINE D == 1..n
             k == -base
             e == -1
  <2>1. T \in SUBSET D /\ k \in Int /\ e \in Int
    BY <1>1
  <2>2. \A i \in D : h[i] = p[i] + (IF i \in T THEN k + e ELSE k)
    BY <1>1, <1>6
  <2>3. IsFiniteSet(D) /\ IntsOn(p, D)
    BY <1>2
  <2> HIDE DEF T, D, k, e
  <2>4. SumOf(h, D) = SumOf(p, D) + (k * Cardinality(D) + e * Cardinality(T))
    BY <2>1, <2>2, <2>3, SumBumped
  <2> QED  BY <2>4 DEF D, k, e
<1>9. Missed(n, p, excess) = IF rest > c THEN rest - c ELSE 0
  BY DEF Missed, base, rest
<1>10. SumOf(p, 1..n) \in Int
  BY <1>2, SumInt
<1>11. (-base) * n = -(n * base) /\ n * base \in Int
  BY <1>1
<1> HIDE DEF T, c
<1> QED  BY <1>1, <1>2, <1>7, <1>8, <1>9, <1>10, <1>11 DEF h

LEMMA NegativeExcess ==
  ASSUME NEW n \in Nat \ {0}, NEW p \in [1..n -> Int],
         NEW excess \in Int, excess < 0
  PROVE  SumOf(AdjustForNegativeExcess(p, excess), 1..n)
           = SumOf(p, 1..n) - excess
<1> DEFINE base == (-excess) \div n
           rest == (-excess) % n
           h == AdjustForNegativeExcess(p, excess)
<1>1. base \in Nat /\ rest \in 0..(n - 1) /\ -excess = n * base + rest
  <2>1. -excess \in Nat
    OBVIOUS
  <2> QED  BY <2>1, Remainder
<1>2. IsFiniteSet(1..n) /\ Cardinality(1..n) = n /\ IntsOn(p, 1..n)
  BY FS_Interval DEF IntsOn
<1>3. \A i \in 1..n : h[i] = p[i] + base + (IF i <= rest THEN 1 ELSE 0)
  BY DEF AdjustForNegativeExcess
<1> HIDE DEF base, rest, h
<1>4. 1..rest \in SUBSET (1..n) /\ Cardinality(1..rest) = rest
  <2>1. 1..rest \in SUBSET (1..n)
    BY <1>1
  <2>2. Cardinality(1..rest) = rest
    BY <1>1, FS_Interval
  <2> QED  BY <2>1, <2>2
<1>5. \A i \in 1..n :
        h[i] = p[i] + (IF i \in 1..rest THEN base + 1 ELSE base)
  BY <1>1, <1>3
<1>6. SumOf(h, 1..n) = SumOf(p, 1..n)
        + (base * Cardinality(1..n) + 1 * Cardinality(1..rest))
  BY <1>1, <1>2, <1>4, <1>5, SumBumped
<1>7. SumOf(p, 1..n) \in Int
  BY <1>2, SumInt
<1>8. base * n = n * base /\ n * base \in Int
  BY <1>1
<1> QED  BY <1>1, <1>2, <1>4, <1>6, <1>7, <1>8 DEF h

(* AdjustPayouts gives or takes the whole difference to the volume, except *)
(* what nobody had to give.                                                *)
LEMMA AdjustedSum ==
  ASSUME NEW log, LogOk(log), NEW p \in [1..Len(log) -> Int]
  PROVE  LET excess == CalculateExcess(log, p)
         IN  SumOf(AdjustPayouts(log, p), 1..Len(log)) = Volume(log)
               + (IF excess > 0 THEN Missed(Len(log), p, excess) ELSE 0)
<1> DEFINE n == Len(log)
           excess == CalculateExcess(log, p)
           total == SumOf(p, 1..n)
<1>1. n \in Nat /\ DOMAIN p = 1..n /\ Len(p) = n /\ IsFiniteSet(1..n)
  BY LogRows
<1>2. total \in Int /\ Volume(log) \in Int /\ excess = total - Volume(log)
  <2>1. IntsOn(p, 1..n)
    BY DEF IntsOn
  <2>2. total \in Int /\ excess = total - Volume(log)
    BY <1>1, <2>1, SumInt DEF CalculateExcess
  <2> QED  BY <2>2, VolumeInt
<1>3. AdjustPayouts(log, p) =
        IF log = <<>> \/ excess = 0 THEN p
        ELSE IF excess > 0 THEN Computed(AdjustForPositiveExcess(p, excess))
        ELSE Computed(AdjustForNegativeExcess(p, excess))
  BY DEF AdjustPayouts
<1>4. CASE log = <<>>
  <2>1. 1..n = {} /\ DOMAIN log = {}
    BY <1>4
  <2>2. total = 0 /\ Volume(log) = 0
    BY <2>1, SumEmpty DEF Volume
  <2> QED  BY <1>2, <1>3, <1>4, <2>2
<1>5. CASE log # <<>>
  <2>1. n # 0
    BY <1>5 DEF LogOk
  <2> HIDE DEF excess, total
  <2>2. CASE excess = 0
    <3>1. AdjustPayouts(log, p) = p /\ total = Volume(log)
      BY <1>2, <1>3, <2>2
    <3>2. SumOf(AdjustPayouts(log, p), 1..n) = Volume(log)
      BY <3>1 DEF total
    <3> QED  BY <1>2, <2>2, <3>2 DEF excess
  <2>3. CASE excess > 0
    <3> DEFINE r == AdjustForPositiveExcess(p, excess)
    <3>1. r = [i \in 1..n |-> r[i]]
      BY <1>1 DEF AdjustForPositiveExcess
    <3>2. SumOf(r, 1..n) = SumOf(p, 1..n) - excess + Missed(n, p, excess)
      BY <1>1, <1>2, <2>1, <2>3, PositiveExcess
    <3>3. Missed(n, p, excess) \in Int
      <4> DEFINE payers == {i \in 1..n : p[i] > excess \div n}
      <4>1. excess % n \in Nat
        <5>1. excess \in Nat /\ n \in Nat \ {0}
          BY <1>1, <1>2, <2>1, <2>3
        <5> QED  BY <5>1, Remainder
      <4>2. Cardinality(payers) \in Nat
        BY <1>1, FS_Subset, FS_CardinalityType
      <4> HIDE DEF payers
      <4> QED  BY <4>1, <4>2 DEF Missed, payers
    <3> HIDE DEF r
    <3>4. Computed(r) = r
      BY <1>1, <3>1, ComputedIsItself
    <3>5. AdjustPayouts(log, p) = r
      BY <1>3, <1>5, <2>3, <3>4 DEF r
    <3>6. SumOf(AdjustPayouts(log, p), 1..n)
            = Volume(log) + Missed(n, p, excess)
      BY <1>2, <3>2, <3>3, <3>5 DEF total
    <3> QED  BY <2>3, <3>6 DEF excess
  <2>4. CASE excess < 0
    <3> DEFINE r == AdjustForNegativeExcess(p, excess)
    <3>1. r = [i \in 1..n |-> r[i]]
      BY <1>1 DEF AdjustForNegativeExcess
    <3>2. SumOf(r, 1..n) = SumOf(p, 1..n) - excess
      BY <1>1, <1>2, <2>1, <2>4, NegativeExcess
    <3> HIDE DEF r
    <3>4. Computed(r) = r
      BY <1>1, <3>1, ComputedIsItself
    <3>5. AdjustPayouts(log, p) = r
      BY <1>2, <1>3, <1>5, <2>4, <3>4 DEF r
    <3>6. SumOf(AdjustPayouts(log, p), 1..n) = Volume(log)
      BY <1>2, <3>2, <3>5 DEF total
    <3> QED  BY <1>2, <2>4, <3>6 DEF excess
  <2> QED  BY <1>2, <2>2, <2>3, <2>4
<1> QED  BY <1>4, <1>5

(* What keeps the sums of both sides keeps the sum of all rows.            *)
LEMMA SidesMakeTotal ==
  ASSUME NEW log, LogOk(log),
         NEW p \in [1..Len(log) -> Int], NEW q \in [1..Len(log) -> Int],
         \A o : SumOf(q, Rows(log, o)) = SumOf(p, Rows(log, o))
  PROVE  SumOf(q, 1..Len(log)) = SumOf(p, 1..Len(log))
<1> DEFINE D == 1..Len(log)
           yes == Rows(log, "YES")
<1>1. IsFiniteSet(D) /\ yes \in SUBSET D /\ D \ yes = Rows(log, "NO")
  BY LogRows DEF Rows, Outcomes
<1>2. IntsOn(p, D) /\ IntsOn(q, D)
  BY DEF IntsOn
<1>3. SumOf(q, yes) = SumOf(p, yes) /\ SumOf(q, D \ yes) = SumOf(p, D \ yes)
  BY <1>1, Zenon
<1> HIDE DEF D, yes
<1>4. /\ SumOf(p, D) = SumOf(p, yes) + SumOf(p, D \ yes)
      /\ SumOf(q, D) = SumOf(q, yes) + SumOf(q, D \ yes)
  BY <1>1, <1>2, SumSplit
<1> QED  BY <1>3, <1>4 DEF D

-----------------------------------------------------------------------------
(* Positions and their values *)

LEMMA BettorsFinite ==
  ASSUME NEW log, LogOk(log)
  PROVE  IsFiniteSet(Bettors(log)) /\ Bettors(log) \subseteq Users
<1> DEFINE who == [i \in 1..Len(log) |-> log[i].user]
<1>1. /\ DOMAIN log = 1..Len(log) /\ IsFiniteSet(1..Len(log))
      /\ \A i \in 1..Len(log) : log[i].user \in Users
  BY LogRows
<1>2. who \in Surjection(1..Len(log), Bettors(log))
  BY <1>1 DEF Surjection, Bettors
<1>3. IsFiniteSet(Bettors(log))
  <2> HIDE DEF who
  <2> QED  BY <1>1, <1>2, FS_Surjection
<1> QED  BY <1>1, <1>3 DEF Bettors

NetOf(log, p) == NetAggregateMarketPositions(AggregateUserPayouts(log, p))

(* Nobody is short of shares, and nobody holds both sides.                 *)
LEMMA NetTyped ==
  ASSUME NEW log, LogOk(log), NEW p \in [1..Len(log) -> Int]
  PROVE  /\ DOMAIN NetOf(log, p) = Bettors(log)
         /\ \A u \in Bettors(log) : /\ NetOf(log, p)[u].yes \in Nat
                                    /\ NetOf(log, p)[u].no \in Nat
<1> DEFINE all == AggregateUserPayouts(log, p)
<1>1. \A u \in Bettors(log), o \in Outcomes :
        SumOf(p, {i \in Rows(log, o) : log[i].user = u}) \in Int
  <2> TAKE u \in Bettors(log), o \in Outcomes
  <2> DEFINE S == {i \in Rows(log, o) : log[i].user = u}
  <2>1. S \subseteq 1..Len(log)
    BY LogRows DEF Rows
  <2>2. IsFiniteSet(S) /\ IntsOn(p, S)
    BY <2>1, LogRows, FS_Subset DEF IntsOn
  <2> HIDE DEF S
  <2>3. SumOf(p, S) \in Int
    BY <2>2, SumInt
  <2> QED  BY <2>3 DEF S
<1>2. /\ DOMAIN all = Bettors(log)
      /\ \A u \in Bettors(log) : all[u].yes \in Nat /\ all[u].no \in Nat
  <2>1. \A u \in Bettors(log) :
          /\ SumOf(p, {i \in Rows(log, "YES") : log[i].user = u}) \in Int
          /\ SumOf(p, {i \in Rows(log, "NO") : log[i].user = u}) \in Int
    BY <1>1, Zenon DEF Outcomes
  <2> QED  BY <2>1 DEF AggregateUserPayouts
<1> HIDE DEF all
<1> QED  BY <1>2 DEF NetOf, NetAggregateMarketPositions, all

(* A position's rounded value before it is adjusted to the volume.         *)
Raw(log, net, s, H) ==
  CalculateRoundedUserValuations(net, CurrentProbability(log), s, H)

LEMMA RawTyped ==
  ASSUME NEW log, LogOk(log), NEW s \in Statuses,
         NEW H, NEW net, DOMAIN net = Bettors(log),
         \A u \in Bettors(log) : net[u].yes \in Nat /\ net[u].no \in Nat
  PROVE  /\ Raw(log, net, s, H) \in [Bettors(log) -> Int]
         /\ s # "open" => \A u \in Bettors(log) :
              Raw(log, net, s, H)[u] = FinalShares(net[u], s)
         /\ LET p == CurrentProbability(log)
            IN  0 <= p.num /\ p.num <= p.den =>
                  \A u \in Bettors(log) : Raw(log, net, s, H)[u] >= 0
<1> DEFINE p == CurrentProbability(log)
<1>1. p.num \in Int /\ p.den \in Nat \ {0}
  BY LogRows, PricesDefined DEF CurrentProbability
<1>2. \A u \in Bettors(log) :
        Raw(log, net, s, H)[u] = RoundedValue(net[u], p, s, u \in H)
  BY DEF Raw, CalculateRoundedUserValuations
<1> HIDE DEF p
<1>3. ASSUME NEW u \in Bettors(log)
      PROVE  /\ RoundedValue(net[u], p, s, u \in H) \in Int
             /\ s # "open" =>
                  RoundedValue(net[u], p, s, u \in H) = FinalShares(net[u], s)
             /\ 0 <= p.num /\ p.num <= p.den =>
                  RoundedValue(net[u], p, s, u \in H) >= 0
  <2> DEFINE y == net[u].yes
             m == net[u].no
  <2>1. y \in Nat /\ m \in Nat
    OBVIOUS
  <2>2. FinalShares(net[u], s) \in Nat
    <3>1. FinalShares(net[u], s) \in {y, m, 0}
      BY DEF FinalShares, Statuses
    <3> QED  BY <2>1, <3>1
  <2>3. /\ y * p.num \in Int /\ m * (p.den - p.num) \in Int
        /\ 0 <= p.num /\ p.num <= p.den =>
             y * p.num >= 0 /\ m * (p.den - p.num) >= 0
    <3> HIDE DEF y, m
    <3>1. /\ y * p.num \in Int /\ m * (p.den - p.num) \in Int
      BY <1>1, <2>1
    <3>2. ASSUME 0 <= p.num, p.num <= p.den
          PROVE  y * p.num >= 0 /\ m * (p.den - p.num) >= 0
      <4>1. p.num \in Nat /\ p.den - p.num \in Nat
        BY <1>1, <3>2
      <4>2. y * p.num \in Nat /\ m * (p.den - p.num) \in Nat
        BY <2>1, <4>1
      <4> QED  BY <4>2
    <3> QED  BY <3>1, <3>2
  <2>4. RoundedValue(net[u], p, s, u \in H) =
          IF s # "open" THEN FinalShares(net[u], s)
          ELSE IF y > 0 THEN RoundedQuotient(y * p.num, p.den, u \in H)
          ELSE RoundedQuotient(m * (p.den - p.num), p.den, u \in H)
    BY DEF RoundedValue, ValueFraction
  <2> HIDE DEF y, m
  <2>5. /\ RoundedQuotient(y * p.num, p.den, u \in H) \in Int
        /\ RoundedQuotient(m * (p.den - p.num), p.den, u \in H) \in Int
        /\ 0 <= p.num /\ p.num <= p.den =>
             /\ RoundedQuotient(y * p.num, p.den, u \in H) >= 0
             /\ RoundedQuotient(m * (p.den - p.num), p.den, u \in H) >= 0
    BY <1>1, <2>3, RoundedQuotientInt
  <2>6. CASE s # "open"
    <3>1. RoundedValue(net[u], p, s, u \in H) = FinalShares(net[u], s)
      BY <2>4, <2>6
    <3> QED  BY <3>1, <2>2
  <2>7. CASE s = "open" /\ y > 0
    <3>1. RoundedValue(net[u], p, s, u \in H)
            = RoundedQuotient(y * p.num, p.den, u \in H)
      BY <2>4, <2>7
    <3> QED  BY <3>1, <2>5, <2>7
  <2>8. CASE s = "open" /\ ~(y > 0)
    <3>1. RoundedValue(net[u], p, s, u \in H)
            = RoundedQuotient(m * (p.den - p.num), p.den, u \in H)
      BY <2>4, <2>8
    <3> QED  BY <3>1, <2>5, <2>8
  <2> QED  BY <2>6, <2>7, <2>8
<1>4. Raw(log, net, s, H) \in [Bettors(log) -> Int]
  BY <1>3 DEF Raw, CalculateRoundedUserValuations, p
<1> QED  BY <1>2, <1>3, <1>4 DEF p

(* Positions' values are the rounded values dealt out to the volume.       *)
LEMMA ValuationsTyped ==
  ASSUME NEW log, LogOk(log), NEW s \in Statuses,
         NEW H, NEW net, DOMAIN net = Bettors(log),
         \A u \in Bettors(log) : net[u].yes \in Nat /\ net[u].no \in Nat
  PROVE  /\ Valuations(log, net, s, H) \in [Bettors(log) -> Int]
         /\ Holders(Raw(log, net, s, H)) = {} =>
              Valuations(log, net, s, H) = Raw(log, net, s, H)
         /\ Holders(Raw(log, net, s, H)) # {} =>
              SumOf(Valuations(log, net, s, H), Bettors(log)) = Volume(log)
<1>1. Raw(log, net, s, H) \in [Bettors(log) -> Int]
  BY RawTyped
<1>2. Valuations(log, net, s, H) =
        AdjustUserValuationsToMarketVolume(log, Raw(log, net, s, H))
  BY DEF Valuations, Raw
<1>3. Len(log) \in Nat /\ DOMAIN log = 1..Len(log)
      /\ IsFiniteSet(Bettors(log)) /\ Volume(log) \in Int
  BY LogRows, BettorsFinite, VolumeInt
<1> QED  BY <1>1, <1>2, <1>3, ValuesAreDealtOut

(* The values of the answers to "what if it were resolved to o".           *)
LEMMA ResolvedSum ==
  ASSUME NEW log, LogOk(log), NEW o \in Outcomes,
         NEW H, NEW net, DOMAIN net = Bettors(log),
         \A u \in Bettors(log) : net[u].yes \in Nat /\ net[u].no \in Nat
  PROVE  SumOf(Valuations(log, net, o, H), Bettors(log)) =
           IF \E u \in Bettors(log) : FinalShares(net[u], o) > 0
           THEN Volume(log) ELSE 0
<1> DEFINE raw == Raw(log, net, o, H)
<1>1. o \in Statuses /\ o # "open"
  BY DEF Outcomes, Statuses
<1>2. /\ raw \in [Bettors(log) -> Int]
      /\ \A u \in Bettors(log) : raw[u] = FinalShares(net[u], o)
  BY <1>1, RawTyped
<1>3. \A u \in Bettors(log) : FinalShares(net[u], o) \in Nat
  BY DEF FinalShares, Outcomes
<1>4. Holders(raw) = {u \in Bettors(log) : FinalShares(net[u], o) > 0}
  BY <1>2 DEF Holders
<1>5. CASE Holders(raw) = {}
  <2>1. Valuations(log, net, o, H) = raw
    BY <1>1, <1>5, ValuationsTyped
  <2>2. \A u \in Bettors(log) : raw[u] = 0
    BY <1>2, <1>3, <1>4, <1>5
  <2>3. SumOf(raw, Bettors(log)) = 0 * Cardinality(Bettors(log))
    <3> HIDE DEF raw
    <3> QED  BY <2>2, BettorsFinite, SumConstant
  <2>4. Cardinality(Bettors(log)) \in Nat
    BY BettorsFinite, FS_CardinalityType
  <2> QED  BY <1>4, <1>5, <2>1, <2>3, <2>4
<1>6. CASE Holders(raw) # {}
  <2>1. SumOf(Valuations(log, net, o, H), Bettors(log)) = Volume(log)
    BY <1>1, <1>6, ValuationsTyped
  <2> QED  BY <1>4, <1>6, <2>1
<1> QED  BY <1>5, <1>6

(* The values while the price is a probability.                            *)
LEMMA OpenSum ==
  ASSUME NEW log, LogOk(log),
         NEW H, NEW net, DOMAIN net = Bettors(log),
         \A u \in Bettors(log) : net[u].yes \in Nat /\ net[u].no \in Nat,
         0 <= CurrentProbability(log).num,
         CurrentProbability(log).num <= CurrentProbability(log).den
  PROVE  \/ \A u \in Bettors(log) : Valuations(log, net, "open", H)[u] = 0
         \/ SumOf(Valuations(log, net, "open", H), Bettors(log)) = Volume(log)
<1> DEFINE raw == Raw(log, net, "open", H)
<1>1. "open" \in Statuses
  BY DEF Statuses
<1>2. /\ raw \in [Bettors(log) -> Int]
      /\ \A u \in Bettors(log) : raw[u] >= 0
  BY <1>1, RawTyped
<1>3. CASE Holders(raw) = {}
  <2>1. Valuations(log, net, "open", H) = raw
    BY <1>1, <1>3, ValuationsTyped
  <2>2. \A u \in Bettors(log) : ~(raw[u] > 0)
    BY <1>2, <1>3 DEF Holders
  <2> HIDE DEF raw
  <2> QED  BY <1>2, <2>1, <2>2
<1>4. CASE Holders(raw) # {}
  BY <1>1, <1>4, ValuationsTyped
<1> QED  BY <1>3, <1>4

-----------------------------------------------------------------------------
(* One more row *)

(* A row changes no earlier stake, and adds to its own side's.             *)
LEMMA StakeAppended ==
  ASSUME NEW log \in Seq(RowSet), NEW row \in RowSet, NEW o
  PROVE  /\ \A k \in 0..Len(log) :
              StakeOn(Append(log, row), o, k) = StakeOn(log, o, k)
         /\ StakeOn(Append(log, row), o, Len(log) + 1) =
              StakeOn(log, o, Len(log))
                + (IF row.outcome = o THEN row.amount ELSE 0)
<1> DEFINE n == Len(log)
           new == Append(log, row)
           S(k) == {i \in Rows(log, o) : i <= k}
           N(k) == {i \in Rows(new, o) : i <= k}
<1>1. /\ n \in Nat /\ DOMAIN log = 1..n /\ DOMAIN new = 1..(n + 1)
      /\ \A i \in 1..n : new[i] = log[i]
      /\ new[n + 1] = row /\ new \in Seq(RowSet)
  OBVIOUS
<1>2. \A i \in 1..n : log[i] \in RowSet
  OBVIOUS
<1>3. \A i \in 1..n : log[i].amount \in Int
  BY <1>2 DEF RowSet
<1>4. row.amount \in Int
  BY DEF RowSet
<1> HIDE DEF n, new
<1>5. ASSUME NEW k \in 0..n
      PROVE  /\ N(k) = S(k) /\ IsFiniteSet(S(k)) /\ n + 1 \notin S(k)
             /\ IntsOn(Stakes(log), S(k)) /\ IntsOn(Stakes(new), S(k))
             /\ SumOf(Stakes(new), N(k)) = SumOf(Stakes(log), S(k))
  <2>1. N(k) = S(k)
    BY <1>1 DEF Rows
  <2>2. IsFiniteSet(S(k)) /\ S(k) \subseteq 1..n /\ n + 1 \notin S(k)
    <3>1. IsFiniteSet(1..n)
      BY <1>1, FS_Interval
    <3>2. S(k) \subseteq 1..n /\ n + 1 \notin 1..n
      BY <1>1 DEF Rows
    <3> QED  BY <3>1, <3>2, FS_Subset
  <2>3. /\ IntsOn(Stakes(log), S(k))
        /\ \A i \in S(k) : Stakes(new)[i] = Stakes(log)[i]
    <3>1. \A i \in 1..n : /\ Stakes(log)[i] = log[i].amount
                          /\ Stakes(new)[i] = log[i].amount
      BY <1>1 DEF Stakes
    <3> QED  BY <2>2, <3>1, <1>3 DEF IntsOn
  <2> HIDE DEF S, N
  <2>4. SumOf(Stakes(new), S(k)) = SumOf(Stakes(log), S(k))
    BY <2>2, <2>3, SumCongruent
  <2>5. SumOf(Stakes(new), N(k)) = SumOf(Stakes(new), S(k))
    BY <2>1, Zenon
  <2> QED  BY <2>1, <2>2, <2>3, <2>4, <2>5 DEF IntsOn
<1>6. Stakes(new)[n + 1] = row.amount
  BY <1>1 DEF Stakes
<1>7. N(n + 1) = IF row.outcome = o THEN S(n) \cup {n + 1} ELSE S(n)
  <2>1. \A i \in N(n + 1) : i = n + 1 \/ i \in S(n)
    BY <1>1 DEF Rows
  <2>2. S(n) \subseteq N(n + 1)
    BY <1>1 DEF Rows
  <2>3. n + 1 \in N(n + 1) <=> row.outcome = o
    BY <1>1 DEF Rows
  <2> HIDE DEF S, N
  <2>4. CASE row.outcome = o
    BY <2>1, <2>2, <2>3, <2>4
  <2>5. CASE row.outcome # o
    <3>1. n + 1 \notin N(n + 1)
      BY <2>3, <2>5
    <3>2. \A i : i \in N(n + 1) <=> i \in S(n)
      BY <2>1, <2>2, <3>1
    <3>3. N(n + 1) = S(n)
      BY <3>2
    <3> QED  BY <3>3, <2>5
  <2> QED  BY <2>4, <2>5
<1>8. \A k \in 0..n : StakeOn(new, o, k) = StakeOn(log, o, k)
  BY <1>5 DEF StakeOn
<1>9. StakeOn(new, o, n + 1) = SumOf(Stakes(new), N(n + 1))
      /\ StakeOn(log, o, n) = SumOf(Stakes(log), S(n))
  BY DEF StakeOn
<1>10. /\ N(n) = S(n) /\ IsFiniteSet(S(n)) /\ n + 1 \notin S(n)
       /\ IntsOn(Stakes(new), S(n))
       /\ SumOf(Stakes(new), N(n)) = SumOf(Stakes(log), S(n))
       /\ SumOf(Stakes(log), S(n)) \in Int
  <2>1. n \in 0..n
    BY <1>1
  <2> HIDE DEF S, N
  <2> QED  BY <2>1, <1>5, SumInt
<1>11. SumOf(Stakes(new), S(n)) = SumOf(Stakes(log), S(n))
  <2> HIDE DEF S, N
  <2> QED  BY <1>10, Zenon
<1> HIDE DEF S, N
<1>12. CASE row.outcome = o
  <2>1. N(n + 1) = S(n) \cup {n + 1}
    BY <1>7, <1>12
  <2>2. SumOf(Stakes(new), S(n) \cup {n + 1})
          = Stakes(new)[n + 1] + SumOf(Stakes(new), S(n))
    BY <1>4, <1>6, <1>10, SumAdd
  <2>3. SumOf(Stakes(new), N(n + 1))
          = Stakes(new)[n + 1] + SumOf(Stakes(new), S(n))
    BY <2>1, <2>2, Zenon
  <2> QED  BY <2>3, <1>4, <1>6, <1>8, <1>9, <1>10, <1>11, <1>12 DEF n, new
<1>13. CASE row.outcome # o
  <2>1. N(n + 1) = S(n)
    BY <1>7, <1>13
  <2>2. SumOf(Stakes(new), N(n + 1)) = SumOf(Stakes(new), S(n))
    BY <2>1, Zenon
  <2> QED  BY <2>2, <1>8, <1>9, <1>10, <1>11, <1>13 DEF n, new
<1> QED  BY <1>12, <1>13

(* The price a log had stays the price of the longer log's prefix.         *)
LEMMA LogExtended ==
  ASSUME NEW log, LogOk(log), NEW row \in RowSet,
         CurrentProbability(Append(log, row)).den > 0
  PROVE  LogOk(Append(log, row))
<1> DEFINE n == Len(log)
           new == Append(log, row)
<1>1. log \in Seq(RowSet) /\ n \in Nat /\ new \in Seq(RowSet)
      /\ Len(new) = n + 1
  BY DEF LogOk
<1>2. ASSUME NEW k \in 1..n PROVE Probability(new, k).den > 0
  <2>2. k # 0 /\ k \in 0..Len(log)
    OBVIOUS
  <2>1. /\ StakeOn(new, "YES", k) = StakeOn(log, "YES", k)
        /\ StakeOn(new, "NO", k) = StakeOn(log, "NO", k)
    <3> HIDE DEF n
    <3> QED  BY <1>1, <2>2, StakeAppended
  <2> HIDE DEF n, new
  <2>3. Probability(new, k).den = Probability(log, k).den
    BY <2>1, <2>2 DEF Probability
  <2> QED  BY <2>3 DEF LogOk, n
<1>3. Probability(new, n + 1).den > 0
  BY <1>1 DEF CurrentProbability
<1> HIDE DEF new
<1>4. \A k \in 1..Len(new) : k = n + 1 \/ k \in 1..n
  BY <1>1
<1>5. \A k \in 1..Len(new) : Probability(new, k).den > 0
  BY <1>2, <1>3, <1>4
<1> QED  BY <1>1, <1>5 DEF LogOk, new

-----------------------------------------------------------------------------
(* The calculators' answers *)

(* calc is what the calculators answer for the log, and the log is priced. *)
Answered(log, f, c) ==
  /\ LogOk(log)
  /\ f.leftover \in SUBSET Cancelled(log)
  /\ f.low \subseteq DOMAIN log /\ f.pools \subseteq Outcomes
  /\ c = Calculate(log, f)

BookInv == Answered(bets, fp, calc)

LEMMA Answers ==
  ASSUME NEW log, NEW f, NEW c, Answered(log, f, c)
  PROVE  /\ c.scaled \in [1..Len(log) -> Int]
         /\ c.adjusted = AdjustPayouts(log, c.scaled)
         /\ c.adjusted \in [1..Len(log) -> Int]
         /\ Kept(log, c.adjusted, Len(log), Len(log), c.final)
         /\ DOMAIN c.net = Bettors(log)
         /\ \A u \in Bettors(log) : c.net[u].yes \in Nat /\ c.net[u].no \in Nat
         /\ \A s \in Statuses :
              c.value[s] = Valuations(log, c.net, s, f.values)
<1>0. /\ LogOk(log) /\ f.leftover \in SUBSET Cancelled(log)
      /\ c = Calculate(log, f)
  BY DEF Answered
<1>1. /\ c.scaled = CalculateScaledPayouts(log, f)
      /\ c.adjusted = AdjustPayouts(log, c.scaled)
      /\ c.final = EnsureMinimumPayouts(log, c.adjusted)
      /\ c.net = NetOf(log, c.final)
      /\ c.value = [s \in Statuses |-> Valuations(log, c.net, s, f.values)]
  BY <1>0 DEF Calculate, FromScaled, FromAdjusted, FromFinal, Stages, NetOf
<1>2. c.scaled \in [1..Len(log) -> Int]
  BY <1>0, <1>1, ScaledTyped
<1>3. c.adjusted \in [1..Len(log) -> Int]
  BY <1>0, <1>1, <1>2, AdjustedTyped
<1>4. Kept(log, c.adjusted, Len(log), Len(log), c.final)
  <2>1. Len(log) \in Nat /\ DOMAIN log = 1..Len(log)
    BY <1>0, LogRows
  <2> QED  BY <1>1, <1>3, <2>1, EnsureKeeps
<1>5. c.final \in [1..Len(log) -> Int]
  BY <1>4 DEF Kept
<1>6. /\ DOMAIN c.net = Bettors(log)
      /\ \A u \in Bettors(log) : c.net[u].yes \in Nat /\ c.net[u].no \in Nat
  BY <1>0, <1>1, <1>5, NetTyped
<1> QED  BY <1>1, <1>2, <1>3, <1>4, <1>6

LEMMA OwnedShares ==
  ASSUME BookInv, NEW u \in Users, NEW o \in Outcomes
  PROVE  /\ SharesOwned(u, o) \in Nat
         /\ SharesOwned(u, o) # 0 =>
              u \in Bettors(bets) /\ calc.value["open"][u] \in Int
         /\ u \in Bettors(bets) =>
              SharesOwned(u, o) = FinalShares(calc.net[u], o)
<1>1. /\ LogOk(bets) /\ DOMAIN calc.net = Bettors(bets)
      /\ \A v \in Bettors(bets) : /\ calc.net[v].yes \in Nat
                                  /\ calc.net[v].no \in Nat
      /\ \A s \in Statuses :
           calc.value[s] = Valuations(bets, calc.net, s, fp.values)
  BY Answers DEF BookInv, Answered
<1>2. /\ SharesOwned(u, o) \in Nat
      /\ SharesOwned(u, o) # 0 => u \in Bettors(bets)
  BY <1>1 DEF SharesOwned
<1>3. u \in Bettors(bets) => calc.value["open"][u] \in Int
  <2>1. "open" \in Statuses
    BY DEF Statuses
  <2>2. Valuations(bets, calc.net, "open", fp.values)
          \in [Bettors(bets) -> Int]
    BY <1>1, <2>1, ValuationsTyped
  <2> QED  BY <1>1, <2>1, <2>2
<1>4. u \in Bettors(bets) => SharesOwned(u, o) = FinalShares(calc.net[u], o)
  BY <1>1 DEF SharesOwned, FinalShares, Outcomes
<1> QED  BY <1>2, <1>3, <1>4

(* A sale takes at most the shares owned, at most one per credit of value. *)
LEMMA SoldRow ==
  ASSUME BookInv, NEW u \in Users, NEW o \in Outcomes, NEW c \in SaleCredits,
         SharesOwned(u, o) # 0,
         SaleAccepted(calc.value["open"][u], SharesOwned(u, o), c)
  PROVE  LET sold == SharesToSell(calc.value["open"][u], SharesOwned(u, o), c)
         IN  sold \in Nat \ {0} /\ sold <= calc.value["open"][u]
<1> DEFINE owned == SharesOwned(u, o)
           value == calc.value["open"][u]
<1>1. owned \in Nat \ {0} /\ value \in Int /\ c \in Int
  BY OwnedShares, BookAssumption
<1> HIDE DEF owned, value
<1>2. SaleAccepted(value, owned, c)
  BY DEF owned, value
<1>3. /\ SharesToSell(value, owned, c) \in 1..owned
      /\ SaleValue(value, owned, c) \in Nat
      /\ SharesToSell(value, owned, c) <= SaleValue(value, owned, c)
      /\ SaleValue(value, owned, c) <= value
  BY <1>1, <1>2, SaleBounds
<1>4. SharesToSell(value, owned, c) \in Nat \ {0}
      /\ SharesToSell(value, owned, c) <= value
  BY <1>1, <1>3
<1> QED  BY <1>4 DEF owned, value

LEMMA BookInit == Init => BookInv
<1> SUFFICES ASSUME Init PROVE BookInv
  OBVIOUS
<1>1. bets = <<>> /\ Len(bets) = 0 /\ bets \in Seq(RowSet)
  BY DEF Init
<1>2. \A k \in 1..Len(bets) : FALSE
  BY <1>1
<1>3. LogOk(bets)
  BY <1>1, <1>2 DEF LogOk
<1> QED  BY <1>3 DEF Init, BookInv, Answered

(* Every step appends one row of the shape the handlers insert, and a sale *)
(* takes no more shares than the position is worth.                        *)
LEMMA StepAppends ==
  ASSUME BookInv, Next
  PROVE  \E row \in RowSet :
           /\ Insert(row)
           /\ row.amount < 0 => -row.amount <= calc.value["open"][row.user]
<1>1. PICK u \in Users, o \in Outcomes :
        \/ \E a \in BuyAmounts : Buy(u, o, a)
        \/ \E c \in SaleCredits : Sell(u, o, c)
  BY DEF Next
<1>2. ASSUME NEW a \in BuyAmounts, Buy(u, o, a)
      PROVE  \E row \in RowSet :
               /\ Insert(row)
               /\ row.amount < 0 => -row.amount <= calc.value["open"][row.user]
  <2>1. a \in Int /\ a >= 1
    BY <1>2, BookAssumption DEF Buy
  <2>2. Row(u, o, a) \in RowSet /\ Row(u, o, a).amount = a
    BY <2>1 DEF Row, RowSet
  <2> QED  BY <1>2, <2>1, <2>2 DEF Buy
<1>3. ASSUME NEW c \in SaleCredits, Sell(u, o, c)
      PROVE  \E row \in RowSet :
               /\ Insert(row)
               /\ row.amount < 0 => -row.amount <= calc.value["open"][row.user]
  <2> DEFINE sold == SharesToSell(calc.value["open"][u], SharesOwned(u, o), c)
  <2>1. sold \in Nat \ {0} /\ sold <= calc.value["open"][u]
    BY <1>3, SoldRow DEF Sell
  <2>2. Insert(Row(u, o, -sold))
    BY <1>3 DEF Sell
  <2> HIDE DEF sold
  <2>3. /\ Row(u, o, -sold) \in RowSet
        /\ Row(u, o, -sold).amount = -sold /\ Row(u, o, -sold).user = u
    BY <2>1 DEF Row, RowSet
  <2>4. -(-sold) <= calc.value["open"][u]
    BY <2>1
  <2> QED  BY <2>2, <2>3, <2>4
<1> QED  BY <1>1, <1>2, <1>3

LEMMA BookStep == BookInv /\ PriceDefined' /\ [Next]_vars => BookInv'
<1> SUFFICES ASSUME BookInv, PriceDefined', [Next]_vars PROVE BookInv'
  OBVIOUS
<1>1. CASE Next
  <2>1. PICK row \in RowSet : Insert(row)
    BY <1>1, StepAppends
  <2>2. PICK f \in FloatOutcomes(bets') : fp' = f
    BY <2>1 DEF Insert
  <2>3. LogOk(bets')
    BY <2>1, LogExtended DEF Insert, BookInv, Answered, PriceDefined
  <2>4. PICK g \in ShareOutcomes(bets') :
          \E V \in SUBSET HalfValues(bets', NetPositions(bets', g)) :
            f = [g EXCEPT !.values = V]
    BY <2>2 DEF FloatOutcomes
  <2>5. PICK P \in SUBSET HalfPools(bets'), C \in SUBSET Cancelled(bets') :
          g \in [pools : {P}, leftover : {C}, values : {{}},
                low : SUBSET HalfRows(bets', P, C)]
    BY <2>4 DEF ShareOutcomes
  <2>6. HalfRows(bets', P, C) \subseteq DOMAIN bets'
    <3>1. DOMAIN ScaledFractions(bets', P, C) = 1..Len(bets')
      BY <2>3, <2>5, FractionsTyped
    <3>2. DOMAIN bets' = 1..Len(bets')
      BY <2>3, LogRows
    <3> QED  BY <3>1, <3>2 DEF HalfRows, Halves
  <2>7. P \subseteq Outcomes
    <3>1. DOMAIN PoolFractions(bets') = Outcomes
      BY DEF PoolFractions, Outcomes
    <3> QED  BY <3>1 DEF HalfPools, Halves
  <2>8. /\ fp'.leftover = C /\ fp'.pools = P
        /\ fp'.low \in SUBSET HalfRows(bets', P, C)
    BY <2>2, <2>4, <2>5
  <2>9. /\ fp'.leftover \in SUBSET Cancelled(bets')
        /\ fp'.pools \subseteq Outcomes
        /\ fp'.low \subseteq DOMAIN bets'
    BY <2>5, <2>6, <2>7, <2>8
  <2> QED  BY <2>1, <2>3, <2>9 DEF Insert, BookInv, Answered
<1>2. CASE UNCHANGED vars
  BY <1>2 DEF vars, BookInv
<1> QED  BY <1>1, <1>2

-----------------------------------------------------------------------------
(* Theorems of the book *)

(* While every price that comes up is defined, the log holds rows the      *)
(* handlers insert, and calc is what the calculators answer for it.        *)
LEMMA BookAlways == Spec /\ []PriceDefined => []BookInv
BY BookInit, BookStep, PTL DEF Spec

(* Rows keep the shape the handlers insert, and every stage of the         *)
(* calculators answers in integers, for every bettor in every status.      *)
THEOREM BookTypeCorrect == Spec /\ []PriceDefined => []TypeOK
<1>1. BookInv => TypeOK
  <2> SUFFICES ASSUME BookInv PROVE TypeOK
    OBVIOUS
  <2>1. /\ LogOk(bets) /\ DOMAIN calc.net = Bettors(bets)
        /\ \A v \in Bettors(bets) : /\ calc.net[v].yes \in Nat
                                    /\ calc.net[v].no \in Nat
        /\ \A s \in Statuses :
             calc.value[s] = Valuations(bets, calc.net, s, fp.values)
    BY Answers DEF BookInv, Answered
  <2>2. bets \in Seq([user : Users, outcome : Outcomes, amount : Int \ {0}])
    BY <2>1 DEF LogOk, RowSet
  <2>3. /\ fp.low \subseteq DOMAIN bets
        /\ fp.pools \subseteq Outcomes /\ fp.leftover \subseteq Outcomes
    BY DEF BookInv, Answered, Cancelled
  <2>4. \A s \in Statuses : calc.value[s] \in [Bettors(bets) -> Int]
    BY <2>1, ValuationsTyped
  <2> QED  BY <2>1, <2>2, <2>3, <2>4 DEF TypeOK
<1> QED  BY <1>1, BookAlways, PTL

(* The two corrections leave payouts that add up to the market volume and  *)
(* what adjustForPositiveExcess found nobody to take from.                 *)
THEOREM PayoutsMeetVolume == Spec /\ []PriceDefined => []PayoutsAddUp
<1>1. BookInv => PayoutsAddUp
  <2> SUFFICES ASSUME BookInv PROVE PayoutsAddUp
    OBVIOUS
  <2> DEFINE n == Len(bets)
             excess == CalculateExcess(bets, calc.scaled)
  <2>1. /\ LogOk(bets) /\ calc.scaled \in [1..n -> Int]
        /\ calc.adjusted = AdjustPayouts(bets, calc.scaled)
        /\ calc.adjusted \in [1..n -> Int]
        /\ Kept(bets, calc.adjusted, n, n, calc.final)
    BY Answers DEF BookInv, Answered
  <2>2. DOMAIN bets = 1..n
    BY <2>1, LogRows
  <2>3. SumOf(calc.adjusted, 1..n) = Volume(bets)
          + (IF excess > 0 THEN Missed(n, calc.scaled, excess) ELSE 0)
    BY <2>1, AdjustedSum
  <2>4. SumOf(calc.final, 1..n) = SumOf(calc.adjusted, 1..n)
    BY <2>1, SidesMakeTotal DEF Kept
  <2> HIDE DEF n, excess
  <2>5. Untaken = IF excess > 0 THEN Missed(n, calc.scaled, excess) ELSE 0
    BY DEF Untaken, Missed, n, excess
  <2> QED  BY <2>2, <2>3, <2>4, <2>5, Zenon DEF PayoutsAddUp
<1> QED  BY <1>1, BookAlways, PTL

(* Raising rows to one share moves shares within a side, and gives up on a *)
(* row only when no other row of its side could give and stay positive.    *)
THEOREM RowsAreRaised == Spec /\ []PriceDefined => []MinimumUnlessNoDonor
<1>1. BookInv => MinimumUnlessNoDonor
  <2> SUFFICES ASSUME BookInv PROVE MinimumUnlessNoDonor
    OBVIOUS
  <2>1. /\ LogOk(bets)
        /\ Kept(bets, calc.adjusted, Len(bets), Len(bets), calc.final)
    BY Answers DEF BookInv, Answered
  <2>2. DOMAIN bets = 1..Len(bets)
    BY <2>1, LogRows
  <2> QED  BY <2>1, <2>2 DEF MinimumUnlessNoDonor, Kept, Stuck, Others
<1> QED  BY <1>1, BookAlways, PTL

(* In a resolved market the values add up to the pool, if anybody won.     *)
THEOREM ResolvedPoolIsDealtOut ==
  Spec /\ []PriceDefined => []ResolvedValuesMatchPool
<1>1. BookInv => ResolvedValuesMatchPool
  <2> SUFFICES ASSUME BookInv, NEW o \in Outcomes
               PROVE  SumOf(calc.value[o], Bettors(bets)) =
                        IF \E u \in Bettors(bets) : SharesOwned(u, o) > 0
                        THEN Volume(bets) ELSE 0
    BY DEF ResolvedValuesMatchPool
  <2>1. /\ LogOk(bets) /\ DOMAIN calc.net = Bettors(bets)
        /\ \A v \in Bettors(bets) : /\ calc.net[v].yes \in Nat
                                    /\ calc.net[v].no \in Nat
        /\ \A s \in Statuses :
             calc.value[s] = Valuations(bets, calc.net, s, fp.values)
    BY Answers DEF BookInv, Answered
  <2>2. calc.value[o] = Valuations(bets, calc.net, o, fp.values)
    BY <2>1 DEF Outcomes, Statuses
  <2>3. SumOf(Valuations(bets, calc.net, o, fp.values), Bettors(bets)) =
          IF \E u \in Bettors(bets) : FinalShares(calc.net[u], o) > 0
          THEN Volume(bets) ELSE 0
    BY <2>1, ResolvedSum
  <2>4. \A u \in Bettors(bets) :
          SharesOwned(u, o) = FinalShares(calc.net[u], o)
    BY <2>1, BettorsFinite, OwnedShares
  <2> QED  BY <2>2, <2>3, <2>4, Zenon
<1> QED  BY <1>1, BookAlways, PTL

(* While the price is a probability, the open market's values add up to    *)
(* the pool, if any position has a value.                                  *)
THEOREM OpenPoolIsDealtOut ==
  Spec /\ []PriceDefined => []OpenValuesMatchPool
<1>1. BookInv => OpenValuesMatchPool
  <2> SUFFICES ASSUME BookInv, PriceInRange
               PROVE  LET value == calc.value["open"]
                      IN  \/ \A u \in Bettors(bets) : value[u] = 0
                          \/ SumOf(value, Bettors(bets)) = Volume(bets)
    BY DEF OpenValuesMatchPool
  <2>1. /\ LogOk(bets) /\ DOMAIN calc.net = Bettors(bets)
        /\ \A v \in Bettors(bets) : /\ calc.net[v].yes \in Nat
                                    /\ calc.net[v].no \in Nat
        /\ \A s \in Statuses :
             calc.value[s] = Valuations(bets, calc.net, s, fp.values)
    BY Answers DEF BookInv, Answered
  <2>2. calc.value["open"] = Valuations(bets, calc.net, "open", fp.values)
    BY <2>1 DEF Statuses
  <2>3. \/ \A u \in Bettors(bets) :
             Valuations(bets, calc.net, "open", fp.values)[u] = 0
        \/ SumOf(Valuations(bets, calc.net, "open", fp.values), Bettors(bets))
             = Volume(bets)
    BY <2>1, OpenSum DEF PriceInRange
  <2> QED  BY <2>2, <2>3
<1> QED  BY <1>1, BookAlways, PTL

(* A sale takes out at most as many shares as the position is worth.       *)
THEOREM SalesAreCovered == Spec /\ []PriceDefined => SaleCoveredByValue
<1>1. ASSUME BookInv, [Next]_vars
      PROVE  [LET new == bets'[Len(bets')]
              IN  new.amount < 0 =>
                    -new.amount <= calc.value["open"][new.user]]_bets
  <2>1. CASE Next
    <3>1. PICK row \in RowSet :
            /\ Insert(row)
            /\ row.amount < 0 => -row.amount <= calc.value["open"][row.user]
      BY <1>1, <2>1, StepAppends
    <3>2. bets' = Append(bets, row) /\ bets \in Seq(RowSet)
      BY <1>1, <3>1 DEF Insert, BookInv, Answered, LogOk
    <3>3. bets'[Len(bets')] = row
      BY <3>2
    <3> QED  BY <3>1, <3>3
  <2>2. CASE UNCHANGED vars
    BY <2>2 DEF vars
  <2> QED  BY <1>1, <2>1, <2>2
<1> QED  BY <1>1, BookAlways, PTL DEF Spec, SaleCoveredByValue

(* What a row adds to a side of a fraction up to one moves it that way.    *)
LEMMA FractionMoves ==
  ASSUME NEW m \in Int, NEW d \in Nat \ {0}, 0 <= m, m <= d, NEW a \in Int
  PROVE  /\ a >= 0 => (m + a) * d >= m * (d + a) /\ m * d <= m * (d + a)
         /\ a <= 0 => (m + a) * d <= m * (d + a) /\ m * d >= m * (d + a)
<1>1. m \in Nat /\ d - m \in Nat
  OBVIOUS
<1>2. /\ (m + a) * d = m * d + a * d
      /\ m * (d + a) = m * d + m * a
      /\ a * (d - m) = a * d - m * a
  BY SMT
<1>3. /\ a >= 0 => a * (d - m) >= 0 /\ m * a >= 0
      /\ a <= 0 => a * (d - m) <= 0 /\ m * a <= 0
  BY <1>1, SMT
<1> QED  BY <1>2, <1>3, SMT

(* Without initial shares a row adds its amount to the volume, and a YES   *)
(* row adds it to the numerator as well.                                   *)
LEMMA PriceAppended ==
  ASSUME InitialYes = 0, InitialNo = 0,
         NEW log \in Seq(RowSet), NEW row \in RowSet
  PROVE  LET p == CurrentProbability(log)
             q == CurrentProbability(Append(log, row))
         IN  /\ q.den = p.den + row.amount
             /\ q.num = p.num + (IF row.outcome = "YES" THEN row.amount ELSE 0)
<1> DEFINE n == Len(log)
           new == Append(log, row)
           yes == StakeOn(log, "YES", n)
           no == StakeOn(log, "NO", n)
<1>1. n \in Nat /\ Len(new) = n + 1 /\ row.amount \in Int
      /\ row.outcome \in {"YES", "NO"}
  BY DEF RowSet, Outcomes
<1>2. yes \in Int /\ no \in Int
  BY StakesInt
<1>3. /\ StakeOn(new, "YES", n + 1)
           = yes + (IF row.outcome = "YES" THEN row.amount ELSE 0)
      /\ StakeOn(new, "NO", n + 1)
           = no + (IF row.outcome = "NO" THEN row.amount ELSE 0)
  BY StakeAppended
<1>4. /\ CurrentProbability(log).num = InitialCredit + yes
      /\ CurrentProbability(log).den = Subsidization + yes + no
  <2>1. CASE n = 0
    <3>1. \A o : {i \in Rows(log, o) : i <= 0} = {}
      BY <2>1 DEF Rows
    <3>2. yes = 0 /\ no = 0
      BY <2>1, <3>1, SumEmpty, Zenon DEF StakeOn
    <3> HIDE DEF yes, no
    <3> QED  BY <2>1, <3>2, SubsidyAssumption
             DEF CurrentProbability, Probability
  <2>2. CASE n # 0
    <3>1. /\ CurrentProbability(log).num = InitialCredit + (InitialYes + yes)
          /\ CurrentProbability(log).den
               = Subsidization + (InitialYes + yes) + (InitialNo + no)
      BY <2>2 DEF CurrentProbability, Probability
    <3> HIDE DEF yes, no
    <3> QED  BY <3>1, <1>2, SubsidyAssumption
  <2> QED  BY <2>1, <2>2
<1>5. /\ CurrentProbability(new).num
           = InitialCredit + (InitialYes + StakeOn(new, "YES", n + 1))
      /\ CurrentProbability(new).den
           = Subsidization + (InitialYes + StakeOn(new, "YES", n + 1))
               + (InitialNo + StakeOn(new, "NO", n + 1))
  BY <1>1 DEF CurrentProbability, Probability
<1> HIDE DEF n, new, yes, no
<1>6. CASE row.outcome = "YES"
  BY <1>1, <1>2, <1>3, <1>4, <1>5, <1>6, SubsidyAssumption DEF new
<1>7. CASE row.outcome = "NO"
  BY <1>1, <1>2, <1>3, <1>4, <1>5, <1>7, SubsidyAssumption DEF new
<1> QED  BY <1>1, <1>6, <1>7

(* In a market without initial shares the price never moves against the    *)
(* money, as long as it is a probability.                                  *)
THEOREM PriceFollowsMoney ==
  ASSUME InitialYes = 0, InitialNo = 0
  PROVE  Spec /\ []PriceDefined => ProbabilityMovesWithMoney
<1>1. ASSUME BookInv, [Next]_vars
      PROVE  [LET p == CurrentProbability(bets)
                  q == CurrentProbability(bets')
                  new == bets'[Len(bets')]
                  up  == (new.outcome = "YES") <=> (new.amount > 0)
              IN  PriceInRange => IF up THEN q.num * p.den >= p.num * q.den
                                  ELSE q.num * p.den <= p.num * q.den]_bets
  <2>1. CASE Next
    <3> DEFINE p == CurrentProbability(bets)
               q == CurrentProbability(bets')
               new == bets'[Len(bets')]
    <3>1. PICK row \in RowSet : Insert(row)
      BY <1>1, <2>1, StepAppends
    <3>2. bets' = Append(bets, row) /\ bets \in Seq(RowSet) /\ LogOk(bets)
      BY <1>1, <3>1 DEF Insert, BookInv, Answered, LogOk
    <3>3. new = row
      BY <3>2
    <3>4. /\ q.den = p.den + row.amount
          /\ q.num = p.num + (IF row.outcome = "YES" THEN row.amount ELSE 0)
      BY <3>2, PriceAppended
    <3>5. p.num \in Int /\ p.den \in Nat \ {0}
      BY <3>2, LogRows, PricesDefined DEF CurrentProbability
    <3>6. row.amount \in Int /\ row.amount # 0
      BY DEF RowSet
    <3>7. PriceInRange <=> (p.den > 0 /\ 0 <= p.num /\ p.num <= p.den)
      BY DEF PriceInRange
    <3> HIDE DEF p, q, new
    <3>8. ASSUME PriceInRange
          PROVE  IF (row.outcome = "YES") <=> (row.amount > 0)
                 THEN q.num * p.den >= p.num * q.den
                 ELSE q.num * p.den <= p.num * q.den
      <4> DEFINE m == p.num
                 d == p.den
                 a == row.amount
      <4>1. /\ a >= 0 => (m + a) * d >= m * (d + a) /\ m * d <= m * (d + a)
            /\ a <= 0 => (m + a) * d <= m * (d + a) /\ m * d >= m * (d + a)
        <5>1. m \in Int /\ d \in Nat \ {0} /\ 0 <= m /\ m <= d /\ a \in Int
          BY <3>5, <3>6, <3>7, <3>8
        <5> HIDE DEF m, d, a
        <5> QED  BY <5>1, FractionMoves
      <4>2. CASE row.outcome = "YES"
        <5>1. q.num = m + a /\ q.den = d + a
          BY <3>4, <4>2
        <5>2. /\ a > 0 => q.num * p.den >= p.num * q.den
              /\ ~(a > 0) => q.num * p.den <= p.num * q.den
          BY <3>6, <4>1, <5>1
        <5> QED  BY <4>2, <5>2
      <4>3. CASE row.outcome # "YES"
        <5>1. q.num = m /\ q.den = d + a
          BY <3>4, <3>5, <4>3
        <5>2. /\ ~(a > 0) => q.num * p.den >= p.num * q.den
              /\ a > 0 => q.num * p.den <= p.num * q.den
          BY <3>6, <4>1, <5>1
        <5> QED  BY <4>3, <5>2
      <4> QED  BY <4>2, <4>3
    <3> QED  BY <3>3, <3>8 DEF p, q, new
  <2>2. CASE UNCHANGED vars
    BY <2>2 DEF vars
  <2> QED  BY <1>1, <2>1, <2>2
<1> QED  BY <1>1, BookAlways, PTL DEF Spec, ProbabilityMovesWithMoney
=============================================================================
