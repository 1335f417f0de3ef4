----------------------------- MODULE MarketMath -----------------------------
(***************************************************************************)
(* The pricing pipeline of one market as pure functions of its bet log     *)
(* (handlers/math): WPAM probabilities, the DBPM share distribution, its   *)
(* corrections to integers, net positions and their credit value.          *)
(*                                                                         *)
(* A log is a sequence of rows [user, outcome, amount], oldest first; a    *)
(* sale is a row with a negative amount.  Probabilities are exact          *)
(* fractions and course payouts exact multiples of one unit per log.  The  *)
(* program computes them in float64, and two things depend on its rounding *)
(* errors; they are inputs here, the record rounding:                      *)
(*   rounding.pools, .low, .values                                         *)
(*                      the outcomes, rows and users whose pool of shares, *)
(*                      payout and value is an exact half that the float   *)
(*                      product puts nearer to zero, so that math.Round    *)
(*                      rounds it toward zero;                             *)
(*   rounding.leftover  the outcomes whose course payouts cancel exactly   *)
(*                      but whose float sum is a tiny positive number,     *)
(*                      which makes the normalization factor huge.         *)
(***************************************************************************)
EXTENDS SaleMath, Sums, Sequences, FiniteSets, SequencesExt

CONSTANTS
  Subsidization,      \* initialMarketSubsidization
  InitialCredit,      \* initialMarketProbability * initialMarketSubsidization
  InitialYes,         \* initialMarketYes
  InitialNo,          \* initialMarketNo
  LeftoverScale       \* one course unit over a leftover

ASSUME SubsidyAssumption ==
  /\ Subsidization \in Nat \ {0}
  /\ InitialCredit \in 1..Subsidization
  /\ InitialYes \in Nat /\ InitialNo \in Nat
  /\ LeftoverScale \in Nat \ {0}

Outcomes == {"YES", "NO"}
MaxExponent == 16   \* bound on the powers of two looked for in denominators
Absolute(x) == IF x < 0 THEN -x ELSE x
Rows(log, o) == {i \in DOMAIN log : log[i].outcome = o}
(* The sequence s itself; written so that TLC computes its elements once.  *)
Computed(s) == SubSeq(s, 1, Len(s))

(* math.Round(a / b) for b > 0: halves go away from zero, unless low.      *)
RoundedQuotient(a, b, low) ==
  LET half == IF low THEN b - 1 ELSE b
      size == (2 * Absolute(a) + half) \div (2 * b)
  IN  IF a < 0 THEN -size ELSE size

(* Where the fractions q are exact halves.                                 *)
Halves(q) ==
  {i \in DOMAIN q : (2 * Absolute(q[i].num)) % (2 * q[i].den) = q[i].den}

-----------------------------------------------------------------------------
(* marketvolume.go and wpam_marketprobabilities.go *)

Stakes(log) == [i \in DOMAIN log |-> log[i].amount]
Volume(log) == SumOf(Stakes(log), DOMAIN log)

(* Mutant: sales count as money put in.                                    *)
StakeOnAbsolute(log, o, n) ==
  SumOf([i \in DOMAIN log |-> Absolute(log[i].amount)],
        {i \in Rows(log, o) : i <= n})

StakeOn(log, o, n) == SumOf(Stakes(log), {i \in Rows(log, o) : i <= n})

(* probabilityChanges[n].Probability as numerator and denominator.         *)
Probability(log, n) ==
  IF n = 0
  THEN [num |-> InitialCredit, den |-> Subsidization]
  ELSE LET yes == InitialYes + StakeOn(log, "YES", n)
           no  == InitialNo + StakeOn(log, "NO", n)
       IN  [num |-> InitialCredit + yes, den |-> Subsidization + yes + no]

CurrentProbability(log) == Probability(log, Len(log))

-----------------------------------------------------------------------------
(* dbpm/marketshares.go *)

SingleCreditYesNoAllocator(log) ==
  LET yes == StakeOn(log, "YES", Len(log))
      no  == StakeOn(log, "NO", Len(log))
  IN  [YES |-> IF yes > no THEN 1 ELSE 0, NO |-> IF no > yes THEN 1 ELSE 0]

PoolFractions(log) ==
  LET p == CurrentProbability(log)
      v == Volume(log)
  IN  [YES |-> [num |-> v * p.num, den |-> p.den],
       NO  |-> [num |-> v * (p.den - p.num), den |-> p.den]]

(* float64 holds a price exactly if some power of two clears its           *)
(* denominator; products with it are then exact, too.                      *)
HeldExactly(p) == \E k \in 0..MaxExponent : (2^k * p.num) % p.den = 0

HalfPools(log) ==
  IF Volume(log) = 1 \/ HeldExactly(CurrentProbability(log)) THEN {}
  ELSE Halves(PoolFractions(log))

DivideUpMarketPoolShares(log, low) ==
  LET q == PoolFractions(log)
  IN  IF Volume(log) = 1
      THEN SingleCreditYesNoAllocator(log)
      ELSE [o \in Outcomes |-> RoundedQuotient(q[o].num, q[o].den, o \in low)]

GreatestDivisor(a, b) == Max({d \in 1..b : a % d = 0 /\ b % d = 0})

(* A common multiple of the numbers in S: the least one.                   *)
CommonMultiple(S) ==
  FoldSet(LAMBDA d, m : m * (d \div GreatestDivisor(m, d)), 1, S)

(* |P_final - P_i| * amount, in units of one over the common denominator   *)
(* of the probabilities that occur.                                        *)
CoursePayouts(log) ==
  LET n    == Len(log)
      P    == [i \in 1..n |-> Probability(log, i)]
      unit == CommonMultiple({P[i].den : i \in 1..n})
      num  == [i \in 1..n |-> P[i].num * (unit \div P[i].den)]
  IN  Computed([i \in 1..n |-> Absolute(num[n] - num[i]) * log[i].amount])

CourseSum(log, o) == SumOf(CoursePayouts(log), Rows(log, o))

(* The outcomes whose float sum may come out as noise instead of zero.     *)
Cancelled(log) ==
  {o \in Outcomes : /\ CourseSum(log, o) = 0
                    /\ \E i \in Rows(log, o) : CoursePayouts(log)[i] # 0}

(* The normalization factor of one side for one share of its pool: one     *)
(* over the course sum, or its float leftover's inverse, or zero.          *)
NormalizationFactor(course, side, leftover) ==
  LET sum     == SumOf(course, side)
      largest == Max({Absolute(course[i]) : i \in side})
  IN  IF sum > 0 THEN [num |-> 1, den |-> sum]
      ELSE IF leftover THEN [num |-> LeftoverScale, den |-> largest]
      ELSE [num |-> 0, den |-> 1]

(* coursePayout * |shares * factor| for every row.                         *)
Normalized(log, course, shares, leftover) ==
  LET factor == [o \in Outcomes |->
                   NormalizationFactor(course, Rows(log, o), o \in leftover)]
  IN  Computed([i \in DOMAIN log |->
         LET o == log[i].outcome
         IN  [num |-> course[i] * Absolute(shares[o]) * factor[o].num,
              den |-> factor[o].den]])

ScaledFractions(log, pools, leftover) ==
  Normalized(log, CoursePayouts(log), DivideUpMarketPoolShares(log, pools),
             leftover)

(* The rows whose scaled payout is an exact half.                          *)
HalfRows(log, pools, leftover) ==
  Halves(ScaledFractions(log, pools, leftover))

Rounded(q, low) ==
  Computed([i \in DOMAIN q |-> RoundedQuotient(q[i].num, q[i].den, i \in low)])

CalculateScaledPayouts(log, rounding) ==
  Rounded(ScaledFractions(log, rounding.pools, rounding.leftover),
          rounding.low)

CalculateExcess(log, payouts) == SumOf(payouts, DOMAIN payouts) - Volume(log)

(* Every row loses the base; the newest rows still positive lose one more. *)
AdjustForPositiveExcess(payouts, excess) ==
  LET n       == Len(payouts)
      base    == excess \div n
      rest    == excess % n
      reduced == [i \in 1..n |-> payouts[i] - base]
      Newer(i) == {j \in (i + 1)..n : reduced[j] > 0}
  IN  [i \in 1..n |->
         IF reduced[i] > 0 /\ Cardinality(Newer(i)) < rest
         THEN reduced[i] - 1 ELSE reduced[i]]

(* Mutant: the remainder of the division is not handed out.                *)
AdjustForNegativeExcessEvenly(payouts, excess) ==
  [i \in 1..Len(payouts) |-> payouts[i] + ((-excess) \div Len(payouts))]

(* Every row gains the base; the earliest rows gain one more.              *)
AdjustForNegativeExcess(payouts, excess) ==
  LET n    == Len(payouts)
      base == (-excess) \div n
      rest == (-excess) % n
  IN  [i \in 1..n |-> payouts[i] + base + (IF i <= rest THEN 1 ELSE 0)]

AdjustPayouts(log, payouts) ==
  LET excess == CalculateExcess(log, payouts)
  IN  IF log = <<>> \/ excess = 0 THEN payouts
      ELSE IF excess > 0
      THEN Computed(AdjustForPositiveExcess(payouts, excess))
      ELSE Computed(AdjustForNegativeExcess(payouts, excess))

(* Mutant: the donor is the first positive payout, not the largest.        *)
FirstDonors(log, payouts, i) ==
  LET side == {j \in Rows(log, log[i].outcome) \ {i} : payouts[j] > 0}
  IN  {j \in side : \A k \in side : j <= k}

(* The first largest positive payout on row i's side, other than i's.      *)
Donors(log, payouts, i) ==
  LET side == {j \in Rows(log, log[i].outcome) \ {i} : payouts[j] > 0}
  IN  {j \in side : \A k \in side : \/ payouts[j] > payouts[k]
                                    \/ payouts[j] = payouts[k] /\ j <= k}

RaiseToOne(log, payouts, i) ==
  LET delta == 1 - payouts[i]
      donor == {j \in Donors(log, payouts, i) : payouts[j] > delta}
  IN  IF payouts[i] > 0 THEN payouts
      ELSE Computed([j \in DOMAIN payouts |->
              IF j = i /\ donor # {} THEN 1
              ELSE IF j \in donor THEN payouts[j] - delta ELSE payouts[j]])

EnsureMinimumPayouts(log, payouts) ==
  FoldLeft(LAMBDA p, i : RaiseToOne(log, p, i), payouts,
           [i \in DOMAIN payouts |-> i])

Bettors(log) == {log[i].user : i \in DOMAIN log}

AggregateUserPayouts(log, payouts) ==
  LET side(u, o) ==
        LET sum == SumOf(payouts, {i \in Rows(log, o) : log[i].user = u})
        IN  IF sum < 0 THEN 0 ELSE sum
  IN  [u \in Bettors(log) |-> [yes |-> side(u, "YES"), no |-> side(u, "NO")]]

NetAggregateMarketPositions(positions) ==
  [u \in DOMAIN positions |->
     IF positions[u].yes > positions[u].no
     THEN [yes |-> positions[u].yes - positions[u].no, no |-> 0]
     ELSE [yes |-> 0, no |-> positions[u].no - positions[u].yes]]
=============================================================================
