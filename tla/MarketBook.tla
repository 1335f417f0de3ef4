----------------------------- MODULE MarketBook -----------------------------
(***************************************************************************)
(* One open market served one request at a time: its log grows by the buys *)
(* and sales the handlers accept, and calc holds what the calculators of   *)
(* handlers/math answer for the current log.  Balances are left to the     *)
(* module Exchange: here every user can afford every bet.                  *)
(***************************************************************************)
EXTENDS PositionMath

CONSTANTS
  Users,          \* the users that trade in this market
  BuyAmounts,     \* the amounts of the buy requests
  SaleCredits,    \* the credits named by the sale requests
  MaxBets         \* bound on the length of the log

ASSUME BookAssumption ==
  /\ Users # {}
  /\ BuyAmounts \subseteq Int
  /\ SaleCredits \subseteq Int
  /\ MaxBets \in Nat

VARIABLES
  bets,   \* the rows of table bets for the market, by placed_at
  fp,     \* how the float64 arithmetic falls out for this log
  calc    \* the calculators' answers for this log

vars == <<bets, fp, calc>>

Row(u, o, a) == [user |-> u, outcome |-> o, amount |-> a]

(* Every way the float arithmetic can fall out for a log: first in the     *)
(* shares, then in the values of the positions they come to.               *)
ShareOutcomes(log) ==
  UNION {UNION {[pools : {P}, leftover : {C}, values : {{}},
                 low : SUBSET HalfRows(log, P, C)]
                  : C \in SUBSET Cancelled(log)}
           : P \in SUBSET HalfPools(log)}

FloatOutcomes(log) ==
  UNION {{[f EXCEPT !.values = V]
            : V \in SUBSET HalfValues(log, NetPositions(log, f))}
           : f \in ShareOutcomes(log)}

Stages(log, f, scaled, adjusted, final, net) ==
  [scaled |-> scaled, adjusted |-> adjusted, final |-> final, net |-> net,
   value |-> [s \in Statuses |-> Valuations(log, net, s, f.values)]]

FromFinal(log, f, scaled, adjusted, final) ==
  Stages(log, f, scaled, adjusted, final,
         NetAggregateMarketPositions(AggregateUserPayouts(log, final)))

FromAdjusted(log, f, scaled, adjusted) ==
  FromFinal(log, f, scaled, adjusted, EnsureMinimumPayouts(log, adjusted))

FromScaled(log, f, scaled) ==
  FromAdjusted(log, f, scaled, AdjustPayouts(log, scaled))

(* What every stage of the pipeline answers for a log.                     *)
Calculate(log, f) == FromScaled(log, f, CalculateScaledPayouts(log, f))

-----------------------------------------------------------------------------
Init ==
  /\ bets = <<>>
  /\ fp = [pools |-> {}, leftover |-> {}, low |-> {}, values |-> {}]
  /\ calc = Calculate(bets, fp)

Insert(row) ==
  /\ bets' = Append(bets, row)
  /\ \E f \in FloatOutcomes(bets') : fp' = f
  /\ calc' = Calculate(bets', fp')

(* PlaceBetCore, with ValidateBuy's amount and outcome checks.             *)
Buy(u, o, a) ==
  /\ Len(bets) < MaxBets
  /\ a >= 1
  /\ Insert(Row(u, o, a))

SharesOwned(u, o) ==
  IF u \notin DOMAIN calc.net THEN 0
  ELSE IF o = "YES" THEN calc.net[u].yes ELSE calc.net[u].no

(* ProcessSellRequest, from the position to the inserted row.              *)
Sell(u, o, credits) ==
  LET owned == SharesOwned(u, o)
      value == calc.value["open"][u]
  IN  /\ Len(bets) < MaxBets
      /\ owned # 0
      /\ SaleAccepted(value, owned, credits)
      /\ Insert(Row(u, o, -SharesToSell(value, owned, credits)))

Next ==
  \E u \in Users, o \in Outcomes :
    \/ \E a \in BuyAmounts : Buy(u, o, a)
    \/ \E c \in SaleCredits : Sell(u, o, c)

Spec == Init /\ [][Next]_vars

-----------------------------------------------------------------------------
(* The log holds only rows of the shape the handlers insert, and the       *)
(* calculators answer for every bettor in every status.                    *)
TypeOK ==
  /\ bets \in Seq([user : Users, outcome : Outcomes, amount : Int \ {0}])
  /\ fp.low \subseteq DOMAIN bets
  /\ fp.pools \subseteq Outcomes /\ fp.leftover \subseteq Outcomes
  /\ DOMAIN calc.net = Bettors(bets)
  /\ \A s \in Statuses : calc.value[s] \in [Bettors(bets) -> Int]

(* AssertPoolConservation of testinvariants, invariants.go:                *)
(* "sum(finalPayouts) == sum of all bet amounts (market volume)", for      *)
(* every log that buys and sales lead to.                                  *)
PoolConserved == SumOf(calc.final, DOMAIN bets) = Volume(bets)

(* What adjustForPositiveExcess finds nobody to take from: after the base  *)
(* reduction it takes the remainder from rows that are still positive, at  *)
(* most one share from each.                                               *)
Untaken ==
  LET excess == CalculateExcess(bets, calc.scaled)
      n      == Len(bets)
      payers == {i \in 1..n : calc.scaled[i] > excess \div n}
  IN  IF excess > 0 /\ excess % n > Cardinality(payers)
      THEN (excess % n) - Cardinality(payers) ELSE 0

(* After both corrections the payouts of all rows add up to the market     *)
(* volume and what was not taken, for every log of buys and sales and      *)
(* whichever way the float rounding falls.                                 *)
PayoutsAddUp == SumOf(calc.final, DOMAIN bets) = Volume(bets) + Untaken

(* Bumping rows to one share (EnsureMinimumPayouts) moves shares only      *)
(* within a side, and leaves a row without a share only when no other row  *)
(* of its side could give one up and stay positive.                        *)
MinimumUnlessNoDonor ==
  /\ \A o \in Outcomes :
       SumOf(calc.final, Rows(bets, o)) = SumOf(calc.adjusted, Rows(bets, o))
  /\ \A i \in DOMAIN bets : calc.final[i] <= 0 =>
       \A j \in Rows(bets, bets[i].outcome) \ {i} :
         calc.final[j] <= 1 - calc.final[i]

(* In a market resolved to YES or NO the values of the positions add up to *)
(* the pool if anybody holds a winning share, and to nothing otherwise.    *)
ResolvedValuesMatchPool ==
  \A o \in Outcomes :
    SumOf(calc.value[o], Bettors(bets)) =
      IF \E u \in Bettors(bets) : SharesOwned(u, o) > 0
      THEN Volume(bets) ELSE 0

(* The payments of calculateAndAllocateProportionalPayouts: "Pay out each  *)
(* user their resolved valuation" (resolvemarketcore.go), which            *)
(* adjust_valuation.go "ensures" to "match total market volume".  Only     *)
(* positive values are paid.                                               *)
PaymentsMatchPool ==
  \A o \in Outcomes :
    LET winners == {u \in Bettors(bets) : SharesOwned(u, o) > 0}
        paid    == {u \in winners : calc.value[o][u] > 0}
    IN  winners # {} => SumOf(calc.value[o], paid) = Volume(bets)

PriceDefined == CurrentProbability(bets).den > 0

PriceInRange ==
  LET p == CurrentProbability(bets)
  IN  p.den > 0 /\ 0 <= p.num /\ p.num <= p.den

(* While the market is open and its price is a probability, the values of  *)
(* the positions add up to exactly the pool if any position has a value.   *)
OpenValuesMatchPool ==
  LET value == calc.value["open"]
  IN  PriceInRange => \/ \A u \in Bettors(bets) : value[u] = 0
                      \/ SumOf(value, Bettors(bets)) = Volume(bets)

(* The YES probability moves with the money, as long as it is one: a YES   *)
(* buy or a NO sale never lowers it, a NO buy or a YES sale never raises   *)
(* it.                                                                     *)
ProbabilityMovesWithMoney ==
  [][ LET p == CurrentProbability(bets)
          q == CurrentProbability(bets')
          new == bets'[Len(bets')]
          up  == (new.outcome = "YES") <=> (new.amount > 0)
      IN  PriceInRange => IF up THEN q.num * p.den >= p.num * q.den
                                ELSE q.num * p.den <= p.num * q.den ]_bets

(* A sale takes out at most as many shares as the seller's position is     *)
(* worth in credits.                                                       *)
SaleCoveredByValue ==
  [][ LET new == bets'[Len(bets')]
      IN  new.amount < 0 => -new.amount <= calc.value["open"][new.user] ]_bets
=============================================================================
