---------------------------- MODULE PositionMath ----------------------------
(***************************************************************************)
(* handlers/math/positions: the positions of all users in one market and   *)
(* their value in credits, from the bet log and the market's status.       *)
(***************************************************************************)
EXTENDS MarketMath

Statuses == {"open", "YES", "NO", "N/A"}   \* open: is_resolved = false

-----------------------------------------------------------------------------
(* valuation.go: a user's float value, rounded.                            *)

FinalShares(position, status) ==
  CASE status = "YES" -> position.yes
    [] status = "NO"  -> position.no
    [] OTHER          -> 0

ValueFraction(position, p) ==
  IF position.yes > 0
  THEN [num |-> position.yes * p.num, den |-> p.den]
  ELSE [num |-> position.no * (p.den - p.num), den |-> p.den]

RoundedValue(position, p, status, low) ==
  LET q == ValueFraction(position, p)
  IN  IF status # "open" THEN FinalShares(position, status)
      ELSE RoundedQuotient(q.num, q.den, low)

CalculateRoundedUserValuations(positions, p, status, low) ==
  [u \in DOMAIN positions |-> RoundedValue(positions[u], p, status, u \in low)]

(* The users whose value is an exact half, of an inexact price.            *)
HalfValues(log, net) ==
  LET p == CurrentProbability(log)
  IN  IF HeldExactly(p) THEN {}
      ELSE Halves([u \in DOMAIN net |-> ValueFraction(net[u], p)])

-----------------------------------------------------------------------------
(* adjust_valuation.go and earliest_users.go *)

EarliestBet(log, u) == Min({i \in DOMAIN log : log[i].user = u})

(* The holders that adjustValuations serves before u.  Rows have distinct  *)
(* times, so the comparison by username is never reached.                  *)
Before(log, values, holders, u) ==
  {h \in holders :
     \/ values[h] > values[u]
     \/ values[h] = values[u] /\ EarliestBet(log, h) < EarliestBet(log, u)}

(* Mutant: only whole rounds are dealt out.                                *)
AdjustByWholeRounds(log, values) ==
  LET holders == {u \in DOMAIN values : values[u] > 0}
      delta   == Volume(log) - SumOf(values, holders)
      sign    == IF delta < 0 THEN -1 ELSE 1
      turns   == Absolute(delta) \div Cardinality(holders)
  IN  [u \in DOMAIN values |->
         IF u \in holders THEN values[u] + sign * turns ELSE values[u]]

(* The difference to the market volume is dealt out one credit at a time,  *)
(* round-robin over the holders in that order; the others, who have no     *)
(* positive value, come out with zero.                                     *)
AdjustUserValuationsToMarketVolume(log, values) ==
  LET holders == {u \in DOMAIN values : values[u] > 0}
      delta   == Volume(log) - SumOf(values, holders)
      sign    == IF delta < 0 THEN -1 ELSE 1
      count   == Cardinality(holders)
      turns(u) == (Absolute(delta) \div count)
                    + (IF Cardinality(Before(log, values, holders, u))
                            < Absolute(delta) % count THEN 1 ELSE 0)
  IN  [u \in DOMAIN values |->
         IF u \in holders THEN values[u] + sign * turns(u)
         ELSE IF holders = {} THEN values[u] ELSE 0]

-----------------------------------------------------------------------------
(* positionsmath.go, CalculateMarketPositions_WPAM_DBPM *)

FinalPayouts(log, rounding) ==
  EnsureMinimumPayouts(log,
    AdjustPayouts(log, CalculateScaledPayouts(log, rounding)))

NetPositions(log, rounding) ==
  NetAggregateMarketPositions(
    AggregateUserPayouts(log, FinalPayouts(log, rounding)))

Valuations(log, positions, status, low) ==
  AdjustUserValuationsToMarketVolume(log,
    CalculateRoundedUserValuations(positions, CurrentProbability(log), status,
                                   low))

(* The net positions with the values they come to in this status.          *)
Valued(net, values) ==
  [u \in DOMAIN net |->
     [yes |-> net[u].yes, no |-> net[u].no, value |-> values[u]]]

ValuedPositions(log, net, status, low) ==
  Valued(net, Valuations(log, net, status, low))

CalculateMarketPositions(log, rounding, status) ==
  ValuedPositions(log, NetPositions(log, rounding), status, rounding.values)
=============================================================================
