---------------------------- MODULE SystemMetrics ----------------------------
(***************************************************************************)
(* ComputeSystemMetrics (math/financials/systemmetrics.go): the statistics *)
(* page adds up what was lent to users and what became of it, from the     *)
(* tables alone, and calls the books balanced if nothing is left over.     *)
(***************************************************************************)
EXTENDS ExchangeSafety

UsedDebt(u) == IF users[u].balance < 0 THEN -users[u].balance ELSE 0

UserDebtCapacity == Cardinality(Users) * MaxDebt

UnusedDebt == SumOf([u \in Users |-> MaxDebt - UsedDebt(u)], Users)

Created == {m \in Markets : markets[m].status # "none"}

MarketCreationFees == Cardinality(Created) * CreateMarketCost

Active == {m \in Created : markets[m].status = "open"}

ActiveBetVolume == SumOf([m \in Active |-> Volume(m)], Active)

Buys(m) == {i \in DOMAIN bets[m] : bets[m][i].amount > 0}

(* Mutant: every buy is counted as a first one.                            *)
ParticipationFeesOfAllBuys ==
  SumOf([m \in Markets |-> Cardinality(Buys(m))], Markets) * InitialBetFee

(* The first buy of a user on a market.                                    *)
Buyers(m) == {bets[m][i].user : i \in Buys(m)}

ParticipationFees ==
  SumOf([m \in Markets |-> Cardinality(Buyers(m))], Markets) * InitialBetFee

Surplus ==
  UserDebtCapacity
    - (UnusedDebt + ActiveBetVolume + MarketCreationFees + ParticipationFees)

-----------------------------------------------------------------------------
(* What users own beyond what they were given, the stakes that nobody has  *)
(* won, and the markets of the initial state, which nobody paid for.       *)
Savings(u) == IF users[u].balance > 0 THEN users[u].balance ELSE 0

Owned ==
  SumOf([u \in Users |-> Savings(u)], Users)
    - Cardinality(Users) * InitialBalance

Unwon(m) ==
  LET status == markets[m].status
      position == Positions(Untimed(bets[m]), status)
  IN  IF status \in {"YES", "NO"} /\ \A u \in Users : position[u].value <= 0
      THEN Volume(m) ELSE 0

Explained ==
  Owned + SumOf([m \in Created |-> Unwon(m)], Created)
    - Cardinality(OpenAtStart) * CreateMarketCost

Sold == \E m \in Markets : \E i \in DOMAIN bets[m] : bets[m][i].amount < 0

(* systemmetrics.go: a surplus is "unused capacity", a negative one        *)
(* "indicates accounting error".  One request at a time, and with the      *)
(* shipped fees, the surplus between requests is what users own and what   *)
(* nobody has won: every fee is charged as the metrics count it.  Only     *)
(* sales, which may pay more credits than shares leave the market, make it *)
(* smaller.                                                                *)
SurplusExplained ==
  (\A w \in Workers : At(w, "idle")) =>
    /\ Surplus <= Explained
    /\ ~Sold => Surplus = Explained
=============================================================================
