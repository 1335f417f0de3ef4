------------------------------- MODULE Ledger -------------------------------
(***************************************************************************)
(* What the exchange promises its users, without requests, rows or         *)
(* calculators: accounts, one pot of stakes per market, and payments owed. *)
(* Every operation is one step.  Module ExchangeLedger shows that the      *)
(* handlers, one request at a time, implement it.                          *)
(***************************************************************************)
EXTENDS Sums

CONSTANTS Users, Markets, Stakes, MaxDebt, CreateMarketCost,
          InitialBetFee, BuySharesFee, InitialBalance, OpenAtStart

VARIABLES
  balance,   \* the accounts
  status,    \* "none", "open", or the resolution
  pot,       \* the stakes held by an open market
  entered,   \* who has taken part in which market
  owed       \* payments decided by a resolution and not made yet

ledger == <<balance, status, pot, entered, owed>>

Total(payments) == SumOf([p \in payments |-> p.amount], payments)

Init ==
  /\ balance = [u \in Users |-> InitialBalance]
  /\ status = [m \in Markets |-> IF m \in OpenAtStart THEN "open" ELSE "none"]
  /\ pot = [m \in Markets |-> 0]
  /\ entered = {}
  /\ owed = {}

(* Spending never takes an account below the debt limit.                   *)
Spend(u, cost) ==
  /\ balance[u] - cost >= -MaxDebt
  /\ balance' = [balance EXCEPT ![u] = @ - cost]

(* A stake costs its amount and the fees; the first one in a market also   *)
(* the participation fee.                                                  *)
Place(u, m, stake) ==
  /\ status[m] = "open"
  /\ stake >= 1
  /\ Spend(u, stake + BuySharesFee
                + (IF <<u, m>> \in entered THEN 0 ELSE InitialBetFee))
  /\ pot' = [pot EXCEPT ![m] = @ + stake]
  /\ entered' = entered \cup {<<u, m>>}
  /\ UNCHANGED <<status, owed>>

(* Selling takes shares out of the pot for at least their number and at    *)
(* most the pot in credits.                                                *)
Cash(u, m, shares, value) ==
  /\ status[m] = "open"
  /\ <<u, m>> \in entered
  /\ 1 <= shares /\ shares <= value /\ value <= pot[m]
  /\ balance' = [balance EXCEPT ![u] = @ + value]
  /\ pot' = [pot EXCEPT ![m] = @ - shares]
  /\ UNCHANGED <<status, entered, owed>>

(* A market opens with an empty pot.  The request may also declare it      *)
(* resolved from the start: then nobody can ever stake on it.              *)
OpenMarket(u, m, s) ==
  /\ status[m] = "none"
  /\ Spend(u, CreateMarketCost)
  /\ status' = [status EXCEPT ![m] = s]
  /\ UNCHANGED <<pot, entered, owed>>

(* A resolution happens once, empties the pot, and owes all of it: to the  *)
(* winners, or as refunds; a YES or NO nobody wins owes nothing.           *)
Settle(m, outcome) ==
  /\ status[m] = "open"
  /\ owed = {}
  /\ status' = [status EXCEPT ![m] = outcome]
  /\ pot' = [pot EXCEPT ![m] = 0]
  /\ \/ Total(owed') = pot[m]
     \/ outcome # "N/A" /\ owed' = {}
  /\ outcome # "N/A" => \A p \in owed' : p.amount > 0
  /\ \A p \in owed' : <<p.user, m>> \in entered
  /\ UNCHANGED <<balance, entered>>

Pay(p) ==
  /\ p \in owed
  /\ balance' = [balance EXCEPT ![p.user] = @ + p.amount]
  /\ owed' = owed \ {p}
  /\ UNCHANGED <<status, pot, entered>>

Next ==
  \/ \E u \in Users, m \in Markets :
       \/ \E stake \in Stakes : Place(u, m, stake)
       \/ \E shares \in 1..pot[m], value \in 1..pot[m] :
            Cash(u, m, shares, value)
       \/ \E s \in {"open", "YES", "NO", "N/A"} : OpenMarket(u, m, s)
  \/ \E m \in Markets, outcome \in {"YES", "NO", "N/A"} : Settle(m, outcome)
  \/ \E p \in owed : Pay(p)

Spec == Init /\ [][Next]_ledger
=============================================================================
