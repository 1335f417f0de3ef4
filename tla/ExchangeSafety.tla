--------------------------- MODULE ExchangeSafety ---------------------------
(***************************************************************************)
(* What the handlers of module Exchange guarantee however their requests   *)
(* interleave, and what they guarantee only one request at a time.         *)
(***************************************************************************)
EXTENDS Exchange, Sums

Labels ==
  {"idle", "buyStatus", "buyFees", "buyValidate", "buyDebit", "buyInsert",
   "sellStatus", "sellMarket", "sellBets", "sellValidate", "sellRead",
   "sellCredit", "sellInsert", "createDebit", "createInsert", "resolveSave",
   "payMarket", "payBets", "refundBets", "payRead", "paySave", "editSave",
   "imageWrite", "imageSave", "imageDelete"}

Request ==
  [pc : Labels, id : Nat, user : Users, market : Markets,
   choice : Outcomes \cup Resolutions, amount : Int, row : UserRow,
   mrow : MarketRow, due : Int, shares : Int, at : Nat,
   owed : SUBSET Payment, paying : Payment]

(* Every variable has its type: the tables hold rows of their columns'     *)
(* types and every request holds values its handler can have read.         *)
TypeOK ==
  /\ users \in [Users -> UserRow]
  /\ markets \in [Markets -> MarketRow]
  /\ bets \in [Markets -> Seq(StampedRow)]
  /\ \A m \in Markets : Len(bets[m]) <= MaxBets
  /\ files \in SUBSET Nat
  /\ closedAt \in [Markets -> Nat \cup {NotYet}]
  /\ req \in [Workers -> Request]
  /\ clock \in Nat /\ served \in Nat
  /\ paid \in SUBSET Nat
  /\ clawback \in [Users -> Nat]
  /\ named \in SUBSET Nat

-----------------------------------------------------------------------------
(* Whatever the interleaving and whatever fails.                           *)

(* checkUserBalance and the same check in CreateMarketHandler hold the     *)
(* debt limit: although the row checked may be stale when it is saved, no  *)
(* balance is ever further below -MaxDebt than what N/A refunds of sales   *)
(* took back from that user.                                               *)
DebtFloor == \A u \in Users : users[u].balance >= -MaxDebt - clawback[u]

(* A bet row is there only if its request saved its balance write first,   *)
(* and no two rows, in whichever markets, stand for the same write.        *)
PaymentsMatchBets ==
  /\ \A m \in Markets : \A i \in DOMAIN bets[m] : bets[m][i].at \in paid
  /\ \A m, n \in Markets : \A i \in DOMAIN bets[m], j \in DOMAIN bets[n] :
       bets[m][i].at = bets[n][j].at => m = n /\ i = j

Trading ==
  {"buyDebit", "buyInsert", "sellCredit", "sellInsert"}

(* CheckMarketStatus is the only check of the resolution time, and it is   *)
(* enough: a request that arrives after that time never gets as far as     *)
(* touching a balance or inserting a row.                                  *)
NoLateBets ==
  \A w \in Workers :
    LET m == req[w].market
    IN  req[w].pc \in Trading /\ closedAt[m] # NotYet
          => req[w].id <= closedAt[m]

(* The order of UploadMarketImageHandler, new file, market row, old file,  *)
(* with uploads and resolutions in any number and failing anywhere, never  *)
(* leaves the row of an open market naming an uploaded file that is gone.  *)
(* (A resolution may save the image of a row it read before an upload.)    *)
(* The exception is a file that a creation body named: the market created  *)
(* with it may be given another image, and then the handler deletes it.    *)
ImageExists ==
  \A m \in Markets :
    markets[m].status = "open" => markets[m].image \in files \cup named

-----------------------------------------------------------------------------
(* One request at a time: the accounts of the whole exchange.              *)

VolumeOf(log) == SumOf([i \in DOMAIN log |-> log[i].amount], DOMAIN log)
Volume(m) == VolumeOf(bets[m])
Total(payments) == SumOf([p \in payments |-> p.amount], payments)
Owed == UNION {req[w].owed : w \in Workers}

(* Markets saved as resolved whose payments are not computed yet.          *)
Settling(m) ==
  \E w \in Workers : /\ req[w].pc \in {"payMarket", "payBets", "refundBets"}
                     /\ req[w].market = m

Pot(m) == IF markets[m].status = "open" \/ Settling(m) THEN Volume(m) ELSE 0

(* What a request has added to (or taken from) balances before its row is  *)
(* in the log.                                                             *)
InTransit(w) ==
  CASE At(w, "buyInsert")  -> req[w].amount
    [] At(w, "sellInsert") -> -req[w].shares
    [] OTHER               -> 0

Money ==
  SumOf([u \in Users |-> users[u].balance], Users)
    + SumOf([m \in Markets |-> Pot(m)], Markets)
    + Total(Owed)
    + SumOf([w \in Workers |-> InTransit(w)], Workers)

(* A sale has its credits or is about to, or an N/A resolution has yet to  *)
(* take them back.                                                         *)
SaleUnderWay ==
  \E w \in Workers :
    \/ At(w, "sellCredit") \/ At(w, "sellInsert")
    \/ \E p \in req[w].owed : p.amount < 0

(* Handled one at a time, requests create credits only through a sale: by  *)
(* a position worth more than its shares, by failing between the credit    *)
(* and the row, or by failing before an N/A resolution has taken a sale    *)
(* back.  Every other step and every other failure keeps the total of      *)
(* balances, open pools and payments due, or lowers it.                    *)
MoneyOnlyFromSales == [][Money' > Money => SaleUnderWay]_vars

(* What the handlers rely on and leave to the calculator: while a market   *)
(* is open nobody's position is worth more than the pool, only those who   *)
(* have a row hold shares, and a resolution pays the pool or nothing, to   *)
(* those who have a row.                                                   *)
Bettors(log) == {log[i].user : i \in DOMAIN log}

DealsOut(log) ==
  LET position == Positions(Untimed(log), "open")
  IN  /\ \A u \in Users :
           /\ position[u].value <= VolumeOf(log)
           /\ position[u].yes # 0 \/ position[u].no # 0 => u \in Bettors(log)
      /\ \A s \in Outcomes :
           /\ \A p \in Winnings(log, s) : p.user \in Bettors(log)
           /\ \/ Winnings(log, s) = {}
              \/ Total(Winnings(log, s)) = VolumeOf(log)

PoolKept == \A m \in Markets : DealsOut(bets[m])

(* When that is to be expected: of logs of requests handled one at a time, *)
(* in which nobody sells more shares than the position before the sale     *)
(* has, or shares that are worth less than themselves.                     *)
SoldFrom(log, row) ==
  LET position == Positions(Untimed(log), "open")[row.user]
  IN  /\ -row.amount <= SharesOwned(position, row.outcome)
      /\ -row.amount <= position.value

Traded(log) ==
  \A i \in DOMAIN log :
    log[i].amount < 0 => SoldFrom(SubSeq(log, 1, i - 1), log[i])

TradesKeepPools(logs) == \A log \in logs : Traded(log) => DealsOut(log)

(* Once a resolution is saved, everybody it owes is paid, and nobody is    *)
(* paid for ever.                                                          *)
WinnersPaid ==
  (Owed # {} \/ \E m \in Markets : Settling(m))
    ~> (Owed = {} /\ \A m \in Markets : ~Settling(m))

-----------------------------------------------------------------------------
(* Claims of the repository that concurrent requests break.                *)

(* resolvemarket.go: "Check if the market is already resolved": a saved    *)
(* resolution stands.                                                      *)
ResolutionFinal ==
  [][\A m \in Markets : markets[m].status \in {"YES", "NO", "N/A"}
        => markets'[m].status = markets[m].status]_markets
=============================================================================
