--------------------------- MODULE ExchangeLedger ---------------------------
(***************************************************************************)
(* The refinement mapping from Exchange to Ledger.  A buy, a sale and a    *)
(* market creation take effect with their last database call, a resolution *)
(* when its payments are computed, a payment when its row is saved.        *)
(***************************************************************************)
EXTENDS ExchangeSafety

(* Balance writes whose request has not inserted its row yet.              *)
Unfinished(w) ==
  CASE At(w, "buyInsert")    -> req[w].due
    [] At(w, "createInsert") -> CreateMarketCost
    [] At(w, "sellInsert")   -> -req[w].due
    [] OTHER                 -> 0

LedgerBalance ==
  [u \in Users |->
     LET trading == {w \in Workers : req[w].user = u}
     IN  users[u].balance
           + SumOf([w \in trading |-> Unfinished(w)], trading)]

LedgerStatus ==
  [m \in Markets |-> IF Settling(m) THEN "open" ELSE markets[m].status]

LedgerPot == [m \in Markets |-> Pot(m)]

LedgerEntered ==
  UNION {{<<bets[m][i].user, m>> : i \in DOMAIN bets[m]} : m \in Markets}

L == INSTANCE Ledger WITH
       balance <- LedgerBalance, status <- LedgerStatus, pot <- LedgerPot,
       entered <- LedgerEntered, owed <- Owed, Stakes <- Amounts

(* One request at a time, the handlers implement the ledger: every         *)
(* behaviour of theirs is a sequence of the ledger's steps.                *)
ImplementsLedger == L!Spec
=============================================================================
