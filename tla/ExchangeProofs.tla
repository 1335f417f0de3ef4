--------------------------- MODULE ExchangeProofs ---------------------------
(***************************************************************************)
(* The theorems about Exchange, for any number of users, markets and       *)
(* concurrent requests, any fees, and any failures.  First those about the *)
(* rows one at a time: type correctness, the debt limit, the closing time. *)
(* Then those that relate two tables: every bet row has its balance write, *)
(* and every image that a market names has its file; both need to know     *)
(* what the requests in progress have done already.                        *)
(***************************************************************************)
EXTENDS ExchangeSafety, MathProofs, SequenceTheorems

-----------------------------------------------------------------------------
(* The inductive invariant: what a request holds in its local variables    *)
(* between two database calls.                                             *)

BuyStages  == {"buyStatus", "buyFees", "buyValidate", "buyDebit", "buyInsert"}
SellStages == {"sellStatus", "sellMarket", "sellBets", "sellValidate",
               "sellRead", "sellCredit", "sellInsert"}

(* A trade keeps the outcome and amount that its handler let through.      *)
TradeSound(w) ==
  LET r == req[w]
  IN  /\ r.pc \in BuyStages \cup SellStages
           => r.choice \in Outcomes /\ r.amount \in Amounts
      /\ r.pc \in {"buyDebit", "buyInsert"} => r.amount >= 1

(* A priced sale has whole shares to sell and a whole credit to pay.       *)
PriceSound(w) ==
  LET r == req[w]
  IN  r.pc \in {"sellValidate", "sellRead", "sellCredit", "sellInsert"}
        => r.shares \in 1..MaxShares /\ r.due \in Nat

(* The user row read earlier, stale or not, respects the debt limit, and   *)
(* so does what a purchase will leave of it.                               *)
RowSound(w) ==
  LET r == req[w]
  IN  /\ r.pc \in {"buyStatus", "buyFees", "buyValidate", "buyDebit",
                   "sellCredit", "createDebit", "editSave"}
           => r.row.balance >= -MaxDebt - clawback[r.user]
      /\ r.pc = "paySave"
           => r.row.balance >= -MaxDebt - clawback[r.paying.user]
      /\ r.pc \in {"buyValidate", "buyDebit"} => Affordable(r.row, r.due)
      /\ r.pc = "createDebit" => Affordable(r.row, CreateMarketCost)

(* A trade that has passed CheckMarketStatus arrived before the market     *)
(* closed.                                                                 *)
TimeSound(w) ==
  LET r == req[w]
  IN  /\ r.id <= served
      /\ r.pc \in (BuyStages \cup SellStages) \ {"buyStatus", "sellStatus"}
           /\ closedAt[r.market] # NotYet
           => r.id <= closedAt[r.market]

(* Every market row a request reads or writes back is one that exists, so  *)
(* the calculator is only ever asked about a market's status.              *)
MarketSound(w) ==
  LET r == req[w]
  IN  /\ r.pc \in {"sellMarket", "payMarket"}
           => markets[r.market].status # "none"
      /\ r.pc \in {"sellBets", "payBets", "resolveSave", "createDebit",
                   "createInsert", "imageWrite", "imageSave"}
           => r.mrow.status # "none"

LocalSound(w) ==
  /\ TradeSound(w) /\ PriceSound(w) /\ RowSound(w)
  /\ TimeSound(w) /\ MarketSound(w)

IInv ==
  /\ TypeOK
  /\ DebtFloor
  /\ \A w \in Workers : LocalSound(w)

-----------------------------------------------------------------------------
(* Lemmas: one request moves, the others stand still.                      *)

LEMMA SomeTyped == SomeUser \in Users /\ SomeMarket \in Markets
  BY ExchangeAssumption DEF SomeUser, SomeMarket

LEMMA IdleTyped == Idle \in Request
<1>1. NoMarket \in MarketRow
  BY SomeTyped DEF NoMarket, MarketRow, Statuses
<1>2. NoPayment \in Payment
  BY SomeTyped DEF NoPayment, Payment
<1> QED
  BY <1>1, <1>2, SomeTyped
  DEF Idle, Request, Labels, Outcomes, UserRow

(* Request w becomes r, the others stay.                                   *)
LEMMA NowTyped ==
  ASSUME TypeOK, NEW w \in Workers, NEW r \in Request, Now(w, r)
  PROVE  /\ req' \in [Workers -> Request]
         /\ req'[w] = r
         /\ \A x \in Workers \ {w} : req'[x] = req[x]
  BY DEF TypeOK, Now

LEMMA LabelTyped ==
  ASSUME NEW r \in Request, NEW label \in Labels
  PROVE  [r EXCEPT !.pc = label] \in Request
  BY DEF Request

(* What the environment of a request may do to it: requests arrive, refunds *)
(* of sales accumulate, a market closes at the present count, and no       *)
(* market disappears.                                                      *)
EnvGrows ==
  /\ served <= served'
  /\ \A u \in Users : clawback[u] <= clawback'[u]
  /\ \A m \in Markets :
       /\ closedAt'[m] # closedAt[m] => closedAt'[m] = served
       /\ markets[m].status # "none" => markets'[m].status # "none"

LEMMA OthersSound ==
  ASSUME IInv, TypeOK', EnvGrows, NEW x \in Workers, req'[x] = req[x]
  PROVE  LocalSound(x)'
<1> DEFINE r == req[x]
<1>1. /\ r \in Request /\ r.id \in Nat /\ r.user \in Users
      /\ r.market \in Markets /\ r.paying.user \in Users
      /\ r.row.balance \in Int /\ r.due \in Int
  BY DEF IInv, TypeOK, Request, Payment, UserRow
<1>2. LocalSound(x)
  BY DEF IInv
<1>3. TradeSound(x)' /\ PriceSound(x)'
  BY <1>2 DEF LocalSound, TradeSound, PriceSound
<1>4. RowSound(x)'
  <2>1. /\ clawback[r.user] <= clawback'[r.user]
        /\ clawback[r.paying.user] <= clawback'[r.paying.user]
        /\ clawback[r.user] \in Nat /\ clawback'[r.user] \in Nat
        /\ clawback[r.paying.user] \in Nat
        /\ clawback'[r.paying.user] \in Nat
    BY <1>1 DEF EnvGrows, IInv, TypeOK
  <2> QED
    BY <1>1, <1>2, <2>1, ExchangeAssumption
    DEF LocalSound, RowSound, Affordable
<1>5. TimeSound(x)'
  <2>1. /\ served \in Nat /\ served' \in Nat /\ served <= served'
        /\ closedAt'[r.market] # closedAt[r.market]
             => closedAt'[r.market] = served
        /\ closedAt[r.market] \in Nat \cup {NotYet}
    BY <1>1 DEF EnvGrows, IInv, TypeOK
  <2> QED
    BY <1>1, <1>2, <2>1 DEF LocalSound, TimeSound
<1>6. MarketSound(x)'
  BY <1>1, <1>2 DEF LocalSound, MarketSound, EnvGrows
<1> QED  BY <1>3, <1>4, <1>5, <1>6 DEF LocalSound

LEMMA IdleSound ==
  ASSUME TypeOK', NEW w \in Workers, req'[w] = Idle
  PROVE  LocalSound(w)'
  BY DEF TypeOK, Idle, LocalSound, TradeSound, PriceSound, RowSound, TimeSound,
         MarketSound, BuyStages, SellStages

(* A step of request w keeps the invariant if it keeps the types, the      *)
(* balances and w's own part.                                              *)
LEMMA StepSound ==
  ASSUME IInv, TypeOK', DebtFloor', EnvGrows, NEW w \in Workers,
         LocalSound(w)', \A x \in Workers \ {w} : req'[x] = req[x]
  PROVE  IInv'
<1>1. ASSUME NEW x \in Workers  PROVE LocalSound(x)'
  <2>1. CASE x = w  BY <2>1
  <2>2. CASE x # w  BY <2>2, OthersSound
  <2> QED  BY <2>1, <2>2
<1> QED  BY <1>1 DEF IInv

-----------------------------------------------------------------------------
(* Lemmas: what the database calls do to the tables.                       *)

LEMMA SaveTyped ==
  ASSUME TypeOK, NEW u \in Users, NEW row \in UserRow, NEW b \in Int,
         SaveBalance(u, row, b)
  PROVE  /\ users' \in [Users -> UserRow]
         /\ users'[u].balance = b
         /\ \A x \in Users \ {u} : users'[x] = users[x]
  BY DEF TypeOK, SaveBalance, UserRow

(* A balance at or above the floor saved for one user keeps everybody's.   *)
LEMMA SaveKeepsFloor ==
  ASSUME TypeOK, TypeOK', DebtFloor, NEW u \in Users, NEW row \in UserRow,
         NEW b \in Int, SaveBalance(u, row, b),
         b >= -MaxDebt - clawback'[u],
         \A x \in Users : clawback[x] <= clawback'[x]
  PROVE  DebtFloor'
<1>1. ASSUME NEW x \in Users
      PROVE  users'[x].balance >= -MaxDebt - clawback'[x]
  <2>1. /\ users[x].balance >= -MaxDebt - clawback[x]
        /\ clawback[x] <= clawback'[x]
        /\ clawback[x] \in Nat /\ clawback'[x] \in Nat
        /\ users[x].balance \in Int
    BY DEF DebtFloor, TypeOK, UserRow
  <2>2. CASE x = u  BY <2>2, SaveTyped
  <2>3. CASE x # u
    <3>1. users'[x] = users[x]
      BY <2>3, SaveTyped
    <3> QED  BY <2>1, <3>1, ExchangeAssumption
  <2> QED  BY <2>2, <2>3
<1> QED  BY <1>1 DEF DebtFloor

LEMMA InsertTyped ==
  ASSUME NEW log \in Seq(StampedRow), NEW row \in StampedRow
  PROVE  /\ InsertByTime(log, row) \in Seq(StampedRow)
         /\ Len(InsertByTime(log, row)) = Len(log) + 1
<1> DEFINE n == Len(log) + 1
           new == InsertByTime(log, row)
<1>1. Len(log) \in Nat /\ n \in Nat
  BY LenProperties
<1>2. \A i \in 1..n : new[i] \in StampedRow
  <2> SUFFICES ASSUME NEW i \in 1..n  PROVE new[i] \in StampedRow
    OBVIOUS
  <2>1. i <= Len(log) => log[i] \in StampedRow
    BY <1>1, ElementOfSeq
  <2>2. i # 1 => log[i - 1] \in StampedRow
    BY <1>1, ElementOfSeq
  <2> QED  BY <1>1, <2>1, <2>2 DEF InsertByTime
<1>3. new \in [1..n -> StampedRow]
  BY <1>1, <1>2 DEF InsertByTime
<1> QED  BY <1>1, <1>3

LEMMA CreateTyped ==
  ASSUME TypeOK, NEW w \in Workers, NEW amount \in BetAmounts,
         req[w].choice \in Outcomes, CreateBet(w, amount)
  PROVE  /\ bets' \in [Markets -> Seq(StampedRow)]
         /\ \A m \in Markets : Len(bets'[m]) <= MaxBets
<1> DEFINE m   == req[w].market
           row == [user |-> req[w].user, outcome |-> req[w].choice,
                   amount |-> amount, at |-> req[w].at]
<1>1. m \in Markets /\ row \in StampedRow
  BY DEF TypeOK, Request, StampedRow
<1>2. /\ bets[m] \in Seq(StampedRow) /\ Len(bets[m]) < MaxBets
      /\ bets' = [bets EXCEPT ![m] = InsertByTime(bets[m], row)]
  BY <1>1 DEF TypeOK, CreateBet
<1> HIDE DEF row, m
<1>3. /\ InsertByTime(bets[m], row) \in Seq(StampedRow)
      /\ Len(InsertByTime(bets[m], row)) = Len(bets[m]) + 1
  BY <1>1, <1>2, InsertTyped
<1>4. Len(bets[m]) + 1 <= MaxBets
  BY <1>2, LenProperties, ExchangeAssumption
<1> QED  BY <1>1, <1>2, <1>3, <1>4 DEF TypeOK

(* What a request gets when it reads a log and asks the calculator.        *)
LEMMA PositionTyped ==
  ASSUME TypeOK, NEW m \in Markets, NEW log \in GetBetsForMarket(m),
         NEW s \in Statuses, NEW u \in Users
  PROVE  /\ log \in Seq(StampedRow)
         /\ Positions(Untimed(log), s)[u] \in Position
<1>1. log \in Seq(StampedRow) /\ Len(log) <= MaxBets
  <2>1. log = bets[m] \/ log = <<>>
    BY DEF GetBetsForMarket
  <2>2. CASE log = bets[m]
    BY <2>2 DEF TypeOK
  <2>3. CASE log = <<>>
    <3>1. <<>> \in Seq(StampedRow) /\ Len(<<>>) = 0
      BY EmptySeq
    <3> QED  BY <2>3, <3>1, ExchangeAssumption
  <2> QED  BY <2>1, <2>2, <2>3
<1>2. Len(log) \in 0..MaxBets
  BY <1>1, LenProperties, ExchangeAssumption
<1>3. Untimed(log) \in [1..Len(log) -> BetRow]
  <2>1. \A i \in 1..Len(log) : log[i] \in StampedRow
    BY <1>1, ElementOfSeq
  <2> QED  BY <2>1 DEF Untimed, StampedRow, BetRow
<1>4. Untimed(log) \in BetLogs
  BY <1>2, <1>3 DEF BetLogs
<1> QED  BY <1>1, <1>4, PositionsAssumption

(* A step that only moves the request, leaving the tables alone.           *)
LEMMA QuietStep ==
  ASSUME IInv, NEW w \in Workers, NEW r \in Request, Now(w, r),
         UNCHANGED <<db, env, histories>>,
         req'[w] = r => LocalSound(w)'
  PROVE  IInv'
<1>1. /\ req' \in [Workers -> Request] /\ req'[w] = r
      /\ \A x \in Workers \ {w} : req'[x] = req[x]
  BY NowTyped DEF IInv
<1>2. TypeOK'
  BY <1>1 DEF IInv, TypeOK, db, env, histories
<1>3. DebtFloor'
  BY DEF IInv, DebtFloor, db, histories
<1>4. EnvGrows
  BY DEF IInv, TypeOK, EnvGrows, db, env, histories
<1> QED  BY <1>1, <1>2, <1>3, <1>4, StepSound

(* The request ends without touching the tables: it was refused, or        *)
(* failed.                                                                 *)
LEMMA RefusedSound ==
  ASSUME IInv, NEW w \in Workers, Finish(w), UNCHANGED <<db, env, histories>>
  PROVE  IInv'
<1>1. TypeOK'
  BY IdleTyped, NowTyped DEF IInv, TypeOK, Finish, db, env, histories
<1> QED  BY <1>1, IdleTyped, IdleSound, QuietStep DEF Finish

-----------------------------------------------------------------------------
(* Buying *)

LEMMA CheckStatusSound ==
  ASSUME IInv, NEW w \in Workers, NEW next \in {"buyFees", "sellMarket"},
         CheckMarketStatus(w, next),
         \/ At(w, "buyStatus") /\ next = "buyFees"
         \/ At(w, "sellStatus") /\ next = "sellMarket"
  PROVE  IInv'
<1>1. CASE ~Tradable(req[w].market)
  BY <1>1, RefusedSound DEF CheckMarketStatus
<1>2. CASE Tradable(req[w].market)
  <2> DEFINE r == [req[w] EXCEPT !.pc = next]
  <2>1. /\ r \in Request /\ Now(w, r) /\ UNCHANGED <<db, env, histories>>
    <3>1. next \in Labels /\ req[w] \in Request
      BY DEF IInv, TypeOK, Labels
    <3> QED  BY <1>2, <3>1, LabelTyped DEF CheckMarketStatus, Goto
  <2>2. ASSUME req'[w] = r  PROVE LocalSound(w)'
    <3>1. LocalSound(w) /\ req[w] \in Request
      BY DEF IInv, TypeOK
    <3>2. markets' = markets /\ closedAt' = closedAt /\ served' = served
          /\ clawback' = clawback
      BY <2>1 DEF db, env, histories
    <3> QED
      BY <1>2, <2>2, <3>1, <3>2
      DEF LocalSound, TradeSound, PriceSound, RowSound, TimeSound, MarketSound,
          Tradable, At, Request, BuyStages, SellStages
  <2> QED  BY <2>1, <2>2, QuietStep
<1> QED  BY <1>1, <1>2

LEMMA NewTyped ==
  ASSUME TypeOK, NEW label \in Labels, NEW u \in Users, NEW m \in Markets
  PROVE  /\ New(label, u, m) \in Request
         /\ New(label, u, m).pc = label
         /\ New(label, u, m).id = served + 1
         /\ New(label, u, m).user = u
         /\ New(label, u, m).market = m
<1>1. served + 1 \in Nat
  BY DEF TypeOK
<1> QED  BY <1>1, IdleTyped DEF New, Idle, Request

Arrived(w, r) ==
  /\ req'[w] = r
  /\ served' = served + 1
  /\ UNCHANGED <<db, closedAt, clock, paid, clawback>>

(* A request that arrives keeps the invariant if it starts out sound.      *)
LEMMA BeginSound ==
  ASSUME IInv, NEW w \in Workers, NEW handler, NEW r \in Request,
         Begin(w, handler, r), named' \in SUBSET Nat,
         Arrived(w, r) => LocalSound(w)'
  PROVE  IInv'
<1>1. /\ req' \in [Workers -> Request] /\ req'[w] = r
      /\ \A x \in Workers \ {w} : req'[x] = req[x]
  BY NowTyped DEF IInv, Begin
<1>2. served \in Nat /\ served' = served + 1
  BY DEF IInv, TypeOK, Begin
<1>3. TypeOK'
  BY <1>1, <1>2 DEF IInv, TypeOK, Begin, db
<1>4. DebtFloor'
  BY DEF IInv, DebtFloor, Begin, db
<1>5. EnvGrows
  BY <1>2 DEF IInv, TypeOK, Begin, EnvGrows, db
<1>6. LocalSound(w)'
  BY <1>1, <1>2 DEF Begin, Arrived
<1> QED  BY <1>1, <1>3, <1>4, <1>5, <1>6, StepSound

LEMMA StartSound ==
  ASSUME IInv, NEW w \in Workers, NEW handler, NEW r \in Request,
         Start(w, handler, r), Arrived(w, r) => LocalSound(w)'
  PROVE  IInv'
<1>1. Begin(w, handler, r) /\ named' \in SUBSET Nat
  BY DEF IInv, TypeOK, Start
<1> QED  BY <1>1, BeginSound

LEMMA BuyStartSound ==
  ASSUME IInv, NEW w \in Workers, NEW u \in Users, NEW m \in Markets,
         NEW o \in Outcomes, NEW a \in Amounts, BuyStart(w, u, m, o, a)
  PROVE  IInv'
<1> DEFINE new == New("buyStatus", u, m)
           r   == [new EXCEPT !.choice = o, !.amount = a, !.row = users[u]]
<1>1. /\ users[u] \in UserRow /\ users[u].balance >= -MaxDebt - clawback[u]
      /\ a \in Int /\ served \in Nat
  BY ExchangeAssumption DEF IInv, TypeOK, DebtFloor
<1>2. new \in Request /\ new.pc = "buyStatus" /\ new.user = u
      /\ new.id = served + 1
  BY NewTyped DEF IInv, Labels
<1>3. r \in Request /\ r.pc = "buyStatus" /\ r.user = u /\ r.choice = o
      /\ r.amount = a /\ r.row = users[u] /\ r.id = served + 1
  BY <1>1, <1>2 DEF Request
<1>4. Start(w, "buy", r)
  BY DEF BuyStart
<1> HIDE DEF r
<1>5. ASSUME Arrived(w, r)  PROVE LocalSound(w)'
  BY <1>1, <1>3, <1>5
  DEF Arrived, db, histories, LocalSound, TradeSound, PriceSound, RowSound,
      TimeSound, MarketSound, BuyStages, SellStages
<1> QED  BY <1>3, <1>4, <1>5, StartSound

LEMMA BuyCheckStatusSound ==
  ASSUME IInv, NEW w \in Workers, BuyCheckStatus(w)
  PROVE  IInv'
  BY CheckStatusSound DEF BuyCheckStatus

LEMMA FeesTyped ==
  ASSUME NEW log, NEW u, NEW amount
  PROVE  GetBetFees(log, u, amount) \in Nat
<1>1. TransactionFee(amount) \in Nat
  BY ExchangeAssumption DEF TransactionFee
<1> QED  BY <1>1, ExchangeAssumption DEF GetBetFees

LEMMA BuyCheckBalanceSound ==
  ASSUME IInv, NEW w \in Workers, BuyCheckBalance(w)
  PROVE  IInv'
<1> PICK log \in GetBetsForMarket(req[w].market) :
      LET r    == req[w]
          cost == r.amount + GetBetFees(log, r.user, r.amount)
      IN  IF Affordable(r.row, cost)
          THEN /\ clock' = clock + 1
               /\ Now(w, [r EXCEPT !.pc = "buyValidate",
                                   !.due = cost, !.at = clock + 1])
          ELSE Finish(w) /\ UNCHANGED clock
  BY DEF BuyCheckBalance
<1> DEFINE r    == req[w]
           cost == r.amount + GetBetFees(log, r.user, r.amount)
           next == [r EXCEPT !.pc = "buyValidate", !.due = cost,
                             !.at = clock + 1]
<1>1. /\ r \in Request /\ r.pc = "buyFees" /\ LocalSound(w)
      /\ UNCHANGED <<db, closedAt, served, histories>>
  BY DEF IInv, TypeOK, BuyCheckBalance, At
<1>2. CASE ~Affordable(r.row, cost)
  BY <1>1, <1>2, RefusedSound DEF env
<1>3. CASE Affordable(r.row, cost)
  <2>1. Now(w, next) /\ clock' = clock + 1
    BY <1>3
  <2>2. cost \in Int /\ clock + 1 \in Nat
    BY <1>1, FeesTyped DEF IInv, TypeOK, Request
  <2> HIDE DEF cost
  <2>3. /\ next \in Request /\ next.pc = "buyValidate" /\ next.due = cost
        /\ next.row = r.row /\ next.user = r.user /\ next.id = r.id
        /\ next.market = r.market /\ next.choice = r.choice
        /\ next.amount = r.amount
    BY <1>1, <2>2 DEF Request, Labels
  <2> HIDE DEF next
  <2>4. /\ req' \in [Workers -> Request] /\ req'[w] = next
        /\ \A x \in Workers \ {w} : req'[x] = req[x]
    BY <2>1, <2>3, NowTyped DEF IInv
  <2>5. TypeOK'
    BY <1>1, <2>1, <2>2, <2>4 DEF IInv, TypeOK, db, histories
  <2>6. DebtFloor' /\ EnvGrows
    BY <1>1 DEF IInv, TypeOK, DebtFloor, EnvGrows, db, histories
  <2>7. LocalSound(w)'
    BY <1>1, <1>3, <2>3, <2>4
    DEF LocalSound, TradeSound, PriceSound, RowSound, TimeSound, MarketSound,
        BuyStages, SellStages, db, histories
  <2> QED  BY <2>4, <2>5, <2>6, <2>7, StepSound
<1> QED  BY <1>2, <1>3

LEMMA BuyValidateSound ==
  ASSUME IInv, NEW w \in Workers, BuyValidate(w)
  PROVE  IInv'
<1> DEFINE r    == req[w]
           next == [r EXCEPT !.pc = "buyDebit"]
<1>1. /\ r \in Request /\ r.pc = "buyValidate" /\ LocalSound(w)
      /\ UNCHANGED <<db, env, histories>>
  BY DEF IInv, TypeOK, BuyValidate, At
<1>2. CASE ~(markets[r.market].status = "open" /\ r.amount >= 1)
  BY <1>1, <1>2, RefusedSound DEF BuyValidate
<1>3. CASE markets[r.market].status = "open" /\ r.amount >= 1
  <2>1. /\ next \in Request /\ Now(w, next)
    BY <1>1, <1>3, LabelTyped DEF BuyValidate, Goto, Labels
  <2>2. ASSUME req'[w] = next  PROVE LocalSound(w)'
    BY <1>1, <1>3, <2>2
    DEF LocalSound, TradeSound, PriceSound, RowSound, TimeSound, MarketSound,
        Request, BuyStages, SellStages, db, env, histories
  <2> QED  BY <1>1, <2>1, <2>2, QuietStep
<1> QED  BY <1>2, <1>3

LEMMA BuyDebitSound ==
  ASSUME IInv, NEW w \in Workers, BuyDebit(w)
  PROVE  IInv'
<1> DEFINE r    == req[w]
           b    == r.row.balance - r.due
           next == [r EXCEPT !.pc = "buyInsert"]
<1>1. /\ r \in Request /\ r.pc = "buyDebit" /\ LocalSound(w)
      /\ r.user \in Users /\ r.row \in UserRow /\ r.at \in Nat
      /\ SaveBalance(r.user, r.row, b)
      /\ paid' = paid \cup {r.at}
      /\ UNCHANGED <<markets, bets, files, env, clawback, named>>
  BY DEF IInv, TypeOK, BuyDebit, At, Request
<1>2. b \in Int /\ b >= -MaxDebt - clawback[r.user]
  <2>1. /\ Affordable(r.row, r.due) /\ r.row.balance \in Int /\ r.due \in Int
        /\ clawback[r.user] \in Nat
    BY <1>1 DEF LocalSound, RowSound, IInv, TypeOK, Request, UserRow
  <2> QED  BY <2>1, ExchangeAssumption DEF Affordable
<1>3. /\ req' \in [Workers -> Request] /\ req'[w] = next
      /\ \A x \in Workers \ {w} : req'[x] = req[x]
  <2>1. next \in Request /\ Now(w, next)
    BY <1>1, LabelTyped DEF BuyDebit, Goto, Labels
  <2> QED  BY <2>1, NowTyped DEF IInv
<1> HIDE DEF b
<1>4. TypeOK'
  <2>1. users' \in [Users -> UserRow]
    BY <1>1, <1>2, SaveTyped DEF IInv
  <2> QED  BY <1>1, <1>3, <2>1 DEF IInv, TypeOK, env
<1>5. DebtFloor'
  <2>1. /\ clawback' = clawback /\ TypeOK /\ DebtFloor
        /\ \A x \in Users : clawback[x] <= clawback'[x]
    BY <1>1 DEF IInv, TypeOK
  <2> QED  BY <1>1, <1>2, <1>4, <2>1, SaveKeepsFloor
<1>6. EnvGrows
  BY <1>1 DEF IInv, TypeOK, EnvGrows, env
<1>7. LocalSound(w)'
  BY <1>1, <1>3
  DEF LocalSound, TradeSound, PriceSound, RowSound, TimeSound, MarketSound,
      Request, BuyStages, SellStages, env
<1> QED  BY <1>3, <1>4, <1>5, <1>6, <1>7, StepSound

(* A row is inserted and its request ends.                                 *)
LEMMA InsertSound ==
  ASSUME IInv, NEW w \in Workers, NEW amount \in BetAmounts,
         req[w].choice \in Outcomes, CreateBet(w, amount), Finish(w),
         UNCHANGED <<users, markets, files, env, histories>>
  PROVE  IInv'
<1>1. /\ req' \in [Workers -> Request] /\ req'[w] = Idle
      /\ \A x \in Workers \ {w} : req'[x] = req[x]
  BY IdleTyped, NowTyped DEF IInv, Finish
<1>2. /\ bets' \in [Markets -> Seq(StampedRow)]
      /\ \A m \in Markets : Len(bets'[m]) <= MaxBets
  BY CreateTyped DEF IInv
<1>3. TypeOK'
  BY <1>1, <1>2 DEF IInv, TypeOK, env, histories
<1>4. DebtFloor' /\ EnvGrows
  BY DEF IInv, TypeOK, DebtFloor, EnvGrows, env, histories
<1> QED  BY <1>1, <1>3, <1>4, IdleSound, StepSound

LEMMA BuyInsertSound ==
  ASSUME IInv, NEW w \in Workers, BuyInsert(w)
  PROVE  IInv'
<1>1. /\ req[w].choice \in Outcomes /\ req[w].amount \in Amounts
      /\ req[w].amount >= 1
  BY DEF IInv, LocalSound, TradeSound, BuyInsert, At, BuyStages
<1>2. req[w].amount \in BetAmounts
  BY <1>1 DEF BetAmounts
<1> QED  BY <1>1, <1>2, InsertSound DEF BuyInsert

-----------------------------------------------------------------------------
(* Selling *)

LEMMA SellStartSound ==
  ASSUME IInv, NEW w \in Workers, NEW u \in Users, NEW m \in Markets,
         NEW o \in Outcomes, NEW a \in Amounts, SellStart(w, u, m, o, a)
  PROVE  IInv'
<1> DEFINE new == New("sellStatus", u, m)
           r   == [new EXCEPT !.choice = o, !.amount = a]
<1>1. a \in Int /\ served \in Nat
  BY ExchangeAssumption DEF IInv, TypeOK
<1>2. new \in Request /\ new.pc = "sellStatus" /\ new.user = u
      /\ new.id = served + 1
  BY NewTyped DEF IInv, Labels
<1>3. r \in Request /\ r.pc = "sellStatus" /\ r.choice = o
      /\ r.amount = a /\ r.id = served + 1
  BY <1>1, <1>2 DEF Request
<1>4. Start(w, "sell", r)
  BY DEF SellStart
<1> HIDE DEF r
<1>5. ASSUME Arrived(w, r)  PROVE LocalSound(w)'
  BY <1>1, <1>3, <1>5
  DEF Arrived, db, histories, LocalSound, TradeSound, PriceSound, RowSound,
      TimeSound, MarketSound, BuyStages, SellStages
<1> QED  BY <1>3, <1>4, <1>5, StartSound

LEMMA SellCheckStatusSound ==
  ASSUME IInv, NEW w \in Workers, SellCheckStatus(w)
  PROVE  IInv'
  BY CheckStatusSound DEF SellCheckStatus

LEMMA SellReadMarketSound ==
  ASSUME IInv, NEW w \in Workers, SellReadMarket(w)
  PROVE  IInv'
<1> DEFINE r    == req[w]
           next == [r EXCEPT !.pc = "sellBets", !.mrow = markets[r.market]]
<1>1. /\ r \in Request /\ r.pc = "sellMarket" /\ LocalSound(w)
      /\ markets[r.market] \in MarketRow
      /\ UNCHANGED <<db, env, histories>>
  BY DEF IInv, TypeOK, SellReadMarket, At, Request
<1>2. next \in Request /\ Now(w, next)
  BY <1>1 DEF SellReadMarket, Request, Labels
<1>3. ASSUME req'[w] = next  PROVE LocalSound(w)'
  BY <1>1, <1>3
  DEF LocalSound, TradeSound, PriceSound, RowSound, TimeSound, MarketSound,
      Request, BuyStages, SellStages, db, env, histories
<1> QED  BY <1>1, <1>2, <1>3, QuietStep

Quoted(r, shares, due, time) ==
  [r EXCEPT !.pc = "sellValidate", !.shares = shares, !.due = due, !.at = time]

LEMMA QuotedTyped ==
  ASSUME NEW r \in Request, NEW shares \in Int, NEW due \in Int,
         NEW time \in Nat
  PROVE  /\ Quoted(r, shares, due, time) \in Request
         /\ Quoted(r, shares, due, time).pc = "sellValidate"
         /\ Quoted(r, shares, due, time).due = due
         /\ Quoted(r, shares, due, time).shares = shares
         /\ Quoted(r, shares, due, time).id = r.id
         /\ Quoted(r, shares, due, time).market = r.market
         /\ Quoted(r, shares, due, time).choice = r.choice
         /\ Quoted(r, shares, due, time).amount = r.amount
  BY DEF Quoted, Request, Labels

LEMMA SellQuoteSound ==
  ASSUME IInv, NEW w \in Workers, SellQuote(w)
  PROVE  IInv'
<1> DEFINE r == req[w]
<1> PICK log \in GetBetsForMarket(r.market) :
      LET position == Positions(Untimed(log), r.mrow.status)[r.user]
          owned    == SharesOwned(position, r.choice)
          value    == position.value
          shares   == SharesToSell(value, owned, r.amount)
      IN  IF owned # 0 /\ SaleAccepted(value, owned, r.amount)
                       /\ shares <= MaxShares
          THEN /\ clock' = clock + 1
               /\ Now(w, [r EXCEPT
                    !.pc = "sellValidate", !.shares = shares,
                    !.due = SaleValue(value, owned, r.amount),
                    !.at = clock + 1])
          ELSE Finish(w) /\ UNCHANGED clock
  BY DEF SellQuote
<1> DEFINE position == Positions(Untimed(log), r.mrow.status)[r.user]
           owned    == SharesOwned(position, r.choice)
           value    == position.value
           shares   == SharesToSell(value, owned, r.amount)
           due      == SaleValue(value, owned, r.amount)
           accepted == /\ owned # 0 /\ SaleAccepted(value, owned, r.amount)
                       /\ shares <= MaxShares
           time     == clock + 1
           next     == Quoted(r, shares, due, time)
<1>1. /\ r \in Request /\ r.pc = "sellBets" /\ LocalSound(w)
      /\ UNCHANGED <<db, closedAt, served, histories>>
  BY DEF IInv, TypeOK, SellQuote, At
<1>2. /\ r.user \in Users /\ r.market \in Markets /\ r.amount \in Int
      /\ r.mrow.status \in Statuses
  BY <1>1, ExchangeAssumption
  DEF LocalSound, TradeSound, MarketSound, Request, MarketRow, SellStages
<1>3. owned \in Nat /\ value \in Int
  <2>1. position \in Position
    BY <1>2, PositionTyped DEF IInv
  <2> QED  BY <2>1 DEF Position, SharesOwned
<1>4. CASE ~accepted
  BY <1>1, <1>4, RefusedSound DEF env
<1>5. CASE accepted
  <2>1. Now(w, next) /\ clock' = clock + 1
    BY <1>5 DEF Quoted
  <2>2. shares \in 1..MaxShares /\ due \in Nat /\ clock + 1 \in Nat
    <3>1. shares \in 1..owned /\ due \in Nat
      BY <1>2, <1>3, <1>5, SaleBounds
    <3> QED  BY <1>3, <1>5, <3>1, ExchangeAssumption DEF IInv, TypeOK
  <2> HIDE DEF shares, due
  <2>0. shares \in Int /\ due \in Int /\ time \in Nat
    BY <2>2, ExchangeAssumption
  <2> HIDE DEF time
  <2>3. /\ next \in Request /\ next.pc = "sellValidate"
        /\ next.due = due /\ next.shares = shares /\ next.id = r.id
        /\ next.market = r.market /\ next.choice = r.choice
        /\ next.amount = r.amount
    <3>1. r \in Request
      BY <1>1
    <3> HIDE DEF r
    <3> QED  BY <2>0, <3>1, QuotedTyped
  <2> HIDE DEF next
  <2>4. /\ req' \in [Workers -> Request] /\ req'[w] = next
        /\ \A x \in Workers \ {w} : req'[x] = req[x]
    BY <2>1, <2>3, NowTyped DEF IInv
  <2>5. TypeOK'
    BY <1>1, <2>1, <2>2, <2>4 DEF IInv, TypeOK, db, histories
  <2>6. DebtFloor' /\ EnvGrows
    BY <1>1 DEF IInv, TypeOK, DebtFloor, EnvGrows, db, histories
  <2>7. LocalSound(w)'
    BY <1>1, <2>2, <2>3, <2>4
    DEF LocalSound, TradeSound, PriceSound, RowSound, TimeSound, MarketSound,
        BuyStages, SellStages, db, histories
  <2> QED  BY <2>4, <2>5, <2>6, <2>7, StepSound
<1> QED  BY <1>4, <1>5

LEMMA SellValidateSound ==
  ASSUME IInv, NEW w \in Workers, SellValidate(w)
  PROVE  IInv'
<1> DEFINE r    == req[w]
           next == [r EXCEPT !.pc = "sellRead"]
<1>1. /\ r \in Request /\ r.pc = "sellValidate" /\ LocalSound(w)
      /\ UNCHANGED <<db, env, histories>>
  BY DEF IInv, TypeOK, SellValidate, At
<1>2. CASE markets[r.market].status # "open"
  BY <1>1, <1>2, RefusedSound DEF SellValidate
<1>3. CASE markets[r.market].status = "open"
  <2>1. /\ next \in Request /\ Now(w, next)
    BY <1>1, <1>3, LabelTyped DEF SellValidate, Goto, Labels
  <2>2. ASSUME req'[w] = next  PROVE LocalSound(w)'
    BY <1>1, <2>2
    DEF LocalSound, TradeSound, PriceSound, RowSound, TimeSound, MarketSound,
        Request, BuyStages, SellStages, db, env, histories
  <2> QED  BY <1>1, <2>1, <2>2, QuietStep
<1> QED  BY <1>2, <1>3

LEMMA SellReadUserSound ==
  ASSUME IInv, NEW w \in Workers, SellReadUser(w)
  PROVE  IInv'
<1> DEFINE r    == req[w]
           next == [r EXCEPT !.pc = "sellCredit", !.row = users[r.user]]
<1>1. /\ r \in Request /\ r.pc = "sellRead" /\ LocalSound(w)
      /\ r.user \in Users /\ users[r.user] \in UserRow
      /\ users[r.user].balance >= -MaxDebt - clawback[r.user]
      /\ UNCHANGED <<db, env, histories>>
  BY DEF IInv, TypeOK, DebtFloor, SellReadUser, At, Request
<1>2. next \in Request /\ Now(w, next)
  BY <1>1 DEF SellReadUser, Request, Labels
<1>3. ASSUME req'[w] = next  PROVE LocalSound(w)'
  BY <1>1, <1>3
  DEF LocalSound, TradeSound, PriceSound, RowSound, TimeSound, MarketSound,
      Request, BuyStages, SellStages, db, env, histories
<1> QED  BY <1>1, <1>2, <1>3, QuietStep

LEMMA SellCreditSound ==
  ASSUME IInv, NEW w \in Workers, SellCredit(w)
  PROVE  IInv'
<1> DEFINE r    == req[w]
           b    == r.row.balance + r.due
           next == [r EXCEPT !.pc = "sellInsert"]
<1>1. /\ r \in Request /\ r.pc = "sellCredit" /\ LocalSound(w)
      /\ r.user \in Users /\ r.row \in UserRow /\ r.at \in Nat
      /\ SaveBalance(r.user, r.row, b)
      /\ paid' = paid \cup {r.at}
      /\ UNCHANGED <<markets, bets, files, env, clawback, named>>
  BY DEF IInv, TypeOK, SellCredit, At, Request
<1>2. b \in Int /\ b >= -MaxDebt - clawback[r.user]
  <2>1. /\ r.row.balance >= -MaxDebt - clawback[r.user] /\ r.due \in Nat
        /\ r.row.balance \in Int /\ clawback[r.user] \in Nat
    BY <1>1
    DEF LocalSound, RowSound, PriceSound, IInv, TypeOK, Request, UserRow
  <2> QED  BY <2>1, ExchangeAssumption
<1>3. /\ req' \in [Workers -> Request] /\ req'[w] = next
      /\ \A x \in Workers \ {w} : req'[x] = req[x]
  <2>1. next \in Request /\ Now(w, next)
    BY <1>1, LabelTyped DEF SellCredit, Goto, Labels
  <2> QED  BY <2>1, NowTyped DEF IInv
<1> HIDE DEF b
<1>4. TypeOK'
  <2>1. users' \in [Users -> UserRow]
    BY <1>1, <1>2, SaveTyped DEF IInv
  <2> QED  BY <1>1, <1>3, <2>1 DEF IInv, TypeOK, env
<1>5. DebtFloor'
  <2>1. /\ clawback' = clawback /\ TypeOK /\ DebtFloor
        /\ \A x \in Users : clawback[x] <= clawback'[x]
    BY <1>1 DEF IInv, TypeOK
  <2> QED  BY <1>1, <1>2, <1>4, <2>1, SaveKeepsFloor
<1>6. EnvGrows
  BY <1>1 DEF IInv, TypeOK, EnvGrows, env
<1>7. LocalSound(w)'
  BY <1>1, <1>3
  DEF LocalSound, TradeSound, PriceSound, RowSound, TimeSound, MarketSound,
      Request, BuyStages, SellStages, env
<1> QED  BY <1>3, <1>4, <1>5, <1>6, <1>7, StepSound

LEMMA SellInsertSound ==
  ASSUME IInv, NEW w \in Workers, SellInsert(w)
  PROVE  IInv'
<1>1. req[w].choice \in Outcomes /\ req[w].shares \in 1..MaxShares
  BY DEF IInv, LocalSound, TradeSound, PriceSound, SellInsert, At, SellStages
<1>2. -req[w].shares \in BetAmounts
  BY <1>1 DEF BetAmounts
<1> QED  BY <1>1, <1>2, InsertSound DEF SellInsert

-----------------------------------------------------------------------------
(* Creating a market *)

(* The row decoded from a body is one that a market can have.              *)
LEMMA BodyTyped ==
  ASSUME NEW row \in BodyRow
  PROVE  /\ row \in MarketRow /\ row.image \in Nat
         /\ row.status \in Statuses /\ row.status # "none"
  BY ExchangeAssumption DEF BodyRow, MarketRow, Statuses

LEMMA CreateStartSound ==
  ASSUME IInv, NEW w \in Workers, NEW u \in Users, NEW m \in Markets,
         NEW row \in BodyRow, CreateStart(w, u, m, row)
  PROVE  IInv'
<1> DEFINE new  == New("createDebit", u, m)
           r    == [new EXCEPT !.row = users[u], !.mrow = row]
<1>1. /\ users[u] \in UserRow /\ users[u].balance >= -MaxDebt - clawback[u]
      /\ Affordable(users[u], CreateMarketCost) /\ served \in Nat
  BY DEF IInv, TypeOK, DebtFloor, CreateStart
<1>2. row \in MarketRow /\ row.status # "none" /\ row.image \in Nat
  BY BodyTyped
<1>3. new \in Request /\ new.pc = "createDebit" /\ new.user = u
      /\ new.id = served + 1
  BY NewTyped DEF IInv, Labels
<1>4. Begin(w, "create", r) /\ named' \in SUBSET Nat
  BY <1>2 DEF CreateStart, IInv, TypeOK
<1> HIDE DEF new
<1>5. r \in Request /\ r.pc = "createDebit" /\ r.user = u
      /\ r.row = users[u] /\ r.id = served + 1 /\ r.mrow = row
  BY <1>1, <1>2, <1>3 DEF Request
<1> HIDE DEF r
<1>6. ASSUME Arrived(w, r)  PROVE LocalSound(w)'
  BY <1>1, <1>2, <1>5, <1>6
  DEF Arrived, db, histories, LocalSound, TradeSound, PriceSound, RowSound,
      TimeSound, MarketSound, BuyStages, SellStages
<1> QED  BY <1>4, <1>5, <1>6, BeginSound

LEMMA CreateDebitSound ==
  ASSUME IInv, NEW w \in Workers, CreateDebit(w)
  PROVE  IInv'
<1> DEFINE r    == req[w]
           b    == r.row.balance - CreateMarketCost
           next == [r EXCEPT !.pc = "createInsert"]
<1>1. /\ r \in Request /\ r.pc = "createDebit" /\ LocalSound(w)
      /\ r.user \in Users /\ r.row \in UserRow
      /\ SaveBalance(r.user, r.row, b)
      /\ UNCHANGED <<markets, bets, files, env, histories>>
  BY DEF IInv, TypeOK, CreateDebit, At, Request
<1>2. b \in Int /\ b >= -MaxDebt - clawback[r.user]
  <2>1. /\ Affordable(r.row, CreateMarketCost) /\ r.row.balance \in Int
        /\ clawback[r.user] \in Nat
    BY <1>1 DEF LocalSound, RowSound, IInv, TypeOK, UserRow
  <2> QED  BY <2>1, ExchangeAssumption DEF Affordable
<1>3. /\ req' \in [Workers -> Request] /\ req'[w] = next
      /\ \A x \in Workers \ {w} : req'[x] = req[x]
  <2>1. next \in Request /\ Now(w, next)
    BY <1>1, LabelTyped DEF CreateDebit, Goto, Labels
  <2> QED  BY <2>1, NowTyped DEF IInv
<1> HIDE DEF b
<1>4. TypeOK'
  <2>1. users' \in [Users -> UserRow]
    BY <1>1, <1>2, SaveTyped DEF IInv
  <2> QED  BY <1>1, <1>3, <2>1 DEF IInv, TypeOK, env, histories
<1>5. DebtFloor'
  <2>1. /\ clawback' = clawback /\ TypeOK /\ DebtFloor
        /\ \A x \in Users : clawback[x] <= clawback'[x]
    BY <1>1 DEF IInv, TypeOK, histories
  <2> QED  BY <1>1, <1>2, <1>4, <2>1, SaveKeepsFloor
<1>6. EnvGrows
  BY <1>1 DEF IInv, TypeOK, EnvGrows, env, histories
<1>7. LocalSound(w)'
  BY <1>1, <1>3
  DEF LocalSound, TradeSound, PriceSound, RowSound, TimeSound, MarketSound,
      Request, BuyStages, SellStages, env, histories
<1> QED  BY <1>3, <1>4, <1>5, <1>6, <1>7, StepSound

(* A market row is written, and its request goes on as r.                  *)
LEMMA MarketSaveSound ==
  ASSUME IInv, NEW w \in Workers, NEW m \in Markets, NEW row \in MarketRow,
         NEW r \in Request, row.status # "none",
         markets' = [markets EXCEPT ![m] = row], Now(w, r),
         UNCHANGED <<users, bets, files, env, histories>>,
         req'[w] = r /\ markets'[m] = row => LocalSound(w)'
  PROVE  IInv'
<1>1. /\ req' \in [Workers -> Request] /\ req'[w] = r
      /\ \A x \in Workers \ {w} : req'[x] = req[x]
  BY NowTyped DEF IInv
<1>2. /\ markets' \in [Markets -> MarketRow] /\ markets'[m] = row
      /\ \A n \in Markets \ {m} : markets'[n] = markets[n]
  BY DEF IInv, TypeOK
<1>3. TypeOK'
  BY <1>1, <1>2 DEF IInv, TypeOK, env, histories
<1>4. DebtFloor'
  BY DEF IInv, DebtFloor, histories
<1>5. EnvGrows
  BY <1>2 DEF IInv, TypeOK, EnvGrows, env, histories
<1> QED  BY <1>1, <1>2, <1>3, <1>4, <1>5, StepSound

LEMMA CreateInsertSound ==
  ASSUME IInv, NEW w \in Workers, CreateInsert(w)
  PROVE  IInv'
<1> DEFINE r == req[w]
<1>1. /\ r.market \in Markets /\ r.mrow \in MarketRow
      /\ r.mrow.status # "none"
  BY DEF IInv, TypeOK, CreateInsert, At, Request, LocalSound, MarketSound
<1>2. req'[w] = Idle => LocalSound(w)'
  <2>1. TypeOK'
    BY <1>1, IdleTyped, NowTyped
    DEF IInv, TypeOK, CreateInsert, Finish, env, histories
  <2> QED  BY <2>1, IdleSound
<1> QED
  BY <1>1, <1>2, IdleTyped, MarketSaveSound DEF CreateInsert, Finish

-----------------------------------------------------------------------------
(* Resolving a market *)

LEMMA ResolveStartSound ==
  ASSUME IInv, NEW w \in Workers, NEW u \in Users, NEW m \in Markets,
         NEW o \in Resolutions, ResolveStart(w, u, m, o)
  PROVE  IInv'
<1> DEFINE new == New("resolveSave", u, m)
           r   == [new EXCEPT !.choice = o, !.mrow = markets[m]]
<1>1. /\ markets[m] \in MarketRow /\ markets[m].status # "none"
      /\ served \in Nat
  BY DEF IInv, TypeOK, ResolveStart
<1>2. new \in Request /\ new.pc = "resolveSave" /\ new.id = served + 1
  BY NewTyped DEF IInv, Labels
<1>3. Start(w, "resolve", r)
  BY DEF ResolveStart
<1> HIDE DEF new
<1>4. r \in Request /\ r.pc = "resolveSave" /\ r.id = served + 1
      /\ r.mrow = markets[m]
  BY <1>1, <1>2 DEF Request
<1> HIDE DEF r
<1>5. ASSUME Arrived(w, r)  PROVE LocalSound(w)'
  BY <1>1, <1>4, <1>5
  DEF Arrived, db, histories, LocalSound, TradeSound, PriceSound, RowSound,
      TimeSound, MarketSound, BuyStages, SellStages
<1> QED  BY <1>3, <1>4, <1>5, StartSound

LEMMA ResolveSaveSound ==
  ASSUME IInv, NEW w \in Workers, ResolveSave(w)
  PROVE  IInv'
<1> DEFINE r     == req[w]
           row   == [r.mrow EXCEPT !.status = r.choice]
           label == IF r.choice = "N/A" THEN "refundBets" ELSE "payMarket"
           next  == [r EXCEPT !.pc = label]
<1>1. /\ r \in Request /\ r.market \in Markets /\ r.mrow \in MarketRow
      /\ r.choice \in Statuses /\ r.choice # "none"
      /\ LocalSound(w)
      /\ label \in {"refundBets", "payMarket"} /\ label \in Labels
  BY ExchangeAssumption
  DEF IInv, TypeOK, ResolveSave, At, Request, Labels, Statuses, Outcomes
<1>2. row \in MarketRow /\ row.status # "none"
  BY <1>1 DEF MarketRow
<1>3. markets' = [markets EXCEPT ![r.market] = row]
      /\ Now(w, next) /\ UNCHANGED <<users, bets, files, env, histories>>
  BY DEF ResolveSave, Goto
<1> HIDE DEF label, row
<1>4. /\ next \in Request /\ next.pc = label /\ next.id = r.id
      /\ next.market = r.market
  BY <1>1 DEF Request
<1> HIDE DEF next
<1>5. ASSUME req'[w] = next, markets'[r.market] = row  PROVE LocalSound(w)'
  BY <1>1, <1>2, <1>3, <1>4, <1>5
  DEF LocalSound, TradeSound, PriceSound, RowSound, TimeSound, MarketSound,
      BuyStages, SellStages, env, histories
<1> QED  BY <1>1, <1>2, <1>3, <1>4, <1>5, MarketSaveSound

LEMMA PayReadMarketSound ==
  ASSUME IInv, NEW w \in Workers, PayReadMarket(w)
  PROVE  IInv'
<1> DEFINE r    == req[w]
           next == [r EXCEPT !.pc = "payBets", !.mrow = markets[r.market]]
<1>1. /\ r \in Request /\ r.pc = "payMarket" /\ LocalSound(w)
      /\ UNCHANGED <<db, env, histories>>
      /\ markets[r.market] \in MarketRow
  BY DEF IInv, TypeOK, PayReadMarket, At, Request
<1>2. next \in Request /\ Now(w, next)
  BY <1>1 DEF PayReadMarket, Request, Labels
<1>3. ASSUME req'[w] = next  PROVE LocalSound(w)'
  BY <1>1, <1>3
  DEF LocalSound, TradeSound, PriceSound, RowSound, TimeSound, MarketSound,
      Request, BuyStages, SellStages, db, env, histories
<1> QED  BY <1>1, <1>2, <1>3, QuietStep

(* The payment loop moves on, to the next payment or to the end.           *)
Owing(w, owed) ==
  [req[w] EXCEPT !.pc = "payRead", !.owed = owed, !.paying = NoPayment]

LEMMA PayNextTyped ==
  ASSUME IInv, NEW w \in Workers, NEW owed \in SUBSET Payment,
         PayNext(w, owed)
  PROVE  \E r \in Request :
           /\ Now(w, r)
           /\ r = Idle \/ (r.pc = "payRead" /\ r.id = req[w].id)
<1>1. CASE owed = {}
  BY <1>1, IdleTyped DEF PayNext, Finish
<1>2. CASE owed # {}
  <2>1. Owing(w, owed) \in Request
    <3>1. NoPayment \in Payment
      BY SomeTyped DEF NoPayment, Payment
    <3>2. req[w] \in Request /\ owed \in SUBSET Payment
      BY DEF IInv, TypeOK
    <3> HIDE DEF Payment
    <3> QED  BY <3>1, <3>2 DEF Owing, Request, Labels
  <2>2. /\ Now(w, Owing(w, owed)) /\ Owing(w, owed).pc = "payRead"
        /\ Owing(w, owed).id = req[w].id
    BY <1>2 DEF PayNext, Owing, IInv, TypeOK, Request
  <2> QED  BY <2>1, <2>2
<1> QED  BY <1>1, <1>2

LEMMA PayingSound ==
  ASSUME IInv, TypeOK', NEW w \in Workers, NEW r \in Request, req'[w] = r,
         r = Idle \/ (r.pc = "payRead" /\ r.id = req[w].id),
         UNCHANGED env
  PROVE  LocalSound(w)'
<1>1. CASE r = Idle
  BY <1>1, IdleSound
<1>2. CASE r.pc = "payRead" /\ r.id = req[w].id
  BY <1>2
  DEF IInv, LocalSound, TradeSound, PriceSound, RowSound, TimeSound,
      MarketSound, BuyStages, SellStages, env
<1> QED  BY <1>1, <1>2

LEMMA OwingSound ==
  ASSUME IInv, NEW w \in Workers, NEW owed \in SUBSET Payment,
         PayNext(w, owed), UNCHANGED <<db, env, histories>>
  PROVE  IInv'
<1>1. PICK r \in Request :
        /\ Now(w, r)
        /\ r = Idle \/ (r.pc = "payRead" /\ r.id = req[w].id)
  BY PayNextTyped
<1>2. TypeOK'
  BY <1>1, NowTyped DEF IInv, TypeOK, db, env, histories
<1>3. req'[w] = r => LocalSound(w)'
  BY <1>1, <1>2, PayingSound
<1> QED  BY <1>1, <1>3, QuietStep

LEMMA PayReadBetsSound ==
  ASSUME IInv, NEW w \in Workers, PayReadBets(w)
  PROVE  IInv'
<1>1. PICK log \in GetBetsForMarket(req[w].market) :
        PayNext(w, Winnings(log, req[w].mrow.status))
  BY DEF PayReadBets
<1>2. req[w].market \in Markets /\ req[w].mrow.status \in Statuses
  BY DEF IInv, TypeOK, PayReadBets, At, Request, MarketRow, LocalSound,
         MarketSound
<1>3. Winnings(log, req[w].mrow.status) \in SUBSET Payment
  <2>1. \A u \in Users :
          Positions(Untimed(log), req[w].mrow.status)[u] \in Position
    BY <1>2, PositionTyped DEF IInv
  <2> QED  BY <2>1 DEF Winnings, Payment, Position
<1> QED  BY <1>1, <1>3, OwingSound DEF PayReadBets

LEMMA RefundReadBetsSound ==
  ASSUME IInv, NEW w \in Workers, RefundReadBets(w)
  PROVE  IInv'
<1> DEFINE log == bets[req[w].market]
<1>1. log \in Seq(StampedRow)
  BY DEF IInv, TypeOK, Request
<1>2. \A i \in 1..Len(log) : log[i] \in StampedRow
  BY <1>1, ElementOfSeq
<1>3. \A i \in 1..Len(log) : /\ log[i].user \in Users /\ log[i].at \in Nat
                              /\ log[i].amount \in Int
  <2>1. \A a \in BetAmounts : a \in Int
    BY ExchangeAssumption DEF BetAmounts
  <2> QED  BY <1>2, <2>1 DEF StampedRow
<1>4. Refunds(log) \in SUBSET Payment
  BY <1>3 DEF Refunds, Payment
<1> QED  BY <1>4, OwingSound DEF RefundReadBets

LEMMA PayReadUserSound ==
  ASSUME IInv, NEW w \in Workers, PayReadUser(w)
  PROVE  IInv'
<1>1. PICK p \in req[w].owed :
        Now(w, [req[w] EXCEPT !.pc = "paySave", !.paying = p,
                              !.row = users[p.user]])
  BY DEF PayReadUser
<1> DEFINE r    == req[w]
           next == [r EXCEPT !.pc = "paySave", !.paying = p,
                             !.row = users[p.user]]
<1>2. /\ r \in Request /\ p \in Payment /\ p.user \in Users
      /\ users[p.user] \in UserRow
      /\ users[p.user].balance >= -MaxDebt - clawback[p.user]
      /\ UNCHANGED <<db, env, histories>> /\ LocalSound(w)
  BY DEF IInv, TypeOK, DebtFloor, PayReadUser, Request, Payment
<1>3. /\ next \in Request /\ next.pc = "paySave" /\ next.id = r.id
      /\ next.paying = p /\ next.row = users[p.user]
  BY <1>2 DEF Request, Labels
<1>4. Now(w, next)
  BY <1>1
<1> HIDE DEF next
<1>5. ASSUME req'[w] = next  PROVE LocalSound(w)'
  BY <1>2, <1>3, <1>5
  DEF LocalSound, TradeSound, PriceSound, RowSound, TimeSound, MarketSound,
      BuyStages, SellStages, db, env, histories
<1> QED  BY <1>2, <1>3, <1>4, <1>5, QuietStep

LEMMA PaySaveSound ==
  ASSUME IInv, NEW w \in Workers, PaySave(w)
  PROVE  IInv'
<1> DEFINE r == req[w]
           p == r.paying
           b == r.row.balance + p.amount
<1>1. /\ r \in Request /\ r.pc = "paySave" /\ LocalSound(w)
      /\ p \in Payment /\ p.user \in Users /\ p.amount \in Int
      /\ r.row \in UserRow /\ r.row.balance \in Int
      /\ r.owed \ {p} \in SUBSET Payment
      /\ clawback[p.user] \in Nat
  BY DEF IInv, TypeOK, PaySave, At, Request, Payment, UserRow
<1>2. /\ SaveBalance(p.user, r.row, b)
      /\ clawback' = [clawback EXCEPT ![p.user] =
           IF p.amount < 0 THEN clawback[p.user] - p.amount
                           ELSE clawback[p.user]]
      /\ PayNext(w, r.owed \ {p})
      /\ UNCHANGED <<markets, bets, files, env, paid, named>>
  BY DEF PaySave
<1>3. PICK next \in Request :
        /\ Now(w, next)
        /\ next = Idle \/ (next.pc = "payRead" /\ next.id = r.id)
  BY <1>1, <1>2, PayNextTyped
<1>4. /\ req' \in [Workers -> Request] /\ req'[w] = next
      /\ \A x \in Workers \ {w} : req'[x] = req[x]
  BY <1>3, NowTyped DEF IInv
<1>5. /\ clawback' \in [Users -> Nat]
      /\ \A x \in Users : clawback[x] <= clawback'[x]
      /\ b \in Int /\ b >= -MaxDebt - clawback'[p.user]
  <2>1. r.row.balance >= -MaxDebt - clawback[p.user]
    BY <1>1 DEF LocalSound, RowSound
  <2>2. clawback \in [Users -> Nat]
    BY DEF IInv, TypeOK
  <2> QED  BY <1>1, <1>2, <2>1, <2>2, ExchangeAssumption
<1> HIDE DEF b
<1>6. TypeOK'
  <2>1. users' \in [Users -> UserRow]
    BY <1>1, <1>2, <1>5, SaveTyped DEF IInv
  <2> QED  BY <1>2, <1>4, <1>5, <2>1 DEF IInv, TypeOK, env
<1>7. DebtFloor'
  <2>1. TypeOK /\ DebtFloor
    BY DEF IInv
  <2> QED  BY <1>1, <1>2, <1>5, <1>6, <2>1, SaveKeepsFloor
<1>8. EnvGrows
  BY <1>2, <1>5 DEF IInv, TypeOK, EnvGrows, env
<1>9. LocalSound(w)'
  BY <1>2, <1>3, <1>4, <1>6, PayingSound
<1> QED  BY <1>4, <1>6, <1>7, <1>8, <1>9, StepSound

-----------------------------------------------------------------------------
(* Profiles, images, time and failures *)

LEMMA EditStartSound ==
  ASSUME IInv, NEW w \in Workers, NEW u \in Users, EditStart(w, u)
  PROVE  IInv'
<1> DEFINE new == New("editSave", u, SomeMarket)
           r   == [new EXCEPT !.row = users[u]]
<1>1. /\ users[u] \in UserRow /\ users[u].balance >= -MaxDebt - clawback[u]
      /\ served \in Nat
  BY DEF IInv, TypeOK, DebtFloor
<1>2. new \in Request /\ new.pc = "editSave" /\ new.user = u
      /\ new.id = served + 1
  BY NewTyped, SomeTyped DEF IInv, Labels
<1>3. Start(w, "edit", r)
  BY DEF EditStart
<1> HIDE DEF new
<1>4. r \in Request /\ r.pc = "editSave" /\ r.user = u
      /\ r.row = users[u] /\ r.id = served + 1
  BY <1>1, <1>2 DEF Request
<1> HIDE DEF r
<1>5. ASSUME Arrived(w, r)  PROVE LocalSound(w)'
  BY <1>1, <1>4, <1>5
  DEF Arrived, db, histories, LocalSound, TradeSound, PriceSound, RowSound,
      TimeSound, MarketSound, BuyStages, SellStages
<1> QED  BY <1>3, <1>4, <1>5, StartSound

LEMMA EditSaveSound ==
  ASSUME IInv, NEW w \in Workers, EditSave(w)
  PROVE  IInv'
<1> DEFINE r   == req[w]
           row == [r.row EXCEPT !.profile = r.id]
<1>1. /\ r.user \in Users /\ r.row \in UserRow /\ r.id \in Nat
      /\ r.row.balance >= -MaxDebt - clawback[r.user]
      /\ users' = [users EXCEPT ![r.user] = row]
      /\ UNCHANGED <<markets, bets, files, env, histories>>
  BY DEF IInv, TypeOK, EditSave, At, Request, LocalSound, RowSound
<1>2. row \in UserRow /\ row.balance = r.row.balance
  BY <1>1 DEF UserRow
<1>3. /\ users' \in [Users -> UserRow] /\ users'[r.user] = row
      /\ \A x \in Users \ {r.user} : users'[x] = users[x]
  BY <1>1, <1>2 DEF IInv, TypeOK
<1>4. /\ req' \in [Workers -> Request] /\ req'[w] = Idle
      /\ \A x \in Workers \ {w} : req'[x] = req[x]
  BY IdleTyped, NowTyped DEF IInv, EditSave, Finish
<1>5. TypeOK'
  BY <1>1, <1>3, <1>4 DEF IInv, TypeOK, env, histories
<1>6. DebtFloor'
  BY <1>1, <1>2, <1>3 DEF IInv, DebtFloor, histories
<1>7. EnvGrows
  BY <1>1 DEF IInv, TypeOK, EnvGrows, env, histories
<1> QED  BY <1>4, <1>5, <1>6, <1>7, IdleSound, StepSound

LEMMA ImageStartSound ==
  ASSUME IInv, NEW w \in Workers, NEW u \in Users, NEW m \in Markets,
         ImageStart(w, u, m)
  PROVE  IInv'
<1> DEFINE new == New("imageWrite", u, m)
           r   == [new EXCEPT !.mrow = markets[m]]
<1>1. /\ markets[m] \in MarketRow /\ markets[m].status # "none"
      /\ served \in Nat
  BY DEF IInv, TypeOK, ImageStart
<1>2. new \in Request /\ new.pc = "imageWrite" /\ new.id = served + 1
  BY NewTyped DEF IInv, Labels
<1>3. Start(w, "image", r)
  BY DEF ImageStart
<1> HIDE DEF new
<1>4. r \in Request /\ r.pc = "imageWrite" /\ r.id = served + 1
      /\ r.mrow = markets[m]
  BY <1>1, <1>2 DEF Request
<1> HIDE DEF r
<1>5. ASSUME Arrived(w, r)  PROVE LocalSound(w)'
  BY <1>1, <1>4, <1>5
  DEF Arrived, db, histories, LocalSound, TradeSound, PriceSound, RowSound,
      TimeSound, MarketSound, BuyStages, SellStages
<1> QED  BY <1>3, <1>4, <1>5, StartSound

(* A step that touches only the image files.                               *)
LEMMA FilesSound ==
  ASSUME IInv, NEW w \in Workers, NEW r \in Request, Now(w, r),
         files' \in SUBSET Nat,
         UNCHANGED <<users, markets, bets, env, histories>>,
         req'[w] = r /\ TypeOK' => LocalSound(w)'
  PROVE  IInv'
<1>1. /\ req' \in [Workers -> Request] /\ req'[w] = r
      /\ \A x \in Workers \ {w} : req'[x] = req[x]
  BY NowTyped DEF IInv
<1>2. TypeOK'
  BY <1>1 DEF IInv, TypeOK, env, histories
<1>3. DebtFloor'
  BY DEF IInv, DebtFloor, histories
<1>4. EnvGrows
  BY DEF IInv, TypeOK, EnvGrows, env, histories
<1> QED  BY <1>1, <1>2, <1>3, <1>4, StepSound

LEMMA ImageWriteSound ==
  ASSUME IInv, NEW w \in Workers, ImageWrite(w)
  PROVE  IInv'
<1> DEFINE r    == req[w]
           next == [r EXCEPT !.pc = "imageSave"]
<1>1. /\ r \in Request /\ r.pc = "imageWrite" /\ LocalSound(w)
      /\ files' \in SUBSET Nat
      /\ UNCHANGED <<users, markets, bets, env, histories>>
  BY DEF IInv, TypeOK, ImageWrite, At, Request
<1>2. next \in Request /\ Now(w, next)
  BY <1>1, LabelTyped DEF ImageWrite, Goto, Labels
<1>3. ASSUME req'[w] = next  PROVE LocalSound(w)'
  BY <1>1, <1>3
  DEF LocalSound, TradeSound, PriceSound, RowSound, TimeSound, MarketSound,
      Request, BuyStages, SellStages, env, histories
<1> QED  BY <1>1, <1>2, <1>3, FilesSound

LEMMA ImageSaveSound ==
  ASSUME IInv, NEW w \in Workers, ImageSave(w)
  PROVE  IInv'
<1> DEFINE r    == req[w]
           row  == [r.mrow EXCEPT !.image = r.id]
           next == IF r.mrow.image = 0 THEN Idle
                   ELSE [r EXCEPT !.pc = "imageDelete"]
<1>1. /\ r \in Request /\ r.market \in Markets /\ r.mrow \in MarketRow
      /\ r.mrow.status # "none" /\ r.id \in Nat /\ LocalSound(w)
      /\ markets' = [markets EXCEPT ![r.market] = row]
      /\ UNCHANGED <<users, bets, files, env, histories>>
  BY DEF IInv, TypeOK, ImageSave, At, Request, LocalSound, MarketSound
<1>2. row \in MarketRow /\ row.status # "none"
  BY <1>1 DEF MarketRow
<1>3. next \in Request /\ Now(w, next)
      /\ (next = Idle \/ (next.pc = "imageDelete" /\ next.id = r.id))
  <2>1. CASE r.mrow.image = 0
    BY <2>1, IdleTyped DEF ImageSave, Finish
  <2>2. CASE r.mrow.image # 0
    <3>1. next = [r EXCEPT !.pc = "imageDelete"] /\ Now(w, next)
      BY <2>2 DEF ImageSave, Goto
    <3>2. next \in Request
      BY <1>1, <3>1, LabelTyped DEF Labels
    <3>3. next.pc = "imageDelete" /\ next.id = r.id
      BY <1>1, <3>1 DEF Request
    <3> QED  BY <3>1, <3>2, <3>3
  <2> QED  BY <2>1, <2>2
<1> HIDE DEF next, row
<1>4. ASSUME req'[w] = next  PROVE LocalSound(w)'
  <2>1. CASE next = Idle
    <3>1. TypeOK'
      BY <1>1, <1>2, <1>3, NowTyped DEF IInv, TypeOK, env, histories
    <3> QED  BY <1>4, <2>1, <3>1, IdleSound
  <2>2. CASE next.pc = "imageDelete" /\ next.id = r.id
    BY <1>1, <1>4, <2>2
    DEF LocalSound, TradeSound, PriceSound, RowSound, TimeSound, MarketSound,
        BuyStages, SellStages, env
  <2> QED  BY <1>3, <2>1, <2>2
<1> QED  BY <1>1, <1>2, <1>3, <1>4, MarketSaveSound

LEMMA ImageSaveFailsSound ==
  ASSUME IInv, NEW w \in Workers, ImageSaveFails(w)
  PROVE  IInv'
<1>1. files' \in SUBSET Nat
  BY DEF IInv, TypeOK, ImageSaveFails
<1> QED
  BY <1>1, IdleTyped, IdleSound, FilesSound DEF ImageSaveFails, Finish

LEMMA ImageDeleteSound ==
  ASSUME IInv, NEW w \in Workers, ImageDelete(w)
  PROVE  IInv'
<1>1. files' \in SUBSET Nat
  BY DEF IInv, TypeOK, ImageDelete
<1> QED
  BY <1>1, IdleTyped, IdleSound, FilesSound DEF ImageDelete, Finish

(* A market closes at the present count of requests, which no request in   *)
(* progress exceeds.                                                       *)
LEMMA TimePassesSound ==
  ASSUME IInv, NEW m \in Markets, TimePasses(m)
  PROVE  IInv'
<1>1. /\ closedAt' \in [Markets -> Nat \cup {NotYet}]
      /\ \A n \in Markets : closedAt'[n] # closedAt[n]
                              => closedAt'[n] = served
      /\ UNCHANGED <<db, req, clock, served, histories>>
  BY DEF IInv, TypeOK, TimePasses
<1>2. TypeOK'
  BY <1>1 DEF IInv, TypeOK, db, histories
<1>3. DebtFloor'
  BY <1>1 DEF IInv, DebtFloor, db, histories
<1>4. EnvGrows
  BY <1>1 DEF IInv, TypeOK, EnvGrows, db, histories
<1>5. ASSUME NEW w \in Workers  PROVE LocalSound(w)'
  BY <1>1, <1>2, <1>4, OthersSound
<1> QED  BY <1>2, <1>3, <1>5 DEF IInv

LEMMA FailSound ==
  ASSUME IInv, NEW w \in Workers, Fail(w)
  PROVE  IInv'
  BY RefusedSound DEF Fail

-----------------------------------------------------------------------------
(* The invariant is inductive *)

LEMMA InitSound == ASSUME Init PROVE IInv
<1>1. users \in [Users -> UserRow]
  BY ExchangeAssumption DEF Init, UserRow
<1>2. markets \in [Markets -> MarketRow]
  BY SomeTyped, ExchangeAssumption
  DEF Init, MarketRow, NoMarket, Statuses
<1>3. /\ bets \in [Markets -> Seq(StampedRow)]
      /\ \A m \in Markets : Len(bets[m]) <= MaxBets
  <2>1. <<>> \in Seq(StampedRow) /\ Len(<<>>) = 0
    BY EmptySeq
  <2> QED  BY <2>1, ExchangeAssumption DEF Init
<1>4. req \in [Workers -> Request] /\ \A w \in Workers : req[w] = Idle
  BY IdleTyped DEF Init
<1>5. TypeOK
  BY <1>1, <1>2, <1>3, <1>4 DEF Init, TypeOK
<1>6. DebtFloor
  BY ExchangeAssumption DEF Init, DebtFloor
<1>7. ASSUME NEW w \in Workers  PROVE LocalSound(w)
  BY <1>4
  DEF Init, Idle, LocalSound, TradeSound, PriceSound, RowSound, TimeSound,
      MarketSound, BuyStages, SellStages
<1> QED  BY <1>5, <1>6, <1>7 DEF IInv

LEMMA ArriveSound ==
  ASSUME IInv, NEW w \in Workers, Arrive(w)
  PROVE  IInv'
<1>1. CASE \E u \in Users, m \in Markets, o \in Outcomes, a \in Amounts :
             BuyStart(w, u, m, o, a) \/ SellStart(w, u, m, o, a)
  BY <1>1, BuyStartSound, SellStartSound
<1>2. CASE \E u \in Users, m \in Markets, row \in BodyRow :
             CreateStart(w, u, m, row)
  BY <1>2, CreateStartSound
<1>3. CASE \E u \in Users, m \in Markets, o \in Resolutions :
             ResolveStart(w, u, m, o)
  BY <1>3, ResolveStartSound
<1>4. CASE \E u \in Users : EditStart(w, u)
  BY <1>4, EditStartSound
<1>5. CASE \E u \in Users, m \in Markets : ImageStart(w, u, m)
  BY <1>5, ImageStartSound
<1> QED  BY <1>1, <1>2, <1>3, <1>4, <1>5 DEF Arrive

LEMMA HandlerStepSound ==
  ASSUME IInv, NEW w \in Workers, Step(w)
  PROVE  IInv'
<1>1. CASE BuyCheckStatus(w)  BY <1>1, BuyCheckStatusSound
<1>2. CASE BuyCheckBalance(w)  BY <1>2, BuyCheckBalanceSound
<1>3. CASE BuyValidate(w)  BY <1>3, BuyValidateSound
<1>4. CASE BuyDebit(w)  BY <1>4, BuyDebitSound
<1>5. CASE BuyInsert(w)  BY <1>5, BuyInsertSound
<1>6. CASE SellCheckStatus(w)  BY <1>6, SellCheckStatusSound
<1>7. CASE SellReadMarket(w)  BY <1>7, SellReadMarketSound
<1>8. CASE SellQuote(w)  BY <1>8, SellQuoteSound
<1>9. CASE SellValidate(w)  BY <1>9, SellValidateSound
<1>10. CASE SellReadUser(w)  BY <1>10, SellReadUserSound
<1>11. CASE SellCredit(w)  BY <1>11, SellCreditSound
<1>12. CASE SellInsert(w)  BY <1>12, SellInsertSound
<1>13. CASE CreateDebit(w)  BY <1>13, CreateDebitSound
<1>14. CASE CreateInsert(w)  BY <1>14, CreateInsertSound
<1>15. CASE ResolveSave(w)  BY <1>15, ResolveSaveSound
<1>16. CASE PayReadMarket(w)  BY <1>16, PayReadMarketSound
<1>17. CASE PayReadBets(w)  BY <1>17, PayReadBetsSound
<1>18. CASE RefundReadBets(w)  BY <1>18, RefundReadBetsSound
<1>19. CASE PayReadUser(w)  BY <1>19, PayReadUserSound
<1>20. CASE PaySave(w)  BY <1>20, PaySaveSound
<1>21. CASE EditSave(w)  BY <1>21, EditSaveSound
<1>22. CASE ImageWrite(w)  BY <1>22, ImageWriteSound
<1>23. CASE ImageSave(w)  BY <1>23, ImageSaveSound
<1>24. CASE ImageSaveFails(w)  BY <1>24, ImageSaveFailsSound
<1>25. CASE ImageDelete(w)  BY <1>25, ImageDeleteSound
<1> QED
  BY <1>1, <1>2, <1>3, <1>4, <1>5, <1>6, <1>7, <1>8, <1>9, <1>10, <1>11,
     <1>12, <1>13, <1>14, <1>15, <1>16, <1>17, <1>18, <1>19, <1>20, <1>21,
     <1>22, <1>23, <1>24, <1>25
  DEF Step

LEMMA NextSound ==
  ASSUME IInv, [Next]_vars
  PROVE  IInv'
<1>1. ASSUME NEW w \in Workers, Arrive(w)  PROVE IInv'
  BY <1>1, ArriveSound
<1>2. ASSUME NEW w \in Workers, Step(w)  PROVE IInv'
  BY <1>2, HandlerStepSound
<1>3. ASSUME NEW w \in Workers, Fail(w)  PROVE IInv'
  BY <1>3, FailSound
<1>4. ASSUME NEW m \in Markets, TimePasses(m)  PROVE IInv'
  BY <1>4, TimePassesSound
<1>5. CASE UNCHANGED vars
  BY <1>5
  DEF vars, IInv, TypeOK, DebtFloor, LocalSound, TradeSound, PriceSound,
      RowSound, TimeSound, MarketSound
<1> QED  BY <1>1, <1>2, <1>3, <1>4, <1>5 DEF Next

-----------------------------------------------------------------------------
(* The theorems *)

(* The inductive invariant holds of every behaviour of the handlers.       *)
THEOREM Invariance == Spec => []IInv
<1>1. Init => IInv
  BY InitSound
<1>2. IInv /\ [Next]_vars => IInv'
  BY NextSound
<1> QED  BY <1>1, <1>2, PTL DEF Spec

(* Every table row and every request's local values keep their types, so   *)
(* no handler ever reads what it cannot interpret.                         *)
THEOREM TypeCorrect == Spec => []TypeOK
<1>1. IInv => TypeOK
  BY DEF IInv
<1> QED  BY <1>1, Invariance, PTL

(* The debt limit holds at every instant, for any number of concurrent     *)
(* requests, with stale rows saved and requests dying anywhere, up to what *)
(* N/A refunds of sales take back.                                         *)
THEOREM DebtIsBounded == Spec => []DebtFloor
<1>1. IInv => DebtFloor
  BY DEF IInv
<1> QED  BY <1>1, Invariance, PTL

(* A request that arrives after a market's closing time never gets to a    *)
(* balance write or a bet row of that market.                              *)
THEOREM ClosingTimeHolds == Spec => []NoLateBets
<1>1. IInv => NoLateBets
  BY DEF IInv, LocalSound, TimeSound, NoLateBets, Trading, BuyStages,
         SellStages
<1> QED  BY <1>1, Invariance, PTL

-----------------------------------------------------------------------------
(* Stamps.  A trade draws its stamp when it is priced, writes the balance, *)
(* and inserts its row.                                                    *)

Paying    == {"buyValidate", "buyDebit", "sellValidate", "sellRead",
              "sellCredit"}
Inserting == {"buyInsert", "sellInsert"}
Stamped   == Paying \cup Inserting

(* A stamp was drawn from the clock, and no other trade or row has it; a   *)
(* request that inserts has written its balance.                           *)
StampSound(w) ==
  LET r == req[w]
  IN  r.pc \in Stamped =>
        /\ r.at <= clock
        /\ \A x \in Workers : req[x].pc \in Stamped /\ req[x].at = r.at
                                => x = w
        /\ \A m \in Markets : \A i \in 1..Len(bets[m]) : bets[m][i].at # r.at
        /\ r.pc \in Inserting => r.at \in paid

(* The rows of a market are in the order of their stamps.                  *)
Sorted(log) == \A i, j \in 1..Len(log) : i < j => log[i].at < log[j].at

(* Rows are paid for, stamped in the past, and stamped apart from those of *)
(* other markets.                                                          *)
LogSound(m) ==
  /\ Sorted(bets[m])
  /\ \A i \in 1..Len(bets[m]) :
       /\ bets[m][i].at \in paid /\ bets[m][i].at <= clock
       /\ \A n \in Markets \ {m} : \A j \in 1..Len(bets[n]) :
            bets[n][j].at # bets[m][i].at

StampInv ==
  /\ \A w \in Workers : StampSound(w)
  /\ \A m \in Markets : LogSound(m)

(* The four ways in which a step of w touches stamps.                      *)
Alone(w) == \A x \in Workers \ {w} : req'[x] = req[x]

KeepsStamp(w) ==
  /\ UNCHANGED <<bets, clock, paid>>
  /\ Alone(w)
  /\ req'[w].pc \in Stamped =>
       /\ req[w].pc \in Paying /\ req'[w].pc \in Paying
       /\ req'[w].at = req[w].at

DrawsStamp(w) ==
  /\ clock' = clock + 1 /\ UNCHANGED <<bets, paid>>
  /\ Alone(w)
  /\ req'[w].pc \in Paying /\ req'[w].at = clock + 1

PaysStamp(w) ==
  /\ UNCHANGED <<bets, clock>> /\ paid' = paid \cup {req[w].at}
  /\ Alone(w)
  /\ req[w].pc \in Paying
  /\ req'[w].pc \in Inserting /\ req'[w].at = req[w].at

InsertsStamp(w) ==
  /\ UNCHANGED <<clock, paid>>
  /\ Alone(w)
  /\ req[w].pc \in Inserting /\ req'[w].pc = "idle"
  /\ \E row \in StampedRow :
       /\ row.at = req[w].at
       /\ bets' = [bets EXCEPT ![req[w].market] = InsertByTime(@, row)]

-----------------------------------------------------------------------------
(* A row inserted by its time, with a stamp of its own, keeps a log sorted *)
(* and adds nothing but itself.                                            *)
LEMMA InsertSorted ==
  ASSUME NEW log \in Seq(StampedRow), NEW row \in StampedRow, Sorted(log),
         \A i \in 1..Len(log) : log[i].at # row.at
  PROVE  LET new == InsertByTime(log, row)
         IN  /\ Sorted(new)
             /\ \A i \in 1..Len(new) :
                  \/ new[i] = row
                  \/ \E j \in 1..Len(log) : new[i] = log[j]
<1> DEFINE new == InsertByTime(log, row)
           n   == Len(log)
<1>1. n \in Nat /\ Len(new) = n + 1
  BY InsertTyped, LenProperties
<1>2. \A i \in 1..n : log[i] \in StampedRow /\ log[i].at \in Nat
  <2>1. \A i \in 1..n : log[i] \in StampedRow
    BY <1>1, ElementOfSeq
  <2> QED  BY <2>1 DEF StampedRow
<1>3. row.at \in Nat
  BY DEF StampedRow
<1>4. \A i \in 1..(n + 1) :
        \/ i <= n /\ log[i].at < row.at /\ new[i] = log[i]
        \/ /\ i <= n => log[i].at > row.at
           /\ i # 1 => log[i - 1].at < row.at
           /\ new[i] = row
        \/ i # 1 /\ log[i - 1].at > row.at /\ new[i] = log[i - 1]
  <2> SUFFICES ASSUME NEW i \in 1..(n + 1)
               PROVE  \/ i <= n /\ log[i].at < row.at /\ new[i] = log[i]
                      \/ /\ i <= n => log[i].at > row.at
                         /\ i # 1 => log[i - 1].at < row.at
                         /\ new[i] = row
                      \/ i # 1 /\ log[i - 1].at > row.at /\ new[i] = log[i - 1]
    OBVIOUS
  <2>1. /\ i <= n => i \in 1..n
        /\ i # 1 => i - 1 \in 1..n
    BY <1>1
  <2>2. new[i] = IF i <= n /\ log[i].at < row.at THEN log[i]
                 ELSE IF i = 1 \/ log[i - 1].at < row.at THEN row
                 ELSE log[i - 1]
    BY <1>1 DEF InsertByTime
  <2>3. /\ i <= n => log[i].at < row.at \/ log[i].at > row.at
        /\ i # 1 => log[i - 1].at < row.at \/ log[i - 1].at > row.at
    BY <1>2, <1>3, <2>1
  <2> HIDE DEF new, n
  <2> QED  BY <2>1, <2>2, <2>3
<1> HIDE DEF new
<1>5. ASSUME NEW i \in 1..(n + 1)
      PROVE  new[i] = row \/ \E j \in 1..n : new[i] = log[j]
  BY <1>1, <1>4
<1>6. ASSUME NEW i \in 1..(n + 1), NEW j \in 1..(n + 1), i < j
      PROVE  new[i].at < new[j].at
  <2>1. i \in 1..n /\ j - 1 \in 1..n /\ i <= j - 1
    BY <1>1, <1>6
  <2>2. log[i].at \in Nat /\ log[j - 1].at \in Nat
        /\ (i < j - 1 => log[i].at < log[j - 1].at)
    BY <1>2, <2>1 DEF Sorted
  <2>3. /\ j <= n => log[j].at \in Nat /\ log[i].at < log[j].at
                     /\ log[j - 1].at < log[j].at
        /\ i # 1 => log[i - 1].at \in Nat /\ log[i - 1].at < log[i].at
    <3>1. j <= n => j \in 1..n
      BY <1>1
    <3>2. i # 1 => i - 1 \in 1..n
      BY <1>1
    <3> QED  BY <1>1, <1>2, <1>6, <2>1, <3>1, <3>2 DEF Sorted
  <2>4. CASE i <= n /\ log[i].at < row.at /\ new[i] = log[i]
    BY <1>3, <1>4, <2>2, <2>3, <2>4
  <2>5. CASE /\ i <= n => log[i].at > row.at
             /\ i # 1 => log[i - 1].at < row.at
             /\ new[i] = row
    <3>1. log[i].at > row.at
      BY <2>1, <2>5
    <3> QED  BY <1>3, <1>4, <1>6, <2>1, <2>2, <2>3, <2>5, <3>1
  <2>6. CASE i # 1 /\ log[i - 1].at > row.at /\ new[i] = log[i - 1]
    <3>1. /\ log[i - 1].at \in Nat /\ log[i - 1].at < log[i].at
          /\ log[i].at <= log[j - 1].at
      BY <2>1, <2>2, <2>3, <2>6
    <3>2. log[j - 1].at > row.at
      BY <1>3, <2>2, <2>6, <3>1
    <3>3. ~(log[j - 1].at < row.at) /\ (j <= n => ~(log[j].at < row.at))
      BY <1>3, <2>2, <2>3, <3>2
    <3>4. j # 1 /\ j \in 1..(n + 1)
      BY <1>1, <1>6
    <3>5. new[j] = log[j - 1]
      BY <1>4, <3>3, <3>4
    <3> QED  BY <2>2, <2>6, <3>1, <3>5
  <2> QED  BY <1>4, <2>4, <2>5, <2>6
<1> QED  BY <1>1, <1>5, <1>6 DEF Sorted, new

-----------------------------------------------------------------------------
(* Each of the four ways keeps the invariant.                              *)

StampStep(w) ==
  KeepsStamp(w) \/ DrawsStamp(w) \/ PaysStamp(w) \/ InsertsStamp(w)

LEMMA StampTyped ==
  ASSUME TypeOK
  PROVE  /\ clock \in Nat
         /\ \A w \in Workers : req[w].at \in Nat /\ req[w].market \in Markets
         /\ \A m \in Markets : \A i \in 1..Len(bets[m]) :
              bets[m][i] \in StampedRow /\ bets[m][i].at \in Nat
<1>1. \A w \in Workers : req[w].at \in Nat /\ req[w].market \in Markets
  BY DEF TypeOK, Request
<1>2. ASSUME NEW m \in Markets, NEW i \in 1..Len(bets[m])
      PROVE  bets[m][i] \in StampedRow /\ bets[m][i].at \in Nat
  <2>1. bets[m][i] \in StampedRow
    BY <1>2, ElementOfSeq DEF TypeOK
  <2> QED  BY <2>1 DEF StampedRow
<1> QED  BY <1>1, <1>2 DEF TypeOK

LEMMA KeepsStampSound ==
  ASSUME StampInv, NEW w \in Workers, KeepsStamp(w)
  PROVE  StampInv'
<1>1. ASSUME NEW x \in Workers, req'[x].pc \in Stamped
      PROVE  /\ req[x].pc \in Stamped /\ req'[x].at = req[x].at
             /\ req'[x].pc \in Inserting => req[x].pc \in Inserting
  <2>1. CASE x = w
    BY <1>1, <2>1 DEF KeepsStamp, Stamped, Paying, Inserting
  <2>2. CASE x # w
    BY <1>1, <2>2 DEF KeepsStamp, Alone
  <2> QED  BY <2>1, <2>2
<1>2. ASSUME NEW x \in Workers  PROVE StampSound(x)'
  <2>1. StampSound(x)
    BY DEF StampInv
  <2> QED  BY <1>1, <2>1 DEF StampSound, KeepsStamp
<1>3. ASSUME NEW m \in Markets  PROVE LogSound(m)'
  BY DEF StampInv, LogSound, KeepsStamp
<1> QED  BY <1>2, <1>3 DEF StampInv

LEMMA DrawsStampSound ==
  ASSUME TypeOK, StampInv, NEW w \in Workers, DrawsStamp(w)
  PROVE  StampInv'
<1>1. /\ clock \in Nat /\ clock' = clock + 1 /\ UNCHANGED <<bets, paid>>
      /\ req'[w].at = clock + 1 /\ req'[w].pc \in Paying
      /\ \A x \in Workers \ {w} : req'[x] = req[x]
      /\ \A x \in Workers : req[x].at \in Nat
      /\ \A m \in Markets : \A i \in 1..Len(bets[m]) : bets[m][i].at \in Nat
  BY StampTyped DEF DrawsStamp, Alone
<1>2. \A x \in Workers \ {w} : req'[x].pc \in Stamped =>
        StampSound(x) /\ req'[x].at <= clock
  BY <1>1 DEF StampInv, StampSound
<1>3. \A m \in Markets : \A i \in 1..Len(bets[m]) : bets[m][i].at <= clock
  BY DEF StampInv, LogSound
<1>4. ASSUME NEW x \in Workers  PROVE StampSound(x)'
  <2>1. CASE x = w
    <3>1. ASSUME NEW y \in Workers, req'[y].pc \in Stamped,
                 req'[y].at = clock + 1
          PROVE  y = w
      BY <1>1, <1>2, <3>1
    <3>2. \A m \in Markets : \A i \in 1..Len(bets[m]) :
            bets[m][i].at # clock + 1
      BY <1>1, <1>3
    <3>3. req'[w].pc \notin Inserting
      BY <1>1 DEF Paying, Inserting
    <3> QED  BY <1>1, <2>1, <3>1, <3>2, <3>3 DEF StampSound
  <2>2. CASE x # w
    <3>1. StampSound(x) /\ req'[x] = req[x]
      BY <1>1, <2>2 DEF StampInv
    <3>2. ASSUME NEW y \in Workers, req'[x].pc \in Stamped,
                 req'[y].pc \in Stamped, req'[y].at = req'[x].at
          PROVE  y = x
      <4>1. y # w
        BY <1>1, <1>2, <2>2, <3>2
      <4> QED  BY <1>1, <3>1, <3>2, <4>1 DEF StampSound
    <3> QED  BY <1>1, <1>2, <2>2, <3>1, <3>2 DEF StampSound
  <2> QED  BY <2>1, <2>2
<1>5. ASSUME NEW m \in Markets  PROVE LogSound(m)'
  <2>1. LogSound(m)
    BY DEF StampInv
  <2> QED  BY <1>1, <2>1 DEF LogSound
<1> QED  BY <1>4, <1>5 DEF StampInv

LEMMA PaysStampSound ==
  ASSUME StampInv, NEW w \in Workers, PaysStamp(w)
  PROVE  StampInv'
<1>1. /\ UNCHANGED <<bets, clock>> /\ paid' = paid \cup {req[w].at}
      /\ \A x \in Workers \ {w} : req'[x] = req[x]
      /\ req[w].pc \in Stamped /\ req'[w].at = req[w].at
  BY DEF PaysStamp, Alone, Stamped
<1>2. ASSUME NEW x \in Workers, req'[x].pc \in Stamped
      PROVE  /\ req[x].pc \in Stamped /\ req'[x].at = req[x].at
             /\ req'[x].pc \in Inserting => req'[x].at \in paid'
  <2>1. CASE x = w
    BY <1>1, <2>1
  <2>2. CASE x # w
    BY <1>1, <1>2, <2>2 DEF StampInv, StampSound
  <2> QED  BY <2>1, <2>2
<1>3. ASSUME NEW x \in Workers  PROVE StampSound(x)'
  <2>1. StampSound(x)
    BY DEF StampInv
  <2> QED  BY <1>1, <1>2, <2>1 DEF StampSound
<1>4. ASSUME NEW m \in Markets  PROVE LogSound(m)'
  BY <1>1 DEF StampInv, LogSound
<1> QED  BY <1>3, <1>4 DEF StampInv

LEMMA InsertsStampSound ==
  ASSUME TypeOK, TypeOK', StampInv, NEW w \in Workers, InsertsStamp(w)
  PROVE  StampInv'
<1> DEFINE k == req[w].market
           s == req[w].at
<1>1. /\ UNCHANGED <<clock, paid>> /\ k \in Markets
      /\ \A x \in Workers \ {w} : req'[x] = req[x]
      /\ req[w].pc \in Stamped /\ req'[w].pc \notin Stamped
      /\ s <= clock /\ s \in paid
  BY StampTyped
  DEF InsertsStamp, Alone, Stamped, Paying, Inserting, StampInv, StampSound
<1>2. PICK row \in StampedRow :
        row.at = s /\ bets' = [bets EXCEPT ![k] = InsertByTime(@, row)]
  BY DEF InsertsStamp
<1>3. /\ bets'[k] = InsertByTime(bets[k], row)
      /\ \A m \in Markets \ {k} : bets'[m] = bets[m]
  BY <1>1, <1>2 DEF TypeOK
<1>4. \A m \in Markets : \A i \in 1..Len(bets[m]) : bets[m][i].at # s
  BY <1>1 DEF StampInv, StampSound
<1>5. /\ Sorted(bets'[k])
      /\ \A i \in 1..Len(bets'[k]) :
           \/ bets'[k][i] = row
           \/ \E j \in 1..Len(bets[k]) : bets'[k][i] = bets[k][j]
  <2>1. bets[k] \in Seq(StampedRow) /\ Sorted(bets[k])
    BY <1>1 DEF TypeOK, StampInv, LogSound
  <2> HIDE DEF k, s
  <2> QED  BY <1>1, <1>2, <1>3, <1>4, <2>1, InsertSorted
<1> HIDE DEF k, s
(* Every row of the new logs is the inserted one or an old one.            *)
<1>6. ASSUME NEW m \in Markets, NEW i \in 1..Len(bets'[m])
      PROVE  \/ m = k /\ bets'[m][i].at = s
             \/ \E j \in 1..Len(bets[m]) : bets'[m][i].at = bets[m][j].at
  <2>1. CASE m = k
    BY <1>2, <1>5, <2>1
  <2>2. CASE m # k
    BY <1>3, <2>2
  <2> QED  BY <2>1, <2>2
<1>7. ASSUME NEW x \in Workers  PROVE StampSound(x)'
  <2> SUFFICES ASSUME req'[x].pc \in Stamped
               PROVE  StampSound(x)'
    BY DEF StampSound
  <2>1. x # w /\ req'[x] = req[x] /\ StampSound(x)
    BY <1>1 DEF StampInv
  <2>2. req[x].at # s
    BY <1>1, <2>1 DEF StampSound, k, s
  <2>3. \A m \in Markets : \A i \in 1..Len(bets'[m]) :
          bets'[m][i].at # req[x].at
    BY <1>6, <2>1, <2>2 DEF StampSound
  <2>4. \A y \in Workers : req'[y].pc \in Stamped => req'[y] = req[y]
    BY <1>1
  <2> QED  BY <1>1, <2>1, <2>3, <2>4 DEF StampSound
<1>8. ASSUME NEW m \in Markets  PROVE LogSound(m)'
  <2>1. Sorted(bets'[m])
    <3>1. CASE m = k  BY <1>5, <3>1
    <3>2. CASE m # k  BY <1>3, <3>2 DEF StampInv, LogSound
    <3> QED  BY <3>1, <3>2
  <2>2. ASSUME NEW i \in 1..Len(bets'[m])
        PROVE  bets'[m][i].at \in paid' /\ bets'[m][i].at <= clock'
    <3>1. LogSound(m)
      BY DEF StampInv
    <3> QED  BY <1>1, <1>6, <3>1 DEF LogSound
  <2>3. ASSUME NEW i \in 1..Len(bets'[m]), NEW n \in Markets \ {m},
               NEW j \in 1..Len(bets'[n])
        PROVE  bets'[n][j].at # bets'[m][i].at
    <3>1. CASE m = k /\ bets'[m][i].at = s
      <4>1. \E h \in 1..Len(bets[n]) : bets'[n][j].at = bets[n][h].at
        BY <1>6, <3>1
      <4> QED  BY <1>4, <3>1, <4>1
    <3>2. CASE n = k /\ bets'[n][j].at = s
      <4>1. \E h \in 1..Len(bets[m]) : bets'[m][i].at = bets[m][h].at
        BY <1>6, <3>2
      <4> QED  BY <1>4, <3>2, <4>1
    <3>3. CASE /\ \E g \in 1..Len(bets[m]) : bets'[m][i].at = bets[m][g].at
               /\ \E h \in 1..Len(bets[n]) : bets'[n][j].at = bets[n][h].at
      BY <3>3 DEF StampInv, LogSound
    <3> QED  BY <1>6, <3>1, <3>2, <3>3
  <2> QED  BY <2>1, <2>2, <2>3 DEF LogSound
<1> QED  BY <1>7, <1>8 DEF StampInv

-----------------------------------------------------------------------------
(* Every step takes one of the four ways.                                  *)

LEMMA NowIs ==
  ASSUME TypeOK, NEW w \in Workers, NEW r, Now(w, r)
  PROVE  req'[w] = r /\ Alone(w)
  BY DEF TypeOK, Now, Alone

(* Labels on which a request holds no stamp that matters.                  *)
LEMMA Unstamped ==
  /\ \A pc \in {"idle", "buyStatus", "buyFees", "sellStatus", "sellMarket",
                "sellBets", "createDebit", "createInsert", "resolveSave",
                "payMarket", "payBets", "refundBets", "payRead", "paySave",
                "editSave", "imageWrite", "imageSave", "imageDelete"} :
       pc \notin Stamped
  /\ Idle.pc \notin Stamped
  BY DEF Stamped, Paying, Inserting, Idle

Arriving ==
  {"buyStatus", "sellStatus", "createDebit", "resolveSave", "editSave",
   "imageWrite"}

LEMMA NewFresh ==
  ASSUME TypeOK, NEW label \in Labels, NEW u \in Users, NEW m \in Markets
  PROVE  /\ New(label, u, m) \in Request
         /\ New(label, u, m).pc = label
         /\ New(label, u, m).id = served + 1
         /\ New(label, u, m).market = m
         /\ New(label, u, m).mrow.image = 0
<1>1. New(label, u, m).mrow = NoMarket
  BY IdleTyped DEF New, Idle
<1> QED  BY <1>1, NewTyped DEF NoMarket

(* The market row that a request brings along: its market's, none, or, to  *)
(* create a market, the one of its body.                                   *)
Brings(r) ==
  \/ /\ r.pc # "createDebit" /\ named' = named
     /\ r.mrow.image = 0 \/ r.mrow = markets[r.market]
  \/ /\ r.pc = "createDebit" /\ r.mrow.image <= served + 1
     /\ named' = named \cup {r.mrow.image}

(* What a request holds when it arrives.                                   *)
LEMMA ArrivesAs ==
  ASSUME TypeOK, NEW w \in Workers, Arrive(w)
  PROVE  \E r \in Request, handler \in Handlers :
           /\ Begin(w, handler, r)
           /\ r.pc \in Arriving /\ r.id = served + 1
           /\ r.pc = "resolveSave" => handler = "resolve"
           /\ Brings(r)
<1> DEFINE Goal(r, handler) ==
             /\ Begin(w, handler, r)
             /\ r.pc \in Arriving /\ r.id = served + 1
             /\ r.pc = "resolveSave" => handler = "resolve"
             /\ Brings(r)
<1>1. /\ \A handler, r : Begin(w, handler, r) => handler \in Handlers
      /\ \A handler, r : Start(w, handler, r)
                            => Begin(w, handler, r) /\ named' = named
  BY DEF Begin, Start
<1>2. /\ \A u \in Users : users[u] \in UserRow
      /\ \A m \in Markets : markets[m] \in MarketRow
      /\ Amounts \subseteq Int
  BY ExchangeAssumption DEF TypeOK
<1>3. ASSUME NEW u \in Users, NEW m \in Markets, NEW o \in Outcomes,
             NEW a \in Amounts, BuyStart(w, u, m, o, a)
      PROVE  \E r \in Request, handler \in Handlers : Goal(r, handler)
  <2> DEFINE new == New("buyStatus", u, m)
             r   == [new EXCEPT !.choice = o, !.amount = a, !.row = users[u]]
  <2>1. /\ new \in Request /\ new.pc = "buyStatus" /\ new.id = served + 1
        /\ new.mrow.image = 0
    BY NewFresh DEF Labels
  <2>2. Start(w, "buy", r)
    BY <1>3 DEF BuyStart
  <2> HIDE DEF new
  <2>3. r \in Request /\ r.pc = "buyStatus" /\ r.id = served + 1
        /\ r.mrow.image = 0
    BY <1>2, <2>1 DEF Request
  <2> HIDE DEF r
  <2> QED  BY <1>1, <2>2, <2>3 DEF Arriving, Brings
<1>4. ASSUME NEW u \in Users, NEW m \in Markets, NEW o \in Outcomes,
             NEW a \in Amounts, SellStart(w, u, m, o, a)
      PROVE  \E r \in Request, handler \in Handlers : Goal(r, handler)
  <2> DEFINE new == New("sellStatus", u, m)
             r   == [new EXCEPT !.choice = o, !.amount = a]
  <2>1. /\ new \in Request /\ new.pc = "sellStatus" /\ new.id = served + 1
        /\ new.mrow.image = 0
    BY NewFresh DEF Labels
  <2>2. Start(w, "sell", r)
    BY <1>4 DEF SellStart
  <2> HIDE DEF new
  <2>3. r \in Request /\ r.pc = "sellStatus" /\ r.id = served + 1
        /\ r.mrow.image = 0
    BY <1>2, <2>1 DEF Request
  <2> HIDE DEF r
  <2> QED  BY <1>1, <2>2, <2>3 DEF Arriving, Brings
<1>5. ASSUME NEW u \in Users, NEW m \in Markets, NEW row \in BodyRow,
             CreateStart(w, u, m, row)
      PROVE  \E r \in Request, handler \in Handlers : Goal(r, handler)
  <2> DEFINE new  == New("createDebit", u, m)
             r    == [new EXCEPT !.row = users[u], !.mrow = row]
  <2>1. new \in Request /\ new.pc = "createDebit" /\ new.id = served + 1
    BY NewFresh DEF Labels
  <2>2. /\ Begin(w, "create", r) /\ row.image <= served + 1
        /\ named' = named \cup {row.image}
    BY <1>5 DEF CreateStart
  <2>3. row \in MarketRow
    BY BodyTyped
  <2> HIDE DEF new
  <2>4. r \in Request /\ r.pc = "createDebit" /\ r.id = served + 1
        /\ r.mrow = row
    BY <1>2, <2>1, <2>3 DEF Request
  <2> HIDE DEF r
  <2> QED  BY <1>1, <2>2, <2>4 DEF Arriving, Brings
<1>6. ASSUME NEW u \in Users, NEW m \in Markets, NEW o \in Resolutions,
             ResolveStart(w, u, m, o)
      PROVE  \E r \in Request, handler \in Handlers : Goal(r, handler)
  <2> DEFINE new == New("resolveSave", u, m)
             r   == [new EXCEPT !.choice = o, !.mrow = markets[m]]
  <2>1. /\ new \in Request /\ new.pc = "resolveSave" /\ new.id = served + 1
        /\ new.market = m
    BY NewFresh DEF Labels
  <2>2. Start(w, "resolve", r)
    BY <1>6 DEF ResolveStart
  <2> HIDE DEF new
  <2>3. /\ r \in Request /\ r.pc = "resolveSave" /\ r.id = served + 1
        /\ r.mrow = markets[r.market]
    BY <1>2, <2>1 DEF Request
  <2> HIDE DEF r
  <2> QED  BY <1>1, <2>2, <2>3 DEF Arriving, Brings
<1>7. ASSUME NEW u \in Users, EditStart(w, u)
      PROVE  \E r \in Request, handler \in Handlers : Goal(r, handler)
  <2> DEFINE new == New("editSave", u, SomeMarket)
             r   == [new EXCEPT !.row = users[u]]
  <2>1. /\ new \in Request /\ new.pc = "editSave" /\ new.id = served + 1
        /\ new.mrow.image = 0
    BY NewFresh, SomeTyped DEF Labels
  <2>2. Start(w, "edit", r)
    BY <1>7 DEF EditStart
  <2> HIDE DEF new
  <2>3. r \in Request /\ r.pc = "editSave" /\ r.id = served + 1
        /\ r.mrow.image = 0
    BY <1>2, <2>1 DEF Request
  <2> HIDE DEF r
  <2> QED  BY <1>1, <2>2, <2>3 DEF Arriving, Brings
<1>8. ASSUME NEW u \in Users, NEW m \in Markets, ImageStart(w, u, m)
      PROVE  \E r \in Request, handler \in Handlers : Goal(r, handler)
  <2> DEFINE new == New("imageWrite", u, m)
             r   == [new EXCEPT !.mrow = markets[m]]
  <2>1. /\ new \in Request /\ new.pc = "imageWrite" /\ new.id = served + 1
        /\ new.market = m
    BY NewFresh DEF Labels
  <2>2. Start(w, "image", r)
    BY <1>8 DEF ImageStart
  <2> HIDE DEF new
  <2>3. /\ r \in Request /\ r.pc = "imageWrite" /\ r.id = served + 1
        /\ r.mrow = markets[r.market]
    BY <1>2, <2>1 DEF Request
  <2> HIDE DEF r
  <2> QED  BY <1>1, <2>2, <2>3 DEF Arriving, Brings
<1> HIDE DEF Goal
<1>9. \E r \in Request, handler \in Handlers : Goal(r, handler)
  BY <1>3, <1>4, <1>5, <1>6, <1>7, <1>8 DEF Arrive
<1> QED  BY <1>9 DEF Goal

(* A request that arrives has no stamp yet.                                *)
LEMMA ArriveKeeps ==
  ASSUME TypeOK, NEW w \in Workers, Arrive(w)
  PROVE  KeepsStamp(w)
<1>1. PICK r \in Request, handler \in Handlers :
        Begin(w, handler, r) /\ r.pc \in Arriving
  BY ArrivesAs
<1>2. r.pc \notin Stamped
  BY <1>1 DEF Arriving, Stamped, Paying, Inserting
<1> QED  BY <1>1, <1>2, NowIs DEF Begin, KeepsStamp, db

(* Inserting a row under the stamp of the request.                         *)
LEMMA CreateInserts ==
  ASSUME TypeOK, NEW w \in Workers, NEW amount \in BetAmounts,
         req[w].pc \in Inserting, req[w].choice \in Outcomes,
         CreateBet(w, amount), req'[w] = Idle, Alone(w),
         UNCHANGED <<clock, paid>>
  PROVE  StampStep(w)
<1> DEFINE r   == req[w]
           row == [user |-> r.user, outcome |-> r.choice,
                   amount |-> amount, at |-> r.at]
<1>1. row \in StampedRow /\ row.at = r.at
  BY DEF TypeOK, Request, StampedRow
<1>2. bets' = [bets EXCEPT ![r.market] = InsertByTime(@, row)]
  BY DEF CreateBet
<1>3. req'[w].pc = "idle"
  BY DEF Idle
<1> HIDE DEF row
<1> QED  BY <1>1, <1>2, <1>3 DEF StampStep, InsertsStamp

(* The steps of a purchase.                                                *)
LEMMA BuyStamps ==
  ASSUME IInv, NEW w \in Workers,
         \/ BuyCheckStatus(w) \/ BuyCheckBalance(w) \/ BuyValidate(w)
         \/ BuyDebit(w) \/ BuyInsert(w)
  PROVE  StampStep(w)
<1> DEFINE r == req[w]
<1>1. TypeOK /\ r \in Request
  BY DEF IInv, TypeOK
<1>2. CASE BuyCheckStatus(w)
  <2>1. /\ req'[w].pc \in {"buyFees", "idle"}
        /\ Alone(w) /\ UNCHANGED <<bets, clock, paid>>
    BY <1>1, <1>2, NowIs
    DEF BuyCheckStatus, CheckMarketStatus, Goto, Finish, Idle, Request,
        db, env, histories
  <2> QED  BY <2>1, Unstamped DEF StampStep, KeepsStamp
<1>3. CASE BuyCheckBalance(w)
  <2>1. PICK log \in GetBetsForMarket(r.market) :
          LET cost == r.amount + GetBetFees(log, r.user, r.amount)
          IN  IF Affordable(r.row, cost)
              THEN /\ clock' = clock + 1
                   /\ Now(w, [r EXCEPT !.pc = "buyValidate",
                                       !.due = cost, !.at = clock + 1])
              ELSE Finish(w) /\ UNCHANGED clock
    BY <1>3 DEF BuyCheckBalance
  <2>2. UNCHANGED <<bets, paid>>
    BY <1>3 DEF BuyCheckBalance, db, histories
  <2> DEFINE cost == r.amount + GetBetFees(log, r.user, r.amount)
  <2>3. CASE Affordable(r.row, cost)
    <3> DEFINE next == [r EXCEPT !.pc = "buyValidate", !.due = cost,
                                 !.at = clock + 1]
    <3>1. clock' = clock + 1 /\ Now(w, next)
      BY <2>1, <2>3
    <3>2. next.pc = "buyValidate" /\ next.at = clock + 1
      BY <1>1 DEF Request
    <3> HIDE DEF next
    <3>3. req'[w] = next /\ Alone(w)
      BY <1>1, <3>1, NowIs
    <3> QED  BY <2>2, <3>1, <3>2, <3>3 DEF StampStep, DrawsStamp, Paying
  <2>4. CASE ~Affordable(r.row, cost)
    <3>1. /\ clock' = clock /\ Alone(w) /\ req'[w] = Idle
      BY <1>1, <2>1, <2>4, NowIs DEF Finish
    <3> QED  BY <2>2, <3>1, Unstamped DEF StampStep, KeepsStamp
  <2> QED  BY <2>3, <2>4
<1>4. CASE BuyValidate(w)
  <2>1. /\ req'[w] = Idle \/ req'[w] = [r EXCEPT !.pc = "buyDebit"]
        /\ r.pc = "buyValidate"
        /\ Alone(w) /\ UNCHANGED <<bets, clock, paid>>
    BY <1>1, <1>4, NowIs
    DEF BuyValidate, At, Goto, Finish, db, env, histories
  <2> QED
    BY <1>1, <2>1, Unstamped DEF StampStep, KeepsStamp, Request, Paying
<1>5. CASE BuyDebit(w)
  <2>1. /\ req'[w] = [r EXCEPT !.pc = "buyInsert"] /\ r.pc = "buyDebit"
        /\ Alone(w) /\ UNCHANGED <<bets, clock>>
        /\ paid' = paid \cup {r.at}
    BY <1>1, <1>5, NowIs DEF BuyDebit, At, Goto, env
  <2> QED
    BY <1>1, <2>1 DEF StampStep, PaysStamp, Request, Paying, Inserting
<1>6. CASE BuyInsert(w)
  <2>1. r.choice \in Outcomes /\ r.amount \in BetAmounts
    BY <1>6
    DEF IInv, LocalSound, TradeSound, BuyInsert, At, BuyStages, BetAmounts
  <2>2. /\ req'[w] = Idle /\ r.pc = "buyInsert"
        /\ Alone(w) /\ UNCHANGED <<clock, paid>>
        /\ CreateBet(w, r.amount)
    BY <1>1, <1>6, NowIs DEF BuyInsert, At, Finish, env, histories
  <2> QED  BY <1>1, <2>1, <2>2, CreateInserts DEF Inserting
<1> QED  BY <1>2, <1>3, <1>4, <1>5, <1>6

(* The steps of a sale.                                                    *)
LEMMA SellStamps ==
  ASSUME IInv, NEW w \in Workers,
         \/ SellCheckStatus(w) \/ SellReadMarket(w) \/ SellQuote(w)
         \/ SellValidate(w) \/ SellReadUser(w) \/ SellCredit(w)
         \/ SellInsert(w)
  PROVE  StampStep(w)
<1> DEFINE r == req[w]
<1>1. TypeOK /\ r \in Request
  BY DEF IInv, TypeOK
<1>2. CASE SellCheckStatus(w)
  <2>1. /\ req'[w].pc \in {"sellMarket", "idle"}
        /\ Alone(w) /\ UNCHANGED <<bets, clock, paid>>
    BY <1>1, <1>2, NowIs
    DEF SellCheckStatus, CheckMarketStatus, Goto, Finish, Idle, Request,
        db, env, histories
  <2> QED  BY <2>1, Unstamped DEF StampStep, KeepsStamp
<1>3. CASE SellReadMarket(w)
  <2> DEFINE next == [r EXCEPT !.pc = "sellBets",
                               !.mrow = markets[r.market]]
  <2>1. Now(w, next) /\ UNCHANGED <<bets, clock, paid>>
    BY <1>3 DEF SellReadMarket, db, env, histories
  <2>2. next.pc = "sellBets"
    BY <1>1 DEF Request
  <2> HIDE DEF next
  <2> QED  BY <1>1, <2>1, <2>2, NowIs, Unstamped DEF StampStep, KeepsStamp
<1>4. CASE SellQuote(w)
  <2>1. PICK shares, due :
          \/ /\ clock' = clock + 1
             /\ Now(w, [r EXCEPT !.pc = "sellValidate", !.shares = shares,
                                 !.due = due, !.at = clock + 1])
          \/ Finish(w) /\ UNCHANGED clock
    BY <1>4 DEF SellQuote
  <2>2. UNCHANGED <<bets, paid>>
    BY <1>4 DEF SellQuote, db, histories
  <2>3. CASE Finish(w) /\ UNCHANGED clock
    <3>1. Alone(w) /\ req'[w] = Idle
      BY <1>1, <2>3, NowIs DEF Finish
    <3> QED  BY <2>2, <2>3, <3>1, Unstamped DEF StampStep, KeepsStamp
  <2>4. CASE /\ clock' = clock + 1
             /\ Now(w, [r EXCEPT !.pc = "sellValidate", !.shares = shares,
                                 !.due = due, !.at = clock + 1])
    <3> DEFINE next == [r EXCEPT !.pc = "sellValidate", !.shares = shares,
                                 !.due = due, !.at = clock + 1]
    <3>1. next.pc = "sellValidate" /\ next.at = clock + 1
      BY <1>1 DEF Request
    <3> HIDE DEF next
    <3>2. req'[w] = next /\ Alone(w)
      BY <1>1, <2>4, NowIs DEF next
    <3> QED  BY <2>2, <2>4, <3>1, <3>2 DEF StampStep, DrawsStamp, Paying
  <2> QED  BY <2>1, <2>3, <2>4
<1>5. CASE SellValidate(w)
  <2>1. /\ req'[w] = Idle \/ req'[w] = [r EXCEPT !.pc = "sellRead"]
        /\ r.pc = "sellValidate"
        /\ Alone(w) /\ UNCHANGED <<bets, clock, paid>>
    BY <1>1, <1>5, NowIs
    DEF SellValidate, At, Goto, Finish, db, env, histories
  <2> QED
    BY <1>1, <2>1, Unstamped DEF StampStep, KeepsStamp, Request, Paying
<1>6. CASE SellReadUser(w)
  <2>1. /\ req'[w] = [r EXCEPT !.pc = "sellCredit", !.row = users[r.user]]
        /\ r.pc = "sellRead"
        /\ Alone(w) /\ UNCHANGED <<bets, clock, paid>>
    BY <1>1, <1>6, NowIs DEF SellReadUser, At, db, env, histories
  <2> QED  BY <1>1, <2>1 DEF StampStep, KeepsStamp, Request, Paying
<1>7. CASE SellCredit(w)
  <2>1. /\ req'[w] = [r EXCEPT !.pc = "sellInsert"] /\ r.pc = "sellCredit"
        /\ Alone(w) /\ UNCHANGED <<bets, clock>>
        /\ paid' = paid \cup {r.at}
    BY <1>1, <1>7, NowIs DEF SellCredit, At, Goto, env
  <2> QED
    BY <1>1, <2>1 DEF StampStep, PaysStamp, Request, Paying, Inserting
<1>8. CASE SellInsert(w)
  <2>1. r.choice \in Outcomes /\ r.shares \in 1..MaxShares
    BY <1>8
    DEF IInv, LocalSound, TradeSound, PriceSound, SellInsert, At, SellStages
  <2>2. -r.shares \in BetAmounts
    BY <2>1 DEF BetAmounts
  <2>3. /\ req'[w] = Idle /\ r.pc = "sellInsert"
        /\ Alone(w) /\ UNCHANGED <<clock, paid>>
        /\ CreateBet(w, -r.shares)
    BY <1>1, <1>8, NowIs DEF SellInsert, At, Finish, env, histories
  <2> QED  BY <1>1, <2>1, <2>2, <2>3, CreateInserts DEF Inserting
<1> QED  BY <1>2, <1>3, <1>4, <1>5, <1>6, <1>7, <1>8

(* A payment loop goes on or ends.                                         *)
LEMMA PayNextIs ==
  ASSUME TypeOK, NEW w \in Workers, NEW owed, PayNext(w, owed)
  PROVE  /\ Alone(w)
         /\ \/ req'[w] = Idle
            \/ /\ req'[w].pc = "payRead"
               /\ req'[w].id = req[w].id /\ req'[w].mrow = req[w].mrow
               /\ req'[w].market = req[w].market
<1> DEFINE next == [req[w] EXCEPT !.pc = "payRead", !.owed = owed,
                                  !.paying = NoPayment]
<1>1. /\ next.pc = "payRead"
      /\ next.id = req[w].id /\ next.mrow = req[w].mrow
      /\ next.market = req[w].market
  BY DEF TypeOK, Request
<1>2. Now(w, Idle) \/ Now(w, next)
  BY DEF PayNext, Finish
<1> HIDE DEF next
<1> QED  BY <1>1, <1>2, NowIs

(* The steps of the other handlers draw no stamp and insert no row.        *)
LEMMA OtherStamps ==
  ASSUME IInv, NEW w \in Workers,
         \/ CreateDebit(w) \/ CreateInsert(w)
         \/ ResolveSave(w) \/ PayReadMarket(w) \/ PayReadBets(w)
         \/ RefundReadBets(w) \/ PayReadUser(w) \/ PaySave(w)
         \/ EditSave(w)
         \/ ImageWrite(w) \/ ImageSave(w) \/ ImageSaveFails(w)
         \/ ImageDelete(w)
  PROVE  StampStep(w)
<1>1. TypeOK /\ req[w] \in Request
  BY DEF IInv, TypeOK
<1>2. UNCHANGED <<bets, clock, paid>>
  BY DEF CreateDebit, CreateInsert, ResolveSave, PayReadMarket, PayReadBets,
         RefundReadBets, PayReadUser, PaySave, EditSave, ImageWrite,
         ImageSave, ImageSaveFails, ImageDelete, db, env, histories
<1>3. CASE CreateDebit(w) \/ CreateInsert(w) \/ ResolveSave(w)
  <2>1. /\ Alone(w)
        /\ req'[w].pc \in {"idle", "createInsert", "refundBets", "payMarket"}
    BY <1>1, <1>3, NowIs
    DEF CreateDebit, CreateInsert, ResolveSave, Goto, Finish, Idle, Request
  <2> QED  BY <1>2, <2>1, Unstamped DEF StampStep, KeepsStamp
<1>4. CASE PayReadMarket(w)
  <2> DEFINE next == [req[w] EXCEPT !.pc = "payBets",
                                    !.mrow = markets[req[w].market]]
  <2>1. Now(w, next)
    BY <1>4 DEF PayReadMarket
  <2>2. next.pc = "payBets"
    BY <1>1 DEF Request
  <2> HIDE DEF next
  <2> QED  BY <1>1, <1>2, <2>1, <2>2, NowIs, Unstamped
           DEF StampStep, KeepsStamp
<1>5. CASE PayReadUser(w)
  <2>1. PICK p : Now(w, [req[w] EXCEPT !.pc = "paySave", !.paying = p,
                                       !.row = users[p.user]])
    BY <1>5 DEF PayReadUser
  <2> DEFINE next == [req[w] EXCEPT !.pc = "paySave", !.paying = p,
                                    !.row = users[p.user]]
  <2>2. next.pc = "paySave"
    BY <1>1 DEF Request
  <2> HIDE DEF next
  <2>3. Now(w, next)
    BY <2>1 DEF next
  <2> QED  BY <1>1, <1>2, <2>2, <2>3, NowIs, Unstamped
           DEF StampStep, KeepsStamp
<1>6. CASE PayReadBets(w) \/ RefundReadBets(w) \/ PaySave(w)
  <2>1. PICK owed : PayNext(w, owed)
    BY <1>6 DEF PayReadBets, RefundReadBets, PaySave
  <2>2. Alone(w) /\ req'[w].pc \in {"payRead", "idle"}
    BY <1>1, <2>1, PayNextIs DEF Idle
  <2> QED  BY <1>2, <2>2, Unstamped DEF StampStep, KeepsStamp
<1>7. CASE \/ EditSave(w) \/ ImageWrite(w) \/ ImageSave(w)
           \/ ImageSaveFails(w) \/ ImageDelete(w)
  <2>1. Alone(w) /\ req'[w].pc \in {"idle", "imageSave", "imageDelete"}
    BY <1>1, <1>7, NowIs
    DEF EditSave, ImageWrite, ImageSave, ImageSaveFails, ImageDelete, Goto,
        Finish, Idle, Request
  <2> QED  BY <1>2, <2>1, Unstamped DEF StampStep, KeepsStamp
<1> QED  BY <1>3, <1>4, <1>5, <1>6, <1>7

LEMMA NextStamps ==
  ASSUME IInv, StampInv, [Next]_vars
  PROVE  StampInv'
<1>1. TypeOK /\ TypeOK'
  BY NextSound DEF IInv
<1>2. ASSUME NEW w \in Workers, StampStep(w)  PROVE StampInv'
  BY <1>1, <1>2, KeepsStampSound, DrawsStampSound, PaysStampSound,
     InsertsStampSound
  DEF StampStep
<1>3. ASSUME NEW w \in Workers, Arrive(w)  PROVE StampInv'
  BY <1>1, <1>2, <1>3, ArriveKeeps DEF StampStep
<1>4. ASSUME NEW w \in Workers, Step(w)  PROVE StampInv'
  BY <1>2, <1>4, BuyStamps, SellStamps, OtherStamps DEF Step
<1>5. ASSUME NEW w \in Workers, Fail(w)  PROVE StampInv'
  <2>1. req'[w] = Idle /\ Alone(w) /\ UNCHANGED <<bets, clock, paid>>
    BY <1>1, <1>5, NowIs DEF Fail, Finish, db, env, histories
  <2> QED  BY <1>2, <2>1, Unstamped DEF StampStep, KeepsStamp
<1>6. CASE UNCHANGED <<bets, req, clock, paid>>
  BY <1>6 DEF StampInv, StampSound, LogSound
<1>7. UNCHANGED vars \/ (\E m \in Markets : TimePasses(m))
        => UNCHANGED <<bets, req, clock, paid>>
  BY DEF vars, TimePasses, db, histories
<1> QED  BY <1>3, <1>4, <1>5, <1>6, <1>7 DEF Next

LEMMA InitStamps == ASSUME Init PROVE StampInv
<1>1. \A w \in Workers : req[w].pc = "idle"
  BY DEF Init, Idle
<1>2. \A m \in Markets : Len(bets[m]) = 0
  BY EmptySeq DEF Init
<1> QED
  BY <1>1, <1>2
  DEF StampInv, StampSound, LogSound, Sorted, Stamped, Paying, Inserting

(* Stamps of one market rise, and those of two markets differ.             *)
LEMMA StampsMatch ==
  ASSUME TypeOK, StampInv
  PROVE  PaymentsMatchBets
<1>1. \A m \in Markets : DOMAIN bets[m] = 1..Len(bets[m])
  BY LenProperties DEF TypeOK
<1>2. \A m \in Markets : \A i \in 1..Len(bets[m]) : bets[m][i].at \in paid
  BY DEF StampInv, LogSound
<1>3. ASSUME NEW m \in Markets, NEW n \in Markets,
             NEW i \in 1..Len(bets[m]), NEW j \in 1..Len(bets[n]),
             bets[m][i].at = bets[n][j].at
      PROVE  m = n /\ i = j
  <2>1. m = n
    BY <1>3 DEF StampInv, LogSound
  <2>2. Sorted(bets[m]) /\ bets[m][i].at \in Nat /\ bets[m][j].at \in Nat
    BY <2>1, StampTyped DEF StampInv, LogSound
  <2>3. ~(i < j) /\ ~(j < i)
    BY <1>3, <2>1, <2>2 DEF Sorted
  <2> QED  BY <2>1, <2>3
<1> QED  BY <1>1, <1>2, <1>3 DEF PaymentsMatchBets

(* However purchases and sales of any number of users interleave, fail and *)
(* die, every bet row has the balance write of its own request before it,  *)
(* and no balance write stands behind two rows.                            *)
THEOREM RowsArePaidFor == Spec => []PaymentsMatchBets
<1>1. Init => StampInv
  BY InitStamps
<1>2. IInv /\ StampInv /\ [Next]_vars => StampInv'
  BY NextStamps
<1>3. IInv /\ StampInv => PaymentsMatchBets
  BY StampsMatch DEF IInv
<1> QED  BY <1>1, <1>2, <1>3, Invariance, PTL DEF Spec

-----------------------------------------------------------------------------
(* Images.  An upload names its file by its own request, so that no row    *)
(* has the name before the upload saves it; and no two markets ever have   *)
(* the same file, in their rows or in rows that requests have read.  All   *)
(* of this but for the names that creation bodies gave.                    *)

Uploading(w) == req[w].pc \in {"imageWrite", "imageSave"}

FileSound(w) ==
  LET r == req[w]
  IN  /\ r.pc # "idle" =>
           /\ r.id # 0
           /\ \A x \in Workers : req[x].pc # "idle" /\ req[x].id = r.id
                                   => x = w
      /\ r.mrow.image <= served
      /\ r.pc = "imageSave" => r.id \in files \cup named
      /\ r.pc \in {"createDebit", "createInsert"} => r.mrow.image \in named
      /\ Uploading(w) /\ r.id \notin named =>
           /\ \A m \in Markets : markets[m].image # r.id
           /\ \A x \in Workers : req[x].mrow.image # r.id
      /\ r.mrow.image \notin named =>
           /\ \A m \in Markets \ {r.market} : markets[m].image # r.mrow.image
           /\ \A x \in Workers : req[x].mrow.image = r.mrow.image
                                   => req[x].market = r.market
      /\ r.pc = "imageDelete" /\ r.mrow.image \notin named =>
           \A m \in Markets : markets[m].status = "open"
                               => markets[m].image # r.mrow.image

MarketFile(m) ==
  /\ markets[m].status = "open" => markets[m].image \in files \cup named
  /\ markets[m].image <= served
  /\ \A n \in Markets : markets[m].image \notin named
                        /\ markets[n].image = markets[m].image => n = m

ImageInv ==
  /\ 0 \in named
  /\ \A w \in Workers : FileSound(w)
  /\ \A m \in Markets : MarketFile(m)

LEMMA ImageTyped ==
  ASSUME TypeOK
  PROVE  /\ served \in Nat
         /\ \A w \in Workers : /\ req[w].id \in Nat
                               /\ req[w].market \in Markets
                               /\ req[w].mrow \in MarketRow
                               /\ req[w].mrow.image \in Nat
         /\ \A m \in Markets : markets[m].image \in Nat
  BY DEF TypeOK, Request, MarketRow

(* Labels at which a request neither uploads nor creates.                  *)
Plain == Labels \ {"createDebit", "createInsert", "imageWrite", "imageSave",
                   "imageDelete"}

(* A step that leaves markets and files alone: the request ends, goes on   *)
(* with the market row it has, or reads its market's.                      *)
Looks(w) ==
  /\ UNCHANGED <<markets, files, served, named>>
  /\ Alone(w)
  /\ \/ req'[w] = Idle
     \/ /\ req[w].pc # "idle"
        /\ req'[w].id = req[w].id /\ req'[w].market = req[w].market
        /\ \/ req'[w].mrow = req[w].mrow
           \/ req'[w].mrow = markets[req[w].market]
        /\ req'[w].pc \in Plain
     \/ /\ req[w].pc = "createDebit" /\ req'[w].pc = "createInsert"
        /\ req'[w].id = req[w].id /\ req'[w].market = req[w].market
        /\ req'[w].mrow = req[w].mrow

(* What FileSound says of the requests that stand still is kept when       *)
(* nothing it depends on is disturbed.                                     *)
LEMMA LooksSound ==
  ASSUME TypeOK, ImageInv, NEW w \in Workers, Looks(w)
  PROVE  ImageInv'
<1>1. /\ UNCHANGED <<markets, files, served, named>> /\ 0 \in named
      /\ \A x \in Workers \ {w} : req'[x] = req[x]
      /\ \A x \in Workers : FileSound(x)
      /\ \A m \in Markets : MarketFile(m)
  BY DEF Looks, Alone, ImageInv
(* The row a request has now is one it had, its market's, or empty.        *)
<1>2. ASSUME NEW x \in Workers
      PROVE  /\ \/ req'[x].mrow.image = 0
                \/ /\ req'[x].market = req[x].market
                   /\ req'[x].mrow.image = req[x].mrow.image
                \/ /\ req'[x].market = req[x].market
                   /\ req'[x].mrow.image = markets[req[x].market].image
             /\ req'[x].pc # "idle" =>
                  req[x].pc # "idle" /\ req'[x].id = req[x].id
             /\ req'[x].pc \notin Plain =>
                  /\ req'[x].mrow = req[x].mrow
                  /\ \/ req'[x].pc = req[x].pc
                     \/ req[x].pc = "createDebit"
                        /\ req'[x].pc = "createInsert"
  <2>1. CASE x = w
    BY <2>1 DEF Looks, Idle, NoMarket, Plain, Labels
  <2>2. CASE x # w
    BY <1>1, <2>2
  <2> QED  BY <2>1, <2>2
<1>3. \A x \in Workers : req[x].market \in Markets
  BY ImageTyped
<1>4. ASSUME NEW x \in Workers  PROVE FileSound(x)'
  <2>1. req'[x].pc # "idle" =>
          /\ req'[x].id # 0
          /\ \A y \in Workers : req'[y].pc # "idle" /\ req'[y].id = req'[x].id
                                  => y = x
    BY <1>1, <1>2 DEF FileSound
  <2>2. req'[x].mrow.image <= served'
    BY <1>1, <1>2, <1>3, ImageTyped DEF FileSound, MarketFile
  <2>3. /\ req'[x].pc = "imageSave" => req'[x].id \in files' \cup named'
        /\ req'[x].pc \in {"createDebit", "createInsert"}
             => req'[x].mrow.image \in named'
        /\ req'[x].pc = "imageDelete" /\ req'[x].mrow.image \notin named' =>
             \A m \in Markets : markets'[m].status = "open"
                                 => markets'[m].image # req'[x].mrow.image
    BY <1>1, <1>2 DEF FileSound, Plain
  <2>4. Uploading(x)' /\ req'[x].id \notin named' =>
          /\ \A m \in Markets : markets'[m].image # req'[x].id
          /\ \A y \in Workers : req'[y].mrow.image # req'[x].id
    <3> SUFFICES ASSUME Uploading(x)', req'[x].id \notin named'
                 PROVE  /\ \A m \in Markets : markets[m].image # req[x].id
                        /\ \A y \in Workers : req'[y].mrow.image # req[x].id
      BY <1>1, <1>2 DEF Uploading
    <3>1. Uploading(x) /\ req[x].id # 0 /\ req[x].id \notin named
      BY <1>1, <1>2 DEF Uploading, Plain, FileSound
    <3> QED  BY <1>1, <1>2, <1>3, <3>1 DEF FileSound
  <2>5. req'[x].mrow.image \notin named' =>
          /\ \A m \in Markets \ {req'[x].market} :
               markets'[m].image # req'[x].mrow.image
          /\ \A y \in Workers : req'[y].mrow.image = req'[x].mrow.image
                                  => req'[y].market = req'[x].market
    BY <1>1, <1>2, <1>3 DEF FileSound, MarketFile
  <2> QED  BY <2>1, <2>2, <2>3, <2>4, <2>5 DEF FileSound
<1>5. ASSUME NEW m \in Markets  PROVE MarketFile(m)'
  BY <1>1 DEF MarketFile
<1> QED  BY <1>1, <1>4, <1>5 DEF ImageInv

(* A request that arrives has an id above every file name.                 *)
LEMMA ArriveImages ==
  ASSUME IInv, ImageInv, NEW w \in Workers, Arrive(w)
  PROVE  ImageInv'
<1>1. PICK r \in Request, handler \in Handlers :
        /\ Begin(w, handler, r)
        /\ r.pc \in Arriving /\ r.id = served + 1
        /\ Brings(r)
  BY ArrivesAs DEF IInv
<1>2. /\ UNCHANGED <<markets, files>> /\ served' = served + 1
      /\ req[w].pc = "idle" /\ req'[w] = r
      /\ \A x \in Workers \ {w} : req'[x] = req[x]
      /\ r.market \in Markets /\ r.mrow.image \in Nat
      /\ named \subseteq named' /\ 0 \in named
  BY <1>1, NowIs
  DEF IInv, ImageInv, Begin, At, Alone, db, Request, MarketRow, Brings
<1>3. /\ served \in Nat
      /\ \A x \in Workers : /\ req[x].id \in Nat /\ req[x].id <= served
                            /\ req[x].mrow.image \in Nat
                            /\ req[x].mrow.image <= served
                            /\ FileSound(x) /\ req[x].market \in Markets
      /\ \A m \in Markets : /\ markets[m].image \in Nat
                            /\ markets[m].image <= served
                            /\ MarketFile(m)
  BY ImageTyped
  DEF IInv, LocalSound, TimeSound, ImageInv, FileSound, MarketFile
<1>4. /\ r.mrow.image <= served'
      /\ r.pc = "createDebit" => r.mrow.image \in named'
      /\ r.mrow.image # 0 /\ r.mrow.image \notin named' =>
           /\ r.mrow = markets[r.market] /\ r.mrow.image <= served
           /\ \A m \in Markets \ {r.market} : markets[m].image # r.mrow.image
           /\ \A x \in Workers : req[x].mrow.image = r.mrow.image
                                   => req[x].market = r.market
  BY <1>1, <1>2, <1>3 DEF MarketFile, FileSound, Brings
<1>5. ASSUME NEW x \in Workers  PROVE FileSound(x)'
  <2>1. CASE x = w
    <3>1. \A y \in Workers : req'[y].pc # "idle" /\ req'[y].id = r.id
                               => y = w
      BY <1>1, <1>2, <1>3
    <3>2. r.id \notin named' =>
            /\ \A m \in Markets : markets[m].image # r.id
            /\ \A y \in Workers : req'[y].mrow.image # r.id
      BY <1>1, <1>2, <1>3, <1>4 DEF Brings
    <3>3. ASSUME NEW y \in Workers, r.mrow.image \notin named',
                 req'[y].mrow.image = r.mrow.image
          PROVE  req'[y].market = r.market
      <4>1. CASE y = w  BY <1>2, <4>1
      <4>2. CASE y # w  BY <1>2, <1>4, <3>3, <4>2
      <4> QED  BY <4>1, <4>2
    <3> QED
      BY <1>1, <1>2, <1>3, <1>4, <2>1, <3>1, <3>2, <3>3
      DEF FileSound, Arriving
  <2>2. CASE x # w
    <3>1. req'[x] = req[x] /\ FileSound(x)
      BY <1>2, <1>3, <2>2
    <3>2. \A y \in Workers :
            y = w \/ (req'[y].pc = req[y].pc /\ req'[y].id = req[y].id)
      BY <1>2
    <3>3. req[x].id # r.id
      BY <1>1, <1>3
    <3>4. /\ Uploading(x) /\ req[x].id \notin named'
               => r.mrow.image # req[x].id
          /\ req[x].mrow.image \notin named'
               /\ r.mrow.image = req[x].mrow.image
               => r.market = req[x].market
      <4>1. Uploading(x) /\ req[x].id \notin named'
              => r.mrow.image # req[x].id
        BY <1>2, <1>4, <3>1 DEF FileSound, Uploading
      <4> QED  BY <1>2, <1>4, <4>1
    <3> QED
      BY <1>2, <1>3, <2>2, <3>1, <3>2, <3>3, <3>4 DEF FileSound, Uploading
  <2> QED  BY <2>1, <2>2
<1>6. ASSUME NEW m \in Markets  PROVE MarketFile(m)'
  BY <1>2, <1>3 DEF MarketFile
<1> QED  BY <1>2, <1>5, <1>6 DEF ImageInv

(* A step of w changes files, or saves the row of one market.              *)
LEMMA FilesChange ==
  ASSUME TypeOK, ImageInv, NEW w \in Workers,
         UNCHANGED <<markets, served, named>>, Alone(w),
         \/ req'[w] = Idle
         \/ /\ req[w].pc = "imageWrite" /\ req'[w].pc = "imageSave"
            /\ req'[w].id = req[w].id /\ req'[w].market = req[w].market
            /\ req'[w].mrow = req[w].mrow
            /\ req[w].id \in files' \cup named,
         \A x \in Workers : req[x].pc = "imageSave" /\ x # w
                              => req[x].id \in files' \cup named,
         \A m \in Markets : markets[m].status = "open"
                              => markets[m].image \in files' \cup named
  PROVE  ImageInv'
<1>1. /\ \A x \in Workers \ {w} : req'[x] = req[x]
      /\ \A x \in Workers : FileSound(x)
      /\ \A m \in Markets : MarketFile(m)
      /\ 0 \in named
  BY DEF Alone, ImageInv
<1>2. ASSUME NEW x \in Workers
      PROVE  /\ \/ req'[x].mrow.image = 0
                \/ /\ req'[x].market = req[x].market
                   /\ req'[x].mrow.image = req[x].mrow.image
             /\ req'[x].pc # "idle" =>
                  /\ req[x].pc # "idle" /\ req'[x].id = req[x].id
                  /\ \/ req'[x].pc = req[x].pc
                     \/ req[x].pc = "imageWrite" /\ req'[x].pc = "imageSave"
             /\ req'[x].pc = "imageSave" => req'[x].id \in files' \cup named
  BY <1>1 DEF Idle, NoMarket
<1>3. ASSUME NEW x \in Workers  PROVE FileSound(x)'
  <2>1. FileSound(x) /\ served \in Nat
    BY <1>1, ImageTyped
  <2>2. Uploading(x)' =>
          Uploading(x) /\ req[x].id # 0 /\ req'[x].id = req[x].id
    BY <1>2, <2>1 DEF Uploading, FileSound
  <2>3. req'[x].pc # "idle" =>
          /\ req'[x].id # 0
          /\ \A y \in Workers : req'[y].pc # "idle" /\ req'[y].id = req'[x].id
                                  => y = x
    BY <1>2, <2>1 DEF FileSound
  <2>4. Uploading(x)' /\ req[x].id \notin named =>
          /\ \A m \in Markets : markets[m].image # req[x].id
          /\ \A y \in Workers : req'[y].mrow.image # req[x].id
    BY <1>2, <2>1, <2>2 DEF FileSound
  <2>5. req'[x].mrow.image \notin named =>
          /\ \A m \in Markets \ {req'[x].market} :
               markets[m].image # req'[x].mrow.image
          /\ \A y \in Workers : req'[y].mrow.image = req'[x].mrow.image
                                  => req'[y].market = req'[x].market
    BY <1>1, <1>2, <2>1 DEF FileSound
  <2>6. /\ req'[x].mrow.image <= served
        /\ req'[x].pc \in {"createDebit", "createInsert"}
             => req'[x].mrow.image \in named
        /\ req'[x].pc = "imageDelete" /\ req'[x].mrow.image \notin named =>
             \A m \in Markets : markets[m].status = "open"
                                 => markets[m].image # req'[x].mrow.image
    <3>1. CASE x = w
      <4>1. req'[x].pc \in {"idle", "imageSave"}
        BY <3>1 DEF Idle
      <4> QED  BY <1>2, <2>1, <4>1 DEF FileSound
    <3>2. CASE x # w
      BY <1>1, <2>1, <3>2 DEF FileSound
    <3> QED  BY <3>1, <3>2
  <2> QED
    BY <1>2, <2>2, <2>3, <2>4, <2>5, <2>6 DEF FileSound
<1>4. ASSUME NEW m \in Markets  PROVE MarketFile(m)'
  BY <1>1 DEF MarketFile
<1> QED  BY <1>1, <1>3, <1>4 DEF ImageInv

LEMMA ImageFileSteps ==
  ASSUME TypeOK, ImageInv, NEW w \in Workers,
         ImageWrite(w) \/ ImageSaveFails(w) \/ ImageDelete(w)
  PROVE  ImageInv'
<1> DEFINE r == req[w]
<1>1. /\ r \in Request /\ FileSound(w)
      /\ \A x \in Workers : FileSound(x)
      /\ \A m \in Markets : MarketFile(m)
  BY DEF TypeOK, ImageInv
<1>2. UNCHANGED <<markets, served, named>>
  BY DEF ImageWrite, ImageSaveFails, ImageDelete, env, histories
<1>3. CASE ImageWrite(w)
  <2> DEFINE next == [r EXCEPT !.pc = "imageSave"]
  <2>1. /\ r.pc = "imageWrite" /\ Now(w, next)
        /\ files' = files \cup {r.id}
    BY <1>3 DEF ImageWrite, At, Goto
  <2>2. /\ next.pc = "imageSave" /\ next.id = r.id
        /\ next.market = r.market /\ next.mrow = r.mrow
    BY <1>1 DEF Request
  <2> HIDE DEF next
  <2>3. req'[w] = next /\ Alone(w)
    BY <2>1, NowIs
  <2>4. \A x \in Workers : req[x].pc = "imageSave"
                             => req[x].id \in files' \cup named
    BY <1>1, <2>1 DEF FileSound
  <2>5. \A m \in Markets : markets[m].status = "open"
                             => markets[m].image \in files' \cup named
    BY <1>1, <2>1 DEF MarketFile
  <2> QED  BY <1>2, <2>1, <2>2, <2>3, <2>4, <2>5, FilesChange
<1>4. CASE ImageSaveFails(w)
  <2>1. /\ r.pc = "imageSave" /\ req'[w] = Idle /\ Alone(w)
        /\ files' = files \ {r.id}
    BY <1>4, NowIs DEF ImageSaveFails, At, Finish
  <2>2. \A x \in Workers : req[x].pc = "imageSave" /\ x # w
                             => req[x].id \in files' \cup named
    BY <1>1, <2>1 DEF FileSound
  <2>3. \A m \in Markets : markets[m].status = "open"
                             => markets[m].image \in files' \cup named
    BY <1>1, <2>1 DEF MarketFile, FileSound, Uploading
  <2> QED  BY <1>2, <2>1, <2>2, <2>3, FilesChange
<1>5. CASE ImageDelete(w)
  <2>1. /\ r.pc = "imageDelete" /\ req'[w] = Idle /\ Alone(w)
        /\ files' = files \ {r.mrow.image}
    BY <1>5, NowIs DEF ImageDelete, At, Finish
  <2>2. \A x \in Workers : req[x].pc = "imageSave"
                             => req[x].id \in files' \cup named
    BY <1>1, <2>1 DEF FileSound, Uploading
  <2>3. \A m \in Markets : markets[m].status = "open"
                             => markets[m].image \in files' \cup named
    BY <1>1, <2>1 DEF MarketFile, FileSound
  <2> QED  BY <1>2, <2>1, <2>2, <2>3, FilesChange
<1> QED  BY <1>3, <1>4, <1>5

(* A request saves its market's row with an image that no other market     *)
(* has, and that no request is about to upload or, if the market is open,  *)
(* to delete.                                                              *)
RowFree(w, row) ==
  /\ row.image <= served
  /\ row.status = "open" => row.image \in files \cup named
  /\ row.image \notin named =>
       /\ \A m \in Markets \ {req[w].market} : markets[m].image # row.image
       /\ \A x \in Workers : req[x].mrow.image = row.image
                               => req[x].market = req[w].market
       /\ \A x \in Workers \ {w} : Uploading(x) => req[x].id # row.image
       /\ row.status = "open" =>
            \A x \in Workers \ {w} : req[x].pc = "imageDelete"
                                     => req[x].mrow.image # row.image

RowSaved(w, row) ==
  \/ req'[w] = Idle
  \/ /\ req[w].pc # "idle"
     /\ req'[w].id = req[w].id /\ req'[w].market = req[w].market
     /\ req'[w].mrow = req[w].mrow
     /\ req'[w].pc \in Plain \cup {"imageDelete"}
     /\ req'[w].pc = "imageDelete" /\ req[w].mrow.image \notin named =>
          req[w].mrow.image # row.image

LEMMA RowChange ==
  ASSUME TypeOK, ImageInv, NEW w \in Workers, NEW row \in MarketRow,
         UNCHANGED <<files, served, named>>, Alone(w),
         markets' = [markets EXCEPT ![req[w].market] = row],
         RowFree(w, row), RowSaved(w, row)
  PROVE  ImageInv'
<1> DEFINE k == req[w].market
<1>1. /\ \A x \in Workers \ {w} : req'[x] = req[x]
      /\ \A x \in Workers : FileSound(x) /\ req[x].market \in Markets
      /\ \A m \in Markets : MarketFile(m)
      /\ markets'[k] = row /\ 0 \in named
      /\ \A m \in Markets \ {k} : markets'[m] = markets[m]
  BY ImageTyped DEF Alone, ImageInv, TypeOK
<1>2. k \in Markets
  BY ImageTyped
<1> HIDE DEF k
<1>3. ASSUME NEW x \in Workers
      PROVE  /\ \/ req'[x].mrow.image = 0
                \/ /\ req'[x].market = req[x].market
                   /\ req'[x].mrow.image = req[x].mrow.image
             /\ req'[x].pc # "idle" =>
                  req[x].pc # "idle" /\ req'[x].id = req[x].id
             /\ x = w => req'[x].pc \in Plain \cup {"imageDelete"}
  <2>1. CASE x = w
    BY <2>1 DEF RowSaved, Idle, NoMarket, Plain, Labels
  <2>2. CASE x # w
    BY <1>1, <2>2
  <2> QED  BY <2>1, <2>2
<1>4. ASSUME NEW x \in Workers  PROVE FileSound(x)'
  <2>1. FileSound(x) /\ served \in Nat
    BY <1>1, ImageTyped
  <2>2. req'[x].pc # "idle" =>
          /\ req'[x].id # 0
          /\ \A y \in Workers : req'[y].pc # "idle" /\ req'[y].id = req'[x].id
                                  => y = x
    BY <1>3, <2>1 DEF FileSound
  <2>3. ASSUME Uploading(x)', req'[x].id \notin named
        PROVE  /\ \A m \in Markets : markets'[m].image # req'[x].id
               /\ \A y \in Workers : req'[y].mrow.image # req'[x].id
    <3>1. x # w
      BY <1>3, <2>3 DEF Uploading, Plain
    <3>2. /\ req'[x] = req[x] /\ Uploading(x) /\ req[x].id # 0
          /\ req[x].id \notin named
      BY <1>1, <2>1, <2>3, <3>1 DEF Uploading, FileSound
    <3>3. row.image # req[x].id
      BY <3>1, <3>2 DEF RowFree
    <3>4. ASSUME NEW m \in Markets  PROVE markets'[m].image # req[x].id
      <4>1. CASE m = k  BY <1>1, <3>3, <4>1
      <4>2. CASE m # k  BY <1>1, <2>1, <3>2, <4>2 DEF FileSound
      <4> QED  BY <4>1, <4>2
    <3>5. \A y \in Workers : req'[y].mrow.image # req[x].id
      BY <1>3, <2>1, <3>2 DEF FileSound
    <3> QED  BY <3>2, <3>4, <3>5
  <2>4. ASSUME req'[x].mrow.image \notin named
        PROVE  /\ \A m \in Markets \ {req'[x].market} :
                    markets'[m].image # req'[x].mrow.image
               /\ \A y \in Workers : req'[y].mrow.image = req'[x].mrow.image
                                       => req'[y].market = req'[x].market
    <3>1. /\ req'[x].market = req[x].market
          /\ req'[x].mrow.image = req[x].mrow.image
          /\ req[x].mrow.image \notin named
      BY <1>1, <1>3, <2>4
    <3>2. ASSUME NEW m \in Markets \ {req[x].market}
          PROVE  markets'[m].image # req[x].mrow.image
      <4>1. CASE m = k
        <5>1. markets'[m].image = row.image
          BY <1>1, <4>1
        <5>2. row.image = req[x].mrow.image => req[x].market = k
          BY <3>1 DEF RowFree, k
        <5> QED  BY <4>1, <5>1, <5>2
      <4>2. CASE m # k  BY <1>1, <2>1, <3>1, <4>2 DEF FileSound
      <4> QED  BY <4>1, <4>2
    <3>3. \A y \in Workers : req'[y].mrow.image = req[x].mrow.image
                               => req'[y].market = req[x].market
      BY <1>1, <1>3, <2>1, <3>1 DEF FileSound
    <3> QED  BY <3>1, <3>2, <3>3
  <2>5. ASSUME req'[x].pc = "imageDelete", NEW m \in Markets,
               req'[x].mrow.image \notin named, markets'[m].status = "open"
        PROVE  markets'[m].image # req'[x].mrow.image
    <3>1. CASE x = w
      <4>1. /\ req[x].market = k /\ req'[x].mrow = req[x].mrow
            /\ req[x].mrow.image \notin named
            /\ req[x].mrow.image # row.image
        BY <2>5, <3>1 DEF RowSaved, k, Idle
      <4>2. CASE m = k  BY <1>1, <4>1, <4>2
      <4>3. CASE m # k  BY <1>1, <2>1, <4>1, <4>3 DEF FileSound
      <4> QED  BY <4>2, <4>3
    <3>2. CASE x # w
      <4>1. req'[x] = req[x]
        BY <1>1, <3>2
      <4>2. CASE m = k
        <5>1. markets'[m] = row /\ row.status = "open"
          BY <1>1, <2>5, <4>2
        <5>2. row.image # req[x].mrow.image
          BY <2>1, <2>5, <3>2, <4>1, <5>1 DEF RowFree, FileSound
        <5> QED  BY <4>1, <5>1, <5>2
      <4>3. CASE m # k  BY <1>1, <2>1, <2>5, <4>1, <4>3 DEF FileSound
      <4> QED  BY <4>2, <4>3
    <3> QED  BY <3>1, <3>2
  <2>6. /\ req'[x].mrow.image <= served
        /\ req'[x].pc = "imageSave" => req'[x].id \in files' \cup named
        /\ req'[x].pc \in {"createDebit", "createInsert"}
             => req'[x].mrow.image \in named
    <3>1. CASE x = w
      BY <1>3, <2>1, <3>1 DEF FileSound, Plain
    <3>2. CASE x # w
      BY <1>1, <2>1, <3>2 DEF FileSound
    <3> QED  BY <3>1, <3>2
  <2> QED
    BY <2>2, <2>3, <2>4, <2>5, <2>6 DEF FileSound
<1>5. ASSUME NEW m \in Markets  PROVE MarketFile(m)'
  <2>1. CASE m = k
    BY <1>1, <1>2, <2>1 DEF RowFree, MarketFile, k
  <2>2. CASE m # k
    BY <1>1, <1>2, <2>2 DEF RowFree, MarketFile, k
  <2> QED  BY <2>1, <2>2
<1> QED  BY <1>1, <1>4, <1>5 DEF ImageInv

(* The handlers that save a whole market row.                              *)
LEMMA RowSteps ==
  ASSUME IInv, ImageInv, NEW w \in Workers,
         CreateInsert(w) \/ ResolveSave(w) \/ ImageSave(w)
  PROVE  ImageInv'
<1> DEFINE r == req[w]
<1>1. /\ TypeOK /\ r \in Request /\ r.mrow \in MarketRow
      /\ \A x \in Workers : FileSound(x)
      /\ \A m \in Markets : MarketFile(m)
      /\ r.id \in Nat /\ r.id <= served /\ 0 \in named
  BY ImageTyped DEF IInv, TypeOK, ImageInv, LocalSound, TimeSound
<1>2. UNCHANGED <<files, served, named>>
  BY DEF CreateInsert, ResolveSave, ImageSave, env, histories
<1>3. CASE CreateInsert(w)
  <2>1. /\ r.pc = "createInsert" /\ req'[w] = Idle /\ Alone(w)
        /\ markets' = [markets EXCEPT ![r.market] = r.mrow]
    BY <1>1, <1>3, NowIs DEF CreateInsert, At, Finish
  <2>2. r.mrow.image \in named
    BY <1>1, <2>1 DEF FileSound
  <2>3. r.mrow.image <= served
    BY <1>1 DEF FileSound
  <2>4. RowFree(w, r.mrow) /\ RowSaved(w, r.mrow)
    BY <2>1, <2>2, <2>3 DEF RowFree, RowSaved
  <2> QED  BY <1>1, <1>2, <2>1, <2>4, RowChange
<1>4. CASE ResolveSave(w)
  <2> DEFINE row  == [r.mrow EXCEPT !.status = r.choice]
             next == [r EXCEPT !.pc = IF r.choice = "N/A" THEN "refundBets"
                                      ELSE "payMarket"]
  <2>1. /\ r.pc = "resolveSave" /\ Now(w, next)
        /\ markets' = [markets EXCEPT ![r.market] = row]
    BY <1>4 DEF ResolveSave, At, Goto
  <2>2. r.choice \in {"YES", "NO", "N/A"}
    BY <1>1, ExchangeAssumption DEF Request, Outcomes
  <2>3. /\ row \in MarketRow /\ row.status # "open"
        /\ row.image = r.mrow.image
    BY <1>1, <2>2 DEF MarketRow, Statuses
  <2>4. /\ next.pc \in Plain /\ next.id = r.id
        /\ next.market = r.market /\ next.mrow = r.mrow
        /\ next.pc # "imageDelete"
    BY <1>1 DEF Request, Plain, Labels
  <2> HIDE DEF next, row
  <2>5. req'[w] = next /\ Alone(w)
    BY <1>1, <2>1, NowIs
  <2>6. row.image \notin named =>
          /\ \A m \in Markets \ {r.market} : markets[m].image # row.image
          /\ \A x \in Workers : req[x].mrow.image = row.image
                                  => req[x].market = r.market
          /\ \A x \in Workers : Uploading(x) => req[x].id # row.image
    BY <1>1, <2>3 DEF FileSound
  <2>7. row.image <= served
    BY <1>1, <2>3 DEF FileSound
  <2>8. RowFree(w, row) /\ RowSaved(w, row)
    BY <2>1, <2>3, <2>4, <2>5, <2>6, <2>7 DEF RowFree, RowSaved
  <2> QED  BY <1>1, <1>2, <2>1, <2>3, <2>5, <2>8, RowChange
<1>5. CASE ImageSave(w)
  <2> DEFINE row  == [r.mrow EXCEPT !.image = r.id]
             next == [r EXCEPT !.pc = "imageDelete"]
  <2>1. /\ r.pc = "imageSave"
        /\ markets' = [markets EXCEPT ![r.market] = row]
        /\ IF r.mrow.image = 0 THEN Now(w, Idle) ELSE Now(w, next)
    BY <1>5 DEF ImageSave, At, Goto, Finish
  <2>2. row \in MarketRow /\ row.image = r.id
    BY <1>1 DEF MarketRow
  <2>3. /\ next.pc = "imageDelete" /\ next.id = r.id
        /\ next.market = r.market /\ next.mrow = r.mrow
    BY <1>1 DEF Request
  <2> HIDE DEF next, row
  <2>4. /\ Alone(w)
        /\ \/ req'[w] = Idle
           \/ req'[w] = next
    BY <1>1, <2>1, NowIs
  <2>5. /\ r.id \in files \cup named
        /\ \A x \in Workers : Uploading(x) /\ req[x].id = r.id => x = w
        /\ r.id \notin named =>
             /\ \A m \in Markets : markets[m].image # r.id
             /\ \A x \in Workers : req[x].mrow.image # r.id
    BY <1>1, <2>1 DEF FileSound, Uploading
  <2>6. RowFree(w, row)
    BY <1>1, <2>2, <2>5 DEF RowFree
  <2>7. RowSaved(w, row)
    BY <2>1, <2>2, <2>3, <2>4, <2>5 DEF RowSaved
  <2> QED  BY <1>1, <1>2, <2>1, <2>2, <2>4, <2>6, <2>7, RowChange
<1> QED  BY <1>3, <1>4, <1>5

(* The other steps look at markets and files, at most.                     *)
LEMMA OthersLook ==
  ASSUME IInv, NEW w \in Workers, Step(w),
         ~CreateInsert(w), ~ResolveSave(w), ~ImageSave(w), ~ImageWrite(w),
         ~ImageSaveFails(w), ~ImageDelete(w)
  PROVE  Looks(w)
<1> DEFINE r == req[w]
<1>1. TypeOK /\ r \in Request
  BY DEF IInv, TypeOK
<1>2. UNCHANGED <<markets, files, served, named>> /\ r.pc # "idle"
  BY DEF Step, BuyCheckStatus, BuyCheckBalance, BuyValidate, BuyDebit,
         BuyInsert, SellCheckStatus, SellReadMarket, SellQuote, SellValidate,
         SellReadUser, SellCredit, SellInsert, CreateDebit, PayReadMarket,
         PayReadBets, RefundReadBets, PayReadUser, PaySave, EditSave,
         CheckMarketStatus, At, db, env, histories
<1>3. ASSUME NEW label, Goto(w, label),
             \/ label \in Plain
             \/ r.pc = "createDebit" /\ label = "createInsert"
      PROVE  Looks(w)
  <2> DEFINE next == [r EXCEPT !.pc = label]
  <2>1. /\ next.pc = label /\ next.id = r.id
        /\ next.market = r.market /\ next.mrow = r.mrow
    BY <1>1 DEF Request
  <2> HIDE DEF next
  <2>2. req'[w] = next /\ Alone(w)
    BY <1>1, <1>3, NowIs DEF Goto, next
  <2> QED  BY <1>2, <1>3, <2>1, <2>2 DEF Looks
<1>4. ASSUME Finish(w)  PROVE Looks(w)
  BY <1>1, <1>2, <1>4, NowIs DEF Finish, Looks
<1>5. ASSUME NEW next, Now(w, next), next.pc \in Plain,
             next.id = r.id, next.market = r.market,
             next.mrow = r.mrow \/ next.mrow = markets[r.market]
      PROVE  Looks(w)
  <2>1. req'[w] = next /\ Alone(w)
    BY <1>1, <1>5, NowIs
  <2> QED  BY <1>2, <1>5, <2>1 DEF Looks
<1>6. CASE BuyCheckStatus(w) \/ SellCheckStatus(w)
  BY <1>3, <1>4, <1>6
  DEF BuyCheckStatus, SellCheckStatus, CheckMarketStatus, Plain, Labels
<1>7. CASE BuyValidate(w) \/ SellValidate(w)
  BY <1>3, <1>4, <1>7 DEF BuyValidate, SellValidate, Plain, Labels
<1>8. CASE BuyDebit(w) \/ SellCredit(w) \/ CreateDebit(w)
  BY <1>3, <1>8 DEF BuyDebit, SellCredit, CreateDebit, At, Plain, Labels
<1>9. CASE BuyInsert(w) \/ SellInsert(w) \/ EditSave(w)
  BY <1>4, <1>9 DEF BuyInsert, SellInsert, EditSave
<1>10. CASE BuyCheckBalance(w) \/ SellQuote(w)
  <2>1. PICK label, due, shares :
          \/ Finish(w)
          \/ /\ label \in {"buyValidate", "sellValidate"}
             /\ \/ Now(w, [r EXCEPT !.pc = label, !.due = due,
                                    !.at = clock + 1])
                \/ Now(w, [r EXCEPT !.pc = label, !.shares = shares,
                                    !.due = due, !.at = clock + 1])
    BY <1>10 DEF BuyCheckBalance, SellQuote
  <2> DEFINE bought == [r EXCEPT !.pc = label, !.due = due,
                                 !.at = clock + 1]
             sold == [r EXCEPT !.pc = label, !.shares = shares,
                               !.due = due, !.at = clock + 1]
  <2>2. /\ bought.pc = label /\ bought.id = r.id
        /\ bought.market = r.market /\ bought.mrow = r.mrow
    BY <1>1 DEF Request
  <2>3. /\ sold.pc = label /\ sold.id = r.id
        /\ sold.market = r.market /\ sold.mrow = r.mrow
    BY <1>1 DEF Request
  <2>4. Finish(w) \/ (label \in Plain /\ (Now(w, bought) \/ Now(w, sold)))
    BY <2>1 DEF Plain, Labels
  <2> HIDE DEF bought, sold
  <2> QED  BY <1>4, <1>5, <2>2, <2>3, <2>4
<1>11. CASE SellReadMarket(w) \/ PayReadMarket(w)
  <2>1. PICK label \in {"sellBets", "payBets"} :
          Now(w, [r EXCEPT !.pc = label, !.mrow = markets[r.market]])
    BY <1>11 DEF SellReadMarket, PayReadMarket
  <2> DEFINE next == [r EXCEPT !.pc = label, !.mrow = markets[r.market]]
  <2>2. /\ next.pc = label /\ next.id = r.id
        /\ next.market = r.market /\ next.mrow = markets[r.market]
    BY <1>1 DEF Request
  <2>3. Now(w, next) /\ label \in Plain
    BY <2>1 DEF Plain, Labels
  <2> HIDE DEF next
  <2> QED  BY <1>5, <2>2, <2>3
<1>12. CASE SellReadUser(w)
  <2> DEFINE next == [r EXCEPT !.pc = "sellCredit", !.row = users[r.user]]
  <2>1. /\ next.pc = "sellCredit" /\ next.id = r.id
        /\ next.market = r.market /\ next.mrow = r.mrow
    BY <1>1 DEF Request
  <2>2. Now(w, next)
    BY <1>12 DEF SellReadUser
  <2> HIDE DEF next
  <2> QED  BY <1>5, <2>1, <2>2 DEF Plain, Labels
<1>13. CASE PayReadBets(w) \/ RefundReadBets(w) \/ PaySave(w)
  <2>1. PICK owed : PayNext(w, owed)
    BY <1>13 DEF PayReadBets, RefundReadBets, PaySave
  <2> QED  BY <1>1, <1>2, <2>1, PayNextIs DEF Looks, Plain, Labels
<1>14. CASE PayReadUser(w)
  <2>1. PICK p : Now(w, [r EXCEPT !.pc = "paySave", !.paying = p,
                                  !.row = users[p.user]])
    BY <1>14 DEF PayReadUser
  <2> DEFINE next == [r EXCEPT !.pc = "paySave", !.paying = p,
                               !.row = users[p.user]]
  <2>2. /\ next.pc = "paySave" /\ next.id = r.id
        /\ next.market = r.market /\ next.mrow = r.mrow
    BY <1>1 DEF Request
  <2>3. Now(w, next)
    BY <2>1
  <2> HIDE DEF next
  <2> QED  BY <1>5, <2>2, <2>3 DEF Plain, Labels
<1> QED
  BY <1>6, <1>7, <1>8, <1>9, <1>10, <1>11, <1>12, <1>13, <1>14 DEF Step

LEMMA NextImages ==
  ASSUME IInv, ImageInv, [Next]_vars
  PROVE  ImageInv'
<1>1. TypeOK
  BY DEF IInv
<1>2. ASSUME NEW w \in Workers, Arrive(w)  PROVE ImageInv'
  BY <1>2, ArriveImages
<1>3. ASSUME NEW w \in Workers, Step(w)  PROVE ImageInv'
  BY <1>1, <1>3, ImageFileSteps, RowSteps, OthersLook, LooksSound
<1>4. ASSUME NEW w \in Workers, Fail(w)  PROVE ImageInv'
  <2>1. Looks(w)
    BY <1>1, <1>4, NowIs DEF Fail, Finish, Looks, db, env, histories
  <2> QED  BY <1>1, <2>1, LooksSound
<1>5. CASE UNCHANGED <<markets, files, req, served, named>>
  BY <1>5 DEF ImageInv, FileSound, MarketFile, Uploading
<1>6. UNCHANGED vars \/ (\E m \in Markets : TimePasses(m))
        => UNCHANGED <<markets, files, req, served, named>>
  BY DEF vars, TimePasses, db, histories
<1> QED  BY <1>2, <1>3, <1>4, <1>5, <1>6 DEF Next

LEMMA InitImages == ASSUME Init PROVE ImageInv
<1>1. /\ \A w \in Workers : /\ req[w].pc = "idle" /\ req[w].id = 0
                            /\ req[w].mrow.image = 0
      /\ named = {0}
      /\ \A m \in Markets : markets[m].image = 0
      /\ served = 0
  BY DEF Init, Idle, NoMarket
<1> QED  BY <1>1 DEF ImageInv, FileSound, MarketFile, Uploading

(* However uploads, resolutions and all other requests interleave and die, *)
(* no open market's row names an image file that is gone, other than files *)
(* that the body of a market creation named.                               *)
THEOREM OpenMarketsKeepImages == Spec => []ImageExists
<1>1. Init => ImageInv
  BY InitImages
<1>2. IInv /\ ImageInv /\ [Next]_vars => ImageInv'
  BY NextImages
<1>3. ImageInv => ImageExists
  BY DEF ImageInv, MarketFile, ImageExists
<1> QED  BY <1>1, <1>2, <1>3, Invariance, PTL DEF Spec
=============================================================================
