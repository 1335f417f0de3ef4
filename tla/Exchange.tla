------------------------------ MODULE Exchange ------------------------------
(***************************************************************************)
(* The trading core of the backend: the tables users, markets and bets,    *)
(* the uploaded image files, and the HTTP handlers that read and write     *)
(* them.  Every request runs on a worker of its own (a goroutine of        *)
(* net/http) and no handler opens a transaction or takes a lock, so one    *)
(* database call is one step and the calls of different requests           *)
(* interleave.  db.Save writes back the WHOLE row that was read earlier.   *)
(***************************************************************************)
EXTENDS SaleMath, Sequences, FiniteSets

CONSTANTS
  Users,              \* registered users
  Markets,            \* market ids, created or not
  Workers,            \* requests that can be in progress at the same time
  Handlers,           \* the handlers clients call in this instance
  Creators,           \* users with permission create_markets
  Admins,             \* users with permission create_users
  OpenAtStart,        \* markets that exist in the initial state
  FirstCreator,       \* FirstCreator[m]: creator of an initial market
  Amounts,            \* amounts of buy requests and credits of sale requests
  Resolutions,        \* outcomes named by resolve requests
  BodyStatuses,       \* what creation bodies say of the market's resolution
  BodyImages,         \* the images creation bodies name (0: none)
  InitialBalance,     \* economics.user.initialAccountBalance
  MaxDebt,            \* economics.user.maximumDebtAllowed
  CreateMarketCost,   \* economics.marketincentives.createMarketCost
  InitialBetFee, BuySharesFee, SellSharesFee,   \* economics.betting.betFees
  CanFail,            \* whether database calls may fail and processes die
  Positions(_, _),    \* the position calculator: log and status to positions
  MaxRequests,        \* bound on the requests of a behaviour
  MaxBets,            \* bound on the rows of one market's log
  MaxShares           \* bound on the shares of one sale

Outcomes == {"YES", "NO"}
Statuses == {"open", "YES", "NO", "N/A"}      \* of a market that exists

(* Amounts of table bets: bought for, or the shares sold.                  *)
BetAmounts == {a \in Amounts : a >= 1} \cup {-n : n \in 1..MaxShares}
BetRow == [user : Users, outcome : Outcomes, amount : BetAmounts]
BetLogs == UNION {[1..n -> BetRow] : n \in 0..MaxBets}
Position == [yes : Nat, no : Nat, value : Int]

ASSUME ExchangeAssumption ==
  /\ Users # {} /\ Markets # {}
  /\ Creators \subseteq Users /\ Admins \subseteq Users
  /\ OpenAtStart \subseteq Markets
  /\ FirstCreator \in [OpenAtStart -> Users]
  /\ Amounts \subseteq Int
  /\ Resolutions \subseteq {"YES", "NO", "N/A"}
  /\ BodyStatuses \subseteq Statuses /\ BodyImages \subseteq Nat
  /\ InitialBalance \in Int /\ MaxDebt \in Nat
  /\ InitialBalance >= -MaxDebt
  /\ CreateMarketCost \in Nat /\ InitialBetFee \in Nat
  /\ BuySharesFee \in Nat /\ SellSharesFee \in Nat
  /\ CanFail \in BOOLEAN
  /\ MaxRequests \in Nat /\ MaxBets \in Nat /\ MaxShares \in Nat

(* What the handlers rely on: for every log the calculator answers with    *)
(* whole non-negative shares and a whole value for every user.             *)
ASSUME PositionsAssumption ==
  \A log \in BetLogs, s \in Statuses :
    Positions(log, s) \in [Users -> Position]

VARIABLES
  users,      \* table users: balance, last request that set the profile
  markets,    \* table markets: status, creator, image (0: none)
  bets,       \* table bets: per market, by placed_at
  files,      \* image files in uploads/markets, named by their request
  closedAt,   \* closedAt[m]: requests started when m's resolution time passed
  req,        \* the request each worker is serving and what it has read
  clock,      \* time.Now() as taken for placed_at: distinct, increasing
  served,     \* requests started so far
  paid,       \* history: the placed_at stamps whose balance write was saved
  clawback,   \* history: per user, credits taken back by refunds of sales
  named       \* history: the images that creation bodies named, and 0

db     == <<users, markets, bets, files>>
env    == <<closedAt, clock, served>>
histories == <<paid, clawback, named>>
vars   == <<users, markets, bets, files, closedAt, req, clock, served,
            paid, clawback, named>>

-----------------------------------------------------------------------------
UserRow   == [balance : Int, profile : Nat]
MarketRow == [status : Statuses \cup {"none"}, creator : Users, image : Nat]
StampedRow == [user : Users, outcome : Outcomes, amount : BetAmounts, at : Nat]
Payment   == [user : Users, amount : Int, key : Nat]

SomeUser   == CHOOSE u \in Users : TRUE
SomeMarket == CHOOSE m \in Markets : TRUE
NoMarket   == [status |-> "none", creator |-> SomeUser, image |-> 0]
NoPayment  == [user |-> SomeUser, amount |-> 0, key |-> 0]

NotYet == -1

Idle ==
  [pc |-> "idle", id |-> 0, user |-> SomeUser, market |-> SomeMarket,
   choice |-> "YES", amount |-> 0, row |-> [balance |-> 0, profile |-> 0],
   mrow |-> NoMarket, due |-> 0, shares |-> 0, at |-> 0,
   owed |-> {}, paying |-> NoPayment]

Init ==
  /\ users = [u \in Users |-> [balance |-> InitialBalance, profile |-> 0]]
  /\ markets = [m \in Markets |->
       IF m \in OpenAtStart
       THEN [status |-> "open", creator |-> FirstCreator[m], image |-> 0]
       ELSE NoMarket]
  /\ bets = [m \in Markets |-> <<>>]
  /\ files = {}
  /\ closedAt = [m \in Markets |-> NotYet]
  /\ req = [w \in Workers |-> Idle]
  /\ clock = 0 /\ served = 0
  /\ paid = {} /\ clawback = [u \in Users |-> 0] /\ named = {0}

At(w, label) == req[w].pc = label
Now(w, request) == req' = [req EXCEPT ![w] = request]
Finish(w) == Now(w, Idle)
Goto(w, label) == Now(w, [req[w] EXCEPT !.pc = label])

(* A request whose handler has authenticated user u, about market m.       *)
New(label, u, m) ==
  [Idle EXCEPT !.pc = label, !.id = served + 1, !.user = u, !.market = m]

Begin(w, handler, request) ==
  /\ handler \in Handlers
  /\ At(w, "idle")
  /\ served < MaxRequests
  /\ served' = served + 1
  /\ Now(w, request)
  /\ UNCHANGED <<db, closedAt, clock, paid, clawback>>

Start(w, handler, request) == Begin(w, handler, request) /\ UNCHANGED named

(* db.Save(user): the row read earlier, with another balance.              *)
SaveBalance(u, row, balance) ==
  users' = [users EXCEPT ![u] = [row EXCEPT !.balance = balance]]

(* The rows of a log without their times, as the calculators take them.    *)
Untimed(log) ==
  [i \in 1..Len(log) |-> [user |-> log[i].user, outcome |-> log[i].outcome,
                          amount |-> log[i].amount]]

(* GetBetsForMarket: ordered by placed_at, and nil when the query fails.   *)
GetBetsForMarket(m) == {bets[m]} \cup (IF CanFail THEN {<<>>} ELSE {})

(* db.Create(&bet), seen through ORDER BY placed_at.                       *)
InsertByTime(log, row) ==
  [i \in 1..(Len(log) + 1) |->
     IF i <= Len(log) /\ log[i].at < row.at THEN log[i]
     ELSE IF i = 1 \/ log[i - 1].at < row.at THEN row
     ELSE log[i - 1]]

CreateBet(w, amount) ==
  LET r == req[w]
  IN  /\ Len(bets[r.market]) < MaxBets
      /\ bets' = [bets EXCEPT ![r.market] = InsertByTime(@,
                    [user |-> r.user, outcome |-> r.choice,
                     amount |-> amount, at |-> r.at])]

(* Mutant: the resolution time is not looked at.                           *)
TradableUntilResolved(m) == markets[m].status = "open"

(* CheckMarketStatus: the market exists, is not resolved and not closed.   *)
Tradable(m) == markets[m].status = "open" /\ closedAt[m] = NotYet

CheckMarketStatus(w, next) ==
  /\ IF Tradable(req[w].market) THEN Goto(w, next) ELSE Finish(w)
  /\ UNCHANGED <<db, env, histories>>

-----------------------------------------------------------------------------
(* PlaceBetHandler and PlaceBetCore *)

BuyStart(w, u, m, o, a) ==
  Start(w, "buy", [New("buyStatus", u, m) EXCEPT
                     !.choice = o, !.amount = a, !.row = users[u]])

BuyCheckStatus(w) == At(w, "buyStatus") /\ CheckMarketStatus(w, "buyFees")

TransactionFee(amount) == IF amount > 0 THEN BuySharesFee ELSE SellSharesFee

GetBetFees(log, u, amount) ==
  TransactionFee(amount)
    + (IF \E i \in 1..Len(log) : log[i].user = u THEN 0 ELSE InitialBetFee)

(* Mutant: the balance is compared with the limit before the cost is taken *)
(* off.                                                                    *)
AffordableBeforeCost(row, cost) == row.balance > -MaxDebt

(* checkUserBalance, on the row read at authentication.                    *)
Affordable(row, cost) == row.balance - cost >= -MaxDebt

(* GetBetFees, checkUserBalance and CreateBet, which stamps placed_at.     *)
BuyCheckBalance(w) ==
  /\ At(w, "buyFees")
  /\ \E log \in GetBetsForMarket(req[w].market) :
       LET r    == req[w]
           cost == r.amount + GetBetFees(log, r.user, r.amount)
       IN  IF Affordable(r.row, cost)
           THEN /\ clock' = clock + 1
                /\ Now(w, [r EXCEPT !.pc = "buyValidate",
                                    !.due = cost, !.at = clock + 1])
           ELSE Finish(w) /\ UNCHANGED clock
  /\ UNCHANGED <<db, closedAt, served, histories>>

(* Mutant: the amount is not validated.                                    *)
BuyValidateAnyAmount(w) ==
  /\ At(w, "buyValidate")
  /\ IF markets[req[w].market].status = "open"
     THEN Goto(w, "buyDebit") ELSE Finish(w)
  /\ UNCHANGED <<db, env, histories>>

(* ValidateBuy reads the market again, but not its resolution time.        *)
BuyValidate(w) ==
  /\ At(w, "buyValidate")
  /\ IF markets[req[w].market].status = "open" /\ req[w].amount >= 1
     THEN Goto(w, "buyDebit") ELSE Finish(w)
  /\ UNCHANGED <<db, env, histories>>

(* Mutant: the error of db.Save is ignored.                                *)
BuyDebitErrorIgnored(w) ==
  LET r == req[w]
  IN  /\ At(w, "buyDebit")
      /\ \/ /\ SaveBalance(r.user, r.row, r.row.balance - r.due)
            /\ paid' = paid \cup {r.at}
         \/ CanFail /\ UNCHANGED <<users, paid>>
      /\ Goto(w, "buyInsert")
      /\ UNCHANGED <<markets, bets, files, env, clawback, named>>

BuyDebit(w) ==
  LET r == req[w]
  IN  /\ At(w, "buyDebit")
      /\ SaveBalance(r.user, r.row, r.row.balance - r.due)
      /\ paid' = paid \cup {r.at}
      /\ Goto(w, "buyInsert")
      /\ UNCHANGED <<markets, bets, files, env, clawback, named>>

BuyInsert(w) ==
  /\ At(w, "buyInsert")
  /\ CreateBet(w, req[w].amount)
  /\ Finish(w)
  /\ UNCHANGED <<users, markets, files, env, histories>>

-----------------------------------------------------------------------------
(* SellPositionHandler and ProcessSellRequest *)

SellStart(w, u, m, o, credits) ==
  Start(w, "sell", [New("sellStatus", u, m) EXCEPT
                      !.choice = o, !.amount = credits])

SellCheckStatus(w) == At(w, "sellStatus") /\ CheckMarketStatus(w, "sellMarket")

(* The position calculator reads the market first ...                      *)
SellReadMarket(w) ==
  /\ At(w, "sellMarket")
  /\ Now(w, [req[w] EXCEPT !.pc = "sellBets",
                           !.mrow = markets[req[w].market]])
  /\ UNCHANGED <<db, env, histories>>

SharesOwned(position, o) == IF o = "YES" THEN position.yes ELSE position.no

(* ... and then the log; the sale is priced, and its row stamped.  A       *)
(* refusal and the division by zero (SalePanics) both end the request.     *)
SellQuote(w) ==
  /\ At(w, "sellBets")
  /\ \E log \in GetBetsForMarket(req[w].market) :
       LET r        == req[w]
           position == Positions(Untimed(log), r.mrow.status)[r.user]
           owned    == SharesOwned(position, r.choice)
           value    == position.value
           shares   == SharesToSell(value, owned, r.amount)
       IN  IF owned # 0 /\ SaleAccepted(value, owned, r.amount)
                        /\ shares <= MaxShares
           THEN /\ clock' = clock + 1
                /\ Now(w, [r EXCEPT
                     !.pc = "sellValidate", !.shares = shares,
                     !.due = SaleValue(value, owned, r.amount),
                     !.at = clock + 1])
           ELSE Finish(w) /\ UNCHANGED clock
  /\ UNCHANGED <<db, closedAt, served, histories>>

SellValidate(w) ==
  /\ At(w, "sellValidate")
  /\ IF markets[req[w].market].status = "open"
     THEN Goto(w, "sellRead") ELSE Finish(w)
  /\ UNCHANGED <<db, env, histories>>

(* ApplyTransactionToUser(SALE): read the row, then save it.               *)
SellReadUser(w) ==
  /\ At(w, "sellRead")
  /\ Now(w, [req[w] EXCEPT !.pc = "sellCredit", !.row = users[req[w].user]])
  /\ UNCHANGED <<db, env, histories>>

SellCredit(w) ==
  LET r == req[w]
  IN  /\ At(w, "sellCredit")
      /\ SaveBalance(r.user, r.row, r.row.balance + r.due)
      /\ paid' = paid \cup {r.at}
      /\ Goto(w, "sellInsert")
      /\ UNCHANGED <<markets, bets, files, env, clawback, named>>

SellInsert(w) ==
  /\ At(w, "sellInsert")
  /\ CreateBet(w, -req[w].shares)
  /\ Finish(w)
  /\ UNCHANGED <<users, markets, files, env, histories>>

-----------------------------------------------------------------------------
(* CreateMarketHandler.  The whole row is decoded from the body: it may    *)
(* name another creator than the user who pays, be resolved already, and   *)
(* name an image: any file so far, or (its own request's number, which no  *)
(* upload takes) a file that never exists.  m is the id it will have.      *)

BodyRow == [status : BodyStatuses, creator : Users, image : BodyImages]

CreateStart(w, u, m, row) ==
  /\ u \in Creators
  /\ markets[m].status = "none"
  /\ \A x \in Workers : req[x].pc \in {"createDebit", "createInsert"}
                          => req[x].market # m
  /\ row.image <= served + 1
  /\ Affordable(users[u], CreateMarketCost)
  /\ Begin(w, "create", [New("createDebit", u, m) EXCEPT
                           !.row = users[u], !.mrow = row])
  /\ named' = named \cup {row.image}

CreateDebit(w) ==
  LET r == req[w]
  IN  /\ At(w, "createDebit")
      /\ SaveBalance(r.user, r.row, r.row.balance - CreateMarketCost)
      /\ Goto(w, "createInsert")
      /\ UNCHANGED <<markets, bets, files, env, histories>>

CreateInsert(w) ==
  /\ At(w, "createInsert")
  /\ markets' = [markets EXCEPT ![req[w].market] = req[w].mrow]
  /\ Finish(w)
  /\ UNCHANGED <<users, bets, files, env, histories>>

-----------------------------------------------------------------------------
(* ResolveMarketHandler and DistributePayoutsWithRefund *)

(* Mutant: a resolved market can be resolved again.                        *)
ResolveStartAgain(w, u, m, o) ==
  /\ markets[m].status # "none"
  /\ markets[m].creator = u
  /\ Start(w, "resolve", [New("resolveSave", u, m) EXCEPT
                            !.choice = o, !.mrow = markets[m]])

ResolveStart(w, u, m, o) ==
  /\ markets[m].status = "open"
  /\ markets[m].creator = u
  /\ Start(w, "resolve", [New("resolveSave", u, m) EXCEPT
                            !.choice = o, !.mrow = markets[m]])

ResolveSave(w) ==
  LET r == req[w]
  IN  /\ At(w, "resolveSave")
      /\ markets' = [markets EXCEPT ![r.market] =
                       [r.mrow EXCEPT !.status = r.choice]]
      /\ Goto(w, IF r.choice = "N/A" THEN "refundBets" ELSE "payMarket")
      /\ UNCHANGED <<users, bets, files, env, histories>>

PayReadMarket(w) ==
  /\ At(w, "payMarket")
  /\ Now(w, [req[w] EXCEPT !.pc = "payBets",
                           !.mrow = markets[req[w].market]])
  /\ UNCHANGED <<db, env, histories>>

(* The loop over the payments: done when nothing is owed.                  *)
PayNext(w, owed) ==
  IF owed = {} THEN Finish(w)
  ELSE Now(w, [req[w] EXCEPT !.pc = "payRead", !.owed = owed,
                             !.paying = NoPayment])

Winnings(log, status) ==
  LET positions == Positions(Untimed(log), status)
  IN  {[user |-> u, amount |-> positions[u].value, key |-> 0] :
         u \in {x \in Users : positions[x].value > 0}}

PayReadBets(w) ==
  /\ At(w, "payBets")
  /\ \E log \in GetBetsForMarket(req[w].market) :
       PayNext(w, Winnings(log, req[w].mrow.status))
  /\ UNCHANGED <<db, env, histories>>

(* Mutant: the participation fee is refunded with every row.               *)
RefundsWithFee(log) ==
  {[user |-> log[i].user, amount |-> log[i].amount + InitialBetFee,
    key |-> log[i].at] : i \in 1..Len(log)}

(* refundAllBets: one refund per row, fees excluded, sales negative.       *)
Refunds(log) ==
  {[user |-> log[i].user, amount |-> log[i].amount, key |-> log[i].at] :
     i \in 1..Len(log)}

RefundReadBets(w) ==
  /\ At(w, "refundBets")
  /\ PayNext(w, Refunds(bets[req[w].market]))
  /\ UNCHANGED <<db, env, histories>>

(* Mutant: the loop never gets to the refunds of sales.                    *)
PayReadUserPositive(w) ==
  /\ At(w, "payRead")
  /\ \E p \in {q \in req[w].owed : q.amount > 0} :
       Now(w, [req[w] EXCEPT !.pc = "paySave", !.paying = p,
                             !.row = users[p.user]])
  /\ UNCHANGED <<db, env, histories>>

(* ApplyTransactionToUser(WIN or REFUND) for one payment, in any order.    *)
PayReadUser(w) ==
  /\ At(w, "payRead")
  /\ \E p \in req[w].owed :
       Now(w, [req[w] EXCEPT !.pc = "paySave", !.paying = p,
                             !.row = users[p.user]])
  /\ UNCHANGED <<db, env, histories>>

PaySave(w) ==
  LET r == req[w]
      p == r.paying
  IN  /\ At(w, "paySave")
      /\ SaveBalance(p.user, r.row, r.row.balance + p.amount)
      /\ clawback' = [clawback EXCEPT ![p.user] =
                        IF p.amount < 0 THEN @ - p.amount ELSE @]
      /\ PayNext(w, r.owed \ {p})
      /\ UNCHANGED <<markets, bets, files, env, paid, named>>

-----------------------------------------------------------------------------
(* ChangeDescription, ChangeDisplayName, ChangeEmoji: read, then save the  *)
(* whole row.                                                              *)

EditStart(w, u) ==
  Start(w, "edit", [New("editSave", u, SomeMarket) EXCEPT !.row = users[u]])

EditSave(w) ==
  LET r == req[w]
  IN  /\ At(w, "editSave")
      /\ users' = [users EXCEPT ![r.user] = [r.row EXCEPT !.profile = r.id]]
      /\ Finish(w)
      /\ UNCHANGED <<markets, bets, files, env, histories>>

-----------------------------------------------------------------------------
(* UploadMarketImageHandler: new file, save the market row, old file.      *)

ImageStart(w, u, m) ==
  /\ markets[m].status # "none"
  /\ markets[m].creator = u \/ u \in Admins
  /\ Start(w, "image", [New("imageWrite", u, m) EXCEPT !.mrow = markets[m]])

(* Mutant: the old file is deleted before the market row is saved.         *)
ImageWriteDeletingOld(w) ==
  /\ At(w, "imageWrite")
  /\ files' = (files \cup {req[w].id}) \ {req[w].mrow.image}
  /\ Goto(w, "imageSave")
  /\ UNCHANGED <<users, markets, bets, env, histories>>

ImageWrite(w) ==
  /\ At(w, "imageWrite")
  /\ files' = files \cup {req[w].id}
  /\ Goto(w, "imageSave")
  /\ UNCHANGED <<users, markets, bets, env, histories>>

ImageSave(w) ==
  LET r == req[w]
  IN  /\ At(w, "imageSave")
      /\ markets' = [markets EXCEPT ![r.market] =
                       [r.mrow EXCEPT !.image = r.id]]
      /\ IF r.mrow.image = 0 THEN Finish(w) ELSE Goto(w, "imageDelete")
      /\ UNCHANGED <<users, bets, files, env, histories>>

(* The save fails and the handler removes the file it wrote.               *)
ImageSaveFails(w) ==
  /\ CanFail
  /\ At(w, "imageSave")
  /\ files' = files \ {req[w].id}
  /\ Finish(w)
  /\ UNCHANGED <<users, markets, bets, env, histories>>

ImageDelete(w) ==
  /\ At(w, "imageDelete")
  /\ files' = files \ {req[w].mrow.image}
  /\ Finish(w)
  /\ UNCHANGED <<users, markets, bets, env, histories>>

-----------------------------------------------------------------------------
(* The market's ResolutionDateTime passes.                                 *)
TimePasses(m) ==
  /\ markets[m].status # "none"
  /\ closedAt[m] = NotYet
  /\ closedAt' = [closedAt EXCEPT ![m] = served]
  /\ UNCHANGED <<db, req, clock, served, histories>>

(* The next database call of the request fails, or the process dies.       *)
Fail(w) ==
  /\ CanFail
  /\ ~At(w, "idle")
  /\ Finish(w)
  /\ UNCHANGED <<db, env, histories>>

Arrive(w) ==
  \/ \E u \in Users, m \in Markets, o \in Outcomes, a \in Amounts :
       BuyStart(w, u, m, o, a) \/ SellStart(w, u, m, o, a)
  \/ \E u \in Users, m \in Markets, row \in BodyRow :
       CreateStart(w, u, m, row)
  \/ \E u \in Users, m \in Markets, o \in Resolutions :
       ResolveStart(w, u, m, o)
  \/ \E u \in Users : EditStart(w, u)
  \/ \E u \in Users, m \in Markets : ImageStart(w, u, m)

Step(w) ==
  \/ BuyCheckStatus(w) \/ BuyCheckBalance(w) \/ BuyValidate(w)
  \/ BuyDebit(w) \/ BuyInsert(w)
  \/ SellCheckStatus(w) \/ SellReadMarket(w) \/ SellQuote(w)
  \/ SellValidate(w) \/ SellReadUser(w) \/ SellCredit(w) \/ SellInsert(w)
  \/ CreateDebit(w) \/ CreateInsert(w)
  \/ ResolveSave(w) \/ PayReadMarket(w) \/ PayReadBets(w)
  \/ RefundReadBets(w) \/ PayReadUser(w) \/ PaySave(w)
  \/ EditSave(w)
  \/ ImageWrite(w) \/ ImageSave(w) \/ ImageSaveFails(w) \/ ImageDelete(w)

Next ==
  \/ \E w \in Workers : Arrive(w) \/ Step(w) \/ Fail(w)
  \/ \E m \in Markets : TimePasses(m)

Spec == Init /\ [][Next]_vars

(* The Go scheduler runs every goroutine whose call has returned; nothing  *)
(* makes a client send a request or a resolution time pass.                *)
FairSpec == Spec /\ \A w \in Workers : WF_vars(Step(w))
=============================================================================
