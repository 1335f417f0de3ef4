---------------------------- MODULE LedgerProofs ----------------------------
(***************************************************************************)
(* The theorems about the accounts of the whole exchange, when requests    *)
(* are handled one at a time.                                              *)
(***************************************************************************)
EXTENDS ExchangeProofs, ExchangeLedger, SystemMetrics

-----------------------------------------------------------------------------
(* The inductive invariant: alone, a request finds the tables as it read   *)
(* them.                                                                   *)

HoldsRow == {"buyStatus", "buyFees", "buyValidate", "buyDebit", "sellCredit",
             "createDebit", "editSave"}
HoldsMarket ==
  {"resolveSave", "imageWrite", "imageSave", "payBets", "sellBets"}
Open == {"buyFees", "buyValidate", "buyDebit", "buyInsert", "sellMarket",
         "sellBets", "sellValidate", "sellRead", "sellCredit", "sellInsert",
         "resolveSave"}
Creating == {"createDebit", "createInsert"}
Settles  == {"payMarket", "payBets", "refundBets"}

(* The balance and the status read earlier are still those of the tables.  *)
RowsCurrent(w) ==
  LET r == req[w]
  IN  /\ r.pc \in HoldsRow => r.row.balance = users[r.user].balance
      /\ r.pc = "paySave" => r.row.balance = users[r.paying.user].balance
      /\ r.pc \in HoldsMarket
           => r.mrow.status = markets[r.market].status

(* The market is still as the checks of its status found it.               *)
StatusHolds(w) ==
  LET r == req[w]
      status == markets[r.market].status
  IN  /\ r.pc \in Open => status = "open"
      /\ r.pc \in Creating => status = "none" /\ r.mrow.status \in Statuses
      /\ r.pc \in {"payMarket", "payBets"} => status \in Outcomes
      /\ r.pc = "refundBets" => status = "N/A"

(* Only the loop over the payments owes anything.                          *)
OwedHolds(w) ==
  LET r == req[w]
  IN  /\ r.pc = "payRead" => r.owed # {}
      /\ r.pc = "paySave" => r.paying \in r.owed
      /\ r.pc \notin {"payRead", "paySave"} => r.owed = {}
      /\ IsFiniteSet(r.owed)

(* A purchase costs its amount and the fees; without failures the first    *)
(* fee is charged to those who have no row yet.                            *)
EntryFee(u, m) == IF u \in Bettors(bets[m]) THEN 0 ELSE InitialBetFee

CostHolds(w) ==
  LET r == req[w]
  IN  /\ r.pc \in {"buyValidate", "buyDebit", "buyInsert"} /\ r.amount >= 1
           => /\ r.due >= r.amount
              /\ ~CanFail => r.due = r.amount + BuySharesFee
                                       + EntryFee(r.user, r.market)
      /\ r.pc \in {"buyInsert", "createInsert"}
           => users[r.user].balance >= -MaxDebt

(* A sale was quoted from the pool that it takes its shares out of.        *)
QuoteHolds(w) ==
  LET r == req[w]
  IN  r.pc \in {"sellValidate", "sellRead", "sellCredit", "sellInsert"}
        => /\ r.shares <= r.due /\ r.due <= Volume(r.market)
           /\ r.user \in Bettors(bets[r.market])

(* The stamp drawn last is that of the row that comes next.                *)
StampHolds(w) == req[w].pc \in Stamped => req[w].at = clock

SerialHolds(w) ==
  /\ RowsCurrent(w) /\ StatusHolds(w) /\ OwedHolds(w) /\ CostHolds(w)
  /\ QuoteHolds(w) /\ StampHolds(w)

(* Nobody bets on a market before it exists, no pool is overdrawn, and     *)
(* everybody with a row on a market has bought there.                      *)
LogHolds(m) ==
  /\ markets[m].status = "none" => bets[m] = <<>>
  /\ Volume(m) >= 0
  /\ Bettors(bets[m]) = Buyers(m)

SerialInv ==
  /\ \A w \in Workers : SerialHolds(w)
  /\ \A m \in Markets : LogHolds(m)
  /\ DealsOut(<<>>)

-----------------------------------------------------------------------------
(* Lemmas: logs, what they hold, and what a row adds to them.              *)

LEMMA AmountsInt == \A a \in BetAmounts : a \in Int
  BY ExchangeAssumption DEF BetAmounts

LEMMA LogTyped ==
  ASSUME NEW log \in Seq(StampedRow)
  PROVE  /\ Len(log) \in Nat /\ DOMAIN log = 1..Len(log)
         /\ \A i \in 1..Len(log) :
              /\ log[i] \in StampedRow /\ log[i].user \in Users
              /\ log[i].amount \in Int /\ log[i].at \in Nat
         /\ IsFiniteSet(DOMAIN log)
         /\ VolumeOf(log) \in Int
<1>1. Len(log) \in Nat /\ DOMAIN log = 1..Len(log)
  BY LenProperties
<1>3. ASSUME NEW i \in 1..Len(log)
      PROVE  /\ log[i] \in StampedRow /\ log[i].user \in Users
             /\ log[i].amount \in Int /\ log[i].at \in Nat
  <2>1. log[i] \in StampedRow
    BY ElementOfSeq
  <2> QED  BY <2>1, AmountsInt DEF StampedRow
<1>4. IsFiniteSet(DOMAIN log)
  BY <1>1, FS_Interval
<1>5. VolumeOf(log) \in Int
  <2> DEFINE f == [i \in DOMAIN log |-> log[i].amount]
  <2>1. IntsOn(f, DOMAIN log)
    BY <1>1, <1>3 DEF IntsOn
  <2> HIDE DEF f
  <2>2. SumOf(f, DOMAIN log) \in Int
    BY <1>4, <2>1, SumInt
  <2> QED  BY <2>2 DEF VolumeOf, f
<1> QED  BY <1>1, <1>3, <1>4, <1>5

LEMMA EmptyLog == VolumeOf(<<>>) = 0 /\ Bettors(<<>>) = {}
<1>1. DOMAIN <<>> = {}
  BY EmptySeq
<1> QED  BY <1>1, SumEmpty DEF VolumeOf, Bettors

(* The row stamped last goes last.                                         *)
LEMMA InsertAppends ==
  ASSUME NEW log \in Seq(StampedRow), NEW row \in StampedRow,
         \A i \in 1..Len(log) : log[i].at < row.at
  PROVE  InsertByTime(log, row) = Append(log, row)
<1>1. Len(log) \in Nat
  BY LogTyped
<1> DEFINE n == Len(log) + 1
<1>2. ASSUME NEW i \in 1..n
      PROVE  InsertByTime(log, row)[i] = Append(log, row)[i]
  <2>1. CASE i <= Len(log)
    <3>1. i \in 1..Len(log)
      BY <1>1, <2>1
    <3> QED  BY <1>1, <3>1 DEF InsertByTime
  <2>2. CASE ~(i <= Len(log))
    <3>1. i = n
      BY <1>1, <2>2
    <3>2. i = 1 \/ i - 1 \in 1..Len(log)
      BY <1>1, <3>1
    <3> QED  BY <1>1, <2>2, <3>1, <3>2 DEF InsertByTime
  <2> QED  BY <2>1, <2>2
<1>3. InsertByTime(log, row) = [i \in 1..n |-> InsertByTime(log, row)[i]]
  BY DEF InsertByTime
<1>4. Append(log, row) = [i \in 1..n |-> Append(log, row)[i]]
  <2>1. /\ Append(log, row) \in Seq(StampedRow)
        /\ Len(Append(log, row)) = n
    BY <1>1
  <2> QED  BY <2>1, LenProperties
<1> HIDE DEF n
<1> QED  BY <1>2, <1>3, <1>4

LEMMA RowAppended ==
  ASSUME NEW log \in Seq(StampedRow), NEW row \in StampedRow
  PROVE  /\ VolumeOf(Append(log, row)) = VolumeOf(log) + row.amount
         /\ Bettors(Append(log, row)) = Bettors(log) \cup {row.user}
         /\ DOMAIN Append(log, row) = DOMAIN log \cup {Len(log) + 1}
         /\ \A i \in DOMAIN log : Append(log, row)[i] = log[i]
         /\ Append(log, row)[Len(log) + 1] = row
<1> DEFINE n   == Len(log)
           new == Append(log, row)
           f   == [i \in DOMAIN log |-> log[i].amount]
           g   == [i \in DOMAIN new |-> new[i].amount]
<1>1. /\ n \in Nat /\ DOMAIN log = 1..n /\ IsFiniteSet(DOMAIN log)
      /\ \A i \in 1..n : log[i].amount \in Int
  BY LogTyped
<1>2. new \in Seq(StampedRow) /\ Len(new) = n + 1 /\ DOMAIN new = 1..(n + 1)
  BY <1>1, LenProperties
<1>3. /\ \A i \in 1..n : new[i] = log[i]
      /\ new[n + 1] = row
  BY <1>1
<1>4. 1..(n + 1) = (1..n) \cup {n + 1} /\ n + 1 \notin 1..n
  BY <1>1
<1>5. row.amount \in Int
  BY AmountsInt DEF StampedRow
<1> HIDE DEF new
<1>6. VolumeOf(new) = VolumeOf(log) + row.amount
  <2>1. /\ \A i \in 1..n : g[i] = f[i] /\ f[i] = log[i].amount
        /\ g[n + 1] = row.amount
    BY <1>1, <1>2, <1>3, <1>4
  <2>2. IntsOn(f, 1..n) /\ IntsOn(g, 1..n)
    BY <1>1, <2>1 DEF IntsOn
  <2> HIDE DEF f, g
  <2>3. SumOf(g, 1..n) = SumOf(f, 1..n)
    BY <1>1, <2>1, <2>2, SumCongruent
  <2>4. SumOf(g, (1..n) \cup {n + 1}) = g[n + 1] + SumOf(g, 1..n)
    BY <1>1, <1>4, <1>5, <2>1, <2>2, SumAdd
  <2>5. SumOf(f, 1..n) \in Int
    BY <1>1, <2>2, SumInt
  <2>6. VolumeOf(new) = SumOf(g, DOMAIN new)
    BY DEF VolumeOf, g
  <2>7. VolumeOf(log) = SumOf(f, DOMAIN log)
    BY DEF VolumeOf, f
  <2>8. SumOf(g, DOMAIN new) = g[n + 1] + SumOf(g, 1..n)
    BY <1>2, <1>4, <2>4, Zenon
  <2>9. SumOf(f, DOMAIN log) = SumOf(f, 1..n)
    BY <1>1, Zenon
  <2> HIDE DEF n
  <2> QED  BY <1>5, <2>1, <2>3, <2>5, <2>6, <2>7, <2>8, <2>9
<1>7. Bettors(new) = Bettors(log) \cup {row.user}
  BY <1>1, <1>2, <1>3, <1>4 DEF Bettors
<1> QED  BY <1>1, <1>2, <1>3, <1>4, <1>6, <1>7 DEF new

(* N/A refunds the pool: every row once, whatever the stamps are.          *)
LEMMA RefundsMakeVolume ==
  ASSUME NEW log \in Seq(StampedRow), Sorted(log)
  PROVE  /\ Total(Refunds(log)) = VolumeOf(log)
         /\ \A p \in Refunds(log) : p.user \in Bettors(log)
         /\ IsFiniteSet(Refunds(log)) /\ Refunds(log) \subseteq Payment
<1> DEFINE n == Len(log)
           b == [i \in 1..n |-> [user |-> log[i].user,
                                 amount |-> log[i].amount,
                                 key |-> log[i].at]]
           f == [p \in Refunds(log) |-> p.amount]
           g == [i \in DOMAIN log |-> log[i].amount]
<1>1. /\ n \in Nat /\ DOMAIN log = 1..n /\ IsFiniteSet(1..n)
      /\ \A i \in 1..n : /\ log[i].user \in Users
                         /\ log[i].amount \in Int /\ log[i].at \in Nat
  BY LogTyped
<1>2. Refunds(log) = {b[i] : i \in 1..n}
  BY DEF Refunds
<1>3. \A i, j \in 1..n : b[i] = b[j] => i = j
  <2> SUFFICES ASSUME NEW i \in 1..n, NEW j \in 1..n, b[i] = b[j]
               PROVE  i = j
    OBVIOUS
  <2>1. b[i].key = log[i].at /\ b[j].key = log[j].at
    OBVIOUS
  <2>2. ~(i < j) /\ ~(j < i)
    BY <1>1, <2>1 DEF Sorted
  <2> QED  BY <2>2
<1>4. \A i \in 1..n : /\ f[b[i]] \in Int /\ g[i] = f[b[i]]
                      /\ b[i] \in Payment /\ b[i].user = log[i].user
  <2> SUFFICES ASSUME NEW i \in 1..n
               PROVE  /\ f[b[i]] \in Int /\ g[i] = f[b[i]]
                      /\ b[i] \in Payment /\ b[i].user = log[i].user
    OBVIOUS
  <2>1. b[i] \in Refunds(log) /\ b[i].amount = log[i].amount
    BY <1>2
  <2> QED  BY <1>1, <2>1 DEF Payment
<1> HIDE DEF b, f, g
<1> DEFINE S == 1..n
<1> HIDE DEF S
<1>5. SumOf(f, {b[i] : i \in S}) = SumOf(g, S)
  <2>1. /\ IsFiniteSet(S) /\ \A i, j \in S : b[i] = b[j] => i = j
        /\ \A i \in S : f[b[i]] \in Int /\ g[i] = f[b[i]]
    BY <1>1, <1>3, <1>4 DEF S
  <2> HIDE DEF n
  <2> QED  BY <2>1, SumImage
<1>6. Total(Refunds(log)) = VolumeOf(log)
  <2>1. Total(Refunds(log)) = SumOf(f, {b[i] : i \in S})
    BY <1>2, Zenon DEF Total, f, S
  <2>2. VolumeOf(log) = SumOf(g, S)
    BY <1>1, Zenon DEF VolumeOf, g, S
  <2> QED  BY <1>5, <2>1, <2>2
<1>7. IsFiniteSet({b[i] : i \in 1..n})
  <2>1. IsFiniteSet(S)
    BY <1>1 DEF S
  <2>2. IsFiniteSet({b[i] : i \in S})
    BY <2>1, ImageFinite
  <2> QED  BY <2>2 DEF S
<1> QED  BY <1>1, <1>2, <1>4, <1>6, <1>7 DEF Bettors

-----------------------------------------------------------------------------
(* What a step of the only request does to the accounts: nothing, or one   *)
(* of these.                                                               *)

BalancesKept == \A u \in Users : users'[u].balance = users[u].balance
StatusesKept == \A m \in Markets : markets'[m].status = markets[m].status
Same == BalancesKept /\ StatusesKept /\ bets' = bets

BalanceMoves(u, b) ==
  \A x \in Users :
    users'[x].balance = IF x = u THEN users[x].balance + b
                        ELSE users[x].balance

StatusMoves(m, s) ==
  \A x \in Markets :
    markets'[x].status = IF x = m THEN s ELSE markets[x].status

Busy == Inserting \cup {"createInsert"} \cup Settles

Quiet(w) ==
  /\ Same
  /\ req'[w].owed = req[w].owed
  /\ \/ req' = req
     \/ req[w].pc \notin Busy /\ req'[w].pc \notin Busy
     \/ /\ req[w].pc = "payMarket" /\ req'[w].pc = "payBets"
        /\ req'[w].market = req[w].market

Debits(w, label, next, b) ==
  /\ req[w].pc = label
  /\ req'[w] = [req[w] EXCEPT !.pc = next]
  /\ BalanceMoves(req[w].user, b)
  /\ StatusesKept /\ bets' = bets

Inserts(w, label, amount) ==
  /\ req[w].pc = label
  /\ req'[w] = Idle
  /\ BalancesKept /\ StatusesKept
  /\ \E row \in StampedRow :
       /\ row.user = req[w].user /\ row.amount = amount
       /\ bets' = [bets EXCEPT ![req[w].market] = Append(@, row)]

Opens(w) ==
  /\ req[w].pc = "createInsert"
  /\ req'[w] = Idle
  /\ \E s \in Statuses : StatusMoves(req[w].market, s)
  /\ BalancesKept /\ bets' = bets

Resolves(w) ==
  /\ req[w].pc = "resolveSave"
  /\ req[w].choice \in {"YES", "NO", "N/A"}
  /\ req'[w] = [req[w] EXCEPT !.pc = IF req[w].choice = "N/A"
                                     THEN "refundBets" ELSE "payMarket"]
  /\ StatusMoves(req[w].market, req[w].choice)
  /\ BalancesKept /\ bets' = bets

SettlesWith(w, label, owed) ==
  /\ req[w].pc = label
  /\ owed \subseteq Payment /\ IsFiniteSet(owed)
  /\ PayNext(w, owed)
  /\ Same

Decides(w) ==
  \/ \E log \in GetBetsForMarket(req[w].market) :
       SettlesWith(w, "payBets",
                   Winnings(log, markets[req[w].market].status))
  \/ SettlesWith(w, "refundBets", Refunds(bets[req[w].market]))

Pays(w) ==
  LET p == req[w].paying
  IN  /\ req[w].pc = "paySave"
      /\ PayNext(w, req[w].owed \ {p})
      /\ BalanceMoves(p.user, p.amount)
      /\ StatusesKept /\ bets' = bets

Dies(w) == CanFail /\ Same /\ req'[w] = Idle

SerialStep(w) ==
  \/ Quiet(w) \/ Dies(w)
  \/ Debits(w, "buyDebit", "buyInsert", -req[w].due)
  \/ Debits(w, "sellCredit", "sellInsert", req[w].due)
  \/ Debits(w, "createDebit", "createInsert", -CreateMarketCost)
  \/ Inserts(w, "buyInsert", req[w].amount)
  \/ Inserts(w, "sellInsert", -req[w].shares)
  \/ Opens(w) \/ Resolves(w) \/ Decides(w) \/ Pays(w)

-----------------------------------------------------------------------------
(* Every step of the only request is one of these, and keeps the           *)
(* invariant.                                                              *)

Serial(w) ==
  /\ Workers = {w}
  /\ IsFiniteSet(Users)
  /\ IInv /\ StampInv /\ SerialInv /\ PoolKept

LEMMA SerialTyped ==
  ASSUME NEW w, Serial(w)
  PROVE  /\ w \in Workers /\ TypeOK
         /\ req[w] \in Request /\ req[w].user \in Users
         /\ req[w].market \in Markets /\ req[w].paying \in Payment
         /\ SerialHolds(w) /\ LocalSound(w) /\ StampSound(w)
         /\ \A u \in Users : users[u] \in UserRow /\ users[u].balance \in Int
         /\ \A m \in Markets : /\ markets[m] \in MarketRow
                               /\ bets[m] \in Seq(StampedRow)
                               /\ LogHolds(m) /\ DealsOut(bets[m])
                               /\ Volume(m) \in Int
<1>1. w \in Workers /\ TypeOK
  BY DEF Serial, IInv
<1>2. \A m \in Markets : bets[m] \in Seq(StampedRow) /\ Volume(m) \in Int
  BY <1>1, LogTyped DEF TypeOK, Volume
<1> QED
  BY <1>1, <1>2
  DEF Serial, IInv, StampInv, SerialInv, PoolKept, TypeOK, Request, UserRow

(* The markets stay; the request moves.                                    *)
LEMMA LogsKept ==
  ASSUME NEW w, Serial(w), StatusesKept, bets' = bets, SerialHolds(w)'
  PROVE  SerialInv'
<1>1. ASSUME NEW m \in Markets PROVE LogHolds(m)'
  <2>1. LogHolds(m) /\ markets'[m].status = markets[m].status
    BY SerialTyped DEF StatusesKept
  <2> QED  BY <2>1 DEF LogHolds, Volume, Buyers, Buys
<1>2. \A x \in Workers : SerialHolds(x)'
  BY DEF Serial
<1> QED  BY <1>1, <1>2 DEF SerialInv, Serial

LEMMA SameHolds ==
  ASSUME NEW w, Serial(w), Same, SerialHolds(w)'
  PROVE  SerialInv'
  BY LogsKept DEF Same

LEMMA IdleHolds ==
  ASSUME NEW w \in Workers, req'[w] = Idle
  PROVE  SerialHolds(w)'
<1>1. Idle.pc = "idle" /\ Idle.owed = {}
  BY DEF Idle
<1> HIDE DEF Idle
<1> QED
  BY <1>1, FS_EmptySet
  DEF SerialHolds, RowsCurrent, StatusHolds, OwedHolds, CostHolds, QuoteHolds,
      StampHolds, HoldsRow, HoldsMarket, Open, Creating, Stamped, Paying,
      Inserting

(* A request that ends without a trace.                                    *)
LEMMA EndsQuietly ==
  ASSUME NEW w, Serial(w), Same, req'[w] = Idle,
         req[w].pc \notin Busy \cup {"payRead", "paySave"}
  PROVE  SerialInv' /\ SerialStep(w)
<1>1. w \in Workers /\ req[w].owed = {}
  BY SerialTyped DEF SerialHolds, OwedHolds
<1>2. req'[w].owed = {} /\ req'[w].pc = "idle"
  BY DEF Idle
<1>3. Quiet(w)
  BY <1>1, <1>2 DEF Quiet, Busy, Inserting, Settles
<1> QED  BY <1>1, <1>3, IdleHolds, SameHolds DEF SerialStep

LEMMA FailHolds ==
  ASSUME NEW w, Serial(w), Fail(w)
  PROVE  SerialInv' /\ SerialStep(w)
<1>1. req'[w] = Idle /\ CanFail /\ Same
  BY SerialTyped, NowIs
  DEF Fail, Finish, db, Same, BalancesKept, StatusesKept
<1> QED  BY <1>1, SerialTyped, IdleHolds, SameHolds DEF SerialStep, Dies

(* A market closes.                                                        *)
LEMMA TimeHolds ==
  ASSUME NEW w, Serial(w), UNCHANGED <<db, req, clock>>
  PROVE  SerialInv' /\ SerialStep(w)
<1>1. Same /\ req' = req /\ clock' = clock /\ users' = users
      /\ markets' = markets
  BY DEF db, Same, BalancesKept, StatusesKept
<1>2. SerialHolds(w)'
  <2>1. SerialHolds(w)
    BY SerialTyped
  <2> QED
    BY <1>1, <2>1
    DEF Same, SerialHolds, RowsCurrent, StatusHolds, OwedHolds, CostHolds,
        QuoteHolds, StampHolds, EntryFee, Volume
<1> QED  BY <1>1, <1>2, SameHolds DEF SerialStep, Quiet

(* A request arrives with what it has read.                                *)
LEMMA StartHolds ==
  ASSUME NEW w, Serial(w), NEW r \in Request, NEW handler,
         Begin(w, handler, r), r.pc \in Arriving, r.owed = {},
         r.pc \in {"buyStatus", "createDebit", "editSave"}
           => r.row.balance = users[r.user].balance,
         r.pc \in {"resolveSave", "imageWrite"}
           => r.mrow.status = markets[r.market].status,
         r.pc = "resolveSave" => markets[r.market].status = "open",
         r.pc = "createDebit"
           => /\ markets[r.market].status = "none"
              /\ r.mrow.status \in Statuses
  PROVE  SerialInv' /\ SerialStep(w)
<1>1. /\ req[w].pc = "idle" /\ req'[w] = r /\ UNCHANGED <<db, clock>>
      /\ req[w].owed = {}
  BY SerialTyped, NowIs DEF Begin, At, SerialHolds, OwedHolds
<1>2. Same /\ users' = users /\ markets' = markets
  BY <1>1 DEF db, Same, BalancesKept, StatusesKept
<1>3. SerialHolds(w)'
  BY <1>1, <1>2, FS_EmptySet
  DEF Arriving, SerialHolds, RowsCurrent, StatusHolds, OwedHolds, CostHolds,
      QuoteHolds, StampHolds, HoldsRow, HoldsMarket, Open, Creating, Stamped,
      Paying, Inserting
<1>4. Quiet(w)
  BY <1>1, <1>2 DEF Quiet, Arriving, Busy, Inserting, Settles
<1> QED  BY <1>3, <1>4, <1>2, SameHolds DEF SerialStep

LEMMA NewOwesNothing ==
  ASSUME TypeOK, NEW label \in Labels, NEW u \in Users, NEW m \in Markets
  PROVE  /\ New(label, u, m) \in Request
         /\ New(label, u, m).pc = label
         /\ New(label, u, m).user = u
         /\ New(label, u, m).market = m
         /\ New(label, u, m).owed = {}
<1>1. New(label, u, m).owed = {}
  BY IdleTyped DEF New, Idle
<1> QED  BY <1>1, NewTyped

LEMMA ArriveHolds ==
  ASSUME NEW w, Serial(w), Arrive(w)
  PROVE  SerialInv' /\ SerialStep(w)
<1>1. /\ TypeOK /\ \A u \in Users : users[u] \in UserRow
      /\ \A m \in Markets : markets[m] \in MarketRow
      /\ Amounts \subseteq Int
  BY SerialTyped, ExchangeAssumption
<1>2. ASSUME NEW u \in Users, NEW m \in Markets, NEW o \in Outcomes,
             NEW a \in Amounts, BuyStart(w, u, m, o, a)
      PROVE  SerialInv' /\ SerialStep(w)
  <2> DEFINE new == New("buyStatus", u, m)
             r   == [new EXCEPT !.choice = o, !.amount = a, !.row = users[u]]
  <2>1. /\ new \in Request /\ new.pc = "buyStatus" /\ new.user = u
        /\ new.owed = {}
    BY <1>1, NewOwesNothing DEF Labels
  <2>2. Begin(w, "buy", r)
    BY <1>2 DEF BuyStart, Start
  <2> HIDE DEF new
  <2>3. /\ r \in Request /\ r.pc = "buyStatus" /\ r.owed = {}
        /\ r.row = users[r.user]
    BY <1>1, <2>1 DEF Request
  <2> HIDE DEF r
  <2> QED  BY <2>2, <2>3, StartHolds DEF Arriving
<1>3. ASSUME NEW u \in Users, NEW m \in Markets, NEW o \in Outcomes,
             NEW a \in Amounts, SellStart(w, u, m, o, a)
      PROVE  SerialInv' /\ SerialStep(w)
  <2> DEFINE new == New("sellStatus", u, m)
             r   == [new EXCEPT !.choice = o, !.amount = a]
  <2>1. new \in Request /\ new.pc = "sellStatus" /\ new.owed = {}
    BY <1>1, NewOwesNothing DEF Labels
  <2>2. Begin(w, "sell", r)
    BY <1>3 DEF SellStart, Start
  <2> HIDE DEF new
  <2>3. r \in Request /\ r.pc = "sellStatus" /\ r.owed = {}
    BY <1>1, <2>1 DEF Request
  <2> HIDE DEF r
  <2> QED  BY <2>2, <2>3, StartHolds DEF Arriving
<1>4. ASSUME NEW u \in Users, NEW m \in Markets, NEW row \in BodyRow,
             CreateStart(w, u, m, row)
      PROVE  SerialInv' /\ SerialStep(w)
  <2> DEFINE new  == New("createDebit", u, m)
             r    == [new EXCEPT !.row = users[u], !.mrow = row]
  <2>1. /\ new \in Request /\ new.pc = "createDebit" /\ new.user = u
        /\ new.market = m /\ new.owed = {}
    BY <1>1, NewOwesNothing DEF Labels
  <2>2. Begin(w, "create", r) /\ markets[m].status = "none"
    BY <1>4 DEF CreateStart
  <2>3. row \in MarketRow /\ row.status \in Statuses
    BY BodyTyped
  <2> HIDE DEF new
  <2>4. /\ r \in Request /\ r.pc = "createDebit" /\ r.owed = {}
        /\ r.row = users[r.user] /\ r.mrow = row /\ r.market = m
    BY <1>1, <2>1, <2>3 DEF Request
  <2> HIDE DEF r
  <2> QED  BY <2>2, <2>3, <2>4, StartHolds DEF Arriving
<1>5. ASSUME NEW u \in Users, NEW m \in Markets, NEW o \in Resolutions,
             ResolveStart(w, u, m, o)
      PROVE  SerialInv' /\ SerialStep(w)
  <2> DEFINE new == New("resolveSave", u, m)
             r   == [new EXCEPT !.choice = o, !.mrow = markets[m]]
  <2>1. /\ new \in Request /\ new.pc = "resolveSave" /\ new.market = m
        /\ new.owed = {}
    BY <1>1, NewOwesNothing DEF Labels
  <2>2. Begin(w, "resolve", r) /\ markets[m].status = "open"
    BY <1>5 DEF ResolveStart, Start
  <2> HIDE DEF new
  <2>3. /\ r \in Request /\ r.pc = "resolveSave" /\ r.owed = {}
        /\ r.mrow = markets[r.market] /\ r.market = m
    BY <1>1, <2>1 DEF Request
  <2> HIDE DEF r
  <2> QED  BY <2>2, <2>3, StartHolds DEF Arriving
<1>6. ASSUME NEW u \in Users, EditStart(w, u)
      PROVE  SerialInv' /\ SerialStep(w)
  <2> DEFINE new == New("editSave", u, SomeMarket)
             r   == [new EXCEPT !.row = users[u]]
  <2>1. /\ new \in Request /\ new.pc = "editSave" /\ new.user = u
        /\ new.owed = {}
    BY <1>1, NewOwesNothing, SomeTyped DEF Labels
  <2>2. Begin(w, "edit", r)
    BY <1>6 DEF EditStart, Start
  <2> HIDE DEF new
  <2>3. /\ r \in Request /\ r.pc = "editSave" /\ r.owed = {}
        /\ r.row = users[r.user]
    BY <1>1, <2>1 DEF Request
  <2> HIDE DEF r
  <2> QED  BY <2>2, <2>3, StartHolds DEF Arriving
<1>7. ASSUME NEW u \in Users, NEW m \in Markets, ImageStart(w, u, m)
      PROVE  SerialInv' /\ SerialStep(w)
  <2> DEFINE new == New("imageWrite", u, m)
             r   == [new EXCEPT !.mrow = markets[m]]
  <2>1. /\ new \in Request /\ new.pc = "imageWrite" /\ new.market = m
        /\ new.owed = {}
    BY <1>1, NewOwesNothing DEF Labels
  <2>2. Begin(w, "image", r)
    BY <1>7 DEF ImageStart, Start
  <2> HIDE DEF new
  <2>3. /\ r \in Request /\ r.pc = "imageWrite" /\ r.owed = {}
        /\ r.mrow = markets[r.market]
    BY <1>1, <2>1 DEF Request
  <2> HIDE DEF r
  <2> QED  BY <2>2, <2>3, StartHolds DEF Arriving
<1> QED  BY <1>2, <1>3, <1>4, <1>5, <1>6, <1>7 DEF Arrive

(* A step that only changes what the request holds, with the accounts as   *)
(* they are.                                                               *)
LEMMA MovesQuietly ==
  ASSUME NEW w, Serial(w), NEW r, Now(w, r), Same,
         r.owed = req[w].owed, r.pc \notin Busy, req[w].pc \notin Busy,
         req'[w] = r => SerialHolds(w)'
  PROVE  SerialInv' /\ SerialStep(w)
<1>1. req'[w] = r
  BY SerialTyped, NowIs
<1> QED  BY <1>1, SameHolds DEF SerialStep, Quiet

LEMMA CheckStatusHolds ==
  ASSUME NEW w, Serial(w), NEW next \in {"buyFees", "sellMarket"},
         CheckMarketStatus(w, next),
         \/ At(w, "buyStatus") /\ next = "buyFees"
         \/ At(w, "sellStatus") /\ next = "sellMarket"
  PROVE  SerialInv' /\ SerialStep(w)
<1>1. /\ Same /\ users' = users /\ markets' = markets /\ clock' = clock
      /\ req[w].pc \in {"buyStatus", "sellStatus"}
  BY DEF CheckMarketStatus, db, env, Same, BalancesKept, StatusesKept, At
<1>2. req[w].pc \notin Busy \cup {"payRead", "paySave"}
  BY <1>1 DEF Busy, Inserting, Settles
<1>3. CASE ~Tradable(req[w].market)
  <2>1. req'[w] = Idle
    BY <1>3, SerialTyped, NowIs DEF CheckMarketStatus, Finish
  <2> QED  BY <1>1, <1>2, <2>1, EndsQuietly
<1>4. CASE Tradable(req[w].market)
  <2> DEFINE r == [req[w] EXCEPT !.pc = next]
  <2>1. Now(w, r)
    BY <1>4 DEF CheckMarketStatus, Goto
  <2>2. /\ r.pc = next /\ r.owed = req[w].owed /\ r.row = req[w].row
        /\ r.user = req[w].user /\ r.market = req[w].market
    BY SerialTyped DEF Request
  <2> HIDE DEF r
  <2>3. ASSUME req'[w] = r  PROVE SerialHolds(w)'
    <3>1. SerialHolds(w) /\ markets[req[w].market].status = "open"
      BY <1>4, SerialTyped DEF Tradable
    <3> QED
      BY <1>1, <2>2, <2>3, <3>1
      DEF At, SerialHolds, RowsCurrent, StatusHolds, OwedHolds, CostHolds,
          QuoteHolds, StampHolds, HoldsRow, HoldsMarket, Open, Creating,
          Stamped, Paying, Inserting
  <2>4. r.pc \notin Busy
    BY <2>2 DEF Busy, Inserting, Settles
  <2> QED  BY <1>1, <1>2, <2>1, <2>2, <2>3, <2>4, MovesQuietly
<1> QED  BY <1>3, <1>4

-----------------------------------------------------------------------------
(* Buying *)

LEMMA FeesAre ==
  ASSUME NEW log \in Seq(StampedRow), NEW u \in Users, NEW a \in Int, a >= 1
  PROVE  /\ GetBetFees(log, u, a)
              = BuySharesFee
                  + (IF u \in Bettors(log) THEN 0 ELSE InitialBetFee)
         /\ GetBetFees(log, u, a) \in Nat
<1>1. (\E i \in 1..Len(log) : log[i].user = u) <=> u \in Bettors(log)
  BY LogTyped DEF Bettors
<1> QED  BY <1>1, ExchangeAssumption DEF GetBetFees, TransactionFee

LEMMA BuyCheckBalanceHolds ==
  ASSUME NEW w, Serial(w), BuyCheckBalance(w)
  PROVE  SerialInv' /\ SerialStep(w)
<1> DEFINE r == req[w]
<1>1. PICK log \in GetBetsForMarket(r.market) :
        LET cost == r.amount + GetBetFees(log, r.user, r.amount)
        IN  IF Affordable(r.row, cost)
            THEN /\ clock' = clock + 1
                 /\ Now(w, [r EXCEPT !.pc = "buyValidate",
                                     !.due = cost, !.at = clock + 1])
            ELSE Finish(w) /\ UNCHANGED clock
  BY DEF BuyCheckBalance
<1>2. /\ Same /\ users' = users /\ markets' = markets /\ r.pc = "buyFees"
  BY DEF BuyCheckBalance, db, Same, BalancesKept, StatusesKept, At
<1>3. r.pc \notin Busy \cup {"payRead", "paySave"}
  BY <1>2 DEF Busy, Inserting, Settles
<1> DEFINE cost == r.amount + GetBetFees(log, r.user, r.amount)
<1>4. CASE ~Affordable(r.row, cost)
  <2>1. req'[w] = Idle
    BY <1>1, <1>4, SerialTyped, NowIs DEF Finish
  <2> QED  BY <1>2, <1>3, <2>1, EndsQuietly
<1>5. CASE Affordable(r.row, cost)
  <2> DEFINE next == [r EXCEPT !.pc = "buyValidate", !.due = cost,
                               !.at = clock + 1]
  <2>1. Now(w, next) /\ clock' = clock + 1
    BY <1>1, <1>5
  <2>2. /\ next.pc = "buyValidate" /\ next.owed = r.owed /\ next.row = r.row
        /\ next.user = r.user /\ next.market = r.market
        /\ next.amount = r.amount /\ next.due = cost /\ next.at = clock + 1
    BY SerialTyped DEF Request
  <2>3. r.amount >= 1 =>
          /\ cost >= r.amount
          /\ ~CanFail => cost = r.amount + BuySharesFee
                                  + EntryFee(r.user, r.market)
    <3> SUFFICES ASSUME r.amount >= 1
                 PROVE  /\ cost >= r.amount
                        /\ ~CanFail => cost = r.amount + BuySharesFee
                                                + EntryFee(r.user, r.market)
      OBVIOUS
    <3>1. r.amount \in Int /\ r.user \in Users /\ log \in Seq(StampedRow)
      <4>1. log = bets[r.market] \/ log = <<>>
        BY DEF GetBetsForMarket
      <4> QED  BY <4>1, SerialTyped, EmptySeq DEF Request
    <3>2. /\ GetBetFees(log, r.user, r.amount)
               = BuySharesFee
                   + (IF r.user \in Bettors(log) THEN 0 ELSE InitialBetFee)
          /\ GetBetFees(log, r.user, r.amount) \in Nat
      BY <3>1, FeesAre
    <3>3. ~CanFail => log = bets[r.market]
      BY DEF GetBetsForMarket
    <3> QED  BY <3>1, <3>2, <3>3, ExchangeAssumption DEF EntryFee
  <2> HIDE DEF next, cost
  <2>4. ASSUME req'[w] = next  PROVE SerialHolds(w)'
    <3>1. SerialHolds(w)
      BY SerialTyped
    <3> QED
      BY <1>2, <2>1, <2>2, <2>3, <2>4, <3>1
      DEF Same, SerialHolds, RowsCurrent, StatusHolds, OwedHolds, CostHolds,
          QuoteHolds, StampHolds, HoldsRow, HoldsMarket, Open, Creating,
          Stamped, Paying, Inserting, EntryFee
  <2>5. next.pc \notin Busy
    BY <2>2 DEF Busy, Inserting, Settles
  <2> QED  BY <1>2, <1>3, <2>1, <2>2, <2>4, <2>5, MovesQuietly
<1> QED  BY <1>4, <1>5

(* A second look at the market's status, on the way from a label to the    *)
(* next.                                                                   *)
LEMMA ValidateHolds ==
  ASSUME NEW w, Serial(w),
         UNCHANGED <<db, env, histories>>,
         \/ At(w, "buyValidate") /\ Goto(w, "buyDebit")
         \/ At(w, "sellValidate") /\ Goto(w, "sellRead")
         \/ req[w].pc \in {"buyValidate", "sellValidate"} /\ Finish(w)
  PROVE  SerialInv' /\ SerialStep(w)
<1>1. /\ Same /\ users' = users /\ markets' = markets /\ clock' = clock
      /\ req[w].pc \in {"buyValidate", "sellValidate"}
  BY DEF db, env, Same, BalancesKept, StatusesKept, At
<1>2. req[w].pc \notin Busy \cup {"payRead", "paySave"}
  BY <1>1 DEF Busy, Inserting, Settles
<1>3. CASE Finish(w)
  <2>1. req'[w] = Idle
    BY <1>3, SerialTyped, NowIs DEF Finish
  <2> QED  BY <1>1, <1>2, <2>1, EndsQuietly
<1>4. ASSUME NEW next \in {"buyDebit", "sellRead"}, Goto(w, next),
             next = "buyDebit" <=> req[w].pc = "buyValidate"
      PROVE  SerialInv' /\ SerialStep(w)
  <2> DEFINE r == [req[w] EXCEPT !.pc = next]
  <2>1. Now(w, r)
    BY <1>4 DEF Goto
  <2>2. /\ r.pc = next /\ r.owed = req[w].owed /\ r.row = req[w].row
        /\ r.user = req[w].user /\ r.market = req[w].market
        /\ r.amount = req[w].amount /\ r.due = req[w].due
        /\ r.shares = req[w].shares /\ r.at = req[w].at
    BY SerialTyped DEF Request
  <2> HIDE DEF r
  <2>3. ASSUME req'[w] = r  PROVE SerialHolds(w)'
    <3>1. SerialHolds(w)
      BY SerialTyped
    <3> QED
      BY <1>1, <1>4, <2>2, <2>3, <3>1
      DEF Same, SerialHolds, RowsCurrent, StatusHolds, OwedHolds, CostHolds,
          QuoteHolds, StampHolds, HoldsRow, HoldsMarket, Open, Creating,
          Stamped, Paying, Inserting, EntryFee, Volume
  <2>4. r.pc \notin Busy
    BY <2>2 DEF Busy, Inserting, Settles
  <2> QED  BY <1>1, <1>2, <2>1, <2>2, <2>3, <2>4, MovesQuietly
<1> QED  BY <1>3, <1>4 DEF At

LEMMA BuyValidateHolds ==
  ASSUME NEW w, Serial(w), BuyValidate(w)
  PROVE  SerialInv' /\ SerialStep(w)
<1>1. At(w, "buyValidate") /\ UNCHANGED <<db, env, histories>>
      /\ (Goto(w, "buyDebit") \/ Finish(w))
  BY DEF BuyValidate
<1> QED  BY <1>1, ValidateHolds DEF At

LEMMA SellValidateHolds ==
  ASSUME NEW w, Serial(w), SellValidate(w)
  PROVE  SerialInv' /\ SerialStep(w)
<1>1. At(w, "sellValidate") /\ UNCHANGED <<db, env, histories>>
      /\ (Goto(w, "sellRead") \/ Finish(w))
  BY DEF SellValidate
<1> QED  BY <1>1, ValidateHolds DEF At

(* A balance is saved, from the row that is still the table's.             *)
LEMMA SaveMoves ==
  ASSUME NEW w, Serial(w), NEW u \in Users, NEW row \in UserRow,
         row.balance = users[u].balance, NEW b \in Int,
         SaveBalance(u, row, row.balance + b)
  PROVE  BalanceMoves(u, b)
<1>1. row.balance + b \in Int /\ TypeOK
  BY SerialTyped DEF UserRow
<1> QED  BY <1>1, SaveTyped DEF BalanceMoves

LEMMA DebitHolds ==
  ASSUME NEW w, Serial(w), NEW label, NEW next, NEW b \in Int,
         \/ label = "buyDebit" /\ next = "buyInsert" /\ b = -req[w].due
         \/ label = "sellCredit" /\ next = "sellInsert" /\ b = req[w].due
         \/ label = "createDebit" /\ next = "createInsert"
              /\ b = -CreateMarketCost,
         At(w, label), Goto(w, next),
         SaveBalance(req[w].user, req[w].row, req[w].row.balance + b),
         UNCHANGED <<markets, bets, clock>>
  PROVE  SerialInv' /\ SerialStep(w)
<1> DEFINE r == req[w]
           n == [r EXCEPT !.pc = next]
<1>1. /\ SerialHolds(w) /\ r.user \in Users /\ r.row \in UserRow
      /\ LocalSound(w) /\ r.due \in Int /\ users[r.user].balance \in Int
      /\ r.row.balance \in Int
  BY SerialTyped DEF Request, UserRow
<1>2. r.row.balance = users[r.user].balance
  BY <1>1 DEF SerialHolds, RowsCurrent, HoldsRow, At
<1>3. BalanceMoves(r.user, b)
  BY <1>1, <1>2, SaveMoves
<1>4. StatusesKept /\ bets' = bets
  BY DEF StatusesKept
<1>5. /\ req'[w] = n /\ n.pc = next /\ n.owed = r.owed
      /\ n.user = r.user /\ n.market = r.market /\ n.amount = r.amount
      /\ n.due = r.due /\ n.shares = r.shares /\ n.at = r.at
      /\ n.mrow = r.mrow
  BY SerialTyped, NowIs DEF Goto, Request
<1>6. next # "sellInsert" => users'[r.user].balance >= -MaxDebt
  <2>1. CASE label = "buyDebit"
    BY <1>1, <1>2, <1>3, <2>1, ExchangeAssumption
    DEF BalanceMoves, LocalSound, RowSound, Affordable, At
  <2>2. CASE label = "createDebit"
    BY <1>1, <1>2, <1>3, <2>2, ExchangeAssumption
    DEF BalanceMoves, LocalSound, RowSound, Affordable, At
  <2> QED  BY <2>1, <2>2
<1>7. Debits(w, label, next, b)
  BY <1>3, <1>4, <1>5 DEF Debits, At
<1> HIDE DEF n
<1>8. SerialHolds(w)'
  BY <1>1, <1>4, <1>5, <1>6
  DEF SerialHolds, RowsCurrent, StatusHolds, OwedHolds, CostHolds, QuoteHolds,
      StampHolds, HoldsRow, HoldsMarket, Open, Creating, Stamped, Paying,
      Inserting, EntryFee, Volume, At
<1>9. SerialInv'
  BY <1>4, <1>8, LogsKept
<1> QED  BY <1>7, <1>9 DEF SerialStep

LEMMA BuyDebitHolds ==
  ASSUME NEW w, Serial(w), BuyDebit(w)
  PROVE  SerialInv' /\ SerialStep(w)
<1>1. req[w].due \in Int /\ req[w].row.balance \in Int
  BY SerialTyped DEF Request, UserRow
<1>2. /\ At(w, "buyDebit") /\ Goto(w, "buyInsert")
      /\ UNCHANGED <<markets, bets, clock>>
      /\ SaveBalance(req[w].user, req[w].row, req[w].row.balance - req[w].due)
  BY DEF BuyDebit, env
<1>3. req[w].row.balance - req[w].due = req[w].row.balance + (-req[w].due)
  BY <1>1
<1>4. SaveBalance(req[w].user, req[w].row,
                  req[w].row.balance + (-req[w].due))
  BY <1>2, <1>3
<1>5. -req[w].due \in Int
  BY <1>1
<1> QED  BY <1>2, <1>4, <1>5, DebitHolds

LEMMA SellCreditHolds ==
  ASSUME NEW w, Serial(w), SellCredit(w)
  PROVE  SerialInv' /\ SerialStep(w)
<1>1. req[w].due \in Int
  BY SerialTyped DEF Request
<1>2. /\ At(w, "sellCredit") /\ Goto(w, "sellInsert")
      /\ UNCHANGED <<markets, bets, clock>>
      /\ SaveBalance(req[w].user, req[w].row, req[w].row.balance + req[w].due)
  BY DEF SellCredit, env
<1> QED  BY <1>1, <1>2, DebitHolds

LEMMA CreateDebitHolds ==
  ASSUME NEW w, Serial(w), CreateDebit(w)
  PROVE  SerialInv' /\ SerialStep(w)
<1>1. /\ CreateMarketCost \in Int /\ -CreateMarketCost \in Int
      /\ req[w].row.balance \in Int
  BY SerialTyped, ExchangeAssumption DEF Request, UserRow
<1>2. /\ At(w, "createDebit") /\ Goto(w, "createInsert")
      /\ UNCHANGED <<markets, bets, clock>>
      /\ SaveBalance(req[w].user, req[w].row,
                     req[w].row.balance - CreateMarketCost)
  BY DEF CreateDebit, env
<1>3. req[w].row.balance - CreateMarketCost
        = req[w].row.balance + (-CreateMarketCost)
  BY <1>1
<1>4. SaveBalance(req[w].user, req[w].row,
                  req[w].row.balance + (-CreateMarketCost))
  BY <1>2, <1>3
<1> QED  BY <1>1, <1>2, <1>4, DebitHolds

(* Who has bought, in a log.                                               *)
BuyersOf(log) == {log[i].user : i \in {j \in DOMAIN log : log[j].amount > 0}}

LEMMA BuyersAre == ASSUME NEW m  PROVE Buyers(m) = BuyersOf(bets[m])
  BY DEF Buyers, Buys, BuyersOf

LEMMA BuyersAppended ==
  ASSUME NEW log \in Seq(StampedRow), NEW row \in StampedRow,
         Bettors(log) = BuyersOf(log),
         row.amount > 0 \/ row.user \in Bettors(log)
  PROVE  Bettors(Append(log, row)) = BuyersOf(Append(log, row))
<1> DEFINE new == Append(log, row)
           n   == Len(log) + 1
<1>1. /\ Bettors(new) = Bettors(log) \cup {row.user}
      /\ DOMAIN new = DOMAIN log \cup {n}
      /\ \A i \in DOMAIN log : new[i] = log[i]
      /\ new[n] = row
  BY RowAppended
<1> HIDE DEF new, n
<1>2. BuyersOf(new) = BuyersOf(log)
                        \cup (IF row.amount > 0 THEN {row.user} ELSE {})
  BY <1>1 DEF BuyersOf
<1> QED  BY <1>1, <1>2 DEF new

(* A row goes to the end of its market's log.                              *)
(* The row of the only request comes last.                                 *)
LEMMA CreateAppends ==
  ASSUME NEW w, Serial(w), NEW amount \in BetAmounts,
         req[w].pc \in Inserting, req[w].choice \in Outcomes,
         CreateBet(w, amount)
  PROVE  LET m   == req[w].market
             row == [user |-> req[w].user, outcome |-> req[w].choice,
                     amount |-> amount, at |-> req[w].at]
         IN  /\ row \in StampedRow
             /\ bets' = [bets EXCEPT ![m] = Append(bets[m], row)]
<1> DEFINE r   == req[w]
           m   == r.market
           row == [user |-> r.user, outcome |-> r.choice,
                   amount |-> amount, at |-> r.at]
<1>1. /\ TypeOK /\ r \in Request /\ r.user \in Users /\ m \in Markets
      /\ bets[m] \in Seq(StampedRow)
      /\ SerialHolds(w) /\ StampSound(w)
  BY SerialTyped
<1>2. row \in StampedRow /\ row.at = r.at
  BY <1>1 DEF StampedRow, Request
<1>3. bets' = [bets EXCEPT ![m] = InsertByTime(bets[m], row)]
  BY DEF CreateBet
<1> HIDE DEF row
<1>4. ASSUME NEW i \in 1..Len(bets[m]) PROVE bets[m][i].at < row.at
  <2>1. r.at = clock /\ r.at # bets[m][i].at
    BY <1>1 DEF SerialHolds, StampHolds, StampSound, Stamped
  <2>2. bets[m][i].at <= clock
    BY <1>1 DEF Serial, StampInv, LogSound
  <2>3. bets[m][i].at \in Nat /\ clock \in Nat
    BY <1>1, LogTyped DEF TypeOK
  <2> QED  BY <1>2, <2>1, <2>2, <2>3
<1>5. InsertByTime(bets[m], row) = Append(bets[m], row)
  BY <1>1, <1>2, <1>4, InsertAppends
<1> QED  BY <1>2, <1>3, <1>5 DEF row

LEMMA InsertHolds ==
  ASSUME NEW w, Serial(w), NEW amount \in BetAmounts,
         req[w].pc \in Inserting, req[w].choice \in Outcomes,
         amount = IF req[w].pc = "buyInsert" THEN req[w].amount
                  ELSE -req[w].shares,
         CreateBet(w, amount), Finish(w), UNCHANGED <<users, markets>>
  PROVE  SerialInv' /\ Inserts(w, req[w].pc, amount)
<1>0. PICK m \in Markets : m = req[w].market
  BY SerialTyped
<1> DEFINE r   == req[w]
           row == [user |-> r.user, outcome |-> r.choice,
                   amount |-> amount, at |-> r.at]
<1>1. /\ w \in Workers /\ TypeOK /\ r \in Request /\ r.user \in Users
      /\ bets[m] \in Seq(StampedRow)
      /\ SerialHolds(w) /\ LocalSound(w) /\ StampSound(w)
      /\ LogHolds(m) /\ Volume(m) \in Int
  BY SerialTyped
<1>2. row \in StampedRow /\ row.user = r.user /\ row.amount = amount
  BY <1>1 DEF StampedRow, Request
<1>6. bets' = [bets EXCEPT ![m] = Append(bets[m], row)]
  BY <1>0, CreateAppends
<1> HIDE DEF row
<1>7. req'[w] = Idle /\ BalancesKept /\ StatusesKept
  BY <1>1, NowIs DEF Finish, BalancesKept, StatusesKept
<1>8. Inserts(w, r.pc, amount)
  BY <1>0, <1>2, <1>6, <1>7 DEF Inserts
<1>9. /\ VolumeOf(Append(bets[m], row)) = VolumeOf(bets[m]) + amount
      /\ Bettors(Append(bets[m], row)) = Bettors(bets[m]) \cup {r.user}
      /\ DOMAIN Append(bets[m], row) = DOMAIN bets[m] \cup {Len(bets[m]) + 1}
      /\ \A i \in DOMAIN bets[m] : Append(bets[m], row)[i] = bets[m][i]
      /\ Append(bets[m], row)[Len(bets[m]) + 1] = row
  BY <1>1, <1>2, RowAppended
<1>10. bets \in [Markets -> Seq(StampedRow)] /\ amount \in Int
  BY <1>1, AmountsInt DEF TypeOK
<1>11. /\ bets'[m] = Append(bets[m], row)
       /\ \A x \in Markets \ {m} : bets'[x] = bets[x]
  BY <1>1, <1>6, <1>10
<1>12. markets[m].status = "open"
  BY <1>0, <1>1 DEF SerialHolds, StatusHolds, Open, Inserting
<1>13. LogHolds(m)'
  <2>1. Volume(m)' >= 0
    <3>1. Volume(m)' = Volume(m) + amount /\ Volume(m) >= 0
      BY <1>1, <1>9, <1>11 DEF Volume, LogHolds
    <3>2. CASE r.pc = "buyInsert"
      BY <1>1, <1>10, <3>1, <3>2 DEF LocalSound, TradeSound
    <3>3. CASE r.pc = "sellInsert"
      <4>1. r.shares <= r.due /\ r.due <= Volume(m)
        BY <1>0, <1>1, <3>3 DEF SerialHolds, QuoteHolds
      <4>2. r.shares \in Int /\ r.due \in Int
        BY <1>1 DEF Request
      <4> QED  BY <1>1, <3>1, <3>3, <4>1, <4>2
    <3> QED  BY <3>2, <3>3 DEF Inserting
  <2>2. Bettors(bets'[m]) = BuyersOf(bets'[m])
    <3>1. Bettors(bets[m]) = BuyersOf(bets[m])
      BY <1>1, BuyersAre DEF LogHolds
    <3>2. CASE r.pc = "buyInsert"
      <4>1. row.amount > 0
        BY <1>1, <1>2, <1>10, <3>2 DEF LocalSound, TradeSound
      <4> QED  BY <1>1, <1>2, <1>11, <3>1, <4>1, BuyersAppended
    <3>3. CASE r.pc = "sellInsert"
      <4>1. row.user \in Bettors(bets[m])
        BY <1>0, <1>1, <1>2, <3>3 DEF SerialHolds, QuoteHolds
      <4> QED  BY <1>1, <1>2, <1>11, <3>1, <4>1, BuyersAppended
    <3> QED  BY <3>2, <3>3 DEF Inserting
  <2>3. markets'[m].status # "none"
    BY <1>12
  <2>4. Bettors(bets[m])' = Buyers(m)'
    BY <2>2 DEF Buyers, Buys, BuyersOf
  <2> QED  BY <2>1, <2>3, <2>4 DEF LogHolds
<1>14. ASSUME NEW x \in Markets PROVE LogHolds(x)'
  <2>1. CASE x = m
    BY <1>13, <2>1
  <2>2. CASE x # m
    <3>1. LogHolds(x) /\ bets'[x] = bets[x] /\ markets' = markets
      BY <1>11, <2>2, SerialTyped
    <3> QED  BY <3>1 DEF LogHolds, Volume, Buyers, Buys
  <2> QED  BY <2>1, <2>2
<1>15. \A x \in Workers : SerialHolds(x)'
  BY <1>7, IdleHolds DEF Serial
<1> QED  BY <1>8, <1>14, <1>15 DEF SerialInv, Serial

LEMMA BuyInsertHolds ==
  ASSUME NEW w, Serial(w), BuyInsert(w)
  PROVE  SerialInv' /\ SerialStep(w)
<1>1. /\ req[w].pc = "buyInsert" /\ CreateBet(w, req[w].amount) /\ Finish(w)
      /\ UNCHANGED <<users, markets>>
  BY DEF BuyInsert, At
<1>2. req[w].choice \in Outcomes /\ req[w].amount \in BetAmounts
  BY <1>1, SerialTyped
  DEF LocalSound, TradeSound, BuyStages, SellStages, BetAmounts
<1> QED  BY <1>1, <1>2, InsertHolds DEF SerialStep, Inserting

LEMMA SellInsertHolds ==
  ASSUME NEW w, Serial(w), SellInsert(w)
  PROVE  SerialInv' /\ SerialStep(w)
<1>1. /\ req[w].pc = "sellInsert" /\ CreateBet(w, -req[w].shares) /\ Finish(w)
      /\ UNCHANGED <<users, markets>>
  BY DEF SellInsert, At
<1>2. req[w].choice \in Outcomes /\ req[w].shares \in 1..MaxShares
  BY <1>1, SerialTyped
  DEF LocalSound, TradeSound, PriceSound, BuyStages, SellStages
<1>3. -req[w].shares \in BetAmounts
  BY <1>2 DEF BetAmounts
<1> QED  BY <1>1, <1>2, <1>3, InsertHolds DEF SerialStep, Inserting

-----------------------------------------------------------------------------
(* Selling *)

LEMMA SellReadMarketHolds ==
  ASSUME NEW w, Serial(w), SellReadMarket(w)
  PROVE  SerialInv' /\ SerialStep(w)
<1> DEFINE r == [req[w] EXCEPT !.pc = "sellBets",
                               !.mrow = markets[req[w].market]]
<1>1. /\ Same /\ users' = users /\ markets' = markets /\ clock' = clock
      /\ req[w].pc = "sellMarket" /\ Now(w, r)
  BY DEF SellReadMarket, db, env, Same, BalancesKept, StatusesKept, At
<1>2. /\ r.pc = "sellBets" /\ r.owed = req[w].owed /\ r.user = req[w].user
      /\ r.market = req[w].market /\ r.mrow = markets[req[w].market]
  BY SerialTyped DEF Request
<1> HIDE DEF r
<1>3. ASSUME req'[w] = r  PROVE SerialHolds(w)'
  <2>1. SerialHolds(w)
    BY SerialTyped
  <2> QED
    BY <1>1, <1>2, <1>3, <2>1
    DEF SerialHolds, RowsCurrent, StatusHolds, OwedHolds, CostHolds,
        QuoteHolds, StampHolds, HoldsRow, HoldsMarket, Open, Creating,
        Stamped, Paying, Inserting
<1>4. r.pc \notin Busy /\ req[w].pc \notin Busy
  BY <1>1, <1>2 DEF Busy, Inserting, Settles
<1> QED  BY <1>1, <1>2, <1>3, <1>4, MovesQuietly

(* An accepted quote is covered by the pool.                               *)
LEMMA QuoteCovered ==
  ASSUME NEW w, Serial(w), NEW log \in GetBetsForMarket(req[w].market),
         req[w].pc = "sellBets"
  PROVE  LET r        == req[w]
             position == Positions(Untimed(log), r.mrow.status)[r.user]
             owned    == SharesOwned(position, r.choice)
             value    == position.value
             shares   == SharesToSell(value, owned, r.amount)
             due      == SaleValue(value, owned, r.amount)
         IN  owned # 0 /\ SaleAccepted(value, owned, r.amount) =>
               /\ shares <= due /\ due <= Volume(r.market)
               /\ r.user \in Bettors(bets[r.market])
<1> DEFINE r        == req[w]
           position == Positions(Untimed(log), r.mrow.status)[r.user]
           owned    == SharesOwned(position, r.choice)
           value    == position.value
           shares   == SharesToSell(value, owned, r.amount)
           due      == SaleValue(value, owned, r.amount)
<1> SUFFICES ASSUME owned # 0 /\ SaleAccepted(value, owned, r.amount)
             PROVE  /\ shares <= due /\ due <= Volume(r.market)
                    /\ r.user \in Bettors(bets[r.market])
  OBVIOUS
<1>1. /\ TypeOK /\ r.user \in Users /\ r.market \in Markets
      /\ r.amount \in Int /\ SerialHolds(w) /\ DealsOut(bets[r.market])
  BY SerialTyped DEF Request
<1>2. r.mrow.status = "open"
  BY <1>1 DEF SerialHolds, RowsCurrent, StatusHolds, HoldsMarket, Open
<1>3. position \in Position /\ log \in Seq(StampedRow)
  BY <1>1, <1>2, PositionTyped DEF Statuses
<1>4. owned \in Nat /\ value \in Int
  BY <1>3 DEF Position, SharesOwned
<1> HIDE DEF position
<1>5. shares <= due /\ due <= value /\ due \in Nat /\ shares \in 1..owned
  <2> HIDE DEF owned, value
  <2> QED  BY <1>1, <1>4, SaleBounds
<1>6. log = bets[r.market] \/ log = <<>>
  BY DEF GetBetsForMarket
<1>7. DealsOut(log)
  BY <1>1, <1>6 DEF Serial, SerialInv
<1>8. value <= VolumeOf(log) /\ r.user \in Bettors(log)
  BY <1>1, <1>2, <1>7 DEF DealsOut, SharesOwned, position
<1>9. log = bets[r.market]
  BY <1>6, <1>8, EmptyLog
<1>10. VolumeOf(log) \in Int
  BY <1>3, LogTyped
<1> HIDE DEF shares, due, value, owned
<1> QED  BY <1>4, <1>5, <1>8, <1>9, <1>10 DEF Volume

LEMMA SellQuoteHolds ==
  ASSUME NEW w, Serial(w), SellQuote(w)
  PROVE  SerialInv' /\ SerialStep(w)
<1> DEFINE r == req[w]
<1>1. PICK log \in GetBetsForMarket(r.market) :
        LET position == Positions(Untimed(log), r.mrow.status)[r.user]
            owned    == SharesOwned(position, r.choice)
            value    == position.value
            shares   == SharesToSell(value, owned, r.amount)
        IN  IF owned # 0 /\ SaleAccepted(value, owned, r.amount)
                         /\ shares <= MaxShares
            THEN /\ clock' = clock + 1
                 /\ Now(w, [r EXCEPT
                      !.pc = "sellValidate", !.shares = shares,
                      !.due = SaleValue(value, owned, r.amount),
                      !.at = clock + 1])
            ELSE Finish(w) /\ UNCHANGED clock
  BY DEF SellQuote
<1>2. /\ Same /\ users' = users /\ markets' = markets /\ bets' = bets
      /\ r.pc = "sellBets"
  BY DEF SellQuote, db, Same, BalancesKept, StatusesKept, At
<1>3. r.pc \notin Busy \cup {"payRead", "paySave"}
  BY <1>2 DEF Busy, Inserting, Settles
<1> DEFINE position == Positions(Untimed(log), r.mrow.status)[r.user]
           owned    == SharesOwned(position, r.choice)
           value    == position.value
           shares   == SharesToSell(value, owned, r.amount)
           due      == SaleValue(value, owned, r.amount)
           Ok == owned # 0 /\ SaleAccepted(value, owned, r.amount)
                           /\ shares <= MaxShares
<1>4. CASE ~Ok
  <2>1. req'[w] = Idle
    BY <1>1, <1>4, SerialTyped, NowIs DEF Finish
  <2> QED  BY <1>2, <1>3, <2>1, EndsQuietly
<1>5. CASE Ok
  <2>1. /\ shares <= due /\ due <= Volume(r.market)
        /\ r.user \in Bettors(bets[r.market])
    BY <1>2, <1>5, QuoteCovered
  <2> DEFINE next == [r EXCEPT !.pc = "sellValidate", !.shares = shares,
                               !.due = due, !.at = clock + 1]
  <2>2. Now(w, next) /\ clock' = clock + 1
    BY <1>1, <1>5
  <2> HIDE DEF shares, due
  <2>3. /\ next.pc = "sellValidate" /\ next.owed = r.owed
        /\ next.user = r.user /\ next.market = r.market
        /\ next.shares = shares /\ next.due = due /\ next.at = clock + 1
    BY SerialTyped DEF Request
  <2> HIDE DEF next
  <2>4. ASSUME req'[w] = next  PROVE SerialHolds(w)'
    <3>1. SerialHolds(w)
      BY SerialTyped
    <3> QED
      BY <1>2, <2>1, <2>2, <2>3, <2>4, <3>1
      DEF SerialHolds, RowsCurrent, StatusHolds, OwedHolds, CostHolds,
          QuoteHolds, StampHolds, HoldsRow, HoldsMarket, Open, Creating,
          Stamped, Paying, Inserting, Volume
  <2>5. next.pc \notin Busy
    BY <2>3 DEF Busy, Inserting, Settles
  <2> QED  BY <1>2, <1>3, <2>2, <2>3, <2>4, <2>5, MovesQuietly
<1> QED  BY <1>4, <1>5

LEMMA SellReadUserHolds ==
  ASSUME NEW w, Serial(w), SellReadUser(w)
  PROVE  SerialInv' /\ SerialStep(w)
<1> DEFINE r == [req[w] EXCEPT !.pc = "sellCredit",
                               !.row = users[req[w].user]]
<1>1. /\ Same /\ users' = users /\ markets' = markets /\ clock' = clock
      /\ bets' = bets /\ req[w].pc = "sellRead" /\ Now(w, r)
  BY DEF SellReadUser, db, env, Same, BalancesKept, StatusesKept, At
<1>2. /\ r.pc = "sellCredit" /\ r.owed = req[w].owed /\ r.user = req[w].user
      /\ r.market = req[w].market /\ r.row = users[req[w].user]
      /\ r.due = req[w].due /\ r.shares = req[w].shares /\ r.at = req[w].at
  BY SerialTyped DEF Request
<1> HIDE DEF r
<1>3. ASSUME req'[w] = r  PROVE SerialHolds(w)'
  <2>1. SerialHolds(w)
    BY SerialTyped
  <2> QED
    BY <1>1, <1>2, <1>3, <2>1
    DEF SerialHolds, RowsCurrent, StatusHolds, OwedHolds, CostHolds,
        QuoteHolds, StampHolds, HoldsRow, HoldsMarket, Open, Creating,
        Stamped, Paying, Inserting, Volume
<1>4. r.pc \notin Busy /\ req[w].pc \notin Busy
  BY <1>1, <1>2 DEF Busy, Inserting, Settles
<1> QED  BY <1>1, <1>2, <1>3, <1>4, MovesQuietly

-----------------------------------------------------------------------------
(* Markets and their settlement *)

(* The status of the request's market changes, to one that exists.         *)
LEMMA StatusChangeHolds ==
  ASSUME NEW w, Serial(w), NEW s, s # "none",
         StatusMoves(req[w].market, s), bets' = bets, SerialHolds(w)'
  PROVE  SerialInv'
<1>1. ASSUME NEW m \in Markets PROVE LogHolds(m)'
  <2>1. LogHolds(m) /\ markets'[m].status \in {markets[m].status, s}
    BY SerialTyped DEF StatusMoves
  <2> QED  BY <2>1 DEF LogHolds, Volume, Buyers, Buys
<1>2. \A x \in Workers : SerialHolds(x)'
  BY DEF Serial
<1> QED  BY <1>1, <1>2 DEF SerialInv, Serial

LEMMA CreateInsertHolds ==
  ASSUME NEW w, Serial(w), CreateInsert(w)
  PROVE  SerialInv' /\ SerialStep(w)
<1>1. /\ req[w].pc = "createInsert" /\ req'[w] = Idle
      /\ BalancesKept /\ bets' = bets
      /\ markets' = [markets EXCEPT ![req[w].market] = req[w].mrow]
  BY SerialTyped, NowIs DEF CreateInsert, At, Finish, BalancesKept
<1> DEFINE s == req[w].mrow.status
<1>2. s \in Statuses /\ s # "none" /\ markets \in [Markets -> MarketRow]
  BY <1>1, SerialTyped DEF SerialHolds, StatusHolds, Creating, TypeOK, Statuses
<1>3. StatusMoves(req[w].market, s)
  BY <1>1, <1>2, SerialTyped DEF StatusMoves
<1>4. SerialHolds(w)'
  BY <1>1, SerialTyped, IdleHolds
<1>5. SerialInv'
  BY <1>1, <1>2, <1>3, <1>4, StatusChangeHolds
<1> QED  BY <1>1, <1>2, <1>3, <1>5 DEF SerialStep, Opens

LEMMA ResolveSaveHolds ==
  ASSUME NEW w, Serial(w), ResolveSave(w)
  PROVE  SerialInv' /\ SerialStep(w)
<1> DEFINE r    == req[w]
           next == IF r.choice = "N/A" THEN "refundBets" ELSE "payMarket"
           n    == [r EXCEPT !.pc = next]
<1>1. /\ r.pc = "resolveSave" /\ Now(w, n)
      /\ users' = users /\ bets' = bets /\ clock' = clock
      /\ markets' = [markets EXCEPT ![r.market] =
                       [r.mrow EXCEPT !.status = r.choice]]
  BY DEF ResolveSave, At, Goto, env
<1>2. /\ req'[w] = n /\ n.pc = next /\ n.owed = r.owed /\ n.market = r.market
  BY <1>1, SerialTyped, NowIs DEF Request
<1>3. r.choice \in {"YES", "NO", "N/A"} /\ r.mrow \in MarketRow
  BY SerialTyped, ExchangeAssumption DEF Request, Outcomes
<1>4. StatusMoves(r.market, r.choice)
  <2>1. [r.mrow EXCEPT !.status = r.choice].status = r.choice
    BY <1>3 DEF MarketRow
  <2>2. markets \in [Markets -> MarketRow] /\ r.market \in Markets
    BY SerialTyped DEF TypeOK
  <2> QED  BY <1>1, <2>1, <2>2 DEF StatusMoves
<1>5. BalancesKept
  BY <1>1 DEF BalancesKept
<1>6. Resolves(w)
  BY <1>1, <1>2, <1>3, <1>4, <1>5 DEF Resolves
<1>7. SerialHolds(w)'
  <2>1. SerialHolds(w)
    BY SerialTyped
  <2>2. markets'[r.market].status = r.choice
    BY <1>4, SerialTyped DEF StatusMoves
  <2> HIDE DEF n
  <2> QED
    BY <1>1, <1>2, <1>3, <2>1, <2>2
    DEF SerialHolds, RowsCurrent, StatusHolds, OwedHolds, CostHolds,
        QuoteHolds, StampHolds, HoldsRow, HoldsMarket, Open, Creating,
        Stamped, Paying, Inserting, Outcomes
<1>8. SerialInv'
  BY <1>1, <1>3, <1>4, <1>7, StatusChangeHolds
<1> QED  BY <1>6, <1>8 DEF SerialStep

LEMMA PayReadMarketHolds ==
  ASSUME NEW w, Serial(w), PayReadMarket(w)
  PROVE  SerialInv' /\ SerialStep(w)
<1> DEFINE r == [req[w] EXCEPT !.pc = "payBets",
                               !.mrow = markets[req[w].market]]
<1>1. /\ Same /\ users' = users /\ markets' = markets /\ clock' = clock
      /\ req[w].pc = "payMarket" /\ Now(w, r)
  BY DEF PayReadMarket, db, env, Same, BalancesKept, StatusesKept, At
<1>2. /\ req'[w] = r /\ r.pc = "payBets" /\ r.owed = req[w].owed
      /\ r.market = req[w].market /\ r.mrow = markets[req[w].market]
  BY <1>1, SerialTyped, NowIs DEF Request
<1> HIDE DEF r
<1>3. SerialHolds(w)'
  <2>1. SerialHolds(w)
    BY SerialTyped
  <2> QED
    BY <1>1, <1>2, <2>1
    DEF SerialHolds, RowsCurrent, StatusHolds, OwedHolds, CostHolds,
        QuoteHolds, StampHolds, HoldsRow, HoldsMarket, Open, Creating,
        Stamped, Paying, Inserting
<1>4. Quiet(w)
  BY <1>1, <1>2 DEF Quiet
<1> QED  BY <1>1, <1>3, <1>4, SameHolds DEF SerialStep

(* The loop over payments starts or goes on.                               *)
LEMMA LoopHolds ==
  ASSUME NEW w, Serial(w), NEW owed, IsFiniteSet(owed), PayNext(w, owed)
  PROVE  SerialHolds(w)'
<1> DEFINE n == [req[w] EXCEPT !.pc = "payRead", !.owed = owed,
                               !.paying = NoPayment]
<1>1. CASE owed = {}
  <2>1. req'[w] = Idle
    BY <1>1, SerialTyped, NowIs DEF PayNext, Finish
  <2> QED  BY <2>1, SerialTyped, IdleHolds
<1>2. CASE owed # {}
  <2>1. req'[w] = n /\ n.pc = "payRead" /\ n.owed = owed
    BY <1>2, SerialTyped, NowIs DEF PayNext, Request
  <2> HIDE DEF n
  <2> QED
    BY <1>2, <2>1
    DEF SerialHolds, RowsCurrent, StatusHolds, OwedHolds, CostHolds,
        QuoteHolds, StampHolds, HoldsRow, HoldsMarket, Open, Creating,
        Stamped, Paying, Inserting
<1> QED  BY <1>1, <1>2

LEMMA WinningsTyped ==
  ASSUME TypeOK, IsFiniteSet(Users), NEW m \in Markets,
         NEW log \in GetBetsForMarket(m), NEW s \in Statuses
  PROVE  /\ Winnings(log, s) \subseteq Payment
         /\ IsFiniteSet(Winnings(log, s))
         /\ \A p \in Winnings(log, s) : p.amount \in Int /\ p.amount > 0
<1> DEFINE value == [u \in Users |-> Positions(Untimed(log), s)[u].value]
           W == {u \in Users : value[u] > 0}
           b == [u \in Users |-> [user |-> u, amount |-> value[u],
                                  key |-> 0]]
<1>1. \A u \in Users : value[u] \in Int
  BY PositionTyped DEF Position
<1>2. Winnings(log, s) = {b[u] : u \in W}
  BY DEF Winnings
<1>3. IsFiniteSet(W)
  BY FS_Subset
<1> HIDE DEF value
<1>4. \A u \in W : b[u] \in Payment /\ b[u].amount > 0
  BY <1>1 DEF Payment
<1> HIDE DEF b, W
<1>5. IsFiniteSet({b[u] : u \in W})
  BY <1>3, ImageFinite
<1> QED  BY <1>2, <1>4, <1>5 DEF Payment

LEMMA PayReadBetsHolds ==
  ASSUME NEW w, Serial(w), PayReadBets(w)
  PROVE  SerialInv' /\ SerialStep(w)
<1> DEFINE m == req[w].market
<1>1. /\ Same /\ req[w].pc = "payBets"
      /\ \E log \in GetBetsForMarket(m) :
           PayNext(w, Winnings(log, req[w].mrow.status))
  BY DEF PayReadBets, db, Same, BalancesKept, StatusesKept, At
<1>2. /\ req[w].mrow.status = markets[m].status
      /\ markets[m].status \in Statuses /\ m \in Markets
  BY <1>1, SerialTyped
  DEF SerialHolds, RowsCurrent, StatusHolds, HoldsMarket, Outcomes, Statuses
<1>3. PICK log \in GetBetsForMarket(m) :
        PayNext(w, Winnings(log, markets[m].status))
  BY <1>1, <1>2
<1> DEFINE owed == Winnings(log, markets[m].status)
<1>4. owed \subseteq Payment /\ IsFiniteSet(owed)
  BY <1>2, SerialTyped, WinningsTyped DEF Serial
<1>5. Decides(w)
  BY <1>1, <1>3, <1>4 DEF Decides, SettlesWith
<1>6. SerialHolds(w)'
  BY <1>3, <1>4, LoopHolds
<1> QED  BY <1>1, <1>5, <1>6, SameHolds DEF SerialStep

LEMMA RefundReadBetsHolds ==
  ASSUME NEW w, Serial(w), RefundReadBets(w)
  PROVE  SerialInv' /\ SerialStep(w)
<1> DEFINE log == bets[req[w].market]
<1>1. /\ Same /\ req[w].pc = "refundBets" /\ PayNext(w, Refunds(log))
  BY DEF RefundReadBets, db, Same, BalancesKept, StatusesKept, At
<1>2. log \in Seq(StampedRow) /\ Sorted(log)
  BY SerialTyped DEF Serial, StampInv, LogSound
<1>3. Refunds(log) \subseteq Payment /\ IsFiniteSet(Refunds(log))
  <2> HIDE DEF log
  <2> QED  BY <1>2, RefundsMakeVolume
<1>4. Decides(w)
  BY <1>1, <1>3 DEF Decides, SettlesWith
<1>5. SerialHolds(w)'
  BY <1>1, <1>3, LoopHolds
<1> QED  BY <1>1, <1>4, <1>5, SameHolds DEF SerialStep

LEMMA PayReadUserHolds ==
  ASSUME NEW w, Serial(w), PayReadUser(w)
  PROVE  SerialInv' /\ SerialStep(w)
<1>1. PICK p \in req[w].owed :
        Now(w, [req[w] EXCEPT !.pc = "paySave", !.paying = p,
                              !.row = users[p.user]])
  BY DEF PayReadUser
<1> DEFINE r == [req[w] EXCEPT !.pc = "paySave", !.paying = p,
                               !.row = users[p.user]]
<1>2. /\ Same /\ users' = users /\ req[w].pc = "payRead"
  BY DEF PayReadUser, db, Same, BalancesKept, StatusesKept, At
<1>3. /\ r.pc = "paySave" /\ r.owed = req[w].owed /\ r.paying = p
      /\ r.row = users[p.user]
  BY SerialTyped DEF Request
<1>4. Now(w, r)
  BY <1>1
<1> HIDE DEF r
<1>5. ASSUME req'[w] = r  PROVE SerialHolds(w)'
  <2>1. SerialHolds(w)
    BY SerialTyped
  <2> QED
    BY <1>2, <1>3, <1>5, <2>1
    DEF SerialHolds, RowsCurrent, StatusHolds, OwedHolds, CostHolds,
        QuoteHolds, StampHolds, HoldsRow, HoldsMarket, Open, Creating,
        Stamped, Paying, Inserting
<1>6. r.pc \notin Busy /\ req[w].pc \notin Busy
  BY <1>2, <1>3 DEF Busy, Inserting, Settles
<1> QED  BY <1>2, <1>3, <1>4, <1>5, <1>6, MovesQuietly

LEMMA PaySaveHolds ==
  ASSUME NEW w, Serial(w), PaySave(w)
  PROVE  SerialInv' /\ SerialStep(w)
<1> DEFINE r == req[w]
           p == r.paying
<1>1. /\ r.pc = "paySave" /\ PayNext(w, r.owed \ {p})
      /\ SaveBalance(p.user, r.row, r.row.balance + p.amount)
      /\ markets' = markets /\ bets' = bets
  BY DEF PaySave, At
<1>2. /\ p.user \in Users /\ p.amount \in Int /\ r.row \in UserRow
      /\ IsFiniteSet(r.owed) /\ r.row.balance = users[p.user].balance
  BY <1>1, SerialTyped
  DEF Request, Payment, SerialHolds, OwedHolds, RowsCurrent
<1>3. BalanceMoves(p.user, p.amount) /\ StatusesKept
  BY <1>1, <1>2, SaveMoves DEF StatusesKept
<1>4. SerialHolds(w)'
  BY <1>1, <1>2, FS_RemoveElement, LoopHolds
<1>5. SerialInv'
  BY <1>1, <1>3, <1>4, LogsKept
<1> QED  BY <1>1, <1>3, <1>5 DEF SerialStep, Pays

-----------------------------------------------------------------------------
(* Profiles and images *)

LEMMA EditSaveHolds ==
  ASSUME NEW w, Serial(w), EditSave(w)
  PROVE  SerialInv' /\ SerialStep(w)
<1> DEFINE r == req[w]
<1>1. /\ r.pc = "editSave" /\ req'[w] = Idle
      /\ users' = [users EXCEPT ![r.user] = [r.row EXCEPT !.profile = r.id]]
      /\ markets' = markets /\ bets' = bets
  BY SerialTyped, NowIs DEF EditSave, At, Finish
<1>2. /\ r.row \in UserRow /\ users \in [Users -> UserRow]
      /\ r.row.balance = users[r.user].balance
  BY <1>1, SerialTyped
  DEF Request, TypeOK, SerialHolds, RowsCurrent, HoldsRow
<1>3. [r.row EXCEPT !.profile = r.id].balance = r.row.balance
  BY <1>2 DEF UserRow
<1>4. Same
  BY <1>1, <1>2, <1>3 DEF Same, BalancesKept, StatusesKept
<1>5. r.pc \notin Busy \cup {"payRead", "paySave"}
  BY <1>1 DEF Busy, Inserting, Settles
<1> QED  BY <1>1, <1>4, <1>5, EndsQuietly

(* A step of an upload leaves every status as it is.                       *)
LEMMA UploadHolds ==
  ASSUME NEW w, Serial(w), Same,
         \/ /\ req[w].pc = "imageWrite" /\ Goto(w, "imageSave")
            /\ markets' = markets
         \/ req[w].pc = "imageSave" /\ Goto(w, "imageDelete")
         \/ /\ req[w].pc \in {"imageSave", "imageDelete"}
            /\ Finish(w)
  PROVE  SerialInv' /\ SerialStep(w)
<1>1. req[w].pc \notin Busy \cup {"payRead", "paySave"}
  BY DEF Busy, Inserting, Settles
<1>2. CASE Finish(w)
  <2>1. req'[w] = Idle
    BY <1>2, SerialTyped, NowIs DEF Finish
  <2> QED  BY <1>1, <2>1, EndsQuietly
<1>3. ASSUME NEW next \in {"imageSave", "imageDelete"}, Goto(w, next),
             next = "imageSave"
               => req[w].pc = "imageWrite" /\ markets' = markets
      PROVE  SerialInv' /\ SerialStep(w)
  <2> DEFINE r == [req[w] EXCEPT !.pc = next]
  <2>1. Now(w, r)
    BY <1>3 DEF Goto
  <2>2. /\ r.pc = next /\ r.owed = req[w].owed /\ r.market = req[w].market
        /\ r.mrow = req[w].mrow
    BY SerialTyped DEF Request
  <2> HIDE DEF r
  <2>3. ASSUME req'[w] = r  PROVE SerialHolds(w)'
    <3>1. SerialHolds(w)
      BY SerialTyped
    <3> QED
      BY <1>1, <1>3, <2>2, <2>3, <3>1
      DEF Same, StatusesKept, SerialHolds, RowsCurrent, StatusHolds,
          OwedHolds, CostHolds, QuoteHolds, StampHolds, HoldsRow, HoldsMarket,
          Open, Creating, Stamped, Paying, Inserting
  <2>4. r.pc \notin Busy
    BY <2>2 DEF Busy, Inserting, Settles
  <2> QED  BY <1>1, <2>1, <2>2, <2>3, <2>4, MovesQuietly
<1> QED  BY <1>2, <1>3

LEMMA ImageHolds ==
  ASSUME NEW w, Serial(w),
         \/ ImageWrite(w) \/ ImageSave(w) \/ ImageSaveFails(w)
         \/ ImageDelete(w)
  PROVE  SerialInv' /\ SerialStep(w)
<1> DEFINE r == req[w]
<1>1. CASE ImageWrite(w)
  <2>1. Same /\ markets' = markets /\ r.pc = "imageWrite"
        /\ Goto(w, "imageSave")
    BY <1>1 DEF ImageWrite, At, Same, BalancesKept, StatusesKept
  <2> QED  BY <2>1, UploadHolds
<1>2. CASE ImageSave(w)
  <2>1. /\ r.pc = "imageSave" /\ users' = users /\ bets' = bets
        /\ markets' = [markets EXCEPT ![r.market] =
                         [r.mrow EXCEPT !.image = r.id]]
        /\ Finish(w) \/ Goto(w, "imageDelete")
    BY <1>2 DEF ImageSave, At
  <2>2. /\ r.mrow \in MarketRow /\ markets \in [Markets -> MarketRow]
        /\ r.mrow.status = markets[r.market].status
    BY <2>1, SerialTyped
    DEF Request, TypeOK, SerialHolds, RowsCurrent, HoldsMarket
  <2>3. [r.mrow EXCEPT !.image = r.id].status = r.mrow.status
    BY <2>2 DEF MarketRow
  <2>4. Same
    BY <2>1, <2>2, <2>3 DEF Same, BalancesKept, StatusesKept
  <2> QED  BY <2>1, <2>4, UploadHolds
<1>3. CASE ImageSaveFails(w) \/ ImageDelete(w)
  <2>1. /\ Same /\ r.pc \in {"imageSave", "imageDelete"} /\ Finish(w)
    BY <1>3
    DEF ImageSaveFails, ImageDelete, At, Same, BalancesKept, StatusesKept
  <2> QED  BY <2>1, UploadHolds
<1> QED  BY <1>1, <1>2, <1>3

-----------------------------------------------------------------------------
LEMMA HandlerStepHolds ==
  ASSUME NEW w, Serial(w), Step(w)
  PROVE  SerialInv' /\ SerialStep(w)
<1>1. CASE BuyCheckStatus(w)
  BY <1>1, CheckStatusHolds DEF BuyCheckStatus
<1>2. CASE BuyCheckBalance(w)  BY <1>2, BuyCheckBalanceHolds
<1>3. CASE BuyValidate(w)  BY <1>3, BuyValidateHolds
<1>4. CASE BuyDebit(w)  BY <1>4, BuyDebitHolds
<1>5. CASE BuyInsert(w)  BY <1>5, BuyInsertHolds
<1>6. CASE SellCheckStatus(w)
  BY <1>6, CheckStatusHolds DEF SellCheckStatus
<1>7. CASE SellReadMarket(w)  BY <1>7, SellReadMarketHolds
<1>8. CASE SellQuote(w)  BY <1>8, SellQuoteHolds
<1>9. CASE SellValidate(w)  BY <1>9, SellValidateHolds
<1>10. CASE SellReadUser(w)  BY <1>10, SellReadUserHolds
<1>11. CASE SellCredit(w)  BY <1>11, SellCreditHolds
<1>12. CASE SellInsert(w)  BY <1>12, SellInsertHolds
<1>13. CASE CreateDebit(w)  BY <1>13, CreateDebitHolds
<1>14. CASE CreateInsert(w)  BY <1>14, CreateInsertHolds
<1>15. CASE ResolveSave(w)  BY <1>15, ResolveSaveHolds
<1>16. CASE PayReadMarket(w)  BY <1>16, PayReadMarketHolds
<1>17. CASE PayReadBets(w)  BY <1>17, PayReadBetsHolds
<1>18. CASE RefundReadBets(w)  BY <1>18, RefundReadBetsHolds
<1>19. CASE PayReadUser(w)  BY <1>19, PayReadUserHolds
<1>20. CASE PaySave(w)  BY <1>20, PaySaveHolds
<1>21. CASE EditSave(w)  BY <1>21, EditSaveHolds
<1>22. CASE \/ ImageWrite(w) \/ ImageSave(w) \/ ImageSaveFails(w)
            \/ ImageDelete(w)
  BY <1>22, ImageHolds
<1> QED
  BY <1>1, <1>2, <1>3, <1>4, <1>5, <1>6, <1>7, <1>8, <1>9, <1>10, <1>11,
     <1>12, <1>13, <1>14, <1>15, <1>16, <1>17, <1>18, <1>19, <1>20, <1>21,
     <1>22
  DEF Step

LEMMA NextHolds ==
  ASSUME NEW w, Serial(w), [Next]_vars
  PROVE  SerialInv' /\ SerialStep(w)
<1>1. CASE UNCHANGED vars
  <2>1. UNCHANGED <<db, req, clock>>
    BY <1>1 DEF vars, db
  <2> QED  BY <2>1, TimeHolds
<1>2. CASE Arrive(w)  BY <1>2, ArriveHolds
<1>3. CASE Step(w)  BY <1>3, HandlerStepHolds
<1>4. CASE Fail(w)  BY <1>4, FailHolds
<1>5. ASSUME NEW m \in Markets, TimePasses(m)
      PROVE  SerialInv' /\ SerialStep(w)
  <2>1. UNCHANGED <<db, req, clock>>
    BY <1>5 DEF TimePasses
  <2> QED  BY <2>1, TimeHolds
<1> QED  BY <1>1, <1>2, <1>3, <1>4, <1>5 DEF Next, Serial

LEMMA InitHolds ==
  ASSUME Init, PoolKept  PROVE SerialInv
<1>1. ASSUME NEW w \in Workers PROVE SerialHolds(w)
  <2>1. req[w].pc = "idle" /\ req[w].owed = {}
    BY <1>1 DEF Init, Idle
  <2> QED
    BY <2>1, FS_EmptySet
    DEF SerialHolds, RowsCurrent, StatusHolds, OwedHolds, CostHolds,
        QuoteHolds, StampHolds, HoldsRow, HoldsMarket, Open, Creating,
        Stamped, Paying, Inserting
<1>2. ASSUME NEW m \in Markets PROVE LogHolds(m) /\ bets[m] = <<>>
  <2>1. bets[m] = <<>>
    BY DEF Init
  <2>2. DOMAIN bets[m] = {}
    BY <2>1, EmptySeq
  <2>3. Volume(m) = 0 /\ Bettors(bets[m]) = {}
    BY <2>1, EmptyLog DEF Volume
  <2>4. Buyers(m) = {}
    BY <2>2 DEF Buyers, Buys
  <2> QED  BY <2>1, <2>3, <2>4 DEF LogHolds
<1>3. DealsOut(<<>>)
  <2>1. PICK m \in Markets : TRUE
    BY ExchangeAssumption
  <2> QED  BY <1>2, <2>1 DEF PoolKept
<1> QED  BY <1>1, <1>2, <1>3 DEF SerialInv

LEMMA SerialAlways ==
  ASSUME NEW w, Workers = {w}, IsFiniteSet(Users)
  PROVE  Spec /\ []PoolKept => []Serial(w)
<1>1. Init => StampInv
  BY InitStamps
<1>2. IInv /\ StampInv /\ [Next]_vars => StampInv'
  BY NextStamps
<1>3. Init /\ PoolKept => SerialInv
  BY InitHolds
<1>4. IInv /\ StampInv /\ SerialInv /\ PoolKept => Serial(w)
  BY DEF Serial
<1>5. Serial(w) /\ [Next]_vars => SerialInv'
  BY NextHolds
<1> QED  BY <1>1, <1>2, <1>3, <1>4, <1>5, Invariance, PTL DEF Spec

-----------------------------------------------------------------------------
(* What the definitions about all workers come to when there is one.       *)

(* The resolution of m is saved and its payments are not computed.         *)
Deciding(w, m) == req[w].pc \in Settles /\ req[w].market = m

LEMMA OneSum ==
  ASSUME NEW w, NEW T, T = {w} \/ T = {}, NEW f, NEW k \in Int,
         T = {w} => f[w] = k
  PROVE  SumOf(f, T) = IF T = {w} THEN k ELSE 0
<1>1. CASE T = {w}
  BY <1>1, SumSingle
<1>2. CASE T # {w}
  BY <1>2, SumEmpty
<1> QED  BY <1>1, <1>2

LEMMA OneWorker ==
  ASSUME NEW w, Workers = {w}
  PROVE  /\ Owed = req[w].owed
         /\ Owed' = req'[w].owed
         /\ \A m : Settling(m) <=> Deciding(w, m)
         /\ \A m : Settling(m)' <=> Deciding(w, m)'
<1>1. Owed = req[w].owed /\ Owed' = req'[w].owed
  BY DEF Owed
<1>2. \A m : Settling(m) <=> Deciding(w, m)
  BY DEF Settling, Deciding, Settles
<1>3. \A m : Settling(m)' <=> Deciding(w, m)'
  BY DEF Settling, Deciding, Settles
<1> QED  BY <1>1, <1>2, <1>3

LEMMA UnfinishedTyped ==
  ASSUME NEW w \in Workers
  PROVE  /\ TypeOK => Unfinished(w) \in Int
         /\ TypeOK' => Unfinished(w)' \in Int
<1>1. CreateMarketCost \in Int
  BY ExchangeAssumption
<1>2. TypeOK => Unfinished(w) \in Int
  <2> SUFFICES ASSUME TypeOK PROVE Unfinished(w) \in Int
    OBVIOUS
  <2>1. req[w].due \in Int
    BY DEF TypeOK, Request
  <2> QED  BY <1>1, <2>1 DEF Unfinished, At
<1>3. TypeOK' => Unfinished(w)' \in Int
  <2> SUFFICES ASSUME TypeOK' PROVE Unfinished(w)' \in Int
    OBVIOUS
  <2>1. req'[w].due \in Int
    BY DEF TypeOK, Request
  <2> QED  BY <1>1, <2>1 DEF Unfinished, At
<1> QED  BY <1>2, <1>3

(* The accounts of the ledger, before and after a step.                    *)
LEMMA OneBalance ==
  ASSUME NEW w, Workers = {w}, NEW u \in Users
  PROVE  /\ TypeOK => LedgerBalance[u] = users[u].balance
              + (IF req[w].user = u THEN Unfinished(w) ELSE 0)
         /\ TypeOK' => LedgerBalance'[u] = users'[u].balance
              + (IF req'[w].user = u THEN Unfinished(w)' ELSE 0)
<1>1. ASSUME TypeOK
      PROVE  LedgerBalance[u] = users[u].balance
               + (IF req[w].user = u THEN Unfinished(w) ELSE 0)
  <2> DEFINE T == {x \in Workers : req[x].user = u}
             f == [x \in T |-> Unfinished(x)]
  <2>1. LedgerBalance[u] = users[u].balance + SumOf(f, T)
    BY DEF LedgerBalance
  <2>2. /\ T = {w} \/ T = {}
        /\ T = {w} <=> req[w].user = u
        /\ T = {w} => f[w] = Unfinished(w)
    OBVIOUS
  <2>3. Unfinished(w) \in Int
    BY <1>1, UnfinishedTyped
  <2> HIDE DEF T, f
  <2> QED  BY <2>1, <2>2, <2>3, OneSum
<1>2. ASSUME TypeOK'
      PROVE  LedgerBalance'[u] = users'[u].balance
               + (IF req'[w].user = u THEN Unfinished(w)' ELSE 0)
  <2> DEFINE T == {x \in Workers : req'[x].user = u}
             f == [x \in T |-> Unfinished(x)']
  <2>1. LedgerBalance'[u] = users'[u].balance + SumOf(f, T)
    BY DEF LedgerBalance
  <2>2. /\ T = {w} \/ T = {}
        /\ T = {w} <=> req'[w].user = u
        /\ T = {w} => f[w] = Unfinished(w)'
    OBVIOUS
  <2>3. Unfinished(w)' \in Int
    BY <1>2, UnfinishedTyped
  <2> HIDE DEF T, f
  <2> QED  BY <2>1, <2>2, <2>3, OneSum
<1> QED  BY <1>1, <1>2

LEMMA OneStatus ==
  ASSUME NEW w, Workers = {w}, NEW m \in Markets
  PROVE  /\ LedgerStatus[m] = IF Deciding(w, m) THEN "open"
                              ELSE markets[m].status
         /\ LedgerStatus'[m] = IF Deciding(w, m)' THEN "open"
                               ELSE markets'[m].status
         /\ LedgerPot[m] = IF markets[m].status = "open" \/ Deciding(w, m)
                           THEN VolumeOf(bets[m]) ELSE 0
         /\ LedgerPot'[m] = IF markets'[m].status = "open" \/ Deciding(w, m)'
                            THEN VolumeOf(bets'[m]) ELSE 0
<1>1. /\ Settling(m) <=> Deciding(w, m)
      /\ Settling(m)' <=> Deciding(w, m)'
  BY OneWorker
<1>2. /\ LedgerStatus[m] = IF Settling(m) THEN "open" ELSE markets[m].status
      /\ LedgerStatus'[m] = IF Settling(m)' THEN "open"
                            ELSE markets'[m].status
  BY DEF LedgerStatus
<1>3. /\ LedgerPot[m] = Pot(m) /\ LedgerPot'[m] = Pot(m)'
  BY DEF LedgerPot
<1>4. Pot(m) = IF markets[m].status = "open" \/ Settling(m)
               THEN VolumeOf(bets[m]) ELSE 0
  BY DEF Pot, Volume
<1>5. Pot(m)' = IF markets'[m].status = "open" \/ Settling(m)'
                THEN VolumeOf(bets'[m]) ELSE 0
  BY DEF Pot, Volume
<1> QED  BY <1>1, <1>2, <1>3, <1>4, <1>5

LEMMA EnteredAre ==
  /\ \A e : e \in LedgerEntered <=>
       \E m \in Markets : \E u \in Bettors(bets[m]) : e = <<u, m>>
  /\ \A e : e \in LedgerEntered' <=>
       \E m \in Markets : \E u \in Bettors(bets'[m]) : e = <<u, m>>
<1>1. \A e : e \in LedgerEntered <=>
        \E m \in Markets : \E u \in Bettors(bets[m]) : e = <<u, m>>
  BY DEF LedgerEntered, Bettors
<1>2. \A e : e \in LedgerEntered' <=>
        \E m \in Markets : \E u \in Bettors(bets'[m]) : e = <<u, m>>
  BY DEF LedgerEntered, Bettors
<1> QED  BY <1>1, <1>2

(* The ledger's variables are functions of users and of markets, equal     *)
(* when they agree everywhere.                                             *)
LEMMA Extensional ==
  /\ LedgerBalance = [u \in Users |-> LedgerBalance[u]]
  /\ LedgerBalance' = [u \in Users |-> LedgerBalance'[u]]
  /\ LedgerStatus = [m \in Markets |-> LedgerStatus[m]]
  /\ LedgerStatus' = [m \in Markets |-> LedgerStatus'[m]]
  /\ LedgerPot = [m \in Markets |-> LedgerPot[m]]
  /\ LedgerPot' = [m \in Markets |-> LedgerPot'[m]]
  BY DEF LedgerBalance, LedgerStatus, LedgerPot

-----------------------------------------------------------------------------
(* Every kind of step is a step of the ledger, or none.                    *)

(* What a step does to the variables of the ledger.                        *)
AccountMoves(u, b) ==
  \A x \in Users : LedgerBalance'[x] =
                     IF x = u THEN LedgerBalance[x] + b ELSE LedgerBalance[x]
StatusBecomes(m, s) ==
  \A x \in Markets : LedgerStatus'[x] = IF x = m THEN s ELSE LedgerStatus[x]
PotBecomes(m, v) ==
  \A x \in Markets : LedgerPot'[x] = IF x = m THEN v ELSE LedgerPot[x]

LEMMA Stutters ==
  ASSUME \A u \in Users : LedgerBalance'[u] = LedgerBalance[u],
         \A m \in Markets : LedgerStatus'[m] = LedgerStatus[m],
         \A m \in Markets : LedgerPot'[m] = LedgerPot[m],
         bets' = bets, Owed' = Owed
  PROVE  UNCHANGED L!ledger
<1>1. LedgerBalance' = LedgerBalance
  BY Extensional, Zenon
<1>2. LedgerStatus' = LedgerStatus
  BY Extensional, Zenon
<1>3. LedgerPot' = LedgerPot
  BY Extensional, Zenon
<1>4. LedgerEntered' = LedgerEntered
  BY DEF LedgerEntered
<1> QED  BY <1>1, <1>2, <1>3, <1>4 DEF L!ledger

(* A request that is not between two writes has nothing unfinished.        *)
LEMMA Finished ==
  ASSUME NEW w
  PROVE  /\ req[w].pc \notin Inserting \cup {"createInsert"}
              => Unfinished(w) = 0
         /\ req'[w].pc \notin Inserting \cup {"createInsert"}
              => Unfinished(w)' = 0
         /\ req[w].pc \notin Settles => \A m : ~Deciding(w, m)
         /\ req'[w].pc \notin Settles => \A m : ~Deciding(w, m)'
<1>1. req[w].pc \notin Inserting \cup {"createInsert"} => Unfinished(w) = 0
  BY DEF Inserting, Unfinished, At
<1>2. req'[w].pc \notin Inserting \cup {"createInsert"} => Unfinished(w)' = 0
  BY DEF Inserting, Unfinished, At
<1> QED  BY <1>1, <1>2 DEF Deciding

LEMMA QuietStutters ==
  ASSUME NEW w, Serial(w), TypeOK', Quiet(w)
  PROVE  UNCHANGED L!ledger
<1>1. /\ TypeOK /\ Workers = {w} /\ w \in Workers /\ Same
      /\ \A u \in Users : users[u].balance \in Int
      /\ req'[w].owed = req[w].owed
  BY SerialTyped DEF Serial, Quiet
<1>2. /\ \/ req' = req
         \/ Unfinished(w) = 0 /\ Unfinished(w)' = 0
      /\ \A m : Deciding(w, m)' <=> Deciding(w, m)
  <2>1. CASE req' = req
    BY <2>1 DEF Deciding
  <2>2. CASE req[w].pc \notin Busy /\ req'[w].pc \notin Busy
    BY <2>2, Finished DEF Busy
  <2>3. CASE /\ req[w].pc = "payMarket" /\ req'[w].pc = "payBets"
             /\ req'[w].market = req[w].market
    BY <2>3, Finished DEF Deciding, Settles, Inserting
  <2> QED  BY <2>1, <2>2, <2>3 DEF Quiet
<1>3. ASSUME NEW u \in Users PROVE LedgerBalance'[u] = LedgerBalance[u]
  <2>1. /\ LedgerBalance[u] = users[u].balance
              + (IF req[w].user = u THEN Unfinished(w) ELSE 0)
        /\ LedgerBalance'[u] = users'[u].balance
              + (IF req'[w].user = u THEN Unfinished(w)' ELSE 0)
        /\ users'[u].balance = users[u].balance
    BY <1>1, OneBalance DEF Same, BalancesKept
  <2>2. req' = req => Unfinished(w)' = Unfinished(w)
    BY DEF Unfinished, At
  <2> QED  BY <1>1, <1>2, <2>1, <2>2
<1>4. ASSUME NEW m \in Markets
      PROVE  LedgerStatus'[m] = LedgerStatus[m] /\ LedgerPot'[m] = LedgerPot[m]
  BY <1>1, <1>2, OneStatus DEF Same, StatusesKept
<1>5. Owed' = Owed
  BY <1>1, OneWorker
<1> QED  BY <1>1, <1>3, <1>4, <1>5, Stutters DEF Same

LEMMA DebitStutters ==
  ASSUME NEW w, Serial(w), TypeOK', NEW label, NEW next, NEW b \in Int,
         \/ label = "buyDebit" /\ next = "buyInsert" /\ b = -req[w].due
         \/ label = "sellCredit" /\ next = "sellInsert" /\ b = req[w].due
         \/ label = "createDebit" /\ next = "createInsert"
              /\ b = -CreateMarketCost,
         Debits(w, label, next, b)
  PROVE  UNCHANGED L!ledger
<1>1. /\ TypeOK /\ Workers = {w} /\ w \in Workers
      /\ \A u \in Users : users[u].balance \in Int
      /\ req[w] \in Request /\ req[w].due \in Int /\ CreateMarketCost \in Int
  BY SerialTyped, ExchangeAssumption DEF Serial, Request
<1>2. /\ req[w].pc = label /\ req'[w] = [req[w] EXCEPT !.pc = next]
      /\ BalanceMoves(req[w].user, b) /\ StatusesKept /\ bets' = bets
  BY DEF Debits
<1>3. /\ req'[w].pc = next /\ req'[w].user = req[w].user
      /\ req'[w].due = req[w].due /\ req'[w].owed = req[w].owed
  BY <1>1, <1>2 DEF Request
<1>4. Unfinished(w) = 0 /\ Unfinished(w)' = -b
  BY <1>1, <1>2, <1>3 DEF Unfinished, At
<1>5. \A m : ~Deciding(w, m) /\ ~Deciding(w, m)'
  BY <1>2, <1>3 DEF Deciding, Settles
<1>6. ASSUME NEW u \in Users PROVE LedgerBalance'[u] = LedgerBalance[u]
  <2>1. /\ LedgerBalance[u] = users[u].balance
              + (IF req[w].user = u THEN Unfinished(w) ELSE 0)
        /\ LedgerBalance'[u] = users'[u].balance
              + (IF req'[w].user = u THEN Unfinished(w)' ELSE 0)
        /\ users'[u].balance = IF u = req[w].user THEN users[u].balance + b
                               ELSE users[u].balance
    BY <1>1, <1>2, OneBalance DEF BalanceMoves
  <2> QED  BY <1>1, <1>3, <1>4, <2>1
<1>7. ASSUME NEW m \in Markets
      PROVE  LedgerStatus'[m] = LedgerStatus[m] /\ LedgerPot'[m] = LedgerPot[m]
  BY <1>1, <1>2, <1>5, OneStatus DEF StatusesKept
<1>8. Owed' = Owed
  BY <1>1, <1>3, OneWorker
<1> QED  BY <1>2, <1>6, <1>7, <1>8, Stutters

(* The row inserted last settles the account and changes the pot.          *)
LEMMA InsertMoves ==
  ASSUME NEW w, Serial(w), TypeOK', NEW label \in Inserting, NEW amount,
         Inserts(w, label, amount)
  PROVE  /\ AccountMoves(req[w].user, -Unfinished(w))
         /\ LedgerStatus' = LedgerStatus
         /\ LedgerStatus[req[w].market] = "open"
         /\ LedgerPot[req[w].market] = VolumeOf(bets[req[w].market])
         /\ PotBecomes(req[w].market, LedgerPot[req[w].market] + amount)
         /\ LedgerEntered'
              = LedgerEntered \cup {<<req[w].user, req[w].market>>}
         /\ Owed' = Owed
<1>0. PICK u \in Users, m \in Markets : u = req[w].user /\ m = req[w].market
  BY SerialTyped
<1>1. /\ TypeOK /\ Workers = {w} /\ w \in Workers
      /\ \A x \in Users : users[x].balance \in Int
      /\ \A x \in Markets : bets[x] \in Seq(StampedRow)
      /\ req[w].pc = label /\ label \in {"buyInsert", "sellInsert"}
      /\ req'[w] = Idle /\ BalancesKept /\ StatusesKept
  BY SerialTyped DEF Serial, Inserts, Inserting
<1>2. PICK row \in StampedRow :
        /\ row.user = u /\ row.amount = amount
        /\ bets' = [bets EXCEPT ![m] = Append(@, row)]
  BY <1>0 DEF Inserts
<1>3. /\ req[w].owed = {} /\ markets[m].status = "open"
  BY <1>0, <1>1, SerialTyped
  DEF SerialHolds, OwedHolds, StatusHolds, Open
<1>4. /\ req'[w].pc = "idle" /\ req'[w].owed = {}
      /\ Unfinished(w)' = 0 /\ \A x : ~Deciding(w, x) /\ ~Deciding(w, x)'
  <2>1. req'[w].pc = "idle" /\ req'[w].owed = {}
    BY <1>1 DEF Idle
  <2> QED  BY <1>1, <2>1, Finished DEF Inserting, Settles
<1>5. AccountMoves(u, -Unfinished(w))
  <2> SUFFICES ASSUME NEW x \in Users
               PROVE  LedgerBalance'[x] =
                        IF x = u THEN LedgerBalance[x] - Unfinished(w)
                        ELSE LedgerBalance[x]
    <3>1. Unfinished(w) \in Int
      BY <1>1, UnfinishedTyped
    <3>2. ASSUME NEW x \in Users PROVE LedgerBalance[x] \in Int
      BY <1>1, <3>1, OneBalance
    <3> QED  BY <3>1, <3>2 DEF AccountMoves
  <2>1. Unfinished(w) \in Int
    BY <1>1, UnfinishedTyped
  <2>2. /\ LedgerBalance[x] = users[x].balance
              + (IF req[w].user = x THEN Unfinished(w) ELSE 0)
        /\ LedgerBalance'[x] = users'[x].balance
              + (IF req'[w].user = x THEN Unfinished(w)' ELSE 0)
        /\ users'[x].balance = users[x].balance
        /\ users[x].balance \in Int
    BY <1>1, OneBalance DEF BalancesKept
  <2> QED  BY <1>0, <1>4, <2>1, <2>2
<1>6. ASSUME NEW x \in Markets
      PROVE  /\ LedgerStatus'[x] = LedgerStatus[x]
             /\ LedgerStatus[x] = markets[x].status
             /\ markets[x].status = "open"
                  => /\ LedgerPot[x] = VolumeOf(bets[x])
                     /\ LedgerPot'[x] = VolumeOf(bets'[x])
             /\ markets[x].status # "open"
                  => LedgerPot[x] = 0 /\ LedgerPot'[x] = 0
  <2>1. markets'[x].status = markets[x].status
    BY <1>1 DEF StatusesKept
  <2> QED  BY <1>1, <1>4, <2>1, OneStatus
<1>7. LedgerStatus' = LedgerStatus
  BY <1>6, Extensional, Zenon
<1>8. PotBecomes(m, LedgerPot[m] + amount)
  <2>1. ASSUME NEW x \in Markets, x # m PROVE LedgerPot'[x] = LedgerPot[x]
    <3>1. bets'[x] = bets[x]
      BY <1>1, <1>2, <2>1 DEF TypeOK
    <3> QED  BY <1>6, <3>1
  <2>2. LedgerPot'[m] = LedgerPot[m] + amount
    <3>1. bets'[m] = Append(bets[m], row)
      BY <1>1, <1>2 DEF TypeOK
    <3>2. VolumeOf(bets'[m]) = VolumeOf(bets[m]) + amount
      BY <1>1, <1>2, <3>1, RowAppended
    <3> QED  BY <1>3, <1>6, <3>2
  <2> QED  BY <2>1, <2>2 DEF PotBecomes
<1>9. LedgerEntered' = LedgerEntered \cup {<<u, m>>}
  <2>1. /\ Bettors(bets'[m]) = Bettors(bets[m]) \cup {u}
        /\ \A x \in Markets \ {m} : Bettors(bets'[x]) = Bettors(bets[x])
    <3>1. bets'[m] = Append(bets[m], row)
      BY <1>1, <1>2 DEF TypeOK
    <3>2. Bettors(bets'[m]) = Bettors(bets[m]) \cup {u}
      BY <1>1, <1>2, <3>1, RowAppended
    <3>3. \A x \in Markets \ {m} : bets'[x] = bets[x]
      BY <1>1, <1>2 DEF TypeOK
    <3> QED  BY <3>2, <3>3
  <2>2. ASSUME NEW e
        PROVE  e \in LedgerEntered' <=> e \in LedgerEntered \/ e = <<u, m>>
    BY <2>1, EnteredAre
  <2> QED  BY <2>2
<1>10. Owed' = Owed
  BY <1>1, <1>3, <1>4, OneWorker
<1> QED
  BY <1>0, <1>3, <1>5, <1>6, <1>7, <1>8, <1>9, <1>10

(* A purchase places a stake.                                              *)
LEMMA BuyPlaces ==
  ASSUME NEW w, Serial(w), TypeOK', ~CanFail,
         Inserts(w, "buyInsert", req[w].amount)
  PROVE  L!Next
<1> DEFINE r == req[w]
<1>0. PICK u \in Users, m \in Markets, stake \in Amounts :
        u = r.user /\ m = r.market /\ stake = r.amount
  BY SerialTyped
  DEF Inserts, LocalSound, TradeSound, BuyStages
<1>1. /\ TypeOK /\ Workers = {w} /\ r.pc = "buyInsert"
      /\ users[u].balance \in Int /\ r.due \in Int
      /\ stake \in Int /\ MaxDebt \in Int
  BY SerialTyped, ExchangeAssumption DEF Serial, Inserts, Request
<1>2. stake >= 1
  BY <1>0, <1>1, SerialTyped DEF LocalSound, TradeSound
<1>3. /\ Unfinished(w) = r.due
      /\ r.due = stake + BuySharesFee + EntryFee(u, m)
      /\ users[u].balance >= -MaxDebt
  BY <1>0, <1>1, <1>2, SerialTyped
  DEF Unfinished, At, SerialHolds, CostHolds
<1>4. /\ AccountMoves(u, -r.due)
      /\ LedgerStatus' = LedgerStatus /\ LedgerStatus[m] = "open"
      /\ PotBecomes(m, LedgerPot[m] + stake)
      /\ LedgerEntered' = LedgerEntered \cup {<<u, m>>}
      /\ Owed' = Owed
  BY <1>0, <1>3, InsertMoves DEF Inserting
<1>5. LedgerBalance[u] = users[u].balance + r.due
  BY <1>0, <1>1, <1>3, OneBalance
<1>6. EntryFee(u, m) = IF <<u, m>> \in LedgerEntered THEN 0 ELSE InitialBetFee
  BY EnteredAre DEF EntryFee
<1> DEFINE cost == stake + BuySharesFee
                     + (IF <<u, m>> \in LedgerEntered THEN 0
                        ELSE InitialBetFee)
<1>7. cost = r.due
  BY <1>3, <1>6
<1> HIDE DEF r
<1>8. /\ LedgerBalance[u] - cost >= -MaxDebt
      /\ LedgerBalance' = [LedgerBalance EXCEPT ![u] = @ - cost]
  <2>1. LedgerBalance[u] - cost >= -MaxDebt
    BY <1>1, <1>3, <1>5, <1>7
  <2>2. \A x \in Users : LedgerBalance'[x] =
          IF x = u THEN LedgerBalance[x] - cost ELSE LedgerBalance[x]
    BY <1>1, <1>4, <1>5, <1>7 DEF AccountMoves
  <2> HIDE DEF cost
  <2> QED  BY <2>1, <2>2, Extensional
<1>9. LedgerPot' = [LedgerPot EXCEPT ![m] = @ + stake]
  BY <1>4, Extensional DEF PotBecomes
<1>10. L!Place(u, m, stake)
  BY <1>2, <1>4, <1>8, <1>9 DEF L!Place, L!Spend
<1> QED  BY <1>10 DEF L!Next

(* A sale cashes shares in.                                                *)
LEMMA SaleCashes ==
  ASSUME NEW w, Serial(w), TypeOK', Inserts(w, "sellInsert", -req[w].shares)
  PROVE  L!Next
<1> DEFINE r == req[w]
<1>0. PICK u \in Users, m \in Markets, shares \in Nat, value \in Nat :
        /\ u = r.user /\ m = r.market
        /\ shares = r.shares /\ value = r.due /\ shares >= 1
  <2>1. /\ r.pc = "sellInsert"
        /\ r.shares \in 1..MaxShares /\ r.due \in Nat
    BY SerialTyped DEF Inserts, LocalSound, PriceSound
  <2>2. r.shares \in Nat /\ r.shares >= 1
    BY <2>1, ExchangeAssumption
  <2> QED  BY <2>1, <2>2, SerialTyped
<1>1. /\ TypeOK /\ Workers = {w} /\ r.pc = "sellInsert"
      /\ \A x \in Users : users[x].balance \in Int
      /\ VolumeOf(bets[m]) \in Int
  BY SerialTyped DEF Serial, Inserts, Volume
<1>2. /\ Unfinished(w) = -value
      /\ shares <= value /\ value <= VolumeOf(bets[m])
      /\ u \in Bettors(bets[m])
  BY <1>0, <1>1, SerialTyped
  DEF Unfinished, At, SerialHolds, QuoteHolds, Volume
<1>3. /\ AccountMoves(u, -Unfinished(w))
      /\ LedgerStatus' = LedgerStatus /\ LedgerStatus[m] = "open"
      /\ LedgerPot[m] = VolumeOf(bets[m])
      /\ PotBecomes(m, LedgerPot[m] - shares)
      /\ LedgerEntered' = LedgerEntered \cup {<<u, m>>}
      /\ Owed' = Owed
  <2>1. PotBecomes(m, LedgerPot[m] + (-r.shares))
    BY <1>0, InsertMoves DEF Inserting
  <2>2. LedgerPot[m] = VolumeOf(bets[m])
    BY <1>0, InsertMoves DEF Inserting
  <2>3. LedgerPot[m] + (-r.shares) = LedgerPot[m] - shares
    BY <1>0, <1>1, <2>2
  <2>4. PotBecomes(m, LedgerPot[m] - shares)
    BY <2>1, <2>3
  <2> QED  BY <1>0, <2>2, <2>4, InsertMoves DEF Inserting
<1>4. LedgerBalance' = [LedgerBalance EXCEPT ![u] = @ + value]
  <2>1. LedgerBalance[u] \in Int
    BY <1>0, <1>1, <1>2, OneBalance
  <2>2. \A x \in Users : LedgerBalance'[x] =
          IF x = u THEN LedgerBalance[x] + value ELSE LedgerBalance[x]
    BY <1>0, <1>2, <1>3, <2>1 DEF AccountMoves
  <2> QED  BY <2>2, Extensional
<1>5. LedgerPot' = [LedgerPot EXCEPT ![m] = @ - shares]
  BY <1>3, Extensional DEF PotBecomes
<1>6. <<u, m>> \in LedgerEntered /\ LedgerEntered' = LedgerEntered
  BY <1>2, <1>3, EnteredAre
<1> HIDE DEF r
<1>7. L!Cash(u, m, shares, value)
  BY <1>0, <1>2, <1>3, <1>4, <1>5, <1>6 DEF L!Cash
<1>8. shares \in 1..LedgerPot[m] /\ value \in 1..LedgerPot[m]
  BY <1>0, <1>1, <1>2, <1>3
<1> QED  BY <1>7, <1>8 DEF L!Next

(* A market that nobody could have bet on is created with an empty pot.    *)
LEMMA CreationOpens ==
  ASSUME NEW w, Serial(w), TypeOK', Opens(w)
  PROVE  L!Next /\ LedgerPot' = LedgerPot
<1> DEFINE r == req[w]
<1>0. PICK u \in Users, m \in Markets : u = r.user /\ m = r.market
  BY SerialTyped
<1>a. PICK s \in Statuses : StatusMoves(m, s)
  BY <1>0 DEF Opens
<1>1. /\ TypeOK /\ Workers = {w} /\ w \in Workers /\ r.pc = "createInsert"
      /\ \A x \in Users : users[x].balance \in Int
      /\ req'[w] = Idle /\ BalancesKept /\ bets' = bets
      /\ CreateMarketCost \in Int /\ MaxDebt \in Int
  BY <1>0, SerialTyped, ExchangeAssumption DEF Serial, Opens
<1>2. /\ r.owed = {} /\ markets[m].status = "none"
      /\ users[u].balance >= -MaxDebt
  BY <1>0, <1>1, SerialTyped
  DEF SerialHolds, OwedHolds, StatusHolds, CostHolds, Creating
<1>3. VolumeOf(bets[m]) = 0
  BY <1>2, SerialTyped, EmptyLog DEF LogHolds
<1>4. /\ req'[w].owed = {} /\ Unfinished(w) = CreateMarketCost
      /\ Unfinished(w)' = 0 /\ \A x : ~Deciding(w, x) /\ ~Deciding(w, x)'
  <2>1. req'[w].pc = "idle" /\ req'[w].owed = {}
    BY <1>1 DEF Idle
  <2>2. Unfinished(w)' = 0 /\ \A x : ~Deciding(w, x) /\ ~Deciding(w, x)'
    BY <1>1, <2>1, Finished DEF Inserting, Settles
  <2> QED  BY <1>1, <2>1, <2>2 DEF Unfinished, At
<1>5. ASSUME NEW x \in Users
      PROVE  /\ LedgerBalance'[x] = users[x].balance
             /\ LedgerBalance[x] = users[x].balance
                  + (IF x = u THEN CreateMarketCost ELSE 0)
  <2>1. /\ LedgerBalance[x] = users[x].balance
              + (IF req[w].user = x THEN Unfinished(w) ELSE 0)
        /\ LedgerBalance'[x] = users'[x].balance
              + (IF req'[w].user = x THEN Unfinished(w)' ELSE 0)
        /\ users'[x].balance = users[x].balance
    BY <1>1, OneBalance DEF BalancesKept
  <2> QED  BY <1>0, <1>1, <1>4, <2>1
<1>6. /\ LedgerBalance[u] - CreateMarketCost >= -MaxDebt
      /\ LedgerBalance' = [LedgerBalance EXCEPT ![u] = @ - CreateMarketCost]
  <2>1. LedgerBalance[u] - CreateMarketCost >= -MaxDebt
    BY <1>1, <1>2, <1>5
  <2>2. \A x \in Users : LedgerBalance'[x] =
          IF x = u THEN LedgerBalance[x] - CreateMarketCost
          ELSE LedgerBalance[x]
    BY <1>1, <1>5
  <2> QED  BY <2>1, <2>2, Extensional
<1>7. ASSUME NEW x \in Markets
      PROVE  /\ LedgerStatus[x] = markets[x].status
             /\ LedgerStatus'[x] = IF x = m THEN s ELSE LedgerStatus[x]
             /\ LedgerPot'[x] = LedgerPot[x]
  BY <1>a, <1>1, <1>2, <1>3, <1>4, OneStatus DEF StatusMoves
<1>8. /\ LedgerStatus[m] = "none"
      /\ LedgerStatus' = [LedgerStatus EXCEPT ![m] = s]
  BY <1>2, <1>7, Extensional
<1>9. LedgerPot' = LedgerPot
  BY <1>7, Extensional, Zenon
<1>10. LedgerEntered' = LedgerEntered /\ Owed' = Owed
  <2>1. LedgerEntered' = LedgerEntered
    BY <1>1 DEF LedgerEntered
  <2>2. Owed' = Owed
    BY <1>1, <1>2, <1>4, OneWorker
  <2> QED  BY <2>1, <2>2
<1>11. L!OpenMarket(u, m, s)
  BY <1>6, <1>8, <1>9, <1>10 DEF L!OpenMarket, L!Spend
<1>12. L!Next
  BY <1>11 DEF L!Next, Statuses
<1> QED  BY <1>9, <1>12

(* For the ledger, a saved resolution is open until it is paid out.        *)
LEMMA ResolutionStutters ==
  ASSUME NEW w, Serial(w), TypeOK', Resolves(w)
  PROVE  UNCHANGED L!ledger
<1> DEFINE r == req[w]
           next == IF r.choice = "N/A" THEN "refundBets" ELSE "payMarket"
<1>0. PICK m \in Markets : m = r.market
  BY SerialTyped
<1>1. /\ TypeOK /\ Workers = {w} /\ w \in Workers /\ r.pc = "resolveSave"
      /\ \A x \in Users : users[x].balance \in Int
      /\ req'[w] = [r EXCEPT !.pc = next] /\ r \in Request
      /\ BalancesKept /\ bets' = bets /\ StatusMoves(m, r.choice)
  BY <1>0, SerialTyped DEF Serial, Resolves
<1>2. markets[m].status = "open"
  BY <1>0, <1>1, SerialTyped DEF SerialHolds, StatusHolds, Open
<1>3. /\ req'[w].pc \in {"payMarket", "refundBets"}
      /\ req'[w].market = m /\ req'[w].owed = r.owed
  BY <1>0, <1>1 DEF Request
<1>4. /\ Unfinished(w) = 0 /\ Unfinished(w)' = 0
      /\ \A x : ~Deciding(w, x)
      /\ \A x : Deciding(w, x)' <=> x = m
  <2>1. /\ Unfinished(w) = 0 /\ Unfinished(w)' = 0
        /\ \A x : ~Deciding(w, x)
    BY <1>1, <1>3, Finished DEF Inserting, Settles
  <2>2. \A x : Deciding(w, x)' <=> x = m
    BY <1>3 DEF Deciding, Settles
  <2> QED  BY <2>1, <2>2
<1>5. ASSUME NEW x \in Users PROVE LedgerBalance'[x] = LedgerBalance[x]
  BY <1>1, <1>4, OneBalance DEF BalancesKept
<1>6. ASSUME NEW x \in Markets
      PROVE  LedgerStatus'[x] = LedgerStatus[x] /\ LedgerPot'[x] = LedgerPot[x]
  BY <1>1, <1>2, <1>4, OneStatus DEF StatusMoves
<1>7. Owed' = Owed
  BY <1>1, <1>3, OneWorker
<1> QED  BY <1>1, <1>5, <1>6, <1>7, Stutters

LEMMA TotalIs == \A P : L!Total(P) = Total(P)
  BY DEF L!Total, Total, L!SumOf, SumOf, L!MapThenSumSet, MapThenSumSet,
         L!MapThenFoldSet, MapThenFoldSet

(* What the loop over the payments leaves.                                 *)
LEMMA LoopLeaves ==
  ASSUME NEW w \in Workers, TypeOK, NEW owed, PayNext(w, owed)
  PROVE  /\ req'[w].owed = owed
         /\ req'[w].pc = IF owed = {} THEN "idle" ELSE "payRead"
<1> DEFINE n == [req[w] EXCEPT !.pc = "payRead", !.owed = owed,
                               !.paying = NoPayment]
<1>1. CASE owed = {}
  <2>1. req'[w] = Idle
    BY <1>1, NowIs DEF PayNext, Finish
  <2> QED  BY <1>1, <2>1 DEF Idle
<1>2. CASE owed # {}
  <2>1. req'[w] = n /\ req[w] \in Request
    BY <1>2, NowIs DEF PayNext, TypeOK
  <2>2. n.owed = owed /\ n.pc = "payRead"
    BY <2>1 DEF Request
  <2> QED  BY <1>2, <2>1, <2>2
<1> QED  BY <1>1, <1>2

(* Computing the payments of a resolution settles the market.              *)
LEMMA PaymentsSettle ==
  ASSUME NEW w, Serial(w), TypeOK', NEW m \in Markets, m = req[w].market,
         NEW owed, PayNext(w, owed), Same,
         req[w].pc \in {"payBets", "refundBets"},
         \/ Total(owed) = VolumeOf(bets[m])
         \/ req[w].pc = "payBets" /\ owed = {},
         req[w].pc = "payBets" => \A p \in owed : p.amount > 0,
         \A p \in owed : p.user \in Bettors(bets[m])
  PROVE  L!Next
<1> DEFINE s == markets[m].status
<1>1. /\ TypeOK /\ Workers = {w} /\ w \in Workers
      /\ \A x \in Users : users[x].balance \in Int
      /\ BalancesKept /\ StatusesKept /\ bets' = bets
  BY SerialTyped DEF Serial, Same
<1>2. /\ req[w].owed = {}
      /\ req[w].pc = "payBets" => s \in Outcomes
      /\ req[w].pc = "refundBets" => s = "N/A"
  BY SerialTyped DEF SerialHolds, OwedHolds, StatusHolds
<1>3. /\ s \in {"YES", "NO", "N/A"}
      /\ s # "N/A" <=> req[w].pc = "payBets"
  BY <1>2 DEF Outcomes
<1>4. /\ req'[w].owed = owed /\ req'[w].pc \in {"idle", "payRead"}
  BY <1>1, LoopLeaves
<1>5. /\ Unfinished(w) = 0 /\ Unfinished(w)' = 0
      /\ \A x : Deciding(w, x) <=> x = m
      /\ \A x : ~Deciding(w, x)'
  <2>1. /\ Unfinished(w) = 0 /\ Unfinished(w)' = 0
        /\ \A x : ~Deciding(w, x)'
    BY <1>4, Finished DEF Inserting, Settles
  <2>2. \A x : Deciding(w, x) <=> x = m
    BY DEF Deciding, Settles
  <2> QED  BY <2>1, <2>2
<1>6. ASSUME NEW x \in Users PROVE LedgerBalance'[x] = LedgerBalance[x]
  BY <1>1, <1>5, OneBalance DEF BalancesKept
<1>7. ASSUME NEW x \in Markets
      PROVE  /\ LedgerStatus[x] = IF x = m THEN "open" ELSE markets[x].status
             /\ LedgerStatus'[x] = markets[x].status
             /\ LedgerPot[x] = IF markets[x].status = "open" \/ x = m
                               THEN VolumeOf(bets[x]) ELSE 0
             /\ LedgerPot'[x] = IF markets[x].status = "open"
                                THEN VolumeOf(bets[x]) ELSE 0
  BY <1>1, <1>5, OneStatus DEF StatusesKept
<1> HIDE DEF s
<1>8. /\ LedgerStatus[m] = "open"
      /\ LedgerStatus' = [LedgerStatus EXCEPT ![m] = s]
  BY <1>7, Extensional DEF s
<1>9. /\ LedgerPot[m] = VolumeOf(bets[m])
      /\ LedgerPot' = [LedgerPot EXCEPT ![m] = 0]
  <2>1. LedgerPot[m] = VolumeOf(bets[m])
    BY <1>7
  <2>2. \A x \in Markets :
          LedgerPot'[x] = IF x = m THEN 0 ELSE LedgerPot[x]
    BY <1>3, <1>7 DEF s
  <2> QED  BY <2>1, <2>2, Extensional
<1>10. Owed = {} /\ Owed' = owed
  BY <1>1, <1>2, <1>4, OneWorker
<1>11. /\ LedgerBalance' = LedgerBalance /\ LedgerEntered' = LedgerEntered
       /\ \A p \in owed : <<p.user, m>> \in LedgerEntered
  <2>1. LedgerBalance' = LedgerBalance
    BY <1>6, Extensional, Zenon
  <2>2. LedgerEntered' = LedgerEntered
    BY <1>1 DEF LedgerEntered
  <2>3. \A p \in owed : <<p.user, m>> \in LedgerEntered
    BY EnteredAre
  <2> QED  BY <2>1, <2>2, <2>3
<1>12. \/ L!Total(owed) = LedgerPot[m]
       \/ s # "N/A" /\ owed = {}
  BY <1>3, <1>9, TotalIs
<1>13. s # "N/A" => \A p \in owed : p.amount > 0
  BY <1>3
<1>14. L!Settle(m, s)
  BY <1>8, <1>9, <1>10, <1>11, <1>12, <1>13 DEF L!Settle
<1> QED  BY <1>3, <1>14 DEF L!Next

LEMMA DecisionSettles ==
  ASSUME NEW w, Serial(w), TypeOK', ~CanFail, Decides(w)
  PROVE  L!Next
<1> DEFINE r == req[w]
<1>0. PICK m \in Markets : m = r.market
  BY SerialTyped
<1>1. /\ TypeOK /\ IsFiniteSet(Users) /\ DealsOut(bets[m])
      /\ bets[m] \in Seq(StampedRow) /\ Sorted(bets[m])
  BY SerialTyped DEF Serial, StampInv, LogSound
<1>2. CASE \E log \in GetBetsForMarket(m) :
             SettlesWith(w, "payBets", Winnings(log, markets[m].status))
  <2> DEFINE s == markets[m].status
             owed == Winnings(bets[m], s)
  <2>1. bets[m] \in GetBetsForMarket(m) /\ GetBetsForMarket(m) = {bets[m]}
    BY DEF GetBetsForMarket
  <2>2. SettlesWith(w, "payBets", owed)
    BY <1>2, <2>1
  <2>3. s \in Outcomes /\ s \in Statuses
    BY <1>0, <2>2, SerialTyped
    DEF SerialHolds, StatusHolds, SettlesWith, Outcomes, Statuses
  <2>4. /\ owed = {} \/ Total(owed) = VolumeOf(bets[m])
        /\ \A p \in owed : p.user \in Bettors(bets[m])
    BY <1>1, <2>3 DEF DealsOut
  <2>5. \A p \in owed : p.amount > 0
    BY <1>1, <2>1, <2>3, WinningsTyped
  <2>6. r.pc = "payBets" /\ PayNext(w, owed) /\ Same
    BY <2>2 DEF SettlesWith
  <2> HIDE DEF owed, s
  <2> QED  BY <1>0, <2>4, <2>5, <2>6, PaymentsSettle
<1>3. CASE SettlesWith(w, "refundBets", Refunds(bets[m]))
  <2> DEFINE owed == Refunds(bets[m])
  <2>1. /\ Total(owed) = VolumeOf(bets[m])
        /\ \A p \in owed : p.user \in Bettors(bets[m])
    BY <1>1, RefundsMakeVolume
  <2>2. r.pc = "refundBets" /\ PayNext(w, owed) /\ Same
    BY <1>3 DEF SettlesWith
  <2> HIDE DEF owed
  <2> QED  BY <1>0, <2>1, <2>2, PaymentsSettle
<1> QED  BY <1>0, <1>2, <1>3 DEF Decides

(* A payment is made once.                                                 *)
LEMMA PaymentPays ==
  ASSUME NEW w, Serial(w), TypeOK', Pays(w)
  PROVE  L!Next
<1> DEFINE p == req[w].paying
<1>1. /\ TypeOK /\ Workers = {w} /\ w \in Workers /\ req[w].pc = "paySave"
      /\ \A x \in Users : users[x].balance \in Int
      /\ p.user \in Users /\ p.amount \in Int
      /\ PayNext(w, req[w].owed \ {p})
      /\ BalanceMoves(p.user, p.amount)
      /\ StatusesKept /\ bets' = bets
  BY SerialTyped DEF Serial, Pays, Payment
<1>2. p \in req[w].owed
  BY <1>1, SerialTyped DEF SerialHolds, OwedHolds
<1>3. /\ req'[w].owed = req[w].owed \ {p}
      /\ req'[w].pc \in {"idle", "payRead"}
  BY <1>1, LoopLeaves
<1>4. /\ Unfinished(w) = 0 /\ Unfinished(w)' = 0
      /\ \A x : ~Deciding(w, x) /\ ~Deciding(w, x)'
  BY <1>1, <1>3, Finished DEF Inserting, Settles
<1>5. ASSUME NEW x \in Users
      PROVE  LedgerBalance'[x] = IF x = p.user THEN LedgerBalance[x] + p.amount
                                 ELSE LedgerBalance[x]
  BY <1>1, <1>4, OneBalance DEF BalanceMoves
<1>6. LedgerBalance' = [LedgerBalance EXCEPT ![p.user] = @ + p.amount]
  <2> HIDE DEF p
  <2> QED  BY <1>5, Extensional
<1>7. ASSUME NEW x \in Markets
      PROVE  LedgerStatus'[x] = LedgerStatus[x] /\ LedgerPot'[x] = LedgerPot[x]
  BY <1>1, <1>4, OneStatus DEF StatusesKept
<1>8. LedgerStatus' = LedgerStatus /\ LedgerPot' = LedgerPot
  BY <1>7, Extensional, Zenon
<1>9. LedgerEntered' = LedgerEntered
  BY <1>1 DEF LedgerEntered
<1>10. p \in Owed /\ Owed' = Owed \ {p}
  BY <1>1, <1>2, <1>3, OneWorker
<1> HIDE DEF p
<1>11. L!Pay(p)
  BY <1>6, <1>8, <1>9, <1>10 DEF L!Pay
<1> QED  BY <1>10, <1>11 DEF L!Next

LEMMA LedgerStarts ==
  ASSUME NEW w, Workers = {w}, Init, TypeOK
  PROVE  L!Init
<1>1. req[w].pc = "idle" /\ req[w].owed = {}
  BY DEF Init, Idle
<1>2. Unfinished(w) = 0 /\ \A m : ~Deciding(w, m)
  BY <1>1, Finished DEF Inserting, Settles
<1>3. ASSUME NEW u \in Users PROVE LedgerBalance[u] = InitialBalance
  <2>1. users[u].balance = InitialBalance /\ InitialBalance \in Int
    BY ExchangeAssumption DEF Init
  <2> QED  BY <1>2, <2>1, OneBalance
<1>4. ASSUME NEW m \in Markets
      PROVE  /\ bets[m] = <<>>
             /\ LedgerStatus[m] = IF m \in OpenAtStart THEN "open" ELSE "none"
             /\ LedgerPot[m] = 0
  <2>1. /\ bets[m] = <<>>
        /\ markets[m].status = IF m \in OpenAtStart THEN "open" ELSE "none"
    BY DEF Init, NoMarket
  <2>2. VolumeOf(bets[m]) = 0
    BY <2>1, EmptyLog
  <2> QED  BY <1>2, <2>1, <2>2, OneStatus
<1>5. LedgerEntered = {}
  <2>1. \A m \in Markets : Bettors(bets[m]) = {}
    BY <1>4, EmptyLog
  <2> QED  BY <2>1, EnteredAre
<1>6. Owed = {}
  BY <1>1, OneWorker
<1>7. LedgerBalance = [u \in Users |-> InitialBalance]
  BY <1>3, Extensional
<1>8. LedgerStatus =
        [m \in Markets |-> IF m \in OpenAtStart THEN "open" ELSE "none"]
  BY <1>4, Extensional
<1>9. LedgerPot = [m \in Markets |-> 0]
  BY <1>4, Extensional
<1> QED  BY <1>5, <1>6, <1>7, <1>8, <1>9 DEF L!Init

LEMMA LedgerSteps ==
  ASSUME NEW w, ~CanFail, Serial(w), TypeOK', [Next]_vars
  PROVE  [L!Next]_(L!ledger)
<1>1. SerialStep(w)
  BY NextHolds
<1>2. req[w].due \in Int /\ -req[w].due \in Int /\ -CreateMarketCost \in Int
  BY SerialTyped, ExchangeAssumption DEF Request
<1>3. CASE Quiet(w)
  BY <1>3, QuietStutters
<1>4. CASE Debits(w, "buyDebit", "buyInsert", -req[w].due)
  BY <1>2, <1>4, DebitStutters
<1>5. CASE Debits(w, "sellCredit", "sellInsert", req[w].due)
  BY <1>2, <1>5, DebitStutters
<1>6. CASE Debits(w, "createDebit", "createInsert", -CreateMarketCost)
  BY <1>2, <1>6, DebitStutters
<1>7. CASE Inserts(w, "buyInsert", req[w].amount)
  BY <1>7, BuyPlaces
<1>8. CASE Inserts(w, "sellInsert", -req[w].shares)
  BY <1>8, SaleCashes
<1>9. CASE Opens(w)
  BY <1>9, CreationOpens
<1>10. CASE Resolves(w)
  BY <1>10, ResolutionStutters
<1>11. CASE Decides(w)
  BY <1>11, DecisionSettles
<1>12. CASE Pays(w)
  BY <1>12, PaymentPays
<1>13. ~Dies(w)
  BY DEF Dies
<1> QED
  BY <1>1, <1>3, <1>4, <1>5, <1>6, <1>7, <1>8, <1>9, <1>10, <1>11, <1>12,
     <1>13
  DEF SerialStep

(* One request at a time and without failures, the handlers implement the  *)
(* ledger, whatever the users, markets, fees and logs, as long as the      *)
(* calculator deals out the pools of the logs it is given.                 *)
THEOREM HandlersImplementLedger ==
  ASSUME NEW w, Workers = {w}, IsFiniteSet(Users), ~CanFail
  PROVE  Spec /\ []PoolKept => ImplementsLedger
<1>1. Init /\ TypeOK => L!Init
  BY LedgerStarts
<1>2. Serial(w) /\ TypeOK' /\ [Next]_vars => [L!Next]_(L!ledger)
  BY LedgerSteps
<1>3. Spec /\ []PoolKept => []Serial(w)
  BY SerialAlways
<1>4. Spec => []TypeOK
  BY TypeCorrect
<1> QED
  BY <1>1, <1>2, <1>3, <1>4, PTL DEF Spec, ImplementsLedger, L!Spec

-----------------------------------------------------------------------------
(* The money of the exchange, one term at a time.                          *)

Balances == SumOf([u \in Users |-> users[u].balance], Users)
Pots     == SumOf(LedgerPot, Markets)

LEMMA TransitTyped ==
  ASSUME NEW w \in Workers
  PROVE  /\ TypeOK => InTransit(w) \in Int
         /\ TypeOK' => InTransit(w)' \in Int
<1>1. ASSUME TypeOK PROVE InTransit(w) \in Int
  <2>1. req[w].amount \in Int /\ req[w].shares \in Int
    BY <1>1 DEF TypeOK, Request
  <2> QED  BY <2>1 DEF InTransit, At
<1>2. ASSUME TypeOK' PROVE InTransit(w)' \in Int
  <2>1. req'[w].amount \in Int /\ req'[w].shares \in Int
    BY <1>2 DEF TypeOK, Request
  <2> QED  BY <2>1 DEF InTransit, At
<1> QED  BY <1>1, <1>2

LEMMA MoneyIs ==
  ASSUME NEW w, Workers = {w}
  PROVE  /\ TypeOK => Money = Balances + Pots + Total(req[w].owed)
                                + InTransit(w)
         /\ TypeOK' => Money' = Balances' + Pots' + Total(req'[w].owed)
                                  + InTransit(w)'
<1>1. ASSUME TypeOK
      PROVE  Money = Balances + Pots + Total(req[w].owed) + InTransit(w)
  <2> DEFINE f == [x \in Workers |-> InTransit(x)]
  <2>1. f[w] = InTransit(w) /\ InTransit(w) \in Int
    BY <1>1, TransitTyped
  <2>2. Money = Balances + Pots + Total(Owed) + SumOf(f, Workers)
    BY DEF Money, Balances, Pots, LedgerPot
  <2> HIDE DEF f
  <2>3. SumOf(f, {w}) = f[w]
    BY <2>1, SumSingle
  <2>4. Owed = req[w].owed
    BY OneWorker
  <2> QED  BY <2>1, <2>2, <2>3, <2>4
<1>2. ASSUME TypeOK'
      PROVE  Money' = Balances' + Pots' + Total(req'[w].owed) + InTransit(w)'
  <2> DEFINE f == [x \in Workers |-> InTransit(x)']
  <2>1. f[w] = InTransit(w)' /\ InTransit(w)' \in Int
    BY <1>2, TransitTyped
  <2>2. Money' = Balances' + Pots' + Total(Owed') + SumOf(f, Workers)
    BY DEF Money, Balances, Pots, LedgerPot, Total
  <2> HIDE DEF f
  <2>3. SumOf(f, {w}) = f[w]
    BY <2>1, SumSingle
  <2>4. Owed' = req'[w].owed
    BY OneWorker
  <2> QED  BY <2>1, <2>2, <2>3, <2>4
<1> QED  BY <1>1, <1>2

LEMMA BalancesMove ==
  ASSUME TypeOK, TypeOK', IsFiniteSet(Users)
  PROVE  /\ Balances \in Int /\ Balances' \in Int
         /\ BalancesKept => Balances' = Balances
         /\ \A u \in Users, b \in Int :
              BalanceMoves(u, b) => Balances' = Balances + b
<1> DEFINE f == [u \in Users |-> users[u].balance]
           g == [u \in Users |-> users'[u].balance]
<1>1. \A u \in Users : /\ f[u] = users[u].balance /\ f[u] \in Int
                       /\ g[u] = users'[u].balance /\ g[u] \in Int
  BY DEF TypeOK, UserRow
<1>2. Balances = SumOf(f, Users) /\ Balances' = SumOf(g, Users)
  BY DEF Balances
<1> HIDE DEF f, g
<1>3. IntsOn(f, Users) /\ IntsOn(g, Users)
  BY <1>1 DEF IntsOn
<1>4. SumOf(f, Users) \in Int /\ SumOf(g, Users) \in Int
  BY <1>3, SumInt
<1>5. ASSUME BalancesKept PROVE Balances' = Balances
  <2>1. \A u \in Users : g[u] = f[u]
    BY <1>1, <1>5 DEF BalancesKept
  <2> QED  BY <1>2, <1>3, <2>1, SumCongruent
<1>6. ASSUME NEW u \in Users, NEW b \in Int, BalanceMoves(u, b)
      PROVE  Balances' = Balances + b
  <2>1. g[u] = f[u] + b /\ \A x \in Users \ {u} : g[x] = f[x]
    BY <1>1, <1>6 DEF BalanceMoves
  <2>2. SumOf(g, Users) = SumOf(f, Users) - f[u] + g[u]
    BY <1>3, <2>1, SumChanged
  <2> QED  BY <1>1, <1>2, <1>4, <2>1, <2>2
<1> QED  BY <1>2, <1>4, <1>5, <1>6

(* The pots as sums of a function: unchanged, or changed at one market.    *)
LEMMA PotsMove ==
  ASSUME NEW w, Serial(w), TypeOK', IsFiniteSet(Markets)
  PROVE  /\ Pots \in Int /\ Pots' \in Int
         /\ LedgerPot' = LedgerPot => Pots' = Pots
         /\ \A m \in Markets, v \in Int : PotBecomes(m, v)
              => LedgerPot[m] \in Int /\ Pots' = Pots - LedgerPot[m] + v
<1>1. Workers = {w} /\ TypeOK
  BY SerialTyped DEF Serial
<1>2. \A m \in Markets : LedgerPot[m] \in Int
  <2>1. ASSUME NEW m \in Markets PROVE VolumeOf(bets[m]) \in Int
    BY SerialTyped DEF Volume
  <2> QED  BY <1>1, <2>1, OneStatus
<1>3. \A m \in Markets : LedgerPot'[m] \in Int
  <2>1. ASSUME NEW m \in Markets PROVE VolumeOf(bets'[m]) \in Int
    <3>1. bets'[m] \in Seq(StampedRow)
      BY DEF TypeOK
    <3> QED  BY <3>1, LogTyped
  <2> QED  BY <1>1, <2>1, OneStatus
<1>4. IntsOn(LedgerPot, Markets) /\ IntsOn(LedgerPot', Markets)
  BY <1>2, <1>3 DEF IntsOn
<1>5. Pots' = SumOf(LedgerPot', Markets)
  BY DEF Pots
<1>6. Pots \in Int /\ Pots' \in Int
  BY <1>4, <1>5, SumInt DEF Pots
<1>7. ASSUME NEW m \in Markets, NEW v \in Int, PotBecomes(m, v)
      PROVE  LedgerPot[m] \in Int /\ Pots' = Pots - LedgerPot[m] + v
  <2>1. LedgerPot'[m] = v
        /\ \A x \in Markets \ {m} : LedgerPot'[x] = LedgerPot[x]
    BY <1>7 DEF PotBecomes
  <2>2. SumOf(LedgerPot', Markets)
          = SumOf(LedgerPot, Markets) - LedgerPot[m] + LedgerPot'[m]
    BY <1>4, <2>1, SumChanged
  <2> QED  BY <1>2, <1>5, <2>1, <2>2 DEF Pots
<1> QED  BY <1>5, <1>6, <1>7 DEF Pots

(* A resolution that goes on, or dies, gives up the pot it was to pay.     *)
LEMMA PotGoes ==
  ASSUME NEW w, Serial(w), TypeOK', IsFiniteSet(Markets),
         StatusesKept, bets' = bets, req'[w].pc \notin Settles
  PROVE  Pots' = Pots - (IF req[w].pc \in Settles
                         THEN VolumeOf(bets[req[w].market]) ELSE 0)
<1>0. PICK m \in Markets : m = req[w].market
  BY SerialTyped
<1>1. Workers = {w} /\ VolumeOf(bets[m]) \in Int
  BY SerialTyped DEF Serial, Volume
<1>2. \A x : ~Deciding(w, x)'
  BY Finished
<1>3. CASE req[w].pc \in Settles
  <2>1. /\ markets[m].status # "open"
        /\ \A x : Deciding(w, x) <=> x = m
    BY <1>0, <1>3, SerialTyped
    DEF SerialHolds, StatusHolds, Settles, Deciding, Outcomes
  <2>2. ASSUME NEW x \in Markets
        PROVE  LedgerPot'[x] = IF x = m THEN 0 ELSE LedgerPot[x]
    BY <1>1, <1>2, <2>1, OneStatus DEF StatusesKept
  <2>3. PotBecomes(m, 0)
    BY <2>2 DEF PotBecomes
  <2>4. LedgerPot[m] = VolumeOf(bets[m])
    BY <1>1, <2>1, OneStatus
  <2>5. Pots' = Pots - LedgerPot[m] + 0
    BY <2>3, PotsMove
  <2> QED  BY <1>0, <1>1, <1>3, <2>4, <2>5, PotsMove
<1>4. CASE req[w].pc \notin Settles
  <2>1. ASSUME NEW x \in Markets PROVE LedgerPot'[x] = LedgerPot[x]
    <3>1. ~Deciding(w, x)
      BY <1>4, Finished
    <3> QED  BY <1>1, <1>2, <3>1, OneStatus DEF StatusesKept
  <2>2. LedgerPot' = LedgerPot
    BY <2>1, Extensional, Zenon
  <2> QED  BY <1>4, <2>2, PotsMove
<1> QED  BY <1>3, <1>4

LEMMA TotalTyped ==
  ASSUME NEW owed, owed \subseteq Payment, IsFiniteSet(owed)
  PROVE  /\ Total(owed) \in Int
         /\ (\A p \in owed : p.amount >= 0) => Total(owed) >= 0
         /\ \A p \in owed : Total(owed \ {p}) = Total(owed) - p.amount
<1> DEFINE f == [p \in owed |-> p.amount]
<1>1. \A p \in owed : f[p] = p.amount /\ p.amount \in Int
  BY DEF Payment
<1>2. Total(owed) = SumOf(f, owed)
  BY DEF Total
<1> HIDE DEF f
<1>3. IntsOn(f, owed)
  BY <1>1 DEF IntsOn
<1>4. Total(owed) \in Int
  BY <1>2, <1>3, SumInt
<1>5. ASSUME \A p \in owed : p.amount >= 0 PROVE Total(owed) >= 0
  <2>1. \A p \in owed : f[p] \in Nat
    BY <1>1, <1>5
  <2> QED  BY <1>2, <2>1, SumNonNegative
<1>6. ASSUME NEW p \in owed
      PROVE  Total(owed \ {p}) = Total(owed) - p.amount
  <2> DEFINE R == owed \ {p}
             g == [q \in R |-> q.amount]
  <2>1. /\ IsFiniteSet(R) /\ IntsOn(f, R)
        /\ \A q \in R : g[q] = f[q]
    BY <1>1, FS_Subset DEF IntsOn
  <2>2. SumOf(f, owed) = f[p] + SumOf(f, R)
    BY <1>3, SumRemove
  <2>3. Total(R) = SumOf(g, R)
    BY DEF Total
  <2> HIDE DEF R, g
  <2>4. SumOf(g, R) = SumOf(f, R) /\ SumOf(f, R) \in Int
    BY <2>1, SumCongruent, SumInt
  <2> QED  BY <1>1, <1>2, <2>2, <2>3, <2>4 DEF R
<1> QED  BY <1>4, <1>5, <1>6

LEMMA OwedTyped ==
  ASSUME NEW w, Serial(w)
  PROVE  /\ req[w].owed \subseteq Payment /\ IsFiniteSet(req[w].owed)
         /\ Total(req[w].owed) \in Int
         /\ req[w].pc \notin {"payRead", "paySave"}
              => Total(req[w].owed) = 0
<1>1. req[w].owed \subseteq Payment /\ IsFiniteSet(req[w].owed)
  BY SerialTyped DEF SerialHolds, OwedHolds, Request
<1>2. Total({}) = 0
  BY SumEmpty DEF Total
<1>3. req[w].pc \notin {"payRead", "paySave"} => req[w].owed = {}
  BY SerialTyped DEF SerialHolds, OwedHolds
<1> QED  BY <1>1, <1>2, <1>3, TotalTyped

LEMMA NoTransit ==
  ASSUME NEW w
  PROVE  /\ req[w].pc \notin Inserting => InTransit(w) = 0
         /\ req'[w].pc \notin Inserting => InTransit(w)' = 0
<1>1. req[w].pc \notin Inserting => InTransit(w) = 0
  BY DEF Inserting, InTransit, At
<1>2. req'[w].pc \notin Inserting => InTransit(w)' = 0
  BY DEF Inserting, InTransit, At
<1> QED  BY <1>1, <1>2

(* What each kind of step does to the money.                               *)
LEMMA QuietMoney ==
  ASSUME NEW w, Serial(w), TypeOK', IsFiniteSet(Markets), Quiet(w)
  PROVE  Money' = Money
<1>1. /\ TypeOK /\ Workers = {w} /\ IsFiniteSet(Users)
      /\ BalancesKept /\ req'[w].owed = req[w].owed
  BY SerialTyped DEF Serial, Quiet, Same
<1>2. Balances' = Balances
  BY <1>1, BalancesMove
<1>3. Pots' = Pots
  <2>1. LedgerPot' = LedgerPot
    BY QuietStutters DEF L!ledger
  <2> QED  BY <2>1, PotsMove
<1>4. InTransit(w)' = InTransit(w)
  <2>1. CASE req' = req
    BY <2>1 DEF InTransit, At
  <2>2. CASE req[w].pc \notin Inserting /\ req'[w].pc \notin Inserting
    BY <2>2, NoTransit
  <2> QED  BY <2>1, <2>2 DEF Quiet, Busy, Inserting
<1> QED  BY <1>1, <1>2, <1>3, <1>4, MoneyIs

LEMMA DebitMoney ==
  ASSUME NEW w, Serial(w), TypeOK', IsFiniteSet(Markets),
         NEW label, NEW next, NEW b \in Int,
         \/ label = "buyDebit" /\ next = "buyInsert" /\ b = -req[w].due
         \/ label = "sellCredit" /\ next = "sellInsert" /\ b = req[w].due
         \/ label = "createDebit" /\ next = "createInsert"
              /\ b = -CreateMarketCost,
         Debits(w, label, next, b)
  PROVE  /\ Money \in Int
         /\ Money' = Money + b + InTransit(w)'
         /\ InTransit(w)' = IF label = "buyDebit" THEN req[w].amount
                            ELSE IF label = "sellCredit" THEN -req[w].shares
                            ELSE 0
<1>1. /\ TypeOK /\ Workers = {w} /\ w \in Workers /\ IsFiniteSet(Users)
      /\ req[w] \in Request /\ req[w].user \in Users
      /\ req[w].pc = label /\ req'[w] = [req[w] EXCEPT !.pc = next]
      /\ BalanceMoves(req[w].user, b)
  BY SerialTyped DEF Serial, Debits
<1>2. /\ req'[w].pc = next /\ req'[w].owed = req[w].owed
      /\ req'[w].amount = req[w].amount /\ req'[w].shares = req[w].shares
  BY <1>1 DEF Request
<1>3. Balances' = Balances + b /\ Balances \in Int
  BY <1>1, BalancesMove
<1>4. Pots' = Pots /\ Pots \in Int
  <2>1. LedgerPot' = LedgerPot
    BY DebitStutters DEF L!ledger
  <2> QED  BY <2>1, PotsMove
<1>5. /\ InTransit(w) = 0 /\ InTransit(w)' \in Int
      /\ InTransit(w)' = IF label = "buyDebit" THEN req[w].amount
                         ELSE IF label = "sellCredit" THEN -req[w].shares
                         ELSE 0
  <2>1. InTransit(w)' \in Int
    BY <1>1, TransitTyped
  <2>2. InTransit(w) = 0
    BY <1>1 DEF InTransit, At
  <2> QED  BY <1>1, <1>2, <2>1, <2>2 DEF InTransit, At
<1>6. Total(req[w].owed) \in Int
  BY OwedTyped
<1>7. /\ Money = Balances + Pots + Total(req[w].owed) + InTransit(w)
      /\ Money' = Balances' + Pots' + Total(req[w].owed) + InTransit(w)'
  BY <1>1, <1>2, MoneyIs
<1>8. Money \in Int /\ Money' = Money + b + InTransit(w)'
  BY <1>3, <1>4, <1>5, <1>6, <1>7
<1> QED  BY <1>5, <1>8

LEMMA InsertMoney ==
  ASSUME NEW w, Serial(w), TypeOK', IsFiniteSet(Markets),
         NEW label \in Inserting, NEW amount \in Int,
         amount = InTransit(w), Inserts(w, label, amount)
  PROVE  Money' = Money
<1>0. PICK m \in Markets : m = req[w].market
  BY SerialTyped
<1>1. /\ TypeOK /\ Workers = {w} /\ w \in Workers /\ IsFiniteSet(Users)
      /\ BalancesKept /\ req'[w] = Idle
  BY SerialTyped DEF Serial, Inserts
<1>2. /\ PotBecomes(m, LedgerPot[m] + amount) /\ Owed' = Owed
      /\ LedgerPot[m] = VolumeOf(bets[m])
  BY <1>0, InsertMoves
<1>3. LedgerPot[m] \in Int
  BY <1>2, SerialTyped DEF Volume
<1>4. Pots' = Pots + amount /\ Pots \in Int
  BY <1>2, <1>3, PotsMove
<1>5. Balances' = Balances /\ Balances \in Int
  BY <1>1, BalancesMove
<1>6. InTransit(w)' = 0 /\ req'[w].owed = req[w].owed
  <2>1. req'[w].pc = "idle"
    BY <1>1 DEF Idle
  <2> QED  BY <1>1, <1>2, <2>1, NoTransit, OneWorker DEF Inserting
<1>7. Total(req[w].owed) \in Int
  BY OwedTyped
<1> QED  BY <1>1, <1>4, <1>5, <1>6, <1>7, MoneyIs

(* Opening a market or resolving it moves no money.                        *)
LEMMA StatusMoney ==
  ASSUME NEW w, Serial(w), TypeOK', IsFiniteSet(Markets),
         Opens(w) \/ Resolves(w)
  PROVE  Money' = Money
<1>1. /\ TypeOK /\ Workers = {w} /\ IsFiniteSet(Users) /\ BalancesKept
      /\ req[w] \in Request
  BY SerialTyped DEF Serial, Opens, Resolves
<1>2. LedgerPot' = LedgerPot
  <2>1. Resolves(w) => LedgerPot' = LedgerPot
    BY ResolutionStutters DEF L!ledger
  <2> QED  BY <2>1, CreationOpens
<1>3. /\ req[w].pc \in {"createInsert", "resolveSave"}
      /\ req'[w].pc \in {"idle", "payMarket", "refundBets"}
      /\ Total(req'[w].owed) = Total(req[w].owed)
  <2>1. CASE Opens(w)
    <3>1. req[w].pc = "createInsert" /\ req[w].owed = {}
      BY <2>1, SerialTyped DEF Opens, SerialHolds, OwedHolds
    <3>2. req'[w].pc = "idle" /\ req'[w].owed = {}
      BY <2>1 DEF Opens, Idle
    <3> QED  BY <3>1, <3>2
  <2>2. CASE Resolves(w)
    <3> DEFINE next == IF req[w].choice = "N/A" THEN "refundBets"
                       ELSE "payMarket"
    <3>1. /\ req[w].pc = "resolveSave"
          /\ req'[w] = [req[w] EXCEPT !.pc = next]
      BY <2>2 DEF Resolves
    <3>2. req'[w].pc = next /\ req'[w].owed = req[w].owed
      BY <1>1, <3>1 DEF Request
    <3> QED  BY <3>1, <3>2
  <2> QED  BY <2>1, <2>2
<1>4. InTransit(w) = 0 /\ InTransit(w)' = 0
  BY <1>3, NoTransit DEF Inserting
<1>5. Pots' = Pots /\ Balances' = Balances
  BY <1>1, <1>2, PotsMove, BalancesMove
<1> QED  BY <1>1, <1>3, <1>4, <1>5, MoneyIs

LEMMA DecisionMoney ==
  ASSUME NEW w, Serial(w), TypeOK', IsFiniteSet(Markets),
         NEW m \in Markets, m = req[w].market,
         NEW owed, owed \subseteq Payment, IsFiniteSet(owed),
         req[w].pc \in {"payBets", "refundBets"}, PayNext(w, owed), Same
  PROVE  /\ Money \in Int
         /\ Money' = Money - VolumeOf(bets[m]) + Total(owed)
<1>1. /\ TypeOK /\ Workers = {w} /\ w \in Workers /\ IsFiniteSet(Users)
      /\ BalancesKept /\ StatusesKept /\ bets' = bets
      /\ VolumeOf(bets[m]) \in Int
  BY SerialTyped DEF Serial, Same, Volume
<1>2. req'[w].owed = owed /\ req'[w].pc \in {"idle", "payRead"}
  BY <1>1, LoopLeaves
<1>3. /\ Total(req[w].owed) = 0
      /\ InTransit(w) = 0 /\ InTransit(w)' = 0
  BY <1>2, OwedTyped, NoTransit DEF Inserting
<1>4. Total(owed) \in Int
  BY TotalTyped
<1>5. /\ Balances' = Balances /\ Balances \in Int /\ Pots \in Int
      /\ Pots' = Pots - VolumeOf(bets[m])
  <2>1. req'[w].pc \notin Settles /\ req[w].pc \in Settles
    BY <1>2 DEF Settles
  <2> QED  BY <1>1, <2>1, BalancesMove, PotsMove, PotGoes
<1>6. /\ Money = Balances + Pots
      /\ Money' = Balances' + Pots' + Total(owed)
  <2>1. /\ Money = Balances + Pots + 0 + 0
        /\ Money' = Balances' + Pots' + Total(owed) + 0
    BY <1>1, <1>2, <1>3, MoneyIs
  <2> QED  BY <1>1, <1>4, <1>5, <2>1
<1> QED  BY <1>1, <1>4, <1>5, <1>6

LEMMA PaymentMoney ==
  ASSUME NEW w, Serial(w), TypeOK', IsFiniteSet(Markets), Pays(w)
  PROVE  Money' = Money
<1> DEFINE p == req[w].paying
<1>1. /\ TypeOK /\ Workers = {w} /\ w \in Workers /\ IsFiniteSet(Users)
      /\ req[w].pc = "paySave" /\ p.user \in Users /\ p.amount \in Int
      /\ PayNext(w, req[w].owed \ {p}) /\ BalanceMoves(p.user, p.amount)
      /\ StatusesKept /\ bets' = bets
  BY SerialTyped DEF Serial, Pays, Payment
<1>2. p \in req[w].owed
  BY <1>1, SerialTyped DEF SerialHolds, OwedHolds
<1>3. /\ req'[w].owed = req[w].owed \ {p}
      /\ req'[w].pc \in {"idle", "payRead"}
  BY <1>1, LoopLeaves
<1>4. /\ Total(req'[w].owed) = Total(req[w].owed) - p.amount
      /\ Total(req[w].owed) \in Int
  BY <1>2, <1>3, OwedTyped, TotalTyped
<1>5. InTransit(w) = 0 /\ InTransit(w)' = 0
  BY <1>1, <1>3, NoTransit DEF Inserting
<1>6. /\ Balances' = Balances + p.amount /\ Balances \in Int
      /\ Pots' = Pots - 0 /\ Pots \in Int
  <2>1. req'[w].pc \notin Settles /\ req[w].pc \notin Settles
    BY <1>1, <1>3 DEF Settles
  <2> QED  BY <1>1, <2>1, BalancesMove, PotsMove, PotGoes
<1>7. /\ Money = Balances + Pots + Total(req[w].owed) + InTransit(w)
      /\ Money' = Balances' + Pots' + Total(req'[w].owed) + InTransit(w)'
  BY <1>1, MoneyIs
<1> HIDE DEF p
<1> QED  BY <1>1, <1>4, <1>5, <1>6, <1>7

(* A request that dies takes with it what it had not finished.             *)
LEMMA DeathMoney ==
  ASSUME NEW w, Serial(w), TypeOK', IsFiniteSet(Markets), Dies(w),
         req[w].pc # "sellInsert", \A p \in req[w].owed : p.amount >= 0
  PROVE  ~(Money' > Money)
<1>0. PICK m \in Markets : m = req[w].market
  BY SerialTyped
<1>1. /\ TypeOK /\ Workers = {w} /\ w \in Workers /\ IsFiniteSet(Users)
      /\ BalancesKept /\ StatusesKept /\ bets' = bets
      /\ req'[w].pc = "idle" /\ req'[w].owed = {}
  <2>1. TypeOK /\ Workers = {w} /\ w \in Workers /\ IsFiniteSet(Users)
    BY SerialTyped DEF Serial
  <2>2. /\ BalancesKept /\ StatusesKept /\ bets' = bets
        /\ req'[w] = Idle
    BY DEF Dies, Same
  <2> QED  BY <2>1, <2>2 DEF Idle
<1>2. Total(req[w].owed) \in Int /\ Total(req[w].owed) >= 0
  BY OwedTyped, TotalTyped
<1>3. Total({}) = 0
  BY SumEmpty DEF Total
<1>4. /\ InTransit(w) \in Int /\ InTransit(w) >= 0 /\ InTransit(w)' = 0
  <2>1. InTransit(w) \in Int /\ InTransit(w)' = 0
    BY <1>1, TransitTyped, NoTransit DEF Inserting
  <2>2. CASE req[w].pc = "buyInsert"
    <3>1. req[w].amount >= 1 /\ req[w].amount \in Int
      BY <2>2, SerialTyped DEF LocalSound, TradeSound, Request
    <3> QED  BY <2>1, <2>2, <3>1 DEF InTransit, At
  <2>3. CASE req[w].pc # "buyInsert"
    BY <2>1, <2>3, NoTransit DEF Inserting
  <2> QED  BY <2>1, <2>2, <2>3
<1>5. VolumeOf(bets[m]) \in Int /\ VolumeOf(bets[m]) >= 0
  BY SerialTyped DEF LogHolds, Volume
<1>6. /\ Balances' = Balances /\ Balances \in Int /\ Pots \in Int
      /\ Pots' = Pots - (IF req[w].pc \in Settles
                         THEN VolumeOf(bets[m]) ELSE 0)
  <2>1. req'[w].pc \notin Settles
    BY <1>1 DEF Settles
  <2> QED  BY <1>0, <1>1, <2>1, BalancesMove, PotsMove, PotGoes
<1>7. /\ Money = Balances + Pots + Total(req[w].owed) + InTransit(w)
      /\ Money' = Balances' + Pots' + 0 + 0
  BY <1>1, <1>3, <1>4, MoneyIs
<1> QED  BY <1>2, <1>4, <1>5, <1>6, <1>7

LEMMA MoneyTyped ==
  ASSUME NEW w, Serial(w), TypeOK', IsFiniteSet(Markets)
  PROVE  Money \in Int
<1>1. TypeOK /\ Workers = {w} /\ w \in Workers /\ IsFiniteSet(Users)
  BY SerialTyped DEF Serial
<1>2. /\ Balances \in Int /\ Pots \in Int /\ InTransit(w) \in Int
      /\ Total(req[w].owed) \in Int
  BY <1>1, BalancesMove, PotsMove, TransitTyped, OwedTyped
<1> QED  BY <1>1, <1>2, MoneyIs

LEMMA MoneyStep ==
  ASSUME NEW w, Serial(w), TypeOK', IsFiniteSet(Markets), [Next]_vars,
         req[w].pc # "sellCredit", req[w].pc # "sellInsert",
         \A p \in req[w].owed : p.amount >= 0
  PROVE  ~(Money' > Money)
<1>1. /\ SerialStep(w) /\ w \in Workers /\ Money \in Int
      /\ TypeOK /\ IsFiniteSet(Users)
  BY NextHolds, SerialTyped, MoneyTyped DEF Serial
<1>2. /\ req[w].due \in Int /\ req[w].amount \in Int
      /\ req[w].shares \in Int /\ CreateMarketCost \in Nat
      /\ -req[w].due \in Int /\ -CreateMarketCost \in Int
  BY SerialTyped, ExchangeAssumption DEF Request
<1>3. CASE Quiet(w)
  BY <1>1, <1>3, QuietMoney
<1>4. CASE Dies(w)
  BY <1>4, DeathMoney
<1>5. CASE Debits(w, "buyDebit", "buyInsert", -req[w].due)
  <2>1. Money' = Money - req[w].due + req[w].amount
    BY <1>1, <1>2, <1>5, DebitMoney
  <2>2. req[w].due >= req[w].amount
    BY <1>5, SerialTyped
    DEF Debits, SerialHolds, CostHolds, LocalSound, TradeSound
  <2> QED  BY <1>1, <1>2, <2>1, <2>2
<1>6. CASE Debits(w, "createDebit", "createInsert", -CreateMarketCost)
  <2>1. Money' = Money + (-CreateMarketCost) + 0
    BY <1>2, <1>6, DebitMoney
  <2> QED  BY <1>1, <1>2, <2>1
<1>7. CASE Inserts(w, "buyInsert", req[w].amount)
  <2>1. req[w].amount = InTransit(w)
    BY <1>7 DEF Inserts, InTransit, At
  <2> QED  BY <1>1, <1>2, <1>7, <2>1, InsertMoney DEF Inserting
<1>8. CASE Opens(w) \/ Resolves(w)
  BY <1>1, <1>8, StatusMoney
<1>9. CASE Decides(w)
  <2>0. PICK m \in Markets : m = req[w].market
    BY SerialTyped
  <2>1. /\ VolumeOf(bets[m]) \in Int /\ VolumeOf(bets[m]) >= 0
        /\ DealsOut(bets[m]) /\ DealsOut(<<>>)
        /\ bets[m] \in Seq(StampedRow) /\ Sorted(bets[m])
    BY SerialTyped
    DEF LogHolds, Volume, Serial, SerialInv, StampInv, LogSound
  <2>2. CASE \E log \in GetBetsForMarket(m) :
               SettlesWith(w, "payBets", Winnings(log, markets[m].status))
    <3> DEFINE s == markets[m].status
    <3>1. PICK log \in GetBetsForMarket(m) :
            SettlesWith(w, "payBets", Winnings(log, s))
      BY <2>2
    <3>2. s \in Outcomes
      BY <2>0, <3>1, SerialTyped
      DEF SerialHolds, StatusHolds, SettlesWith
    <3>3. log = bets[m] \/ log = <<>>
      BY DEF GetBetsForMarket
    <3>4. \/ Winnings(log, s) = {}
          \/ Total(Winnings(log, s)) = VolumeOf(log)
      BY <2>1, <3>2, <3>3 DEF DealsOut
    <3>5. Total({}) = 0 /\ VolumeOf(<<>>) = 0
      BY SumEmpty, EmptyLog DEF Total
    <3>6. \/ Total(Winnings(log, s)) = 0
          \/ Total(Winnings(log, s)) = VolumeOf(bets[m])
      BY <3>3, <3>4, <3>5
    <3> DEFINE owed == Winnings(log, s)
    <3>7. /\ owed \subseteq Payment /\ IsFiniteSet(owed)
          /\ req[w].pc = "payBets" /\ PayNext(w, owed) /\ Same
      BY <3>1 DEF SettlesWith
    <3> HIDE DEF owed
    <3>8. Money' = Money - VolumeOf(bets[m]) + Total(owed)
      BY <2>0, <3>7, DecisionMoney
    <3> QED  BY <1>1, <2>1, <3>6, <3>8 DEF owed
  <2>3. CASE SettlesWith(w, "refundBets", Refunds(bets[m]))
    <3> DEFINE owed == Refunds(bets[m])
    <3>1. Total(owed) = VolumeOf(bets[m])
      BY <2>1, RefundsMakeVolume
    <3>2. /\ owed \subseteq Payment /\ IsFiniteSet(owed)
          /\ req[w].pc = "refundBets" /\ PayNext(w, owed) /\ Same
      BY <2>3 DEF SettlesWith
    <3> HIDE DEF owed
    <3>3. Money' = Money - VolumeOf(bets[m]) + Total(owed)
      BY <2>0, <3>2, DecisionMoney
    <3> QED  BY <1>1, <2>1, <3>1, <3>3
  <2> QED  BY <1>9, <2>0, <2>2, <2>3 DEF Decides
<1>10. CASE Pays(w)
  BY <1>1, <1>10, PaymentMoney
<1>11. /\ ~Debits(w, "sellCredit", "sellInsert", req[w].due)
       /\ ~Inserts(w, "sellInsert", -req[w].shares)
  BY DEF Debits, Inserts
<1> QED
  BY <1>1, <1>3, <1>4, <1>5, <1>6, <1>7, <1>8, <1>9, <1>10, <1>11
  DEF SerialStep

(* Handled one at a time, whatever fails, requests create credits only     *)
(* through sales: at a sale, or when one dies half way, or when the        *)
(* refunds that take sales back do.                                        *)
THEOREM CreditsComeFromSales ==
  ASSUME NEW w, Workers = {w}, IsFiniteSet(Users), IsFiniteSet(Markets)
  PROVE  Spec /\ []PoolKept => MoneyOnlyFromSales
<1>1. Serial(w) /\ TypeOK' /\ [Next]_vars
        => [Money' > Money => SaleUnderWay]_vars
  <2> SUFFICES ASSUME Serial(w), TypeOK', [Next]_vars, Money' > Money
               PROVE  SaleUnderWay
    OBVIOUS
  <2>1. /\ w \in Workers
        /\ \A p \in req[w].owed : p.amount \in Int
    BY OwedTyped, SerialTyped DEF Payment
  <2>2. \/ req[w].pc = "sellCredit" \/ req[w].pc = "sellInsert"
        \/ \E p \in req[w].owed : ~(p.amount >= 0)
    BY MoneyStep
  <2> QED  BY <2>1, <2>2 DEF SaleUnderWay, At
<1>2. Spec /\ []PoolKept => []Serial(w)
  BY SerialAlways
<1>3. Spec => []TypeOK
  BY TypeCorrect
<1> QED  BY <1>1, <1>2, <1>3, PTL DEF Spec, MoneyOnlyFromSales

-----------------------------------------------------------------------------
(* The books of the statistics page.                                       *)

(* What nobody has won on a market of this log and status.                 *)
LossOf(log, status) ==
  IF /\ status \in {"YES", "NO"}
     /\ \A u \in Users : Positions(Untimed(log), status)[u].value <= 0
  THEN VolumeOf(log) ELSE 0

Losses == [m \in Markets |-> IF Settling(m) THEN 0 ELSE Unwon(m)]
Lost == SumOf(Losses, Markets)

BuyersCount == SumOf([m \in Markets |-> Cardinality(Buyers(m))], Markets)

(* Fees paid for a row that is not there yet.                              *)
PendingFee(w) ==
  CASE At(w, "buyInsert")    -> req[w].due - req[w].amount
    [] At(w, "createInsert") -> CreateMarketCost
    [] OTHER                 -> 0

Extras(w) == MarketCreationFees + ParticipationFees + Lost + PendingFee(w)

(* What users were given, in credits and in markets.                       *)
Endowed ==
  Cardinality(Users) * InitialBalance
    + Cardinality(OpenAtStart) * CreateMarketCost

(* Credits, pots, fees and stakes nobody won always add up to what users   *)
(* were given, and to more only after a sale.                              *)
BooksHold(w) ==
  /\ Money + Extras(w) >= Endowed
  /\ \/ Money + Extras(w) = Endowed
     \/ Sold \/ At(w, "sellInsert")

LEMMA LossIs ==
  ASSUME NEW w, Workers = {w}, NEW m \in Markets
  PROVE  /\ Losses[m] = IF Deciding(w, m) THEN 0
                        ELSE LossOf(bets[m], markets[m].status)
         /\ Losses'[m] = IF Deciding(w, m)' THEN 0
                         ELSE LossOf(bets'[m], markets'[m].status)
<1>1. Unwon(m) = LossOf(bets[m], markets[m].status)
  BY DEF Unwon, LossOf, Volume
<1>2. Unwon(m)' = LossOf(bets'[m], markets'[m].status)
  BY DEF Unwon, LossOf, Volume
<1>3. /\ Losses[m] = IF Settling(m) THEN 0 ELSE Unwon(m)
      /\ Losses'[m] = IF Settling(m)' THEN 0 ELSE Unwon(m)'
  BY DEF Losses
<1>4. /\ Settling(m) <=> Deciding(w, m)
      /\ Settling(m)' <=> Deciding(w, m)'
  BY OneWorker
<1> QED  BY <1>1, <1>2, <1>3, <1>4

LEMMA LossTyped ==
  ASSUME NEW log \in Seq(StampedRow), NEW s
  PROVE  /\ LossOf(log, s) \in Int
         /\ s \notin Outcomes => LossOf(log, s) = 0
  BY LogTyped DEF LossOf, Outcomes

(* A market that is not resolved, or is being paid out, has lost nothing.  *)
LEMMA LossMoves ==
  ASSUME NEW w, Serial(w), TypeOK', IsFiniteSet(Markets)
  PROVE  /\ Lost \in Int /\ Lost' \in Int
         /\ (\A m \in Markets : Losses'[m] = Losses[m]) => Lost' = Lost
         /\ \A m \in Markets :
              (\A x \in Markets \ {m} : Losses'[x] = Losses[x])
                => /\ Losses[m] \in Int /\ Losses'[m] \in Int
                   /\ Lost' = Lost - Losses[m] + Losses'[m]
<1>1. Workers = {w}
  BY DEF Serial
<1>2. \A m \in Markets : Losses[m] \in Int /\ Losses'[m] \in Int
  <2> SUFFICES ASSUME NEW m \in Markets
               PROVE  Losses[m] \in Int /\ Losses'[m] \in Int
    OBVIOUS
  <2>1. bets[m] \in Seq(StampedRow) /\ bets'[m] \in Seq(StampedRow)
    BY SerialTyped DEF TypeOK
  <2>2. /\ LossOf(bets[m], markets[m].status) \in Int
        /\ LossOf(bets'[m], markets'[m].status) \in Int
    BY <2>1, LossTyped
  <2>3. /\ Losses[m] = IF Deciding(w, m) THEN 0
                        ELSE LossOf(bets[m], markets[m].status)
        /\ Losses'[m] = IF Deciding(w, m)' THEN 0
                         ELSE LossOf(bets'[m], markets'[m].status)
    BY <1>1, LossIs
  <2>4. Losses[m] \in Int
    BY <2>2, <2>3
  <2>5. Losses'[m] \in Int
    BY <2>2, <2>3
  <2> QED  BY <2>4, <2>5
<1>3. IntsOn(Losses, Markets) /\ IntsOn(Losses', Markets)
  BY <1>2 DEF IntsOn
<1>4. Lost = SumOf(Losses, Markets) /\ Lost' = SumOf(Losses', Markets)
  BY DEF Lost
<1>5. Lost \in Int /\ Lost' \in Int
  BY <1>3, <1>4, SumInt
<1>6. ASSUME \A m \in Markets : Losses'[m] = Losses[m] PROVE Lost' = Lost
  BY <1>3, <1>4, <1>6, SumCongruent
<1>7. ASSUME NEW m \in Markets,
             \A x \in Markets \ {m} : Losses'[x] = Losses[x]
      PROVE  /\ Losses[m] \in Int /\ Losses'[m] \in Int
             /\ Lost' = Lost - Losses[m] + Losses'[m]
  BY <1>2, <1>3, <1>4, <1>7, SumChanged
<1> QED  BY <1>5, <1>6, <1>7

(* What the winnings leave is what is lost.                                *)
LEMMA LossComplements ==
  ASSUME TypeOK, NEW m \in Markets, DealsOut(bets[m]), NEW s \in Outcomes
  PROVE  Total(Winnings(bets[m], s)) + LossOf(bets[m], s) = VolumeOf(bets[m])
<1> DEFINE log == bets[m]
           position == Positions(Untimed(log), s)
<1>1. log \in Seq(StampedRow) /\ VolumeOf(log) \in Int
  BY LogTyped DEF TypeOK
<1>2. ASSUME NEW u \in Users PROVE position[u].value \in Int
  <2>1. log \in GetBetsForMarket(m) /\ s \in Statuses
    BY DEF GetBetsForMarket, Outcomes, Statuses
  <2> QED  BY <2>1, PositionTyped DEF Position
<1>3. Winnings(log, s) = {} <=> \A u \in Users : position[u].value <= 0
  <2> DEFINE W == {u \in Users : position[u].value > 0}
             pay == [u \in W |-> [user |-> u, amount |-> position[u].value,
                                  key |-> 0]]
  <2>1. Winnings(log, s) = {pay[u] : u \in W}
    BY DEF Winnings
  <2>2. W = {} <=> \A u \in Users : position[u].value <= 0
    BY <1>2
  <2> HIDE DEF W, pay
  <2>3. {pay[u] : u \in W} = {} <=> W = {}
    OBVIOUS
  <2> QED  BY <2>1, <2>2, <2>3
<1>4. \/ Winnings(log, s) = {}
      \/ Total(Winnings(log, s)) = VolumeOf(log)
  BY DEF DealsOut
<1>5. Total({}) = 0
  BY SumEmpty DEF Total
<1>6. LossOf(log, s) = IF \A u \in Users : position[u].value <= 0
                       THEN VolumeOf(log) ELSE 0
  BY DEF LossOf, Outcomes
<1>7. CASE Winnings(log, s) = {}
  BY <1>1, <1>3, <1>5, <1>6, <1>7
<1>8. CASE Winnings(log, s) # {}
  BY <1>1, <1>3, <1>4, <1>6, <1>8
<1> QED  BY <1>7, <1>8

LEMMA BuyersTyped ==
  ASSUME NEW w, Serial(w), NEW m \in Markets
  PROVE  /\ Buyers(m) = Bettors(bets[m]) /\ Bettors(bets[m]) \subseteq Users
         /\ IsFiniteSet(Bettors(bets[m]))
<1>1. Buyers(m) = Bettors(bets[m]) /\ bets[m] \in Seq(StampedRow)
  BY SerialTyped DEF LogHolds
<1>2. Bettors(bets[m]) \subseteq Users
  BY <1>1, LogTyped DEF Bettors
<1>3. IsFiniteSet(Bettors(bets[m]))
  BY <1>2, FS_Subset DEF Serial
<1> QED  BY <1>1, <1>2, <1>3

LEMMA CountTyped ==
  ASSUME NEW w, Serial(w), IsFiniteSet(Markets)
  PROVE  /\ BuyersCount \in Int
         /\ Cardinality(Created) \in Int /\ IsFiniteSet(Created)
         /\ MarketCreationFees \in Int /\ ParticipationFees \in Int
         /\ ParticipationFees = BuyersCount * InitialBetFee
         /\ \A m \in Markets : Cardinality(Buyers(m)) \in Int
<1>1. \A m \in Markets : Cardinality(Buyers(m)) \in Int
  BY BuyersTyped, FS_CardinalityType
<1>2. BuyersCount \in Int
  <2> DEFINE f == [m \in Markets |-> Cardinality(Buyers(m))]
  <2>1. IntsOn(f, Markets)
    BY <1>1 DEF IntsOn
  <2> HIDE DEF f
  <2>2. SumOf(f, Markets) \in Int
    BY <2>1, SumInt
  <2> QED  BY <2>2 DEF BuyersCount, f
<1>3. IsFiniteSet(Created) /\ Cardinality(Created) \in Int
  <2>1. Created \subseteq Markets
    BY DEF Created
  <2> QED  BY <2>1, FS_Subset, FS_CardinalityType
<1>4. ParticipationFees = BuyersCount * InitialBetFee
  BY DEF ParticipationFees, BuyersCount
<1> QED
  BY <1>1, <1>2, <1>3, <1>4, ExchangeAssumption DEF MarketCreationFees

(* What the tables do not change, the books do not change.                 *)
LEMMA FeesKept ==
  /\ StatusesKept => MarketCreationFees' = MarketCreationFees
  /\ bets' = bets => ParticipationFees' = ParticipationFees /\ Sold' = Sold
<1>1. ASSUME StatusesKept PROVE MarketCreationFees' = MarketCreationFees
  <2>1. Created' = Created
    BY <1>1 DEF Created, StatusesKept
  <2> QED  BY <2>1 DEF MarketCreationFees
<1>2. ASSUME bets' = bets
      PROVE  ParticipationFees' = ParticipationFees /\ Sold' = Sold
  <2>1. \A m : Buyers(m)' = Buyers(m)
    BY <1>2 DEF Buyers, Buys
  <2>2. ParticipationFees' = ParticipationFees
    BY <2>1 DEF ParticipationFees
  <2>3. Sold' = Sold
    BY <1>2 DEF Sold
  <2> QED  BY <2>2, <2>3
<1> QED  BY <1>1, <1>2

LEMMA LossKept ==
  ASSUME NEW w, Serial(w), TypeOK', IsFiniteSet(Markets),
         StatusesKept, bets' = bets,
         \A m \in Markets : Deciding(w, m)' <=> Deciding(w, m)
  PROVE  Lost' = Lost
<1>1. Workers = {w}
  BY DEF Serial
<1>2. ASSUME NEW m \in Markets PROVE Losses'[m] = Losses[m]
  <2>1. markets'[m].status = markets[m].status
    BY DEF StatusesKept
  <2>2. /\ Losses[m] = IF Deciding(w, m) THEN 0
                       ELSE LossOf(bets[m], markets[m].status)
        /\ Losses'[m] = IF Deciding(w, m)' THEN 0
                        ELSE LossOf(bets'[m], markets'[m].status)
    BY <1>1, LossIs
  <2> QED  BY <2>1, <2>2
<1> QED  BY <1>2, LossMoves

LEMMA PendingTyped ==
  ASSUME NEW w, Serial(w)
  PROVE  PendingFee(w) \in Int
<1>1. /\ req[w].due \in Int /\ req[w].amount \in Int
      /\ CreateMarketCost \in Int
  BY SerialTyped, ExchangeAssumption DEF Request
<1> QED  BY <1>1 DEF PendingFee, At

LEMMA NoPendingFee ==
  ASSUME NEW w
  PROVE  /\ req[w].pc \notin {"buyInsert", "createInsert"}
              => PendingFee(w) = 0
         /\ req'[w].pc \notin {"buyInsert", "createInsert"}
              => PendingFee(w)' = 0
<1>1. req[w].pc \notin {"buyInsert", "createInsert"} => PendingFee(w) = 0
  BY DEF PendingFee, At
<1>2. req'[w].pc \notin {"buyInsert", "createInsert"} => PendingFee(w)' = 0
  BY DEF PendingFee, At
<1> QED  BY <1>1, <1>2

LEMMA ExtrasTyped ==
  ASSUME NEW w, Serial(w), TypeOK', IsFiniteSet(Markets)
  PROVE  /\ Money \in Int /\ MarketCreationFees \in Int
         /\ ParticipationFees \in Int /\ Lost \in Int
         /\ PendingFee(w) \in Int
  BY MoneyTyped, CountTyped, LossMoves, PendingTyped

(* Steps that change neither fees nor losses.                              *)
LEMMA BooksKept ==
  ASSUME NEW w, Serial(w), TypeOK', IsFiniteSet(Markets),
         StatusesKept, bets' = bets,
         \A m \in Markets : Deciding(w, m)' <=> Deciding(w, m)
  PROVE  /\ Extras(w)' = Extras(w) - PendingFee(w) + PendingFee(w)'
         /\ Sold' = Sold
<1>1. /\ MarketCreationFees' = MarketCreationFees
      /\ ParticipationFees' = ParticipationFees /\ Sold' = Sold
      /\ Lost' = Lost
  BY FeesKept, LossKept
<1>2. Extras(w)' = MarketCreationFees' + ParticipationFees' + Lost'
                     + PendingFee(w)'
  BY DEF Extras
<1>3. Extras(w) = MarketCreationFees + ParticipationFees + Lost
                    + PendingFee(w)
  BY DEF Extras
<1>4. PendingFee(w)' \in Int
  <2>1. w \in Workers /\ CreateMarketCost \in Int
    BY SerialTyped, ExchangeAssumption
  <2>2. req'[w].due \in Int /\ req'[w].amount \in Int
    BY <2>1 DEF TypeOK, Request
  <2> QED  BY <2>1, <2>2 DEF PendingFee, At
<1> QED  BY <1>1, <1>2, <1>3, <1>4, ExtrasTyped

LEMMA BooksStay ==
  ASSUME NEW w, BooksHold(w), Money' + Extras(w)' = Money + Extras(w),
         Sold \/ At(w, "sellInsert") => Sold' \/ At(w, "sellInsert")'
  PROVE  BooksHold(w)'
<1>1. Endowed' = Endowed
  BY DEF Endowed
<1>2. BooksHold(w)' <=> /\ Money' + Extras(w)' >= Endowed'
                        /\ \/ Money' + Extras(w)' = Endowed'
                           \/ Sold' \/ At(w, "sellInsert")'
  BY DEF BooksHold
<1> QED  BY <1>1, <1>2 DEF BooksHold

LEMMA QuietBooks ==
  ASSUME NEW w, Serial(w), TypeOK', IsFiniteSet(Markets), Quiet(w),
         BooksHold(w)
  PROVE  BooksHold(w)'
<1>1. /\ StatusesKept /\ bets' = bets
      /\ \/ req' = req
         \/ req[w].pc \notin Busy /\ req'[w].pc \notin Busy
         \/ /\ req[w].pc = "payMarket" /\ req'[w].pc = "payBets"
            /\ req'[w].market = req[w].market
  BY DEF Quiet, Same
<1>2. \A m \in Markets : Deciding(w, m)' <=> Deciding(w, m)
  <2>1. CASE req' = req
    BY <2>1 DEF Deciding
  <2>2. CASE req[w].pc \notin Busy /\ req'[w].pc \notin Busy
    BY <2>2, Finished DEF Busy
  <2>3. CASE /\ req[w].pc = "payMarket" /\ req'[w].pc = "payBets"
             /\ req'[w].market = req[w].market
    BY <2>3 DEF Deciding, Settles
  <2> QED  BY <1>1, <2>1, <2>2, <2>3
<1>3. /\ PendingFee(w)' = PendingFee(w)
      /\ At(w, "sellInsert")' <=> At(w, "sellInsert")
  <2>1. CASE req' = req
    BY <2>1 DEF PendingFee, At
  <2>2. CASE req' # req
    <3>1. /\ req[w].pc \notin {"buyInsert", "createInsert", "sellInsert"}
          /\ req'[w].pc \notin {"buyInsert", "createInsert", "sellInsert"}
      BY <1>1, <2>2 DEF Busy, Inserting
    <3> QED  BY <3>1, NoPendingFee DEF At
  <2> QED  BY <2>1, <2>2
<1>4. /\ Extras(w)' = Extras(w) - PendingFee(w) + PendingFee(w)'
      /\ Sold' = Sold /\ Money' = Money
  BY <1>1, <1>2, BooksKept, QuietMoney
<1>5. Extras(w) \in Int /\ Money \in Int /\ PendingFee(w) \in Int
  BY ExtrasTyped DEF Extras
<1>6. Money' + Extras(w)' = Money + Extras(w)
  BY <1>3, <1>4, <1>5
<1> QED  BY <1>3, <1>4, <1>6, BooksStay

LEMMA DebitBooks ==
  ASSUME NEW w, Serial(w), TypeOK', IsFiniteSet(Markets), BooksHold(w),
         NEW label, NEW next, NEW b \in Int,
         \/ label = "buyDebit" /\ next = "buyInsert" /\ b = -req[w].due
         \/ label = "sellCredit" /\ next = "sellInsert" /\ b = req[w].due
         \/ label = "createDebit" /\ next = "createInsert"
              /\ b = -CreateMarketCost,
         Debits(w, label, next, b)
  PROVE  BooksHold(w)'
<1>1. /\ StatusesKept /\ bets' = bets /\ req[w].pc = label
      /\ req'[w] = [req[w] EXCEPT !.pc = next]
  BY DEF Debits
<1>2. /\ req[w] \in Request /\ req[w].due \in Int /\ req[w].amount \in Int
      /\ req[w].shares \in Int /\ CreateMarketCost \in Int
  BY SerialTyped, ExchangeAssumption DEF Request
<1>3. /\ req'[w].pc = next /\ req'[w].due = req[w].due
      /\ req'[w].amount = req[w].amount
  BY <1>1, <1>2 DEF Request
<1>4. \A m \in Markets : Deciding(w, m)' <=> Deciding(w, m)
  BY <1>1, <1>3 DEF Deciding, Settles
<1>5. /\ Extras(w)' = Extras(w) - PendingFee(w) + PendingFee(w)'
      /\ Sold' = Sold
  BY <1>1, <1>4, BooksKept
<1>6. /\ PendingFee(w) = 0
      /\ PendingFee(w)' = IF label = "buyDebit"
                          THEN req[w].due - req[w].amount
                          ELSE IF label = "createDebit" THEN CreateMarketCost
                          ELSE 0
  <2>1. PendingFee(w) = 0
    BY <1>1, NoPendingFee
  <2> QED  BY <1>1, <1>3, <2>1 DEF PendingFee, At
<1>7. /\ Money \in Int /\ Money' = Money + b + InTransit(w)'
      /\ InTransit(w)' = IF label = "buyDebit" THEN req[w].amount
                         ELSE IF label = "sellCredit" THEN -req[w].shares
                         ELSE 0
  BY DebitMoney
<1>8. Extras(w) \in Int
  BY ExtrasTyped DEF Extras
<1>9. CASE label # "sellCredit"
  <2>1. Money' + Extras(w)' = Money + Extras(w)
    BY <1>2, <1>5, <1>6, <1>7, <1>8, <1>9
  <2>2. ~At(w, "sellInsert")
    BY <1>1 DEF At
  <2> QED  BY <1>5, <2>1, <2>2, BooksStay
<1>10. CASE label = "sellCredit"
  <2>1. req[w].shares <= req[w].due
    BY <1>1, <1>10, SerialTyped DEF SerialHolds, QuoteHolds
  <2>2. /\ Money' + Extras(w)'
             = Money + Extras(w) + req[w].due - req[w].shares
        /\ Money' + Extras(w)' >= Money + Extras(w)
    BY <1>2, <1>5, <1>6, <1>7, <1>8, <1>10, <2>1
  <2>3. At(w, "sellInsert")'
    BY <1>3, <1>10 DEF At
  <2>4. Endowed' = Endowed
    BY DEF Endowed
  <2>5. Money + Extras(w) >= Endowed
    BY DEF BooksHold
  <2>6. Endowed \in Int
    <3>1. Cardinality(Users) \in Nat /\ Cardinality(OpenAtStart) \in Nat
      <4>1. IsFiniteSet(Users) /\ IsFiniteSet(OpenAtStart)
        BY FS_Subset, ExchangeAssumption DEF Serial
      <4> QED  BY <4>1, FS_CardinalityType
    <3> QED  BY <3>1, ExchangeAssumption DEF Endowed
  <2>7. Money' + Extras(w)' >= Endowed
    BY <1>2, <1>7, <1>8, <2>2, <2>5, <2>6
  <2>8. BooksHold(w)' <=> /\ Money' + Extras(w)' >= Endowed'
                          /\ \/ Money' + Extras(w)' = Endowed'
                             \/ Sold' \/ At(w, "sellInsert")'
    BY DEF BooksHold
  <2> QED  BY <2>3, <2>4, <2>7, <2>8
<1> QED  BY <1>9, <1>10

(* A first row is charged the fee that the metrics count for its user.     *)
LEMMA InsertBooks ==
  ASSUME NEW w, Serial(w), TypeOK', SerialInv', IsFiniteSet(Markets),
         BooksHold(w), ~CanFail, BuySharesFee = 0,
         NEW label \in Inserting, NEW amount \in Int, amount = InTransit(w),
         Inserts(w, label, amount)
  PROVE  BooksHold(w)'
<1>0. PICK u \in Users, m \in Markets : u = req[w].user /\ m = req[w].market
  BY SerialTyped
<1>1. /\ TypeOK /\ Workers = {w} /\ w \in Workers
      /\ req[w].pc = label /\ label \in {"buyInsert", "sellInsert"}
      /\ req'[w] = Idle /\ BalancesKept /\ StatusesKept
      /\ \A x \in Markets : bets[x] \in Seq(StampedRow)
      /\ markets[m].status = "open" /\ req[w].due \in Int
      /\ req[w].amount \in Int /\ req[w].shares \in Int
  BY <1>0, SerialTyped
  DEF Serial, Inserts, Inserting, SerialHolds, StatusHolds, Open, Request
<1>2. PICK row \in StampedRow :
        /\ row.user = u /\ row.amount = amount
        /\ bets' = [bets EXCEPT ![m] = Append(@, row)]
  BY <1>0 DEF Inserts
<1>3. /\ bets'[m] = Append(bets[m], row)
      /\ \A x \in Markets \ {m} : bets'[x] = bets[x]
  BY <1>1, <1>2 DEF TypeOK
<1>4. /\ req'[w].pc = "idle" /\ PendingFee(w)' = 0
      /\ \A x : ~Deciding(w, x) /\ ~Deciding(w, x)'
  <2>1. req'[w].pc = "idle"
    BY <1>1 DEF Idle
  <2> QED  BY <1>1, <2>1, NoPendingFee, Finished DEF Inserting, Settles
<1>5. Money' = Money
  BY InsertMoney
<1>6. MarketCreationFees' = MarketCreationFees
  BY <1>1, FeesKept
<1>7. Lost' = Lost
  <2>1. ASSUME NEW x \in Markets PROVE Losses'[x] = Losses[x]
    <3>1. /\ Losses[x] = LossOf(bets[x], markets[x].status)
          /\ Losses'[x] = LossOf(bets'[x], markets'[x].status)
      BY <1>1, <1>4, LossIs
    <3>2. markets'[x].status = markets[x].status
      BY <1>1 DEF StatusesKept
    <3>3. x # m => bets'[x] = bets[x]
      BY <1>3
    <3>4. LossOf(bets[m], "open") = 0 /\ LossOf(bets'[m], "open") = 0
      BY DEF LossOf
    <3> QED  BY <1>1, <3>1, <3>2, <3>3, <3>4
  <2> QED  BY <2>1, LossMoves
<1>8. /\ PendingFee(w) = IF u \notin Bettors(bets[m]) THEN InitialBetFee
                         ELSE 0
      /\ label = "sellInsert" => u \in Bettors(bets[m])
  <2>1. CASE label = "buyInsert"
    <3>1. req[w].amount >= 1
      BY <1>1, <2>1, SerialTyped DEF LocalSound, TradeSound
    <3>2. req[w].due = req[w].amount + BuySharesFee + EntryFee(u, m)
      BY <1>0, <1>1, <2>1, <3>1, SerialTyped DEF SerialHolds, CostHolds
    <3>3. PendingFee(w) = req[w].due - req[w].amount
      BY <1>1, <2>1 DEF PendingFee, At
    <3> QED  BY <1>1, <2>1, <3>2, <3>3, ExchangeAssumption DEF EntryFee
  <2>2. CASE label = "sellInsert"
    <3>1. PendingFee(w) = 0
      BY <1>1, <2>2, NoPendingFee
    <3>2. u \in Bettors(bets[m])
      BY <1>0, <1>1, <2>2, SerialTyped DEF SerialHolds, QuoteHolds
    <3> QED  BY <3>1, <3>2
  <2> QED  BY <1>1, <2>1, <2>2
<1>9. ParticipationFees' = ParticipationFees + PendingFee(w)
  <2> DEFINE f == [x \in Markets |-> Cardinality(Buyers(x))]
             g == [x \in Markets |-> Cardinality(Buyers(x)')]
             B == Bettors(bets[m])
  <2>1. BuyersCount = SumOf(f, Markets) /\ BuyersCount' = SumOf(g, Markets)
    BY DEF BuyersCount
  <2>2. \A x \in Markets \ {m} : Buyers(x)' = Buyers(x)
    BY <1>3 DEF Buyers, Buys
  <2>3. /\ Buyers(m) = B /\ IsFiniteSet(B)
        /\ Buyers(m)' = B \cup {u}
    <3>1. Buyers(m)' = Bettors(bets'[m])
      BY DEF SerialInv, LogHolds
    <3>2. Bettors(bets'[m]) = Bettors(bets[m]) \cup {u}
      BY <1>1, <1>2, <1>3, RowAppended
    <3> QED  BY <3>1, <3>2, BuyersTyped
  <2>4. Cardinality(B \cup {u})
          = Cardinality(B) + (IF u \in B THEN 0 ELSE 1)
    <3>1. IsFiniteSet(B) /\ Cardinality(B) \in Nat
      BY <2>3, FS_CardinalityType
    <3> HIDE DEF B
    <3>2. Cardinality(B \cup {u}) = IF u \in B THEN Cardinality(B)
                                    ELSE Cardinality(B) + 1
      BY <3>1, FS_AddElement, Zenon
    <3> QED  BY <3>1, <3>2
  <2>5. \A x \in Markets : Cardinality(Buyers(x)) \in Int
    BY CountTyped
  <2>6. /\ f[m] = Cardinality(B)
        /\ g[m] = f[m] + (IF u \in B THEN 0 ELSE 1)
        /\ \A x \in Markets \ {m} : g[x] = f[x]
        /\ \A x \in Markets : f[x] \in Int /\ g[x] \in Int
    <3>1. /\ f[m] = Cardinality(B)
          /\ g[m] = f[m] + (IF u \in B THEN 0 ELSE 1)
      BY <2>3, <2>4
    <3>2. \A x \in Markets \ {m} : g[x] = f[x]
      BY <2>2
    <3>3. \A x \in Markets : f[x] \in Int
      BY <2>5
    <3> HIDE DEF f, g, B
    <3>4. \A x \in Markets : g[x] \in Int
      BY <3>1, <3>2, <3>3
    <3> QED  BY <3>1, <3>2, <3>3, <3>4
  <2> HIDE DEF f, g
  <2>7. IntsOn(f, Markets) /\ IntsOn(g, Markets)
    BY <2>6 DEF IntsOn
  <2>8. /\ SumOf(f, Markets) \in Int
        /\ SumOf(g, Markets) = SumOf(f, Markets) - f[m] + g[m]
    BY <2>6, <2>7, SumChanged
  <2>9. BuyersCount' = BuyersCount + (IF u \in B THEN 0 ELSE 1)
    <3> HIDE DEF B
    <3> QED  BY <2>1, <2>6, <2>8
  <2>10. /\ ParticipationFees = BuyersCount * InitialBetFee
         /\ BuyersCount \in Int /\ InitialBetFee \in Nat
    BY CountTyped, ExchangeAssumption
  <2>11. ParticipationFees' = BuyersCount' * InitialBetFee
    BY DEF ParticipationFees, BuyersCount
  <2>12. (BuyersCount + 1) * InitialBetFee
           = BuyersCount * InitialBetFee + InitialBetFee
    BY <2>10
  <2>13. PendingFee(w) = IF u \in B THEN 0 ELSE InitialBetFee
    BY <1>8
  <2>14. BuyersCount * InitialBetFee \in Int
    BY <2>10
  <2> HIDE DEF B
  <2>15. CASE u \in B
    <3>1. BuyersCount' = BuyersCount /\ PendingFee(w) = 0
      BY <2>9, <2>10, <2>13, <2>15
    <3> QED  BY <2>10, <2>11, <2>14, <3>1
  <2>16. CASE u \notin B
    <3>1. BuyersCount' = BuyersCount + 1 /\ PendingFee(w) = InitialBetFee
      BY <2>9, <2>10, <2>13, <2>16
    <3> QED  BY <2>10, <2>11, <2>12, <3>1
  <2> QED  BY <2>15, <2>16
<1>10. Sold \/ At(w, "sellInsert") => Sold'
  <2>1. /\ DOMAIN bets'[m] = DOMAIN bets[m] \cup {Len(bets[m]) + 1}
        /\ \A i \in DOMAIN bets[m] : bets'[m][i] = bets[m][i]
        /\ bets'[m][Len(bets[m]) + 1] = row
    BY <1>1, <1>3, RowAppended
  <2>2. ASSUME Sold PROVE Sold'
    <3>1. PICK x \in Markets : \E i \in DOMAIN bets[x] : bets[x][i].amount < 0
      BY <2>2 DEF Sold
    <3>2. PICK i \in DOMAIN bets[x] : bets[x][i].amount < 0
      BY <3>1
    <3>3. i \in DOMAIN bets'[x] /\ bets'[x][i] = bets[x][i]
      BY <1>3, <2>1
    <3> QED  BY <3>2, <3>3 DEF Sold
  <2>3. ASSUME At(w, "sellInsert") PROVE Sold'
    <3>1. row.amount = -req[w].shares /\ req[w].shares >= 1
      BY <1>1, <1>2, <2>3, SerialTyped, ExchangeAssumption
      DEF InTransit, At, LocalSound, PriceSound
    <3>2. row.amount < 0
      BY <1>1, <3>1
    <3> QED  BY <2>1, <3>2 DEF Sold
  <2> QED  BY <2>2, <2>3
<1>11. Money' + Extras(w)' = Money + Extras(w)
  <2>1. Extras(w)' = MarketCreationFees' + ParticipationFees' + Lost'
                       + PendingFee(w)'
    BY DEF Extras
  <2>2. Extras(w) = MarketCreationFees + ParticipationFees + Lost
                      + PendingFee(w)
    BY DEF Extras
  <2> QED
    BY <1>4, <1>5, <1>6, <1>7, <1>9, <2>1, <2>2, ExtrasTyped
<1> QED  BY <1>10, <1>11, BooksStay

LEMMA OpenBooks ==
  ASSUME NEW w, Serial(w), TypeOK', IsFiniteSet(Markets), BooksHold(w),
         Opens(w)
  PROVE  BooksHold(w)'
<1>0. PICK m \in Markets : m = req[w].market
  BY SerialTyped
<1>1. /\ Workers = {w} /\ w \in Workers /\ req[w].pc = "createInsert"
      /\ req'[w] = Idle /\ bets' = bets
      /\ CreateMarketCost \in Int
  BY <1>0, SerialTyped, ExchangeAssumption DEF Serial, Opens
<1>a. PICK s \in Statuses : StatusMoves(m, s)
  BY <1>0 DEF Opens
<1>2. markets[m].status = "none" /\ VolumeOf(bets[m]) = 0
  <2>1. markets[m].status = "none"
    BY <1>0, <1>1, SerialTyped DEF SerialHolds, StatusHolds, Creating
  <2> QED  BY <2>1, SerialTyped, EmptyLog DEF LogHolds
<1>3. /\ req'[w].pc = "idle" /\ PendingFee(w)' = 0
      /\ PendingFee(w) = CreateMarketCost
      /\ \A x : ~Deciding(w, x) /\ ~Deciding(w, x)'
  <2>1. req'[w].pc = "idle"
    BY <1>1 DEF Idle
  <2>2. /\ PendingFee(w)' = 0
        /\ \A x : ~Deciding(w, x) /\ ~Deciding(w, x)'
    BY <1>1, <2>1, NoPendingFee, Finished DEF Settles
  <2> QED  BY <1>1, <2>1, <2>2 DEF PendingFee, At
<1>4. Money' = Money
  BY StatusMoney
<1>5. ParticipationFees' = ParticipationFees /\ Sold' = Sold
  BY <1>1, FeesKept
<1>6. Lost' = Lost
  <2>1. ASSUME NEW x \in Markets PROVE Losses'[x] = Losses[x]
    <3>1. /\ Losses[x] = LossOf(bets[x], markets[x].status)
          /\ Losses'[x] = LossOf(bets[x], markets'[x].status)
      BY <1>1, <1>3, LossIs
    <3>2. markets'[x].status = IF x = m THEN s ELSE markets[x].status
      BY <1>a DEF StatusMoves
    <3>3. LossOf(bets[m], s) = 0 /\ LossOf(bets[m], "none") = 0
      BY <1>2 DEF LossOf
    <3> QED  BY <1>2, <3>1, <3>2, <3>3
  <2> QED  BY <2>1, LossMoves
<1>7. MarketCreationFees' = MarketCreationFees + CreateMarketCost
  <2>1. Created' = Created \cup {m} /\ m \notin Created
    BY <1>a, <1>2 DEF Created, StatusMoves, Statuses
  <2>2. Cardinality(Created') = Cardinality(Created) + 1
    BY <2>1, CountTyped, FS_AddElement
  <2>3. (Cardinality(Created) + 1) * CreateMarketCost
          = Cardinality(Created) * CreateMarketCost + CreateMarketCost
    BY <1>1, CountTyped
  <2> QED  BY <2>2, <2>3 DEF MarketCreationFees
<1>8. Money' + Extras(w)' = Money + Extras(w)
  <2>1. Extras(w)' = MarketCreationFees' + ParticipationFees' + Lost'
                       + PendingFee(w)'
    BY DEF Extras
  <2>2. Extras(w) = MarketCreationFees + ParticipationFees + Lost
                      + PendingFee(w)
    BY DEF Extras
  <2> QED  BY <1>3, <1>4, <1>5, <1>6, <1>7, <2>1, <2>2, ExtrasTyped
<1>9. ~At(w, "sellInsert")
  BY <1>1 DEF At
<1> QED  BY <1>5, <1>8, <1>9, BooksStay

LEMMA ResolveBooks ==
  ASSUME NEW w, Serial(w), TypeOK', IsFiniteSet(Markets), BooksHold(w),
         Resolves(w)
  PROVE  BooksHold(w)'
<1> DEFINE r == req[w]
           next == IF r.choice = "N/A" THEN "refundBets" ELSE "payMarket"
<1>0. PICK m \in Markets : m = r.market
  BY SerialTyped
<1>1. /\ Workers = {w} /\ w \in Workers /\ r.pc = "resolveSave"
      /\ req'[w] = [r EXCEPT !.pc = next] /\ r \in Request
      /\ bets' = bets /\ StatusMoves(m, r.choice)
      /\ r.choice \in {"YES", "NO", "N/A"}
  BY <1>0, SerialTyped DEF Serial, Resolves
<1>2. markets[m].status = "open"
  BY <1>0, <1>1, SerialTyped DEF SerialHolds, StatusHolds, Open
<1>3. req'[w].pc \in {"payMarket", "refundBets"} /\ req'[w].market = m
  BY <1>0, <1>1 DEF Request
<1>4. /\ PendingFee(w) = 0 /\ PendingFee(w)' = 0
      /\ \A x : ~Deciding(w, x)
      /\ \A x : Deciding(w, x)' <=> x = m
  <2>1. /\ PendingFee(w) = 0 /\ PendingFee(w)' = 0
        /\ \A x : ~Deciding(w, x)
    BY <1>1, <1>3, NoPendingFee, Finished DEF Settles
  <2>2. \A x : Deciding(w, x)' <=> x = m
    BY <1>3 DEF Deciding, Settles
  <2> QED  BY <2>1, <2>2
<1>5. Money' = Money
  BY StatusMoney
<1>6. ParticipationFees' = ParticipationFees /\ Sold' = Sold
  BY <1>1, FeesKept
<1>7. Lost' = Lost
  <2>1. ASSUME NEW x \in Markets PROVE Losses'[x] = Losses[x]
    <3>1. /\ Losses[x] = LossOf(bets[x], markets[x].status)
          /\ Losses'[x] = IF x = m THEN 0
                          ELSE LossOf(bets[x], markets'[x].status)
      BY <1>1, <1>4, LossIs
    <3>2. x # m => markets'[x].status = markets[x].status
      BY <1>1 DEF StatusMoves
    <3>3. LossOf(bets[m], "open") = 0
      BY DEF LossOf
    <3> QED  BY <1>2, <3>1, <3>2, <3>3
  <2> QED  BY <2>1, LossMoves
<1>8. MarketCreationFees' = MarketCreationFees
  <2>1. Created' = Created
    <3>1. ASSUME NEW x \in Markets
          PROVE  markets'[x].status # "none" <=> markets[x].status # "none"
      BY <1>1, <1>2 DEF StatusMoves
    <3> QED  BY <3>1 DEF Created
  <2> QED  BY <2>1 DEF MarketCreationFees
<1>9. Money' + Extras(w)' = Money + Extras(w)
  <2>1. Extras(w)' = MarketCreationFees' + ParticipationFees' + Lost'
                       + PendingFee(w)'
    BY DEF Extras
  <2>2. Extras(w) = MarketCreationFees + ParticipationFees + Lost
                      + PendingFee(w)
    BY DEF Extras
  <2> QED  BY <1>4, <1>5, <1>6, <1>7, <1>8, <2>1, <2>2
<1>10. ~At(w, "sellInsert")
  BY <1>1 DEF At
<1> QED  BY <1>6, <1>9, <1>10, BooksStay

LEMMA PayBooks ==
  ASSUME NEW w, Serial(w), TypeOK', IsFiniteSet(Markets), BooksHold(w),
         Pays(w)
  PROVE  BooksHold(w)'
<1>1. /\ w \in Workers /\ TypeOK /\ req[w].pc = "paySave"
      /\ StatusesKept /\ bets' = bets
      /\ PayNext(w, req[w].owed \ {req[w].paying})
  BY SerialTyped DEF Pays
<1>2. req'[w].pc \in {"idle", "payRead"}
  BY <1>1, LoopLeaves
<1>3. /\ PendingFee(w) = 0 /\ PendingFee(w)' = 0
      /\ \A x : ~Deciding(w, x) /\ ~Deciding(w, x)'
  BY <1>1, <1>2, NoPendingFee, Finished DEF Settles
<1>4. /\ Extras(w)' = Extras(w) - PendingFee(w) + PendingFee(w)'
      /\ Sold' = Sold
  BY <1>1, <1>3, BooksKept
<1>5. Money' = Money /\ Money \in Int /\ Extras(w) \in Int
  BY PaymentMoney, ExtrasTyped DEF Extras
<1>6. Money' + Extras(w)' = Money + Extras(w)
  BY <1>3, <1>4, <1>5
<1>7. ~At(w, "sellInsert")
  BY <1>1 DEF At
<1> QED  BY <1>4, <1>6, <1>7, BooksStay

(* What leaves the pot is owed, or lost.                                   *)
LEMMA DecideBooks ==
  ASSUME NEW w, Serial(w), TypeOK', IsFiniteSet(Markets), BooksHold(w),
         NEW m \in Markets, m = req[w].market,
         NEW owed, owed \subseteq Payment, IsFiniteSet(owed),
         req[w].pc \in {"payBets", "refundBets"}, PayNext(w, owed), Same,
         Total(owed) + LossOf(bets[m], markets[m].status)
           = VolumeOf(bets[m])
  PROVE  BooksHold(w)'
<1>1. /\ Workers = {w} /\ w \in Workers /\ TypeOK
      /\ StatusesKept /\ bets' = bets
      /\ bets[m] \in Seq(StampedRow) /\ VolumeOf(bets[m]) \in Int
  BY SerialTyped DEF Serial, Same, Volume
<1>2. req'[w].pc \in {"idle", "payRead"}
  BY <1>1, LoopLeaves
<1>3. /\ PendingFee(w) = 0 /\ PendingFee(w)' = 0
      /\ \A x : ~Deciding(w, x)'
      /\ \A x : Deciding(w, x) <=> x = m
  <2>1. /\ PendingFee(w) = 0 /\ PendingFee(w)' = 0
        /\ \A x : ~Deciding(w, x)'
    BY <1>2, NoPendingFee, Finished DEF Settles
  <2>2. \A x : Deciding(w, x) <=> x = m
    BY DEF Deciding, Settles
  <2> QED  BY <2>1, <2>2
<1>4. /\ MarketCreationFees' = MarketCreationFees
      /\ ParticipationFees' = ParticipationFees /\ Sold' = Sold
  BY <1>1, FeesKept
<1> DEFINE loss == LossOf(bets[m], markets[m].status)
<1>5. Lost' = Lost + loss /\ loss \in Int
  <2>1. ASSUME NEW x \in Markets
        PROVE  /\ Losses[x] = IF x = m THEN 0
                              ELSE LossOf(bets[x], markets[x].status)
               /\ Losses'[x] = LossOf(bets[x], markets[x].status)
    <3>1. markets'[x].status = markets[x].status
      BY <1>1 DEF StatusesKept
    <3> QED  BY <1>1, <1>3, <3>1, LossIs
  <2>2. Lost' = Lost - Losses[m] + Losses'[m]
    BY <2>1, LossMoves
  <2>3. loss \in Int
    BY <1>1, LossTyped
  <2> HIDE DEF loss
  <2>4. Losses[m] = 0 /\ Losses'[m] = loss
    BY <2>1 DEF loss
  <2> QED  BY <2>2, <2>3, <2>4, LossMoves
<1>6. /\ Money \in Int /\ Total(owed) \in Int
      /\ Money' = Money - VolumeOf(bets[m]) + Total(owed)
  BY DecisionMoney, TotalTyped
<1> HIDE DEF loss
<1>7. Money' + Extras(w)' = Money + Extras(w)
  <2>1. Extras(w)' = MarketCreationFees' + ParticipationFees' + Lost'
                       + PendingFee(w)'
    BY DEF Extras
  <2>2. Extras(w) = MarketCreationFees + ParticipationFees + Lost
                      + PendingFee(w)
    BY DEF Extras
  <2>3. Total(owed) + loss = VolumeOf(bets[m])
    BY DEF loss
  <2> QED
    BY <1>1, <1>3, <1>4, <1>5, <1>6, <2>1, <2>2, <2>3, ExtrasTyped
<1>8. ~At(w, "sellInsert")
  BY DEF At
<1> QED  BY <1>4, <1>7, <1>8, BooksStay

LEMMA BooksStep ==
  ASSUME NEW w, Serial(w), TypeOK', IsFiniteSet(Markets), ~CanFail,
         BuySharesFee = 0, BooksHold(w), [Next]_vars
  PROVE  BooksHold(w)'
<1>1. SerialStep(w) /\ SerialInv'
  BY NextHolds
<1>2. /\ TypeOK /\ IsFiniteSet(Users)
      /\ req[w].due \in Int /\ -req[w].due \in Int
      /\ -CreateMarketCost \in Int
      /\ req[w].amount \in Int /\ -req[w].shares \in Int
  BY SerialTyped, ExchangeAssumption DEF Serial, Request
<1>3. CASE Quiet(w)
  BY <1>3, QuietBooks
<1>4. CASE Debits(w, "buyDebit", "buyInsert", -req[w].due)
  BY <1>2, <1>4, DebitBooks
<1>5. CASE Debits(w, "sellCredit", "sellInsert", req[w].due)
  BY <1>2, <1>5, DebitBooks
<1>6. CASE Debits(w, "createDebit", "createInsert", -CreateMarketCost)
  BY <1>2, <1>6, DebitBooks
<1>7. CASE Inserts(w, "buyInsert", req[w].amount)
  <2>1. req[w].amount = InTransit(w)
    BY <1>7 DEF Inserts, InTransit, At
  <2> QED  BY <1>1, <1>2, <1>7, <2>1, InsertBooks DEF Inserting
<1>8. CASE Inserts(w, "sellInsert", -req[w].shares)
  <2>1. -req[w].shares = InTransit(w)
    BY <1>8 DEF Inserts, InTransit, At
  <2> QED  BY <1>1, <1>2, <1>8, <2>1, InsertBooks DEF Inserting
<1>9. CASE Opens(w)
  BY <1>9, OpenBooks
<1>10. CASE Resolves(w)
  BY <1>10, ResolveBooks
<1>11. CASE Decides(w)
  <2>0. PICK m \in Markets : m = req[w].market
    BY SerialTyped
  <2>1. /\ DealsOut(bets[m]) /\ bets[m] \in Seq(StampedRow)
        /\ Sorted(bets[m]) /\ VolumeOf(bets[m]) \in Int
    BY SerialTyped DEF Volume, Serial, StampInv, LogSound
  <2>2. CASE \E log \in GetBetsForMarket(m) :
               SettlesWith(w, "payBets", Winnings(log, markets[m].status))
    <3> DEFINE owed == Winnings(bets[m], markets[m].status)
    <3>1. SettlesWith(w, "payBets", owed)
      BY <2>2 DEF GetBetsForMarket
    <3>2. markets[m].status \in Outcomes
      BY <2>0, <3>1, SerialTyped
      DEF SerialHolds, StatusHolds, SettlesWith
    <3>3. Total(owed) + LossOf(bets[m], markets[m].status)
            = VolumeOf(bets[m])
      BY <1>2, <2>1, <3>2, LossComplements
    <3>4. /\ owed \subseteq Payment /\ IsFiniteSet(owed)
          /\ req[w].pc = "payBets" /\ PayNext(w, owed) /\ Same
      BY <3>1 DEF SettlesWith
    <3> HIDE DEF owed
    <3> QED  BY <2>0, <3>3, <3>4, DecideBooks
  <2>3. CASE SettlesWith(w, "refundBets", Refunds(bets[m]))
    <3> DEFINE owed == Refunds(bets[m])
    <3>1. markets[m].status = "N/A"
      BY <2>0, <2>3, SerialTyped DEF SerialHolds, StatusHolds, SettlesWith
    <3>2. /\ Total(owed) = VolumeOf(bets[m])
          /\ LossOf(bets[m], markets[m].status) = 0
      BY <2>1, <3>1, RefundsMakeVolume, LossTyped DEF Outcomes
    <3>3. Total(owed) + LossOf(bets[m], markets[m].status)
            = VolumeOf(bets[m])
      BY <2>1, <3>2
    <3>4. /\ owed \subseteq Payment /\ IsFiniteSet(owed)
          /\ req[w].pc = "refundBets" /\ PayNext(w, owed) /\ Same
      BY <2>3 DEF SettlesWith
    <3> HIDE DEF owed
    <3> QED  BY <2>0, <3>3, <3>4, DecideBooks
  <2> QED  BY <1>11, <2>0, <2>2, <2>3 DEF Decides
<1>12. CASE Pays(w)
  BY <1>12, PayBooks
<1>13. ~Dies(w)
  BY DEF Dies
<1> QED
  BY <1>1, <1>3, <1>4, <1>5, <1>6, <1>7, <1>8, <1>9, <1>10, <1>11, <1>12,
     <1>13
  DEF SerialStep

LEMMA BooksStart ==
  ASSUME NEW w, Workers = {w}, Init, TypeOK,
         IsFiniteSet(Users), IsFiniteSet(Markets)
  PROVE  BooksHold(w)
<1>1. req[w].pc = "idle" /\ req[w].owed = {}
  BY DEF Init, Idle
<1>2. /\ InTransit(w) = 0 /\ PendingFee(w) = 0
      /\ \A m : ~Deciding(w, m)
  BY <1>1, NoTransit, NoPendingFee, Finished DEF Inserting, Settles
<1>3. ASSUME NEW m \in Markets
      PROVE  /\ bets[m] = <<>>
             /\ markets[m].status = IF m \in OpenAtStart THEN "open"
                                    ELSE "none"
             /\ LedgerPot[m] = 0 /\ Losses[m] = 0 /\ Buyers(m) = {}
  <2>1. /\ bets[m] = <<>>
        /\ markets[m].status = IF m \in OpenAtStart THEN "open" ELSE "none"
    BY DEF Init, NoMarket
  <2>2. VolumeOf(bets[m]) = 0 /\ LossOf(bets[m], markets[m].status) = 0
    BY <2>1, EmptyLog DEF LossOf
  <2>3. LedgerPot[m] = 0 /\ Losses[m] = 0
    BY <1>2, <2>2, OneStatus, LossIs
  <2>4. DOMAIN bets[m] = {}
    BY <2>1, EmptySeq
  <2>5. Buyers(m) = {}
    BY <2>4 DEF Buyers, Buys
  <2> QED  BY <2>1, <2>3, <2>5
<1>4. Balances = InitialBalance * Cardinality(Users)
  <2> DEFINE f == [u \in Users |-> users[u].balance]
  <2>1. \A u \in Users : f[u] = InitialBalance
    BY DEF Init
  <2> HIDE DEF f
  <2>2. SumOf(f, Users) = InitialBalance * Cardinality(Users)
    BY <2>1, SumConstant, ExchangeAssumption
  <2> QED  BY <2>2 DEF Balances, f
<1>5. Pots = 0 /\ Lost = 0
  <2>1. SumOf(LedgerPot, Markets) = 0 * Cardinality(Markets)
    BY <1>3, SumConstant
  <2>2. SumOf(Losses, Markets) = 0 * Cardinality(Markets)
    BY <1>3, SumConstant
  <2>3. Cardinality(Markets) \in Nat
    BY FS_CardinalityType
  <2> QED  BY <2>1, <2>2, <2>3 DEF Pots, Lost
<1>6. ParticipationFees = 0
  <2> DEFINE f == [m \in Markets |-> Cardinality(Buyers(m))]
  <2>1. \A m \in Markets : f[m] = 0
    BY <1>3, FS_EmptySet
  <2> HIDE DEF f
  <2>2. SumOf(f, Markets) = 0 * Cardinality(Markets)
    BY <2>1, SumConstant
  <2>3. Cardinality(Markets) \in Nat
    BY FS_CardinalityType
  <2>4. SumOf(f, Markets) = 0
    BY <2>2, <2>3
  <2> QED  BY <2>4, ExchangeAssumption DEF ParticipationFees, f
<1>7. Created = OpenAtStart
  BY <1>3, ExchangeAssumption DEF Created
<1>8. Money = Balances + Pots + Total({}) + 0
  BY <1>1, <1>2, MoneyIs
<1>9. Total({}) = 0
  BY SumEmpty DEF Total
<1>10. /\ Cardinality(Users) \in Nat /\ Cardinality(OpenAtStart) \in Nat
       /\ InitialBalance \in Int /\ CreateMarketCost \in Int
  <2>1. IsFiniteSet(OpenAtStart)
    BY FS_Subset, ExchangeAssumption
  <2> QED  BY <2>1, FS_CardinalityType, ExchangeAssumption
<1>11. Extras(w) = Cardinality(OpenAtStart) * CreateMarketCost + 0 + 0 + 0
  BY <1>2, <1>5, <1>6, <1>7 DEF Extras, MarketCreationFees
<1> DEFINE markup == Cardinality(OpenAtStart) * CreateMarketCost
           given == Cardinality(Users) * InitialBalance
<1>12. /\ markup \in Int /\ given \in Int
       /\ given = InitialBalance * Cardinality(Users)
  BY <1>10
<1>13. Endowed = given + markup
  BY DEF Endowed
<1> HIDE DEF markup, given
<1>14. Extras(w) = markup
  BY <1>11, <1>12 DEF markup
<1>15. Money = given
  BY <1>4, <1>5, <1>8, <1>9, <1>12
<1> QED  BY <1>12, <1>13, <1>14, <1>15 DEF BooksHold

(* The lines of the statistics page, between requests.                     *)
LEMMA DebtAndSavings ==
  ASSUME TypeOK, IsFiniteSet(Users)
  PROVE  LET saved == SumOf([u \in Users |-> Savings(u)], Users)
         IN  /\ saved \in Int /\ UserDebtCapacity \in Int
             /\ UnusedDebt \in Int /\ Balances \in Int
             /\ UserDebtCapacity - UnusedDebt = saved - Balances
<1> DEFINE b == [u \in Users |-> users[u].balance]
           s == [u \in Users |-> Savings(u)]
           d == [u \in Users |-> UsedDebt(u)]
           left == [u \in Users |-> MaxDebt - UsedDebt(u)]
           limit == [u \in Users |-> MaxDebt]
<1>1. /\ MaxDebt \in Int
      /\ \A u \in Users : users[u].balance \in Int
  BY ExchangeAssumption DEF TypeOK, UserRow
<1>2. \A u \in Users : /\ b[u] \in Int /\ s[u] \in Int /\ d[u] \in Int
                       /\ left[u] \in Int /\ limit[u] = MaxDebt
                       /\ s[u] = b[u] + d[u]
                       /\ limit[u] = left[u] + d[u]
  <2> SUFFICES ASSUME NEW u \in Users
               PROVE  /\ b[u] \in Int /\ s[u] \in Int /\ d[u] \in Int
                      /\ left[u] \in Int /\ limit[u] = MaxDebt
                      /\ s[u] = b[u] + d[u]
                      /\ limit[u] = left[u] + d[u]
    OBVIOUS
  <2>1. /\ b[u] = users[u].balance /\ s[u] = Savings(u)
        /\ d[u] = UsedDebt(u) /\ left[u] = MaxDebt - UsedDebt(u)
        /\ limit[u] = MaxDebt
    OBVIOUS
  <2> QED  BY <1>1, <2>1 DEF Savings, UsedDebt
<1>3. /\ Balances = SumOf(b, Users) /\ UnusedDebt = SumOf(left, Users)
  BY DEF Balances, UnusedDebt
<1> HIDE DEF b, s, d, left, limit
<1>4. /\ IntsOn(b, Users) /\ IntsOn(s, Users) /\ IntsOn(d, Users)
      /\ IntsOn(left, Users)
  BY <1>2 DEF IntsOn
<1>5. /\ SumOf(b, Users) \in Int /\ SumOf(s, Users) \in Int
      /\ SumOf(d, Users) \in Int /\ SumOf(left, Users) \in Int
  BY <1>4, SumInt
<1>6. SumOf(s, Users) = SumOf(b, Users) + SumOf(d, Users)
  BY <1>2, <1>4, SumPlus
<1>7. SumOf(limit, Users) = SumOf(left, Users) + SumOf(d, Users)
  BY <1>2, <1>4, SumPlus
<1>8. SumOf(limit, Users) = MaxDebt * Cardinality(Users)
  BY <1>1, <1>2, SumConstant
<1>9. /\ Cardinality(Users) \in Int
      /\ UserDebtCapacity = MaxDebt * Cardinality(Users)
      /\ UserDebtCapacity \in Int
  <2>1. Cardinality(Users) \in Int
    BY FS_CardinalityType
  <2> QED  BY <1>1, <2>1 DEF UserDebtCapacity
<1> QED
  <2>1. UserDebtCapacity - UnusedDebt = SumOf(s, Users) - Balances
    BY <1>3, <1>5, <1>6, <1>7, <1>8, <1>9
  <2> QED  BY <1>3, <1>5, <1>9, <2>1 DEF s

LEMMA VolumeAndLoss ==
  ASSUME NEW w, Serial(w), IsFiniteSet(Markets), At(w, "idle")
  PROVE  /\ Pots \in Int /\ Lost \in Int
         /\ ActiveBetVolume = Pots
         /\ SumOf([m \in Created |-> Unwon(m)], Created) = Lost
<1>1. /\ Workers = {w} /\ \A m : ~Deciding(w, m)
      /\ \A m : ~Settling(m)
  <2>1. Workers = {w} /\ \A m : ~Deciding(w, m)
    BY Finished DEF Serial, At, Settles
  <2> QED  BY <2>1, OneWorker
<1>2. ActiveBetVolume = Pots /\ Pots \in Int
  <2> DEFINE f == [m \in Active |-> Volume(m)]
  <2>1. \A m \in Active : f[m] = Volume(m)
    OBVIOUS
  <2> HIDE DEF f
  <2>2. /\ Active \subseteq Markets /\ IsFiniteSet(Active)
        /\ \A m \in Markets : m \in Active <=> markets[m].status = "open"
    <3>1. /\ Active \subseteq Markets
          /\ \A m \in Markets : m \in Active <=> markets[m].status = "open"
      BY DEF Active, Created
    <3> QED  BY <3>1, FS_Subset
  <2>3. ASSUME NEW m \in Markets
        PROVE  /\ LedgerPot[m] \in Int
               /\ m \in Active => LedgerPot[m] = Volume(m)
               /\ m \notin Active => LedgerPot[m] = 0
    <3>1. LedgerPot[m] = IF markets[m].status = "open"
                         THEN VolumeOf(bets[m]) ELSE 0
      BY <1>1, OneStatus
    <3>2. Volume(m) \in Int
      BY SerialTyped
    <3> QED  BY <2>2, <3>1, <3>2 DEF Volume
  <2>4. IntsOn(LedgerPot, Markets) /\ IntsOn(LedgerPot, Active)
    BY <2>2, <2>3 DEF IntsOn
  <2>5. SumOf(LedgerPot, Markets) = SumOf(LedgerPot, Active)
    BY <2>2, <2>3, <2>4, SumSupport
  <2>6. SumOf(f, Active) = SumOf(LedgerPot, Active)
    BY <2>1, <2>2, <2>3, <2>4, SumCongruent
  <2> QED  BY <2>4, <2>5, <2>6, SumInt DEF ActiveBetVolume, Pots, f
<1>3. /\ SumOf([m \in Created |-> Unwon(m)], Created) = Lost
      /\ Lost \in Int
  <2> DEFINE f == [m \in Created |-> Unwon(m)]
  <2>1. \A m \in Created : f[m] = Unwon(m)
    OBVIOUS
  <2> HIDE DEF f
  <2>2. Created \subseteq Markets /\ IsFiniteSet(Created)
    BY CountTyped DEF Created
  <2>3. ASSUME NEW m \in Markets
        PROVE  /\ Losses[m] \in Int /\ Losses[m] = Unwon(m)
               /\ m \notin Created => Losses[m] = 0
    <3>1. Losses[m] = Unwon(m)
      BY <1>1 DEF Losses
    <3>2. Losses[m] = LossOf(bets[m], markets[m].status)
      BY <1>1, LossIs
    <3>3. bets[m] \in Seq(StampedRow)
      BY SerialTyped
    <3>4. m \notin Created => markets[m].status \notin Outcomes
      BY DEF Created, Outcomes
    <3> QED  BY <3>1, <3>2, <3>3, <3>4, LossTyped
  <2>4. IntsOn(Losses, Markets) /\ IntsOn(Losses, Created)
    BY <2>2, <2>3 DEF IntsOn
  <2>5. SumOf(Losses, Markets) = SumOf(Losses, Created)
    BY <2>2, <2>3, <2>4, SumSupport
  <2>6. SumOf(f, Created) = SumOf(Losses, Created)
    BY <2>1, <2>2, <2>3, <2>4, SumCongruent
  <2> QED  BY <2>4, <2>5, <2>6, SumInt DEF Lost, f
<1> QED  BY <1>2, <1>3

LEMMA BooksExplain ==
  ASSUME NEW w, Serial(w), IsFiniteSet(Markets), BooksHold(w)
  PROVE  SurplusExplained
<1> SUFFICES ASSUME At(w, "idle")
             PROVE  /\ Surplus <= Explained
                    /\ ~Sold => Surplus = Explained
  BY DEF SurplusExplained, Serial
<1>1. /\ Workers = {w} /\ w \in Workers /\ TypeOK /\ IsFiniteSet(Users)
      /\ req[w].pc = "idle"
  BY SerialTyped DEF Serial, At
<1>2. /\ Money = Balances + Pots + 0 + 0 /\ PendingFee(w) = 0
  <2>1. InTransit(w) = 0 /\ Total(req[w].owed) = 0 /\ PendingFee(w) = 0
    BY <1>1, NoTransit, NoPendingFee, OwedTyped DEF Inserting
  <2> QED  BY <1>1, <2>1, MoneyIs
<1> DEFINE saved == SumOf([u \in Users |-> Savings(u)], Users)
           lost  == SumOf([m \in Created |-> Unwon(m)], Created)
           given == Cardinality(Users) * InitialBalance
           markup == Cardinality(OpenAtStart) * CreateMarketCost
<1>3. /\ saved \in Int /\ UserDebtCapacity \in Int /\ UnusedDebt \in Int
      /\ Balances \in Int
      /\ UserDebtCapacity - UnusedDebt = saved - Balances
  BY <1>1, DebtAndSavings
<1>4. ActiveBetVolume = Pots /\ lost = Lost
  BY VolumeAndLoss
<1>5. /\ MarketCreationFees \in Int /\ ParticipationFees \in Int
      /\ Lost \in Int /\ Pots \in Int
  BY CountTyped, VolumeAndLoss
<1>6. /\ given \in Int /\ markup \in Int
  <2>1. IsFiniteSet(OpenAtStart)
    BY FS_Subset, ExchangeAssumption
  <2>2. Cardinality(Users) \in Nat /\ Cardinality(OpenAtStart) \in Nat
    BY <1>1, <2>1, FS_CardinalityType
  <2> QED  BY <2>2, ExchangeAssumption
<1>7. Surplus = UserDebtCapacity
        - (UnusedDebt + ActiveBetVolume + MarketCreationFees
             + ParticipationFees)
  BY DEF Surplus
<1>8. Explained = saved - given + lost - markup
  BY DEF Explained, Owned
<1>9. Endowed = given + markup
  BY DEF Endowed
<1>10. Extras(w) = MarketCreationFees + ParticipationFees + Lost + 0
  BY <1>2 DEF Extras
<1>11. /\ Money + Extras(w) >= Endowed
       /\ ~Sold => Money + Extras(w) = Endowed
  BY DEF BooksHold, At
<1> HIDE DEF saved, lost, given, markup
<1> DEFINE books == Money + Extras(w)
<1>12. Explained - Surplus = books - Endowed
  BY <1>2, <1>3, <1>4, <1>5, <1>6, <1>7, <1>8, <1>9, <1>10
<1>13. Explained \in Int /\ Surplus \in Int
  BY <1>3, <1>4, <1>5, <1>6, <1>7, <1>8
<1>14. Endowed \in Int /\ books \in Int
  BY <1>2, <1>3, <1>5, <1>6, <1>9, <1>10
<1>15. books >= Endowed /\ (~Sold => books = Endowed)
  BY <1>11
<1> HIDE DEF books
<1> QED  BY <1>12, <1>13, <1>14, <1>15

(* Handled one at a time, without failures and with the shipped fees, the  *)
(* surplus of the statistics page is what users own and what nobody has    *)
(* won; sales alone make it smaller.                                       *)
THEOREM MetricsAddUp ==
  ASSUME NEW w, Workers = {w}, IsFiniteSet(Users), IsFiniteSet(Markets),
         ~CanFail, BuySharesFee = 0
  PROVE  Spec /\ []PoolKept => []SurplusExplained
<1>1. Init /\ TypeOK => BooksHold(w)
  BY BooksStart
<1>2. Serial(w) /\ TypeOK' /\ BooksHold(w) /\ [Next]_vars => BooksHold(w)'
  BY BooksStep
<1>3. Serial(w) /\ BooksHold(w) => SurplusExplained
  BY BooksExplain
<1>4. Spec /\ []PoolKept => []Serial(w)
  BY SerialAlways
<1>5. Spec => []TypeOK
  BY TypeCorrect
<1> QED  BY <1>1, <1>2, <1>3, <1>4, <1>5, PTL DEF Spec

-----------------------------------------------------------------------------
(* Where the pools are kept: one request at a time, the logs are those of  *)
(* trading, sales covered by positions.                                    *)

Selling == {"sellValidate", "sellRead", "sellCredit", "sellInsert"}

(* The row that the sale of w inserts in the end.                          *)
Offer(w) ==
  [user |-> req[w].user, outcome |-> req[w].choice,
   amount |-> -req[w].shares, at |-> req[w].at]

TradedInv(w) ==
  /\ \A m \in Markets : Traded(bets[m])
  /\ req[w].pc \in Selling => SoldFrom(bets[req[w].market], Offer(w))

LEMMA EmptyTraded == Traded(<<>>)
<1>1. DOMAIN <<>> = {}
  BY EmptySeq
<1> QED  BY <1>1 DEF Traded

LEMMA TradedAppended ==
  ASSUME NEW log \in Seq(StampedRow), NEW row \in StampedRow,
         Traded(log), row.amount < 0 => SoldFrom(log, row)
  PROVE  Traded(Append(log, row))
<1> DEFINE new == Append(log, row)
           n   == Len(log)
<1>1. /\ n \in Nat /\ DOMAIN log = 1..n /\ DOMAIN new = 1..(n + 1)
      /\ \A i \in 1..n : new[i] = log[i]
      /\ new[n + 1] = row
  <2>1. n \in Nat /\ DOMAIN log = 1..n
    BY LogTyped
  <2>2. 1..(n + 1) = (1..n) \cup {n + 1}
    BY <2>1
  <2>3. /\ DOMAIN new = (1..n) \cup {n + 1}
        /\ \A i \in 1..n : new[i] = log[i]
        /\ new[n + 1] = row
    BY <2>1, RowAppended
  <2> QED  BY <2>1, <2>2, <2>3
<1>2. ASSUME NEW i \in 1..(n + 1)
      PROVE  SubSeq(new, 1, i - 1) = SubSeq(log, 1, i - 1)
  <2>1. \A j \in 1..(i - 1) : new[j] = log[j]
    BY <1>1
  <2> HIDE DEF new
  <2> QED  BY <1>1, <2>1
<1>3. SubSeq(log, 1, n) = log
  BY SubSeqFull
<1> HIDE DEF new
<1>4. ASSUME NEW i \in 1..(n + 1), new[i].amount < 0
      PROVE  SoldFrom(SubSeq(new, 1, i - 1), new[i])
  <2>1. CASE i = n + 1
    <3>1. i - 1 = n /\ new[i] = row
      BY <1>1, <2>1
    <3>2. SubSeq(new, 1, i - 1) = log
      BY <1>2, <1>3, <3>1
    <3> QED  BY <1>4, <3>1, <3>2
  <2>2. CASE i # n + 1
    <3>1. i \in 1..n
      BY <1>1, <2>2
    <3>2. new[i] = log[i]
      BY <1>1, <3>1
    <3>3. SoldFrom(SubSeq(log, 1, i - 1), log[i])
      BY <1>1, <1>4, <3>1, <3>2 DEF Traded
    <3> QED  BY <1>2, <3>2, <3>3
  <2> QED  BY <2>1, <2>2
<1> QED  BY <1>1, <1>4 DEF Traded, new

(* The stamps do not matter.                                               *)
LEMMA UntimedKeeps ==
  ASSUME NEW log \in Seq(StampedRow)
  PROVE  /\ Untimed(log) \in [1..Len(log) -> BetRow]
         /\ Untimed(Untimed(log)) = Untimed(log)
         /\ VolumeOf(Untimed(log)) = VolumeOf(log)
         /\ Bettors(Untimed(log)) = Bettors(log)
         /\ Traded(log) => Traded(Untimed(log))
<1> DEFINE n   == Len(log)
           old == Untimed(log)
<1>1. n \in Nat /\ DOMAIN log = 1..n
  BY LogTyped
<1>2. \A i \in 1..n : log[i] \in StampedRow
  BY LogTyped
<1>3. old \in [1..n -> BetRow]
  BY <1>2 DEF Untimed, StampedRow, BetRow
<1>4. \A i \in 1..n :
        /\ old[i].user = log[i].user /\ old[i].outcome = log[i].outcome
        /\ old[i].amount = log[i].amount
        /\ old[i] = [user |-> log[i].user, outcome |-> log[i].outcome,
                     amount |-> log[i].amount]
  BY DEF Untimed
<1>5. DOMAIN old = 1..n /\ old \in Seq(BetRow) /\ Len(old) = n
  BY <1>1, <1>3
<1> HIDE DEF old
<1>6. Untimed(old) = old
  <2>1. Untimed(old) = [i \in 1..n |->
          [user |-> old[i].user, outcome |-> old[i].outcome,
           amount |-> old[i].amount]]
    BY <1>5 DEF Untimed
  <2>2. \A i \in 1..n : Untimed(old)[i] = old[i]
    BY <1>4, <2>1
  <2> QED  BY <1>3, <2>1, <2>2
<1>7. VolumeOf(old) = VolumeOf(log)
  <2>1. [i \in DOMAIN old |-> old[i].amount]
          = [i \in DOMAIN log |-> log[i].amount]
    BY <1>1, <1>4, <1>5
  <2> QED  BY <1>1, <1>5, <2>1, Zenon DEF VolumeOf
<1>8. Bettors(old) = Bettors(log)
  BY <1>1, <1>4, <1>5 DEF Bettors
<1>9. ASSUME Traded(log), NEW i \in 1..n, old[i].amount < 0
      PROVE  SoldFrom(SubSeq(old, 1, i - 1), old[i])
  <2> DEFINE before == SubSeq(log, 1, i - 1)
             past   == SubSeq(old, 1, i - 1)
  <2>1. SoldFrom(before, log[i])
    BY <1>1, <1>4, <1>9 DEF Traded
  <2>2. /\ Len(before) = i - 1 /\ Len(past) = i - 1
        /\ \A j \in 1..(i - 1) : before[j] = log[j] /\ past[j] = old[j]
    BY <1>1, <1>5
  <2>3. Untimed(past) = Untimed(before)
    <3>1. \A j \in 1..(i - 1) :
            /\ past[j].user = before[j].user
            /\ past[j].outcome = before[j].outcome
            /\ past[j].amount = before[j].amount
      <4>1. \A j \in 1..(i - 1) : j \in 1..n
        BY <1>1
      <4> HIDE DEF before, past, n
      <4> QED  BY <1>4, <2>2, <4>1
    <3> HIDE DEF before, past
    <3>2. /\ Untimed(past) = [j \in 1..(i - 1) |->
               [user |-> past[j].user, outcome |-> past[j].outcome,
                amount |-> past[j].amount]]
          /\ Untimed(before) = [j \in 1..(i - 1) |->
               [user |-> before[j].user, outcome |-> before[j].outcome,
                amount |-> before[j].amount]]
      BY <2>2, Zenon DEF Untimed
    <3> QED  BY <3>1, <3>2
  <2> HIDE DEF before, past
  <2> QED  BY <1>4, <2>1, <2>3 DEF SoldFrom, before, past
<1>10. Traded(log) => Traded(old)
  BY <1>5, <1>9 DEF Traded
<1> QED  BY <1>3, <1>6, <1>7, <1>8, <1>10 DEF old

LEMMA TradedPoolsKept ==
  ASSUME TypeOK, TradesKeepPools(BetLogs), \A m \in Markets : Traded(bets[m])
  PROVE  PoolKept
<1> SUFFICES ASSUME NEW m \in Markets PROVE DealsOut(bets[m])
  BY DEF PoolKept
<1> DEFINE log == bets[m]
           old == Untimed(log)
<1>1. log \in Seq(StampedRow) /\ Len(log) \in 0..MaxBets
  <2>1. log \in Seq(StampedRow) /\ Len(log) <= MaxBets
    BY DEF TypeOK
  <2> QED  BY <2>1, LogTyped, ExchangeAssumption
<1>2. /\ old \in [1..Len(log) -> BetRow] /\ Untimed(old) = old
      /\ VolumeOf(old) = VolumeOf(log) /\ Bettors(old) = Bettors(log)
      /\ Traded(old)
  BY <1>1, UntimedKeeps
<1>3. old \in BetLogs
  BY <1>1, <1>2 DEF BetLogs
<1>4. DealsOut(old)
  BY <1>2, <1>3 DEF TradesKeepPools
<1>5. \A s : Winnings(old, s) = Winnings(log, s)
  BY <1>2 DEF Winnings
<1> HIDE DEF old
<1> QED  BY <1>2, <1>4, <1>5 DEF DealsOut, old

(* A sale keeps what it offers from its quote to its row.                  *)
SameOffer(w) ==
  /\ req[w].pc \in Selling
  /\ req'[w].user = req[w].user /\ req'[w].market = req[w].market
  /\ req'[w].choice = req[w].choice /\ req'[w].shares = req[w].shares

LEMMA MoveKeepsOffer ==
  ASSUME TypeOK, NEW w \in Workers, NEW label, Goto(w, label),
         req[w].pc \in Selling
  PROVE  SameOffer(w)
<1>1. req'[w] = [req[w] EXCEPT !.pc = label]
  BY NowIs DEF Goto
<1>2. req[w] \in Request
  BY DEF TypeOK
<1> QED  BY <1>1, <1>2 DEF SameOffer, Request

LEMMA ArrivalsOfferNothing ==
  ASSUME NEW w, Serial(w), Arrive(w)
  PROVE  req'[w].pc \notin Selling
<1>1. TypeOK /\ w \in Workers /\ \A m \in Markets : markets[m] \in MarketRow
  BY SerialTyped
<1>2. ASSUME NEW label \in Labels, NEW u \in Users, NEW m \in Markets
      PROVE  New(label, u, m) \in Request /\ New(label, u, m).pc = label
  BY <1>1, NewOwesNothing
<1>3. ASSUME NEW r, NEW handler, Begin(w, handler, r)  PROVE req'[w] = r
  BY <1>1, <1>3, NowIs DEF Begin
<1>4. ASSUME NEW u \in Users, NEW m \in Markets, NEW o \in Outcomes,
             NEW a \in Amounts,
             BuyStart(w, u, m, o, a) \/ SellStart(w, u, m, o, a)
      PROVE  req'[w].pc \in {"buyStatus", "sellStatus"}
  <2>1. CASE BuyStart(w, u, m, o, a)
    <3>1. req'[w] = [New("buyStatus", u, m) EXCEPT
                       !.choice = o, !.amount = a, !.row = users[u]]
      BY <1>3, <2>1 DEF BuyStart, Start
    <3>2. New("buyStatus", u, m) \in Request
          /\ New("buyStatus", u, m).pc = "buyStatus"
      BY <1>2 DEF Labels
    <3> QED  BY <3>1, <3>2 DEF Request
  <2>2. CASE SellStart(w, u, m, o, a)
    <3>1. req'[w] = [New("sellStatus", u, m) EXCEPT
                       !.choice = o, !.amount = a]
      BY <1>3, <2>2 DEF SellStart, Start
    <3>2. New("sellStatus", u, m) \in Request
          /\ New("sellStatus", u, m).pc = "sellStatus"
      BY <1>2 DEF Labels
    <3> QED  BY <3>1, <3>2 DEF Request
  <2> QED  BY <1>4, <2>1, <2>2
<1>5. ASSUME NEW u \in Users, NEW m \in Markets, NEW row \in BodyRow,
             CreateStart(w, u, m, row)
      PROVE  req'[w].pc = "createDebit"
  <2>1. req'[w] = [New("createDebit", u, m) EXCEPT
                     !.row = users[u], !.mrow = row]
    BY <1>3, <1>5 DEF CreateStart
  <2>2. New("createDebit", u, m) \in Request
        /\ New("createDebit", u, m).pc = "createDebit"
    BY <1>2 DEF Labels
  <2> QED  BY <2>1, <2>2 DEF Request
<1>6. ASSUME NEW u \in Users, NEW m \in Markets, NEW o \in Resolutions,
             ResolveStart(w, u, m, o)
      PROVE  req'[w].pc = "resolveSave"
  <2>1. req'[w] = [New("resolveSave", u, m) EXCEPT
                     !.choice = o, !.mrow = markets[m]]
    BY <1>3, <1>6 DEF ResolveStart, Start
  <2>2. New("resolveSave", u, m) \in Request
        /\ New("resolveSave", u, m).pc = "resolveSave"
    BY <1>2 DEF Labels
  <2> QED  BY <2>1, <2>2 DEF Request
<1>7. ASSUME NEW u \in Users, EditStart(w, u)
      PROVE  req'[w].pc = "editSave"
  <2>1. SomeMarket \in Markets
    BY ExchangeAssumption DEF SomeMarket
  <2>2. req'[w] = [New("editSave", u, SomeMarket) EXCEPT !.row = users[u]]
    BY <1>3, <1>7 DEF EditStart, Start
  <2>3. New("editSave", u, SomeMarket) \in Request
        /\ New("editSave", u, SomeMarket).pc = "editSave"
    BY <1>2, <2>1 DEF Labels
  <2> QED  BY <2>2, <2>3 DEF Request
<1>8. ASSUME NEW u \in Users, NEW m \in Markets, ImageStart(w, u, m)
      PROVE  req'[w].pc = "imageWrite"
  <2>1. req'[w] = [New("imageWrite", u, m) EXCEPT !.mrow = markets[m]]
    BY <1>3, <1>8 DEF ImageStart, Start
  <2>2. New("imageWrite", u, m) \in Request
        /\ New("imageWrite", u, m).pc = "imageWrite"
    BY <1>2 DEF Labels
  <2> QED  BY <2>1, <2>2 DEF Request
<1> QED  BY <1>4, <1>5, <1>6, <1>7, <1>8 DEF Arrive, Selling

LEMMA OffersStay ==
  ASSUME NEW w, Serial(w), Step(w), req'[w].pc \in Selling
  PROVE  SellQuote(w) \/ SameOffer(w)
<1>1. TypeOK /\ w \in Workers /\ req[w] \in Request
  BY SerialTyped
<1>2. Idle.pc = "idle"
  BY DEF Idle
<1>3. ASSUME NEW r, Now(w, r)  PROVE req'[w] = r
  BY <1>1, <1>3, NowIs
<1>4. ~Finish(w)
  BY <1>2, <1>3 DEF Finish, Selling
<1>5. ASSUME NEW label, Goto(w, label)
      PROVE  label \in Selling
             /\ (req[w].pc \in Selling => SameOffer(w))
  <2>1. req'[w] = [req[w] EXCEPT !.pc = label]
    BY <1>3, <1>5 DEF Goto
  <2>2. req'[w].pc = label
    BY <1>1, <2>1 DEF Request
  <2> QED  BY <1>1, <1>5, <2>2, MoveKeepsOffer
<1>6. ASSUME NEW owed, PayNext(w, owed)  PROVE FALSE
  <2>1. req'[w] = [req[w] EXCEPT !.pc = "payRead", !.owed = owed,
                                 !.paying = NoPayment]
    BY <1>3, <1>4, <1>6 DEF PayNext
  <2> QED  BY <1>1, <2>1 DEF Request, Selling
<1>7. CASE BuyCheckStatus(w) \/ SellCheckStatus(w)
  BY <1>4, <1>5, <1>7
  DEF BuyCheckStatus, SellCheckStatus, CheckMarketStatus, Selling
<1>8. CASE BuyCheckBalance(w)
  <2>1. PICK log \in GetBetsForMarket(req[w].market) :
          LET cost == req[w].amount
                        + GetBetFees(log, req[w].user, req[w].amount)
          IN  Now(w, [req[w] EXCEPT !.pc = "buyValidate", !.due = cost,
                                    !.at = clock + 1])
    BY <1>4, <1>8 DEF BuyCheckBalance
  <2> DEFINE cost == req[w].amount
                       + GetBetFees(log, req[w].user, req[w].amount)
  <2>2. req'[w] = [req[w] EXCEPT !.pc = "buyValidate", !.due = cost,
                                 !.at = clock + 1]
    BY <1>3, <2>1
  <2> HIDE DEF cost
  <2> QED  BY <1>1, <2>2 DEF Request, Selling
<1>9. CASE BuyValidate(w) \/ BuyDebit(w) \/ CreateDebit(w) \/ ImageWrite(w)
  BY <1>4, <1>5, <1>9
  DEF BuyValidate, BuyDebit, CreateDebit, ImageWrite, Selling
<1>10. CASE BuyInsert(w) \/ SellInsert(w) \/ CreateInsert(w) \/ EditSave(w)
            \/ ImageSaveFails(w) \/ ImageDelete(w)
  BY <1>4, <1>10
  DEF BuyInsert, SellInsert, CreateInsert, EditSave, ImageSaveFails,
      ImageDelete
<1>11. CASE SellReadMarket(w)
  <2>1. req'[w] = [req[w] EXCEPT !.pc = "sellBets",
                                 !.mrow = markets[req[w].market]]
    BY <1>3, <1>11 DEF SellReadMarket
  <2> QED  BY <1>1, <2>1 DEF Request, Selling
<1>12. CASE SellValidate(w) \/ SellCredit(w)
  BY <1>4, <1>5, <1>12 DEF SellValidate, SellCredit, At, Selling
<1>13. CASE SellReadUser(w)
  <2>1. req'[w] = [req[w] EXCEPT !.pc = "sellCredit",
                                 !.row = users[req[w].user]]
    BY <1>3, <1>13 DEF SellReadUser
  <2>2. req[w].pc \in Selling
    BY <1>13 DEF SellReadUser, At, Selling
  <2> QED  BY <1>1, <2>1, <2>2 DEF SameOffer, Request
<1>14. CASE ResolveSave(w)
  <2>1. \/ Goto(w, "refundBets")
        \/ Goto(w, "payMarket")
    BY <1>14 DEF ResolveSave
  <2> QED  BY <1>5, <2>1 DEF Selling
<1>15. CASE PayReadMarket(w)
  <2>1. req'[w] = [req[w] EXCEPT !.pc = "payBets",
                                 !.mrow = markets[req[w].market]]
    BY <1>3, <1>15 DEF PayReadMarket
  <2> QED  BY <1>1, <2>1 DEF Request, Selling
<1>16. CASE PayReadBets(w) \/ RefundReadBets(w) \/ PaySave(w)
  BY <1>6, <1>16 DEF PayReadBets, RefundReadBets, PaySave
<1>17. CASE PayReadUser(w)
  <2>1. PICK p \in req[w].owed :
          Now(w, [req[w] EXCEPT !.pc = "paySave", !.paying = p,
                                !.row = users[p.user]])
    BY <1>17 DEF PayReadUser
  <2>2. req'[w] = [req[w] EXCEPT !.pc = "paySave", !.paying = p,
                                 !.row = users[p.user]]
    BY <1>3, <2>1
  <2> QED  BY <1>1, <2>2 DEF Request, Selling
<1>18. CASE ImageSave(w)
  BY <1>4, <1>5, <1>18 DEF ImageSave, Selling
<1> QED
  BY <1>7, <1>8, <1>9, <1>10, <1>11, <1>12, <1>13, <1>14, <1>15, <1>16,
     <1>17, <1>18
  DEF Step

(* A quote offers what the position has.                                   *)
LEMMA QuotesAreTraded ==
  ASSUME NEW w, Serial(w), SellQuote(w), req'[w].pc \in Selling
  PROVE  SoldFrom(bets[req[w].market], Offer(w)')
         /\ req'[w].market = req[w].market /\ bets' = bets
<1> DEFINE r == req[w]
<1>1. PICK log \in GetBetsForMarket(r.market) :
        LET position == Positions(Untimed(log), r.mrow.status)[r.user]
            owned    == SharesOwned(position, r.choice)
            value    == position.value
            shares   == SharesToSell(value, owned, r.amount)
        IN  IF owned # 0 /\ SaleAccepted(value, owned, r.amount)
                         /\ shares <= MaxShares
            THEN /\ clock' = clock + 1
                 /\ Now(w, [r EXCEPT
                      !.pc = "sellValidate", !.shares = shares,
                      !.due = SaleValue(value, owned, r.amount),
                      !.at = clock + 1])
            ELSE Finish(w) /\ UNCHANGED clock
  BY DEF SellQuote
<1>2. /\ TypeOK /\ w \in Workers /\ r \in Request /\ SerialHolds(w)
      /\ r.user \in Users /\ r.market \in Markets /\ r.amount \in Int
  BY SerialTyped DEF Request
<1>3. r.pc = "sellBets" /\ bets' = bets
  BY DEF SellQuote, At, db
<1> DEFINE position == Positions(Untimed(log), r.mrow.status)[r.user]
           owned    == SharesOwned(position, r.choice)
           value    == position.value
           shares   == SharesToSell(value, owned, r.amount)
           due      == SaleValue(value, owned, r.amount)
           next     == [r EXCEPT !.pc = "sellValidate", !.shares = shares,
                                 !.due = due, !.at = clock + 1]
<1>4. owned # 0 /\ SaleAccepted(value, owned, r.amount) /\ Now(w, next)
  <2>1. ~Finish(w)
    <3>1. Idle.pc = "idle"
      BY DEF Idle
    <3> QED  BY <1>2, <3>1, NowIs DEF Finish, Selling
  <2> QED  BY <1>1, <2>1
<1>5. r.mrow.status = "open"
  BY <1>2, <1>3 DEF SerialHolds, RowsCurrent, StatusHolds, HoldsMarket, Open
<1>6. position \in Position
  BY <1>2, <1>5, PositionTyped DEF Statuses
<1>7. owned \in Nat /\ value \in Int
  BY <1>6 DEF Position, SharesOwned
<1>8. log = bets[r.market]
  <2>1. r.user \in Bettors(log)
    <3>1. DealsOut(log)
      <4>1. log = bets[r.market] \/ log = <<>>
        BY DEF GetBetsForMarket
      <4> QED  BY <1>2, <4>1, SerialTyped DEF Serial, SerialInv
    <3> QED  BY <1>2, <1>4, <1>5, <3>1 DEF DealsOut, SharesOwned
  <2> QED  BY <2>1, EmptyLog DEF GetBetsForMarket
<1>9. shares <= value /\ shares <= owned /\ shares \in Int
  <2> HIDE DEF owned, value
  <2>1. shares <= due /\ due <= value /\ due \in Nat /\ shares \in 1..owned
    BY <1>2, <1>4, <1>7, SaleBounds
  <2> HIDE DEF shares, due
  <2> QED  BY <1>7, <2>1
<1>10. req'[w] = next
  BY <1>2, <1>4, NowIs
<1> HIDE DEF shares, due
<1>11. /\ next.user = r.user /\ next.market = r.market
       /\ next.choice = r.choice /\ next.shares = shares
  BY <1>2 DEF Request
<1>12. /\ Offer(w)'.user = r.user /\ Offer(w)'.outcome = r.choice
       /\ Offer(w)'.amount = -shares
  BY <1>10, <1>11 DEF Offer
<1>13. -(-shares) = shares
  BY <1>9
<1>14. position = Positions(Untimed(bets[r.market]), "open")[r.user]
  BY <1>5, <1>8
<1>15. SoldFrom(bets[r.market], Offer(w)')
  BY <1>9, <1>12, <1>13, <1>14 DEF SoldFrom
<1> QED  BY <1>3, <1>10, <1>11, <1>15

LEMMA OffersKept ==
  ASSUME NEW w, Serial(w), [Next]_vars, TradedInv(w),
         req'[w].pc \in Selling
  PROVE  SoldFrom(bets'[req'[w].market], Offer(w)')
<1>1. w \in Workers /\ TypeOK /\ req[w] \in Request
  BY SerialTyped
<1>2. ASSUME bets' = bets, SameOffer(w)
      PROVE  SoldFrom(bets'[req'[w].market], Offer(w)')
  <2>1. /\ Offer(w)'.user = Offer(w).user
        /\ Offer(w)'.outcome = Offer(w).outcome
        /\ Offer(w)'.amount = Offer(w).amount
    BY <1>2 DEF SameOffer, Offer
  <2>2. SoldFrom(bets[req[w].market], Offer(w))
    BY <1>2 DEF SameOffer, TradedInv
  <2>3. bets'[req'[w].market] = bets[req[w].market]
    BY <1>2 DEF SameOffer
  <2> QED  BY <2>1, <2>2, <2>3 DEF SoldFrom
<1>3. CASE UNCHANGED vars \/ \E m \in Markets : TimePasses(m)
  <2>1. bets' = bets /\ req' = req
    BY <1>3 DEF vars, db, TimePasses
  <2>2. SameOffer(w)
    BY <2>1 DEF SameOffer
  <2> QED  BY <1>2, <2>1, <2>2
<1>4. CASE Arrive(w)  BY <1>4, ArrivalsOfferNothing
<1>5. CASE Fail(w)
  <2>1. Idle.pc = "idle"
    BY DEF Idle
  <2> QED  BY <1>1, <1>5, <2>1, NowIs DEF Fail, Finish, Selling
<1>6. CASE Step(w)
  <2>1. CASE SellQuote(w)
    BY <2>1, QuotesAreTraded
  <2>2. CASE SameOffer(w)
    <3>1. bets' = bets
      <4>1. SerialStep(w) /\ Idle.pc = "idle"
        BY NextHolds DEF Idle
      <4> QED
        BY <4>1
        DEF SerialStep, Quiet, Dies, Debits, Inserts, Opens, Resolves,
            Decides, SettlesWith, Pays, Same, Selling
    <3> QED  BY <1>2, <2>2, <3>1
  <2> QED  BY <1>6, <2>1, <2>2, OffersStay
<1> QED  BY <1>3, <1>4, <1>5, <1>6 DEF Next, Serial

(* A row bought takes nothing; a row sold is the one offered.              *)
LEMMA RowsAreTraded ==
  ASSUME NEW w, Serial(w), TradedInv(w), NEW amount \in BetAmounts,
         req[w].pc \in Inserting, req[w].choice \in Outcomes,
         amount = IF req[w].pc = "buyInsert" THEN req[w].amount
                  ELSE -req[w].shares,
         CreateBet(w, amount)
  PROVE  \A m \in Markets : Traded(bets'[m])
<1> DEFINE r   == req[w]
           m   == r.market
           row == [user |-> r.user, outcome |-> r.choice,
                   amount |-> amount, at |-> r.at]
<1>1. /\ TypeOK /\ r \in Request /\ m \in Markets /\ LocalSound(w)
      /\ bets \in [Markets -> Seq(StampedRow)]
      /\ bets[m] \in Seq(StampedRow)
  BY SerialTyped DEF TypeOK
<1>2. row \in StampedRow
  BY CreateAppends
<1>3. bets' = [bets EXCEPT ![m] = Append(bets[m], row)]
  BY CreateAppends
<1>4. row.amount < 0 => SoldFrom(bets[m], row)
  <2>1. CASE r.pc = "buyInsert"
    <3>1. r.amount >= 1 /\ row.amount = r.amount
      BY <1>1, <2>1 DEF LocalSound, TradeSound
    <3>2. r.amount \in Int
      BY <1>1 DEF Request
    <3> QED  BY <3>1, <3>2
  <2>2. CASE r.pc = "sellInsert"
    <3>1. row = Offer(w)
      BY <2>2 DEF Offer
    <3> QED  BY <2>2, <3>1 DEF TradedInv, Selling
  <2> QED  BY <2>1, <2>2 DEF Inserting
<1> HIDE DEF row
<1>5. Traded(Append(bets[m], row))
  BY <1>1, <1>2, <1>4, TradedAppended DEF TradedInv
<1>6. /\ bets'[m] = Append(bets[m], row)
      /\ \A x \in Markets \ {m} : bets'[x] = bets[x]
  BY <1>1, <1>3
<1> QED  BY <1>5, <1>6 DEF TradedInv

LEMMA TradedStep ==
  ASSUME NEW w, Serial(w), [Next]_vars, TradedInv(w)
  PROVE  TradedInv(w)'
<1>1. req'[w].pc \in Selling
        => SoldFrom(bets'[req'[w].market], Offer(w)')
  BY OffersKept
<1>2. \A m \in Markets : Traded(bets'[m])
  <2>1. CASE BuyInsert(w)
    <3>1. req[w].pc = "buyInsert" /\ CreateBet(w, req[w].amount)
      BY <2>1 DEF BuyInsert, At
    <3>2. req[w].choice \in Outcomes /\ req[w].amount \in BetAmounts
      BY <3>1, SerialTyped
      DEF LocalSound, TradeSound, BuyStages, SellStages, BetAmounts
    <3> QED  BY <3>1, <3>2, RowsAreTraded DEF Inserting
  <2>2. CASE SellInsert(w)
    <3>1. req[w].pc = "sellInsert" /\ CreateBet(w, -req[w].shares)
      BY <2>2 DEF SellInsert, At
    <3>2. req[w].choice \in Outcomes /\ req[w].shares \in 1..MaxShares
      BY <3>1, SerialTyped
      DEF LocalSound, TradeSound, PriceSound, BuyStages, SellStages
    <3>3. -req[w].shares \in BetAmounts
      BY <3>2 DEF BetAmounts
    <3> QED  BY <3>1, <3>2, <3>3, RowsAreTraded DEF Inserting
  <2>3. CASE bets' = bets
    BY <2>3 DEF TradedInv
  <2>4. BuyInsert(w) \/ SellInsert(w) \/ bets' = bets
    <3>1. CASE UNCHANGED vars \/ \E m \in Markets : TimePasses(m)
      BY <3>1 DEF vars, db, TimePasses
    <3>2. CASE Arrive(w)
      BY <3>2
      DEF Arrive, BuyStart, SellStart, CreateStart, ResolveStart, EditStart,
          ImageStart, Start, Begin, db
    <3>3. CASE Fail(w)
      BY <3>3 DEF Fail, db
    <3>4. CASE Step(w)
      BY <3>4
      DEF Step, db, BuyCheckStatus, SellCheckStatus, CheckMarketStatus,
          BuyCheckBalance, BuyValidate, BuyDebit, SellReadMarket, SellQuote,
          SellValidate, SellReadUser, SellCredit, CreateDebit, CreateInsert,
          ResolveSave, PayReadMarket, PayReadBets, RefundReadBets,
          PayReadUser, PaySave, EditSave, ImageWrite, ImageSave,
          ImageSaveFails, ImageDelete
    <3> QED  BY <3>1, <3>2, <3>3, <3>4 DEF Next, Serial
  <2> QED  BY <2>1, <2>2, <2>3, <2>4
<1> QED  BY <1>1, <1>2 DEF TradedInv

LEMMA TradedStart ==
  ASSUME Init, NEW w \in Workers  PROVE TradedInv(w)
<1>1. req[w].pc = "idle" /\ \A m \in Markets : bets[m] = <<>>
  BY DEF Init, Idle
<1> QED  BY <1>1, EmptyTraded DEF TradedInv, Selling

(* Handled one at a time, whatever fails, requests leave every market with *)
(* a log in which sales are covered by positions: where the calculators    *)
(* keep the pools of such logs, they keep every pool of the exchange, and  *)
(* the theorems above need no other hypothesis.                            *)
THEOREM PoolsAreKept ==
  ASSUME NEW w, Workers = {w}, IsFiniteSet(Users), TradesKeepPools(BetLogs)
  PROVE  Spec => []PoolKept
<1>1. Init => StampInv
  BY InitStamps
<1>2. IInv /\ StampInv /\ [Next]_vars => StampInv'
  BY NextStamps
<1>3. Init => TradedInv(w)
  BY TradedStart
<1>4. TypeOK /\ TradedInv(w) => PoolKept
  BY TradedPoolsKept DEF TradedInv
<1>5. Init /\ PoolKept => SerialInv
  BY InitHolds
<1>6. IInv => TypeOK
  BY DEF IInv
<1>7. IInv /\ StampInv /\ SerialInv /\ PoolKept => Serial(w)
  BY DEF Serial
<1>8. Serial(w) /\ [Next]_vars => SerialInv'
  BY NextHolds
<1>9. Serial(w) /\ TradedInv(w) /\ [Next]_vars => TradedInv(w)'
  BY TradedStep
<1> QED
  BY <1>1, <1>2, <1>3, <1>4, <1>5, <1>6, <1>7, <1>8, <1>9, Invariance, PTL
  DEF Spec
=============================================================================
