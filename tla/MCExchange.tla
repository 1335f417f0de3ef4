----------------------------- MODULE MCExchange -----------------------------
(***************************************************************************)
(* Exchange for TLC, with the calculators of PositionMath under the        *)
(* shipped economics.  Logs are short enough here for float64 to give the  *)
(* exact result rounded half away from zero: the volumes stay below 8,     *)
(* where the first inexact valuation is; the first inexact pool needs 30.  *)
(***************************************************************************)
EXTENDS ExchangeLedger, SystemMetrics, TLC

CONSTANTS alice, bob, m1, m2

Math == INSTANCE PositionMath WITH
          Subsidization <- 10, InitialCredit <- 5, InitialYes <- 0,
          InitialNo <- 0, LeftoverScale <- 8

ExactFloats == [pools |-> {}, leftover |-> {}, low |-> {}, values |-> {}]

(* Users without a bet hold nothing.                                       *)
ForAll(known) ==
  [u \in Users |-> IF u \in DOMAIN known THEN known[u]
                   ELSE [yes |-> 0, no |-> 0, value |-> 0]]

(* The answers for every log.  Tabulate is the identity on functions: it   *)
(* makes TLC compute and keep every value once.                            *)
Tabulate(f) == f @@ <<>>

PositionTable == Tabulate(
  [log \in BetLogs |-> Tabulate([s \in Statuses |->
     Tabulate(ForAll(Math!CalculateMarketPositions(log, ExactFloats, s)))])])

MCPositions(log, status) == PositionTable[log][status]

(* The calculators keep the pools of all logs of this instance that come   *)
(* from trading one request at a time.                                     *)
ASSUME CalculatorsKeepPools == TradesKeepPools(BetLogs)

(* Amounts of requests, one of which no handler should let through.        *)
AlsoNegative == {-3, 2}

MCFirstCreator == [m \in OpenAtStart |-> alice]
=============================================================================
