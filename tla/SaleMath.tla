------------------------------ MODULE SaleMath ------------------------------
(***************************************************************************)
(* The integer arithmetic of a sale: handlers/bets/selling/                *)
(* sellpositioncore.go, calculateSharesToSell.  A request names an amount  *)
(* of credits; the code turns it into a whole number of shares at the      *)
(* (floored) value of one share.                                           *)
(***************************************************************************)
EXTENDS Integers

CONSTANT MaxDustPerSale   \* economics.betting.maxDustPerSale; 0: no cap

ASSUME DustAssumption == MaxDustPerSale \in Nat

(* Mutant: the value of a share is rounded up.                             *)
ValuePerShareRoundedUp(value, owned) == (value + owned - 1) \div owned

(* Value / sharesOwned with Go's integer division, on a positive value.    *)
ValuePerShare(value, owned) == value \div owned

(* Mutant: the shares are not capped at the shares owned.                  *)
SharesToSellUncapped(value, owned, credits) ==
  credits \div ValuePerShare(value, owned)

SharesToSell(value, owned, credits) ==
  LET asked == credits \div ValuePerShare(value, owned)
  IN  IF asked > owned THEN owned ELSE asked

SaleValue(value, owned, credits) ==
  SharesToSell(value, owned, credits) * ValuePerShare(value, owned)

Dust(value, owned, credits) == credits - SaleValue(value, owned, credits)

WithinDustCap(dust) == MaxDustPerSale > 0 => dust <= MaxDustPerSale

(* A position whose value is below its number of shares has value per      *)
(* share 0: the check "credits < value per share" passes and the next line *)
(* divides by zero.  net/http recovers the panic and drops the request.    *)
SalePanics(value, owned, credits) ==
  /\ value > 0
  /\ ValuePerShare(value, owned) = 0
  /\ credits >= 0

SaleAccepted(value, owned, credits) ==
  /\ value > 0
  /\ ValuePerShare(value, owned) > 0
  /\ credits >= ValuePerShare(value, owned)
  /\ WithinDustCap(Dust(value, owned, credits))
=============================================================================
