\* One user whose trades leave a payout more than the pool.
CONSTANTS
  alice = alice
  bob = bob
  carol = carol
  Users = {alice}
  BuyAmounts = {20}
  SaleCredits = {20}
  MaxBets = 5
  MaxDustPerSale = 2
  Subsidization = 10
  InitialCredit = 5
  InitialYes = 0
  InitialNo = 0
  LeftoverScale = 8
SPECIFICATION Spec
CHECK_DEADLOCK FALSE
INVARIANT PoolConserved
