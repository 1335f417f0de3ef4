\* Three users, one of whom sells before the others buy.
CONSTANTS
  alice = alice
  bob = bob
  carol = carol
  Users = {alice, bob, carol}
  BuyAmounts = {10}
  SaleCredits = {6}
  MaxBets = 4
  MaxDustPerSale = 2
  Subsidization = 10
  InitialCredit = 5
  InitialYes = 0
  InitialNo = 0
  LeftoverScale = 8
SPECIFICATION Spec
CHECK_DEADLOCK FALSE
INVARIANT PaymentsMatchPool
