\* Three users, all logs of at most four rows, the shipped economics.
CONSTANTS
  alice = alice
  bob = bob
  carol = carol
  Users = {alice, bob, carol}
  BuyAmounts = {0, 1, 2, 5}
  SaleCredits = {1, 2, 3, 4, 6}
  MaxBets = 4
  MaxDustPerSale = 2
  Subsidization = 10
  InitialCredit = 5
  InitialYes = 0
  InitialNo = 0
  LeftoverScale = 8
SPECIFICATION Spec
SYMMETRY UserSymmetry
CHECK_DEADLOCK FALSE
INVARIANTS
  PayoutsAddUp
  MinimumUnlessNoDonor
  ResolvedValuesMatchPool
  OpenValuesMatchPool
PROPERTIES
  ProbabilityMovesWithMoney
  SaleCoveredByValue
