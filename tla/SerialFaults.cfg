\* One request at a time, and any of them may fail: types, and where money appears.
CONSTANTS
  alice = alice
  bob = bob
  m1 = m1
  m2 = m2
  Users = {alice, bob}
  Markets = {m1, m2}
  Workers = {1}
  Handlers = {"buy", "sell", "create", "resolve", "edit"}
  Creators = {bob}
  Admins = {bob}
  OpenAtStart = {m1}
  FirstCreator <- MCFirstCreator
  Amounts <- AlsoNegative
  Resolutions = {"YES", "NO", "N/A"}
  BodyStatuses = {"open", "NO"}
  BodyImages = {0}
  InitialBalance = 0
  MaxDebt = 6
  CreateMarketCost = 2
  InitialBetFee = 1
  BuySharesFee = 0
  SellSharesFee = 0
  CanFail = TRUE
  Positions <- MCPositions
  MaxRequests = 4
  MaxBets = 3
  MaxShares = 2
  MaxDustPerSale = 2
SPECIFICATION Spec
CHECK_DEADLOCK FALSE
PROPERTY MoneyOnlyFromSales
INVARIANT TypeOK
