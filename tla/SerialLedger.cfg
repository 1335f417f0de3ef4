\* One request at a time, nothing fails: the handlers implement the ledger.
CONSTANTS
  alice = alice
  bob = bob
  m1 = m1
  m2 = m2
  Users = {alice, bob}
  Markets = {m1, m2}
  Workers = {1}
  Handlers = {"buy", "sell", "create", "resolve"}
  Creators = {bob}
  Admins = {bob}
  OpenAtStart = {m1}
  FirstCreator <- MCFirstCreator
  Amounts = {0, 2}
  Resolutions = {"YES", "NO", "N/A"}
  BodyStatuses = {"open", "YES", "N/A"}
  BodyImages = {0}
  InitialBalance = 0
  MaxDebt = 6
  CreateMarketCost = 2
  InitialBetFee = 1
  BuySharesFee = 0
  SellSharesFee = 0
  CanFail = FALSE
  Positions <- MCPositions
  MaxRequests = 4
  MaxBets = 3
  MaxShares = 2
  MaxDustPerSale = 2
SPECIFICATION FairSpec
CHECK_DEADLOCK FALSE
INVARIANT SurplusExplained
PROPERTIES
  ImplementsLedger
  WinnersPaid
