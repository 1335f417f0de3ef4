\* Two requests at a time, and any of them may fail: trades, their settlement, images.
CONSTANTS
  alice = alice
  bob = bob
  m1 = m1
  m2 = m2
  Users = {alice, bob}
  Markets = {m1, m2}
  Workers = {1, 2}
  Handlers = {"buy", "sell", "create", "edit", "resolve", "image"}
  Creators = {bob}
  Admins = {bob}
  OpenAtStart = {m1}
  FirstCreator <- MCFirstCreator
  Amounts = {2}
  Resolutions = {"YES", "NO", "N/A"}
  BodyStatuses = {"open"}
  BodyImages = {0, 1}
  InitialBalance = 0
  MaxDebt = 3
  CreateMarketCost = 2
  InitialBetFee = 1
  BuySharesFee = 0
  SellSharesFee = 0
  CanFail = TRUE
  Positions <- MCPositions
  MaxRequests = 3
  MaxBets = 3
  MaxShares = 2
  MaxDustPerSale = 2
SPECIFICATION Spec
CHECK_DEADLOCK FALSE
INVARIANTS
  DebtFloor
  PaymentsMatchBets
  NoLateBets
  ImageExists
