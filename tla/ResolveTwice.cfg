\* Two resolutions of one market at the same time: the second one overwrites.
CONSTANTS
  alice = alice
  bob = bob
  m1 = m1
  m2 = m2
  Users = {alice, bob}
  Markets = {m1}
  Workers = {1, 2}
  Handlers = {"resolve"}
  Creators = {bob}
  Admins = {bob}
  OpenAtStart = {m1}
  FirstCreator <- MCFirstCreator
  Amounts = {2}
  Resolutions = {"YES", "NO", "N/A"}
  BodyStatuses = {"open"}
  BodyImages = {0}
  InitialBalance = 0
  MaxDebt = 3
  CreateMarketCost = 2
  InitialBetFee = 1
  BuySharesFee = 0
  SellSharesFee = 0
  CanFail = FALSE
  Positions <- MCPositions
  MaxRequests = 2
  MaxBets = 1
  MaxShares = 2
  MaxDustPerSale = 2
SPECIFICATION Spec
CHECK_DEADLOCK FALSE
PROPERTY ResolutionFinal
