\* one automatic attempt of up to two contracts: every storage fault, garbled and lost replies, one crash
SPECIFICATION FairSpec
CONSTANTS
  a1 = a1
  a2 = a2
  s1 = s1
  s2 = s2
  Attempts = {a1}
  Automatic = {a1}
  Slugs = {s1, s2}
  Slug <- OwnSlug
  MaxContracts = 2
  MaxCrashes = 1
  LossyOrders = {"poly"}
  LateOrders = {}
  GarbledOrders = {"poly", "kalshi"}
  FractionalOrders = {"kalshi"}
  StorageFaults = {"intent", "poly", "kalshi", "finish", "halt"}
  Disconnects = {}
INVARIANTS
  OrdersFollowTheLedger
  SettledIsFlat
  ResidualCoversExposure
  NeverOverRepaired
  ExposureHaltsTrading
  RestartHalts
PROPERTIES
  KeepsLedger
  AttemptsReturn
  ExposureIsAnnounced
