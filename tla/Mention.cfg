\* live trading allowed, every call may fail, an entry's two writes may be torn
SPECIFICATION Spec
CONSTANTS
  k1 = k1
  p1 = p1
  p2 = p2
  o1 = o1
  o2 = o2
  Markets = {k1}
  EventOf <- OneEvent
  Ids = {p1, p2}
  Orders = {o1, o2}
  Caps <- TightCaps
  Prices = {2, 5}
  Fees = {0}
  LossLimit = 2
  Moves <- Losing
  LIVE_ORDER_LOOKUP_CONFIRMED = TRUE
  Torn = {"entry"}
  Garbled = {"over", "buy"}
  FailOpen = {"loss"}
  SettlesUnresolved = FALSE
  MaxDays = 1
  MaxCrashes = 1
SYMMETRY Renamed
INVARIANTS
  RowsCoverExposure
  BookedOnce
  WithinCaps
  OneOpenQuestion
PROPERTIES
  LossStopsEntries
  OverIsOver
CHECK_DEADLOCK FALSE
