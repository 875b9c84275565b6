\* the limits of a paired trade, and the matching of a doubleheader
SPECIFICATION AlgSpec
CONSTANTS
  None = None
  KalshiBooks <- SomeKalshiBooks
  PolyBooks <- SomePolyBooks
  KalshiTicks = {440, 500}
  PolyTicks = {440, 684}
  Flexible = TRUE
  MinContracts = 1
  MaxContracts = 3
  MaxAmount = 2800
  PolyMinQty = 1
  MinMargin = 5
  Cushion = 1
  MaxLoss = 50
  DeepBook = 4
  Requests = {3}
  NoOne = NoOne
  g1 = g1
  g2 = g2
  Codes <- PlainCodes
  NbaNames <- Names
  FullNames <- Spellings
  Series <- SeriesOf
  Catalogues <- SomeCatalogues
  Together = TRUE
  MaxPosition = 1
  MaxLegs = 3
  HandTickers <- OneOfEach
  MaxHistory = 1
INVARIANTS
  TradePays
  SentOrdersCross
  RepairIsBounded
  TradesAreHedged
  SettlementIsWorst
CHECK_DEADLOCK FALSE
