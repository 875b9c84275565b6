\* two markets, one manual request, and the two loops
SPECIFICATION FairSpec
CONSTANTS
  k1 = k1
  k2 = k2
  m1 = m1
  Keys = {k1, k2}
  Listed <- TwoMarkets
  Manual = {m1}
  ManualKey <- SecondMarket
  MaxTrades = 1
  Volatile = {k2}
  Excludable = {k2}
  Removable = {k2}
INVARIANTS
  CountWithinLimit
PROPERTIES
  NoSecondTrade
  EligibleIsTried
CHECK_DEADLOCK FALSE
