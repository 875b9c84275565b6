\* frames lost or not parsed, subscriptions dropped by the server, a REST cycle,
\* markets that come and go
SPECIFICATION FairSpec
CONSTANTS
  t1 = t1
  t2 = t2
  Tickers = {t1}
  OneSided = {}
  Unparsable = {1}
  MaxChanges = 2
  MaxEpoch = 2
  MaxWire = 2
  ChannelSize = 1
  MaxListings = 1
  Answers = {0}
  Faults = {"skip", "drop", "send"}
INVARIANTS
  FreshBookIsExact
  PriceFollowsBook
  WantedIsSubscribed
PROPERTIES
  DropIsNoticed
CHECK_DEADLOCK FALSE
