\* the timers in the order of the defaults: refresh 5 s, silence timeout 30 s
SPECIFICATION FairSpec
CONSTANTS
  s1 = s1
  s2 = s2
  s3 = s3
  Slugs = {s1}
  Watched = {s1}
  MaxChanges = 0
  Unreadable = {}
  MaxEpoch = 2
  MaxWire = 2
  ChunkSize = 2
  MaxSubscriptions = 2
  SlugRefresh = 1
  SilenceTimeout = 2
  MaxSilence = 1
  Relists = FALSE
PROPERTIES
  SilenceIsNoticed
CHECK_DEADLOCK FALSE
