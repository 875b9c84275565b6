\* three markets under a cap of two to a connection; refresh and silence timeout
\* are due at the same time, and either goes first
SPECIFICATION Spec
CONSTANTS
  s1 = s1
  s2 = s2
  s3 = s3
  Slugs = {s1, s2, s3}
  Watched = {s1}
  MaxChanges = 2
  Unreadable = {1}
  MaxEpoch = 2
  MaxWire = 2
  ChunkSize = 2
  MaxSubscriptions = 2
  SlugRefresh = 1
  SilenceTimeout = 1
  MaxSilence = 1
  Relists = TRUE
SYMMETRY OthersAlike
INVARIANTS
  FreshBookIsLast
  LivePriceIsPushed
  SubscribedIsCarried
CHECK_DEADLOCK FALSE
