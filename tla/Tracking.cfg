\* two markets, one task, a queue of one command
SPECIFICATION Spec
CONSTANTS
  m1 = m1
  m2 = m2
  kalshi = kalshi
  poly = poly
  Markets = {m1, m2}
  t1 = t1
  Platforms = {kalshi, poly}
  Tasks = {t1}
  MaxMargin = 2
  Threshold = 2
  QueueSize = 1
  Faults = {"write", "crash"}
SYMMETRY Alike
INVARIANTS
  RowsFollowTracking
  IndexIsRight
  TrackedWhileWorth
CHECK_DEADLOCK FALSE
