\* all calls that nest locks
SPECIFICATION FairSpec
CONSTANTS
  price = price
  stream = stream
  poll = poll
  handler = handler
  scanner = scanner
  cleanup = cleanup
  stats = stats
  Tasks = {price, stream, scanner, cleanup}
  Runs <- AllRuns
INVARIANTS
  TwoCircles
PROPERTIES
  CallsReturn
CHECK_DEADLOCK FALSE
