\* one market (markets do not act on each other); two missing cycles and two minutes
SPECIFICATION FairSpec
CONSTANTS
  m1 = m1
  m2 = m2
  Markets = {m1}
  MissingCycles = 2
  ExtremeMinutes = 2
INVARIANTS
  ServedOrEnded
PROPERTIES
  EndedForAReason
  ClosedLeaves
  OfferedIsServed
CHECK_DEADLOCK FALSE
