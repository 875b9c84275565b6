\* one market, and a Polymarket answer that lost the series of a sport twice
SPECIFICATION FairSpec
CONSTANTS
  m1 = m1
  m2 = m2
  Markets = {m1}
  MissingCycles = 2
  ExtremeMinutes = 2
PROPERTIES
  EndedMeansUnlisted
CHECK_DEADLOCK FALSE
