CONSTANTS
  Bots = {b1, b2}
  Slaves = {s1, s2}
  MaxMails = 1
  MaxTime = 3
  None = None
SPECIFICATION FairSpec
INVARIANTS
  TypeOK
  SharesDisjoint
  LatestSignalWins
PROPERTIES
  UnwantedMonitorEnds
CHECK_DEADLOCK FALSE
