CONSTANTS
  Subs = {s1}
  Slaves = {v1}
  Bots = {b1}
  Window = 2
  MaxCfSubs = 2
  MaxRestarts = 1
  None = None
SPECIFICATION FairSpec
PROPERTIES
  Judged
CHECK_DEADLOCK FALSE
