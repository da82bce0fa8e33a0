CONSTANTS
  Tasks = {t1, t2}
  Subs = {s1}
  MaxBots = 3
  MaxMails = 1
  None = None
SYMMETRY Symmetry
SPECIFICATION Spec
INVARIANTS
  LoadCounted
  EntriesAlive
CHECK_DEADLOCK FALSE
