CONSTANTS
  Tasks = {t1, t2, t3}
  Subs = {}
  MaxBots = 3
  MaxMails = 2
  None = None
SYMMETRY Symmetry
SPECIFICATION Spec
INVARIANTS
  ListsKept
  FleetBounded
CHECK_DEADLOCK FALSE
