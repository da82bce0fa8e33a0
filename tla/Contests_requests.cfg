CONSTANTS
  t1 = t1
  m1 = m1
  p1 = p1
  p2 = p2
  a = a
  b = b
  u1 = u1
  TimerLocks = {t1}
  ManualLocks = {m1}
  Problems = {p1, p2}
  Contests = {a, b}
  Users = {u1}
  Requests = {r1, r2}
  MaxTime = 2
  MaxRounds = 2
  Timeout <- TimeoutDef
  Details <- DetailsDef
  Asked <- AskedDef
  None = None
  Deleted = Deleted
SYMMETRY Symmetry
SPECIFICATION Spec
INVARIANTS
  TypeOK
  RoundsNumbered
  SubmissionsKept
  PublishedUnregistered
CHECK_DEADLOCK FALSE
