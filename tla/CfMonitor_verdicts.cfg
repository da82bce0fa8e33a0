CONSTANTS
  Subs = {s1}
  Slaves = {v1}
  Bots = {b1}
  Window = 1
  MaxCfSubs = 2
  MaxRestarts = 1
  None = None
SPECIFICATION FairSpec
INVARIANTS
  TypeOK
  VerdictOfItsOwn
PROPERTIES
  SubmissionSpec
  JudgedInOneRun
CHECK_DEADLOCK FALSE
