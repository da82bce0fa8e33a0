CONSTANTS
  Subs = {s1, s2}
  Malformed = {s2}
  Watchers = {w1, w2}
  MaxCfSubs = 1
  MaxRestarts = 1
  None = None
SPECIFICATION FairSpec
INVARIANTS
  TypeOK
  TablesAgree
  OneWatcher
PROPERTIES
  RequestsOnlyUnrecorded
  SubmissionSpec
  PendingRecorded
CHECK_DEADLOCK FALSE
