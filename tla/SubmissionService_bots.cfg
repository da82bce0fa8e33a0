CONSTANTS
  Capacity = 2
  Requests = {r1, r2}
  Bots = {b1}
  Watchers = {w1}
  MaxActors = 2
  Old = Old
  Renewed = Renewed
  None = None
SPECIFICATION FairSpec
INVARIANTS
  TypeOK
  BotsKnown
  OnlyFirstSlaveMissed
PROPERTIES
  MailSpec
  MailsMove
CHECK_DEADLOCK FALSE
