CONSTANTS
  Requests = {r1, r2, r3}
  Emails = {e1, e2}
  Bots = {b1}
  EmailCapacity = 1
  None = None
  Old = Old
SYMMETRY Symmetry
SPECIFICATION Spec
INVARIANTS
  TypeOK
  UsedTokensDie
  AccountsProven
CHECK_DEADLOCK FALSE
