CONSTANTS
  Tasks = {t1}
  Subs = {s1}
  MaxBots = 1
  MaxMails = 1
  None = None
SPECIFICATION Spec
INVARIANTS
  SurvivesResults
CHECK_DEADLOCK FALSE
