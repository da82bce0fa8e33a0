CONSTANTS
  Tasks = {t1, t2}
  Requests <- MixedRequests
  TotalCPU = 6
  TotalMemory = 6
  QueueBuffer = 1
  ReleaseBuffer = 2
  None = None
SPECIFICATION FairSpec
PROPERTIES
  EventuallyAnswered
  KillIsEffective
  LifeSpec
CHECK_DEADLOCK FALSE
