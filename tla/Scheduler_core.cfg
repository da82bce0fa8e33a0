CONSTANTS
  Tasks = {t1, t2, t3}
  Requests <- CoreRequests
  TotalCPU = 6
  TotalMemory = 6
  QueueBuffer = 1
  ReleaseBuffer = 2
  None = None
SYMMETRY Symmetry
SPECIFICATION Spec
INVARIANTS
  TypeOK
  LedgerBalances
  HandledOnce
  ChannelsSuffice
PROPERTIES
  TerminalIsFinal
  PreemptionIsMinimal
  PoolSpec
CHECK_DEADLOCK FALSE
