\* a two-entry FIFO, one id more than entries, enough requests to wrap both
CONSTANTS
  NrLanes = 1
  EW32 = 1
  EW64 = 2
  CryptoEGS_4 = 1
  CryptoEGS_8 = 2
  MAXVL = 8
  CryptoInsnQueueDepth = 2
  Kinds <- MCKinds
  VInsnIds = {0, 1, 2}
  MaxReq = 5
SPECIFICATION Spec
INVARIANTS
  QueueInIssueOrder
  NoPushWhileFull
  NoneLost
  IdsNotShared
