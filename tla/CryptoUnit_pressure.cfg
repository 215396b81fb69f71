\* writes are granted up to three cycles late: arguments wait, and requests
\* are acknowledged over them
CONSTANTS
  NrLanes = 1
  EW32 = 1
  EW64 = 2
  CryptoEGS_4 = 1
  CryptoEGS_8 = 2
  MAXVL = 8
  CryptoInsnQueueDepth = 2
  Kinds <- MCKinds
  VInsnIds = {0, 1}
  MaxReq = 2
  MaxStall = 3
SPECIFICATION Spec
INVARIANTS
  ArgsMatchRequest
  AckAfterRead
  WritesInPlace
  ReportedKept
PROPERTIES
  GroupsInOrder
  WrittenOnce
