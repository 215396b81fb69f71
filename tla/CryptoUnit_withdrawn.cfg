\* four cycles late: arguments that wait are withdrawn
CONSTANTS
  NrLanes = 1
  EW32 = 1
  EW64 = 2
  CryptoEGS_4 = 1
  CryptoEGS_8 = 2
  MAXVL = 8
  CryptoInsnQueueDepth = 2
  Kinds <- LongKinds
  VInsnIds = {0, 1}
  MaxReq = 2
  MaxStall = 4
SPECIFICATION Spec
PROPERTY ArgsHeld
