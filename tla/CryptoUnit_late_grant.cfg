\* one cycle late is enough for a done bit to come before the write
CONSTANTS
  NrLanes = 1
  EW32 = 1
  EW64 = 2
  CryptoEGS_4 = 1
  CryptoEGS_8 = 2
  MAXVL = 8
  CryptoInsnQueueDepth = 2
  Kinds <- UnitKinds
  VInsnIds = {0, 1}
  MaxReq = 2
  MaxStall = 1
SPECIFICATION Spec
INVARIANT DoneAfterWritten
