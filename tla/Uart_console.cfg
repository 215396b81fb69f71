CONSTANTS
  MainText = 6
  Banner = 2
  TrapText = 2
  MaxTraps = 3
  TX_FIFO_DEPTH = 3
  Divisor = 300
SPECIFICATION FairSpec
INVARIANT TwoAreEnough
INVARIANT SentAsConfigured
PROPERTY ConsoleSpec
PROPERTY TextIsSent
