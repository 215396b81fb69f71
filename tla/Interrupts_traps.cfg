CONSTANTS
  Half = 4
  Wakeups = 2
  RtcTicks = 2
  ProgramSet <- AllPrograms
SPECIFICATION PeriodicSpec
INVARIANT WakeupsAreInterrupts
INVARIANT PassedMeansServed
INVARIANT PadoutCountsToggles
PROPERTY TimerTrapNotEarly
PROPERTY PlicTestCompletes
CHECK_DEADLOCK FALSE
