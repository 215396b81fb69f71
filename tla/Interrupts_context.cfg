CONSTANTS
  Half = 4
  Wakeups = 2
  RtcTicks = 2
  ProgramSet <- AllPrograms
SPECIFICATION Spec
INVARIANT ContextRestored
