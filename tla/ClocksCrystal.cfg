\* The driver switches to a crystal that may not have started yet: the
\* promise of its header to switch safely.
SPECIFICATION Spec
CONSTANTS
  Calls <- HfxoscCalls
  Period = 2
  SettleTime = 8
  AgeBound = 8
  MTimeMod = 8
INVARIANTS
  CpuKeepsRunning
CHECK_DEADLOCK FALSE
