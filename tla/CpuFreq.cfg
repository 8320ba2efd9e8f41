\* mtime and mcycle wrap anywhere in the measurements.
SPECIFICATION FairSpec
CONSTANTS
  Word = 64
  Poll = 2
  RtcFreq = 4
  RealTicks = 3
  Baud = 3
  Programs <- Calls
  Starts <- Counters
  ResetPeriod = 4
  MaxHi = 9
INVARIANTS
  TypeOK
  ReadExact
  MeasuredClose
  BaudFits
PROPERTY AllReturn
\* The program ends after its last call.
CHECK_DEADLOCK FALSE
