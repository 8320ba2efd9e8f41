\* 100 us are 13.1 quarters of a period of the 32768 Hz RTC.
SPECIFICATION Spec
CONSTANTS
  Calls <- BootCalls
  Period = 4
  SettleTime = 14
  AgeBound = 16
  MTimeMod = 8
INVARIANT LockSettled
