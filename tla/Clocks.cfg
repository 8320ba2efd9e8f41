\* init.c and the PRCI driver mixed, in any order, from reset, with the
\* LFROSC as the only clock of the RTC and with another.
SPECIFICATION FairSpec
CONSTANTS
  Calls <- AllCalls
  Period = 2
  SettleTime = 8
  AgeBound = 8
  MTimeMod = 8
INVARIANTS
  TypeOK
  HfroscKept
  FourTicksWaited
PROPERTIES
  SlowFlashBeforeBoost
  PllFrozenWhileSelected
  SwitchesAsAsked
  HangsOnlyWithoutRtc
