\* From the command line to the end of the firmware.
SPECIFICATION BootSpec
CONSTANTS
  CommandLines <- Lines2
  ConfigFiles <- Files
  Default = default
  MaxRaised = 2
  Image <- ImageWords
  BssWords = 2
  HeapWords = 1
  Garbage = garbage
  Values = {0}
  Interrupts = {7, 11}
  Handled = {7, 11}
  Exceptions = {2}
  HasFpu = TRUE
  CpuFreqAt = 4
  Frequencies = {16}
  MaxTraps = 2
  Entry = 100
  External = 11
INVARIANTS
  OptionsWin
  PlatformAgrees
  ImageReady
PROPERTY TrapTransparent
\* The simulation ends.
CHECK_DEADLOCK FALSE
