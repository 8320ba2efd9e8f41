\* The priority after clic_set_int_priority, without any interrupt.
SPECIFICATION LibSpec
CONSTANTS
  AddrMod = 32
  End = 20
  HeapEnd = 26
  Requests <- AllRequests
  MaxBlocks = 5
  ULong = 65536
  PrintCalls <- PrintfCalls
  ClicSources = {0, 1}
  ConfigBits = 4
  Handlers = {"isr"}
  ClicCalls <- ClicProgramCalls
  HandlerClicCalls = {}
  MaxTrim = 5
  RoscFreq <- Oscillator
  MeasureError = 1
  TrimCalls <- Searches
PROPERTY PrioritySet
\* The program stops after MaxBlocks blocks.
CHECK_DEADLOCK FALSE
