\* malloc, printf, the CLIC driver and the trim search.
SPECIFICATION LibSpec
CONSTANTS
  AddrMod = 32
  End = 20
  HeapEnd = 26
  Requests <- AllRequests
  MaxBlocks = 5
  ULong = 65536
  PrintCalls <- PrintfCalls
  ClicSources = {0, 1}
  ConfigBits = 4
  Handlers = {"isr"}
  ClicCalls <- ClicProgramCalls
  HandlerClicCalls <- ClicHandlerCalls
  MaxTrim = 5
  RoscFreq <- Oscillator
  MeasureError = 1
  TrimCalls <- Searches
INVARIANTS
  TypeOK
  BlocksDisjoint
  FormatInBounds
  PrintsText
  TrimAsAsked
PROPERTIES
  RefusesOnlyTooLarge
  LevelPlaced
\* The program stops after MaxBlocks blocks.
CHECK_DEADLOCK FALSE
