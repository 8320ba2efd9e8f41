\* Four sources, a handler that calls the driver, any PLIC state at reset.
SPECIFICATION FairSpec
CONSTANTS
  NumSources = 4
  NumPriorities = 2
  ByteBits = 2
  MainCalls <- Program
  HandlerCalls <- Handlers
  ResetPrios <- SomePrios
  MaxRaises = 3
INVARIANTS
  TypeOK
  SettingsStick
  NothingLeftClaimed
PROPERTY RequestsServed
\* The program ends after its last call.
CHECK_DEADLOCK FALSE
