\* Two interrupts, of handlers that print and that do not, between any two
\* accesses of the program, and a fatal trap at any point.
SPECIFICATION FairSpec
CONSTANTS
  Depth = 2
  MainCalls <- ProgramCalls
  IrqCalls <- Handlers
  TrapCalls <- FatalCalls
  MaxIrqs = 2
  MayTrap = TRUE
INVARIANTS
  TypeOK
  SilentBeforeInit
  LossBounded
PROPERTIES
  Refines
  AllPrinted
  TrapReported
\* exit ends in for (;;);
CHECK_DEADLOCK FALSE
