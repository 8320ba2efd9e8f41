\* Three harts, a fourth msip register without a hart, three rounds.
SPECIFICATION FairSpec
CONSTANTS
  NHarts = 3
  MAX_HARTS = 4
  Msips <- HartMsips
  MaxRounds = 3
INVARIANTS
  TypeOK
  NoLostWakeup
  ScannedArrived
  Barrier
  SingleSectionHeld
PROPERTIES
  Refines
  ResumeUnlessLapped
\* A lapped hart is stuck for good, see SmpReuse.cfg.
CHECK_DEADLOCK FALSE
