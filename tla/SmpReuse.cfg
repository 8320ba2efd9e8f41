\* Two harts that use the macros twice: a lapped hart never gets out.
SPECIFICATION FairSpec
CONSTANTS
  NHarts = 2
  MAX_HARTS = 2
  Msips <- HartMsips
  MaxRounds = 2
PROPERTY AllResume
CHECK_DEADLOCK FALSE
