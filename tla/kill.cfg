SPECIFICATION FairSpec
CONSTANTS
  MAXPROC = 3
  UserSem <- OneSem
  Overrun <- NoSems
  Unit <- NoUnits
  Calls <- SemKill
  Weights <- Units
  SemInit <- Zero
  Exclusive = TRUE
  NullSlice <- NeverOver
  MaxPid = 4
  MaxVal = 1
INVARIANTS
  OnePlace
  AslConsistent
  OrphanFree
  PidsDistinct
  CountMatches
  AllocSucceeds
PROPERTIES
  HandlersReturn
