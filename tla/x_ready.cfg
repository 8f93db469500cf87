SPECIFICATION Spec
CONSTANTS
  MAXPROC = 2
  UserSem <- OneSem
  Overrun <- NoSems
  Unit <- NoUnits
  Calls <- SemKill
  Weights <- Units
  SemInit <- Zero
  Exclusive = TRUE
  NullSlice <- NeverOver
  MaxPid = 2
  MaxVal = 1
INVARIANTS
  ReadyIsLive
