SPECIFICATION Spec
CONSTANTS
  MAXPROC = 4
  UserSem <- NoSems
  Overrun <- NoSems
  Unit <- NoUnits
  Calls <- KillCalls
  Weights <- Units
  SemInit <- Zero
  Exclusive = TRUE
  NullSlice <- NeverOver
  MaxPid = 4
  MaxVal = 1
INVARIANTS
  SearchOnTrack
