SPECIFICATION Spec
CONSTANTS
  MAXPROC = 2
  UserSem <- NoSems
  Overrun <- NoSems
  Unit <- Terminal
  Calls <- IoCalls
  Weights <- Units
  SemInit <- Zero
  Exclusive = TRUE
  NullSlice <- NeverOver
  MaxPid = 2
  MaxVal = 1
INVARIANTS
  NoLostIo
