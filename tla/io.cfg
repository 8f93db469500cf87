SPECIFICATION Spec
CONSTANTS
  MAXPROC = 3
  UserSem <- NoSems
  Overrun <- NoSems
  Unit <- DiskTerms
  Calls <- IoCalls
  Weights <- Units
  SemInit <- Zero
  Exclusive = TRUE
  NullSlice <- NeverOver
  MaxPid = 3
  MaxVal = 1
INVARIANTS
  OwnerWaits
  NoLostIo
  OwnStatus
PROPERTIES
  IoDevopWaits
