SPECIFICATION Spec
CONSTANTS
  MAXPROC = 3
  UserSem <- OneSem
  Overrun <- NoSems
  Unit <- NoUnits
  Calls <- SemClock
  Weights <- Pairs
  SemInit <- Zero
  Exclusive = TRUE
  NullSlice <- NeverOver
  MaxPid = 3
  MaxVal = 2
INVARIANTS
  TypeOK
  NoSemdLost
  NoLostWakeup
  SoftExact
  IdleJustified
  ClockCovered
PROPERTIES
  UnitsServed
