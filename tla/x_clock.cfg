SPECIFICATION FairSpec
CONSTANTS
  MAXPROC = 2
  UserSem <- NoSems
  Overrun <- NoSems
  Unit <- NoUnits
  Calls <- ClockCalls
  Weights <- Units
  SemInit <- Zero
  Exclusive = TRUE
  NullSlice <- NeverOver
  MaxPid = 2
  MaxVal = 3
PROPERTIES
  WaitClockBlocks
