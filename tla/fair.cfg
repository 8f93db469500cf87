SPECIFICATION FairSpec
CONSTANTS
  MAXPROC = 2
  UserSem <- OneSem
  Overrun <- OneSem
  Unit <- Disk
  Calls <- AllCalls
  Weights <- DownNone
  SemInit <- Zero
  Exclusive = FALSE
  NullSlice <- MayBeOver
  MaxPid = 3
  MaxVal = 2
INVARIANTS
  OnePlace
  NoFalseDeadlock
PROPERTIES
  ReadyRuns
  AwaitedComes
