SPECIFICATION TestFair
CONSTANTS
  MAXPROC = 20
  UserSem <- Names
  Overrun <- NoSems
  Unit <- Terminal
  Calls <- SYS
  Weights <- Given
  SemInit <- Zeros
  Exclusive = FALSE
  NullSlice <- NotOver
  MaxPid = 60
  MaxVal = 8
  CHARS = 1
  RUNS = 2
  Sliced <- Child2
  MaxSlices = 1
INVARIANTS
  TestPasses
  TerminalShared
  LockKept
  KillHits
  FamilyDies
PROPERTIES
  TestEnds
