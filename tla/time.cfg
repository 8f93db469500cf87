SPECIFICATION FairSpec
CONSTANTS
  Proc <- OneProc
  WORD = 11
  SCHED_TIME_SLICE = 2
  SCHED_PSEUDO_CLOCK = 4
  LATENCY = 1
  HANDLER = 1
  MaxTime = 3
INVARIANTS
  LeftBracketed
  TickOnTime
  TimesBracketed
  OverrunBounded
PROPERTIES
  TicksRecur
  SliceEnds
