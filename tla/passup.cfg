SPECIFICATION Spec
CONSTANTS
  Proc <- TwoProcs
  Kind <- Kinds
  Specifiable <- ByFirst
  MaxPid = 3
INVARIANTS
  OwnStates
PROPERTIES
  ExceptionsNest
