SPECIFICATION Spec
CONSTANTS
  MAXPROC = 3
  Addr <- ThreeAddrs
  MaxCalls = 9
INVARIANTS
  TypeOK
  AslSorted
  SearchFinds
PROPERTIES
  ListsAreSequences
