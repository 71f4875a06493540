SPECIFICATION FairSpec
CONSTANTS
  MaxPending = 2
  Kinds <- MCKinds
  Clocks <- MCClocks
  MaxBuilt = 4
INVARIANTS
  TypeOK
  IngestedOnceInOrder
  BufferResumes
  NeverReplayed
PROPERTIES
  OnlySettledDropped
  ImplementsFeed
  BufferDrains
CHECK_DEADLOCK FALSE
