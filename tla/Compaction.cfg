SPECIFICATION FairSpec
CONSTANTS
  Calls <- AllCalls
  GridCap = 2
  StrideBlocks = 2
  None = None
INVARIANTS
  CountExact
  OutputExact
  OccurrencesExact
PROPERTY
  Completes
CHECK_DEADLOCK FALSE
