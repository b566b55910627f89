SPECIFICATION FairSpec
CONSTANTS
  NRows = 4
  NCols = 4
  Graphs <- AllGraphs
  Nil = Nil
  Inf = Inf
INVARIANTS
  ArraysAgree
  Maximum
  StackClimbs
PROPERTIES
  PathsGrow
  Terminates
