SPECIFICATION FairSpec
CONSTANTS
  Ranks = {1, 2}
  g = g
  x = x
  Buffers = {g, x}
  Buckets = {g}
  NoBuffer = NoBuffer
  Failing = {"wait", "copy", "sync"}
  Order <- ReduceThenMeet
  Script <- TwoRanks
INVARIANTS
  EventsHeld
  BarrierSeparates
PROPERTIES
  CopyExact
  AllComplete
CHECK_DEADLOCK FALSE
