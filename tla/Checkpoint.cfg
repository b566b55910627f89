SPECIFICATION Spec
CONSTANTS
  Leaves = 2
  MaxVars = 4
  MaxSegments = 2
  MaxOps = 1
  MayRepeat = FALSE
  MayPassThrough = FALSE
  MayReachListed = FALSE
  MayBeConstant = FALSE
  MayFreeze = FALSE
INVARIANTS
  Transparent
CHECK_DEADLOCK FALSE
