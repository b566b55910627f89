SPECIFICATION Spec
CONSTANTS
  N = 4
  MaxInputs = 2
INVARIANTS
  TopoOrder
  PrunedIsExact
  HooksExact
PROPERTIES
  NoLateGradient
CHECK_DEADLOCK FALSE
