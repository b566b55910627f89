SPECIFICATION Spec
CONSTANTS
  Align = 2
  MaxSize = 11
INVARIANTS
  IssuedDisjoint
  IssuedInBounds
CHECK_DEADLOCK FALSE
