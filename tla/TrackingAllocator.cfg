SPECIFICATION Spec
CONSTANTS
  Owners = {o1, o2, o3}
  Ptrs = {p1, p2, p3}
  Sizes = {1, 3}
  MaxAllocations = 4
  NoOwner = NoOwner
  Null = Null
INVARIANTS
  InnerIsOwned
  CountsExact
PROPERTIES
  ResetFreesNothing
SYMMETRY Symmetry
