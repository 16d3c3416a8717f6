CONSTANTS
  UnitBox <- TwoBoxes
  Trj = {1, 2}
  NoTrj = 0
  LeafMax = 3
  InnerMax = 3
  InnerMin = 2
  MaxEntries = 4
SPECIFICATION Spec
INVARIANT LoadedInTree
CHECK_DEADLOCK FALSE
