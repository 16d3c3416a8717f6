CONSTANTS
  UnitBox <- TwoBoxes
  Trj = {1, 2}
  NoTrj = 0
  LeafMax = 3
  InnerMax = 3
  InnerMin = 2
  MaxEntries = 5
SPECIFICATION Spec
INVARIANTS TypeOK UnitsKept Balanced NodesFilled ChainsInOrder
CHECK_DEADLOCK FALSE
