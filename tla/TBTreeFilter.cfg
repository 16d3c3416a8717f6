CONSTANTS
  UnitBox <- UnitBoxes
  Trj = {1, 2}
  NoTrj = 0
  LeafMax = 3
  InnerMax = 2
  InnerMin = 1
  MaxEntries = 4
  Query <- Queries
  NoQuery = NoQuery
SPECIFICATION FilterSpec
INVARIANTS BoxesCover FilterComplete YieldedOnce YieldedWanted
CHECK_DEADLOCK FALSE
