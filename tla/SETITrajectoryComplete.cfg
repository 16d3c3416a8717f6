\* Three cells: pieces meet out of order.
CONSTANTS
  MO = {m1, m2}
  None = None
  Splits = 3
  CellWidth = 2
  Time = {1, 2, 3}
  MaxTrjSeg = 2
  UpdateCycle = 2
  MaxUploads = 6
  MaxPages = 9
  Crashes = FALSE
  OutsideWindows = FALSE
SPECIFICATION Spec
CHECK_DEADLOCK FALSE
INVARIANT TrajectoryComplete
