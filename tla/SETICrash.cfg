\* The process may die at any step; windows may miss the area. One cell.
CONSTANTS
  MO = {m1}
  None = None
  Splits = 1
  CellWidth = 2
  Time = {1, 2, 3, 4}
  MaxTrjSeg = 2
  UpdateCycle = 2
  MaxUploads = 4
  MaxPages = 4
  Crashes = TRUE
  OutsideWindows = TRUE
SPECIFICATION Spec
INVARIANT CountsBacked
