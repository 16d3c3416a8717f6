\* Two cells, no crash, windows that meet the area.
CONSTANTS
  MO = {m1, m2}
  None = None
  Splits = 2
  CellWidth = 2
  Time = {1, 2, 3}
  MaxTrjSeg = 2
  UpdateCycle = 2
  MaxUploads = 5
  MaxPages = 7
  Crashes = FALSE
  OutsideWindows = FALSE
SPECIFICATION Spec
SYMMETRY Objects
INVARIANTS TypeOK PageCapacity FilterFindsClosed WindowExact InsideExact SavedReachable
PROPERTIES ImplementsIndex
