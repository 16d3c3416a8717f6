\* Two entries per leaf, internal nodes of 2 to 4 entries, three shapes of boxes.
CONSTANTS
  Box <- Boxes
  Unit = 1
  MaxKey = 1
  MaxLeaf = 2
  MinLeaf = 1
  MaxInternal = 4
  MinInternal = 2
  None = None
  MaxLoaded = 9
SPECIFICATION Spec
INVARIANTS TypeOK EntriesKept NodesFilled Balanced LeftEntriesExist CountsMatch WideningEnds
CHECK_DEADLOCK FALSE
