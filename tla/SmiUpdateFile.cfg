SPECIFICATION Spec
CONSTANTS
  Proc = {p1, p2}
  MaxPages = 1
  MaxChanges = 3
  MaxCount = 1
SYMMETRY Processes
INVARIANTS TypeOK CountRight HeldChangesStay ChangedPagesStay
PROPERTY LastCloseWrites
CHECK_DEADLOCK FALSE
