\* Leaves of up to 2 entries, internal nodes of 3 to 6, two updates,
\* one of which may be an insertion.
CONSTANTS
  MaxLeaf = 2
  MinLeaf = 1
  MaxInternal = 6
  MinInternal = 3
  InitialSeq = 2
  Percent = 50
  MaxLoaded = 9
  MaxUpdates = 2
  MaxInserts = 1
SPECIFICATION Spec
INVARIANTS TypeOK EntriesKept EntriesFound Balanced NodesCounted
CHECK_DEADLOCK FALSE
