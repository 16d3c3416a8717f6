\* Leaves of up to 2 entries, internal nodes of 3 to 6, two updates,
\* both by merge.
CONSTANTS
  MaxLeaf = 2
  MinLeaf = 1
  MaxInternal = 6
  MinInternal = 3
  InitialSeq = 2
  Percent = 50
  MaxLoaded = 9
  MaxUpdates = 2
  MaxInserts = 0
SPECIFICATION Spec
INVARIANT UpdatesMerged
CHECK_DEADLOCK FALSE
