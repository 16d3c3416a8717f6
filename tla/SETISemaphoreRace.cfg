\* Two processes that both insert, update, search and open the index.
CONSTANTS
  Proc = {v, w}
  Updaters = {v, w}
  Polls = 1
  MaxVersion = 1
SPECIFICATION FairSpec
INVARIANTS TypeOK FileConsistent FlagHasOwner
PROPERTIES UpdatePublishes OperationsReturn LockedFileReleased
