\* Two processes that both insert and update.
CONSTANTS
  Proc = {v, w}
  Updaters = {v, w}
  Polls = 1
  MaxVersion = 2
SPECIFICATION Spec
INVARIANT AllWritten
