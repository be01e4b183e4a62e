SPECIFICATION Spec
CONSTANTS
  Worker = {w1, w2}
  Base = 2
  Bs = 0
  Be = 2
  NoKey = NoKey
INVARIANT TriesAll
CHECK_DEADLOCK FALSE
