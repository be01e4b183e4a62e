SPECIFICATION FairSpec
CONSTANTS
  Worker = {w1, w2}
  Base = 2
  Bs = 0
  Be = 2
  NoKey = NoKey
INVARIANTS
  TypeOK
  KeysTried
  PanicOnlyAtTheEnd
PROPERTY Ends
CHECK_DEADLOCK FALSE
