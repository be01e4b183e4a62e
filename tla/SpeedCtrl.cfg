SPECIFICATION FairSpec
CONSTANTS
  Dirs = {"rx"}
  Limited = {"rx"}
  Closers = {c1, c2}
  MaxChunk = 2
  MaxTime = 7
  MaxMoved = 8
  Nobody = Nobody
INVARIANTS
  TypeOK
  RateKept
PROPERTIES
  DieClosedOnce
  CloseEndsCalls
CHECK_DEADLOCK FALSE
