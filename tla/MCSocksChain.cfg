SPECIFICATION FairChainSpec
CONSTANTS
  BufLen = 24
  Asks <- MCAsks
  RawSays <- MCRawSays
  TargetSays <- MCTargetSays
  NoDial = NoDial
INVARIANTS
  TypeOK
  HandshakeAgrees
PROPERTIES
  EndToEnd
  SessionEnds
CHECK_DEADLOCK FALSE
