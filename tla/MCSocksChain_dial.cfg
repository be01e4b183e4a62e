SPECIFICATION ChainSpec
CONSTANTS
  BufLen = 24
  Asks <- MCAsks
  RawSays <- MCRawSays
  TargetSays <- MCTargetSays
  NoDial = NoDial
INVARIANT DialsHoweverCutUp
CHECK_DEADLOCK FALSE
