SPECIFICATION FairSpec
CONSTANTS
  PingHosts = 2
  HttpHosts = 1
  PingMax = 1
  HttpMax = 2
  PingIntv = 2
  Pdr = 7
  MayFail = TRUE
INVARIANTS
  TypeOK
  IsolatedFailureSpared
  PowersOffInTime
PROPERTY NoNetworkPowersOff
CHECK_DEADLOCK FALSE
