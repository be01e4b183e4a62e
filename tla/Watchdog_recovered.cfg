SPECIFICATION Spec
CONSTANTS
  PingHosts = 2
  HttpHosts = 1
  PingMax = 1
  HttpMax = 2
  PingIntv = 2
  Pdr = 7
  MayFail = FALSE
PROPERTY OnlyWithoutNetwork
CHECK_DEADLOCK FALSE
