SPECIFICATION Spec
CONSTANTS
  Cpus <- MCCpus
  Devs = {eth0}
  W = 4
  MaxStep = 1
INVARIANTS
  TypeOK
  DeltaIsTraffic
  RatesSane
CHECK_DEADLOCK FALSE
