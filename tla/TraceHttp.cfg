SPECIFICATION FairSpec
CONSTANTS
  Racers = {v6, v4}
  MaxHops = 2
  DialTimeout = 2
  Aged = 3
INVARIANTS
  TypeOK
  TimesHonest
PROPERTIES
  KeepsReporting
