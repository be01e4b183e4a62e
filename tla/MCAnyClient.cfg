SPECIFICATION FairSpec
CONSTANTS
  BufLen = 24
  HeadMax = 5
  EchoMax = 2
  CONNECT = 67
  NoMethod = 0
  NoPort = NoPort
  Url <- MCUrl
  Greetings <- MCGreetings
  Requests <- MCRequests
  Heads <- MCHeads
  Says <- MCSays
  TargetSays <- MCTargetSays
  NoDial = NoDial
INVARIANTS
  AnswersFit
  TargetIsServed
  ServerSurvives
  EchoReturns
PROPERTIES
  LeavingReleases
CHECK_DEADLOCK FALSE
