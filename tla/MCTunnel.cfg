SPECIFICATION FairSpec
CONSTANTS
  P1 = client
  P2 = server
  UpLen = 2
  DownLen = 1
  Stream <- MCStream
  MaxChunk = 2
  WireCap = 2
  Bufs = {b1, b2}
  NoBuf = NoBuf
INVARIANTS
  TypeOK
  StreamIntegrity
  BufferExclusive
  EofCompletes
PROPERTIES
  EndsForCause
  ImplementsPipes
  TunnelReaped
  GracefulDelivery
CHECK_DEADLOCK FALSE
