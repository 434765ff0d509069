\* The relay process: overlapping writes, UDP packets, and an interrupt at any time.
SPECIFICATION FairSpec
CONSTANTS
  Requests = {"w1", "w2", "g", "p", "n", "u"}
  Kind <- MCKind
  HttpBackends = {"plain", "buffered"}
  Buffering = {"buffered"}
  Buffers = {1, 2}
  None = None
  Packets = {"a", "b", "c", "e"}
  Lines <- MCLines
  Unparsable = {"c"}
  UdpBackends <- MCUdpBackends
  MTU <- MCMTU
  QueueSize = 2
  Traffic <- MCTraffic
  RelayNames <- MCNames
INVARIANTS TypeOK AnswersTrue BytesStable DatagramsSound Drained
PROPERTIES Released StopEnds
CHECK_DEADLOCK FALSE
