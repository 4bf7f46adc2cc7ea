SPECIFICATION TransportFairSpec
CONSTANTS
  QueueDepth = 1
  RequestBuffer = 1
  PingInterval = 1
  PongDeadline = 1
  Sends <- ClientRequests
INVARIANTS
  OkMeansDelivered
PROPERTIES
  NonReaderReaped
  HalfCloseEnds
