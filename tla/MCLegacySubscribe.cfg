SPECIFICATION FairSpec
CONSTANTS
  a = a
  b = b
  Topics = {a, b}
  Requests <- MixedRequests
  PageSize = 2
  Backlog = 1
  Faults <- AllFaults
  MaxFaults = 2
  MaxRows = 3
  MaxUnknown = 1
INVARIANTS
  NoGap
  SentIsPrefix
PROPERTIES
  AllArrive
  StreamReturns
