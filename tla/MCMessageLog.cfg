SPECIFICATION Spec
CONSTANTS
  g1 = g1
  g2 = g2
  a = a
  b = b
  r1 = r1
  r2 = r2
  r3 = r3
  Topics = {g1, g2}
  Data = {a, b}
  Requests = {r1, r2, r3}
  Messages <- RetryMessages
  NumRows = 2
  PageSize = 1
INVARIANTS
  TopicOrder
  ReaderComplete
  StoredOnce
  PollerComplete
