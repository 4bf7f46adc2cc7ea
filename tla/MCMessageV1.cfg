SPECIFICATION V1FairSpec
CONSTANTS
  s1 = s1
  s2 = s2
  s3 = s3
  c1 = c1
  c2 = c2
  c3 = c3
  c4 = c4
  t1 = t1
  other = other
  Streams = {s1, s2, s3}
  Clients = {c1, c2, c3, c4}
  Kind <- MCKind
  Stalling = {s1, s2}
  Requests <- MCRequests
  Topics = {t1, other}
  XmtpTopics = {t1}
  Wildcard = Wildcard
  Backlog = 1
  MaxEnvelopes = 3
  MessageRows <- MCRows
  MaxPageSize = 2
  CleanerBatch = 1
  NoCursor = NoCursor
  Query <- MCQuery
  MaxRows = 3
  Preferences = {t1}
  MaxPreferenceRows = 4
  V1Scenarios <- MCScenarios
INVARIANTS
  PrefixDelivered
  PagesComplete
PROPERTY
  StreamsReturn
