SPECIFICATION FairSpec
CONSTANTS
  g1 = g1
  g2 = g2
  w1 = w1
  BadTopic = bad
  Topics = {g1, w1}
  WelcomeTopics = {w1}
  Mutates <- LiveMutates
  MutateIds = {0, 1, 2}
  UnknownRows = FALSE
  GroupRows = 2
  WelcomeRows = 0
  MaxRows <- RowBounds
  MaxMutates = 2
  Backlog = 1
  MaxPendingBytes = 2
  MaxMutateAdds = 3
  PageLimit = 2
  BatchTopics = 1
  ChannelBuffer = 1
  MaxScans = 1
  MaxCatchUpBytes = 1
PROPERTIES
  WavesComplete
  HalfClosedReturns
