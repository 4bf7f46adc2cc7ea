SPECIFICATION Spec
CONSTANTS
  g1 = g1
  g2 = g2
  w1 = w1
  BadTopic = bad
  Topics = {g1}
  WelcomeTopics = {}
  Mutates <- StaleMutates
  MutateIds = {0, 1, 2}
  UnknownRows = FALSE
  GroupRows = 2
  WelcomeRows = 0
  MaxRows <- RowBounds
  MaxMutates = 3
  Backlog = 2
  MaxPendingBytes = 2
  MaxMutateAdds = 3
  PageLimit = 1
  BatchTopics = 1
  ChannelBuffer = 2
  MaxScans = 1
  MaxCatchUpBytes = 1
INVARIANTS
  CatchupIsComplete
