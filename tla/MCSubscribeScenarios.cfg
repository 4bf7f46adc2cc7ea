SPECIFICATION ScenarioSpec
CONSTANTS
  g1 = g1
  g2 = g2
  w1 = w1
  BadTopic = bad
  Topics = {g1, g2, w1}
  WelcomeTopics = {w1}
  Mutates <- AllMutates
  MutateIds = {0, 1, 2}
  UnknownRows = TRUE
  GroupRows = 3
  WelcomeRows = 2
  MaxRows <- RowBounds
  MaxMutates = 3
  Backlog = 1
  MaxPendingBytes = 2
  MaxMutateAdds = 3
  PageLimit = 1
  BatchTopics = 1
  ChannelBuffer = 1
  MaxScans = 1
  MaxCatchUpBytes = 1
INVARIANTS
  RealRows
  DeliveredExactly
  NothingLost
  CatchupIsComplete
  AnsweredOnce
  WaveBooks
  GatesHaveOwners
PROPERTIES
  LiveLaneOrdered
  Seam
