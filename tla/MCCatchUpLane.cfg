SPECIFICATION FairSpec
CONSTANTS
  Fetchers = {f1, f2, f3}
  Sizes = {1, 3}
  Budget = 2
  MaxScans = 2
  ChannelBuffer = 1
  Turns = 2
INVARIANTS
  SlotsBounded
PROPERTIES
  ImplementsBudget
  ScansFinish
