SPECIFICATION JanitorSpec
CONSTANTS
  Procs = {p1, p2}
  Keys = {k1}
  Entries = {e1, e2, e3}
  None = None
  MaxTokens = 1
  Rate = 1
  Costs = {1}
  TicksPerMinute = 2
  ExpiresAfter = 1
  MaxStall = 1
INVARIANTS
  OneEntry
  NeverOverspent
PROPERTY
  IdleEntriesGo
