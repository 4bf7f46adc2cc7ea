SPECIFICATION FairSpec
CONSTANTS
  n1 = n1
  n2 = n2
  x1 = x1
  x2 = x2
  Nodes = {n1, n2}
  Executors = {x1, x2}
  Tables = {"group_messages", "key_packages"}
  Rows <- MCRows
  Old <- MCOld
  Owner <- MCOwner
  Commits = {2}
  Unclassified = {1, 2}
  Scenarios <- MCScenarios
  MaxPayload = 2
  SelectLimit = 2
  BatchSize = 1
  MaxCycles = 2
INVARIANTS
  CommitsKept
  RunReports
PROPERTIES
  AllClassified
  ShutdownCompletes
