SPECIFICATION FairSpec
CONSTANTS
  i1 = i1
  i2 = i2
  a = a
  b = b
  u1 = u1
  u2 = u2
  b1 = b1
  b2 = b2
  Installations = {i1, i2}
  Packages = {a, b}
  Uploads = {u1, u2}
  Target <- MCTarget
  Sent <- MCSent
  Legacy = {i1, i2}
  First <- MCFirst
  Backfillers = {b1, b2}
  SelectLimit = 1
  BatchSize = 1
  Lifetime = 1
  MaxTime = 2
  NoRow = NoRow
INVARIANTS
  NewestIsLast
PROPERTY
  AllAppended
