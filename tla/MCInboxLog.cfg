SPECIFICATION Spec
CONSTANTS
  x1 = x1
  x2 = x2
  a1 = a1
  a2 = a2
  p1 = p1
  p2 = p2
  p3 = p3
  p4 = p4
  Inboxes = {x1, x2}
  Addresses = {a1, a2}
  Callers = {p1, p2, p3, p4}
  Update <- RaceUpdates
  MaxEntries = 3
  NumRetries = 2
INVARIANTS
  StoredOnce
  ValidatedInOrder
  AddressLogAgrees
