CONSTANTS
  x = x
  y = y
  Empty = Empty
  Register = {x, y}
  Errors <- ExtremeErrors
  MaxSteps = 3
  w1 = w1
  w2 = w2
  w3 = w3
  w4 = w4
  Wire = {w1, w2, w3, w4}
  NotIssued = NotIssued
  MaxEntries = 3
  MaxBatch = 2
  MaxRegistryRequests = 4
  N = 2
  T = 3
  Q = 1309
  Eta = 1
  Base = 2
  Digits = 1
SYMMETRY Symmetry
SPECIFICATION MCSpec
CHECK_DEADLOCK FALSE
INVARIANTS
  BoundIsSound
  DecryptsExactly
  CapacityPromiseIsKept
  RegistryIsWorstDelivered
