CONSTANTS
  Connection = {c1, c2, c3, c4}
  MaxConnections = 2
  PanicUnwinds = TRUE
  None = None
  WorkerCount = 3
  MaxLanes = 4
  Result <- Results
SPECIFICATION MCSpec
INVARIANTS
  ServedWithinLimit
  NoThreadOutlivesCall
PROPERTIES
  RefusedOnlyWhenFull
  SlotsComeBack
  CallEnds
  ImplementsMap
