CONSTANTS
  w1 = w1
  w2 = w2
  s1 = s1
  s2 = s2
  a = a
  b = b
  reaper = reaper
  None = None
  Worker <- TwoWorkers
  Reaper <- reaper
  SessionId <- TwoSessions
  Tenant <- TwoTenants
  MaxSessions = 1
  Ttl = 1
  PanicUnwinds = TRUE
  MaxClock = 3
  MaxRequests = 3
SYMMETRY Symmetry
SPECIFICATION Spec
INVARIANTS
  NoUseAfterRemove
PROPERTIES
  RemovedForCause
  PoisonFailsClosed
  ImplementsDirectory
