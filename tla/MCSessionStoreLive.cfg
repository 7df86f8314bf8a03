CONSTANTS
  w1 = w1
  w2 = w2
  s1 = s1
  s2 = s2
  a = a
  b = b
  reaper = reaper
  None = None
  Worker <- TwoWorkers
  Reaper <- reaper
  SessionId <- TwoSessions
  Tenant <- OneTenant
  MaxSessions = 2
  Ttl = 1
  PanicUnwinds = TRUE
  MaxClock = 2
  MaxRequests = 2
SPECIFICATION FairSpec
PROPERTIES
  EveryRequestAnswered
  DueIsReaped
