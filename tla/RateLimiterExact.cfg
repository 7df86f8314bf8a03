CONSTANTS
  None = None
  Worker = {w1, w2}
  Tenant = {a}
  Limit = 2
  MaxMinute = 1
  MaxRequests = 6
SPECIFICATION Spec
CHECK_DEADLOCK FALSE
INVARIANT
  WindowIsExact
