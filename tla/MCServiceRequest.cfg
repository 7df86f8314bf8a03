CONSTANTS
  w1 = w1
  w2 = w2
  w3 = w3
  a = a
  b = b
  x = x
  y = y
  i = i
  d = d
  s1 = s1
  s2 = s2
  c1 = c1
  c2 = c2
  None = None
  NoToken = NoToken
  Malformed = Malformed
  Worker = {w1, w2}
  Tenant = {a, b}
  Token = {x, y, i, d}
  SessionId = {s1, s2}
  Wire = {c1, c2}
  Configurations <- Environments
  Limit = 1
  MaxMinute = 2
  MaxRequests = 6
  MaxSessions = 2
SYMMETRY Symmetry
SPECIFICATION ServiceSpec
CHECK_DEADLOCK FALSE
INVARIANTS
  OvershootIsBounded
  PlaintextsStayHome
PROPERTY
  RefusedOnlyAtLimit
