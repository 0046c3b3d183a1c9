SPECIFICATION FairSpec
CONSTANTS
  None = None
  r1 = r1
  r2 = r2
  r3 = r3
  s1 = s1
  s2 = s2
  A = A
  B = B
  Requests = {r1, r2}
  Sessions = {s1, s2}
  Strategies = {A, B}
  Bodies <- SharedStrategy
  TokenCount = 1
  MaxNonce = 12
  MaxExternal = 0
  Forgetful = FALSE
PROPERTIES
  RequestsConclude
CHECK_DEADLOCK FALSE
