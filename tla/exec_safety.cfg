SPECIFICATION Spec
CONSTANTS
  None = None
  r1 = r1
  r2 = r2
  r3 = r3
  s1 = s1
  s2 = s2
  A = A
  B = B
  Requests = {r1, r2, r3}
  Sessions = {s1, s2}
  Strategies = {A, B}
  Bodies <- TwoSessions
  TokenCount = 1
  MaxNonce = 12
  MaxExternal = 1
  Forgetful = TRUE
SYMMETRY RequestSymmetry
INVARIANTS
  OncePerStep
  ResultIsFinal
  SessionFollowsChain
  BreachSettled
PROPERTIES
  StopsForGood
  KeepsPromise
CHECK_DEADLOCK FALSE
