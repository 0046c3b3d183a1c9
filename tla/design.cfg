SPECIFICATION FairSpec
CONSTANTS
  Turns = {t1, t2}
  Doers = {w1, w2}
  Requests = {q1}
  Jobs = {j1, j2}
  Runners = {v1, v2}
  MaxAsked = 2
  MaxAttempts = 2
  MaxRevision = 2
  EventBudget = 2
  User = User
  None = None
CHECK_DEADLOCK FALSE
INVARIANTS
  WorkIsCurrent
  TranscriptIsOrderly
PROPERTIES
  EvidenceIsFresh
  WorkConcludes
