SPECIFICATION FairSpec
CONSTANTS
  approve = approve
  ship = ship
  Steps = {approve, ship}
  After <- ApproveFirst
  Once = {ship}
  Other = Other
  Tabs = {b1}
  Checks = {c1}
  MaxNonce = 2
  MaxRows = 2
  MaxReorgs = 2
  MaxOwn = 1
  PoolSeen = TRUE
  Unsent = Unsent
  None = None
CHECK_DEADLOCK FALSE
INVARIANTS
  SentOnce
  OutcomeIsCanonical
PROPERTIES
  PendingIsSettled
