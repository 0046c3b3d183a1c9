SPECIFICATION FairSpec
CONSTANTS
  a = a
  l1 = l1
  l2 = l2
  Order <- OneSource
  Logs = {l1, l2}
  Emitter <- AllOfIt
  Confirmations = 1
  BlockRange = 1
  MaxRanges = 2
  Depth = 2
  MaxHeight = 3
  MaxReorgs = 0
  MaxFails = 1
  MaxStops = 1
  None = None
CHECK_DEADLOCK FALSE
PROPERTIES
  EventIsIngested
