SPECIFICATION FairSpec
CONSTANTS
  Ticks = {t1}
  Intents = {i1, i2}
  Others = {o1}
  MaxRebalances = 1
  None = None
CHECK_DEADLOCK FALSE
PROPERTIES
  IntentConcludes
