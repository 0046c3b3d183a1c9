SPECIFICATION AllSpec
CONSTANTS
  X1 = X1
  X2 = X2
  Y1 = Y1
  Y2 = Y2
  z1 = z1
  z2 = z2
  z3 = z3
  None = None
SYMMETRY Alike
CHECK_DEADLOCK FALSE
INVARIANTS
  FundedIsStored
  
  ShownIsSelected
  TradeIsAccounted
PROPERTIES
  StepsAreSeen
