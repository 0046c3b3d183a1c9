SPECIFICATION Spec
CONSTANTS
  alice = alice
  bob = bob
  a = a
  b = b
  Owners = {alice, bob}
  Strategies = {a, b}
  Owner <- TwoOwners
  Terms <- TradeOrPause
  First <- Trade
  Prior <- Pause
  Sources = {"*"}
  MaxTries = 2
  MaxSubs = 2
  MaxMoves = 0
  MaxFlips = 0
  MaxFaults = 1
  MaxInputs = 3
  None = None
CHECK_DEADLOCK FALSE
INVARIANTS LaneExclusive
SYMMETRY OwnerSymmetry
