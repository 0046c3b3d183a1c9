SPECIFICATION SteadySpec
CONSTANTS
  alice = alice
  bob = bob
  a = a
  b = b
  Owners = {alice, bob}
  Strategies = {a, b}
  Owner <- TwoOwners
  Terms <- TradeOrPause
  First <- Trade
  Prior <- Pause
  Sources = {"*"}
  MaxTries = 2
  MaxSubs = 3
  MaxMoves = 2
  MaxFlips = 0
  MaxFaults = 2
  MaxInputs = 2
  None = None
CHECK_DEADLOCK FALSE
PROPERTY ComesToRest
