SPECIFICATION FairSpec
CONSTANTS
  alice = alice
  bob = bob
  a = a
  b = b
  Owners = {alice}
  Strategies = {a, b}
  Owner <- OneOwner
  Terms <- TradeOrPause
  First <- Trade
  Prior <- Pause
  Sources = {"*"}
  MaxTries = 2
  MaxSubs = 1
  MaxMoves = 0
  MaxFlips = 0
  MaxFaults = 1
  MaxInputs = 2
  None = None
CHECK_DEADLOCK FALSE
PROPERTY ClaimsResolve
