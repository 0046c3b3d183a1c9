SPECIFICATION Spec
CONSTANTS
  alice = alice
  bob = bob
  a = a
  b = b
  Owners = {alice}
  Strategies = {a, b}
  Owner <- OneOwner
  Terms <- TradeOrPause
  First <- Trade
  Prior <- Pause
  Sources = {"*"}
  MaxTries = 2
  MaxSubs = 3
  MaxMoves = 2
  MaxFlips = 1
  MaxFaults = 2
  MaxInputs = 3
  None = None
CHECK_DEADLOCK FALSE
INVARIANTS OutcomeIsTrue OrderIsKept Settled
SYMMETRY SwitchSymmetry
