SPECIFICATION AllSpec
CONSTANTS
  None = None
  M = M
  A = A
  B = B
  Makers = {M}
  Strategies = {A, B}
  Signed <- Reports
  Envelope <- ProgramCaps
  Funding <- StartingFunds
  Amounts = {1, 2}
  MaxLifetime = 2
  MaxTime = 4
  X = {X1, X2}
  Y = {Y1, Y2}
  Z = {z1}
  W = {z1, z2}
  z1 = z1
  z2 = z2
  z3 = z3
  z4 = z4
  Docs = {z1, z2, z3}
  N = 2
  Setup <- ThreeSteps
  Cases <- ThreeCases
  Secret <- TwoRules
  Sealed <- ThreeLimits
  Observed <- FourMarkets
  Bps = 10
  Older <- OldReports
  Polling <- OneSource
  Emits <- AllOfIt
SYMMETRY Alike
CHECK_DEADLOCK FALSE
INVARIANTS
  ActiveIsAuthorized
  StoredIsEvidence
  OneProgramPerVersion
  ExecutorRemembers
  StandsOnConsent
  AuthorizationIsBounded
  NothingSkipped
  SessionsAreProven
  NewestInForce
  EvidenceIsSound
  DraftMeansWhatWasSaid
  NameStandsForSigned
PROPERTIES
  ActivationNeedsFreshReport
  SwapsAreAuthorized
  PublishedStays
  AnswerIsInForce
