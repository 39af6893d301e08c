CONSTANTS
  alpha = alpha
  beta = beta
  letter = letter
  file = file
  agent = agent
  Principals <- Two
  Items <- Things
  Size <- Sizes
  Calls <- AllCalls
  Races <- SomeRaces
  Drift <- AlphaBehindBetaAhead
  Skew = 1
  Retention = 2
  Patience = 1
  DayLength = 2
  RouteLimit = 2
  DailyLimit = 2
  MaxRequests = 2
  Deliveries <- FirstTwice
  MaxClock = 3
  MaxCrashes = 1
SPECIFICATION Spec
INVARIANTS TypeOK ProofAcceptedOnce RouteQuota StoredWasCharged CardsNameOwnRoutes StoredBlobsStay GivenUpRoutesAreDead
PROPERTY RevokedGainsNothing
CHECK_DEADLOCK FALSE
