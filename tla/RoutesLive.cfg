CONSTANTS
  alpha = alpha
  beta = beta
  gamma = gamma
  NoRoute = NoRoute
  Gateways <- TwoGateways
  Connecting <- Nobody
  Inviting <- EachToTheOther
  Rotating <- BetaToAlpha
  MaxRoutes = 3
  MaxCuts = 1
  MaxRefused = 1
SPECIFICATION FairSpec
INVARIANTS TypeOK AddressesAreServed ControlsStayReachable UsedRoutesRetired
PROPERTY AcceptanceComesBack
