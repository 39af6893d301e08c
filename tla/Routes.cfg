CONSTANTS
  alpha = alpha
  beta = beta
  gamma = gamma
  NoRoute = NoRoute
  Gateways <- ThreeGateways
  Connecting <- BothToAlpha
  Inviting <- Nobody
  Rotating <- Nobody
  MaxRoutes = 4
  MaxCuts = 0
  MaxRefused = 0
SPECIFICATION Spec
INVARIANT RoutesArePairwise
