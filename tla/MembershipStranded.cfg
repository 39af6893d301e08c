CONSTANTS
  alpha = alpha
  beta = beta
  gamma = gamma
  main = main
  Gateways <- ThreeMembers
  Spaces <- OneSpace
  MaxSeq = 2
  Founders <- AlphaLeads
  Leads <- AlphaLeads
  Targets <- GammaGoes
  Thresholds <- One
  MaxKeys = 2
  MaxEvents = 3
  MaxCrashes = 0
SPECIFICATION Spec
INVARIANT NobodyStranded
