CONSTANTS
  alpha = alpha
  beta = beta
  gamma = gamma
  main = main
  Gateways <- ThreeMembers
  Spaces <- OneSpace
  MaxSeq = 2
  Founders <- AlphaLeads
  Leads <- AlphaAndBetaLead
  Targets <- GammaGoes
  Thresholds <- Two
  MaxKeys = 3
  MaxEvents = 4
  MaxCrashes = 0
SPECIFICATION Spec
INVARIANT OneKeyPerEpoch
