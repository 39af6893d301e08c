CONSTANTS
  alpha = alpha
  beta = beta
  gamma = gamma
  main = main
  Gateways <- ThreeMembers
  Spaces <- OneSpace
  MaxSeq = 2
  Founders <- AlphaLeads
  Leads <- AlphaAndBetaLead
  Targets <- GammaGoes
  Thresholds <- Two
  MaxKeys = 3
  MaxEvents = 3
  MaxCrashes = 1
SPECIFICATION Spec
INVARIANTS TypeOK KeyFixesMembership RemovedAreLockedOut RemovalsAreBacked
PROPERTY RemovalsAreFinal
CHECK_DEADLOCK FALSE
