CONSTANTS
  alpha = alpha
  beta = beta
  gamma = gamma
  main = main
  side = side
  Gateways <- ThreeGateways
  Spaces <- TwoSpaces
  MaxSeq = 2
  Kinds <- AllKinds
  Statuses <- SomeStatuses
  Options = 2
  Threshold = 1
  Rank <- AlphaFirst
  MaxVersion = 2
  MaxEvents = 4
  Scopes <- SomeScopes
SPECIFICATION Spec
INVARIANTS TypeOK RowsAreCurrent SameHistorySameRow NothingSilentlyDropped LastVoteCounts
CHECK_DEADLOCK FALSE
