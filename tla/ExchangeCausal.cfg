CONSTANTS
  alpha = alpha
  beta = beta
  gamma = gamma
  main = main
  side = side
  Gateways <- ThreeGateways
  Spaces <- OneSpace
  MaxSeq = 2
  Linked <- RelayedLinked
  Audiences <- Everyone
  MaxPosts = 2
  FlushLimit = 2
  PullLimit = 2
  Lossy = FALSE
  MaxCrashes = 0
  MaxExpiries = 1
SPECIFICATION Spec
INVARIANT NoCopyLost
PROPERTY ImplementsEventLog
