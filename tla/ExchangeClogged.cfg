CONSTANTS
  alpha = alpha
  beta = beta
  gamma = gamma
  main = main
  side = side
  Gateways <- ThreeGateways
  Spaces <- OneSpace
  MaxSeq = 1
  Linked <- RelayedLinked
  Audiences <- Everyone
  MaxPosts = 1
  FlushLimit = 1
  PullLimit = 1
  Lossy = FALSE
  MaxCrashes = 0
  MaxExpiries = 1
SPECIFICATION FairSpec
PROPERTY Delivered
