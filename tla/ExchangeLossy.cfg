CONSTANTS
  alpha = alpha
  beta = beta
  gamma = gamma
  main = main
  side = side
  Gateways <- TwoGateways
  Spaces <- OneSpace
  MaxSeq = 2
  Linked <- FullyLinked
  Audiences <- Everyone
  MaxPosts = 2
  FlushLimit = 2
  PullLimit = 1
  Lossy = TRUE
  MaxCrashes = 1
  MaxExpiries = 0
SPECIFICATION FairSpec
INVARIANTS TypeOK NoCopyLost AcceptedIsLogged NothingRejected
PROPERTIES ImplementsEventLog Delivered
