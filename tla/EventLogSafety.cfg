CONSTANTS
  alpha = alpha
  beta = beta
  gamma = gamma
  main = main
  side = side
  Gateways <- ThreeGateways
  Spaces <- TwoSpaces
  MaxSeq = 2
  Linked <- StarLinked
  Audiences <- WithAsides
  MaxPosts = 3
  MaxCrashes = 1
SPECIFICATION Spec
INVARIANTS TypeOK AuthorPrefix NothingUnsigned CausallyClosed NoCausalCycle NoSequenceConflict
PROPERTY LogsAreImmutable
CHECK_DEADLOCK FALSE
