SPECIFICATION LiveSpec
CONSTANTS
  NumStages = 2
  Parallel = TRUE
  Policy <- FirstLatestOnly
  PoolSize = 2
  QueueCapacity = 2
  StageCapacity = 1
  DropDepth = 1
  AcceptOnStart = TRUE
  MaxBlocks = 2
INVARIANTS
  TypeOK
  PoolAccounting
PROPERTIES
  BlocksComeToRest
  StopReturns
