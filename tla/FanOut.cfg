SPECIFICATION BothSpec
CONSTANTS
  NumStages = 2
  Parallel = TRUE
  Policy <- OneOfEach
  PoolSize = 2
  QueueCapacity = 1
  StageCapacity = 1
  DropDepth = 1
  AcceptOnStart = TRUE
  MaxBlocks = 3
INVARIANTS
  CountersExact
  ServiceOrder
  FlushAndStopComplete
PROPERTIES
  FlushTimeoutJustified
  DeliversBlocks
