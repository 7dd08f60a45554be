SPECIFICATION OverloadSpec
CONSTANTS
  NumStages = 2
  Parallel = TRUE
  Policy <- Overloaded
  PoolSize = 2
  QueueCapacity = 1
  StageCapacity = 2
  DropDepth = 2
  AcceptOnStart = TRUE
  MaxBlocks = 3
INVARIANTS
  OverloadSound
PROPERTIES
  DeliversBlocks
