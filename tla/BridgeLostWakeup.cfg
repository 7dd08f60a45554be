SPECIFICATION FairSpec
CONSTANTS
  QueueCapacity = 2
  MaxBlocks = 2
PROPERTIES
  EveryBlockIsServed
