SPECIFICATION FairSpec
CONSTANTS
  QueueCapacity = 2
  MaxBlocks = 4
INVARIANTS
  TypeOK
  CountersConserved
  FlushComplete
  DrainedCloseIsLossless
  NoOvertaking
PROPERTIES
  NobodyWaitsForEver
