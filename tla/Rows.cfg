SPECIFICATION SpecOfOne
CONSTANTS
  MaxBlocks = 3
  Span <- Overlapping
  Hidden = {2}
  StageCapacity = 1
  RowCapacity = 2
  OverflowPolicy = "DropNewest"
  Batch = 1
  MaxSessions = 2
  FlushMayTimeOut = FALSE
  Ids = {1, 2}
  StartUtc <- ClockSetBack
  Rows = {1, 2, 4}
  Height = 2
  WheelStep = 1
  Ranges = 2
  MaxRequests = 3
INVARIANTS
  TypeOK
  SamplesAccounted
  RowsBelong
  StoredInTimeOrder
  ViewShowsStore
  TimelineConnected
PROPERTIES
  FlushedStopSettles
  LoadingEnds
CHECK_DEADLOCK FALSE
