SPECIFICATION BacklogSpec
CONSTANTS
  MaxBlocks = 4
  Span <- OneEach
  Hidden = {}
  StageCapacity = 0
  RowCapacity = 3
  OverflowPolicy = "DropOldest"
  Batch = 1
  MaxSessions = 2
  FlushMayTimeOut = FALSE
  Ids = {1, 2}
  StartUtc <- ClockSetBack
  Rows = {1, 2, 4}
  Height = 2
  WheelStep = 1
  Ranges = 2
  MaxRequests = 3
INVARIANTS
  NoRowVanishes
CHECK_DEADLOCK FALSE
