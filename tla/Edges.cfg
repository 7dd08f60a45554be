SPECIFICATION EdgesSpec
CONSTANTS
  Recordings = 2
  StartUtc <- ClockSetBack
  Rows = {1, 2}
  MaxSessions = 1
  RecentCap = 1
  Queries <- AllAndNewest
  MaxFailures = 1
  MaxExits = 2
  Threads = {t1, t2}
  MaxQueuedEvents = 1
  MaxRecentEvents = 2
  NoEvent = NoEvent
  MaxEvents = 3
  Scans <- TwoScans
  Cut = Cut
  MaxAppends = 2
  MaxReloads = 2
  MaxTableFailures = 2
  MaxTasks = 2
  Off = Off
  NoBlock = NoBlock
INVARIANTS
  TypeOK
  
  ResultsKept
  LogComplete
  StreamSound
  BatchesSound
PROPERTIES
  ActsAsStore
CHECK_DEADLOCK FALSE
