SPECIFICATION FairSpec
CONSTANTS
  MaxBlocks = 2
  MaxLogs = 2
  MaxFailures = 2
INVARIANTS
  DeliveredOnce LostOnlyUnstamped ReplayInOrder
PROPERTIES
  LogsArrive
CHECK_DEADLOCK FALSE
