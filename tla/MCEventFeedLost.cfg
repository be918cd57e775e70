SPECIFICATION Spec
CONSTANTS
  MaxBlocks = 2
  MaxLogs = 1
  MaxFailures = 1
INVARIANT NothingLost
CHECK_DEADLOCK FALSE
