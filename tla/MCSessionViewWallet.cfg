SPECIFICATION Spec
CONSTANTS
  MaxRounds = 1
  MaxSteps = 2
  MaxLogs = 4
  MaxFaults = 1
PROPERTIES
  AlwaysForward
CHECK_DEADLOCK FALSE
