SPECIFICATION Spec
CONSTANTS
  MaxRounds = 1
  MaxReloads = 0
INVARIANT
  PlayedOnce
CHECK_DEADLOCK FALSE
