SPECIFICATION Spec
CONSTANTS
  MaxRounds = 1
  MaxReloads = 0
INVARIANT
  PayoutsRevealed
CHECK_DEADLOCK FALSE
