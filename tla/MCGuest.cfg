SPECIFICATION FairSpec
CONSTANTS
  MaxRounds = 2
  MaxReloads = 1
INVARIANTS
  RevealedOnce OneRoundLocked WinsRevealed
PROPERTIES
  RevealsWhatItShows RoundsComplete
CHECK_DEADLOCK FALSE
