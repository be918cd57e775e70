SPECIFICATION MCSpec
CONSTANTS
  Parts = {"stack", "coinflip"}
  FileCount = 2
  Revisions = {"one", "both", "broken"}
  Broken = {"broken"}
  GamesIn <- MCGamesIn
  MaxEvents = 3
  MaxFetches = 1
  MaxBets = 2
  MaxRemounts = 2
  MaxWire = 2
  Nothing = Nothing
INVARIANTS
  OneRuntime ListedWhole ShowsItsSession
PROPERTIES
  StackComesUp RoundsFinish
CHECK_DEADLOCK FALSE
