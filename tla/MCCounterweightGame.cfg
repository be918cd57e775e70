SPECIFICATION MCSpec
CONSTANTS
  p1 = p1
  g1 = g1
  Host = Host
  Vault = Vault
  NoSession = NoSession
  Players = {p1}
  Games = {g1}
  GameStates <- MCGameStates
  Wagers = {3}
  Approvals = {6}
  Amounts = {8}
  StepResults <- MCStepResults
  CapQuotes <- MCCapQuotes
  ForfeitQuotes = {0}
  ActionTimeout = 9
  RandomnessTimeout = 1
  InitialBalance <- MCInitialBalance
  MaxSessions = 2
  MaxStep = 2
  MaxBlock = 3
  MaxBalance = 15
  Entropies <- MCEntropies
  Grain = 4
  SampleWagers = {7}
  SampleLimits = {0, 1, 12, 13, 24, 25, 99, 100, 1234, 1236, 4321}
  SampleMultipliers = {99980, 100199, 142545, 198000, 313600, 1336000}
  GameLengths = {0, 1, 260}
  Cuts = {0, 1, 2, 3, 263, 264}
  Extras = {0, 1}
  Q = 7
  CLimit = 3
  None = None
  Router = Router
  OtherRouter = OtherRouter
  Consumer = Consumer
  Nodes = {2, 3}
  First = 2
  FlipWagers = {1, 100}
  FlipProfits = {0, 1, 17, 40}
  NoProbe = NoProbe
INVARIANTS
  EveryOutcomePayable PaysWhatItShows RoundsAgree ReturnsExact LimitsAccepted
  CodecsAgree ProofsSound VerdictTrue CoinflipPriced
PROPERTIES
  RoundsEnd
