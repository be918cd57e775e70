SPECIFICATION Spec
CONSTANTS
  p1 = p1
  p2 = p2
  g1 = g1
  gs = gs
  Host = Host
  Vault = Vault
  NoSession = NoSession
  Players = {p1, p2}
  Games = {g1}
  GameStates = {gs}
  Wagers = {1}
  Approvals = {2}
  Amounts = {1}
  StepResults <- MCStepResults
  CapQuotes <- MCCapQuotes
  ForfeitQuotes = {0, 3}
  ActionTimeout = 1
  RandomnessTimeout = 0
  InitialBalance <- MCInitialBalance
  MaxSessions = 2
  MaxStep = 2
  MaxBlock = 2
  MaxBalance = 1
SYMMETRY Symmetry
INVARIANTS
  EscrowBacked SettledExactlyOnce OnlyNewestSnapshotLoads PaidWithinCaps
PROPERTIES
  PulledOnlyByOwnStep VaultLossReserved
