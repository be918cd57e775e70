SPECIFICATION Spec
CONSTANTS
  MaxRounds = 2
  MaxSteps = 2
  MaxLogs = 4
  MaxFaults = 1
INVARIANTS
  Converged EchoFresh BetShownOnce
PROPERTIES
  StreamSpec ResultsStay KeepsLanded
CHECK_DEADLOCK FALSE
