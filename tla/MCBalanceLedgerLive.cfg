SPECIFICATION FairSpec
CONSTANTS
  r1 = r1
  r2 = r2
  Rounds = {r1}
  Actable = {r1}
  Stake = 1
  Extra = 1
  Payouts = {0, 1}
  Unknown = Unknown
  Asked = Asked
  ReadsFail = FALSE
  MaxUnmounts = 0
INVARIANT
  TrackedHolds
PROPERTY
  Reconciles
CHECK_DEADLOCK FALSE
