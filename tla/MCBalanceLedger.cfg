SPECIFICATION Spec
CONSTANTS
  r1 = r1
  r2 = r2
  Rounds = {r1, r2}
  Actable = {}
  Stake = 1
  Extra = 1
  Payouts = {1}
  Unknown = Unknown
  Asked = Asked
  ReadsFail = TRUE
  MaxUnmounts = 1
SYMMETRY Symmetry
INVARIANTS
  HiddenUntilRevealed CountedOnce
CHECK_DEADLOCK FALSE
