SPECIFICATION Spec
CONSTANTS
  User = {u1, u2}
  MaxRank = 2
  TierTables <- TwoTables
  OnboardingCoins = 32
  CodeCoins = {1}
  CodeMax = {1, 2}
  CodePerUser = {1, 2}
  ComebackCoins = 64
SYMMETRY People
CHECK_DEADLOCK FALSE
INVARIANTS RanksAreGapFree CodeWithinLimits RecordsMatchLedger
