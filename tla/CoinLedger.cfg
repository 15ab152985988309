SPECIFICATION Spec
CONSTANTS
  e1 = e1  e2 = e2  p1 = p1  p2 = p2
  Process <- TwoProcesses
  Wallet <- Wallets
  Score <- Scores
  Gate <- Gates
  Cause <- Causes
  Mark <- Marks
  Job <- Everyday
  MaxScore = 2
  InitialScore = 1
  OnboardingCoins = 6
  CreateCoins = 3
  JoinCoins = 2
  RewardCoins = 2
  FineCoins = 5
  FineTrust = 2
INVARIANTS TypeOK BalanceIsLedger OncePerKey ReversalsMirror NoWaitCycle
PROPERTY IsSerial
