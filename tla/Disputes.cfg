SPECIFICATION Spec
CONSTANTS
  Guest = {g1, g2}
  Moderator = {m1, m2}
  JoinCost = 1
  NoShowCoins = 2
  DepositRefund = 3
  Charged = 2
  PerAttendee = 2
  MinAttendees = 2
  RewardRoom = 3
SYMMETRY Alike
CHECK_DEADLOCK FALSE
INVARIANTS ReturnedOnce AbsentHostCostsNobody
