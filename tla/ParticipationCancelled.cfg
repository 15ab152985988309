SPECIFICATION Spec
CONSTANTS
  g1 = g1  g2 = g2  s1 = s1
  Guest <- TwoGuests
  Seed <- NoSeed
  MaxCapacity = 2
  StartsAt = 2
  EndsAt = 3
  Horizon = 4
  LockWait = 1
  ResponseTime = 2
  JoinMargin = 1
  PromotionTime = 1
  WaitMargin = 1
  MinResponse = 1
  Grace = 1
  SettleDelay = 1
  Early = 1
  Late = 1
  JoinCost = 20
PROPERTIES CancelledIsFinal
CHECK_DEADLOCK FALSE
