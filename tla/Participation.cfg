SPECIFICATION FairSpec
CONSTANTS
  g1 = g1  g2 = g2  s1 = s1
  Guest <- TwoGuests
  Seed <- OneSeed
  MaxCapacity = 2
  StartsAt = 2
  EndsAt = 3
  Horizon = 4
  LockWait = 1
  ResponseTime = 2
  JoinMargin = 1
  PromotionTime = 1
  WaitMargin = 1
  MinResponse = 1
  Grace = 1
  SettleDelay = 1
  Early = 2
  Late = 1
  JoinCost = 20
INVARIANTS TypeOK SeatsCounted CapacityRespected ChargeFollowsOutcome
PROPERTIES AskedWithinCapacity QueueIsServed FinesNeedASeat EveryRequestIsAnswered EverySeatIsSettled
CHECK_DEADLOCK FALSE
