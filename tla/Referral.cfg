SPECIFICATION FairSpec
CONSTANTS
  u1 = u1  u2 = u2  u3 = u3  a1 = a1
  User <- ThreeUsers
  Inviter <- OneInviter
  Admin <- OneAdmin
  Cap = 1
  ReferrerCoins = 20
  ReferredCoins = 10
  MaxFailures = 1
INVARIANTS TypeOK PaidWithTheStatus
PROPERTIES QualifiedIsFinal AttendanceIsPaid
CHECK_DEADLOCK FALSE
