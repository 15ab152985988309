SPECIFICATION Spec
CONSTANTS
  x1 = x1  host = host  guest = guest  c1 = c1  c2 = c2  NoPair = NoPair
  Sweeper = Sweeper
  Pair <- OnePair
  Person <- TwoPeople
  Writer <- HostAndGuest
  Caller <- TwoCallers
  Rating <- ThreeOrFive
  RatingTrust <- StarsTrust
  Reward = 2
  RewardCap = 3
  PartialTrust = FALSE
CHECK_DEADLOCK FALSE
INVARIANTS TypeOK Blind TrustIsMutual RevealedTogether
PROPERTY EveryPairEnds
