SPECIFICATION MCSpec
CONSTANTS
  c1 = c1  c2 = c2  tap1 = tap1  tap2 = tap2  t1 = t1
  Campaign <- Campaigns2
  Mixes <- AllMixes
  Person <- Users2
  Pages <- Audience
  Fact <- Facts
  Weight <- Weights
  InviteLimit = 1
  Cost = 1
  Wallet = 3
  Fickle <- Fickle2
  Call <- Taps
  Tick <- OneTick
  Take = 1
  DispatchBatch = 1
  Threshold = 2
  Attempts = 2
  MaxMishaps = 1
INVARIANTS CampaignsTypeOK ReportIsHonest PaidAndMeant
PROPERTY CampaignsEnd
CHECK_DEADLOCK FALSE
