SPECIFICATION FairSpec
CONSTANTS
  reader = reader  writer = writer  seed = seed  stray = stray  p1 = p1  p2 = p2
  None = None
  Source <- OneRow
  User <- Users
  Seed <- Seeds
  Gone <- Nobody
  Unlinked <- Strays
  Unknown <- Strange
  Pass <- OnePass
  BatchSize = 2
  Attempts = 2
  MaxRows = 1
  MaxFailures = 1
PROPERTY NeverLost
CHECK_DEADLOCK FALSE
