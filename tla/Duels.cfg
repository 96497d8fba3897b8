\* Duels over one SOL market, binary or ternary, and the mint ratio it freezes.
SPECIFICATION MCSpec
CONSTANTS
  u1 = u1
  u2 = u2
  Owners <- MCOwners
  Oracle = oracle
  Nobody = nobody
  MinOrder = 5
  MaxOrder = 30
  OracleTimeout = 1
  DisputeWindow = 1
  LamportsPerMicroLynx = 1
  RewardScale = 10
  Amounts <- MCNone
  Ratios <- MCNone
  Slippages <- MCNone
  Staked <- MCStaked
  Deadlines <- MCDeadlines
  MaxPool = 0
  MaxTime = 5
  MaxExposure = 30
  Stakes <- MCStakes
  MaxDuels = 2
  SnapshotCount = 2
  SnapshotInterval = 1
  KeeperInterval = 1
  Retries = 1
  MicroLynxPerLynx = 1
  TierWidth = 8
  InitialSupply = 4
  Flow = 16
  MaxSupply = 20
  MaxFaults = 2
INVARIANTS
  DuelMoneyExact
  ExposureIsLive
  SomebodyWins
  RatioIsOfTheWindow
PROPERTIES
  DuelsSettle
  SamplesKeepComing
CHECK_DEADLOCK FALSE
