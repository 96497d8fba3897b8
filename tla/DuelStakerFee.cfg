\* Does the stakers' part of a duel's fee reach the index that pays it?
SPECIFICATION DuelsSpec
CONSTANTS
  u1 = u1
  u2 = u2
  Owners <- MCOwners
  Oracle = oracle
  Nobody = nobody
  MinOrder = 5
  MaxOrder = 30
  OracleTimeout = 1
  DisputeWindow = 1
  LamportsPerMicroLynx = 1
  RewardScale = 10
  Amounts <- MCNone
  Ratios <- MCRatios
  Slippages <- MCNone
  Staked <- MCStaked
  Deadlines <- MCDeadlines
  MaxPool = 0
  MaxTime = 5
  MaxExposure = 30
  Stakes <- MCStakes
  MaxDuels = 2
PROPERTY DuelFeesAreCredited
CHECK_DEADLOCK FALSE
