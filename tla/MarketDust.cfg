\* Can the rounding dust of a settled SOL market always be swept?
SPECIFICATION Spec
CONSTANTS
  u1 = u1
  u2 = u2
  Owners <- MCOwners
  Oracle = oracle
  Nobody = nobody
  MinOrder = 5
  MaxOrder = 30
  OracleTimeout = 1
  DisputeWindow = 2
  LamportsPerMicroLynx = 1
  RewardScale = 10
  Amounts <- MCAmounts
  Ratios <- MCRatios
  Slippages <- MCSlippages
  Staked <- MCStaked
  Deadlines <- MCDeadlines
  MaxPool = 27
  MaxTime = 6
INVARIANT DustIsSweepable
CHECK_DEADLOCK FALSE
