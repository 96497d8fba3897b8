\* Stakes, rewards and one vote.
SPECIFICATION Spec
CONSTANTS
  u1 = u1
  u2 = u2
  Stakers <- MCStakers
  RewardScale = 2
  StakeAmounts <- MCStakeAmounts
  Fees <- MCFees
  LynxSupply = 2
  MaxIndex = 4
  MaxTime = 3
  Durations <- MCDurations
  MinDuration = 1
  MaxDuration = 1
  MaxDaoProposals = 1
INVARIANTS
  VaultsCoverClaims
  EarnedByShare
  VotesWithinRoll
  MajorityDecides
PROPERTIES
  ProposalsClose
CHECK_DEADLOCK FALSE
