\* The chain, its mirror, the keeper and a client, story by story.
SPECIFICATION MCSpec
CONSTANTS
  alice = alice
  bob = bob
  carol = carol
  Admin = admin
  Treasury = treasury
  Nobody = nobody
  m1 = m1
  k1 = k1
  k2 = k2
  k3 = k3
  l1 = l1
  l2 = l2
  d1 = d1
  p1 = p1
  Users = {alice, bob, carol, admin}
  Signers = {alice}
  LynxHolders = {alice, bob}
  Markets = {m1}
  SpotKeys = {k1, k2, k3}
  LimitKeys = {l1}
  DuelKeys = {d1}
  ProposalKeys = {p1}
  PriceScale = 2
  MinOrder = 1
  MaxOrder = 20
  DisputeWindow = 1
  MaxClock = 4
  Durations = {1}
  Instructions = {}
  WsEnabled = TRUE
  Operator = admin
  UnitsPer <- MCUnits
  OrderLife = 5
  DuelLife = 5
  MarketLife = 3
  ProposalLife = 1
  NoQuote = NoQuote
  Stories <- MCStories
INVARIANTS
  EscrowCovers
PROPERTIES
  QuoteHolds
  IndexCatchesUp
  ReadyIsCranked
CHECK_DEADLOCK FALSE
