\* The legacy store: a book, one market of each kind, duels and stakes.
SPECIFICATION MCSpec
CONSTANTS
  u1 = u1
  u2 = u2
  admin = admin
  m1 = m1
  WalletSeq <- MCWalletSeq
  TREASURY_WALLET = admin
  OpeningBalance <- MCOpening
  PriceUnit = 2
  TierUnit = 3
  BookAmounts = {1, 4}
  BookPrices = {1, 2}
  MaxOrders = 5
  TwapMinTrades = 1
  TwapMinVolume = 1
  NoLock <- Unset
  NoPrice <- Unset
  Markets = {m1}
  MarketKinds <- MCKinds
  MarketAmounts = {20, 33}
  BoostAmounts = {7}
  LimitOdds = {40}
  MaxPositions = 3
  MaxDuels = 2
  Budgets <- MCBudgets
INVARIANTS
  MoneyConserved
  PoolMatchesPositions
  BookUncrossed
PROPERTIES
  NoEntryAfterCutoff
CHECK_DEADLOCK FALSE
