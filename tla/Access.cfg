\* Accounts, sessions and the admins' panels.
SPECIFICATION MCSpec
CONSTANTS
  r1 = r1
  r2 = r2
  r3 = r3
  r4 = r4
  b1 = b1
  b2 = b2
  Requests <- MCRequests
  Browsers <- MCBrowsers
  Emails <- MCEmails
  Wallets <- MCWallets
  adminWallets <- MCAdmins
  Stories <- MCStories
  MaxHits = 3
  IssuedAt <- MCIssuedAt
  WALLET_LOGIN_WINDOW_MS = 1
  k1 = k1
  k2 = k2
  m1 = m1
  NoKey = NoKey
  Keys <- MCKeys
  FirstAdmin = k1
  Markets <- MCMarkets
  Results <- MCResults
  MaxSigners = 2
  Delay = 1
  Ttl = 5
  SignerLists <- MCSignerLists
  Proposable <- MCProposable
  MaxProposals = 1
  MaxTime = 3
  PRE_AUTH_TTL = 2
  INACTIVITY_TIMEOUT = 1
  DISPUTE_WINDOW = 1
  OracleDeadline = 2
  PanelStories <- MCPanelStories
INVARIANTS
  AccountsKept
  SpentStaysSpent
  SignedOut
\* Every request is answered and nobody clicks any more.
CHECK_DEADLOCK FALSE
