SPECIFICATION AnswerPathSpec
CONSTANTS
  h1 = h1
  h2 = h2
  c1 = c1
  c2 = c2
  c3 = c3
  v1 = v1
  w1 = w1
  w2 = w2
  NoWallet = NoWallet
  Handlers <- MCHandlers
  MaxSubmissions = 2
  QueueCap = 1
  Deployments <- MCDeployments
  Callers <- MCCallers
  Entries <- MCEntries
  TTL = 3
  Timeout = 2
  MaxTime = 7
  MaxFetches = 3
  Wallets <- MCWallets
  MaxChanges = 2
  MaxPresses = 1
  MaxFailures = 1
SYMMETRY Symmetry
INVARIANTS
  AnswerPathTypeOK
  NothingSilentlyLost
  SubmittedIsDelivered
  DeliveredIsWhole
  AnswerIsRecent
  RequestsAreSpaced
  SubmitsAreChecked
PROPERTIES
  ImplementsAnswerBox
CHECK_DEADLOCK FALSE
