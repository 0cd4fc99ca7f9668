SPECIFICATION ReviewSpec
CONSTANTS
  alice = alice
  oc1 = oc1
  oc2 = oc2
  oc3 = oc3
  p1 = p1
  p2 = p2
  s1 = s1
  s2 = s2
  r1 = r1
  r2 = r2
  Deployer = dep
  OwnerCapId = oc
  NoHolder = NoHolder
  Address <- MCAddress
  CapId <- MCCapId
  ProjectId <- MCProjects
  MaxForms = 1
  MaxSignals = 1
  StatusInput = {0}
  InboxIds <- MCSubmissions
  Reviews <- MCReviews
  MaxReceipts = 2
  MaxEdits = 2
  MaxLoads = 2
  MaxForeign = 1
  Records <- MCRecords
  NoRecord = NoRecord
  MaxRequests = 2
  MaxPrompts = 2
  shell = shell
  dash = dash
  other = other
  Chunks <- MCChunks
  Pages <- MCPages
  Shell = shell
  Dashboard = dash
  MaxAttempts = 2
  MaxEpoch = 1
  MaxRetries = 1
  MaxReloads = 1
SYMMETRY Symmetry
INVARIANTS
  ReviewTypeOK
  AdminsAreWellFormed
  MembersWellFormed
  ReceiptsStayReadable
  ReceiptOfItsOwn
  ShownIsSelected
  OnePromptUnlessCleared
  WaitersHaveAPrompt
  LockedMeansRunning
  LatestSaveWins
  WaitsForSomething
  FailsEarlyOnce
PROPERTIES
  AuthorityIsTheOwners
  CachedKeyIsFresh
CHECK_DEADLOCK FALSE
