SPECIFICATION StorageSpec
CONSTANTS
  t1 = t1
  t2 = t2
  e1 = e1
  h1 = h1
  h2 = h2
  r1 = r1
  r2 = r2
  x1 = x1
  x2 = x2
  s1 = s1
  s2 = s2
  f1 = f1
  f2 = f2
  m1 = m1
  m2 = m2
  d1 = d1
  NoLocalForm = NoLocalForm
  Tasks <- MCTasks
  Ids <- MCIds
  MaxBlobs = 4
  Editors <- MCEditors
  Hashes <- MCHashes
  Replies <- MCReplies
  MaxBundles = 3
  MaxVersion = 2
  Executions <- MCExecutions
  Submissions <- MCSubmissions
  MaxFolders = 4
  MaxFiles = 2
  Forms <- MCForms
  ManifestBlobs <- MCManifestBlobs
  Removals <- MCRemovals
  MaxOnchain = 2
  MaxEvents = 3
SYMMETRY Symmetry
INVARIANTS
  StorageTypeOK
  IndexNamesACarrier
  CommittedStaysReachable
  OnlyForksLoseEntries
  CarrierDescribesItself
  NewestPageKeepsAnswers
  AnswerNamesItsForm
  StoreFollowsIndex
  LossNeedsRaceOrSplit
  RemovedStaysHidden
  PurgedStaysPurged
PROPERTIES
  SettledStays
CHECK_DEADLOCK FALSE
