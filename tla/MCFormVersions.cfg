SPECIFICATION VersionsSpec
CONSTANTS
  e1 = e1
  h1 = h1
  h2 = h2
  r1 = r1
  Editors <- OneEditor
  Hashes <- MCHashes
  Replies <- MCReplies
  MaxBundles = 5
  MaxVersion = 3
INVARIANT AnswersStayAttached
CHECK_DEADLOCK FALSE
