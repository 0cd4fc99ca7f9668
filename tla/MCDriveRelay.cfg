SPECIFICATION RelaySpec
CONSTANTS
  x1 = x1
  x2 = x2
  s1 = s1
  s2 = s2
  Executions <- MCExecutions
  Submissions <- MCSubmissions
  MaxFolders = 2
  MaxFiles = 1
INVARIANT AcknowledgedIsReadable
CHECK_DEADLOCK FALSE
