SPECIFICATION LazySpec
CONSTANTS
  shell = shell
  dash = dash
  Chunks <- MCChunks
  Pages <- MCPages
  Shell = shell
  Dashboard = dash
  MaxAttempts = 4
  MaxEpoch = 1
  MaxRetries = 1
  MaxReloads = 0
INVARIANT AttemptsAreUsed
CHECK_DEADLOCK FALSE
