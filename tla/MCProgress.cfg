SPECIFICATION ProgressSpec
CONSTANTS
  h1 = h1
  s1 = s1
  shell = shell
  wallet = wallet
  dash = dash
  page = page
  Handlers <- OneHandler
  MaxSubmissions = 2
  QueueCap = 2
  Deployments <- IndexRelay
  InboxIds <- OneSubmission
  Reviews <- MCReviews
  MaxReceipts = 1
  MaxEdits = 2
  MaxLoads = 1
  MaxForeign = 0
  Chunks <- MCChunks
  Pages <- MCPages
  Shell = shell
  Dashboard = dash
  MaxAttempts = 2
  MaxEpoch = 1
  MaxRetries = 2
  MaxReloads = 1
PROPERTIES
  DeliverableDrains
  SavesDrain
  ComponentsSettle
CHECK_DEADLOCK FALSE
