SPECIFICATION AutomaticSpec
CONSTANTS
  h1 = h1
  Handlers <- OneHandler
  MaxSubmissions = 1
  QueueCap = 1
  Deployments <- IndexRelay
PROPERTY RetriesAutomatically
CHECK_DEADLOCK FALSE
