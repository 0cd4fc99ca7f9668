SPECIFICATION Spec
CONSTANTS
  a = a
  c1 = c1
  p1 = p1
  Deployer = dep
  OwnerCapId = oc
  NoHolder = NoHolder
  Address <- MCAddress
  CapId <- MCCapId
  ProjectId <- OneProject
  MaxForms = 2
  MaxSignals = 2
  StatusInput = {0, 3}
INVARIANTS
  ReceiptsAreDense
PROPERTIES
  FormIdsNeverReused
  ImplementsLedger
