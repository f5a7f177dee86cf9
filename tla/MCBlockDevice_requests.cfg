SPECIFICATION FairSpec
CONSTANTS
  c1 = c1
  c2 = c2
  c3 = c3
  r1 = r1
  r2 = r2
  r3 = r3
  NoClient = NoClient
  Clients <- MCClients
  Structures <- MCStructures
  QueueSize = 5
  Needs <- MCNeeds
  SubmitFaults = FALSE
INVARIANTS
  RequestsAccountedFor
  PendingWillBeTried
PROPERTIES
  ServedInOrder
  OperationsEnd
CHECK_DEADLOCK FALSE
