SPECIFICATION FairSpec
CONSTANTS
  r1 = r1
  r2 = r2
  f1 = f1
  f2 = f2
  f3 = f3
  NoItem = NoItem
  Requests <- MCRequests
  Functions <- MCFunctions
  max_target = 1
  cmd_per_lun = 1
  ControlQueueSize = 2
  EventQueueSize = 1
  RequestQueueSize = 2
  MaxChanges = 3
INVARIANTS
  ItemsAccountedFor
  ItemForEveryRequest
  StableTargetsStay
PROPERTIES
  GoneTargetsForgotten
CHECK_DEADLOCK FALSE
