SPECIFICATION FairSpec
CONSTANTS
  NumQueues = 2
  MaxOpens = 2
INVARIANTS
  HandlersSeeLiveState
  DeviceStoppedBeforeFree
  WhatCloseLeaves
PROPERTY TakingDownEnds
CHECK_DEADLOCK FALSE
