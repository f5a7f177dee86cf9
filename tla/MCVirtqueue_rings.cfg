SPECIFICATION FairRingSpec
CONSTANTS
  r1 = r1
  r2 = r2
  NumEntries = 2
  Requests <- MCRequests
  RequestShapes <- MCShapes
  TableSizes <- DirectOrIndirect
  DMAFaults <- NoFaults
  IndexWrap = 4
  CompletionLimits <- MCLimits
INVARIANTS
  RingsHoldInFlight
PROPERTIES
  ImplementsDescriptorChains
  KeepsVirtioDevicePromise
