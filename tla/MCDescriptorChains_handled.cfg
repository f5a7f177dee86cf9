SPECIFICATION Spec
CONSTANTS
  r1 = r1
  r2 = r2
  r3 = r3
  r4 = r4
  NumEntries = 4
  Requests <- MCRequests
  RequestShapes <- MCShapes
  TableSizes <- DirectOrIndirect
  DMAFaults <- HandledFaults
SYMMETRY Symmetry
VIEW LiveState
INVARIANTS
  DescriptorsPartitioned
  OneChainPerRequest
  DeviceSeesRequests
  BuffersHeldWhileInFlight
PROPERTIES
  FailedSubmitReturnsDescriptors
  ImplementsVirtioDevice
