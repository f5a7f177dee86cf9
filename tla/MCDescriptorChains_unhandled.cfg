SPECIFICATION Spec
CONSTANTS
  r1 = r1
  r2 = r2
  r3 = r3
  r4 = r4
  NumEntries = 3
  Requests <- MCRequests
  RequestShapes <- MCShapes
  TableSizes <- Direct
  DMAFaults <- UnhandledFaults
SYMMETRY Symmetry
VIEW LiveState
PROPERTY FailedSubmitReturnsDescriptors
