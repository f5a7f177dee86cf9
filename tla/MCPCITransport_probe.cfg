CONSTANTS
  NumCaps = 3
  MaxVectors = 2
  Contents <- MCContents
  SetupFaults = {"super", "source", "workloop"}
SPECIFICATION PCISpec
INVARIANT ProbeIsRight
INVARIANT HandlersTakenDown
PROPERTY WalkEnds
