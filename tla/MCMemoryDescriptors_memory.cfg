CONSTANTS
  PageSize = 4
  MaxPrepares = 2
  PageMaps <- MCPageMaps
  Chains <- MCChains
  DataBuffers <- MCDataBuffers
  Own <- MCOwn
  Parts <- MCParts
SPECIFICATION MemorySpec
INVARIANTS SegmentsAreTheBytes PreparedAllOrNone ReferencesMatchRanges
