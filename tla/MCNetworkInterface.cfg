CONSTANTS
  RxPackets = 2
  TxPackets = 2
  QueueCapacity = 2
SPECIFICATION Spec
INVARIANT DeviceMatchesState
INVARIANT OutputOnlyWhenRunning
PROPERTY DebuggerPacketStable
CHECK_DEADLOCK FALSE
