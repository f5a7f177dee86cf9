SPECIFICATION FairSpec
CONSTANTS
  f1 = f1
  f2 = f2
  f3 = f3
  f4 = f4
  f5 = f5
  f6 = f6
  f7 = f7
  Frames <- MCFrames
  BIG_CHUNK_PAGES = 3
  MaxRequested = 4
  MaxHostChanges = 2
  Faults <- AllFaults
  EarlyChanges = FALSE
INVARIANTS
  BalloonedFramesAreReserved
  OneRequestAtATime
  ActualIsTrue
PROPERTIES
  ReachesRequestedSize
CHECK_DEADLOCK FALSE
