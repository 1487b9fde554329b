SPECIFICATION FairSpec
CONSTANTS
  HeaderLen = 3
  FirstBufSize = 2
  Lens = {1, 3, 4, 5, 7, 8, 9}
  MaxFrames = 2
  Capacity = 3
INVARIANTS
  TypeOK
  FramesWhole
  BufferLimit
PROPERTY
  FramesArrive
CHECK_DEADLOCK FALSE
