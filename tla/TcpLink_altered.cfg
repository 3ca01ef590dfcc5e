\* A full socket buffer in the middle of a frame.
CONSTANTS
  HeaderLen = 2
  BodyLens = {1, 2}
  GarbageLens = {1, 5}
  Capacity = 3
  RecvMax = 3
  MaxFrames = 2
SPECIFICATION Spec
INVARIANTS
  DeliveredUnaltered
\* A session whose link has ended, or whose sender is done, stops.
CHECK_DEADLOCK FALSE
