\* Two frames that reach the session buffer together.
CONSTANTS
  HeaderLen = 2
  BodyLens = {1, 2}
  GarbageLens = {1, 5}
  Capacity = 4
  RecvMax = 3
  MaxFrames = 2
SPECIFICATION FairSpec
PROPERTIES
  EveryPacketDelivered
\* A session whose link has ended, or whose sender is done, stops.
CHECK_DEADLOCK FALSE
