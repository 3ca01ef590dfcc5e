\* Three frames of two body units through socket buffers smaller than a frame, with
\* fair threads and a fair connection.
CONSTANTS
  HeaderLen = 2
  BodyLens = {2}
  GarbageLens = {1, 5}
  Capacity = 3
  RecvMax = 3
  MaxFrames = 3
SPECIFICATION FairSpec
INVARIANTS
  TypeOK
  AlignedUntilCut
PROPERTIES
  ImplementsChannel
  DeliveredUnlessCutOrCoalesced
  ServerNoticesEnd
\* A session whose link has ended, or whose sender is done, stops.
CHECK_DEADLOCK FALSE
