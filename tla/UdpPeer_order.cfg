\* One sender with two packets and two tries for each, fair threads, and a network
\* that may lose everything.
CONSTANTS
  Senders = {s}
  Receiver = receiver
  Default = default
  MaxTries = 2
  Capacity = 2
  MaxPackets = 2
SPECIFICATION FairSpec
INVARIANTS
  TypeOK
  AckedIsReceived
  OvertakesOnlyDropped
  CopiesBounded
  EventsHaveDatagrams
  NoDatagramForgotten
PROPERTIES
  ImplementsAtLeastOnce
  PacketSettled
  PeerStops
\* Peers whose threads are done, or whose process has ended, stop.
CHECK_DEADLOCK FALSE
