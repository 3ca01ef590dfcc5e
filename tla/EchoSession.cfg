CONSTANTS
  Width = 3
  Packets <- MCPackets
  MaxPackets = 2
SPECIFICATION Spec
INVARIANTS
  TypeOK
  UnalteredIfPreserved
  EchoSettles
  AnswersMatchRequests
  LossesExplained
\* Without a packet to push, an idle session stops.
CHECK_DEADLOCK FALSE
