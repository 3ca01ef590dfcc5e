CONSTANTS
  Role = "client"
  Callers = {a, b}
  Poppers = {a}
  Peekers = {a}
  Peekable = {"request", "response"}
  Sender = sender
  Receiver = receiver
  Nobody = nobody
  MaxPushes = 2
  MaxArrivals = 2
SPECIFICATION FairSpec
INVARIANTS NoLostWakeup SentInPushOrder TakenAccounted HasImpliesPop PeekInBounds
PROPERTIES NothingSentAfterDisconnect ReceivedIsQueued EveryPushIsTried SenderEndsOrSleeps ReceiverStops
CHECK_DEADLOCK FALSE
