CONSTANTS
  Role = "client"
  Callers = {a, b}
  Poppers = {a}
  Peekers = {a}
  Peekable = {"response"}
  Sender = sender
  Receiver = receiver
  Nobody = nobody
  MaxPushes = 2
  MaxArrivals = 2
SPECIFICATION FairSpec

PROPERTIES SessionEnds
CHECK_DEADLOCK FALSE
