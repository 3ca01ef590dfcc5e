\* A server session: two application threads that push, pop, peek at both
\* queues and disconnect.
CONSTANTS
  Role = "server"
  Callers = {a, b}
  Poppers = {a, b}
  Peekers = {a, b}
  Peekable = {"request", "response"}
  Sender = sender
  Receiver = receiver
  Nobody = nobody
  MaxPushes = 2
  MaxArrivals = 2
SPECIFICATION Spec
SYMMETRY CallerSymmetry
INVARIANTS
  Inv
\* A session that is disconnected stops.
CHECK_DEADLOCK FALSE
