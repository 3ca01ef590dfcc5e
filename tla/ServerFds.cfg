\* Two sessions, and descriptors for one and a half: the second session gets the
\* numbers the first one closes, or none.
CONSTANTS
  MaxSessions = 2
  NumFds = 3
SPECIFICATION FairSpec
INVARIANTS
  OnlyLeaversHarm
  NumbersStayOwn
  AnswersReachTheirClient
PROPERTIES
  SessionNoticesEnd
\* A server whose clients do nothing any more stops.
CHECK_DEADLOCK FALSE
