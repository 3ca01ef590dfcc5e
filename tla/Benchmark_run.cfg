\* A window of three, a session with up to two requests of the menu in it, and two more
\* benchmarks on what the first one left behind.
CONSTANTS
  MaxInFlight = 3
  MaxRuns = 3
  MaxLeft = 1
SPECIFICATION FairSpec
INVARIANTS
  WindowKept
  SleepsOnFullWindow
  SleeperIsServed
PROPERTIES
  StopSeen
\* A benchmark that has ended stops.
CHECK_DEADLOCK FALSE
