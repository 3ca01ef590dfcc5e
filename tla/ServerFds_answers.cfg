\* The smallest server in which a number can change hands: shown violated.
CONSTANTS
  MaxSessions = 2
  NumFds = 3
SPECIFICATION Spec
INVARIANTS
  AnswersOwnRequest
CHECK_DEADLOCK FALSE
