\* Attempts that take longer than a second.
CONSTANTS
  N = 2
  MaxWait = 3
  ConnectTime = 2
  Faults = {}
SPECIFICATION Spec
INVARIANT WaitIsBounded
\* The task is over.
CHECK_DEADLOCK FALSE
