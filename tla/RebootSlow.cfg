\* Machines that still answer after the sleep.
CONSTANTS
  N = 2
  MaxWait = 3
  ConnectTime = 2
  Faults = {"slow"}
SPECIFICATION Spec
INVARIANT BackMeansRebooted
\* The task is over.
CHECK_DEADLOCK FALSE
