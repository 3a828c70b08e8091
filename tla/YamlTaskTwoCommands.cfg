\* Two commands, and a timeout that covers connect(), one command and a buffer.
CONSTANTS
  N = 3
  Workers = 2
  Commands = 2
  ConnectTime = 1
  CommandTime = 2
  HostTimeout = 4
  Faults = {}
SPECIFICATION Spec
INVARIANT NoFalseTimeout
\* The task is over.
CHECK_DEADLOCK FALSE
