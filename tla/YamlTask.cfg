\* Three hosts on two workers, two commands, and the order of the limits that the
\* code has: the timeout covers connect() and one command but for the wait for a
\* slot.  Commands that last or hang, alarms, Ctrl+C once and twice.
CONSTANTS
  N = 3
  Workers = 2
  Commands = 2
  ConnectTime = 2
  CommandTime = 2
  HostTimeout = 3
  Faults = {"hang", "long", "tamper", "interrupt", "impatient"}
SPECIFICATION FairSpec
INVARIANTS TamperEndsProcess MenuMeansIdle
PROPERTIES TimeoutsAreEarned TaskEnds
\* The task is over.
CHECK_DEADLOCK FALSE
