\* Three machines and every fault.
CONSTANTS
  N = 3
  MaxWait = 2
  ConnectTime = 1
  Faults = {"network", "slow", "refuses", "raises"}
SPECIFICATION FairSpec
INVARIANTS TableComplete
PROPERTIES OfflineIsTrue OnlyNeedyStop WaitEnds
\* The task is over.
CHECK_DEADLOCK FALSE
