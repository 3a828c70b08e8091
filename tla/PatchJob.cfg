\* Two users, two jobs of two hosts, alarms and Ctrl+C: the registry and the pools.
CONSTANTS
  NoUser = NoUser
  Menu = Menu
  Jobs = {j1, j2}
  Users = {u1, u2}
  Tasks = {"redhat"}
  N = 2
  Workers = 2
  Faults = {"tamper", "interrupt"}
SPECIFICATION FairSpec
INVARIANTS OneRunningJob DoneCoversAllHosts ProgressIsReal
PROPERTIES EndIsFinal JobEnds
\* After Exit, when the jobs have ended, the process is gone.
CHECK_DEADLOCK FALSE
