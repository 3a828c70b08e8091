\* Ctrl+C between the registration of a job and the start of its thread.
CONSTANTS
  NoUser = NoUser
  Menu = Menu
  Jobs = {j1, j2}
  Users = {u1}
  Tasks = {"redhat"}
  N = 1
  Workers = 1
  Faults = {"interrupt"}
SPECIFICATION FairSpec
PROPERTY RunningMeansEnds
\* After Exit, when the jobs have ended, the process is gone.
CHECK_DEADLOCK FALSE
