\* A tamper alarm in a worker.
CONSTANTS
  NoUser = NoUser
  Menu = Menu
  Jobs = {j1}
  Users = {u1}
  Tasks = {"redhat"}
  N = 2
  Workers = 2
  Faults = {"tamper"}
SPECIFICATION Spec
PROPERTY NoWorkAfterTamper
\* After Exit, when the jobs have ended, the process is gone.
CHECK_DEADLOCK FALSE
