\* The second session of a process.
CONSTANTS
  NoUser = NoUser
  Users = {u1, u2}
  Timeout = 2
  MaxIdle = 4
  MaxJobs = 2
SPECIFICATION Spec
INVARIANT KeyForEveryTask
