\* A line that a job writes between the first read of the view and its first look at
\* the size of the file.
CONSTANTS
  NoJob = NoJob
  Jobs = {j1, j2, j3}
  Lines = 3
  Budget = 4
  AuditMax = 2
  Entries = 5
  LogFaults = {"unlink", "rename", "touch"}
SPECIFICATION LogSpec
CHECK_DEADLOCK FALSE
INVARIANT TailShowsAll
