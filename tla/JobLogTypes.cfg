\* The type invariant, on a smaller instance than that of JobLog.cfg.
CONSTANTS
  NoJob = NoJob
  Jobs = {j1, j2, j3}
  Lines = 3
  Budget = 4
  AuditMax = 2
  Entries = 3
  LogFaults = {"unlink", "rename", "touch"}
SPECIFICATION LogSpec
CHECK_DEADLOCK FALSE
INVARIANT LogTypeOK
