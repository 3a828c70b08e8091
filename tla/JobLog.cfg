\* Three jobs of three lines each, a directory that holds four lines and an audit
\* log of two entries.
CONSTANTS
  NoJob = NoJob
  Jobs = {j1, j2, j3}
  Lines = 3
  Budget = 4
  AuditMax = 2
  Entries = 5
  LogFaults = {"unlink", "rename", "touch"}
SPECIFICATION FairLogSpec
INVARIANTS TailShowsEnd RecentEntriesKept
PROPERTIES DeletedOverBudget TailReports
\* All jobs are over and the operator leaves the terminal.
CHECK_DEADLOCK FALSE
