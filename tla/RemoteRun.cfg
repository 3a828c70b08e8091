\* Outputs around the cap, around the window and beyond both, callers who listen and
\* callers who do not, and everything that can happen to the command, its readers and
\* the connection.
CONSTANTS
  Cap = 2
  Window = 2
  MaxOutput = 5
  Conditions = {"hangs", "lingers", "slowReader", "silence", "connection"}
SPECIFICATION FairSpec
INVARIANT CutIsTold
PROPERTIES RunReturns ReadersEnd
\* run() has returned, or never will.
CHECK_DEADLOCK FALSE
