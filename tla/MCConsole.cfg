\* Two users, two jobs, two prompts; two spare readers, so that one which is left
\* behind meets the next one.  The operator may be away for twice the timeout.
CONSTANTS
  u1 = u1
  u2 = u2
  r1 = r1
  r2 = r2
  x = x
  y = y
  z = z
  NoUser = NoUser
  NoReader = NoReader
  Users = {u1, u2}
  Timeout = 2
  MaxIdle = 4
  MaxJobs = 2
  Readers = {r1, r2}
  Prompts = 2
  Spellings = {x, y, z}
  Malformed = Malformed
  MaxHosts = 2
  MaxTyped = 3
  Faults = {"eof"}
SPECIFICATION FairConsoleSpec
INVARIANTS CredentialsFollowSession NothingLeftAtExit NobodyElseReads TargetsDistinct
PROPERTIES IdleMenuSignsOut EnterGetsBack
