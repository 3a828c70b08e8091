\* Ctrl+C while a prompt of a YAML task waits.
CONSTANTS
  u1 = u1
  u2 = u2
  r1 = r1
  r2 = r2
  x = x
  y = y
  z = z
  NoUser = NoUser
  NoReader = NoReader
  Users = {u1, u2}
  Timeout = 2
  MaxIdle = 4
  MaxJobs = 2
  Readers = {r1, r2}
  Prompts = 2
  Spellings = {x, y, z}
  Malformed = Malformed
  MaxHosts = 2
  MaxTyped = 3
  Faults = {"interrupt"}
SPECIFICATION ConsoleSpec
INVARIANT NobodyElseReads
