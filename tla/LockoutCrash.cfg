\* The process dies while the file is rewritten.
CONSTANTS
  Vault = Vault
  Empty = Empty
  Users = {u1}
  MaxAttempts = 2
  LockTime = 2
  MaxTime = 4
  MaxFailures = 4
  Faults = {"crashInSave"}
SPECIFICATION Spec
PROPERTY LockSurvives
\* The clock has run out.
CHECK_DEADLOCK FALSE
