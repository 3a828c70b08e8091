\* The type invariant, and a cause for every lock, on the instance of Lockout.cfg.
CONSTANTS
  Vault = Vault
  Empty = Empty
  Users = {u1}
  MaxAttempts = 2
  LockTime = 2
  MaxTime = 4
  MaxFailures = 4
  Faults = {"crashInSave", "unwritable"}
SPECIFICATION Spec
INVARIANTS TypeOK LockHasCause
\* The clock has run out.
CHECK_DEADLOCK FALSE
