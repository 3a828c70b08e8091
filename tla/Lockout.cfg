\* One user and the passphrase; restarts anywhere, a save cut short included, and a
\* file that cannot be written now and then.
CONSTANTS
  Vault = Vault
  Empty = Empty
  Users = {u1}
  MaxAttempts = 2
  LockTime = 2
  MaxTime = 4
  MaxFailures = 4
  Faults = {"crashInSave", "unwritable"}
SPECIFICATION Spec
INVARIANTS AttemptBudget SuccessForgives
PROPERTY LockOutlivesProcess
\* The clock has run out.
CHECK_DEADLOCK FALSE
