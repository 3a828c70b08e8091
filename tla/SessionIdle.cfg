\* The timeout below the main menu.
CONSTANTS
  NoUser = NoUser
  Users = {u1, u2}
  Timeout = 2
  MaxIdle = 4
  MaxJobs = 2
SPECIFICATION Spec
PROPERTY NoTaskAfterTimeout
