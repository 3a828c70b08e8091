\* A menu of twelve items, as wide as a task category may be.
CONSTANTS
  N = 12
  Digits = {0, 1, 2}
  Others = {}
  MaxKeys = 3
SPECIFICATION SelectSpec
INVARIANT TwoDigitShortcut
