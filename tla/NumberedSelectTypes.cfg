\* The type invariant.
CONSTANTS
  N = 12
  Digits = {0, 1, 2}
  Others = {"Up", "Down", "Esc", "Q"}
  MaxKeys = 4
SPECIFICATION SelectSpec
INVARIANT SelectTypeOK
