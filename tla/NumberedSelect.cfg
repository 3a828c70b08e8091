\* A menu of twelve items; every kind of key, five of them before Enter.
CONSTANTS
  N = 12
  Digits = {0, 1, 2}
  Others = {"Up", "Down", "Esc", "Q"}
  MaxKeys = 5
SPECIFICATION FairSelectSpec
INVARIANT NumbersDecide
PROPERTY EnterEnds
