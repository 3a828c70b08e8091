\* Arrows and no Esc: an arrow is taken for one.
CONSTANTS
  N = 3
  Digits = {1}
  Others = {"Up", "Down"}
  MaxKeys = 2
SPECIFICATION SelectSpec
INVARIANT ArrowIsNoEsc
