\* Worker threads only, and a main thread whose Ctrl+C lands at clean points.
CONSTANTS
  c1 = c1
  c2 = c2
  c3 = c3
  Clients = {c1, c2, c3}
  Limit = 2
  Main = {c1}
  InterruptPoints <- CleanPoints
SPECIFICATION FairSpec
INVARIANT SlotsConserved
PROPERTIES ImplementsSlots AcquireReturns
