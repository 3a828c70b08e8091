\* A reader that is still at work 5 s after the channel was closed.
CONSTANTS
  Cap = 2
  Window = 3
  MaxOutput = 3
  Conditions = {"slowReader", "lingers"}
SPECIFICATION FairSpec
INVARIANT BuffersReadAfterStop
\* run() has returned, or never will.
CHECK_DEADLOCK FALSE
