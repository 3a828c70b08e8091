\* More output than the cap and the window together take.
CONSTANTS
  Cap = 2
  Window = 2
  MaxOutput = 6
  Conditions = {}
SPECIFICATION FairSpec
PROPERTY AlwaysReturns
\* run() has returned, or never will.
CHECK_DEADLOCK FALSE
