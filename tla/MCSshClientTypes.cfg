\* The type invariant and what a failed connect() leaves, on the instance of MCSshClient.cfg.
CONSTANTS
  c1 = c1
  c2 = c2
  c3 = c3
  Clients = {c1, c2, c3}
  Limit = 2
  Main = {c1}
  InterruptPoints <- CleanPoints
SPECIFICATION FairSpec
INVARIANT TypeOK
PROPERTY FailureCleansUp
