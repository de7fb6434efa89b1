SPECIFICATION FairSpec
CONSTANTS
  ExecutorCount = 2
  Handlers <- TwoHandlers
  Throwing <- OneHandler
  Callers <- TwoCallers
  PendingOps = TRUE
  MaxRuns = 2
  StopsOnce = TRUE
  h1 = h1
  h2 = h2
  h3 = h3
  c1 = c1
  c2 = c2
INVARIANT StopJoins
 
PROPERTY PostedRuns
CHECK_DEADLOCK FALSE
