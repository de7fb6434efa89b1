SPECIFICATION FairSpec
CONSTANTS
  N = 2
  Tasks <- ThreeTasks
  Stoppers <- OneStopper
  IndexModulus = 2
  NoTask = NoTask
  t1 = t1
  t2 = t2
  t3 = t3
  s1 = s1
  s2 = s2
PROPERTY QueuedTaskRuns
PROPERTY StopReturnsIfWoken
CHECK_DEADLOCK FALSE
