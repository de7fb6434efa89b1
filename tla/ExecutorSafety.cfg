SPECIFICATION Spec
CONSTANTS
  N = 2
  Tasks <- ThreeTasks
  Stoppers <- TwoStoppers
  IndexModulus = 2
  NoTask = NoTask
  t1 = t1
  t2 = t2
  t3 = t3
  s1 = s1
  s2 = s2
SYMMETRY Symmetry
INVARIANT TypeOK
INVARIANT EachTaskOnce
INVARIANT NoPushSleptThrough
INVARIANT StopQuiesces
INVARIANT RoundRobin
PROPERTY ImplementsPool
CHECK_DEADLOCK FALSE
