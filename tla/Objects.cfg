SPECIFICATION Spec
CONSTANTS
  Items = {i1, i2, i3}
  MaxRuns = 2
  MaxThreads = 3
  Names = {"a", "b"}
  Throws = FALSE
  OtherSetter = FALSE
  WaitsFuture = TRUE
  Thieves = {t1, t2}
  MaxItems = 4
  InitialSize = 2
  IndexModulus = 8
  PopFresh = FALSE
  MaxLength = 3
  MaxPushes = 7
  PushesOwn = FALSE
  Observers = {o1, o2}
  MaxObservers = 3
  MaxEvents = 3
  Reentrant = {"notify"}
INVARIANT ExecutedInOrder
PROPERTY NotifiedRuns
PROPERTY StoppedBusyWorkerExits
 
INVARIANT EachItemOnce
INVARIANT EachObserverCalled
CHECK_DEADLOCK FALSE
