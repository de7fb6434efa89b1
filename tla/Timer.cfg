SPECIFICATION FairSpec
CONSTANTS
  Timers <- TwoTimers
  Manager = Manager
  t1 = t1
  t2 = t2
  t3 = t3
INVARIANT NoUseAfterFree
INVARIANT OwnedOrDying
INVARIANT AtMostOneLateCall
PROPERTY LockReleased
PROPERTY StoppedTimerIsReady
CHECK_DEADLOCK FALSE
