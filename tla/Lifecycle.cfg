SPECIFICATION Spec
CONSTANTS
  MaxStarts = 3
  Systems = {"linux", "windows"}
  Signals = {"TERM", "INT", "HUP"}
  OtherThreads = FALSE
  MaxRuns = 2
  Callers = {r1, r2, a}
  Platforms = {"linux", "windows"}
  Warm = {"linux"}
  MaxObjects = 3
  MaxFailures = 2
  Resources = {r1, r2}
  Auditors = {a}
 
PROPERTY FutureBecomesReady
PROPERTY SignalShutsDown
PROPERTY AuditIsExact
CHECK_DEADLOCK FALSE
