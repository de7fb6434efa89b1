SPECIFICATION Spec
CONSTANTS
  Systems = {"linux", "windows"}
  Stricts = {FALSE, TRUE}
  Requested = 115200
  ChunkSize = 2
  MaxBytes = 4
  Servers = {s}
  Clients = {c}
  Numbers = 3
  MaxWaiting = 1
  MaxPrepares = 2
  Retries = TRUE
  Addresses = {72, 80, 208}
  Slaves = {80}
  AskedSpeeds = {0, 1, 2, 3}
  Reopens = FALSE
INVARIANT LineUpToTerminator
 
CHECK_DEADLOCK FALSE
