SPECIFICATION Spec
CONSTANTS
  Messages <- ThreeMessages
  Size <- UpToTwoUnits
  m1 = m1
  m2 = m2
  m3 = m3
  HeaderModulus = 4
  MaxGarbage = 2
  OneAtATime = TRUE
  Loops = {1}
  Sends = {1, 2}
  MaxDatagrams = 3
  Reopens = TRUE
  WaitsLoops = TRUE
  o1 = o1
  o2 = o2
  o3 = o3
  Objects <- ThreeObjects
  FileOf <- OneFileApart
  SizeOf <- OneLargerType
  Missing = {}
  Capacity = 2
  MaxQueues = 2
  MaxSends = 3
  Byte = 4
  Topics = {0, 1, 7, 15}
  Types = {0, 2}
  Payloads <- ShortPayloads
  Foreign <- ShortOrNot
INVARIANT DeliversInOrder
PROPERTY SentIsDelivered
PROPERTY DisconnectIsTold
INVARIANT ReceivedAsSent
CHECK_DEADLOCK FALSE
