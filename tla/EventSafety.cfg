SPECIFICATION Spec
CONSTANTS
  Publishers <- OnePublisher
  Subscribers <- OneSubscriber
  Events <- TwoEvents
  TopicOf <- OneTopic
  Acking <- OneSubscriber
  Restarts = TRUE
  MaxConns = 2
  StrandBound = 2
  p1 = p1
  s1 = s1
  e1 = e1
  e2 = e2
 
INVARIANT RegistryHoldsLive
CHECK_DEADLOCK FALSE
