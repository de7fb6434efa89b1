SPECIFICATION FairSpec
CONSTANTS
  Publishers <- OnePublisher
  Subscribers <- OneSubscriber
  Events <- OneEvent
  TopicOf <- OneTopic
  Acking <- OneSubscriber
  Restarts = FALSE
  MaxConns = 2
  StrandBound = 1
  p1 = p1
  s1 = s1
  e1 = e1
  e2 = e2
 
PROPERTY ClosedSessionLeaves
CHECK_DEADLOCK FALSE
