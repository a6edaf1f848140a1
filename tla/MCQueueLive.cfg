\* A single consumer, as in queue_test.go: progress and order, without symmetry.
CONSTANTS
  s1 = s1  s2 = s2  w1 = w1  w2 = w2  m1 = m1  m2 = m2  m3 = m3
  Message <- ThreeMessages
  Undecodable <- FirstMessage
  Server <- OneServer
  Worker <- OneWorker
  PrefetchLimit = 2
  NoMessage = NoMessage
  MaxLost = 2
SPECIFICATION FairSpec
INVARIANT HandledInOrder
PROPERTIES
  EventuallySettled
  CloseCompletes
\* Every process may have ended.
CHECK_DEADLOCK FALSE
