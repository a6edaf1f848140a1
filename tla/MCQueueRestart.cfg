\* Two incarnations (a restart, or two replicas) and two consumers each.
CONSTANTS
  s1 = s1  s2 = s2  w1 = w1  w2 = w2  m1 = m1  m2 = m2  m3 = m3
  Message <- TwoMessages
  Undecodable <- FirstMessage
  Server <- TwoServers
  Worker <- TwoWorkers
  PrefetchLimit = 2
  NoMessage = NoMessage
  MaxLost = 2
SYMMETRY Symmetry
SPECIFICATION Spec
INVARIANTS
  TypeOK
  HandledAtMostOnce
  NothingVanishes
  AckedSucceeded
  SettledOnceUnlessClosing
  NoSlotLeak
  FetchedInOrder
PROPERTY ImplementsAtMostOnce
\* Every process may have ended.
CHECK_DEADLOCK FALSE
