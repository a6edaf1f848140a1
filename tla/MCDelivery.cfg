\* Two incarnations of one consumer, and two messages for two devices.
CONSTANTS
  s1 = s1  s2 = s2  w1 = w1  m1 = m1  m2 = m2  t1 = t1  t2 = t2
  Message = {m1, m2}
  Undecodable = {}
  Server = {s1, s2}
  Worker = {w1}
  PrefetchLimit = 2
  NoMessage = NoMessage
  MaxLost = 1
  Token = {t1, t2}
SYMMETRY Symmetry
SPECIFICATION DeliverySpec
INVARIANTS
  NotifiedAtMostOnce
  AckedReachedAll
PROPERTY ImplementsFanout
\* Every process may have ended.
CHECK_DEADLOCK FALSE
