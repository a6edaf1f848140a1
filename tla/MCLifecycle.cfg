\* One process, from its start to its end.
CONSTANTS
  w1 = w1  w2 = w2  w3 = w3  r1 = r1  r2 = r2
  Worker <- Workers
  Request <- Requests
SPECIFICATION FairSpec
INVARIANTS
  ConsumersServed
  RequestsServed
  GracefulExit
PROPERTY ProcessEnds
\* The process ends.
CHECK_DEADLOCK FALSE
