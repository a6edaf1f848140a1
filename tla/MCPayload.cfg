\* The content of one notification, from the request to the devices.
CONSTANTS
  t1 = t1  t2 = t2  t3 = t3
  payload = payload  signature = signature  empty = empty
  none = none  keyId = keyId  groupId = groupId
  Nil = Nil
  Null = Null
  EmptyBytes = empty
  EmptyText = none
  Token <- Tokens
  Content <- Contents
  Text <- Texts
  BatchSize = 1
SYMMETRY Symmetry
SPECIFICATION Spec
INVARIANTS
  SignedTogether
  ShownUnlessSilent
\* SendMessage returns.
CHECK_DEADLOCK FALSE
