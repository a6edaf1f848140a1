\* Every method, with requests of this release and of newer ones.
CONSTANTS
  empty = empty  short = short  long = long  longest = longest
  Empty = empty
  Blob <- Blobs
  BlobLen <- Lengths
  Request <- Requests
  NewField <- Added
  Retyped <- Changed
  Response <- Responses
SPECIFICATION Spec
INVARIANTS
  RequestIntact
  AnswerIntact
  CompatibleServed
\* The call is over.
CHECK_DEADLOCK FALSE
