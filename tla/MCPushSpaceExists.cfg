\* A second request to create a space.
CONSTANTS
  ann = ann  bob = bob  phone = phone  tablet = tablet  space = space  chat = chat
  t1 = t1  t2 = t2  h1 = h1  h2 = h2  h3 = h3
  NoDoc = NoDoc  NoAccount = NoAccount  NoRequest = NoRequest
  Account = {ann, bob}
  SerialAccount = {ann}
  Peer = {phone, tablet}
  Token = {t1, t2}
  SpaceKey = {space}
  TopicName = {chat, ann}
  Request <- SpaceRequests
  Handler = {h1, h2}
SYMMETRY Symmetry
SPECIFICATION Spec
PROPERTY ExistingSpaceReported
\* Every request may have been answered.
CHECK_DEADLOCK FALSE
