\* Two consumers share the buffer of invalid tokens.
CONSTANTS
  author = author  reader = reader  guest = guest  phone = phone  space = space  chat = chat
  t1 = t1  t2 = t2  t3 = t3  w1 = w1  w2 = w2
  NoDoc = NoDoc  NoAccount = NoAccount  NoMessage = NoMessage
  Account = {author, reader}
  Peer = {phone}
  Token = {t1, t2}
  SpaceKey = {space}
  TopicName = {chat}
  Provider <- Providers
  WirePlatform <- OddPlatforms
  Message <- NoteAndSilent
  Worker <- TwoWorkers
  BatchSize = 2
  BufferSize = 1
  InitialTokens <- SmallRegistry
  InitialAccounts <- Subscribed
  MaxChanges = 0
SPECIFICATION FairSpec
INVARIANT VerdictsKept
PROPERTIES
  SendMessageReturns
  BufferDrained
\* Every message may have been sent.
CHECK_DEADLOCK FALSE
