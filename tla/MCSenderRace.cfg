\* The collections change while one consumer sends.
CONSTANTS
  author = author  reader = reader  guest = guest  phone = phone  space = space  chat = chat
  t1 = t1  t2 = t2  t3 = t3  w1 = w1  w2 = w2
  NoDoc = NoDoc  NoAccount = NoAccount  NoMessage = NoMessage
  Account = {author, reader, guest}
  Peer = {phone}
  Token = {t1, t2, t3}
  SpaceKey = {space}
  TopicName = {chat}
  Provider <- Providers
  WirePlatform <- OddPlatforms
  Message <- OneNote
  Worker <- OneWorker
  BatchSize = 2
  BufferSize = 1
  InitialTokens <- MixedRegistries
  InitialAccounts <- Subscribed
  MaxChanges = 2
SPECIFICATION Spec
INVARIANTS
  TypeOK
  OfferedAtMostOnce
  StableTokensReached
  OnlyDueTokens
  OnlyJudgedRemoved
PROPERTY ImplementsFanout
\* Every message may have been sent.
CHECK_DEADLOCK FALSE
