----------------------------- MODULE PushProofs -----------------------------
(***************************************************************************)
(* What a request may do, for any accounts, devices, tokens, spaces and    *)
(* topics, any set of requests, and any number of handlers that serve them *)
(* concurrently, with commands that fail or lose their answers and         *)
(* handlers that die.                                                      *)
(***************************************************************************)
EXTENDS Push, TLAPS

\* A handler that is past its start has a request.
Received ==
  \A h \in Handler : at[h] # "waiting" => req[h] \in Request

TypeInv == TypeOK /\ Received

-----------------------------------------------------------------------------
\* The topics of a request are topics, without the signatures.
LEMMA ConvertTopicsType ==
  ASSUME NEW r \in Request
  PROVE  ConvertTopics(r) \in SUBSET Topic
BY PushAssumption DEF RequestType, SignedTopic, ConvertTopics, NewTopic, Topic

\* The fields of a request that the commands use.
LEMMA RequestFields ==
  ASSUME NEW r \in Request
  PROVE  /\ r.rpc \in Rpc
         /\ r.account \in Account
         /\ r.peer \in Peer
         /\ r.token \in Token
         /\ r.platform \in Int
         /\ r.space \in SpaceKey
         /\ r.topics \in SUBSET SignedTopic
BY PushAssumption DEF RequestType

\* A platform of any width becomes one of domain.Platform.
LEMMA PlatformWraps ==
  ASSUME NEW wire \in Int
  PROVE  ToPlatform(wire) \in Platform
BY DEF ToPlatform, Platform

-----------------------------------------------------------------------------
\* A handler takes steps of its own only, and each step takes it further.
Alone(h) ==
  /\ at'[h] # at[h]
  /\ at[h] # "waiting" => at'[h] # "waiting" /\ req'[h] = req[h]
  /\ \A g \in Handler \ {h} :
       /\ at'[g] = at[g]
       /\ req'[g] = req[g]
       /\ read'[g] = read[g]
       /\ reply'[g] = reply[g]
       /\ g \in applied' <=> g \in applied

\* Every action of a handler is like that.
LEMMA StepAlone ==
  ASSUME TypeInv, NEW h \in Handler, HandlerStep(h)
  PROVE  Alone(h)
<1> USE DEF TypeInv, TypeOK, Alone
<1>1. CASE \E r \in Request : Receive(h, r)
  BY <1>1 DEF Receive
<1>2. CASE RefuseTopics(h)
  BY <1>2 DEF RefuseTopics, Serving, Refuse, Answer
<1>3. CASE SetToken(h)
  BY <1>3 DEF SetToken, Serving, Command, Answer
<1>4. CASE Revoke(h)
  BY <1>4 DEF Revoke, Serving, Command, Answer
<1>5. CASE Subscribe(h)
  BY <1>5 DEF Subscribe, Serving, Command, Answer
<1>6. CASE ListSubscriptions(h)
  BY <1>6 DEF ListSubscriptions, Serving, Refuse, Answer
<1>7. CASE UnsubscribeNothing(h)
  BY <1>7 DEF UnsubscribeNothing, Serving, Refuse, Answer
<1>8. CASE UnsubscribeRead(h)
  BY <1>8 DEF UnsubscribeRead, Serving, Refuse, Answer
<1>9. CASE UnsubscribeWrite(h)
  BY <1>9 DEF UnsubscribeWrite, Command, Answer
<1>10. CASE RefuseSpace(h)
  BY <1>10 DEF RefuseSpace, Serving, Refuse, Answer
<1>11. CASE CreateSpace(h)
  BY <1>11 DEF CreateSpace, Serving, Command, Answer
<1>12. CASE RemoveSpace(h)
  BY <1>12 DEF RemoveSpace, Serving, Command, Answer
<1>13. CASE RefuseMessage(h)
  BY <1>13 DEF RefuseMessage, Notifying, Serving, Refuse, Answer
<1>14. CASE NotifyNobody(h)
  BY <1>14 DEF NotifyNobody, Notifying, Serving, Refuse, Answer
<1>15. CASE Notify(h)
  BY <1>15 DEF Notify, Notifying, Serving, Command, Answer
<1>16. CASE Panic(h) \/ Crash(h)
  BY <1>16 DEF Panic, Crash, Serving, Die
<1> QED BY <1>1, <1>2, <1>3, <1>4, <1>5, <1>6, <1>7, <1>8, <1>9, <1>10, <1>11,
           <1>12, <1>13, <1>14, <1>15, <1>16 DEF HandlerStep

-----------------------------------------------------------------------------
\* At first nobody was asked anything.
LEMMA TypeInit == Init => TypeInv
BY DEF Init, TypeInv, TypeOK, Received, TokenCollType, AccountCollType,
       SpaceCollType, Reply

\* What a step must keep for TypeInv, of the handlers and of the collections.
HandlersTyped ==
  /\ req \in [Handler -> Request \cup {NoRequest}]
  /\ at \in [Handler -> {"waiting", "serving", "writing", "done", "dead"}]
  /\ read \in [Handler -> SUBSET Topic]
  /\ reply \in [Handler -> Reply \cup {"none"}]
  /\ applied \in SUBSET Handler

MessageType == [id : Handler, topics : SUBSET Topic, silent : BOOLEAN,
                ignoreAccountId : Account \cup {NoAccount}]

CollsTyped ==
  /\ tokenColl \in TokenCollType
  /\ accountColl \in AccountCollType
  /\ spaceColl \in SpaceCollType
  /\ queued \in SUBSET MessageType

\* Answering keeps the types of the handlers.
LEMMA AnswerTyped ==
  ASSUME HandlersTyped, NEW h \in Handler, NEW result \in Reply,
         Answer(h, result), UNCHANGED <<req, read>>,
         applied' \in SUBSET Handler
  PROVE  HandlersTyped'
BY DEF HandlersTyped, Answer

\* The message that a request becomes.
LEMMA QueuedMessageType ==
  ASSUME TypeInv, NEW h \in Handler, at[h] # "waiting"
  PROVE  QueuedMessage(h) \in MessageType
<1>1. req[h] \in Request
  BY DEF TypeInv, Received
<1>2. FilteredTopics(req[h]) \in SUBSET Topic
  BY <1>1, ConvertTopicsType DEF FilteredTopics
<1>3. req[h].account \in Account
  BY <1>1, RequestFields
<1> QED BY <1>2, <1>3 DEF QueuedMessage, MessageType, IsSilent

\* Steps keep the types of the handlers.
LEMMA HandlersNext ==
  ASSUME TypeInv, NEW h \in Handler, HandlerStep(h)
  PROVE  HandlersTyped'
<1>0. HandlersTyped
  BY DEF TypeInv, TypeOK, HandlersTyped
<1>1. ASSUME NEW r \in Request, Receive(h, r) PROVE HandlersTyped'
  BY <1>0, <1>1 DEF Receive, HandlersTyped
<1>2. ASSUME NEW result \in Reply, Refuse(h, result) PROVE HandlersTyped'
  <2>1. applied' \in SUBSET Handler
    BY <1>0, <1>2 DEF Refuse, HandlersTyped
  <2> QED BY <1>0, <1>2, <2>1, AnswerTyped DEF Refuse
<1>3. ASSUME NEW success \in Reply, NEW failure \in Reply,
             UNCHANGED <<req, read>>,
             Answer(h, success) \/ Answer(h, failure),
             applied' = applied \cup {h} \/ applied' = applied
      PROVE  HandlersTyped'
  <2>1. applied' \in SUBSET Handler
    BY <1>0, <1>3 DEF HandlersTyped
  <2> QED BY <1>0, <1>3, <2>1, AnswerTyped
<1>4. {"Ok", "InvalidSignature", "InvalidTopicSignature", "Unexpected"} \subseteq Reply
  BY DEF Reply
<1>5. CASE RefuseTopics(h)
  BY <1>2, <1>4, <1>5 DEF RefuseTopics
<1>6. CASE SetToken(h)
  BY <1>3, <1>4, <1>6 DEF SetToken, Command
<1>7. CASE Revoke(h)
  BY <1>3, <1>4, <1>7 DEF Revoke, Command
<1>8. CASE Subscribe(h)
  BY <1>3, <1>4, <1>8 DEF Subscribe, Command
<1>9. CASE ListSubscriptions(h)
  BY <1>2, <1>4, <1>9 DEF ListSubscriptions
<1>10. CASE UnsubscribeNothing(h)
  BY <1>2, <1>4, <1>10 DEF UnsubscribeNothing
<1>11. CASE UnsubscribeRead(h)
  <2>1. CASE Refuse(h, "Unexpected")
    BY <1>2, <1>4, <2>1
  <2>2. GetTopics(req[h].account) \in SUBSET Topic
    <3>1. req[h].account \in Account
      BY <1>11, RequestFields DEF UnsubscribeRead, Serving, TypeInv, Received
    <3> QED BY <3>1 DEF GetTopics, TypeInv, TypeOK, AccountCollType
  <2> QED BY <1>0, <1>11, <2>1, <2>2 DEF UnsubscribeRead, HandlersTyped
<1>12. CASE UnsubscribeWrite(h)
  BY <1>3, <1>4, <1>12 DEF UnsubscribeWrite, Command
<1>13. CASE RefuseSpace(h)
  BY <1>2, <1>4, <1>13 DEF RefuseSpace
<1>14. CASE CreateSpace(h)
  BY <1>3, <1>4, <1>14 DEF CreateSpace, Command
<1>15. CASE RemoveSpace(h)
  BY <1>3, <1>4, <1>15 DEF RemoveSpace, Command
<1>16. CASE RefuseMessage(h)
  BY <1>2, <1>4, <1>16 DEF RefuseMessage
<1>17. CASE NotifyNobody(h)
  BY <1>2, <1>4, <1>17 DEF NotifyNobody
<1>18. CASE Notify(h)
  BY <1>3, <1>4, <1>18 DEF Notify, Command
<1>19. CASE Panic(h) \/ Crash(h)
  BY <1>0, <1>19 DEF Panic, Crash, Die, HandlersTyped
<1> QED BY <1>1, <1>5, <1>6, <1>7, <1>8, <1>9, <1>10, <1>11, <1>12, <1>13,
           <1>14, <1>15, <1>16, <1>17, <1>18, <1>19 DEF HandlerStep

-----------------------------------------------------------------------------
(***************************************************************************)
(* What a step does to the collections and the queue: nothing, or what one *)
(* command does that belongs to its request.                               *)
(***************************************************************************)
TokenEffect(h) ==
  \/ UNCHANGED tokenColl
  \/ SetToken(h) /\ AddToken(req[h].token, req[h].account, req[h].peer, ToPlatform(req[h].platform))
  \/ Revoke(h) /\ RevokeToken(req[h].account, req[h].peer)

AccountEffect(h) ==
  \/ UNCHANGED accountColl
  \/ Subscribe(h) /\ SetAccountTopics(req[h].account, ConvertTopics(req[h]))
  \/ /\ UnsubscribeWrite(h)
     /\ SetAccountTopics(req[h].account, read[h] \ ConvertTopics(req[h]))

SpaceEffect(h) ==
  \/ UNCHANGED spaceColl
  \/ CreateSpace(h) /\ Create(req[h].space, req[h].account)
  \/ RemoveSpace(h) /\ Remove(req[h].space, req[h].account)

QueueEffect(h) ==
  \/ UNCHANGED queued
  \/ Notify(h) /\ queued' = queued \cup {QueuedMessage(h)}

\* Every step has one of these effects on each of them.
LEMMA StepEffects ==
  ASSUME NEW h \in Handler, HandlerStep(h)
  PROVE  TokenEffect(h) /\ AccountEffect(h) /\ SpaceEffect(h) /\ QueueEffect(h)
<1> USE DEF TokenEffect, AccountEffect, SpaceEffect, QueueEffect, collVars
<1>1. CASE \E r \in Request : Receive(h, r)
  BY <1>1 DEF Receive
<1>2. CASE RefuseTopics(h) \/ ListSubscriptions(h) \/ UnsubscribeNothing(h)
  BY <1>2 DEF RefuseTopics, ListSubscriptions, UnsubscribeNothing, Refuse
<1>3. CASE RefuseSpace(h) \/ RefuseMessage(h) \/ NotifyNobody(h)
  BY <1>3 DEF RefuseSpace, RefuseMessage, NotifyNobody, Refuse
<1>4. CASE UnsubscribeRead(h)
  BY <1>4 DEF UnsubscribeRead, Refuse
<1>5. CASE SetToken(h)
  BY <1>5 DEF SetToken, Command
<1>6. CASE Revoke(h)
  BY <1>6 DEF Revoke, Command
<1>7. CASE Subscribe(h)
  BY <1>7 DEF Subscribe, Command
<1>8. CASE UnsubscribeWrite(h)
  BY <1>8 DEF UnsubscribeWrite, Command
<1>9. CASE CreateSpace(h)
  BY <1>9 DEF CreateSpace, Command
<1>10. CASE RemoveSpace(h)
  BY <1>10 DEF RemoveSpace, Command
<1>11. CASE Notify(h)
  BY <1>11 DEF Notify, Command
<1>12. CASE Panic(h) \/ Crash(h)
  BY <1>12 DEF Panic, Crash, Die
<1> QED BY <1>1, <1>2, <1>3, <1>4, <1>5, <1>6, <1>7, <1>8, <1>9, <1>10, <1>11, <1>12
        DEF HandlerStep

\* None of these effects breaks a type.
LEMMA CollsNext ==
  ASSUME TypeInv, NEW h \in Handler, HandlerStep(h)
  PROVE  CollsTyped'
<1>0. CollsTyped
  BY DEF TypeInv, TypeOK, CollsTyped, MessageType
<1>1. at[h] # "waiting" => req[h] \in Request
  BY DEF TypeInv, Received
<1>2. read[h] \in SUBSET Topic
  BY DEF TypeInv, TypeOK
<1>3. tokenColl' \in TokenCollType
  <2>1. CASE SetToken(h) /\ AddToken(req[h].token, req[h].account, req[h].peer,
                                     ToPlatform(req[h].platform))
    <3>1. req[h] \in Request
      BY <1>1, <2>1 DEF SetToken, Serving
    <3>2. [accountId |-> req[h].account, peerId |-> req[h].peer,
           platform |-> ToPlatform(req[h].platform), status |-> "valid"] \in TokenDoc
      BY <3>1, RequestFields, PlatformWraps DEF TokenDoc, TokenStatus
    <3> QED BY <1>0, <2>1, <3>2 DEF AddToken, CollsTyped, TokenCollType
  <2>2. CASE Revoke(h) /\ RevokeToken(req[h].account, req[h].peer)
    BY <1>0, <2>2 DEF RevokeToken, CollsTyped, TokenCollType
  <2>3. CASE UNCHANGED tokenColl
    BY <1>0, <2>3 DEF CollsTyped
  <2> QED BY <2>1, <2>2, <2>3, StepEffects DEF TokenEffect
<1>4. accountColl' \in AccountCollType
  <2>1. CASE Subscribe(h) /\ SetAccountTopics(req[h].account, ConvertTopics(req[h]))
    <3>1. ConvertTopics(req[h]) \in SUBSET Topic
      BY <1>1, <2>1, ConvertTopicsType DEF Subscribe, Serving
    <3> QED BY <1>0, <2>1, <3>1 DEF SetAccountTopics, CollsTyped, AccountCollType
  <2>2. CASE SetAccountTopics(req[h].account, read[h] \ ConvertTopics(req[h]))
    <3>1. read[h] \ ConvertTopics(req[h]) \in SUBSET Topic
      BY <1>2
    <3> QED BY <1>0, <2>2, <3>1 DEF SetAccountTopics, CollsTyped, AccountCollType
  <2>3. CASE UNCHANGED accountColl
    BY <1>0, <2>3 DEF CollsTyped
  <2> QED BY <2>1, <2>2, <2>3, StepEffects DEF AccountEffect
<1>5. spaceColl' \in SpaceCollType
  <2>1. CASE CreateSpace(h) /\ Create(req[h].space, req[h].account)
    <3>1. req[h].account \in Account
      BY <1>1, <2>1, RequestFields DEF CreateSpace, Serving
    <3> QED BY <1>0, <2>1, <3>1 DEF Create, CollsTyped, SpaceCollType
  <2>2. CASE Remove(req[h].space, req[h].account)
    BY <1>0, <2>2 DEF Remove, CollsTyped, SpaceCollType
  <2>3. CASE UNCHANGED spaceColl
    BY <1>0, <2>3 DEF CollsTyped
  <2> QED BY <2>1, <2>2, <2>3, StepEffects DEF SpaceEffect
<1>6. queued' \in SUBSET MessageType
  <2>1. CASE Notify(h) /\ queued' = queued \cup {QueuedMessage(h)}
    BY <1>0, <2>1, QueuedMessageType DEF Notify, Notifying, Serving, CollsTyped
  <2>2. CASE UNCHANGED queued
    BY <1>0, <2>2 DEF CollsTyped
  <2> QED BY <2>1, <2>2, StepEffects DEF QueueEffect
<1> QED BY <1>3, <1>4, <1>5, <1>6 DEF CollsTyped

\* TypeInv is inductive.
LEMMA TypeNext == TypeInv /\ [Next]_vars => TypeInv'
<1> SUFFICES ASSUME TypeInv, [Next]_vars PROVE TypeInv'
  OBVIOUS
<1>1. ASSUME NEW h \in Handler, HandlerStep(h) PROVE TypeInv'
  <2>1. HandlersTyped' /\ CollsTyped'
    BY <1>1, HandlersNext, CollsNext
  <2>2. Received'
    <3>1. ASSUME NEW r \in Request, Receive(h, r) PROVE Received'
      BY <3>1 DEF Receive, Received, TypeInv, TypeOK
    <3>2. CASE at[h] # "waiting"
      BY <1>1, <3>2, StepAlone DEF Alone, Received, TypeInv
    <3>3. CASE at[h] = "waiting"
      BY <1>1, <3>1, <3>3 DEF HandlerStep, RefuseTopics, SetToken, Revoke, Subscribe,
           ListSubscriptions, UnsubscribeNothing, UnsubscribeRead, UnsubscribeWrite,
           RefuseSpace, CreateSpace, RemoveSpace, RefuseMessage, NotifyNobody,
           Notify, Notifying, Panic, Crash, Serving
    <3> QED BY <3>2, <3>3
  <2> QED BY <2>1, <2>2 DEF TypeInv, TypeOK, HandlersTyped, CollsTyped, MessageType
<1>2. CASE UNCHANGED vars
  BY <1>2 DEF vars, collVars, TypeInv, TypeOK, Received
<1> QED BY <1>1, <1>2 DEF Next

\* The invariant that the other theorems use.
LEMMA Typed == Spec => []TypeInv
BY TypeInit, TypeNext, PTL DEF Spec

(***************************************************************************)
(* The collections, the queue and the handlers keep their types: no        *)
(* platform of a request is stored that does not fit its byte.             *)
(***************************************************************************)
THEOREM PushTypeCorrect == Spec => []TypeOK
BY Typed, PTL DEF TypeInv

-----------------------------------------------------------------------------
(***************************************************************************)
(* A token disappears only on behalf of the account and the device that    *)
(* hold it at that moment: a token that moved to another account between   *)
(* two requests is out of the reach of its former owner.                   *)
(***************************************************************************)
THEOREM TokensRevokedByOwner == Spec => OnlyOwnTokenRevoked
<1>1. ASSUME TypeInv, NEW h \in Handler, HandlerStep(h),
             NEW t \in Token, tokenColl[t] # NoDoc, tokenColl'[t] = NoDoc
      PROVE  \E g \in Asked(tokenColl[t].accountId, {"RevokeToken"}) :
               at[g] # at'[g] /\ req[g].peer = tokenColl[t].peerId
  <2>1. tokenColl \in [Token -> TokenDoc \cup {NoDoc}]
    BY <1>1 DEF TypeInv, TypeOK, TokenCollType
  <2>2. ~AddToken(req[h].token, req[h].account, req[h].peer, ToPlatform(req[h].platform))
        \/ ~SetToken(h)
    <3> SUFFICES ASSUME SetToken(h),
                        AddToken(req[h].token, req[h].account, req[h].peer,
                                 ToPlatform(req[h].platform))
                 PROVE  FALSE
      OBVIOUS
    <3> DEFINE doc == [accountId |-> req[h].account, peerId |-> req[h].peer,
                       platform |-> ToPlatform(req[h].platform), status |-> "valid"]
    <3>1. req[h] \in Request
      BY <1>1 DEF SetToken, Serving, TypeInv, Received
    <3>2. doc \in TokenDoc
      BY <3>1, RequestFields, PlatformWraps DEF TokenDoc, TokenStatus
    <3>3. doc # NoDoc
      BY <3>2, DomainAssumption
    <3>4. tokenColl' = [tokenColl EXCEPT ![req[h].token] = doc]
      BY DEF AddToken
    <3> HIDE DEF doc
    <3> QED BY <1>1, <2>1, <3>3, <3>4
  <2>3. Revoke(h) /\ RevokeToken(req[h].account, req[h].peer)
    BY <1>1, <2>2, StepEffects DEF TokenEffect
  <2>4. t \in DeviceTokens(req[h].account, req[h].peer)
    BY <1>1, <2>1, <2>3 DEF RevokeToken
  <2>5. tokenColl[t].accountId = req[h].account /\ tokenColl[t].peerId = req[h].peer
    BY <2>4 DEF DeviceTokens
  <2>6. h \in Asked(tokenColl[t].accountId, {"RevokeToken"})
    BY <2>3, <2>5 DEF Revoke, Serving, Asked
  <2>7. at[h] # at'[h]
    BY <1>1, StepAlone DEF Alone
  <2> QED BY <2>5, <2>6, <2>7
<1>2. TypeInv /\ Next => OnlyOwnTokenRevokedNext
  BY <1>1 DEF Next, OnlyOwnTokenRevokedNext
<1> QED BY <1>2, Typed, PTL DEF Spec, OnlyOwnTokenRevoked

(***************************************************************************)
(* A space stays with its author until the author asks to remove it, with  *)
(* a signature of the space key, whatever else is created or removed.      *)
(***************************************************************************)
THEOREM AuthorsKeepTheirSpaces == Spec => AuthorsStand
<1>1. ASSUME TypeInv, NEW h \in Handler, HandlerStep(h),
             NEW k \in SpaceKey, spaceColl[k] # NoDoc, spaceColl'[k] # spaceColl[k]
      PROVE  /\ spaceColl'[k] = NoDoc
             /\ \E g \in Asked(spaceColl[k], {"RemoveSpace"}) :
                  at[g] # at'[g] /\ req[g].space = k /\ req[g].signature = "valid"
  <2>1. spaceColl \in [SpaceKey -> Account \cup {NoDoc}]
    BY <1>1 DEF TypeInv, TypeOK, SpaceCollType
  <2>2. RemoveSpace(h) /\ Remove(req[h].space, req[h].account)
    BY <1>1, <2>1, StepEffects DEF SpaceEffect, Create
  <2>3. req[h].space = k /\ spaceColl[k] = req[h].account /\ spaceColl'[k] = NoDoc
    BY <1>1, <2>1, <2>2 DEF Remove
  <2>4. h \in Asked(spaceColl[k], {"RemoveSpace"}) /\ req[h].signature = "valid"
    BY <2>2, <2>3 DEF RemoveSpace, Serving, Asked
  <2>5. at[h] # at'[h]
    BY <1>1, StepAlone DEF Alone
  <2> QED BY <2>3, <2>4, <2>5
<1>2. TypeInv /\ Next => AuthorsStandNext
  BY <1>1 DEF Next, AuthorsStandNext
<1> QED BY <1>2, Typed, PTL DEF Spec, AuthorsStand

-----------------------------------------------------------------------------
(***************************************************************************)
(* An account presented a topic with a valid signature.  What Unsubscribe  *)
(* has read and not yet written must be such topics, too.                  *)
(***************************************************************************)
Presented(a, t) ==
  \E h \in Asked(a, {"Subscribe", "SubscribeAll"}) :
    [spaceKey |-> t.spaceKey, name |-> t.name, signature |-> "valid"] \in req[h].topics

SignedInv ==
  /\ \A a \in Account : \A t \in accountColl[a] : Presented(a, t)
  /\ \A h \in Handler : at[h] = "writing" =>
       \A t \in read[h] : Presented(req[h].account, t)

\* A topic that was presented stays so: no request is forgotten.
LEMMA PresentedStays ==
  ASSUME TypeInv, NEW h \in Handler, HandlerStep(h), NEW a, NEW t, Presented(a, t)
  PROVE  Presented(a, t)'
<1>1. PICK g \in Asked(a, {"Subscribe", "SubscribeAll"}) :
        [spaceKey |-> t.spaceKey, name |-> t.name, signature |-> "valid"] \in req[g].topics
  BY DEF Presented
<1>2. at'[g] # "waiting" /\ req'[g] = req[g]
  BY <1>1, StepAlone DEF Alone, Asked
<1> QED BY <1>1, <1>2 DEF Presented, Asked

\* The topics of a request that passed convertTopics were signed.
LEMMA ConvertedSigned ==
  ASSUME NEW r \in Request, BadTopics(r) = {}, NEW t \in ConvertTopics(r)
  PROVE  [spaceKey |-> t.spaceKey, name |-> t.name, signature |-> "valid"] \in r.topics
<1>1. PICK u \in r.topics : t = [spaceKey |-> u.spaceKey, name |-> u.name]
  BY DEF ConvertTopics, NewTopic
<1>2. u.signature = "valid"
  BY DEF BadTopics
<1>3. u \in SignedTopic
  BY RequestFields
<1>4. u = [spaceKey |-> u.spaceKey, name |-> u.name, signature |-> "valid"]
  BY <1>2, <1>3 DEF SignedTopic
<1> QED BY <1>1, <1>4

\* Only UnsubscribeRead gets a handler to the point where it writes.
LEMMA WritingRead ==
  ASSUME TypeInv, NEW h \in Handler, HandlerStep(h), at'[h] = "writing"
  PROVE  /\ read' = [read EXCEPT ![h] = GetTopics(req[h].account)]
         /\ at[h] = "serving"
         /\ req[h].rpc = "Unsubscribe"
         /\ UNCHANGED <<accountColl, req>>
<1> USE DEF TypeInv, TypeOK, collVars
<1>1. (\A result : ~Answer(h, result)) /\ ~Die(h)
  BY DEF Answer, Die
<1> QED BY <1>1 DEF HandlerStep, Receive, RefuseTopics, SetToken, Revoke, Subscribe,
          ListSubscriptions, UnsubscribeNothing, UnsubscribeRead, UnsubscribeWrite,
          RefuseSpace, CreateSpace, RemoveSpace, RefuseMessage, NotifyNobody,
          Notify, Panic, Crash, Refuse, Command, Serving

\* SignedInv is inductive.
LEMMA SignedNext == TypeInv /\ SignedInv /\ [Next]_vars => SignedInv'
<1> SUFFICES ASSUME TypeInv, SignedInv, [Next]_vars PROVE SignedInv'
  OBVIOUS
<1>1. ASSUME NEW h \in Handler, HandlerStep(h) PROVE SignedInv'
  <2>1. ASSUME NEW a \in Account, NEW t \in accountColl'[a]
        PROVE  Presented(a, t)'
    <3>1. accountColl \in [Account -> SUBSET Topic]
      BY DEF TypeInv, TypeOK, AccountCollType
    <3>2. CASE t \in accountColl[a]
      BY <1>1, <3>2, PresentedStays DEF SignedInv
    <3>3. CASE /\ t \notin accountColl[a]
               /\ Subscribe(h)
               /\ SetAccountTopics(req[h].account, ConvertTopics(req[h]))
      <4>1. req[h].account = a /\ t \in ConvertTopics(req[h])
        BY <2>1, <3>1, <3>3 DEF SetAccountTopics
      <4>2. h \in Asked(a, {"Subscribe", "SubscribeAll"}) /\ req[h] \in Request
        BY <3>3, <4>1 DEF Subscribe, Serving, Asked, TypeInv, Received
      <4>3. BadTopics(req[h]) = {}
        BY <3>3 DEF Subscribe, TopicsAccepted
      <4>4. Presented(a, t)
        BY <4>1, <4>2, <4>3, ConvertedSigned DEF Presented
      <4> QED BY <1>1, <4>4, PresentedStays
    <3>4. CASE /\ t \notin accountColl[a]
               /\ UnsubscribeWrite(h)
               /\ SetAccountTopics(req[h].account, read[h] \ ConvertTopics(req[h]))
      <4>1. req[h].account = a /\ t \in read[h]
        BY <2>1, <3>1, <3>4 DEF SetAccountTopics
      <4>2. Presented(a, t)
        BY <3>4, <4>1 DEF UnsubscribeWrite, SignedInv
      <4> QED BY <1>1, <4>2, PresentedStays
    <3> QED BY <1>1, <2>1, <3>2, <3>3, <3>4, StepEffects DEF AccountEffect
  <2>2. ASSUME NEW g \in Handler, at'[g] = "writing", NEW t \in read'[g]
        PROVE  Presented(req[g].account, t)' /\ req'[g] = req[g]
    <3>1. CASE g = h
      <4>1. t \in accountColl[req[h].account] /\ req'[h] = req[h] /\ at[h] = "serving"
        BY <1>1, <2>2, <3>1, WritingRead DEF GetTopics, TypeInv, TypeOK
      <4>2. req[h].account \in Account
        BY <4>1, RequestFields DEF TypeInv, Received
      <4>3. Presented(req[h].account, t)
        BY <4>1, <4>2 DEF SignedInv
      <4> QED BY <1>1, <3>1, <4>1, <4>3, PresentedStays
    <3>2. CASE g # h
      <4>1. at[g] = "writing" /\ read'[g] = read[g] /\ req'[g] = req[g]
        BY <1>1, <2>2, <3>2, StepAlone DEF Alone
      <4>2. Presented(req[g].account, t)
        BY <2>2, <4>1 DEF SignedInv
      <4> QED BY <1>1, <4>1, <4>2, PresentedStays
    <3> QED BY <3>1, <3>2
  <2> QED BY <2>1, <2>2 DEF SignedInv
<1>2. CASE UNCHANGED vars
  BY <1>2 DEF vars, collVars, SignedInv, Presented, Asked
<1> QED BY <1>1, <1>2 DEF Next

(***************************************************************************)
(* Every subscription goes back to a topic that the same account presented *)
(* with a valid signature, also one that Unsubscribe wrote back.           *)
(***************************************************************************)
THEOREM SubscriptionsSigned == Spec => []SubscribedTopicsSigned
<1>1. Init => SignedInv
  BY DEF Init, SignedInv
<1>2. SignedInv => SubscribedTopicsSigned
  BY DEF SignedInv, Presented, SubscribedTopicsSigned
<1> QED BY <1>1, <1>2, SignedNext, Typed, PTL DEF Spec

-----------------------------------------------------------------------------
\* A queued message names the handler whose request it is.
SoundInv ==
  /\ \A m \in queued : at[m.id] # "waiting"
  /\ QueuedMessagesSound

\* What makes a message sound, of one message and its request.
SoundMessage(m, r) ==
  /\ r.message # "invalid"
  /\ \A t \in m.topics :
       [spaceKey |-> t.spaceKey, name |-> t.name, signature |-> "valid"] \in r.topics
  /\ IF m.silent
       THEN \A t \in m.topics : t.name = r.account
       ELSE r.message = "valid" /\ m.ignoreAccountId = r.account

\* The message that Notify adds is sound.
LEMMA NotifySound ==
  ASSUME TypeInv, NEW h \in Handler, Notify(h)
  PROVE  /\ at[h] # "waiting"
         /\ QueuedMessage(h).id = h
         /\ SoundMessage(QueuedMessage(h), req[h])
<1>1. at[h] # "waiting" /\ req[h] \in Request /\ BadTopics(req[h]) = {}
  BY DEF Notify, Notifying, Serving, TopicsAccepted, TypeInv, Received
<1>2. MessageAccepted(req[h])
  BY DEF Notify
<1>3. \A t \in FilteredTopics(req[h]) :
        /\ t \in ConvertTopics(req[h])
        /\ IsSilent(req[h]) => t.name = req[h].account
  BY DEF FilteredTopics
<1>4. \A t \in FilteredTopics(req[h]) :
        [spaceKey |-> t.spaceKey, name |-> t.name, signature |-> "valid"] \in req[h].topics
  BY <1>1, <1>3, ConvertedSigned
<1> QED BY <1>1, <1>2, <1>3, <1>4 DEF QueuedMessage, SoundMessage, MessageAccepted

\* SoundInv is inductive.
LEMMA SoundNext == TypeInv /\ SoundInv /\ [Next]_vars => SoundInv'
<1> SUFFICES ASSUME TypeInv, SoundInv, [Next]_vars PROVE SoundInv'
  OBVIOUS
<1>1. ASSUME NEW h \in Handler, HandlerStep(h) PROVE SoundInv'
  <2>1. ASSUME NEW m \in queued'
        PROVE  at'[m.id] # "waiting" /\ SoundMessage(m, req'[m.id])
    <3>1. CASE m \in queued
      <4>1. at[m.id] # "waiting" /\ SoundMessage(m, req[m.id]) /\ m.id \in Handler
        BY <3>1 DEF SoundInv, QueuedMessagesSound, SoundMessage, TypeInv, TypeOK
      <4>2. at'[m.id] # "waiting" /\ req'[m.id] = req[m.id]
        BY <1>1, <4>1, StepAlone DEF Alone
      <4> QED BY <4>1, <4>2
    <3>2. CASE Notify(h) /\ m = QueuedMessage(h)
      <4>1. at[h] # "waiting" /\ m.id = h /\ SoundMessage(m, req[h])
        BY <3>2, NotifySound
      <4>2. at'[h] # "waiting" /\ req'[h] = req[h]
        BY <1>1, <4>1, StepAlone DEF Alone
      <4> QED BY <4>1, <4>2
    <3> QED BY <1>1, <2>1, <3>1, <3>2, StepEffects DEF QueueEffect
  <2> QED BY <2>1 DEF SoundInv, QueuedMessagesSound, SoundMessage
<1>2. CASE UNCHANGED vars
  BY <1>2 DEF vars, SoundInv, QueuedMessagesSound
<1> QED BY <1>1, <1>2 DEF Next

(***************************************************************************)
(* A queued message was asked for: its topics were presented signed, a     *)
(* silent one is for the author's own topics, any other one has a signed   *)
(* message and leaves its author out.                                      *)
(***************************************************************************)
THEOREM QueuedMessagesAskedFor == Spec => []QueuedMessagesSound
<1>1. Init => SoundInv
  BY DEF Init, SoundInv, QueuedMessagesSound
<1>2. SoundInv => QueuedMessagesSound
  BY DEF SoundInv
<1> QED BY <1>1, <1>2, SoundNext, Typed, PTL DEF Spec

-----------------------------------------------------------------------------
\* Whether the answer of a handler is one to rely on.
Reliable(h) ==
  /\ reply[h] = "Ok" /\ HasWork(req[h]) => h \in applied
  /\ reply[h] \in {"InvalidSignature", "InvalidTopicSignature"} => h \notin applied

\* Nothing was answered or applied before the end.
AnswerInv ==
  \A h \in Handler : /\ at[h] # "done" => reply[h] = "none" /\ h \notin applied
                     /\ Reliable(h)

\* A request that is answered Ok without a command had nothing to do.
LEMMA NothingToDo ==
  ASSUME TypeInv, NEW h \in Handler,
         ListSubscriptions(h) \/ UnsubscribeNothing(h) \/ NotifyNobody(h)
  PROVE  ~HasWork(req[h])
<1>1. CASE ListSubscriptions(h)
  BY <1>1 DEF ListSubscriptions, Serving, HasWork
<1>2. CASE UnsubscribeNothing(h)
  BY <1>2 DEF UnsubscribeNothing, Serving, HasWork
<1>3. CASE NotifyNobody(h)
  <2>1. req[h].rpc \in {"Notify", "NotifySilent"} /\ FilteredTopics(req[h]) = {}
    BY <1>3 DEF NotifyNobody, Notifying, Serving
  <2>2. \A u \in req[h].topics : NewTopic(u.spaceKey, u.name) \in ConvertTopics(req[h])
    BY DEF ConvertTopics
  <2>3. \A t \in ConvertTopics(req[h]) : IsSilent(req[h]) /\ t.name # req[h].account
    BY <2>1 DEF FilteredTopics, ExistedSpaces
  <2>4. \A u \in req[h].topics : IsSilent(req[h]) /\ u.name # req[h].account
    BY <2>2, <2>3 DEF NewTopic
  <2> QED BY <2>1, <2>4 DEF HasWork, IsSilent
<1> QED BY <1>1, <1>2, <1>3

\* The handler that takes a step keeps AnswerInv of itself.
LEMMA AnswerStep ==
  ASSUME TypeInv, AnswerInv, NEW h \in Handler, HandlerStep(h)
  PROVE  /\ at'[h] # "done" => reply'[h] = "none" /\ h \notin applied'
         /\ Reliable(h)'
<1> USE DEF TypeInv, TypeOK, collVars
<1>0. at[h] # "done" => reply[h] = "none" /\ h \notin applied
  BY DEF AnswerInv
<1>1. ASSUME NEW r \in Request, Receive(h, r)
      PROVE  /\ at'[h] # "done" => reply'[h] = "none" /\ h \notin applied'
             /\ Reliable(h)'
  BY <1>0, <1>1 DEF Receive, Reliable
<1>2. ASSUME NEW result, Refuse(h, result), at[h] # "done",
             result = "Ok" => ~HasWork(req[h])
      PROVE  /\ at'[h] # "done" => reply'[h] = "none" /\ h \notin applied'
             /\ Reliable(h)'
  BY <1>0, <1>2 DEF Refuse, Answer, Reliable
<1>3. ASSUME NEW failure \in {"Ok", "Unexpected"}, at[h] # "done", UNCHANGED req,
             \/ applied' = applied \cup {h} /\ Answer(h, "Ok")
             \/ applied' = applied \cup {h} /\ Answer(h, failure)
             \/ applied' = applied /\ Answer(h, failure),
             failure = "Ok" => ~HasWork(req[h])
      PROVE  /\ at'[h] # "done" => reply'[h] = "none" /\ h \notin applied'
             /\ Reliable(h)'
  BY <1>0, <1>3 DEF Answer, Reliable
<1>4. CASE RefuseTopics(h)
  BY <1>2, <1>4 DEF RefuseTopics, Serving
<1>5. CASE SetToken(h)
  BY <1>3, <1>5 DEF SetToken, Serving, Command
<1>6. CASE Revoke(h)
  BY <1>3, <1>6 DEF Revoke, Serving, Command
<1>7. CASE Subscribe(h)
  BY <1>3, <1>7 DEF Subscribe, Serving, Command
<1>8. CASE ListSubscriptions(h)
  BY <1>2, <1>8, NothingToDo DEF ListSubscriptions, Serving
<1>9. CASE UnsubscribeNothing(h)
  BY <1>2, <1>9, NothingToDo DEF UnsubscribeNothing, Serving
<1>10. CASE UnsubscribeRead(h)
  <2>1. CASE Refuse(h, "Unexpected")
    BY <1>2, <1>10, <2>1 DEF UnsubscribeRead, Serving
  <2> QED BY <1>0, <1>10, <2>1 DEF UnsubscribeRead, Serving, Reliable
<1>11. CASE UnsubscribeWrite(h)
  BY <1>3, <1>11 DEF UnsubscribeWrite, Command
<1>12. CASE RefuseSpace(h)
  BY <1>2, <1>12 DEF RefuseSpace, Serving
<1>13. CASE CreateSpace(h)
  BY <1>3, <1>13 DEF CreateSpace, Serving, Command, HasWork, SpaceRpc
<1>14. CASE RemoveSpace(h)
  BY <1>3, <1>14 DEF RemoveSpace, Serving, Command, HasWork, SpaceRpc
<1>15. CASE RefuseMessage(h)
  BY <1>2, <1>15 DEF RefuseMessage, Notifying, Serving
<1>16. CASE NotifyNobody(h)
  BY <1>2, <1>16, NothingToDo DEF NotifyNobody, Notifying, Serving
<1>17. CASE Notify(h)
  BY <1>3, <1>17 DEF Notify, Notifying, Serving, Command
<1>18. CASE Panic(h) \/ Crash(h)
  BY <1>0, <1>18 DEF Panic, Crash, Serving, Die, Reliable
<1> QED BY <1>1, <1>4, <1>5, <1>6, <1>7, <1>8, <1>9, <1>10, <1>11, <1>12, <1>13,
           <1>14, <1>15, <1>16, <1>17, <1>18 DEF HandlerStep

\* AnswerInv is inductive.
LEMMA AnswerNext == TypeInv /\ AnswerInv /\ [Next]_vars => AnswerInv'
<1> SUFFICES ASSUME TypeInv, AnswerInv, [Next]_vars PROVE AnswerInv'
  OBVIOUS
<1>1. ASSUME NEW h \in Handler, HandlerStep(h), NEW g \in Handler
      PROVE  /\ at'[g] # "done" => reply'[g] = "none" /\ g \notin applied'
             /\ Reliable(g)'
  <2>1. CASE g = h
    BY <1>1, <2>1, AnswerStep
  <2>2. CASE g # h
    BY <1>1, <2>2, StepAlone DEF Alone, AnswerInv, Reliable
  <2> QED BY <2>1, <2>2
<1>2. CASE Next
  BY <1>1, <1>2 DEF Next, AnswerInv
<1>3. CASE UNCHANGED vars
  BY <1>3 DEF vars, AnswerInv, Reliable
<1> QED BY <1>2, <1>3

(***************************************************************************)
(* Ok means that the change was made, and a refused signature that nothing *)
(* was, although commands fail and their answers get lost.                 *)
(***************************************************************************)
THEOREM AnswersCanBeReliedOn == Spec => []AnswersReliable
<1>1. Init => AnswerInv
  BY DEF Init, AnswerInv, Reliable
<1>2. AnswerInv => AnswersReliable
  BY DEF AnswerInv, Reliable, AnswersReliable
<1> QED BY <1>1, <1>2, AnswerNext, Typed, PTL DEF Spec

-----------------------------------------------------------------------------
\* A handler between its request and its reply.
Active(h) == at[h] \in {"serving", "writing"}

(***************************************************************************)
(* A client that waits has one request at a time with the server, and what *)
(* its Unsubscribe read is still what the account has.                     *)
(***************************************************************************)
SerialInv ==
  /\ \A g, h \in Handler :
       Active(g) /\ Active(h) /\ req[g].account = req[h].account
         /\ req[h].account \in SerialAccount => g = h
  /\ \A h \in Handler :
       at[h] = "writing" =>
         /\ req[h].rpc = "Unsubscribe"
         /\ req[h].account \in SerialAccount => read[h] = accountColl[req[h].account]

\* The three requests about subscriptions.
SubscriptionRpc == {"Subscribe", "SubscribeAll", "Unsubscribe"}

\* The handlers of a request leave the others' documents alone.
LEMMA OwnDocument ==
  ASSUME TypeInv, NEW h \in Handler, HandlerStep(h), NEW a \in Account,
         accountColl'[a] # accountColl[a]
  PROVE  Active(h) /\ req[h].account = a
<1>1. accountColl \in [Account -> SUBSET Topic]
  BY DEF TypeInv, TypeOK, AccountCollType
<1> QED
  BY <1>1, StepEffects
     DEF AccountEffect, SetAccountTopics, Subscribe, UnsubscribeWrite, Serving, Active

\* A step takes a request that waits, or one that is active.
LEMMA StepFrom ==
  ASSUME TypeInv, NEW h \in Handler, HandlerStep(h)
  PROVE  \/ \E r \in Request : Receive(h, r)
         \/ Active(h) /\ UNCHANGED req
<1> USE DEF Active, Serving
<1>1. CASE \/ RefuseTopics(h) \/ ListSubscriptions(h) \/ UnsubscribeNothing(h)
           \/ RefuseSpace(h) \/ RefuseMessage(h) \/ NotifyNobody(h)
  BY <1>1 DEF RefuseTopics, ListSubscriptions, UnsubscribeNothing, RefuseSpace,
              RefuseMessage, NotifyNobody, Notifying, Refuse
<1>2. CASE \/ SetToken(h) \/ Revoke(h) \/ Subscribe(h) \/ UnsubscribeWrite(h)
           \/ CreateSpace(h) \/ RemoveSpace(h) \/ Notify(h)
  BY <1>2 DEF SetToken, Revoke, Subscribe, UnsubscribeWrite, CreateSpace,
              RemoveSpace, Notify, Notifying, Command
<1>3. CASE UnsubscribeRead(h)
  BY <1>3 DEF UnsubscribeRead, Refuse
<1>4. CASE Panic(h) \/ Crash(h)
  BY <1>4 DEF Panic, Crash, Die
<1> QED
  BY <1>1, <1>2, <1>3, <1>4 DEF HandlerStep

\* SerialInv is inductive: the one request of a client is alone with its document.
LEMMA SerialNext == TypeInv /\ SerialInv /\ [Next]_vars => SerialInv'
<1> SUFFICES ASSUME TypeInv, SerialInv, [Next]_vars PROVE SerialInv'
  OBVIOUS
<1>1. ASSUME NEW h \in Handler, HandlerStep(h) PROVE SerialInv'
  <2>1. \A g \in Handler \ {h} : at'[g] = at[g] /\ req'[g] = req[g] /\ read'[g] = read[g]
    BY <1>1, StepAlone DEF Alone
  <2>2. ASSUME NEW g \in Handler, g # h,
               Active(g)', Active(h)', req'[g].account = req'[h].account,
               req'[h].account \in SerialAccount
        PROVE  FALSE
    <3>1. Active(g) /\ req'[g] = req[g]
      BY <2>1, <2>2 DEF Active
    <3>2. CASE Active(h) /\ UNCHANGED req
      BY <2>2, <3>1, <3>2 DEF SerialInv
    <3>3. ASSUME NEW r \in Request, Receive(h, r) PROVE FALSE
      BY <2>2, <3>1, <3>3 DEF Receive, Active, TypeInv, TypeOK
    <3> QED
      BY <1>1, <3>2, <3>3, StepFrom
  <2>3. ASSUME NEW g \in Handler, at'[g] = "writing"
        PROVE  /\ req'[g].rpc = "Unsubscribe"
               /\ req'[g].account \in SerialAccount =>
                    read'[g] = accountColl'[req'[g].account]
    <3>1. CASE g = h
      <4>1. /\ read'[h] = accountColl[req[h].account] /\ req[h].rpc = "Unsubscribe"
            /\ UNCHANGED <<accountColl, req>>
        BY <1>1, <2>3, <3>1, WritingRead DEF GetTopics, TypeInv, TypeOK
      <4> QED
        BY <3>1, <4>1
    <3>2. CASE g # h
      <4>1. at[g] = "writing" /\ req'[g] = req[g] /\ read'[g] = read[g]
        BY <2>1, <2>3, <3>2
      <4>2. req[g].rpc = "Unsubscribe"
        BY <4>1 DEF SerialInv
      <4>3. ASSUME req[g].account \in SerialAccount
            PROVE  accountColl'[req[g].account] = accountColl[req[g].account]
        <5> SUFFICES ASSUME accountColl'[req[g].account] # accountColl[req[g].account]
                     PROVE  FALSE
          OBVIOUS
        <5>1. req[g].account \in Account
          BY <4>3, PushAssumption
        <5>2. Active(h) /\ req[h].account = req[g].account
          BY <1>1, <5>1, OwnDocument
        <5> QED
          BY <3>2, <4>1, <4>3, <5>2 DEF SerialInv, Active
      <4> QED
        BY <4>1, <4>2, <4>3 DEF SerialInv
    <3> QED
      BY <3>1, <3>2
  <2> QED
    BY <2>1, <2>2, <2>3 DEF SerialInv, Active
<1>2. CASE UNCHANGED vars
  BY <1>2 DEF vars, collVars, SerialInv, Active
<1> QED
  BY <1>1, <1>2 DEF Next

-----------------------------------------------------------------------------
\* The state of Subscriptions that Push shows.
Subs  == Restrict(accountColl, SerialAccount)
Requests == [h \in Handler |-> SubscriptionRequest(h)]
Done  == {h \in applied : SubscriptionRequest(h) # {}}

\* What the request of a client that waits asks for.
ChangeOf(r) ==
  [account |-> r.account,
   kind    |-> IF r.rpc = "Unsubscribe" THEN "remove" ELSE "replace",
   topics  |-> ConvertTopics(r)]

AboutSubscriptions(r) == r.account \in SerialAccount /\ r.rpc \in SubscriptionRpc

\* It is a change of the abstract specification.
LEMMA ChangeType ==
  ASSUME NEW r \in Request, AboutSubscriptions(r)
  PROVE  ChangeOf(r) \in Register!Change
BY ConvertTopicsType DEF ChangeOf, AboutSubscriptions, Register!Change

\* What Subscriptions sees of a request, before and after a step.
LEMMA RequestShown ==
  ASSUME NEW h \in Handler
  PROVE  /\ SubscriptionRequest(h) =
              IF at[h] # "waiting" /\ AboutSubscriptions(req[h])
                THEN {ChangeOf(req[h])} ELSE {}
         /\ SubscriptionRequest(h)' =
              IF at'[h] # "waiting" /\ AboutSubscriptions(req'[h])
                THEN {ChangeOf(req'[h])} ELSE {}
BY DEF SubscriptionRequest, AboutSubscriptions, SubscriptionRpc, ChangeOf

\* What an active handler does to what is shown: a change, or nothing.
Changes(h) ==
  \/ /\ req[h].rpc \in {"Subscribe", "SubscribeAll"}
     /\ SetAccountTopics(req[h].account, ConvertTopics(req[h]))
     /\ applied' = applied \cup {h}
  \/ /\ req[h].rpc = "Unsubscribe" /\ at[h] = "writing"
     /\ SetAccountTopics(req[h].account, read[h] \ ConvertTopics(req[h]))
     /\ applied' = applied \cup {h}

Leaves(h) ==
  /\ UNCHANGED accountColl
  /\ \/ UNCHANGED applied
     \/ req[h].rpc \notin SubscriptionRpc /\ applied' = applied \cup {h}

\* There is nothing else it does, command failed or not.
LEMMA ActiveEffect ==
  ASSUME TypeInv, SerialInv, NEW h \in Handler, HandlerStep(h), Active(h)
  PROVE  Changes(h) \/ Leaves(h)
<1> USE DEF Changes, Leaves, SubscriptionRpc, collVars
<1>1. CASE \E r \in Request : Receive(h, r)
  BY <1>1 DEF Receive, Active
<1>2. CASE \/ RefuseTopics(h) \/ ListSubscriptions(h) \/ UnsubscribeNothing(h)
           \/ RefuseSpace(h) \/ RefuseMessage(h) \/ NotifyNobody(h)
  BY <1>2 DEF RefuseTopics, ListSubscriptions, UnsubscribeNothing, RefuseSpace,
              RefuseMessage, NotifyNobody, Refuse
<1>3. CASE UnsubscribeRead(h)
  BY <1>3 DEF UnsubscribeRead, Refuse
<1>4. CASE SetToken(h) \/ Revoke(h)
  BY <1>4 DEF SetToken, Revoke, Serving, Command
<1>5. CASE CreateSpace(h) \/ RemoveSpace(h)
  BY <1>5 DEF CreateSpace, RemoveSpace, Serving, Command
<1>6. CASE Notify(h)
  BY <1>6 DEF Notify, Notifying, Serving, Command
<1>7. CASE Subscribe(h)
  BY <1>7 DEF Subscribe, Serving, Command
<1>8. CASE UnsubscribeWrite(h)
  BY <1>8 DEF UnsubscribeWrite, Command, SerialInv
<1>9. CASE Panic(h) \/ Crash(h)
  BY <1>9 DEF Panic, Crash, Die
<1> QED
  BY <1>1, <1>2, <1>3, <1>4, <1>5, <1>6, <1>7, <1>8, <1>9 DEF HandlerStep

\* A request that comes in is asked for, if it is a waiting client's.
LEMMA ReceiveShows ==
  ASSUME TypeInv, AnswerInv, NEW h \in Handler, NEW r \in Request, Receive(h, r)
  PROVE  Register!Next \/ UNCHANGED <<Subs, Requests, Done>>
<1>1. /\ at[h] = "waiting" /\ at'[h] = "serving" /\ req'[h] = r
      /\ UNCHANGED <<accountColl, applied>>
      /\ h \notin applied
      /\ \A g \in Handler \ {h} : at'[g] = at[g] /\ req'[g] = req[g]
  BY DEF Receive, collVars, TypeInv, TypeOK, AnswerInv
<1>2. /\ SubscriptionRequest(h) = {}
      /\ SubscriptionRequest(h)' = IF AboutSubscriptions(r) THEN {ChangeOf(r)} ELSE {}
  BY <1>1, RequestShown
<1>3. \A g \in Handler \ {h} : SubscriptionRequest(g)' = SubscriptionRequest(g)
  BY <1>1, RequestShown
<1>4. Subs' = Subs
  BY <1>1 DEF Subs
<1>5. Done' = Done
  BY <1>1, <1>3 DEF Done, TypeInv, TypeOK
<1>6. CASE AboutSubscriptions(r)
  <2>1. Requests' = [Requests EXCEPT ![h] = {ChangeOf(r)}]
    BY <1>2, <1>3, <1>6 DEF Requests
  <2>2. Requests[h] = {}
    BY <1>2 DEF Requests
  <2>3. Register!Ask(h, ChangeOf(r))
    BY <1>4, <1>5, <2>1, <2>2 DEF Register!Ask, Subs, Requests, Done
  <2> QED
    BY <1>6, <2>3, ChangeType DEF Register!Next
<1>7. CASE ~ AboutSubscriptions(r)
  <2>1. Requests' = Requests
    BY <1>2, <1>3, <1>7 DEF Requests
  <2> QED
    BY <1>4, <1>5, <2>1
<1> QED
  BY <1>6, <1>7

\* The command of such a request is its change, at what the account has then.
LEMMA ActiveShows ==
  ASSUME TypeInv, AnswerInv, SerialInv, NEW h \in Handler, HandlerStep(h),
         Active(h), UNCHANGED req
  PROVE  Register!Next \/ UNCHANGED <<Subs, Requests, Done>>
<1>1. /\ at[h] # "waiting" /\ at'[h] # "waiting" /\ h \notin applied
      /\ req[h] \in Request
      /\ \A g \in Handler \ {h} : at'[g] = at[g]
  BY StepAlone DEF Alone, Active, AnswerInv, TypeInv, Received
<1>2. \A g \in Handler : SubscriptionRequest(g)' = SubscriptionRequest(g)
  BY <1>1, RequestShown
<1>3. Requests' = Requests
  BY <1>2 DEF Requests
<1>4. accountColl \in [Account -> SUBSET Topic] /\ applied \subseteq Handler
      /\ SerialAccount \subseteq Account
  BY PushAssumption DEF TypeInv, TypeOK, AccountCollType
<1>5. CASE Leaves(h)
  <2>1. Subs' = Subs
    BY <1>5 DEF Leaves, Subs
  <2>2. Done' = Done
    BY <1>2, <1>4, <1>5, RequestShown DEF Leaves, Done, AboutSubscriptions
  <2> QED
    BY <1>3, <2>1, <2>2
<1>6. CASE Changes(h) /\ req[h].account \notin SerialAccount
  <2>1. Subs' = Subs
    BY <1>4, <1>6 DEF Changes, SetAccountTopics, Subs, Restrict
  <2>2. Done' = Done
    BY <1>2, <1>4, <1>6, RequestShown DEF Changes, Done, AboutSubscriptions
  <2> QED
    BY <1>3, <2>1, <2>2
<1>7. CASE Changes(h) /\ req[h].account \in SerialAccount
  <2>1. PICK c : c = ChangeOf(req[h])
    OBVIOUS
  <2>2. AboutSubscriptions(req[h]) /\ SubscriptionRequest(h) = {c}
    BY <1>1, <1>7, <2>1, RequestShown DEF Changes, AboutSubscriptions, SubscriptionRpc
  <2>3. /\ c \in Register!Change /\ c.account = req[h].account
        /\ c.kind = IF req[h].rpc = "Unsubscribe" THEN "remove" ELSE "replace"
        /\ c.topics = ConvertTopics(req[h])
    BY <1>1, <2>1, <2>2, ChangeType DEF ChangeOf
  <2>4. Done' = Done \cup {h} /\ h \notin Done
    BY <1>1, <1>2, <1>4, <1>7, <2>2 DEF Changes, Done
  <2>5. accountColl' =
          [accountColl EXCEPT ![c.account] =
             IF c.kind = "replace" THEN c.topics ELSE accountColl[c.account] \ c.topics]
    BY <1>7, <2>3 DEF Changes, SetAccountTopics, SerialInv
  <2>6. Subs' = [Subs EXCEPT ![c.account] =
                   IF c.kind = "replace" THEN c.topics ELSE Subs[c.account] \ c.topics]
    BY <1>4, <1>7, <2>3, <2>5 DEF Subs, Restrict
  <2>7. c \in Requests[h]
    BY <2>2 DEF Requests
  <2>8. Register!Apply(h, c)
    BY <1>3, <2>4, <2>6, <2>7 DEF Register!Apply, Subs, Requests, Done
  <2> QED
    BY <2>3, <2>8 DEF Register!Next
<1> QED
  BY <1>5, <1>6, <1>7, ActiveEffect

\* At first nothing is subscribed, asked or applied.
LEMMA RegisterInit == Init => Register!Init
<1> SUFFICES ASSUME Init PROVE Register!Init
  OBVIOUS
<1>1. \A h \in Handler : SubscriptionRequest(h) = {}
  BY DEF Init, SubscriptionRequest
<1>2. Restrict(accountColl, SerialAccount) = [a \in SerialAccount |-> {}]
  BY PushAssumption DEF Init, Restrict
<1> QED
  BY <1>1, <1>2 DEF Init, Register!Init

\* Every step of a handler is one of Subscriptions or does not show.
LEMMA RegisterNext ==
  TypeInv /\ AnswerInv /\ SerialInv /\ [Next]_vars
    => [Register!Next]_<<Subs, Requests, Done>>
<1> SUFFICES ASSUME TypeInv, AnswerInv, SerialInv, [Next]_vars
             PROVE  Register!Next \/ UNCHANGED <<Subs, Requests, Done>>
  OBVIOUS
<1>1. CASE UNCHANGED vars
  BY <1>1 DEF vars, collVars, Subs, Requests, Done, SubscriptionRequest
<1>2. CASE Next
  BY <1>2, StepFrom, ReceiveShows, ActiveShows DEF Next
<1> QED
  BY <1>1, <1>2

(***************************************************************************)
(* For a client that waits for its replies each change of subscriptions    *)
(* takes effect at one moment, at most once, on what the account has then, *)
(* for any number of handlers that work for other accounts meanwhile.      *)
(***************************************************************************)
THEOREM PushImplementsSubscriptions == Spec => ImplementsSubscriptions
<1>1. Init => SerialInv /\ AnswerInv
  BY DEF Init, SerialInv, Active, AnswerInv, Reliable
<1>2. Register!Init /\ [][Register!Next]_<<Subs, Requests, Done>> => ImplementsSubscriptions
  BY PTL DEF ImplementsSubscriptions, Register!Spec, Subs, Requests, Done
<1> QED
  BY <1>1, <1>2, RegisterInit, RegisterNext, SerialNext, AnswerNext, Typed, PTL DEF Spec
=============================================================================
