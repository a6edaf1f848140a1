-------------------------------- MODULE Push --------------------------------
(***************************************************************************)
(* push/push.go, behind the RPC wrappers of push/handler.go: what a        *)
(* request does to the three collections and to the queue.                 *)
(*                                                                         *)
(* The requests are served concurrently.  A Handler is the goroutine of    *)
(* one request; what it does between two commands to MongoDB or Redis      *)
(* touches no shared state, so a step is a command, together with the      *)
(* checks before it and the reply after it.  Only Unsubscribe sends two    *)
(* commands, and no transaction ties them.                                 *)
(***************************************************************************)
EXTENDS TokenRepo, AccountRepo, SpaceRepo

CONSTANTS
  Handler,        \* the requests that come in, one for each handler
  Request,        \* what they may ask: see PushAssumption
  NoRequest,      \* before the request came in
  NoAccount,      \* the ignoreAccountId of a silent message
  SerialAccount   \* accounts whose client waits for one reply before it
                  \* sends the next request

TopicsRpc == {"Subscribe", "SubscribeAll", "Unsubscribe", "Notify", "NotifySilent"}
SpaceRpc  == {"CreateSpace", "RemoveSpace"}
Rpc       == {"SetToken", "RevokeToken", "Subscriptions"} \cup SpaceRpc \cup TopicsRpc

\* A signature verifies, does not, or comes with a key that does not parse.
Signature   == {"valid", "invalid", "noKey"}
SignedTopic == [spaceKey : SpaceKey, name : TopicName, signature : Signature]

(***************************************************************************)
(* Every request has the account and the peer of its connection; a field   *)
(* that its RPC does not have is ignored.  Protocol Buffers let a client   *)
(* leave fields out: hasTopics tells whether the field Topics was sent (an *)
(* empty list of topics is another thing).  message is the state of the    *)
(* signature of a Notify request's message, or "none" without a message.   *)
(***************************************************************************)
RequestType ==
  [rpc : Rpc, account : Account, peer : Peer, token : Token, platform : Int,
   hasTopics : BOOLEAN, topics : SUBSET SignedTopic, space : SpaceKey,
   signature : Signature, message : {"valid", "invalid", "none"}]

ASSUME PushAssumption ==
  /\ Request \subseteq RequestType
  /\ \A r \in Request : r.topics # {} => r.hasTopics
  /\ NoRequest \notin Request
  /\ SerialAccount \subseteq Account

VARIABLES
  req,      \* the request each handler serves
  at,       \* where each handler is
  read,     \* Unsubscribe: the topics it read
  reply,    \* what each handler answered
  queued,   \* the messages Notify has added to the queue
  applied   \* history: the handlers whose command took effect

collVars == <<tokenColl, accountColl, spaceColl>>
vars     == <<collVars, req, at, read, reply, queued, applied>>

Reply == {"Ok", "InvalidSignature", "InvalidTopicSignature", "SpaceExists", "Unexpected"}

Init ==
  /\ tokenColl = [t \in Token |-> NoDoc]
  /\ accountColl = [a \in Account |-> {}]
  /\ spaceColl = [k \in SpaceKey |-> NoDoc]
  /\ req = [h \in Handler |-> NoRequest]
  /\ at = [h \in Handler |-> "waiting"]
  /\ read = [h \in Handler |-> {}]
  /\ reply = [h \in Handler |-> "none"]
  /\ queued = {}
  /\ applied = {}

Serving(h, rpcs) == at[h] = "serving" /\ req[h].rpc \in rpcs

Receive(h, r) ==
  /\ at[h] = "waiting"
  /\ r.account \in SerialAccount =>
       \A g \in Handler : at[g] \in {"serving", "writing"} => req[g].account # r.account
  /\ req' = [req EXCEPT ![h] = r]
  /\ at' = [at EXCEPT ![h] = "serving"]
  /\ UNCHANGED <<collVars, read, reply, queued, applied>>

Answer(h, result) ==
  /\ at' = [at EXCEPT ![h] = "done"]
  /\ reply' = [reply EXCEPT ![h] = result]

\* An answer without a command.
Refuse(h, result) ==
  /\ Answer(h, result)
  /\ UNCHANGED <<collVars, req, read, queued, applied>>

(***************************************************************************)
(* One command.  It takes effect and succeeds, or fails; a failure may be  *)
(* that of the answer only, after the command took effect.  So it is when  *)
(* the process dies with a command under way: the client, whose connection *)
(* breaks, knows as little as after any failure.                           *)
(***************************************************************************)
Command(h, Effect, unchanged, success, failure) ==
  /\ UNCHANGED <<unchanged, req, read>>
  /\ \/ Effect /\ applied' = applied \cup {h} /\ Answer(h, success)
     \/ Effect /\ applied' = applied \cup {h} /\ Answer(h, failure)
     \/ UNCHANGED <<collVars, queued, applied>> /\ Answer(h, failure)

-----------------------------------------------------------------------------
\* Mutant of BadTopics: a request passes if any of its topics does.
BadTopicsAny(r) ==
  IF \E t \in r.topics : t.signature = "valid"
    THEN {} ELSE {t \in r.topics : t.signature # "valid"}

\* convertTopics: one bad signature fails the request, at the first bad topic.
BadTopics(r)     == {t \in r.topics : t.signature # "valid"}
ConvertTopics(r) == {NewTopic(t.spaceKey, t.name) : t \in r.topics}

RefuseTopics(h) ==
  /\ Serving(h, TopicsRpc)
  /\ \E t \in BadTopics(req[h]) :
       Refuse(h, IF t.signature = "noKey" THEN "Unexpected" ELSE "InvalidTopicSignature")

TopicsAccepted(h) == req[h].hasTopics /\ BadTopics(req[h]) = {}

\* The handler is gone: it sends no command any more, and no answer.
Die(h) ==
  /\ at' = [at EXCEPT ![h] = "dead"]
  /\ UNCHANGED <<collVars, req, read, reply, queued, applied>>

\* convertTopics dereferences the field, which is nil when it was not sent.
Panic(h) ==
  /\ Serving(h, TopicsRpc)
  /\ ~req[h].hasTopics
  /\ Die(h)

(***************************************************************************)
(* The process dies, of another handler's panic or for any other reason,   *)
(* and with it the handlers it had: perhaps all that are at work, perhaps  *)
(* not, for the server may have more than one process.                     *)
(***************************************************************************)
Crash(h) == at[h] \in {"serving", "writing"} /\ Die(h)

SetToken(h) ==
  /\ Serving(h, {"SetToken"})
  /\ LET r == req[h]
     IN  Command(h, AddToken(r.token, r.account, r.peer, ToPlatform(r.platform)),
                 <<accountColl, spaceColl, queued>>, "Ok", "Unexpected")

Revoke(h) ==
  /\ Serving(h, {"RevokeToken"})
  /\ Command(h, RevokeToken(req[h].account, req[h].peer),
             <<accountColl, spaceColl, queued>>, "Ok", "Unexpected")

\* Mutant of Subscribe: the error of the repository is not returned.
SubscribeUnchecked(h) ==
  /\ Serving(h, {"Subscribe", "SubscribeAll"})
  /\ TopicsAccepted(h)
  /\ Command(h, SetAccountTopics(req[h].account, ConvertTopics(req[h])),
             <<tokenColl, spaceColl, queued>>, "Ok", "Ok")

\* Subscribe and SubscribeAll do the same.
Subscribe(h) ==
  /\ Serving(h, {"Subscribe", "SubscribeAll"})
  /\ TopicsAccepted(h)
  /\ Command(h, SetAccountTopics(req[h].account, ConvertTopics(req[h])),
             <<tokenColl, spaceColl, queued>>, "Ok", "Unexpected")

\* Reading the topics changes nothing.
ListSubscriptions(h) ==
  /\ Serving(h, {"Subscriptions"})
  /\ Refuse(h, "Ok") \/ Refuse(h, "Unexpected")

UnsubscribeNothing(h) ==
  /\ Serving(h, {"Unsubscribe"})
  /\ TopicsAccepted(h)
  /\ req[h].topics = {}
  /\ Refuse(h, "Ok")

UnsubscribeRead(h) ==
  /\ Serving(h, {"Unsubscribe"})
  /\ req[h].topics # {}
  /\ TopicsAccepted(h)
  /\ \/ /\ read' = [read EXCEPT ![h] = GetTopics(req[h].account)]
        /\ at' = [at EXCEPT ![h] = "writing"]
        /\ UNCHANGED <<collVars, req, reply, queued, applied>>
     \/ Refuse(h, "Unexpected")

\* Mutant of UnsubscribeWrite: the topics to remove are written.
UnsubscribeWriteRemoved(h) ==
  /\ at[h] = "writing"
  /\ Command(h, SetAccountTopics(req[h].account, read[h] \cap ConvertTopics(req[h])),
             <<tokenColl, spaceColl, queued>>, "Ok", "Unexpected")

\* What was read, less the topics of the request, replaces the list.
UnsubscribeWrite(h) ==
  /\ at[h] = "writing"
  /\ Command(h, SetAccountTopics(req[h].account, read[h] \ ConvertTopics(req[h])),
             <<tokenColl, spaceColl, queued>>, "Ok", "Unexpected")

-----------------------------------------------------------------------------
RefuseSpace(h) ==
  /\ Serving(h, SpaceRpc)
  /\ req[h].signature # "valid"
  /\ Refuse(h, IF req[h].signature = "noKey" THEN "Unexpected" ELSE "InvalidSignature")

\* CreateSpace looks at the error of Create, and then returns nil.
CreateSpace(h) ==
  /\ Serving(h, {"CreateSpace"})
  /\ req[h].signature = "valid"
  /\ Command(h, Create(req[h].space, req[h].account),
             <<tokenColl, accountColl, queued>>, "Ok", "Ok")

RemoveSpace(h) ==
  /\ Serving(h, {"RemoveSpace"})
  /\ req[h].signature = "valid"
  /\ Command(h, Remove(req[h].space, req[h].account),
             <<tokenColl, accountColl, queued>>, "Ok", "Ok")

-----------------------------------------------------------------------------
Notifying(h) == Serving(h, {"Notify", "NotifySilent"}) /\ TopicsAccepted(h)
IsSilent(r)  == r.rpc = "NotifySilent"

\* The message is missing, or its signature is not the author's.
RefuseMessage(h) ==
  /\ Notifying(h)
  /\ \/ req[h].message = "none" /\ ~IsSilent(req[h]) /\ Refuse(h, "Unexpected")
     \/ req[h].message = "invalid" /\ Refuse(h, "InvalidSignature")

MessageAccepted(r) == r.message = "valid" \/ (r.message = "none" /\ IsSilent(r))

\* Mutant of FilteredTopics: silent messages go to all their topics.
FilteredTopicsLoud(r) ==
  LET topics == ConvertTopics(r)
  IN  {t \in topics : t.spaceKey \in ExistedSpaces({u.spaceKey : u \in topics})}

\* A silent message goes to the topics named by its author's account only.
FilteredTopics(r) ==
  LET topics == ConvertTopics(r)
      spaces == ExistedSpaces({t.spaceKey : t \in topics})
  IN  {t \in topics : /\ IsSilent(r) => t.name = r.account
                      /\ t.spaceKey \in spaces}

NotifyNobody(h) ==
  /\ Notifying(h)
  /\ MessageAccepted(req[h])
  /\ FilteredTopics(req[h]) = {}
  /\ Refuse(h, "Ok")

\* The id stands for Created, which makes each payload distinct.
QueuedMessage(h) ==
  [id              |-> h,
   topics          |-> FilteredTopics(req[h]),
   silent          |-> IsSilent(req[h]),
   ignoreAccountId |-> IF IsSilent(req[h]) THEN NoAccount ELSE req[h].account]

Notify(h) ==
  /\ Notifying(h)
  /\ MessageAccepted(req[h])
  /\ FilteredTopics(req[h]) # {}
  /\ Command(h, queued' = queued \cup {QueuedMessage(h)}, collVars, "Ok", "Unexpected")

-----------------------------------------------------------------------------
HandlerStep(h) ==
  \/ \E r \in Request : Receive(h, r)
  \/ RefuseTopics(h)
  \/ SetToken(h)
  \/ Revoke(h)
  \/ Subscribe(h)
  \/ ListSubscriptions(h)
  \/ UnsubscribeNothing(h)
  \/ UnsubscribeRead(h)
  \/ UnsubscribeWrite(h)
  \/ RefuseSpace(h)
  \/ CreateSpace(h)
  \/ RemoveSpace(h)
  \/ RefuseMessage(h)
  \/ NotifyNobody(h)
  \/ Notify(h)
  \/ Panic(h)
  \/ Crash(h)

Next == \E h \in Handler : HandlerStep(h)

Spec == Init /\ [][Next]_vars

-----------------------------------------------------------------------------
TypeOK ==
  /\ tokenColl \in TokenCollType
  /\ accountColl \in AccountCollType
  /\ spaceColl \in SpaceCollType
  /\ req \in [Handler -> Request \cup {NoRequest}]
  /\ at \in [Handler -> {"waiting", "serving", "writing", "done", "dead"}]
  /\ read \in [Handler -> SUBSET Topic]
  /\ reply \in [Handler -> Reply \cup {"none"}]
  /\ queued \in SUBSET [id : Handler, topics : SUBSET Topic, silent : BOOLEAN,
                        ignoreAccountId : Account \cup {NoAccount}]
  /\ applied \in SUBSET Handler

\* The handlers that were asked one of rpcs by an account.
Asked(a, rpcs) ==
  {h \in Handler : at[h] # "waiting" /\ req[h].account = a /\ req[h].rpc \in rpcs}

(***************************************************************************)
(* A registered space keeps its author until the author removes it, with a *)
(* signature of the space key: no create, retried or concurrent, takes it  *)
(* over, and nobody else's remove deletes it.                              *)
(***************************************************************************)
AuthorsStandNext ==
  \A k \in SpaceKey :
    spaceColl[k] # NoDoc /\ spaceColl'[k] # spaceColl[k] =>
      /\ spaceColl'[k] = NoDoc
      /\ \E h \in Asked(spaceColl[k], {"RemoveSpace"}) :
           at[h] # at'[h] /\ req[h].space = k /\ req[h].signature = "valid"
AuthorsStand == [][AuthorsStandNext]_vars

(***************************************************************************)
(* A token is deleted on behalf of the account and the device that hold it *)
(* only, also when it has moved to another account in the meantime.        *)
(***************************************************************************)
OnlyOwnTokenRevokedNext ==
  \A t \in Token :
    tokenColl[t] # NoDoc /\ tokenColl'[t] = NoDoc =>
      \E h \in Asked(tokenColl[t].accountId, {"RevokeToken"}) :
        at[h] # at'[h] /\ req[h].peer = tokenColl[t].peerId
OnlyOwnTokenRevoked == [][OnlyOwnTokenRevokedNext]_vars

(***************************************************************************)
(* An account is subscribed only to topics it once presented with a valid  *)
(* signature of their space, in a request to subscribe: no failing topic   *)
(* slips in with good ones, and what Unsubscribe reads and writes back     *)
(* never mixes accounts.                                                   *)
(***************************************************************************)
SubscribedTopicsSigned ==
  \A a \in Account : \A t \in accountColl[a] :
    \E h \in Asked(a, {"Subscribe", "SubscribeAll"}) :
      [spaceKey |-> t.spaceKey, name |-> t.name, signature |-> "valid"] \in req[h].topics

(***************************************************************************)
(* What a queued message may do: its topics were signed, a silent one      *)
(* reaches nobody but the subscribers of the author's own topics, and any  *)
(* other one has a message signed by its author, whom it will not notify.  *)
(***************************************************************************)
QueuedMessagesSound ==
  \A m \in queued :
    LET r == req[m.id]
    IN  /\ r.message # "invalid"
        /\ \A t \in m.topics :
             [spaceKey |-> t.spaceKey, name |-> t.name, signature |-> "valid"] \in r.topics
        /\ IF m.silent
             THEN \A t \in m.topics : t.name = r.account
             ELSE r.message = "valid" /\ m.ignoreAccountId = r.account

\* Whether a request asks for a change at all.
HasWork(r) ==
  /\ r.rpc \notin {"Subscriptions"} \cup SpaceRpc
  /\ r.rpc = "Unsubscribe" => r.topics # {}
  /\ r.rpc = "Notify" => r.topics # {}
  /\ r.rpc = "NotifySilent" => \E t \in r.topics : t.name = r.account

(***************************************************************************)
(* An answer can be relied on: Ok means that the change was made, although *)
(* commands fail, and a refused signature that nothing was.  Space requests *)
(* are left out: CreateSpace and RemoveSpace answer Ok whatever happened.  *)
(***************************************************************************)
AnswersReliable ==
  \A h \in Handler :
    /\ reply[h] = "Ok" /\ HasWork(req[h]) => h \in applied
    /\ reply[h] \in {"InvalidSignature", "InvalidTopicSignature"} => h \notin applied

(***************************************************************************)
(* For an account whose requests do not overlap, each change takes effect  *)
(* at one moment or not at all, although Unsubscribe is a read and a write *)
(* and requests of other accounts run, or handlers die, between them.      *)
(*                                                                         *)
(* Nothing in the code keeps the requests of one account apart: two of its *)
(* devices, or a client that asks again after its connection broke, while  *)
(* the first request still runs, are not serial.  For them it fails: the   *)
(* write of Unsubscribe undoes a Subscribe that came after its read.       *)
(***************************************************************************)
SubscriptionRequest(h) ==
  IF at[h] # "waiting" /\ req[h].account \in SerialAccount
       /\ req[h].rpc \in {"Subscribe", "SubscribeAll", "Unsubscribe"}
    THEN {[account |-> req[h].account,
           kind    |-> IF req[h].rpc = "Unsubscribe" THEN "remove" ELSE "replace",
           topics  |-> ConvertTopics(req[h])]}
    ELSE {}

Register ==
  INSTANCE Subscriptions
  WITH Account <- SerialAccount,
       subs    <- Restrict(accountColl, SerialAccount),
       request <- [h \in Handler |-> SubscriptionRequest(h)],
       applied <- {h \in applied : SubscriptionRequest(h) # {}}
ImplementsSubscriptions == Register!Spec

-----------------------------------------------------------------------------
(***************************************************************************)
(* push.proto:10, errors.go:15 and the code before the return of            *)
(* CreateSpace: a request for a space that exists is answered SpaceExists. *)
(***************************************************************************)
ExistingSpaceReported ==
  [][\A h \in Handler :
       /\ Serving(h, {"CreateSpace"})
       /\ at'[h] = "done"
       /\ spaceColl[req[h].space] # NoDoc
       => reply'[h] # "Ok"]_vars

(***************************************************************************)
(* The comment in Notify and the test of ExistedSpaces: the topics are     *)
(* filtered by registered space keys.                                      *)
(***************************************************************************)
OnlyRegisteredSpacesNotified ==
  [][\A m \in queued' \ queued :
       \A t \in m.topics : spaceColl[t.spaceKey] # NoDoc]_vars

=============================================================================
