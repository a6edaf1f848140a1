------------------------------- MODULE Sender -------------------------------
(***************************************************************************)
(* sender/sender.go, and the FCM provider it calls,                        *)
(* sender/provider/fcm/fcm.go.                                             *)
(*                                                                         *)
(* Each consumer of the queue runs SendMessage for one message at a time:  *)
(* two MongoDB queries, a loop over the platforms of the tokens found, and *)
(* under it the loop over the batches of one provider call.  The tokens    *)
(* that FCM calls invalid go through a bounded buffer to one goroutine,    *)
(* removeTokensBatch, that deletes them.  Meanwhile the API handlers, and  *)
(* other processes, change both collections.                               *)
(***************************************************************************)
EXTENDS TokenRepo, AccountRepo

CONSTANTS
  Message,          \* what the queue delivers: see SenderAssumption
  NoAccount,        \* the ignoreAccountId of a silent message
  NoMessage,        \* what an idle consumer works on
  Worker,           \* the consumers
  Provider,         \* the platforms a provider is registered for
  BatchSize,        \* batchSize of fcm.go (500)
  BufferSize,       \* the capacity of invalidTokens (100)
  WirePlatform,     \* the platforms that SetToken requests carry
  InitialTokens,    \* contents of the token collection at the start
  InitialAccounts,  \* contents of the account collection at the start
  MaxChanges        \* bound: the changes others make to the collections

ASSUME SenderAssumption ==
  /\ \A m \in Message : /\ m.topics \subseteq Topic
                        /\ m.ignoreAccountId \in Account \cup {NoAccount}
  /\ NoMessage \notin Message
  /\ IsFiniteSet(Token)
  /\ Provider \subseteq Platform
  /\ WirePlatform \subseteq Int
  /\ BatchSize \in Nat \ {0}
  /\ BufferSize \in Nat \ {0}
  /\ InitialTokens \subseteq TokenCollType
  /\ InitialAccounts \subseteq AccountCollType
  /\ MaxChanges \in Nat

VARIABLES
  at,            \* where each consumer is in SendMessage
  msg,           \* the message each consumer sends
  accountIds,    \* the result of the first query, without IgnoreAccountId
  byProvider,    \* the tokens of the second query, grouped by platform;
                 \* the loop removes the groups it is done with
  nextBatch,     \* fcm: the tokens that are not in a batch yet
  batch,         \* fcm: message.Tokens
  responses,     \* fcm: the results FCM has given for batch
  invalidTokens, \* the buffer of tokens to delete
  closed,        \* whether Close closed the buffer
  removing,      \* the tokens removeTokensBatch took from the buffer
  changes,       \* bound: see MaxChanges
  offered,       \* history: how often FCM got a message for a token
  returned,      \* history: what SendMessage returned for a message
  stable,        \* history: the tokens due a message ever since it started,
                 \* through one account, up to the second query
  undisturbed,   \* history: the messages that started, whose collections
                 \* did not change before SendMessage returned
  judged,        \* history: tokens FCM called invalid
  purged,        \* history: tokens RemoveTokens deleted
  dropped        \* history: tokens onInvalid or a failed RemoveTokens lost

collVars    == <<tokenColl, accountColl, changes>>
jobVars     == <<at, msg, accountIds, byProvider, nextBatch, batch, responses>>
removerVars == <<invalidTokens, closed, removing>>
historyVars == <<offered, returned, stable, undisturbed, judged, purged, dropped>>
vars        == <<collVars, jobVars, removerVars, historyVars>>

WorkerState == {"idle", "accounts", "tokens", "platforms", "batches", "responses"}
\* FCM's answer for a token: IsInvalidArgument or IsUnregistered, or anything
\* else, success included, which is only logged.
Verdict     == {"invalid", "other"}

Init ==
  /\ tokenColl \in InitialTokens
  /\ accountColl \in InitialAccounts
  /\ changes = 0
  /\ at = [w \in Worker |-> "idle"]
  /\ msg = [w \in Worker |-> NoMessage]
  /\ accountIds = [w \in Worker |-> {}]
  /\ byProvider = [w \in Worker |-> <<>>]
  /\ nextBatch = [w \in Worker |-> <<>>]
  /\ batch = [w \in Worker |-> <<>>]
  /\ responses = [w \in Worker |-> <<>>]
  /\ invalidTokens = <<>>
  /\ closed = FALSE
  /\ removing = {}
  /\ offered = [m \in Message |-> [t \in Token |-> 0]]
  /\ returned = [m \in Message |-> "nothing"]
  /\ stable = [m \in Message |-> {}]
  /\ undisturbed = {}
  /\ judged = {}
  /\ purged = {}
  /\ dropped = {}

-----------------------------------------------------------------------------
\* Mutant of Audience: the author is notified, too.
AudienceWithAuthor(m) == AccountIdsByTopics(m.topics)

\* Whom a message is for: the subscribers of its topics, less its author.
Audience(m) == AccountIdsByTopics(m.topics) \ {m.ignoreAccountId}

\* The tokens that are due a message in the present state of the collections.
Due(m) ==
  {t \in Token :
     LET doc == tokenColl[t]
     IN  /\ doc # NoDoc
         /\ doc.status = "valid"
         /\ doc.platform \in Provider
         /\ doc.accountId # m.ignoreAccountId
         /\ accountColl[doc.accountId] \cap m.topics # {}}

\* The histories' share in a change of the collections.
Disturb ==
  /\ stable' = [m \in Message |->
       IF \E w \in Worker : msg[w] = m /\ at[w] \in {"accounts", "tokens"}
         THEN {t \in stable[m] \cap Due(m)' :
                 tokenColl'[t].accountId = tokenColl[t].accountId}
         ELSE stable[m]]
  /\ undisturbed' = undisturbed \ {msg[w] : w \in Worker}

Goto(w, state) == at' = [at EXCEPT ![w] = state]

\* SendMessage returns; its locals are gone.
Return(w, result) ==
  /\ Goto(w, "idle")
  /\ returned' = [returned EXCEPT ![msg[w]] = result]
  /\ msg' = [msg EXCEPT ![w] = NoMessage]
  /\ accountIds' = [accountIds EXCEPT ![w] = {}]
  /\ byProvider' = [byProvider EXCEPT ![w] = <<>>]
  /\ nextBatch' = [nextBatch EXCEPT ![w] = <<>>]
  /\ batch' = [batch EXCEPT ![w] = <<>>]
  /\ responses' = [responses EXCEPT ![w] = <<>>]

\* The queue hands a message to a consumer, at most once.
Start(w, m) ==
  /\ at[w] = "idle"
  /\ returned[m] = "nothing"
  /\ \A v \in Worker : msg[v] # m
  /\ Goto(w, "accounts")
  /\ msg' = [msg EXCEPT ![w] = m]
  /\ stable' = [stable EXCEPT ![m] = Due(m)]
  /\ undisturbed' = undisturbed \cup {m}
  /\ UNCHANGED <<collVars, accountIds, byProvider, nextBatch, batch, responses,
                 removerVars, offered, returned, judged, purged, dropped>>

FindAccounts(w) ==
  /\ at[w] = "accounts"
  /\ accountIds' = [accountIds EXCEPT ![w] = Audience(msg[w])]
  /\ Goto(w, "tokens")
  /\ UNCHANGED <<collVars, msg, byProvider, nextBatch, batch, responses,
                 removerVars, historyVars>>

\* The query found no token: there is nobody to notify.
FindNoTokens(w) ==
  /\ at[w] = "tokens"
  /\ ActiveTokens(accountIds[w]) = {}
  /\ Return(w, "ok")
  /\ UNCHANGED <<collVars, removerVars, offered, stable, undisturbed, judged,
                 purged, dropped>>

(***************************************************************************)
(* The tokens come in any order and are grouped by platform.               *)
(***************************************************************************)
FindTokens(w) ==
  /\ at[w] = "tokens"
  /\ LET found  == ActiveTokens(accountIds[w])
         of(p)  == {t \in found : tokenColl[t].platform = p}
         groups == {tokenColl[t].platform : t \in found}
     IN  /\ found # {}
         /\ \E order \in [groups -> UNION {Orders(of(p)) : p \in groups}] :
              /\ \A p \in groups : order[p] \in Orders(of(p))
              /\ byProvider' = [byProvider EXCEPT ![w] = order]
  /\ Goto(w, "platforms")
  /\ UNCHANGED <<collVars, msg, accountIds, nextBatch, batch, responses,
                 removerVars, historyVars>>

\* A failing query ends SendMessage.
QueryFails(w) ==
  /\ at[w] \in {"accounts", "tokens"}
  /\ Return(w, "err")
  /\ UNCHANGED <<collVars, removerVars, offered, stable, undisturbed, judged,
                 purged, dropped>>

-----------------------------------------------------------------------------
\* The range over the map byProvider, in Go's random order.
Without(groups, p) == Restrict(groups, DOMAIN groups \ {p})

SkipPlatform(w, p) ==
  /\ at[w] = "platforms"
  /\ p \notin Provider
  /\ byProvider' = [byProvider EXCEPT ![w] = Without(@, p)]
  /\ UNCHANGED <<collVars, at, msg, accountIds, nextBatch, batch, responses,
                 removerVars, historyVars>>

CallProvider(w, p) ==
  /\ at[w] = "platforms"
  /\ p \in Provider
  /\ nextBatch' = [nextBatch EXCEPT ![w] = byProvider[w][p]]
  /\ byProvider' = [byProvider EXCEPT ![w] = Without(@, p)]
  /\ Goto(w, "batches")
  /\ UNCHANGED <<collVars, msg, accountIds, batch, responses, removerVars,
                 historyVars>>

PlatformsDone(w) ==
  /\ at[w] = "platforms"
  /\ DOMAIN byProvider[w] = {}
  /\ Return(w, "ok")
  /\ UNCHANGED <<collVars, removerVars, offered, stable, undisturbed, judged,
                 purged, dropped>>

-----------------------------------------------------------------------------
\* fcmSender.SendMessage: how a batch is cut off.
FirstBatch(ts) == IF Len(ts) > BatchSize THEN SubSeq(ts, 1, BatchSize) ELSE ts

\* Mutants of RestOf: the slices overlap; only the first batch is sent.
RestOverlapping(ts) == IF Len(ts) > BatchSize THEN SubSeq(ts, BatchSize, Len(ts)) ELSE <<>>
RestForgotten(ts) == <<>>

RestOf(ts) == IF Len(ts) > BatchSize THEN SubSeq(ts, BatchSize + 1, Len(ts)) ELSE <<>>

Offer(m, ts) ==
  offered' = [offered EXCEPT ![m] =
    [t \in Token |-> @[t] + Cardinality({i \in DOMAIN ts : ts[i] = t})]]

(***************************************************************************)
(* SendEachForMulticast: FCM answers for each token of the batch.          *)
(***************************************************************************)
SendBatch(w) ==
  /\ at[w] = "batches"
  /\ nextBatch[w] # <<>>
  /\ LET tokens == FirstBatch(nextBatch[w])
     IN  /\ batch' = [batch EXCEPT ![w] = tokens]
         /\ nextBatch' = [nextBatch EXCEPT ![w] = RestOf(@)]
         /\ Offer(msg[w], tokens)
         /\ \E verdicts \in [1 .. Len(tokens) -> Verdict] :
              /\ responses' = [responses EXCEPT ![w] = verdicts]
              /\ judged' = judged \cup
                   {tokens[i] : i \in {j \in DOMAIN verdicts : verdicts[j] = "invalid"}}
  /\ Goto(w, "responses")
  /\ UNCHANGED <<collVars, msg, accountIds, byProvider, removerVars, returned,
                 stable, undisturbed, purged, dropped>>

\* Mutant of SendBatchFails: the provider's error is only logged.
SendBatchFailsQuietly(w) ==
  /\ at[w] = "batches"
  /\ nextBatch[w] # <<>>
  /\ Return(w, "ok")
  /\ UNCHANGED <<collVars, removerVars, offered, stable, undisturbed, judged,
                 purged, dropped>>

\* The call fails as a whole, after FCM took some of the tokens, none or all
\* (any of them: a list of tokens comes in any order).  SendMessage of the
\* provider, and of the sender, return the error.
SendBatchFails(w) ==
  /\ at[w] = "batches"
  /\ nextBatch[w] # <<>>
  /\ LET tokens == FirstBatch(nextBatch[w])
     IN  \E taken \in 0 .. Len(tokens) : Offer(msg[w], SubSeq(tokens, 1, taken))
  /\ Return(w, "err")
  /\ UNCHANGED <<collVars, removerVars, stable, undisturbed, judged, purged,
                 dropped>>

BatchesDone(w) ==
  /\ at[w] = "batches"
  /\ nextBatch[w] = <<>>
  /\ Goto(w, "platforms")
  /\ UNCHANGED <<collVars, msg, accountIds, byProvider, nextBatch, batch,
                 responses, removerVars, historyVars>>

-----------------------------------------------------------------------------
\* Mutant of onInvalid: an off-by-one in the capacity.
onInvalidOverfull(t) ==
  /\ Len(invalidTokens) <= BufferSize
  /\ invalidTokens' = Append(invalidTokens, t)
  /\ UNCHANGED dropped

\* Mutant of onInvalid: no timeout.
onInvalidBlocking(t) ==
  \/ /\ ~closed
     /\ Len(invalidTokens) < BufferSize
     /\ invalidTokens' = Append(invalidTokens, t)
     /\ UNCHANGED dropped
  \/ /\ closed
     /\ dropped' = dropped \cup {t}
     /\ UNCHANGED invalidTokens

\* onInvalid: Add waits ten seconds for room, and gives up at once after Close.
onInvalid(t) ==
  \/ /\ ~closed
     /\ Len(invalidTokens) < BufferSize
     /\ invalidTokens' = Append(invalidTokens, t)
     /\ UNCHANGED dropped
  \/ /\ closed \/ Len(invalidTokens) = BufferSize
     /\ dropped' = dropped \cup {t}
     /\ UNCHANGED invalidTokens

\* Mutant of Answered: the responses are taken in the other order.
AnsweredBackwards(w) == batch[w][Len(responses[w])]

\* The token that the next response is about: response i is about Tokens[i].
Answered(w) == batch[w][Len(batch[w]) - Len(responses[w]) + 1]

\* Mutant of HandleResponse: the loop ends at the first invalid token.
HandleResponseBreak(w) ==
  /\ at[w] = "responses"
  /\ responses[w] # <<>>
  /\ responses' = [responses EXCEPT ![w] = IF Head(@) = "invalid" THEN <<>> ELSE Tail(@)]
  /\ IF Head(responses[w]) = "invalid"
       THEN onInvalid(Answered(w))
       ELSE UNCHANGED <<invalidTokens, dropped>>
  /\ UNCHANGED <<collVars, at, msg, accountIds, byProvider, nextBatch, batch,
                 closed, removing, offered, returned, stable, undisturbed,
                 judged, purged>>

HandleResponse(w) ==
  /\ at[w] = "responses"
  /\ responses[w] # <<>>
  /\ responses' = [responses EXCEPT ![w] = Tail(@)]
  /\ IF Head(responses[w]) = "invalid"
       THEN onInvalid(Answered(w))
       ELSE UNCHANGED <<invalidTokens, dropped>>
  /\ UNCHANGED <<collVars, at, msg, accountIds, byProvider, nextBatch, batch,
                 closed, removing, offered, returned, stable, undisturbed,
                 judged, purged>>

ResponsesDone(w) ==
  /\ at[w] = "responses"
  /\ responses[w] = <<>>
  /\ Goto(w, "batches")
  /\ UNCHANGED <<collVars, msg, accountIds, byProvider, nextBatch, batch,
                 responses, removerVars, historyVars>>

-----------------------------------------------------------------------------
\* Mutant of TakeInvalid: the minimum of Wait without its time limit.
TakeInvalidMinimum ==
  /\ removing = {}
  /\ Len(invalidTokens) >= 2
  /\ removing' = Range(invalidTokens)
  /\ invalidTokens' = <<>>
  /\ UNCHANGED <<collVars, jobVars, closed, historyVars>>

(***************************************************************************)
(* removeTokensBatch: Wait returns what the buffer holds, when it holds    *)
(* ten tokens or the time limit of a second is over.  After Close it may   *)
(* still return them, or end the goroutine.                                *)
(***************************************************************************)
TakeInvalid ==
  /\ removing = {}
  /\ invalidTokens # <<>>
  /\ removing' = Range(invalidTokens)
  /\ invalidTokens' = <<>>
  /\ UNCHANGED <<collVars, jobVars, closed, historyVars>>

RemoveBatch ==
  /\ removing # {}
  /\ RemoveTokens(removing)
  /\ removing' = {}
  /\ purged' = purged \cup removing
  /\ UNCHANGED <<accountColl, changes>>
  /\ Disturb
  /\ UNCHANGED <<jobVars, invalidTokens, closed, offered, returned, judged, dropped>>

\* The error is logged and the batch is forgotten.
RemoveBatchFails ==
  /\ removing # {}
  /\ removing' = {}
  /\ dropped' = dropped \cup removing
  /\ UNCHANGED <<collVars, jobVars, invalidTokens, closed, offered, returned,
                 stable, undisturbed, judged, purged>>

\* Close comes before the queue's Close: consumers still send messages.
Close ==
  /\ ~closed
  /\ closed' = TRUE
  /\ UNCHANGED <<collVars, jobVars, invalidTokens, removing, historyVars>>

-----------------------------------------------------------------------------
\* The API handlers of this and of other processes.
Change ==
  /\ changes < MaxChanges
  /\ changes' = changes + 1
  /\ \/ /\ \/ \E t \in Token, a \in Account, p \in Peer, wire \in WirePlatform :
                AddToken(t, a, p, ToPlatform(wire))
           \/ \E a \in Account, p \in Peer : RevokeToken(a, p)
        /\ UNCHANGED accountColl
     \/ /\ \E a \in Account, topics \in SUBSET Topic : SetAccountTopics(a, topics)
        /\ UNCHANGED tokenColl
  /\ Disturb
  /\ UNCHANGED <<jobVars, removerVars, offered, returned, judged, purged, dropped>>

JobStep(w) ==
  \/ FindAccounts(w)
  \/ FindNoTokens(w)
  \/ FindTokens(w)
  \/ QueryFails(w)
  \/ \E p \in DOMAIN byProvider[w] : SkipPlatform(w, p) \/ CallProvider(w, p)
  \/ PlatformsDone(w)
  \/ SendBatch(w)
  \/ SendBatchFails(w)
  \/ BatchesDone(w)
  \/ HandleResponse(w)
  \/ ResponsesDone(w)

Next ==
  \/ \E w \in Worker, m \in Message : Start(w, m)
  \/ \E w \in Worker : JobStep(w)
  \/ TakeInvalid
  \/ RemoveBatch
  \/ RemoveBatchFails
  \/ Close
  \/ Change

Spec == Init /\ [][Next]_vars

(***************************************************************************)
(* MongoDB and FCM answer each consumer, with a result or an error, and a  *)
(* blocked onInvalid gets its timeout.  Nothing is assumed of the call to  *)
(* RemoveTokens, whose context has no deadline.                            *)
(***************************************************************************)
Fairness == \A w \in Worker : WF_vars(JobStep(w))
FairSpec == Spec /\ Fairness

-----------------------------------------------------------------------------
TypeOK ==
  /\ tokenColl \in TokenCollType
  /\ accountColl \in AccountCollType
  /\ changes \in 0 .. MaxChanges
  /\ at \in [Worker -> WorkerState]
  /\ msg \in [Worker -> Message \cup {NoMessage}]
  /\ accountIds \in [Worker -> SUBSET Account]
  /\ DOMAIN byProvider = Worker
  /\ \A w \in Worker : /\ DOMAIN byProvider[w] \subseteq Platform
                       /\ \A p \in DOMAIN byProvider[w] : byProvider[w][p] \in Seq(Token)
  /\ nextBatch \in [Worker -> Seq(Token)]
  /\ batch \in [Worker -> Seq(Token)]
  /\ responses \in [Worker -> Seq(Verdict)]
  /\ invalidTokens \in Seq(Token)
  /\ Len(invalidTokens) <= BufferSize
  /\ closed \in BOOLEAN
  /\ removing \in SUBSET Token
  /\ offered \in [Message -> [Token -> Nat]]
  /\ returned \in [Message -> {"nothing", "ok", "err"}]
  /\ stable \in [Message -> SUBSET Token]
  /\ undisturbed \in SUBSET Message
  /\ judged \in SUBSET Token
  /\ purged \in SUBSET Token
  /\ dropped \in SUBSET Token

(***************************************************************************)
(* FCM gets a message for a token at most once, through the grouping by    *)
(* platform, the loop over the batches, and the changes others make to the *)
(* collections while SendMessage runs.                                     *)
(***************************************************************************)
OfferedAtMostOnce ==
  \A m \in Message, t \in Token : offered[m][t] <= 1

(***************************************************************************)
(* When SendMessage returned nil, FCM got the message for every token that *)
(* was due it, through one account, all the while the two queries ran,     *)
(* whatever else changed in the collections between them.  A token that    *)
(* moves meanwhile to an account that has just subscribed may be missed:   *)
(* it was due the message all along, but through two accounts.             *)
(***************************************************************************)
StableTokensReached ==
  \A m \in Message : returned[m] = "ok" => \A t \in stable[m] : offered[m][t] = 1

(***************************************************************************)
(* As long as nobody changes the collections, FCM gets a message for those *)
(* tokens only that were due it when it started: valid ones, on a known    *)
(* platform, of a subscriber other than the author.  With a change between *)
(* the two queries this does not hold: an account that unsubscribes, and   *)
(* then registers a token, is notified on it.                              *)
(***************************************************************************)
OnlyDueTokens ==
  \A m \in undisturbed : {t \in Token : offered[m][t] > 0} \subseteq stable[m]

\* The invalid responses a consumer has not handled yet.
Unreported ==
  UNION {{batch[w][i] : i \in {j \in DOMAIN batch[w] :
                    /\ j > Len(batch[w]) - Len(responses[w])
                    /\ responses[w][j - Len(batch[w]) + Len(responses[w])] = "invalid"}}
         : w \in Worker}

(***************************************************************************)
(* Only tokens that FCM called invalid are deleted: the index of a         *)
(* response leads to its own token in every batch, and nobody loses a      *)
(* working token.                                                          *)
(***************************************************************************)
OnlyJudgedRemoved ==
  Range(invalidTokens) \cup removing \cup purged \cup dropped \subseteq judged

(***************************************************************************)
(* No verdict of FCM is forgotten: the token is still to be reported, in   *)
(* the buffer, being deleted, or deleted, unless the buffer was full or    *)
(* closed or MongoDB failed.                                               *)
(***************************************************************************)
VerdictsKept ==
  judged \subseteq Unreported \cup Range(invalidTokens) \cup removing
                     \cup purged \cup dropped

(***************************************************************************)
(* SendMessage returns, even while the buffer is full, RemoveTokens hangs  *)
(* or the sender is closed: a consumer is never lost to the queue.         *)
(***************************************************************************)
SendMessageReturns == \A w \in Worker : at[w] # "idle" ~> at[w] = "idle"

(***************************************************************************)
(* If MongoDB answers the remover as well, a token in the buffer is dealt  *)
(* with, as long as the sender is open.                                    *)
(***************************************************************************)
RemoverFairness == WF_vars(TakeInvalid) /\ WF_vars(RemoveBatch \/ RemoveBatchFails)
BufferDrained ==
  RemoverFairness =>
    \A t \in Token : t \in Range(invalidTokens) ~> (t \notin Range(invalidTokens) \/ closed)

(***************************************************************************)
(* SendMessage does what Fanout specifies: it fixes the tokens of a        *)
(* message once, offers each of them at most once, and returns nil only    *)
(* when none of them is left.                                              *)
(***************************************************************************)
Remaining(m) ==
  {t \in Token : \E w \in Worker :
     /\ msg[w] = m
     /\ \/ t \in Range(nextBatch[w])
        \/ \E p \in DOMAIN byProvider[w] \cap Provider : t \in Range(byProvider[w][p])}

Dispatch ==
  INSTANCE Fanout
  WITH remaining <- [m \in Message |-> Remaining(m)],
       result    <- returned
ImplementsFanout == Dispatch!Spec

=============================================================================
