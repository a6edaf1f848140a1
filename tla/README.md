# A TLA+ model of anytype-push-server

The push server keeps, for the accounts of Anytype, their push tokens and the
topics they subscribe to, and turns a signed `Notify` request into messages to
Firebase Cloud Messaging (FCM). These modules model the server's own logic, TLC
checks it on small instances, and TLAPS proves the safety properties that matter
most for every instance.

The repository has no specification of its own. Every definition is a
translation of the Go source (`queue/queue.go`, `sender/sender.go`,
`sender/provider/fcm/fcm.go`, `push/push.go`, `push/handler.go`, `repo/*`,
`domain/*`, `pushclient/pushapi/*`, `cmd/server/server.go` and the components it
starts) and of what that source relies on in its libraries.
`PROJECT.json` maps each definition to its lines.

## 1. The system

    client --DRPC--> handler -> push ----+--> tokenrepo, accountrepo, spacerepo  (MongoDB)
                                         |
                                         +--> queue.Add --> Redis lists (rmq)
                                                              |
                       sender.SendMessage <-- queue.Consume <-+
                          |        |
                          |        +--> tokenrepo, accountrepo (two queries)
                          +--> provider/fcm --> FCM
                                   |
                                   +--> onInvalid --> buffer --> removeTokensBatch --> tokenrepo

Any number of processes run this program against one Redis and one MongoDB.

| component | state | operations | what makes it correct |
|---|---|---|---|
| `queue` | in Redis: `ready`, `rejected`, one `unacked` list per connection; in the process: the connection, the channel of fetched deliveries, the consumers, `runCtx` | `Run`, `Add`, `Consume` and its closure, `handleRmqErrs`, `Close` | an entry of the list is handled at most once and never vanishes; an ack means success; no path through the closure leaks a slot of the prefetch limit; `Close` ends |
| `sender` | the locals of each `SendMessage`, the bounded buffer `invalidTokens` | `SendMessage`, `onInvalid`, `removeTokensBatch`, `Close` | each token gets a message at most once; success means all due tokens were tried; only tokens FCM refused are deleted; consumers are not blocked for good |
| `sender/provider/fcm` | the slices of the tokens of one call | `SendMessage` | the batches cover all tokens, once each; a response is matched to its own token |
| `repo/tokenrepo` | a document per token: account, device, platform, status | `AddToken`, `RevokeToken`, `RemoveTokens`, `GetActiveTokensByAccountIds`, `UpdateTokenStatus` | a token belongs to one account and one device at a time |
| `repo/accountrepo` | the topics of each account | `SetAccountTopics`, `GetTopicsByAccountId`, `GetAccountIdsByTopics` | the list is replaced as a whole |
| `repo/spacerepo` | the author of each space | `Create`, `Remove`, `ExistedSpaces` | one author per space, only he removes it |
| `push`, `push/handler` | none between requests | the ten RPCs | subscriptions are signed; concurrent requests of others do not interfere; an answer can be relied on |
| `domain` | values only | `NewTopic`, `SpaceKeyBase58`, `Topic` | a topic splits into what it was made of |
| `pushclient/pushapi` | none | `MarshalVT`, `SizeVT`, `UnmarshalVT` of each message, the stubs, the description of the service, the error codes | what a handler gets is what the client asked, an answer is what the handler said, releases of client and server may differ |
| `cmd/server`, `db`, `redisprovider`, `account`, `config` | which components are initialised, running, closed | `main`, `Bootstrap`; `Init`, `Run`, `Close` | consumers and requests find what they use; closing waits for the consumers, and ends |
| `sender/metrics` | counters | - | - |

Interactions that matter:

* the consumers of `queue` run `sender.SendMessage`; its error decides between
  `Ack` and `Reject`;
* the API handlers change the collections while `SendMessage` is between its
  two queries, and while the remover deletes tokens;
* `Bootstrap` registers the queue before the sender, and components are closed
  in reverse order: the sender closes its buffer while consumers still work;
* a restart means a new rmq connection with a new `unacked` list; nothing in
  the repository runs rmq's cleaner, so an old list is never read again;
* the consumers are at work as soon as `sender.Run` has registered them, while
  the components behind the sender still have to be run and may fail to;
* the messages for all platforms and batches of one notification share a map.

What is hard here, and listed line by line under "hazards" in `PROJECT.json`:
crashes between two Redis commands; the `select` at the top of the closure of
`Consume`, which rejects a late delivery and does not return; rmq that stops
consuming when its heartbeat fails; the two queries of `SendMessage` that see
two states of the database; a provider error in the middle of a map in random
order; batch boundaries; a buffer that is full or closed while responses are
reported; the read and the write of `Unsubscribe`; commands that take effect
although their answer is lost, and that are then issued again; requests without
a field that the code dereferences; errors that `CreateSpace` and `RemoveSpace`
drop; byte lengths at which the size of a length changes; requests of newer
releases; one data map that several builders are given; a start that fails
while consumers are at work, and the order of closing.

## 2. The modules

| module | what it models |
|---|---|
| `AtMostOnce` | abstract: what the queue promises, a mailbox that delivers each message at most once |
| `Queue` | `queue/queue.go` and the part of rmq v5 it uses |
| `Domain` | the values of `domain/`: topics, platforms, token documents |
| `TokenRepo`, `AccountRepo`, `SpaceRepo` | the three repositories: one collection and one operator per operation; `Sender` and `Push` are composed with them by `EXTENDS` and share these variables |
| `Fanout` | abstract: what the sender promises about one message |
| `Sender` | `sender/sender.go` and `fcm.go`, over the repositories |
| `Delivery` | the composition of `Queue` with the senders its consumers run, from `Add` to FCM |
| `Payload` | the content of a notification: `push.go`, the queue's JSON, `sender.go`, the builders of `fcm.go` |
| `Subscriptions` | abstract: a client's view of its subscriptions |
| `Push` | `push/push.go` and `push/handler.go`, over the repositories |
| `PushApi` | the messages of `push.proto` and their codec, `push_vtproto.pb.go` |
| `PushRpc` | one call through the stubs and the description of `push_drpc.pb.go`, with the codes of `errors.go` |
| `Lifecycle` | one process: `cmd/server/server.go`, and `Init`, `Run`, `Close` of the components |
| `QueueProofs`, `SenderProofs`, `DeliveryProofs`, `PayloadProofs`, `PushProofs`, `PushRpcProofs`, `LifecycleProofs` | theorems about these modules |
| `FoldFacts` | lemmas about folds over sequences, for any operator |
| `MCQueue`, `MCSender`, `MCDelivery`, `MCPayload`, `MCPush`, `MCPushRpc`, `MCLifecycle` | instances for TLC |

The detailed specifications and the abstract ones they implement:

    Queue --implements--> AtMostOnce          Push --implements--> Subscriptions
    Sender --implements--> Fanout <--implements-- Delivery (extends Queue)

Definitions whose name starts with that of another one and whose comment says
"Mutant of" are deliberate mistakes. They are no part of a specification:
substituted for the definition they vary, they show that a property can fail.

### Queue

A `Server` is one incarnation of the program, since an incarnation is one rmq
connection. Restart, crash, and several replicas are therefore the same thing:
another `Server` that may run before, after or at the same time. `ready`,
`unacked` and `rejected` outlive a server; `conn`, `cancelled`, `chan`, `at`
and `held` are lost when it ends (`EndProcess`).

| code | action |
|---|---|
| `Run` (67-77): `OpenConnection`, `OpenQueue`, `StartConsuming` | `Run` |
| `Add` (79-88): `PublishBytes` | `Add` |
| `Consume` (90-113): `AddConsumerFunc` | `Consume` |
| rmq: a batch of `RPOPLPUSH`es below the prefetch limit, each to the channel | `Prefetch` |
| rmq: an `RPOPLPUSH` whose answer is lost; the end of its batch | `PrefetchLost`, `BatchEnds` |
| rmq: a consumer receives from the channel | `Take` |
| the `select` on `runCtx.Done` (92-98) | `Select` |
| `delivery.Reject`, an `LPUSH` and an `LREM` | `RejectPush`, `RejectRemove` |
| an `LPUSH` of `Reject` whose answer is lost, and that is repeated | `RejectPushLost`, before the `RejectPush` that is answered |
| `json.Unmarshal` (99-103) | `DecodeFails`, or `CallHandler` |
| the handler returns (104-109) | `HandlerReturns`, then `Ack` or `RejectPush` |
| an `Ack` or `Reject` that gives up | `GiveUp` |
| `handleRmqErrs` (115-124) on a heartbeat error | `HeartbeatLost` |
| `Close` (126-135) | `Cancel`, `StopConsuming`, `Stopped` |
| the process dies | `Crash` |

While consuming goes on, rmq repeats a command of `Ack` or `Reject` that failed,
and go-redis repeats any command (`max_retries=2` in the default URL,
`redisprovider.go:29`). That only takes longer if Redis did not execute it. If it
did and the answer got lost, an `LREM` finds nothing the second time; an `LPUSH` of
`Reject` puts the message in the rejected list again (`RejectPushLost`, counted in
`resent`); and an `RPOPLPUSH` leaves what it moved in `unacked` without a delivery,
where rmq counts it against the prefetch limit (`PrefetchLost`, kept in
`stranded`). rmq counts `unacked` once for a batch of fetches, so a batch in which an
answer got lost may end above the limit; `batch` is what such a batch has left.
When consuming has stopped, `Ack` and `Reject` return the error, and the closure
ignores it (`GiveUp`).

A `Message` is an entry of the lists, made by one `LPUSH` of `Add`. Where that one is
repeated, there are two entries of the same bytes; see section 5.

### Sender

A worker is a consumer of the queue in `SendMessage`. `Start` is the call,
`FindAccounts` and `FindTokens` are the two queries, each atomic and each of
the state it finds. `SkipPlatform`, `CallProvider` and `PlatformsDone` are the
loop over the map `byProvider`, in any order. `SendBatch` is one
`SendEachForMulticast`: FCM answers "invalid" or anything else for each token;
`SendBatchFails` is its error, after FCM took some of the tokens, none or all.
`HandleResponse` is one turn of the loop over the responses with the whole of
`onInvalid`: it waits for room, gives up after ten seconds (possible only while
the buffer stays full) or at once after `Close`. `TakeInvalid`, `RemoveBatch`
and `RemoveBatchFails` are `removeTokensBatch`. `Change` is everything API
handlers may do to the two collections meanwhile.

### Push

A `Handler` serves one request. Between two commands to MongoDB or Redis it
touches no shared state, so an action is the checks before a command, the
command, and the reply. `Command` gives every command three outcomes: done and
answered, done and the answer lost, not done. `Unsubscribe` is two actions,
because the code reads, filters and writes without a transaction. The order of
checks is the code's: topic signatures, then message, then filters.

A client may leave the field `Topics` out (`hasTopics`), which is another thing than
an empty list: `convertTopics` then dereferences nil (`push.go:300`). The handler
panics (`Panic`), and nothing in this repository recovers. `Crash` is what the
panic takes along, or any other death of a process: a handler before its command, or
between the read and the write of `Unsubscribe`, does nothing more and answers
nothing. As there may be several processes, it need not be all handlers.

Requests are records drawn from a small set. Topics are records of a space key
and a name, and a signature is a verdict (`valid`, `invalid`, `noKey`); the
cryptography of any-sync is external.

### Delivery

`Delivery` extends `Queue`, and each consumer whose handler runs has two more
variables: whether its `SendMessage` has made its queries (`chosen`), and the
tokens it has not offered yet (`left`). `Choose`, `Offer`, `Succeed` and `Fail`
are `SendMessage` at the grain of `Fanout`, which `Sender` is proved to
implement; `Succeed` and `Fail` are the return of the queue's handler, so that
the result decides between `Ack` and `Reject`. `End` is a crash or the end of
`Close`: what the consumers of this process were sending is lost with it. What
a consumer sends belongs to the consumer here, not to the message; that no two
consumers send one message is a result (it comes from `HandledAtMostOnce`), not
part of the model.

### Payload

The other modules treat a message as opaque; this one follows its content.
`Notify` and `NotifySilent` put payload, signature and key id in a
`queue.Message`; JSON keeps nil and empty slices apart, base64 does not;
`Data` is the map that `SendMessage` makes; `Build` is the `switch` of
`fcmSender.SendMessage` with its four builders. All messages refer to one map:
`MapAfter` says what a builder leaves of it (all four leave it as it is, since
the one that adds keys copies it), and `data` is the map after all builders so
far. Tokens come on any platform, in any order, in batches.

### PushApi and PushRpc

A buffer is the sequence of its fields, and of their bytes their number is
kept: `MarshalVT` first asks `SizeVT` for the size and then fills a buffer of
this size from its end, so a size that is off by one is an error
(`MarshalVT` here returns a buffer that nobody can decode). Unmarshalling reads
field by field, by number and wire type: a known number with another type is
refused, an unknown number is kept in `unknownFields`. `PushRpc` is one call:
`Invoke` (the stub encodes), `RefuseName`, `RefuseBuffer` or `CallHandler` (drpc's
mux finds the method and decodes), `HandlerReturns`, `Return`, and `Break` at any
time. A client of a newer release adds a field at any place of its request, or
calls a method that this server does not have.

### Lifecycle

`Bootstrap` is the sequence of `server.go`; a component is "registered",
"initialised", "running" or "closed". `InitComponent` and `RunComponent` are the
two passes of `app.Start` of any-sync; `InitFails` and `RunFails` close from the
component that failed downwards, as it does. `Close` of `db` dereferences the
client that a failed `Init` has not set, which ends the process ("killed").
`RunQueue`, `Consume` (one turn of the loop in `sender.Run`), `RunSender`,
`StopConsuming` and `CloseQueue` are the steps that concern consumers, which take
deliveries (`Deliver`) from the moment they are registered. `Kill` is a crash, a
signal before `main` has asked for signals, or the time limit on the closing.

## 3. What TLC checks

Every run is exhaustive within its instance. `CHECK_DEADLOCK FALSE` is set in
all of them because every process may have ended, every message may have been
sent, and every request may have been answered.

| run | instance | what it shows |
|---|---|---|
| `queue_restart` | 2 incarnations x 2 consumers, 2 messages (1 does not decode), prefetch 2, 2 lost answers | `HandledAtMostOnce`, `NothingVanishes`, `AckedSucceeded`, `SettledOnceUnlessClosing`, `NoSlotLeak`, `FetchedInOrder`, the type invariant, and `ImplementsAtMostOnce`, under crash, close, overlap, heartbeat loss and lost answers (495,957 states) |
| `queue_live` | 1 incarnation, 1 consumer, 3 messages (1 does not decode), prefetch 2, 2 lost answers, no symmetry | one consumer handles in the order of `Add` (`HandledInOrder`), as `queue_test.go` expects; `EventuallySettled`, `CloseCompletes` |
| `sender_race` | 1 worker, 3 accounts, 3 tokens, batches of 2, 2 initial registries, 2 changes | `OfferedAtMostOnce`, `StableTokensReached`, `OnlyDueTokens`, `OnlyJudgedRemoved`, the type invariant, and `ImplementsFanout` |
| `sender_buffer` | 2 workers, 2 messages, 2 tokens, buffer of 1 | `VerdictsKept`, `SendMessageReturns`, `BufferDrained` |
| `delivery` | 2 incarnations x 1 consumer, 2 messages, 2 tokens, prefetch 2, 1 lost answer | `NotifiedAtMostOnce`, `AckedReachedAll`, and `ImplementsFanout` of all processes together (1,163,681 states) |
| `payload` | 3 tokens in batches of 1, contents that are nil, empty or there | `SignedTogether`, `ShownUnlessSilent` |
| `push_topics` | 3 requests to subscribe or unsubscribe, some without topics, 2 accounts | `SubscribedTopicsSigned`, `AnswersReliable`, `ImplementsSubscriptions` |
| `push_notify` | 3 requests about tokens and spaces or to notify, 2 accounts x 2 devices, 2 tokens | `QueuedMessagesSound`, `AuthorsStand`, `OnlyOwnTokenRevoked`, the type invariant |
| `push_api` | 1 call of every method, byte strings of length 0, 32, 127 and 128 | `RequestIntact`, `AnswerIntact`, `CompatibleServed` |
| `lifecycle` | 1 process, 3 consumers, 2 requests | `ConsumersServed`, `RequestsServed`, `GracefulExit`, `ProcessEnds` |
| `push_space_exists` | 2 requests about spaces | finds `ExistingSpaceReported` violated |
| `push_unregistered` | 2 requests to notify | finds `OnlyRegisteredSpacesNotified` violated |

Some of these deserve a word.

* `SettledOnceUnlessClosing` states precisely what the missing `return` in the
  `select` of `Consume` costs: a message can be rejected and delivered, or
  rejected by two calls, but only if some process was closing. One call of
  `Reject` alone may push a message several times, when answers get lost; the
  property allows as many copies as commands were repeated, and no more.
  `HandledAtMostOnce` holds nevertheless.
* `NoSlotLeak` is the reason why the closure must end in `Ack` or `Reject` on
  every path: ten leaked deliveries would starve a process silently. It says no
  more than that: a slot does leak, until the process ends, when the answer of a
  fetch is lost, and ten such answers starve a process, too. `EventuallySettled`
  accordingly excuses a message whose own fetch lost its answer, and all of them
  when a process has no slot left (`Starved`).
* `StableTokensReached` and `OnlyDueTokens` bound the race between the two
  queries of `SendMessage` from both sides: a token that was due a message all
  along, through one account, gets it; without a concurrent change nobody else
  does. A token that moves, between the queries, to an account that subscribed
  after the first one is missed, although it was due the message at any moment:
  the proof of `StableTokensAreReached` failed at exactly this case, and the
  third account of `sender_race` lets TLC reach it. With a change, somebody who
  unsubscribed and then registered a token may be notified on it.
* `ImplementsSubscriptions` holds for accounts whose client waits for each
  reply (`SerialAccount`), although commands fail, their answers get lost,
  handlers die, and other accounts' requests run in between. That condition is
  one on clients: nothing in the code enforces it, and two devices of one
  account, or a client that asks again after its connection broke while the
  first request still runs, do not meet it. For them the property fails: the
  write of `Unsubscribe` undoes a `Subscribe` that came after its read. The model
  contains this interleaving (the second account of the run is not serial), but
  no property is about it.
* `AckedReachedAll` says what the order of the commands in the closure of
  `Consume` is worth: an `Ack`, which takes a message out of Redis for good,
  comes after FCM got it for its whole audience. The other way round there is no
  promise: a message whose process dies after FCM got it for some tokens is
  never taken up again, and `NotifiedAtMostOnce` depends on that.
* `ShownUnlessSilent` is about one `maps.Copy` in `fcm.go`. Without it, iOS
  devices that are served after Android ones would get a title in their data,
  depending on the random order of a Go map.
* `SignedTogether` holds for a payload that is empty as well as for one that is
  there. It relies on what drpc's decoding never makes: a message whose payload
  was sent and whose signature is nil, since such a message did not verify.
* `RequestsServed` and `ConsumersServed` hold because of the order in
  `Bootstrap` alone: the transports are last and `queue`, `sender` come after the
  repositories, while `fcm`, which comes after `sender`, is complete after
  its `Init`. `GracefulExit` does not say that every request was
  answered: the transports are closed first and the handlers of requests in
  progress go on with repositories that are closed, and get errors.

### Bounds

* Two incarnations are enough for each pair that can interfere (old and new,
  two replicas); an incarnation never reads another one's list. Two consumers
  of one process give all interleavings of two closures. With two messages a
  message can pass another one; three exceed the prefetch limit of two by one.
* A batch size of two with three tokens makes one full and one partial batch;
  with two tokens exactly one full batch. A buffer of one is full as soon as
  one token is in it, and two consumers compete for it.
* The third account of `sender_race`, `guest`, has neither tokens nor topics at
  first: a token may move to it after it has subscribed.
* `MaxChanges` = 2 allows a change before, between and after the two queries,
  and two of them in the same gap (unsubscribe, then register a token). It is
  0 in `sender_buffer`, whose properties do not depend on the collections.
* `delivery` has two tokens, so that a process can end, or a call fail, with part
  of the audience served, and two processes that compete for two messages; the
  two consumers of one process are in `queue_restart`, where a message reaches
  the handler once, and in the proofs, which are for any number of them.
  Batches are in `sender_race`.
* Batches of one give `payload` several batches of one platform, and another
  platform after it, with three tokens.
* 127 and 128 are the lengths between which the varint of a length grows by a
  byte; nested in `Topics` or `Message`, they push the enclosing message over the
  same edge. New fields come with all wire types, at every place of a buffer.
* With three consumers a start can fail with one busy, one idle and one not yet
  registered.
* Three requests suffice for the interleavings of a two-step `Unsubscribe`
  with one request and an earlier request that set up what they act on. Two
  suffice for the two violations.
* `WirePlatform` values 256 and 257 wrap to 0 and 1 in the `uint8` of
  `domain.Platform`, and 2 is a platform without a provider.

* `MaxLost` bounds the answers of Redis that get lost. Two of them, with a prefetch
  limit of two, strand a whole window, repeat one `LPUSH` twice, or do one of each;
  with three messages in `queue_live`, a batch then goes over the limit.

### Fairness

* `Queue!Fairness`: weak fairness of rmq's fetching goroutine, of each consumer
  and of the steps of `Close`: the Go scheduler runs every goroutine that can
  run, Redis answers in the end, and the handler returns (`SendMessageReturns`,
  below). Starting, closing, crashing, losing the heartbeat and losing an answer
  are never obliged.
  `EventuallySettled` accordingly excuses messages once some process stopped,
  so that one incarnation tells as much as two.
* `Sender!Fairness`: each consumer's next step, since MongoDB and FCM answer
  with a result or an error and a blocked `onInvalid` has a timeout. The
  remover is given none in `SendMessageReturns`: `RemoveTokens` has a context
  without deadline. `BufferDrained` assumes fairness of the remover in its own
  premise, to say what draining depends on.

* `Lifecycle!Fairness`: `main` goes on, and a consumer comes to the end of
  `SendMessage`, which is `SendMessageReturns`. Requests need not be answered,
  and nobody is obliged to send a signal.

### Findings

* `push_space_exists`: `CreateSpace` (`push/push.go:171-187`) translates
  `ErrSpaceExists` and then returns `nil`, so creating a space that exists is
  answered `Ok`. `push.proto:10` and `errors.go:15` define the answer
  `SpaceExists` for it. `RemoveSpace` drops its error in the same way.
* `push_unregistered`: `Notify` is said to filter topics "by registered space
  keys" (`push/push.go:137`), and the skipped test of `ExistedSpaces` expects
  that, but `ExistedSpaces` (`repo/spacerepo/spacerepo.go:80-82`) returns what
  it is given; a TODO says so.

## 4. What is proved

Each theorem holds for all values of the constants that satisfy the named
assumption of its module: any sets of messages, tokens, accounts, consumers,
incarnations and handlers, any prefetch limit, batch and buffer size, any number
of lost answers (`MaxLost`).

| module | theorem | states |
|---|---|---|
| `QueueProofs` | `TypeCorrect` | `Spec => []TypeOK` |
| | `AtMostOneCall` | `Spec => []HandledAtMostOnce` |
| | `QueueImplementsAtMostOnce` | `Spec => ImplementsAtMostOnce` |
| | `NoMessageVanishes` | `Spec => []NothingVanishes` |
| | `AckMeansSuccess` | `Spec => []AckedSucceeded` |
| | `SlotsDoNotLeak` | `Spec => []NoSlotLeak` |
| | `FetchedInOrderOfAdd` | `Spec => []FetchedInOrder` |
| | `SettledOnceBeforeClose` | `Spec => []SettledOnceUnlessClosing` |
| | `SingleConsumerInOrder` | `Spec => []HandledInOrder`, with one server and one worker at most |
| `SenderProofs` | `SenderTypeCorrect` | `Spec => []TypeOK` |
| | `NoTokenTwice` | `Spec => []OfferedAtMostOnce` |
| | `OnlyJudgedTokensRemoved` | `Spec => []OnlyJudgedRemoved` |
| | `VerdictsNotForgotten` | `Spec => []VerdictsKept` |
| | `StableTokensAreReached` | `Spec => []StableTokensReached` |
| | `OnlyDueTokensOffered` | `Spec => []OnlyDueTokens` |
| | `SenderImplementsFanout` | `Spec => ImplementsFanout` |
| `DeliveryProofs` | `DeliveryIsQueue` | `DeliverySpec => Spec` of `Queue` |
| | `AtMostOneNotification` | `DeliverySpec => []NotifiedAtMostOnce` |
| | `AckMeansAudienceReached` | `DeliverySpec => []AckedReachedAll` |
| | `DeliveryImplementsFanout` | `DeliverySpec => ImplementsFanout` |
| `PayloadProofs` | `PayloadStaysSigned` | `Spec => []SignedTogether` |
| | `SilentShowsNothing` | `Spec => []ShownUnlessSilent` |
| `PushProofs` | `PushTypeCorrect` | `Spec => []TypeOK` |
| | `TokensRevokedByOwner` | `Spec => OnlyOwnTokenRevoked` |
| | `AuthorsKeepTheirSpaces` | `Spec => AuthorsStand` |
| | `SubscriptionsSigned` | `Spec => []SubscribedTopicsSigned` |
| | `QueuedMessagesAskedFor` | `Spec => []QueuedMessagesSound` |
| | `AnswersCanBeReliedOn` | `Spec => []AnswersReliable` |
| | `PushImplementsSubscriptions` | `Spec => ImplementsSubscriptions` |
| `PushRpcProofs` | `SizeIsRight` | `MarshalVT` returns the buffer, for every message of every type |
| | `RoundTrip` | `UnmarshalVT` reads the buffer as the message, with a field of another release anywhere in it too |
| | `RequestsArriveIntact` | `Spec => []RequestIntact` |
| | `AnswersArriveIntact` | `Spec => []AnswerIntact` |
| | `CompatibleClientsAreServed` | `Spec => []CompatibleServed` |
| `LifecycleProofs` | `BusyConsumersAreServed` | `Spec => []ConsumersServed` |
| | `RequestsFindTheirServices` | `Spec => []RequestsServed` |
| | `ExitIsGraceful` | `Spec => []GracefulExit` |

### The queue

The argument:

* **Types.** `TypeOK` alone is not inductive: `CallHandler` appends `held` to
  `handled`, and `held` may be `NoMessage`. `TypeInv` adds `HoldsDelivery`, a
  consumer inside the closure holds a message.
* **At most once.** `HandledAtMostOnce` says nothing of the messages still to
  be handled. `OnceInv` does: a message that was not handled is in exactly one
  place from which a handler call can follow - in `ready`, in one channel, or
  with one consumer that is before the call (`Before`) - and occurs there once.
  Each action moves a message from one place to the next (`PrefetchOnce`,
  `TakeOnce`, `CallHandlerOnce`), drops it (`EndProcessOnce`), brings in a new
  one (`AddOnce`), or changes none of the places (`OnceKept`). The lists
  `unacked` and `rejected` do not count, because no action takes from them; so a
  fetch whose answer is lost drops a message (`PrefetchLostOnce`), and a repeated
  `LPUSH` of `Reject` changes nothing.
* **Refinement.** With `TypeInv` and `OnceInv`, `Add` is a step `Accept`,
  `CallHandler` a step `Deliver`, and every other step leaves `log` and
  `handled` alone.
* **Nothing vanishes, and an ack means success.** `SettleInv` adds
  `Removable`: a consumer about to execute the `LREM` of a `Reject` has
  executed its `LPUSH`, and one about to `Ack` had success.
* **No slot leaks.** `SlotInv` adds that a connection that has not started to
  consume has fetched nothing (else `Run` would break it), and `IdleEmpty` that
  a waiting consumer holds nothing (else `Take` would overwrite a delivery). What
  is in `unacked` without a consumer is in `stranded`, to which only a fetch that
  lost its answer adds.
* **Fetched in order.** `FetchedInOrder` is inductive with the types: `Add`
  appends to `log` and to `ready`, a prefetch takes the head of `ready`.
* **Settled once.** A consumer is `Open` until it has acked or rejected its
  delivery. `OpenOnce`: such a delivery is in no list and with no other
  consumer. `SettledOnce`, which lasts until the first `Cancel`: what is in
  `ready`, in a channel or with an open consumer is not settled yet, and nobody
  is in the `select` that sheds a late delivery. Not settled means `Fresh`, never
  pushed to `rejected`; only for a consumer in the middle of its `Reject` it means
  `Unsettled`, pushed no more often than the `LPUSH` had to be repeated.
* **One consumer in order.** `OrderInv` lines up everything a message passes:
  what was handled comes before the delivery about to be handled (`Current`),
  this before what was fetched, and this before `ready`, by positions in `log`.
  With a second consumer `Current` has two members and the invariant fails.

### The sender

* **Types.** `LocalsTyped` has the types of the lists that `SendMessage` and the
  provider loop over, and that there are never more responses than tokens in the
  batch. `OrdersProperties` (the order in which a query returns tokens is a list
  of all of them without repetition) needs a finite set of tokens. `OthersTyped`
  is the rest of `TypeOK`.
* **Verdicts.** `OnlyJudgedRemoved` and `VerdictsKept` are about where the index
  of a response leads. `OpenVerdict(w, t)` says that FCM called `t` invalid in a
  response that consumer `w` has not handled, with `t` found by the index that
  the code will use. `Matched`: an open verdict is one that FCM gave, and there
  are none outside the loop over the responses. `Followed`: a verdict that is
  not open is in the buffer, with the remover, deleted or given up.
  `NextResponse` is the heart: a turn of the loop settles the verdict on its own
  token and leaves the others open.
* **At most once.** `LocalsInv`: a message is with one consumer; all the lists of
  a consumer are without repetition and have no token in common (`Apart`), which
  the grouping by platform (`FoundApart`) and the cutting of batches
  (`Batching`, `BatchApart`) keep. `OfferedInv`: the tokens a consumer has left
  were not offered, and a message before its second query was offered for
  no token. From these, a batch raises counts from 0 to 1 only (`OfferCounts`).
* **Whom a message reaches.** `stable` is a history of what was due a message
  all along, so that `StableTokensReached` says nothing before the return.
  `ReachInv` follows these tokens (`MissesNone`): they are still due, their
  accounts are in the answer of the first query, and from the second one on each
  was offered or is left to a platform with a provider (`Own`). `HitsOnlyDue` is
  the same from the other side while nobody changed the collections. The lists
  move between the variables by `PlatformOwn` and `BatchOwn`, lemmas that the
  refinement uses as well.
* **Refinement.** What remains of a message is what its consumer has left for
  platforms with a provider (`Known`). `FindTokens` is `Choose`, `SendBatch` is
  `Offer`, `SendBatchFails` and `QueryFails` are `Fail`, `FindNoTokens` and
  `PlatformsDone` are `Succeed`; the loops, the responses, the remover and all
  changes of the collections stutter.

### Queue and senders together

`DeliveryIsQueue` carries the theorems about `Queue` over. `SendInv` relates them
to the senders: a consumer that sends has a message that was handed out and has
not succeeded (`HandedOut`), no two consumers send the same one (`Apart`, from
`HandledAtMostOnce`), nothing is offered before the queries (`NotBefore`), a
consumer that does not send has nothing left (`Idle`), the audience is what was
offered and what is left (`Progress`), and all of it was offered when the
message succeeded (`Complete`). The refinement maps the result of a message to
what became of its consumer: a consumer that ended with its process counts as a
failure (`Abandon`).

### The content of a notification

The invariant `IInv` says that the data map never changes after `SendMessage`
made it, from the request (`data = Data(Unmarshal(Marshal(Queued(request))))`), and
that every device got what `Build` makes of this map and a platform. Both
properties then follow from the definitions, case by case.

### The API

A handler takes steps of its own (`StepAlone`), so that what was said of a
handler's request stays true. `SignedInv`: every topic in the collection, in the
list a handler has read, and in the rest that `Unsubscribe` is about to write,
was presented signed by this account (`Presented`); the list read is why
`SubscribedTopicsSigned` is not inductive. `SoundInv` is the same of queued messages.
`AnswerInv` relates place, reply and effect of each handler. `AuthorsStand` and
`OnlyOwnTokenRevoked` are action properties, from the types and a case for each
action that touches the collection.

The refinement of `Subscriptions` needs `SerialInv`: a client that waits has one
active handler at most, and what the `Unsubscribe` of such a client has read is
still what its account has, since a step changes the document of the account of
an active handler only (`OwnDocument`). `Receive` is `Ask`, the command of
`Subscribe` and the write of `Unsubscribe` are `Apply`, and all else stutters, the
read of `Unsubscribe` and commands that fail included.

### A call and its codec

`CallInv` says of each value of a call how it is made from the one before: the
buffer from the request (`Carries`), the handler's request from the buffer
(`Receives`), the answer from the handler's outcome (`Gives`) or by the mux itself
(`MuxAnswers`), the result from the answer (`Tells`). The steps keep it by two
theorems about the codec, of which the second is the longest proof of the project:

* `SizeIsRight`: `WireSize` of what `MarshalToSizedBufferVT` puts is `SizeVT`, for
  strings of any length and nested messages in any number.
* `RoundTrip`: what a buffer is read into. Reading is a fold that starts from the
  new message, so the claim is about every sequence of fields: each known field
  replaces one component of the message (`Sets`), or reads on in a nested message
  that came before, and each unknown one is appended to `unknownFields`
  (`Extended`). The order of the fields of this release does not have to be
  known for the field of another release: two messages that differ by one unknown
  field do so after every further field (`Wider`, `FoldInserted`), so the position
  at which it comes does not matter.

A fold is a recursive definition and facts about it need induction. The
induction theorems of the library take an operator as a parameter, which the
provers cannot instantiate; `FoldFacts` instead has the operator of the fold as a
CONSTANT, proves induction over sequences in terms of sets (`NatSetInduction`,
`SeqSetInduction`, from the well-foundedness of `Nat`), and is instantiated once
for each function that reads or measures a buffer.

### The life of a process

The property a consumer or a request needs is about the state of components, and
`main` changes one component at a time. `MainFront` ties the states to `next`: in a
start everything below it is up and nothing above, in a closing nothing above it
runs. `QueueServed`: as long as deliveries are handed out, or a consumer has not
come back (`Engaged`), all that `SendMessage` uses and the queue itself run; so
`next` cannot pass the queue in a closing, which starts at any component that
failed. `HandlersServed`: what listens is above all that handlers call. The only
facts used about `Bootstrap` are the places of nine of its 23 components.

### What the proofs assume

`QueueAssumption`, `SenderAssumption`, `PushAssumption`, `PayloadAssumption`,
`DomainAssumption`, `ApiAssumption` and `RpcAssumption` only: sizes are positive,
markers such as `NoMessage` are none of the values they mark, requests have the
fields of the protocol, and the set of tokens of `Sender` and `Payload` is finite.
Of the releases of a client, `RpcAssumption` says that a new field has a number
above 3, the last one in use, and that a field which changed its type has one that
no message has at its number. TLC evaluates each of them.

### What is only model-checked

Liveness, which is out of the reach of this prover: `EventuallySettled`,
`CloseCompletes`, `SendMessageReturns`, `BufferDrained`, `ProcessEnds`. Every
invariant, action property and refinement that a passing run checks is proved.

## 5. What is not modelled

* **rmq's cleaner** and the return of rejected deliveries: no code here calls
  them. The consequence - a fetched message of a process that died is not
  handled by anybody - is part of the model.
* **A payload that is published twice.** The `LPUSH` of `Add` may be executed and
  lose its answer: go-redis then repeats it, and if that fails, too, `Add` returns an
  error for a message that is in the queue, and the client may ask again. Either
  way the payload is in `ready` twice, and its devices show it twice. Nothing in
  the code recognises the second copy. The model has one `Message` for each entry of
  a list and `Add` adds one, so `HandledAtMostOnce`, `ImplementsAtMostOnce`,
  `NotifiedAtMostOnce`, `AckedReachedAll` and both `ImplementsFanout` hold for each
  entry: nothing after the `LPUSH` repeats one. They do not say that a notification
  is shown once. (`Push!Command` has the lost answer of `Add` itself: the message is
  queued and the reply is an error; `queued` is a set and does not count copies.)
* **Requests without an account or a peer.** `peer.CtxPubKey` and `CtxPeerId` take
  them from the context, where any-sync's handshake put them; every handler returns
  the error at once if they are missing. Requests of `Push` always have both.
* **Overlapping requests of one account**, as far as properties go: the steps are in
  `Push`, and what they do to each other is said with `ImplementsSubscriptions`.
* **A command of a process that is gone.** MongoDB or Redis may execute a command
  after the process that sent it died. `Push!Command` lets that happen no later than
  the end of the handler.
* **FCM's view**: whether a message reaches a device. The model counts what is
  offered to FCM.
* **JSON decoding in the queue**: a payload that a release does not decode is a
  member of `Undecodable`. How it fails is not modelled; `Payload` has the JSON
  of what the same release wrote.
* **Cryptography**: signatures are verdicts, keys are model values.
* **Strings**: a topic is a record, not base58 text with a slash; see the plan.
* `tokenrepo.UpdateTokenStatus`, which the server does not call; MongoDB
  indexes; `db.Tx`, which no component uses; metrics, the sections of the
  configuration, the components of any-sync behind their `Init`, `Run` and `Close`.
* **Generated code** beyond what a call runs: the reflection of `push.pb.go`, its
  getters, the unimplemented server, the stream wrappers of `push_drpc.pb.go`, and
  all mocks.
* A mongo command is one atomic step. The documents it touches are one, except
  for `RemoveTokens` and the two queries of `SendMessage`: these three are
  atomic in the model, a `DeleteMany` and two `Find` in the code.

## 6. Plan

Done: every component that keeps state, each interaction between components,
four refinements, and the theorems above.

What is left, in this order:

1. `Topics`, the pure algorithms of `domain/topic.go`: `NewTopic`, the search
   for the first slash, and the prefix that `SpaceKeyBase58` returns, checked
   against the records of `Domain`.
2. `UpdateTokenStatus` in `TokenRepo`, when the server uses it.
