------------------------------- MODULE Queue -------------------------------
(***************************************************************************)
(* The notification queue: queue/queue.go over the Redis lists of          *)
(* github.com/adjust/rmq/v5.                                               *)
(*                                                                         *)
(* Redis outlives every process and is shared by all of them: the list     *)
(* ready of published payloads, the list rejected, and one list unacked    *)
(* per rmq connection.  A process opens one connection under a fresh name  *)
(* when it starts, so a Server stands for one incarnation of the program:  *)
(* a restart, or a second replica, is another Server.  In a process, one   *)
(* goroutine of rmq moves payloads from ready to unacked and into a        *)
(* channel, and the consumers that sender.Run registers take them from     *)
(* there, run the closure of Consume and call the handler.                 *)
(*                                                                         *)
(* go-redis, whose URL sets max_retries, and rmq's own loops issue a       *)
(* command again when its answer does not arrive, although Redis may have  *)
(* executed it.  What that does to the lists is in PrefetchLost and in     *)
(* RejectPushLost; an LREM that is repeated finds nothing more to remove.  *)
(* A Message is one entry of the lists, made by one LPUSH of Add: a        *)
(* payload that Add's client sends twice is two Messages of the same bytes,*)
(* and an LREM by value may as well remove the one as the other.           *)
(***************************************************************************)
EXTENDS Integers, Sequences, FiniteSets, Functions

CONSTANTS
  Message,        \* the entries of the lists, one for each LPUSH of Add
  Undecodable,    \* those json.Unmarshal refuses in the consuming release
  Server,         \* incarnations of the program
  Worker,         \* the consumers of one incarnation (ten in sender.Run)
  PrefetchLimit,  \* the first argument of StartConsuming
  NoMessage,      \* what a consumer without a delivery holds
  MaxLost         \* bound: how many answers of Redis are lost

ASSUME QueueAssumption ==
  /\ Undecodable \subseteq Message
  /\ PrefetchLimit \in Nat \ {0}
  /\ NoMessage \notin Message
  /\ MaxLost \in Nat

VARIABLES
  ready,      \* Redis: the published payloads, the next one first
  unacked,    \* Redis: the payloads fetched by each connection
  rejected,   \* Redis: how often a payload is in the rejected list
  conn,       \* the state of each incarnation's connection
  cancelled,  \* whether runCtx is done
  batch,      \* the fetches left in consumeBatch, if counting again gives less
  chan,       \* deliveryChan: fetched, and not yet taken by a consumer
  at,         \* where each consumer is in the closure of Consume
  held,       \* the delivery each consumer holds
  log,        \* history: every message, in the order of its Add
  handled,    \* history: the messages in the order the handler was called
  succeeded,  \* history: the messages the handler returned nil for
  acked,      \* history: the messages that an Ack removed from unacked
  resent,     \* history: how often Reject repeated an executed LPUSH
  stranded,   \* history: what a fetch moved whose answer was lost
  lost        \* the number of lost answers

redisVars   == <<ready, unacked, rejected>>
processVars == <<conn, cancelled, batch, chan, at, held>>
faultVars   == <<resent, stranded, lost>>
historyVars == <<log, handled, succeeded, acked, faultVars>>
vars        == <<redisVars, processVars, historyVars>>

ConnState == {"down", "up", "stopping", "closed", "dead"}
(***************************************************************************)
(* A consumer is off before Consume registers it and after its loop ends.  *)
(* "shed" is the Reject of a delivery that arrives after runCtx is done;   *)
(* it takes the same two Redis commands as the Reject that ends the        *)
(* closure, and the closure goes on to the decoding after it.              *)
(***************************************************************************)
WorkerState == {"off", "idle", "select", "shedPush", "shedRemove", "decode",
                "handling", "rejectPush", "rejectRemove", "ack"}

Alive(s)     == conn[s] \in {"up", "stopping"}
Published(m) == m \in Range(log)
Goto(s, w, state) == at' = [at EXCEPT ![s][w] = state]

\* The closure returns: rmq's loop ends if consuming was stopped meanwhile.
Return(s, w) ==
  /\ Goto(s, w, IF conn[s] = "up" THEN "idle" ELSE "off")
  /\ held' = [held EXCEPT ![s][w] = NoMessage]

Init ==
  /\ ready     = <<>>
  /\ unacked   = [s \in Server |-> {}]
  /\ rejected  = [m \in Message |-> 0]
  /\ conn      = [s \in Server |-> "down"]
  /\ cancelled = [s \in Server |-> FALSE]
  /\ batch     = [s \in Server |-> 0]
  /\ chan      = [s \in Server |-> <<>>]
  /\ at        = [s \in Server |-> [w \in Worker |-> "off"]]
  /\ held      = [s \in Server |-> [w \in Worker |-> NoMessage]]
  /\ log       = <<>>
  /\ handled   = <<>>
  /\ succeeded = {}
  /\ acked     = {}
  /\ resent    = [m \in Message |-> 0]
  /\ stranded  = [s \in Server |-> {}]
  /\ lost      = 0

(***************************************************************************)
(* Run opens the connection and starts consuming; the consumers come one   *)
(* by one, while payloads are already being fetched.                       *)
(***************************************************************************)
Run(s) ==
  /\ conn[s] = "down"
  /\ conn' = [conn EXCEPT ![s] = "up"]
  /\ UNCHANGED <<redisVars, cancelled, batch, chan, at, held, historyVars>>

Consume(s, w) ==
  /\ conn[s] = "up"
  /\ at[s][w] = "off"
  /\ Goto(s, w, "idle")
  /\ UNCHANGED <<redisVars, conn, cancelled, batch, chan, held, historyVars>>

\* Mutant of Add: the payload goes to the end that is fetched first.
AddInFront(m) ==
  /\ \E s \in Server : Alive(s)
  /\ ~Published(m)
  /\ ready' = <<m>> \o ready
  /\ log' = Append(log, m)
  /\ UNCHANGED <<unacked, rejected, processVars, handled, succeeded, acked, faultVars>>

(***************************************************************************)
(* Add publishes through any process that still serves requests.           *)
(***************************************************************************)
Add(m) ==
  /\ \E s \in Server : Alive(s)
  /\ ~Published(m)
  /\ ready' = Append(ready, m)
  /\ log' = Append(log, m)
  /\ UNCHANGED <<unacked, rejected, processVars, handled, succeeded, acked, faultVars>>

(***************************************************************************)
(* rmq's fetching goroutine.  consumeBatch counts the unacked payloads of  *)
(* this connection once and then fetches as many as the limit leaves, each *)
(* with one RPOPLPUSH; it ends early when ready is empty or a fetch fails. *)
(* What it has left matters only when counting again would give less, as   *)
(* it does after a lost answer; else batch stays 0.                        *)
(***************************************************************************)
Free(fetched) == PrefetchLimit - Cardinality(fetched)
Left(s) == IF batch[s] > 0 THEN batch[s] ELSE Free(unacked[s])

Fetch(s, rest) ==
  /\ conn[s] = "up"
  /\ ready # <<>>
  /\ Left(s) > 0
  /\ ready' = Tail(ready)
  /\ unacked' = [unacked EXCEPT ![s] = @ \cup {Head(ready)}]
  /\ batch' = [batch EXCEPT ![s] = IF rest > Free(unacked'[s]) THEN rest ELSE 0]
  /\ UNCHANGED <<rejected, conn, cancelled, at, held>>

Prefetch(s) ==
  /\ Fetch(s, Left(s) - 1)
  /\ chan' = [chan EXCEPT ![s] = Append(@, Head(ready))]
  /\ UNCHANGED historyVars

(***************************************************************************)
(* Redis executes an RPOPLPUSH and the answer is lost: nobody delivers the *)
(* payload, which counts against the limit from now on.  go-redis repeats  *)
(* the command in the same batch, or the batch ends with the error.        *)
(***************************************************************************)
PrefetchLost(s) ==
  /\ Fetch(s, Left(s))
  /\ lost < MaxLost
  /\ stranded' = [stranded EXCEPT ![s] = @ \cup {Head(ready)}]
  /\ lost' = lost + 1
  /\ UNCHANGED <<chan, log, handled, succeeded, acked, resent>>

BatchEnds(s) ==
  /\ conn[s] = "up"
  /\ batch[s] > 0
  /\ batch' = [batch EXCEPT ![s] = 0]
  /\ UNCHANGED <<redisVars, conn, cancelled, chan, at, held, historyVars>>

(***************************************************************************)
(* rmq's consumer loop: a consumer that waits for a delivery may still get *)
(* one when consuming stops at the same moment; it takes no other.         *)
(***************************************************************************)
Take(s, w) ==
  /\ Alive(s)
  /\ at[s][w] = "idle"
  /\ chan[s] # <<>>
  /\ held' = [held EXCEPT ![s][w] = Head(chan[s])]
  /\ chan' = [chan EXCEPT ![s] = Tail(@)]
  /\ Goto(s, w, "select")
  /\ UNCHANGED <<redisVars, conn, cancelled, batch, historyVars>>

\* Mutant of Select: a delivery is rejected, too, after consuming stopped.
SelectStopped(s, w) ==
  /\ at[s][w] = "select"
  /\ Goto(s, w, IF cancelled[s] \/ conn[s] # "up" THEN "shedPush" ELSE "decode")
  /\ UNCHANGED <<redisVars, conn, cancelled, batch, chan, held, historyVars>>

\* The select at the top of the closure: no case of it returns.
Select(s, w) ==
  /\ at[s][w] = "select"
  /\ Goto(s, w, IF cancelled[s] THEN "shedPush" ELSE "decode")
  /\ UNCHANGED <<redisVars, conn, cancelled, batch, chan, held, historyVars>>

(***************************************************************************)
(* Reject is an LPUSH on the rejected list, then an LREM on unacked.       *)
(***************************************************************************)
RejectPush(s, w) ==
  /\ \/ at[s][w] = "shedPush"   /\ Goto(s, w, "shedRemove")
     \/ at[s][w] = "rejectPush" /\ Goto(s, w, "rejectRemove")
  /\ rejected' = [rejected EXCEPT ![held[s][w]] = @ + 1]
  /\ UNCHANGED <<ready, unacked, conn, cancelled, batch, chan, held, historyVars>>

\* Redis executes the LPUSH and the answer is lost: Reject tries again.
RejectPushLost(s, w) ==
  /\ at[s][w] \in {"shedPush", "rejectPush"}
  /\ lost < MaxLost
  /\ rejected' = [rejected EXCEPT ![held[s][w]] = @ + 1]
  /\ resent' = [resent EXCEPT ![held[s][w]] = @ + 1]
  /\ lost' = lost + 1
  /\ UNCHANGED <<ready, unacked, processVars, log, handled, succeeded, acked, stranded>>

RejectRemove(s, w) ==
  /\ \/ /\ at[s][w] = "shedRemove"
        /\ Goto(s, w, "decode")
        /\ UNCHANGED held
     \/ /\ at[s][w] = "rejectRemove"
        /\ Return(s, w)
  /\ unacked' = [unacked EXCEPT ![s] = @ \ {held[s][w]}]
  /\ UNCHANGED <<ready, rejected, conn, cancelled, batch, chan, historyVars>>

\* Mutant of DecodeFails: return without Reject.
DecodeFailsQuietly(s, w) ==
  /\ at[s][w] = "decode"
  /\ held[s][w] \in Undecodable
  /\ Return(s, w)
  /\ UNCHANGED <<redisVars, conn, cancelled, batch, chan, historyVars>>

\* json.Unmarshal refuses the payload: Reject and return.
DecodeFails(s, w) ==
  /\ at[s][w] = "decode"
  /\ held[s][w] \in Undecodable
  /\ Goto(s, w, "rejectPush")
  /\ UNCHANGED <<redisVars, conn, cancelled, batch, chan, held, historyVars>>

\* Mutant of CallHandler: after a failed decoding the handler gets a zero value.
CallHandlerZero(s, w) ==
  /\ at[s][w] = "decode"
  /\ Goto(s, w, "handling")
  /\ handled' = Append(handled,
       IF held[s][w] \in Undecodable THEN NoMessage ELSE held[s][w])
  /\ UNCHANGED <<redisVars, conn, cancelled, batch, chan, held, log, succeeded, acked, faultVars>>

\* The payload decodes and the handler is called with it.
CallHandler(s, w) ==
  /\ at[s][w] = "decode"
  /\ held[s][w] \notin Undecodable
  /\ Goto(s, w, "handling")
  /\ handled' = Append(handled, held[s][w])
  /\ UNCHANGED <<redisVars, conn, cancelled, batch, chan, held, log, succeeded, acked, faultVars>>

\* Mutant of HandlerReturns: the handler's error is not looked at.
HandlerReturnsAnyhow(s, w, ok) ==
  /\ at[s][w] = "handling"
  /\ Goto(s, w, "ack")
  /\ succeeded' = IF ok THEN succeeded \cup {held[s][w]} ELSE succeeded
  /\ UNCHANGED <<redisVars, conn, cancelled, batch, chan, held, log, handled, acked, faultVars>>

\* Mutant of HandlerReturns: a message that failed is published again.
HandlerReturnsRetry(s, w, ok) ==
  /\ at[s][w] = "handling"
  /\ Goto(s, w, IF ok THEN "ack" ELSE "rejectPush")
  /\ succeeded' = IF ok THEN succeeded \cup {held[s][w]} ELSE succeeded
  /\ ready' = IF ok THEN ready ELSE Append(ready, held[s][w])
  /\ UNCHANGED <<unacked, rejected, conn, cancelled, batch, chan, held, log, handled, acked,
                 faultVars>>

HandlerReturns(s, w, ok) ==
  /\ at[s][w] = "handling"
  /\ Goto(s, w, IF ok THEN "ack" ELSE "rejectPush")
  /\ succeeded' = IF ok THEN succeeded \cup {held[s][w]} ELSE succeeded
  /\ UNCHANGED <<redisVars, conn, cancelled, batch, chan, held, log, handled, acked, faultVars>>

\* Ack is an LREM; it finds nothing when the delivery was shed before.
Ack(s, w) ==
  /\ at[s][w] = "ack"
  /\ unacked' = [unacked EXCEPT ![s] = @ \ {held[s][w]}]
  /\ acked' = acked \cup ({held[s][w]} \cap unacked[s])
  /\ Return(s, w)
  /\ UNCHANGED <<ready, rejected, conn, cancelled, batch, chan, log, handled, succeeded,
                 faultVars>>

(***************************************************************************)
(* Ack and Reject retry a failing Redis command while consuming goes on;   *)
(* once it was stopped they give up, and the closure ignores the error.    *)
(***************************************************************************)
GiveUp(s, w) ==
  /\ conn[s] = "stopping"
  /\ \/ /\ at[s][w] \in {"shedPush", "shedRemove"}
        /\ Goto(s, w, "decode")
        /\ UNCHANGED held
     \/ /\ at[s][w] \in {"rejectPush", "rejectRemove", "ack"}
        /\ Return(s, w)
  /\ UNCHANGED <<redisVars, conn, cancelled, batch, chan, historyVars>>

(***************************************************************************)
(* Close: cancel runCtx, stop consuming, wait for the consumers.           *)
(***************************************************************************)
Cancel(s) ==
  /\ Alive(s)
  /\ ~cancelled[s]
  /\ cancelled' = [cancelled EXCEPT ![s] = TRUE]
  /\ UNCHANGED <<redisVars, conn, batch, chan, at, held, historyVars>>

StopConsuming(s) ==
  /\ conn[s] = "up"
  /\ cancelled[s]
  /\ conn' = [conn EXCEPT ![s] = "stopping"]
  /\ UNCHANGED <<redisVars, cancelled, batch, chan, at, held, historyVars>>

\* Mutant of EndProcess: what an rmq cleaner would do, the unacked payloads
\* of the ended connection become ready again.
EndProcessCleaned(s, state) ==
  /\ conn' = [conn EXCEPT ![s] = state]
  /\ batch' = [batch EXCEPT ![s] = 0]
  /\ chan' = [chan EXCEPT ![s] = <<>>]
  /\ at' = [at EXCEPT ![s] = [w \in Worker |-> "off"]]
  /\ held' = [held EXCEPT ![s] = [w \in Worker |-> NoMessage]]
  /\ unacked' = [unacked EXCEPT ![s] = {}]
  /\ \E order \in [1 .. Cardinality(unacked[s]) -> unacked[s]] :
       /\ IsInjective(order)
       /\ ready' = ready \o order
  /\ UNCHANGED <<rejected, cancelled, historyVars>>

\* Mutant of EndProcess: Close also purges the unacked list.
EndProcessPurged(s, state) ==
  /\ conn' = [conn EXCEPT ![s] = state]
  /\ batch' = [batch EXCEPT ![s] = 0]
  /\ chan' = [chan EXCEPT ![s] = <<>>]
  /\ at' = [at EXCEPT ![s] = [w \in Worker |-> "off"]]
  /\ held' = [held EXCEPT ![s] = [w \in Worker |-> NoMessage]]
  /\ unacked' = [unacked EXCEPT ![s] = {}]
  /\ UNCHANGED <<ready, rejected, cancelled, historyVars>>

EndProcess(s, state) ==
  /\ conn' = [conn EXCEPT ![s] = state]
  /\ batch' = [batch EXCEPT ![s] = 0]
  /\ chan' = [chan EXCEPT ![s] = <<>>]
  /\ at' = [at EXCEPT ![s] = [w \in Worker |-> "off"]]
  /\ held' = [held EXCEPT ![s] = [w \in Worker |-> NoMessage]]
  /\ UNCHANGED <<redisVars, cancelled, historyVars>>

\* Mutant of Stopped: Close waits until the fetched deliveries are consumed.
StoppedWhenDrained(s) ==
  /\ conn[s] = "stopping"
  /\ cancelled[s]
  /\ chan[s] = <<>>
  /\ \A w \in Worker : at[s][w] \in {"off", "idle"}
  /\ EndProcess(s, "closed")

Stopped(s) ==
  /\ conn[s] = "stopping"
  /\ cancelled[s]
  /\ \A w \in Worker : at[s][w] \in {"off", "idle"}
  /\ EndProcess(s, "closed")

(***************************************************************************)
(* rmq stops consuming by itself when its heartbeat fails too often.       *)
(* handleRmqErrs logs the error and the process goes on serving requests.  *)
(***************************************************************************)
HeartbeatLost(s) ==
  /\ conn[s] = "up"
  /\ ~cancelled[s]
  /\ conn' = [conn EXCEPT ![s] = "stopping"]
  /\ UNCHANGED <<redisVars, cancelled, batch, chan, at, held, historyVars>>

\* The process dies; what it fetched stays in the unacked list of its
\* connection, which no later incarnation reads.
Crash(s) ==
  /\ Alive(s)
  /\ EndProcess(s, "dead")

WorkerStep(s, w) ==
  \/ Select(s, w)
  \/ RejectPush(s, w)
  \/ RejectRemove(s, w)
  \/ DecodeFails(s, w)
  \/ CallHandler(s, w)
  \/ \E ok \in BOOLEAN : HandlerReturns(s, w, ok)
  \/ Ack(s, w)
  \/ GiveUp(s, w)

ServerStep(s) ==
  \/ Run(s)
  \/ Prefetch(s) \/ PrefetchLost(s) \/ BatchEnds(s)
  \/ Cancel(s)
  \/ StopConsuming(s)
  \/ Stopped(s)
  \/ HeartbeatLost(s)
  \/ Crash(s)
  \/ \E w \in Worker : Consume(s, w) \/ Take(s, w) \/ WorkerStep(s, w) \/ RejectPushLost(s, w)

Next ==
  \/ \E m \in Message : Add(m)
  \/ \E s \in Server : ServerStep(s)

Spec == Init /\ [][Next]_vars

(***************************************************************************)
(* The scheduler runs every goroutine, a command that is repeated is       *)
(* answered in the end, and the handler returns.  Nothing obliges a        *)
(* process to start, to close or to fail, or an answer to be lost.         *)
(***************************************************************************)
Fairness ==
  \A s \in Server :
    /\ WF_vars(Prefetch(s))
    /\ WF_vars(StopConsuming(s))
    /\ WF_vars(Stopped(s))
    /\ \A w \in Worker :
         /\ WF_vars(Consume(s, w))
         /\ WF_vars(Take(s, w))
         /\ WF_vars(WorkerStep(s, w))

FairSpec == Spec /\ Fairness

-----------------------------------------------------------------------------
TypeOK ==
  /\ ready \in Seq(Message)
  /\ unacked \in [Server -> SUBSET Message]
  /\ rejected \in [Message -> Nat]
  /\ conn \in [Server -> ConnState]
  /\ cancelled \in [Server -> BOOLEAN]
  /\ batch \in [Server -> Nat]
  /\ chan \in [Server -> Seq(Message)]
  /\ at \in [Server -> [Worker -> WorkerState]]
  /\ held \in [Server -> [Worker -> Message \cup {NoMessage}]]
  /\ log \in Seq(Message)
  /\ handled \in Seq(Message)
  /\ succeeded \in SUBSET Message
  /\ acked \in SUBSET Message
  /\ resent \in [Message -> Nat]
  /\ stranded \in [Server -> SUBSET Message]
  /\ lost \in 0 .. MaxLost

(***************************************************************************)
(* The handler is called at most once for a message, whatever crashes,     *)
(* restarts, replicas and lost answers there are: a list entry is handed   *)
(* out once.  (An Add whose LPUSH is repeated makes a second entry.)       *)
(***************************************************************************)
HandledAtMostOnce == IsInjective(handled)

(***************************************************************************)
(* A published message leaves Redis by an Ack only: until then it is in    *)
(* ready, in some unacked list or in the rejected list, so that a crash    *)
(* between the two commands of Reject or of the fetch loses nothing.       *)
(***************************************************************************)
NothingVanishes ==
  \A m \in Range(log) :
    \/ m \in Range(ready)
    \/ \E s \in Server : m \in unacked[s]
    \/ rejected[m] > 0
    \/ m \in acked

\* A message is acked only after its handler returned nil.
AckedSucceeded == acked \subseteq succeeded

(***************************************************************************)
(* A message is rejected and delivered only when a process was closing:    *)
(* the select of the closure rejects a late delivery and, as it does not   *)
(* return, goes on to handle it.  Nor is a message twice in the rejected   *)
(* list before that, but for the LPUSHes that Reject had to repeat because *)
(* their answer was lost.                                                  *)
(***************************************************************************)
SettledOnceUnlessClosing ==
  \/ \E s \in Server : cancelled[s]
  \/ \A m \in Message :
       /\ rejected[m] = 0 \/ m \notin succeeded
       /\ rejected[m] <= 1 + resent[m]

(***************************************************************************)
(* While a process consumes, each of its unacked deliveries is one that a  *)
(* consumer has or will get, unless the fetch lost its answer: no path     *)
(* through the closure leaks one of the PrefetchLimit slots.  A lost       *)
(* answer does, for as long as the process runs.                           *)
(***************************************************************************)
NoSlotLeak ==
  \A s \in Server :
    conn[s] = "up" =>
      unacked[s] \subseteq
        Range(chan[s]) \cup {held[s][w] : w \in Worker} \cup stranded[s]

\* Messages are fetched in the order of their Add, by all processes together.
FetchedInOrder ==
  \E fetched \in 0 .. Len(log) : ready = SubSeq(log, fetched + 1, Len(log))

(***************************************************************************)
(* What queue_test.go expects: one consumer handles messages in the order  *)
(* they were added.  It needs a single consumer.                           *)
(***************************************************************************)
Position(m) == CHOOSE i \in DOMAIN log : log[i] = m
HandledInOrder ==
  \A i, j \in DOMAIN handled :
    i < j => Position(handled[i]) < Position(handled[j])

(***************************************************************************)
(* As long as no process stops consuming, every published message comes    *)
(* to an end: acked, or in the rejected list.  Two things prevent it: the  *)
(* fetch of the message lost its answer, or that happened to so many that  *)
(* a process, which then fetches nothing more, has no slot left.           *)
(***************************************************************************)
Outage  == \E s \in Server : conn[s] \in {"stopping", "closed", "dead"}
Starved == \E s \in Server : Cardinality(stranded[s]) >= PrefetchLimit
EventuallySettled ==
  \A m \in Message :
    Published(m) ~>
      \/ m \in acked \/ rejected[m] > 0
      \/ \E s \in Server : m \in stranded[s]
      \/ Starved \/ Outage

\* Close does not hang on a consumer: the process ends.
CloseCompletes ==
  \A s \in Server : cancelled[s] ~> conn[s] \in {"closed", "dead"}

\* The queue delivers each message, an entry of its lists, at most once, as
\* AtMostOnce specifies.
Mailbox ==
  INSTANCE AtMostOnce
  WITH pending   <- {m \in Message : Published(m) /\ m \notin Range(handled)},
       delivered <- handled
ImplementsAtMostOnce == Mailbox!Spec

=============================================================================
