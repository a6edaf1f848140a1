----------------------------- MODULE Lifecycle -----------------------------
(***************************************************************************)
(* One process from start to end: main and Bootstrap of                    *)
(* cmd/server/server.go, and the Init, Run and Close of the components.    *)
(*                                                                         *)
(* app.App of any-sync initialises all components in the order of their    *)
(* registration, then runs those that have a Run in the same order, and    *)
(* closes in the reverse order.  When an Init or a Run fails it closes     *)
(* from the component that failed downwards, and main ends.  Meanwhile the *)
(* consumers are at work from the moment sender.Run registers them, before *)
(* the start is over and after the closing began, and requests come as     *)
(* soon as a transport listens.                                            *)
(***************************************************************************)
EXTENDS Integers, Sequences, SequencesExt

CONSTANTS
  Worker,   \* the consumers that sender.Run registers
  Request   \* the requests that may be served at the same time

VARIABLES
  phase,      \* "init", "run", "up", "close", "exited" or "killed"
  next,       \* the component that main starts or closes next
  state,      \* of a component: "registered", "initialised", "running", "closed"
  consuming,  \* whether rmq hands out deliveries
  worker,     \* of a consumer: "off", "idle" or "busy" with SendMessage
  request     \* of a request: "none" or "serving"

mainVars == <<phase, next, state>>
vars     == <<mainVars, consuming, worker, request>>

\* Mutant of Bootstrap: the transports are with the rest of the network.
BootstrapListenFirst ==
  <<"config", "db", "redisprovider", "metric", "server", "account", "pool",
    "peerservice", "coordinatorclient", "nameserviceclient", "nodeconfsource",
    "nodeconfstore", "nodeconf", "secureservice", "quic", "yamux", "tokenrepo",
    "accountrepo", "spacerepo", "queue", "sender", "fcm", "push">>

\* The order of registration; main registers the configuration before the rest.
Bootstrap ==
  <<"config", "db", "redisprovider", "metric", "server", "account", "pool",
    "peerservice", "coordinatorclient", "nameserviceclient", "nodeconfsource",
    "nodeconfstore", "nodeconf", "secureservice", "tokenrepo", "accountrepo",
    "spacerepo", "queue", "sender", "fcm", "push", "quic", "yamux">>

Component == ToSet(Bootstrap)
Position(c) == CHOOSE i \in DOMAIN Bootstrap : Bootstrap[i] = c

\* The Inits and Runs of this repository that return no error.
InitSucceeds == {"config", "tokenrepo", "accountrepo", "spacerepo", "queue", "sender"}
RunSucceeds  == {"config", "account", "spacerepo", "fcm", "push"}

Init ==
  /\ phase = "init"
  /\ next = 1
  /\ state = [c \in Component |-> "registered"]
  /\ consuming = FALSE
  /\ worker = [w \in Worker |-> "off"]
  /\ request = [r \in Request |-> "none"]

At(p, c) == phase = p /\ next = Position(c)
Reach(c, s) == state' = [state EXCEPT ![c] = s]

-----------------------------------------------------------------------------
\* Start, first part.
InitComponent(c) ==
  /\ At("init", c)
  /\ Reach(c, "initialised")
  /\ IF next = Len(Bootstrap)
       THEN phase' = "run" /\ next' = 1
       ELSE phase' = phase /\ next' = next + 1
  /\ UNCHANGED <<consuming, worker, request>>

(***************************************************************************)
(* A malformed URI, key or credentials file.  The components from c down   *)
(* are closed, c itself without what its Init would have set: Close of     *)
(* redisprovider and of queue looks for that, Close of db dereferences it. *)
(***************************************************************************)
InitFails(c) ==
  /\ At("init", c)
  /\ c \notin InitSucceeds
  /\ phase' = IF c = "db" THEN "killed" ELSE "close"
  /\ UNCHANGED <<next, state, consuming, worker, request>>

\* Start, second part.
Started(c) ==
  /\ Reach(c, "running")
  /\ IF next = Len(Bootstrap)
       THEN phase' = "up" /\ next' = next
       ELSE phase' = phase /\ next' = next + 1

RunComponent(c) ==
  /\ At("run", c)
  /\ c \notin {"queue", "sender"}
  /\ Started(c)
  /\ UNCHANGED <<consuming, worker, request>>

\* The last step of queue.Run, StartConsuming.
RunQueue ==
  /\ At("run", "queue")
  /\ Started("queue")
  /\ consuming' = TRUE
  /\ UNCHANGED <<worker, request>>

\* One turn of the loop in sender.Run.
Consume(w) ==
  /\ At("run", "sender")
  /\ consuming
  /\ worker[w] = "off"
  /\ worker' = [worker EXCEPT ![w] = "idle"]
  /\ UNCHANGED <<mainVars, consuming, request>>

RunSender ==
  /\ At("run", "sender")
  /\ \A w \in Worker : worker[w] # "off"
  /\ Started("sender")
  /\ UNCHANGED <<consuming, worker, request>>

\* MongoDB or Redis do not answer, a port is in use, rmq has stopped consuming.
RunFails(c) ==
  /\ At("run", c)
  /\ c \notin RunSucceeds
  /\ phase' = "close"
  /\ UNCHANGED <<next, state, consuming, worker, request>>

-----------------------------------------------------------------------------
\* main waits for a signal only when the start is over.
Signal ==
  /\ phase = "up"
  /\ phase' = "close"
  /\ UNCHANGED <<next, state, consuming, worker, request>>

Closed(c) ==
  /\ Reach(c, "closed")
  /\ IF next = 1
       THEN phase' = "exited" /\ next' = next
       ELSE phase' = phase /\ next' = next - 1

CloseComponent(c) ==
  /\ At("close", c)
  /\ c # "queue"
  /\ Closed(c)
  /\ UNCHANGED <<consuming, worker, request>>

\* Close of the queue: StopConsuming, when there is a queue.
StopConsuming ==
  /\ At("close", "queue")
  /\ consuming
  /\ consuming' = FALSE
  /\ UNCHANGED <<mainVars, worker, request>>

\* Mutant of CloseQueue: the channel of StopConsuming is not waited for.
CloseQueueAtOnce ==
  /\ At("close", "queue")
  /\ ~consuming
  /\ Closed("queue")
  /\ UNCHANGED <<consuming, worker, request>>

\* Mutant of CloseQueue: the channel is waited for even when Run opened no queue.
CloseQueueOpened ==
  /\ At("close", "queue")
  /\ ~consuming
  /\ state["queue"] = "running"
  /\ \A w \in Worker : worker[w] = "off"
  /\ Closed("queue")
  /\ UNCHANGED <<consuming, worker, request>>

\* The wait for the consumers, however many there are.
CloseQueue ==
  /\ At("close", "queue")
  /\ ~consuming
  /\ \A w \in Worker : worker[w] = "off"
  /\ Closed("queue")
  /\ UNCHANGED <<consuming, worker, request>>

-----------------------------------------------------------------------------
\* rmq's loop of a consumer: it may get one more delivery as consuming stops.
Deliver(w) ==
  /\ worker[w] = "idle"
  /\ worker' = [worker EXCEPT ![w] = "busy"]
  /\ UNCHANGED <<mainVars, consuming, request>>

\* SendMessage returned, and the delivery was acked or rejected.
Settle(w) ==
  /\ worker[w] = "busy"
  /\ worker' = [worker EXCEPT ![w] = IF consuming THEN "idle" ELSE "off"]
  /\ UNCHANGED <<mainVars, consuming, request>>

Leave(w) ==
  /\ worker[w] = "idle"
  /\ ~consuming
  /\ worker' = [worker EXCEPT ![w] = "off"]
  /\ UNCHANGED <<mainVars, consuming, request>>

\* rmq stops consuming by itself.
HeartbeatLost ==
  /\ consuming
  /\ consuming' = FALSE
  /\ UNCHANGED <<mainVars, worker, request>>

Listening == \E c \in {"quic", "yamux"} : state[c] = "running"

Serve(r) ==
  /\ request[r] = "none"
  /\ Listening
  /\ request' = [request EXCEPT ![r] = "serving"]
  /\ UNCHANGED <<mainVars, consuming, worker>>

\* The handler returns; after the closing began perhaps with an error.
Answer(r) ==
  /\ request[r] = "serving"
  /\ request' = [request EXCEPT ![r] = "none"]
  /\ UNCHANGED <<mainVars, consuming, worker>>

\* A signal before main asks for one, the limit on the closing, a crash.
Kill ==
  /\ phase' = "killed"
  /\ UNCHANGED <<next, state, consuming, worker, request>>

MainStep ==
  \/ \E c \in Component : InitComponent(c) \/ InitFails(c)
  \/ \E c \in Component : RunComponent(c) \/ RunFails(c)
  \/ RunQueue
  \/ RunSender
  \/ \E w \in Worker : Consume(w)
  \/ \E c \in Component : CloseComponent(c)
  \/ StopConsuming
  \/ CloseQueue

WorkerStep(w) == Settle(w) \/ Leave(w)

Alive == phase \notin {"exited", "killed"}

Next ==
  /\ Alive
  /\ \/ MainStep
     \/ Signal
     \/ HeartbeatLost
     \/ Kill
     \/ \E w \in Worker : Deliver(w) \/ WorkerStep(w)
     \/ \E r \in Request : Serve(r) \/ Answer(r)

Spec == Init /\ [][Next]_vars

(***************************************************************************)
(* main goes on, and a consumer comes to the end of SendMessage: its       *)
(* queries have answers and FCM's client gives up some time.  Nothing      *)
(* obliges a request to be answered, or a process to be closed.            *)
(***************************************************************************)
Fairness ==
  /\ WF_vars(Alive /\ MainStep)
  /\ \A w \in Worker : WF_vars(Alive /\ WorkerStep(w))

FairSpec == Spec /\ Fairness

-----------------------------------------------------------------------------
(***************************************************************************)
(* A consumer that sends has its database, its Redis and its providers, in *)
(* a start that is not over, or fails, and in a closing as well.           *)
(***************************************************************************)
ConsumersServed ==
  \A w \in Worker :
    worker[w] = "busy" =>
      /\ \A c \in {"db", "redisprovider", "tokenrepo", "accountrepo", "queue"} :
           state[c] = "running"
      /\ state["fcm"] # "registered"

(***************************************************************************)
(* A request finds all that its handler uses set up.  It may be closed     *)
(* again, when the handler gets errors, but it is not nil.                 *)
(***************************************************************************)
RequestsServed ==
  \A r \in Request :
    request[r] = "serving" =>
      \A c \in {"push", "tokenrepo", "accountrepo", "spacerepo", "queue"} :
        state[c] \in {"running", "closed"}

(***************************************************************************)
(* A process that ends by itself, after a signal or a failed start, leaves *)
(* nothing half done: no consumer is between the first query and the Ack   *)
(* of a message, and everything that was running is closed.                *)
(***************************************************************************)
GracefulExit ==
  phase = "exited" =>
    /\ \A w \in Worker : worker[w] = "off"
    /\ \A c \in Component : state[c] # "running"

\* A closing, also that of a start that failed, comes to an end.
ProcessEnds == phase = "close" ~> ~Alive
=============================================================================
