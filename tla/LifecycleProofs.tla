-------------------------- MODULE LifecycleProofs ---------------------------
(***************************************************************************)
(* What Lifecycle promises for any number of consumers and of requests.    *)
(* The argument is about the order of the registration: main starts the    *)
(* components upwards and closes them downwards, so that next separates    *)
(* what runs from what does not, and the queue lies between what its       *)
(* consumers use and what feeds them.                                      *)
(***************************************************************************)
EXTENDS Lifecycle, TLAPS

\* The types of the variables of Lifecycle.
TypeOK ==
  /\ phase \in {"init", "run", "up", "close", "exited", "killed"}
  /\ next \in 1 .. Len(Bootstrap)
  /\ state \in [Component -> {"registered", "initialised", "running", "closed"}]
  /\ consuming \in BOOLEAN
  /\ worker \in [Worker -> {"off", "idle", "busy"}]
  /\ request \in [Request -> {"none", "serving"}]

(***************************************************************************)
(* The front of main: a start has done all below next and nothing above, a *)
(* closing has left nothing running above next.                            *)
(***************************************************************************)
MainFront ==
  /\ phase = "init" =>
       \A c \in Component :
         state[c] = IF Position(c) < next THEN "initialised" ELSE "registered"
  /\ phase = "run" =>
       \A c \in Component :
         state[c] = IF Position(c) < next THEN "running" ELSE "initialised"
  /\ phase = "up" => \A c \in Component : state[c] = "running"
  /\ phase = "up" => next = Len(Bootstrap)
  /\ phase = "close" =>
       \A c \in Component : Position(c) > next => state[c] # "running"
  /\ phase = "exited" => \A c \in Component : state[c] # "running"

\* What SendMessage uses, and the queue that feeds it.
Needed == {"db", "redisprovider", "tokenrepo", "accountrepo", "queue"}

Engaged == consuming \/ \E w \in Worker : worker[w] # "off"

\* While deliveries are handed out or a consumer has not returned.
QueueServed ==
  Engaged =>
    /\ \A c \in Needed : state[c] = "running"
    /\ \A c \in Component : state[c] # "registered"

\* What a handler uses; once up it is never again as before.
Handled == {"push", "tokenrepo", "accountrepo", "spacerepo", "queue"}

HandlersServed ==
  Listening \/ (\E r \in Request : request[r] = "serving") =>
    \A c \in Handled : state[c] \in {"running", "closed"}

LifeInv == TypeOK /\ MainFront /\ QueueServed /\ HandlersServed
-----------------------------------------------------------------------------
\* Where the components the argument speaks of are in the registration.
LEMMA Registration ==
  /\ Len(Bootstrap) = 23
  /\ DOMAIN Bootstrap = 1 .. 23
  /\ \A i \in 1 .. 23 : Bootstrap[i] = "db" <=> i = 2
  /\ \A i \in 1 .. 23 : Bootstrap[i] = "redisprovider" <=> i = 3
  /\ \A i \in 1 .. 23 : Bootstrap[i] = "tokenrepo" <=> i = 15
  /\ \A i \in 1 .. 23 : Bootstrap[i] = "accountrepo" <=> i = 16
  /\ \A i \in 1 .. 23 : Bootstrap[i] = "spacerepo" <=> i = 17
  /\ \A i \in 1 .. 23 : Bootstrap[i] = "queue" <=> i = 18
  /\ \A i \in 1 .. 23 : Bootstrap[i] = "sender" <=> i = 19
  /\ \A i \in 1 .. 23 : Bootstrap[i] = "push" <=> i = 21
  /\ \A i \in 1 .. 23 : Bootstrap[i] = "quic" <=> i = 22
  /\ \A i \in 1 .. 23 : Bootstrap[i] = "yamux" <=> i = 23
BY DEF Bootstrap

\* A component is where Position says it is.
LEMMA PositionOf ==
  ASSUME NEW c \in Component
  PROVE  Position(c) \in 1 .. Len(Bootstrap) /\ Bootstrap[Position(c)] = c
<1>1. \E i \in DOMAIN Bootstrap : Bootstrap[i] = c
  BY DEF Component, ToSet
<1> QED
  BY <1>1, Registration DEF Position

\* The queue is above what it needs; what listens is above what it calls.
LEMMA Places ==
  /\ Needed \subseteq Component
  /\ Handled \subseteq Component
  /\ {"sender", "quic", "yamux"} \subseteq Component
  /\ Position("queue") = 18
  /\ Position("sender") = 19
  /\ \A c \in Needed : Position(c) <= 18
  /\ \A c \in Handled : Position(c) <= 21
  /\ \A c \in {"quic", "yamux"} : Position(c) > 21
<1>1. Needed \cup Handled \cup {"sender", "quic", "yamux"} \subseteq Component
  BY Registration DEF Component, ToSet, Needed, Handled
<1>2. /\ Position("db") = 2
      /\ Position("redisprovider") = 3
      /\ Position("tokenrepo") = 15
      /\ Position("accountrepo") = 16
      /\ Position("spacerepo") = 17
      /\ Position("queue") = 18
      /\ Position("sender") = 19
      /\ Position("push") = 21
      /\ Position("quic") = 22
      /\ Position("yamux") = 23
  BY Registration DEF Position
<1> QED
  BY <1>1, <1>2 DEF Needed, Handled
-----------------------------------------------------------------------------
\* At first all is registered and nothing is at work.
LEMMA TypeInit == Init => TypeOK
<1> SUFFICES ASSUME Init PROVE TypeOK
  OBVIOUS
<1>1. next \in 1 .. Len(Bootstrap)
  BY Registration DEF Init
<1> QED
  BY <1>1 DEF Init, TypeOK

\* Every step keeps the types.
LEMMA TypeNext == TypeOK /\ [Next]_vars => TypeOK'
<1> SUFFICES ASSUME TypeOK, [Next]_vars PROVE TypeOK'
  OBVIOUS
<1> USE Registration
<1>0. {"queue", "sender"} \subseteq Component
  BY Places DEF Needed
<1>1. ASSUME NEW c \in Component, InitComponent(c) \/ InitFails(c) PROVE TypeOK'
  BY <1>1 DEF TypeOK, InitComponent, InitFails, Reach
<1>2. ASSUME NEW c \in Component, phase = "run", Started(c), consuming' \in BOOLEAN,
             UNCHANGED <<worker, request>>
      PROVE  TypeOK'
  BY <1>2 DEF TypeOK, Started, Reach
<1>3. ASSUME NEW c \in Component, phase = "close", Closed(c),
             UNCHANGED <<consuming, worker, request>>
      PROVE  TypeOK'
  BY <1>3 DEF TypeOK, Closed, Reach
<1>4. CASE RunQueue \/ RunSender \/ \E c \in Component : RunComponent(c)
  BY <1>2, <1>4, <1>0 DEF TypeOK, RunQueue, RunSender, RunComponent, At
<1>5. CASE CloseQueue \/ \E c \in Component : CloseComponent(c)
  BY <1>3, <1>5, <1>0 DEF CloseQueue, CloseComponent, At
<1>6. CASE \/ StopConsuming \/ Signal \/ HeartbeatLost \/ Kill
           \/ \E c \in Component : RunFails(c)
  BY <1>6 DEF TypeOK, StopConsuming, Signal, HeartbeatLost, Kill, RunFails, mainVars
<1>7. ASSUME NEW w \in Worker, Consume(w) \/ Deliver(w) \/ WorkerStep(w)
      PROVE  TypeOK'
  BY <1>7 DEF TypeOK, Consume, Deliver, WorkerStep, Settle, Leave, mainVars
<1>8. ASSUME NEW r \in Request, Serve(r) \/ Answer(r) PROVE TypeOK'
  BY <1>8 DEF TypeOK, Serve, Answer, mainVars
<1>9. CASE UNCHANGED vars
  BY <1>9 DEF TypeOK, vars, mainVars
<1> QED
  BY <1>1, <1>4, <1>5, <1>6, <1>7, <1>8, <1>9 DEF Next, MainStep

-----------------------------------------------------------------------------
\* At first nothing is engaged or served, so the front is all there is.
LEMMA LifeInit == Init => LifeInv
<1> SUFFICES ASSUME Init PROVE LifeInv
  OBVIOUS
<1>1. TypeOK
  BY TypeInit
<1>2. MainFront
  BY PositionOf, Registration DEF Init, MainFront
<1>3. ~ Engaged /\ ~ Listening /\ \A r \in Request : request[r] # "serving"
  BY Places DEF Init, Engaged, Listening
<1> QED
  BY <1>1, <1>2, <1>3 DEF LifeInv, QueueServed, HandlersServed

\* The queue runs while it is engaged: main is between its Run and its Close.
LEMMA EngagedPhase ==
  ASSUME LifeInv, Engaged
  PROVE  /\ phase # "init" /\ phase # "exited"
         /\ phase = "run" => next > 18
         /\ phase = "close" => next >= 18
<1>1. state["queue"] = "running" /\ "queue" \in Component
  BY Places DEF LifeInv, QueueServed, Needed
<1> QED
  BY <1>1, Places, Registration DEF LifeInv, TypeOK, MainFront

\* What listens is the last to run: all the handlers use has run before.
LEMMA ServingPhase ==
  ASSUME LifeInv, Listening \/ (\E r \in Request : request[r] = "serving")
  PROVE  phase # "init"
<1>1. state["queue"] \in {"running", "closed"} /\ "queue" \in Component
  BY Places DEF LifeInv, HandlersServed, Handled
<1> QED
  BY <1>1 DEF LifeInv, TypeOK, MainFront

-----------------------------------------------------------------------------
\* An Init that returns: nothing is engaged or served yet.
LEMMA InitComponentInv ==
  ASSUME LifeInv, NEW c \in Component, InitComponent(c)
  PROVE  (MainFront /\ QueueServed /\ HandlersServed)'
<1> USE DEF InitComponent, At
<1>1. ~ Engaged /\ ~ Engaged'
  BY EngagedPhase DEF Engaged
<1>2. \A r \in Request : request'[r] # "serving"
  BY ServingPhase
<1>3. ~ Listening'
  BY ServingPhase DEF Listening, LifeInv, TypeOK, Reach
<1>4. MainFront'
  BY PositionOf, Registration DEF LifeInv, TypeOK, MainFront, Reach
<1> QED
  BY <1>1, <1>2, <1>3, <1>4 DEF QueueServed, HandlersServed

\* An Init that fails: nothing has run, so there is nothing to stop.
LEMMA InitFailsInv ==
  ASSUME LifeInv, NEW c \in Component, InitFails(c)
  PROVE  (MainFront /\ QueueServed /\ HandlersServed)'
<1> USE DEF InitFails, At
<1>1. MainFront'
  BY DEF LifeInv, TypeOK, MainFront
<1> QED
  BY <1>1 DEF LifeInv, QueueServed, HandlersServed, Engaged, Listening

\* A Run that returns, common to all components: the front moves on.
LEMMA StartedFront ==
  ASSUME LifeInv, NEW c \in Component, At("run", c), Started(c)
  PROVE  /\ MainFront'
         /\ \A d \in Component : Position(d) <= next => state'[d] = "running"
         /\ \A d \in Component : state'[d] # "registered"
         /\ \A d \in Component : state[d] = "running" => state'[d] = "running"
<1> USE DEF At, Started, Reach
<1>1. /\ state' = [state EXCEPT ![c] = "running"]
      /\ state \in [Component -> {"registered", "initialised", "running", "closed"}]
      /\ \A d \in Component :
           state[d] = IF Position(d) < next THEN "running" ELSE "initialised"
      /\ next = Position(c) /\ next \in 1 .. Len(Bootstrap)
  BY DEF LifeInv, TypeOK, MainFront
<1>2. \A d \in Component : Position(d) = next => d = c
  BY <1>1, PositionOf
<1>3. \A d \in Component :
        state'[d] = IF Position(d) <= next THEN "running" ELSE "initialised"
  BY <1>1, <1>2, PositionOf, Registration
<1>4. MainFront'
  BY <1>1, <1>3, PositionOf, Registration DEF MainFront
<1> QED
  BY <1>1, <1>3, <1>4

\* A Run that returns leaves what the handlers use up, or brings it up.
LEMMA StartedServes ==
  ASSUME LifeInv, NEW c \in Component, At("run", c), Started(c),
         UNCHANGED request
  PROVE  HandlersServed'
<1>1. CASE Listening \/ \E r \in Request : request[r] = "serving"
  BY <1>1, StartedFront, Places
     DEF LifeInv, TypeOK, HandlersServed, Started, Reach
<1>2. CASE ~ Listening /\ (\A r \in Request : request[r] # "serving") /\ Listening'
  <2>1. c \in {"quic", "yamux"}
    BY <1>2, Places DEF Listening, Started, Reach, LifeInv, TypeOK
  <2>2. next > 21
    BY <2>1, Places DEF At
  <2> QED
    BY <2>2, StartedFront, Places, PositionOf, Registration
       DEF HandlersServed, LifeInv, TypeOK
<1>3. CASE ~ Listening' /\ \A r \in Request : request[r] # "serving"
  BY <1>3 DEF HandlersServed
<1> QED
  BY <1>1, <1>2, <1>3

\* The Run of any other component only adds to what runs.
LEMMA RunComponentInv ==
  ASSUME LifeInv, NEW c \in Component, RunComponent(c)
  PROVE  (MainFront /\ QueueServed /\ HandlersServed)'
<1>1. At("run", c) /\ Started(c) /\ UNCHANGED <<consuming, worker, request>>
  BY DEF RunComponent
<1>2. QueueServed'
  BY <1>1, StartedFront, Places DEF LifeInv, QueueServed, Engaged
<1> QED
  BY <1>1, <1>2, StartedFront, StartedServes

\* The queue starts to hand out deliveries when all they need is up.
LEMMA RunQueueInv ==
  ASSUME LifeInv, RunQueue
  PROVE  (MainFront /\ QueueServed /\ HandlersServed)'
<1>1. /\ "queue" \in Component /\ At("run", "queue") /\ Started("queue")
      /\ UNCHANGED request
  BY Places DEF RunQueue, Needed
<1>2. next = 18
  BY <1>1, Places DEF At
<1>3. QueueServed'
  BY <1>1, <1>2, StartedFront, Places DEF QueueServed
<1> QED
  BY <1>1, <1>3, StartedFront, StartedServes

\* The Run of the sender, when all its consumers are registered.
LEMMA RunSenderInv ==
  ASSUME LifeInv, RunSender
  PROVE  (MainFront /\ QueueServed /\ HandlersServed)'
<1>1. /\ "sender" \in Component /\ At("run", "sender") /\ Started("sender")
      /\ UNCHANGED <<consuming, worker, request>>
  BY Places DEF RunSender
<1>2. QueueServed'
  BY <1>1, StartedFront, Places DEF LifeInv, QueueServed, Engaged
<1> QED
  BY <1>1, <1>2, StartedFront, StartedServes

\* A Run that fails, and a signal: nothing runs above next.
LEMMA TurnInv ==
  ASSUME LifeInv, Signal \/ \E c \in Component : RunFails(c)
  PROVE  (MainFront /\ QueueServed /\ HandlersServed)'
<1>1. UNCHANGED <<next, state, consuming, worker, request>>
  BY DEF Signal, RunFails
<1>2. /\ phase \in {"run", "up"} /\ phase' = "close"
      /\ \A c \in Component : Position(c) > next => state[c] # "running"
  BY PositionOf, Registration
     DEF Signal, RunFails, At, LifeInv, TypeOK, MainFront
<1>3. MainFront'
  BY <1>1, <1>2 DEF MainFront
<1> QED
  BY <1>1, <1>3 DEF LifeInv, QueueServed, HandlersServed, Engaged, Listening

-----------------------------------------------------------------------------
\* A Close, common to all components: the front moves down.
LEMMA ClosedFront ==
  ASSUME LifeInv, NEW c \in Component, At("close", c), Closed(c), UNCHANGED request
  PROVE  MainFront' /\ HandlersServed'
<1> USE DEF At, Closed, Reach
<1>1. /\ state' = [state EXCEPT ![c] = "closed"]
      /\ state \in [Component -> {"registered", "initialised", "running", "closed"}]
      /\ \A d \in Component : Position(d) > next => state[d] # "running"
      /\ next = Position(c) /\ next \in 1 .. Len(Bootstrap)
  BY DEF LifeInv, TypeOK, MainFront
<1>2. \A d \in Component : Position(d) = next => d = c
  BY <1>1, PositionOf
<1>3. \A d \in Component : Position(d) >= next => state'[d] # "running"
  BY <1>1, <1>2, PositionOf, Registration
<1>4. MainFront'
  BY <1>1, <1>3, PositionOf, Registration DEF MainFront
<1>5. HandlersServed'
  BY <1>1, Places DEF LifeInv, HandlersServed, Listening
<1> QED
  BY <1>4, <1>5

\* The queue is closed before what its consumers use: it is above them.
LEMMA CloseComponentInv ==
  ASSUME LifeInv, NEW c \in Component, CloseComponent(c)
  PROVE  (MainFront /\ QueueServed /\ HandlersServed)'
<1>1. /\ At("close", c) /\ Closed(c) /\ c # "queue"
      /\ UNCHANGED <<consuming, worker, request>>
  BY DEF CloseComponent
<1>2. QueueServed'
  <2> SUFFICES ASSUME Engaged' PROVE QueueServed'
    BY DEF QueueServed
  <2>1. Engaged
    BY <1>1 DEF Engaged
  <2>2. next >= 18 /\ next = Position(c)
    BY <1>1, <2>1, EngagedPhase DEF At
  <2>3. Position("queue") = 18 /\ "queue" \in Component
    BY Places DEF Needed
  <2>4. c \notin Needed
    <3>1. CASE next = 18
      BY <1>1, <2>2, <2>3, <3>1, PositionOf
    <3>2. CASE next > 18
      BY <2>2, <3>2, Places, PositionOf, Registration
    <3> QED
      BY <2>2, <3>1, <3>2 DEF LifeInv, TypeOK
  <2> QED
    BY <1>1, <2>1, <2>4, Places
       DEF LifeInv, TypeOK, QueueServed, Closed, Reach
<1> QED
  BY <1>1, <1>2, ClosedFront

\* The queue itself is closed when it is no longer engaged.
LEMMA CloseQueueInv ==
  ASSUME LifeInv, CloseQueue
  PROVE  (MainFront /\ QueueServed /\ HandlersServed)'
<1>1. /\ "queue" \in Component /\ At("close", "queue") /\ Closed("queue")
      /\ UNCHANGED <<consuming, worker, request>>
      /\ ~ Engaged
  BY Places DEF CloseQueue, Engaged, Needed
<1>2. QueueServed'
  BY <1>1 DEF QueueServed, Engaged
<1> QED
  BY <1>1, <1>2, ClosedFront

-----------------------------------------------------------------------------
\* The steps of rmq and of the consumers do not engage a queue that is not.
LEMMA ConsumersInv ==
  ASSUME LifeInv,
         \/ StopConsuming \/ HeartbeatLost
         \/ \E w \in Worker : Consume(w) \/ Deliver(w) \/ WorkerStep(w)
  PROVE  (MainFront /\ QueueServed /\ HandlersServed)'
<1>1. UNCHANGED <<phase, next, state, request>>
  BY DEF StopConsuming, HeartbeatLost, Consume, Deliver, WorkerStep, Settle,
         Leave, mainVars
<1>2. Engaged
  BY DEF StopConsuming, HeartbeatLost, Consume, Deliver, WorkerStep, Settle,
         Leave, Engaged
<1>3. MainFront' /\ HandlersServed'
  BY <1>1 DEF LifeInv, MainFront, HandlersServed, Listening
<1>4. QueueServed'
  BY <1>1, <1>2 DEF LifeInv, QueueServed
<1> QED
  BY <1>3, <1>4

\* A request is taken only from a transport that listens.
LEMMA RequestsInv ==
  ASSUME LifeInv, NEW r \in Request, Serve(r) \/ Answer(r)
  PROVE  (MainFront /\ QueueServed /\ HandlersServed)'
<1>1. UNCHANGED <<phase, next, state, consuming, worker>>
  BY DEF Serve, Answer, mainVars
<1>2. MainFront' /\ QueueServed'
  BY <1>1 DEF LifeInv, MainFront, QueueServed, Engaged
<1>3. HandlersServed'
  BY <1>1 DEF LifeInv, TypeOK, HandlersServed, Listening, Serve, Answer
<1> QED
  BY <1>2, <1>3

\* A process that is killed keeps what it had.
LEMMA KillInv ==
  ASSUME LifeInv, Kill \/ UNCHANGED vars
  PROVE  (MainFront /\ QueueServed /\ HandlersServed)'
<1>1. UNCHANGED <<next, state, consuming, worker, request>>
  BY DEF Kill, vars, mainVars
<1>2. MainFront'
  BY <1>1 DEF Kill, vars, mainVars, LifeInv, MainFront
<1> QED
  BY <1>1, <1>2 DEF LifeInv, QueueServed, HandlersServed, Engaged, Listening

\* LifeInv is inductive.
LEMMA LifeNext == LifeInv /\ [Next]_vars => LifeInv'
<1> SUFFICES ASSUME LifeInv, [Next]_vars
             PROVE  (MainFront /\ QueueServed /\ HandlersServed)'
  BY TypeNext DEF LifeInv
<1> QED
  BY InitComponentInv, InitFailsInv, RunComponentInv, RunQueueInv, RunSenderInv,
     TurnInv, CloseComponentInv, CloseQueueInv, ConsumersInv, RequestsInv, KillInv
     DEF Next, MainStep

\* The invariant that the theorems use.
LEMMA LifeAlways == Spec => []LifeInv
BY LifeInit, LifeNext, PTL DEF Spec

-----------------------------------------------------------------------------
(***************************************************************************)
(* A consumer between the first query and the Ack of a message has its     *)
(* database, its Redis and its provider, wherever main is: in a start that *)
(* goes on or fails after sender.Run registered some of the consumers, and *)
(* in a closing, which waits for it in Close of the queue.                 *)
(***************************************************************************)
THEOREM BusyConsumersAreServed == Spec => []ConsumersServed
<1>1. LifeInv => ConsumersServed
  <2> SUFFICES ASSUME LifeInv, NEW w \in Worker, worker[w] = "busy"
               PROVE  /\ \A c \in Needed : state[c] = "running"
                      /\ state["fcm"] # "registered"
    BY DEF ConsumersServed, Needed
  <2>1. Engaged
    BY DEF Engaged
  <2>2. "fcm" \in Component
    BY DEF Component, ToSet, Bootstrap
  <2> QED
    BY <2>1, <2>2 DEF LifeInv, QueueServed
<1> QED
  BY <1>1, LifeAlways, PTL

(***************************************************************************)
(* A handler never meets a repository or a queue that has not run: what    *)
(* listens is registered last.                                             *)
(***************************************************************************)
THEOREM RequestsFindTheirServices == Spec => []RequestsServed
<1>1. LifeInv => RequestsServed
  BY DEF LifeInv, HandlersServed, Handled, RequestsServed
<1> QED
  BY <1>1, LifeAlways, PTL

(***************************************************************************)
(* A process that ends by itself leaves no consumer at work and nothing    *)
(* running, whether a signal or a failed start ends it.                    *)
(***************************************************************************)
THEOREM ExitIsGraceful == Spec => []GracefulExit
<1>1. LifeInv => GracefulExit
  <2> SUFFICES ASSUME LifeInv, phase = "exited" PROVE GracefulExit
    BY DEF GracefulExit
  <2>1. ~ Engaged
    BY EngagedPhase
  <2> QED
    BY <2>1 DEF LifeInv, MainFront, GracefulExit, Engaged
<1> QED
  BY <1>1, LifeAlways, PTL
=============================================================================
