--------------------------- MODULE DeliveryProofs ---------------------------
(***************************************************************************)
(* What holds of Delivery for any number of messages, devices,             *)
(* incarnations and consumers.                                             *)
(***************************************************************************)
EXTENDS Delivery, QueueProofs

(***************************************************************************)
(* A step of Delivery is one of the queue, or leaves the queue alone: what *)
(* is proved of Queue holds here as well.                                  *)
(***************************************************************************)
LEMMA QueueAsItIs ==
  /\ DeliveryInit => Init
  /\ [DeliveryNext]_deliveryVars => [Next]_vars
<1>1. DeliveryInit => Init
  BY DEF DeliveryInit
<1>2. ASSUME DeliveryNext
      PROVE  Next \/ UNCHANGED vars
  <2>1. ASSUME NEW m \in Message, Add(m)
        PROVE  Next
    BY <2>1 DEF Next
  <2>2. ASSUME NEW s \in Server, QueueStep(s)
        PROVE  Next
    BY <2>2 DEF QueueStep, Next, ServerStep, WorkerStep
  <2>3. ASSUME NEW s \in Server, End(s)
        PROVE  Next
    BY <2>3 DEF End, Next, ServerStep
  <2>4. ASSUME NEW s \in Server, NEW w \in Worker, SendStep(s, w)
        PROVE  Next \/ UNCHANGED vars
    <3>1. ASSUME NEW ok \in BOOLEAN, HandlerReturns(s, w, ok)
          PROVE  Next
      BY <3>1 DEF Next, ServerStep, WorkerStep
    <3>2. CASE Succeed(s, w)
      BY <3>1, <3>2 DEF Succeed
    <3>3. ASSUME NEW ts \in SUBSET Token, Choose(s, w, ts) \/ Offer(s, w, ts)
          PROVE  UNCHANGED vars
      BY <3>3 DEF Choose, Offer
    <3>4. ASSUME NEW ts \in SUBSET Token, Fail(s, w, ts)
          PROVE  Next
      BY <3>1, <3>4 DEF Fail
    <3> QED
      BY <2>4, <3>2, <3>3, <3>4 DEF SendStep
  <2> QED
    BY <1>2, <2>1, <2>2, <2>3, <2>4 DEF DeliveryNext
<1> QED
  BY <1>1, <1>2 DEF deliveryVars

(***************************************************************************)
(* Delivery implements Queue: whatever holds of all behaviours of the      *)
(* queue holds of the system.                                              *)
(***************************************************************************)
THEOREM DeliveryIsQueue == DeliverySpec => Spec
BY QueueAsItIs, PTL DEF DeliverySpec, Spec

-----------------------------------------------------------------------------
(***************************************************************************)
(* The inductive invariant.  The consumers that run SendMessage have       *)
(* messages of their own, which were handed out and did not succeed yet;   *)
(* a token that is left was not offered; what was chosen is left or was    *)
(* offered; and a message that was not handed out was not offered at all.  *)
(***************************************************************************)
Handling(s, w) == at[s][w] = "handling"

HandedOut ==
  /\ succeeded \subseteq Range(handled)
  /\ \A s \in Server, w \in Worker :
       Handling(s, w) => held[s][w] \in Range(handled) \ succeeded
Apart ==
  \A s, u \in Server, w, v \in Worker :
    Handling(s, w) /\ Handling(u, v) /\ (s # u \/ w # v) => held[s][w] # held[u][v]
Untouched(m) == audience[m] = {} /\ \A t \in Token : offered[m][t] = 0
NotBefore == \A m \in Message : m \notin Range(handled) => Untouched(m)
Idle ==
  \A s \in Server, w \in Worker : ~Handling(s, w) => ~chosen[s][w] /\ left[s][w] = {}
Advanced(s, w, m) ==
  /\ ~chosen[s][w] => left[s][w] = {} /\ Untouched(m)
  /\ \A t \in left[s][w] : offered[m][t] = 0
  /\ \A t \in audience[m] : t \in left[s][w] \/ offered[m][t] > 0
Progress ==
  \A s \in Server, w \in Worker : Handling(s, w) => Advanced(s, w, held[s][w])
Complete == \A m \in succeeded : \A t \in audience[m] : offered[m][t] > 0
SendInv == HandedOut /\ Apart /\ NotBefore /\ Idle /\ Progress /\ Complete /\ NotifiedAtMostOnce

\* Nobody sends, and nothing was offered.
LEMMA SendInit == DeliveryInit => DeliveryTypeOK /\ SendInv
<1> SUFFICES ASSUME DeliveryInit
             PROVE  DeliveryTypeOK /\ SendInv
  OBVIOUS
<1>1. /\ \A s \in Server, w \in Worker : at[s][w] = "off"
      /\ succeeded = {}
  BY DEF DeliveryInit, Init
<1>2. DeliveryTypeOK
  BY DEF DeliveryInit, DeliveryTypeOK
<1>3. HandedOut /\ Apart
  BY <1>1 DEF HandedOut, Apart, Handling
<1>4. NotBefore /\ NotifiedAtMostOnce /\ Complete
  BY <1>1 DEF DeliveryInit, NotBefore, Untouched, NotifiedAtMostOnce, Complete
<1>5. Idle /\ Progress
  BY <1>1 DEF DeliveryInit, Idle, Progress, Handling
<1> QED
  BY <1>2, <1>3, <1>4, <1>5 DEF SendInv

\* A step that neither begins nor ends a call of the handler.
Quiet ==
  /\ UNCHANGED <<sendingVars, offerVars, handled, succeeded>>
  /\ \A s \in Server, w \in Worker :
       /\ Handling(s, w)' <=> Handling(s, w)
       /\ Handling(s, w) => held'[s][w] = held[s][w]

\* Such a step keeps the invariant.
LEMMA SendKept ==
  ASSUME SendInv, Quiet
  PROVE  SendInv'
<1> USE DEF Quiet, sendingVars, offerVars
<1>1. HandedOut'
  BY DEF SendInv, HandedOut
<1>2. Apart'
  BY DEF SendInv, Apart
<1>3. NotBefore'
  BY DEF SendInv, NotBefore, Untouched
<1>4. Idle'
  BY DEF SendInv, Idle
<1>5. Progress'
  BY DEF SendInv, Progress, Advanced, Untouched
<1>6. Complete' /\ NotifiedAtMostOnce'
  BY DEF SendInv, Complete, NotifiedAtMostOnce
<1> QED
  BY <1>1, <1>2, <1>3, <1>4, <1>5, <1>6 DEF SendInv

\* No consumer moves.
LEMMA StayQuiet ==
  ASSUME UNCHANGED <<sendingVars, offerVars, handled, succeeded, at, held>>
  PROVE  Quiet
BY DEF Quiet, Handling

\* One consumer moves, neither from nor to "handling".
LEMMA MoveQuiet ==
  ASSUME UNCHANGED <<sendingVars, offerVars, handled, succeeded>>,
         NEW s \in Server, NEW w \in Worker, ~Handling(s, w), ~Handling(s, w)',
         \A u \in Server, v \in Worker :
           u # s \/ v # w => at'[u][v] = at[u][v] /\ held'[u][v] = held[u][v]
  PROVE  Quiet
BY DEF Quiet, Handling

\* It goes to a state of the closure outside the handler.
LEMMA GotoQuiet ==
  ASSUME TypeInv, UNCHANGED <<sendingVars, offerVars, handled, succeeded, held>>,
         NEW s \in Server, NEW w \in Worker, NEW state \in WorkerState \ {"handling"},
         ~Handling(s, w), Goto(s, w, state)
  PROVE  Quiet
<1>1. /\ at'[s][w] = state
      /\ \A u \in Server, v \in Worker : u # s \/ v # w => at'[u][v] = at[u][v]
  BY GotoLemma DEF TypeInv, ConsumersOK
<1>2. ~Handling(s, w)'
  BY <1>1 DEF Handling
<1> QED
  BY <1>1, <1>2, MoveQuiet

\* It leaves the closure.
LEMMA ReturnQuiet ==
  ASSUME TypeInv, UNCHANGED <<sendingVars, offerVars, handled, succeeded>>,
         NEW s \in Server, NEW w \in Worker, ~Handling(s, w), Return(s, w)
  PROVE  Quiet
<1>1. /\ at'[s][w] \in {"off", "idle"}
      /\ \A u \in Server, v \in Worker :
           u # s \/ v # w => at'[u][v] = at[u][v] /\ held'[u][v] = held[u][v]
  BY ReturnLemma DEF TypeInv, ConsumersOK
<1>2. ~Handling(s, w)'
  BY <1>1 DEF Handling
<1> QED
  BY <1>1, <1>2, MoveQuiet

-----------------------------------------------------------------------------
(***************************************************************************)
(* The steps of the queue.  The call of the handler is where a message     *)
(* comes to be sent: OnceInv says that nobody had it before.               *)
(***************************************************************************)
LEMMA CallHandlerSend ==
  ASSUME TypeInv, OnceInv, SendInv, NEW s \in Server, NEW w \in Worker,
         CallHandler(s, w), UNCHANGED <<sendingVars, offerVars>>
  PROVE  SendInv'
<1> USE DEF sendingVars, offerVars
<1> DEFINE m == held[s][w]
<1>1. /\ at[s][w] = "decode"
      /\ Goto(s, w, "handling")
      /\ handled' = Append(handled, m)
      /\ UNCHANGED <<held, succeeded>>
      /\ handled \in Seq(Message)
      /\ m \in Message
  BY DEF CallHandler, TypeInv, HistoryOK, ConsumersOK, HoldsDelivery
<1>2. /\ at'[s][w] = "handling"
      /\ \A u \in Server, v \in Worker : u # s \/ v # w => at'[u][v] = at[u][v]
  BY <1>1, GotoLemma DEF TypeInv, ConsumersOK, WorkerState
<1>3. m \notin Range(handled)
  BY <1>1 DEF OnceInv, HeldOnce, Before
<1> HIDE DEF m
<1>4. Range(handled') = Range(handled) \cup {m}
  BY <1>1, AppendRange
<1>5. m \notin succeeded
  BY <1>3 DEF SendInv, HandedOut
<1>6. Untouched(m)
  BY <1>1, <1>3 DEF SendInv, NotBefore
<1>7. /\ ~Handling(s, w) /\ Handling(s, w)'
      /\ \A u \in Server, v \in Worker : u # s \/ v # w => Handling(u, v)' = Handling(u, v)
      /\ held'[s][w] = m
      /\ \A u \in Server, v \in Worker :
           Handling(u, v) => held[u][v] \in Range(handled) \ succeeded /\ held[u][v] # m
  BY <1>1, <1>2, <1>3 DEF Handling, SendInv, HandedOut, m
<1>8. ~chosen[s][w] /\ left[s][w] = {}
  BY <1>7 DEF SendInv, Idle
<1>9. HandedOut'
  BY <1>1, <1>4, <1>5, <1>7 DEF SendInv, HandedOut
<1>10. Apart'
  BY <1>1, <1>7 DEF SendInv, Apart
<1>11. NotBefore'
  BY <1>4 DEF SendInv, NotBefore, Untouched
<1>12. Idle'
  BY <1>7 DEF SendInv, Idle
<1>13. Progress'
  BY <1>1, <1>6, <1>7, <1>8 DEF SendInv, Progress, Advanced, Untouched
<1>14. Complete' /\ NotifiedAtMostOnce'
  BY <1>1 DEF SendInv, Complete, NotifiedAtMostOnce
<1> QED
  BY <1>9, <1>10, <1>11, <1>12, <1>13, <1>14 DEF SendInv

\* Every other step of the queue by itself is quiet.
LEMMA QueueStepQuiet ==
  ASSUME TypeInv, NEW s \in Server, QueueStep(s),
         ~ \E w \in Worker : CallHandler(s, w)
  PROVE  Quiet
<1> USE DEF redisVars, processVars, historyVars
<1>0. UNCHANGED <<sendingVars, offerVars>>
  BY DEF QueueStep
<1>1. CASE \/ Run(s) \/ Prefetch(s) \/ PrefetchLost(s) \/ BatchEnds(s) \/ Cancel(s)
           \/ StopConsuming(s) \/ HeartbeatLost(s) \/ \E w \in Worker : RejectPushLost(s, w)
  <2>1. UNCHANGED <<at, held, handled, succeeded>>
    BY <1>1 DEF Run, Prefetch, PrefetchLost, Fetch, BatchEnds, Cancel, StopConsuming,
                HeartbeatLost, RejectPushLost
  <2> QED
    BY <1>0, <2>1, StayQuiet
<1>2. ASSUME NEW w \in Worker, Consume(s, w)
      PROVE  Quiet
  <2>1. ~Handling(s, w) /\ Goto(s, w, "idle") /\ UNCHANGED <<held, handled, succeeded>>
    BY <1>2 DEF Consume, Handling
  <2>2. "idle" \in WorkerState \ {"handling"}
    BY DEF WorkerState
  <2> QED
    BY <1>0, <2>1, <2>2, GotoQuiet
<1>3. ASSUME NEW w \in Worker, Take(s, w)
      PROVE  Quiet
  <2>1. /\ ~Handling(s, w) /\ Goto(s, w, "select") /\ UNCHANGED <<handled, succeeded>>
        /\ held' = [held EXCEPT ![s][w] = Head(chan[s])]
    BY <1>3 DEF Take, Handling
  <2>2. /\ at'[s][w] = "select"
        /\ \A u \in Server, v \in Worker : u # s \/ v # w => at'[u][v] = at[u][v]
    BY <2>1, GotoLemma DEF TypeInv, ConsumersOK, WorkerState
  <2>3. \A u \in Server, v \in Worker : u # s \/ v # w => held'[u][v] = held[u][v]
    BY <2>1 DEF TypeInv, ConsumersOK, HeldType
  <2>4. ~Handling(s, w)'
    BY <2>2 DEF Handling
  <2> QED
    BY <1>0, <2>1, <2>2, <2>3, <2>4, MoveQuiet
<1>4. ASSUME NEW w \in Worker, Select(s, w) \/ RejectPush(s, w) \/ DecodeFails(s, w)
      PROVE  Quiet
  <2>1. ~Handling(s, w) /\ UNCHANGED <<held, handled, succeeded>>
    BY <1>4 DEF Select, RejectPush, DecodeFails, Handling
  <2>2. PICK state \in WorkerState \ {"handling"} : Goto(s, w, state)
    BY <1>4 DEF Select, RejectPush, DecodeFails, WorkerState
  <2> QED
    BY <1>0, <2>1, <2>2, GotoQuiet
<1>5. ASSUME NEW w \in Worker, RejectRemove(s, w) \/ Ack(s, w) \/ GiveUp(s, w)
      PROVE  Quiet
  <2>1. ~Handling(s, w) /\ UNCHANGED <<handled, succeeded>>
    BY <1>5 DEF RejectRemove, Ack, GiveUp, Handling
  <2>2. "decode" \in WorkerState \ {"handling"}
    BY DEF WorkerState
  <2>3. Return(s, w) \/ (Goto(s, w, "decode") /\ UNCHANGED held)
    BY <1>5 DEF RejectRemove, Ack, GiveUp
  <2> QED
    BY <1>0, <2>1, <2>2, <2>3, GotoQuiet, ReturnQuiet
<1> QED
  BY <1>1, <1>2, <1>3, <1>4, <1>5 DEF QueueStep

\* No step of the queue by itself breaks the invariant.
LEMMA QueueStepSend ==
  ASSUME TypeInv, OnceInv, SendInv, NEW s \in Server, QueueStep(s)
  PROVE  SendInv'
<1>1. UNCHANGED <<sendingVars, offerVars>>
  BY DEF QueueStep
<1> QED
  BY <1>1, QueueStepQuiet, SendKept, CallHandlerSend

\* A process ends, and with it what its consumers were sending.
LEMMA EndSend ==
  ASSUME TypeInv, DeliveryTypeOK, SendInv, NEW s \in Server, End(s)
  PROVE  DeliveryTypeOK' /\ SendInv'
<1> USE DEF offerVars
<1>1. PICK state : EndProcess(s, state)
  BY DEF End, Stopped, Crash
<1>2. UNCHANGED <<handled, succeeded>>
  BY <1>1 DEF EndProcess, historyVars
<1>3. /\ \A w \in Worker : at'[s][w] = "off"
      /\ \A u \in Server, v \in Worker :
           u # s => at'[u][v] = at[u][v] /\ held'[u][v] = held[u][v]
  BY <1>1, EndProcessLemma DEF TypeInv, ConsumersOK
<1>4. /\ chosen' \in [Server -> [Worker -> BOOLEAN]]
      /\ left' \in [Server -> [Worker -> SUBSET Token]]
      /\ \A w \in Worker : chosen'[s][w] = FALSE /\ left'[s][w] = {}
      /\ \A u \in Server, v \in Worker :
           u # s => chosen'[u][v] = chosen[u][v] /\ left'[u][v] = left[u][v]
      /\ UNCHANGED <<offered, audience>>
  BY DEF End, DeliveryTypeOK
<1>5. /\ \A w \in Worker : ~Handling(s, w)'
      /\ \A u \in Server, v \in Worker :
           /\ u # s => Handling(u, v)' = Handling(u, v)
           /\ Handling(u, v)' => u # s /\ Handling(u, v) /\ held'[u][v] = held[u][v]
  BY <1>3 DEF Handling
<1>6. DeliveryTypeOK'
  BY <1>4 DEF DeliveryTypeOK
<1>7. HandedOut' /\ Apart'
  BY <1>2, <1>5 DEF SendInv, HandedOut, Apart
<1>8. NotBefore' /\ Complete' /\ NotifiedAtMostOnce'
  BY <1>2, <1>4 DEF SendInv, NotBefore, Untouched, Complete, NotifiedAtMostOnce
<1>9. Idle'
  BY <1>4, <1>5 DEF SendInv, Idle
<1>10. Progress'
  <2> SUFFICES ASSUME NEW u \in Server, NEW v \in Worker, Handling(u, v)'
               PROVE  Advanced(u, v, held[u][v])'
    BY DEF Progress
  <2>1. u # s /\ Handling(u, v) /\ held'[u][v] = held[u][v]
    BY <1>5
  <2>2. Advanced(u, v, held[u][v])
    BY <2>1 DEF SendInv, Progress
  <2> QED
    BY <1>4, <2>1, <2>2 DEF Advanced, Untouched
<1> QED
  BY <1>6, <1>7, <1>8, <1>9, <1>10 DEF SendInv

-----------------------------------------------------------------------------
(***************************************************************************)
(* The steps of SendMessage.                                               *)
(***************************************************************************)
\* An offer counts once for each of its tokens.
LEMMA OfferedLemma ==
  ASSUME DeliveryTypeOK, NEW m \in Message, NEW ts \in SUBSET Token
  PROVE  /\ Offered(m, ts) \in [Message -> [Token -> Nat]]
         /\ \A n \in Message : n # m => Offered(m, ts)[n] = offered[n]
         /\ \A t \in ts : Offered(m, ts)[m][t] = offered[m][t] + 1
         /\ \A t \in Token \ ts : Offered(m, ts)[m][t] = offered[m][t]
BY DEF DeliveryTypeOK, Offered

\* The two queries fix the audience of a message nobody has offered yet.
LEMMA ChooseSend ==
  ASSUME TypeInv, DeliveryTypeOK, SendInv, NEW s \in Server, NEW w \in Worker,
         NEW ts \in SUBSET Token, Choose(s, w, ts)
  PROVE  DeliveryTypeOK' /\ SendInv'
<1> DEFINE m == held[s][w]
<1>1. /\ Handling(s, w)
      /\ ~chosen[s][w]
      /\ chosen' = [chosen EXCEPT ![s][w] = TRUE]
      /\ left' = [left EXCEPT ![s][w] = ts]
      /\ audience' = [audience EXCEPT ![m] = @ \cup ts]
      /\ UNCHANGED <<at, held, handled, succeeded, offered>>
  BY DEF Choose, Handling, vars, processVars, historyVars
<1>2. m \in Message
  BY <1>1 DEF Handling, TypeInv, ConsumersOK, HoldsDelivery
<1>3. m \in Range(handled) \ succeeded
  BY <1>1 DEF SendInv, HandedOut
<1>4. Untouched(m)
  BY <1>1 DEF SendInv, Progress, Advanced
<1>5. \A u \in Server, v \in Worker :
        (u # s \/ v # w) /\ Handling(u, v) => held[u][v] # m /\ held[u][v] \in Message
  BY <1>1 DEF SendInv, Apart, Handling, TypeInv, ConsumersOK, HoldsDelivery
<1> HIDE DEF m
<1>6. /\ chosen' \in [Server -> [Worker -> BOOLEAN]]
      /\ left' \in [Server -> [Worker -> SUBSET Token]]
      /\ chosen'[s][w] = TRUE /\ left'[s][w] = ts
      /\ \A u \in Server, v \in Worker :
           u # s \/ v # w => chosen'[u][v] = chosen[u][v] /\ left'[u][v] = left[u][v]
  BY <1>1 DEF DeliveryTypeOK
<1>7. /\ audience' \in [Message -> SUBSET Token]
      /\ audience'[m] = ts
      /\ \A n \in Message : n # m => audience'[n] = audience[n]
  BY <1>1, <1>2, <1>4 DEF DeliveryTypeOK, Untouched
<1>8. DeliveryTypeOK'
  BY <1>1, <1>6, <1>7 DEF DeliveryTypeOK
<1>9. HandedOut' /\ Apart'
  BY <1>1 DEF SendInv, HandedOut, Apart, Handling
<1>10. NotBefore'
  BY <1>1, <1>3, <1>7 DEF SendInv, NotBefore, Untouched
<1>11. Idle'
  BY <1>1, <1>6 DEF SendInv, Idle, Handling
<1>12. Progress'
  <2> SUFFICES ASSUME NEW u \in Server, NEW v \in Worker, Handling(u, v)'
               PROVE  Advanced(u, v, held[u][v])'
    BY DEF Progress
  <2>0. Handling(u, v)
    BY <1>1 DEF Handling
  <2>1. CASE u = s /\ v = w
    <3>1. \A t \in ts : offered[m][t] = 0
      BY <1>4 DEF Untouched
    <3>2. held'[u][v] = m
      BY <1>1, <2>1 DEF m
    <3> QED
      BY <1>1, <1>6, <1>7, <2>1, <3>1, <3>2 DEF Advanced
  <2>2. CASE u # s \/ v # w
    <3>1. Advanced(u, v, held[u][v]) /\ held[u][v] # m /\ held[u][v] \in Message
      BY <1>5, <2>0, <2>2 DEF SendInv, Progress
    <3> QED
      BY <1>1, <1>6, <1>7, <2>2, <3>1 DEF Advanced, Untouched
  <2> QED
    BY <2>1, <2>2
<1>13. Complete' /\ NotifiedAtMostOnce'
  <2>1. succeeded \subseteq Message
    BY DEF TypeInv, HistoryOK
  <2> QED
    BY <1>1, <1>3, <1>7, <2>1 DEF SendInv, Complete, NotifiedAtMostOnce
<1> QED
  BY <1>8, <1>9, <1>10, <1>11, <1>12, <1>13 DEF SendInv

\* A batch goes out: its tokens were not offered before, and are not left.
LEMMA OfferSend ==
  ASSUME TypeInv, DeliveryTypeOK, SendInv, NEW s \in Server, NEW w \in Worker,
         NEW ts \in SUBSET Token, Offer(s, w, ts)
  PROVE  DeliveryTypeOK' /\ SendInv'
<1> DEFINE m == held[s][w]
<1>1. /\ Handling(s, w)
      /\ ts # {} /\ ts \subseteq left[s][w]
      /\ offered' = Offered(m, ts)
      /\ left' = [left EXCEPT ![s][w] = @ \ ts]
      /\ UNCHANGED <<at, held, handled, succeeded, chosen, audience>>
  BY DEF Offer, Handling, vars, processVars, historyVars
<1>2. m \in Message
  BY <1>1 DEF Handling, TypeInv, ConsumersOK, HoldsDelivery
<1>3. m \in Range(handled) \ succeeded
  BY <1>1 DEF SendInv, HandedOut
<1>4. /\ chosen[s][w]
      /\ \A t \in left[s][w] : offered[m][t] = 0
      /\ \A t \in audience[m] : t \in left[s][w] \/ offered[m][t] > 0
      /\ left[s][w] \subseteq Token
  BY <1>1 DEF SendInv, Progress, Advanced, DeliveryTypeOK
<1>5. \A u \in Server, v \in Worker :
        (u # s \/ v # w) /\ Handling(u, v) => held[u][v] # m /\ held[u][v] \in Message
  BY <1>1 DEF SendInv, Apart, Handling, TypeInv, ConsumersOK, HoldsDelivery
<1> HIDE DEF m
<1>6. /\ left' \in [Server -> [Worker -> SUBSET Token]]
      /\ left'[s][w] = left[s][w] \ ts
      /\ \A u \in Server, v \in Worker : u # s \/ v # w => left'[u][v] = left[u][v]
  BY <1>1 DEF DeliveryTypeOK
<1>7. /\ offered' \in [Message -> [Token -> Nat]]
      /\ \A n \in Message : n # m => offered'[n] = offered[n]
      /\ \A t \in ts : offered'[m][t] = offered[m][t] + 1
      /\ \A t \in Token \ ts : offered'[m][t] = offered[m][t]
  BY <1>1, <1>2, OfferedLemma
<1>8. /\ \A t \in ts : offered'[m][t] = 1
      /\ \A t \in left[s][w] \ ts : offered'[m][t] = 0
      /\ \A t \in audience[m] : t \in left[s][w] \ ts \/ offered'[m][t] > 0
  <2>1. audience[m] \subseteq Token
    BY <1>2 DEF DeliveryTypeOK
  <2> QED
    BY <1>1, <1>4, <1>7, <2>1
<1>9. DeliveryTypeOK'
  BY <1>1, <1>6, <1>7 DEF DeliveryTypeOK
<1>10. HandedOut' /\ Apart'
  BY <1>1 DEF SendInv, HandedOut, Apart, Handling
<1>11. NotBefore'
  BY <1>1, <1>3, <1>7 DEF SendInv, NotBefore, Untouched
<1>12. Idle'
  BY <1>1, <1>6 DEF SendInv, Idle, Handling
<1>13. Progress'
  <2> SUFFICES ASSUME NEW u \in Server, NEW v \in Worker, Handling(u, v)'
               PROVE  Advanced(u, v, held[u][v])'
    BY DEF Progress
  <2>1. CASE u = s /\ v = w
    <3>1. held'[u][v] = m
      BY <1>1, <2>1 DEF m
    <3> QED
      BY <1>1, <1>4, <1>6, <1>8, <2>1, <3>1 DEF Advanced
  <2>2. CASE u # s \/ v # w
    <3>1. Handling(u, v)
      BY <1>1 DEF Handling
    <3>2. Advanced(u, v, held[u][v]) /\ held[u][v] # m /\ held[u][v] \in Message
      BY <1>5, <2>2, <3>1 DEF SendInv, Progress
    <3> QED
      BY <1>1, <1>6, <1>7, <2>2, <3>2 DEF Advanced, Untouched
  <2> QED
    BY <2>1, <2>2
<1>14. Complete'
  <2>1. succeeded \subseteq Message
    BY DEF TypeInv, HistoryOK
  <2> QED
    BY <1>1, <1>3, <1>7, <2>1 DEF SendInv, Complete
<1>15. NotifiedAtMostOnce'
  BY <1>2, <1>7, <1>8 DEF SendInv, NotifiedAtMostOnce
<1> QED
  BY <1>9, <1>10, <1>11, <1>12, <1>13, <1>14, <1>15 DEF SendInv

\* SendMessage returns: this consumer sends nothing any more.
SendingEnds(s, w) ==
  /\ Handling(s, w) /\ ~Handling(s, w)'
  /\ \A u \in Server, v \in Worker :
       u # s \/ v # w => /\ Handling(u, v)' = Handling(u, v)
                         /\ chosen'[u][v] = chosen[u][v]
                         /\ left'[u][v] = left[u][v]
  /\ ~chosen'[s][w] /\ left'[s][w] = {}
  /\ chosen' \in [Server -> [Worker -> BOOLEAN]]
  /\ left' \in [Server -> [Worker -> SUBSET Token]]
  /\ UNCHANGED <<held, handled>>
  /\ held[s][w] \in Message
  /\ Idle'

\* What Forget and the return of the handler change together.
LEMMA ReturnsSend ==
  ASSUME TypeInv, DeliveryTypeOK, SendInv, NEW s \in Server, NEW w \in Worker,
         NEW ok \in BOOLEAN, HandlerReturns(s, w, ok), Forget(s, w)
  PROVE  /\ SendingEnds(s, w)
         /\ succeeded' = IF ok THEN succeeded \cup {held[s][w]} ELSE succeeded
<1>1. /\ at[s][w] = "handling"
      /\ UNCHANGED <<held, handled>>
      /\ succeeded' = IF ok THEN succeeded \cup {held[s][w]} ELSE succeeded
  BY DEF HandlerReturns
<1>2. held[s][w] \in Message
  BY <1>1 DEF TypeInv, ConsumersOK, HoldsDelivery
<1>3. PICK state \in WorkerState \ {"handling"} : Goto(s, w, state)
  BY DEF HandlerReturns, WorkerState
<1>4. /\ at'[s][w] = state
      /\ \A u \in Server, v \in Worker : u # s \/ v # w => at'[u][v] = at[u][v]
  BY <1>3, GotoLemma DEF TypeInv, ConsumersOK
<1>5. /\ Handling(s, w) /\ ~Handling(s, w)'
      /\ \A u \in Server, v \in Worker : u # s \/ v # w => Handling(u, v)' = Handling(u, v)
  BY <1>1, <1>3, <1>4 DEF Handling
<1>6. /\ chosen' \in [Server -> [Worker -> BOOLEAN]]
      /\ left' \in [Server -> [Worker -> SUBSET Token]]
      /\ ~chosen'[s][w] /\ left'[s][w] = {}
      /\ \A u \in Server, v \in Worker :
           u # s \/ v # w => chosen'[u][v] = chosen[u][v] /\ left'[u][v] = left[u][v]
  BY DEF Forget, DeliveryTypeOK
<1>7. Idle'
  BY <1>5, <1>6 DEF SendInv, Idle
<1> QED
  BY <1>1, <1>2, <1>5, <1>6, <1>7 DEF SendingEnds

\* SendMessage returns nil: nothing of its audience is left.
LEMMA SucceedSend ==
  ASSUME TypeInv, DeliveryTypeOK, SendInv, NEW s \in Server, NEW w \in Worker,
         Succeed(s, w)
  PROVE  DeliveryTypeOK' /\ SendInv'
<1> DEFINE m == held[s][w]
<1>1. /\ chosen[s][w] /\ left[s][w] = {}
      /\ HandlerReturns(s, w, TRUE) /\ Forget(s, w)
      /\ UNCHANGED <<offered, audience>>
  BY DEF Succeed, offerVars
<1>2. SendingEnds(s, w) /\ succeeded' = succeeded \cup {m}
  BY <1>1, ReturnsSend
<1> USE DEF SendingEnds
<1>3. /\ m \in Range(handled)
      /\ \A t \in audience[m] : offered[m][t] > 0
  BY <1>1, <1>2 DEF SendInv, HandedOut, Progress, Advanced
<1>4. \A u \in Server, v \in Worker :
        (u # s \/ v # w) /\ Handling(u, v) => held[u][v] # m
  BY <1>2 DEF SendInv, Apart
<1>5. \A u \in Server, v \in Worker : Handling(u, v)' => Handling(u, v) /\ (u # s \/ v # w)
  BY <1>2
<1> HIDE DEF m
<1>6. DeliveryTypeOK'
  BY <1>1, <1>2 DEF DeliveryTypeOK
<1>7. HandedOut' /\ Apart'
  BY <1>2, <1>3, <1>4, <1>5 DEF SendInv, HandedOut, Apart
<1>8. NotBefore' /\ Complete' /\ NotifiedAtMostOnce'
  BY <1>1, <1>2, <1>3 DEF SendInv, NotBefore, Untouched, Complete, NotifiedAtMostOnce
<1>9. Progress'
  <2> SUFFICES ASSUME NEW u \in Server, NEW v \in Worker, Handling(u, v)'
               PROVE  Advanced(u, v, held[u][v])'
    BY DEF Progress
  <2>1. Advanced(u, v, held[u][v]) /\ (u # s \/ v # w)
    BY <1>5 DEF SendInv, Progress
  <2> QED
    BY <1>1, <1>2, <2>1 DEF Advanced, Untouched
<1> QED
  BY <1>2, <1>6, <1>7, <1>8, <1>9 DEF SendInv

\* It returns an error, after FCM took the last batch or did not.
LEMMA FailSend ==
  ASSUME TypeInv, DeliveryTypeOK, SendInv, NEW s \in Server, NEW w \in Worker,
         NEW ts \in SUBSET Token, Fail(s, w, ts)
  PROVE  DeliveryTypeOK' /\ SendInv'
<1> DEFINE m == held[s][w]
<1>1. /\ ts \subseteq left[s][w]
      /\ HandlerReturns(s, w, FALSE) /\ Forget(s, w)
      /\ offered' = Offered(m, ts)
      /\ UNCHANGED audience
  BY DEF Fail
<1>2. SendingEnds(s, w) /\ succeeded' = succeeded
  BY <1>1, ReturnsSend
<1> USE DEF SendingEnds
<1>3. /\ m \in Range(handled) \ succeeded
      /\ \A t \in left[s][w] : offered[m][t] = 0
  BY <1>2 DEF SendInv, HandedOut, Progress, Advanced
<1>4. \A u \in Server, v \in Worker :
        (u # s \/ v # w) /\ Handling(u, v) => held[u][v] # m /\ held[u][v] \in Message
  BY <1>2 DEF SendInv, Apart, Handling, TypeInv, ConsumersOK, HoldsDelivery
<1>5. \A u \in Server, v \in Worker : Handling(u, v)' => Handling(u, v) /\ (u # s \/ v # w)
  BY <1>2
<1>2a. m \in Message
  BY <1>2
<1> HIDE DEF m
<1>6. /\ offered' \in [Message -> [Token -> Nat]]
      /\ \A n \in Message : n # m => offered'[n] = offered[n]
      /\ \A t \in ts : offered'[m][t] = offered[m][t] + 1
      /\ \A t \in Token \ ts : offered'[m][t] = offered[m][t]
  BY <1>1, <1>2a, OfferedLemma
<1>7. DeliveryTypeOK'
  BY <1>1, <1>2, <1>6 DEF DeliveryTypeOK
<1>8. HandedOut' /\ Apart'
  BY <1>2, <1>5 DEF SendInv, HandedOut, Apart
<1>9. NotBefore'
  BY <1>1, <1>2, <1>3, <1>6 DEF SendInv, NotBefore, Untouched
<1>10. Complete'
  <2>1. succeeded \subseteq Message
    BY DEF TypeInv, HistoryOK
  <2> QED
    BY <1>1, <1>2, <1>3, <1>6, <2>1 DEF SendInv, Complete
<1>11. NotifiedAtMostOnce'
  <2>1. \A t \in ts : offered'[m][t] = 1
    BY <1>1, <1>3, <1>6
  <2> QED
    BY <1>2, <1>6, <2>1 DEF SendInv, NotifiedAtMostOnce
<1>12. Progress'
  <2> SUFFICES ASSUME NEW u \in Server, NEW v \in Worker, Handling(u, v)'
               PROVE  Advanced(u, v, held[u][v])'
    BY DEF Progress
  <2>1. /\ Advanced(u, v, held[u][v]) /\ (u # s \/ v # w)
        /\ held[u][v] # m /\ held[u][v] \in Message
    BY <1>4, <1>5 DEF SendInv, Progress
  <2> QED
    BY <1>1, <1>2, <1>6, <2>1 DEF Advanced, Untouched
<1> QED
  BY <1>2, <1>7, <1>8, <1>9, <1>10, <1>11, <1>12 DEF SendInv

-----------------------------------------------------------------------------
\* Every step keeps the invariant.
LEMMA SendNext ==
  TypeInv /\ OnceInv /\ DeliveryTypeOK /\ SendInv /\ [DeliveryNext]_deliveryVars
    => DeliveryTypeOK' /\ SendInv'
<1> SUFFICES ASSUME TypeInv, OnceInv, DeliveryTypeOK, SendInv, [DeliveryNext]_deliveryVars
             PROVE  DeliveryTypeOK' /\ SendInv'
  OBVIOUS
<1>0. ASSUME UNCHANGED <<sendingVars, offerVars>>
      PROVE  DeliveryTypeOK'
  BY <1>0 DEF DeliveryTypeOK, sendingVars, offerVars
<1>1. ASSUME NEW m \in Message, Add(m), UNCHANGED <<sendingVars, offerVars>>
      PROVE  DeliveryTypeOK' /\ SendInv'
  <2>1. UNCHANGED <<at, held, handled, succeeded>>
    BY <1>1 DEF Add, processVars
  <2> QED
    BY <1>0, <1>1, <2>1, StayQuiet, SendKept
<1>2. ASSUME NEW s \in Server, QueueStep(s)
      PROVE  DeliveryTypeOK' /\ SendInv'
  <2>1. UNCHANGED <<sendingVars, offerVars>>
    BY <1>2 DEF QueueStep
  <2> QED
    BY <1>0, <1>2, <2>1, QueueStepSend
<1>3. ASSUME NEW s \in Server, End(s)
      PROVE  DeliveryTypeOK' /\ SendInv'
  BY <1>3, EndSend
<1>4. ASSUME NEW s \in Server, NEW w \in Worker, SendStep(s, w)
      PROVE  DeliveryTypeOK' /\ SendInv'
  BY <1>4, ChooseSend, OfferSend, SucceedSend, FailSend DEF SendStep
<1>5. CASE UNCHANGED deliveryVars
  <2>1. UNCHANGED <<sendingVars, offerVars, at, held, handled, succeeded>>
    BY <1>5 DEF deliveryVars, vars, processVars, historyVars
  <2> QED
    BY <1>0, <2>1, StayQuiet, SendKept
<1> QED
  BY <1>1, <1>2, <1>3, <1>4, <1>5 DEF DeliveryNext

(***************************************************************************)
(* The invariants of the queue and this one, together.                     *)
(***************************************************************************)
DeliveryInv == TypeInv /\ OnceInv /\ SettleInv /\ DeliveryTypeOK /\ SendInv

LEMMA DeliveryInvariant == DeliverySpec => []DeliveryInv
<1>1. DeliveryInit => DeliveryInv
  BY QueueAsItIs, TypeInit, OnceInit, SettleInit, SendInit DEF DeliveryInv
<1>2. DeliveryInv /\ [DeliveryNext]_deliveryVars => DeliveryInv'
  BY QueueAsItIs, TypeNext, OnceNext, SettleNext, SendNext DEF DeliveryInv
<1> QED
  BY <1>1, <1>2, PTL DEF DeliverySpec

(***************************************************************************)
(* FCM gets a message for a token at most once, whatever processes crash,  *)
(* close or overlap while they consume and send.                           *)
(***************************************************************************)
THEOREM AtMostOneNotification == DeliverySpec => []NotifiedAtMostOnce
<1>1. DeliveryInv => NotifiedAtMostOnce
  BY DEF DeliveryInv, SendInv
<1> QED
  BY <1>1, DeliveryInvariant, PTL

(***************************************************************************)
(* A message is acked only after FCM got it for its whole audience.        *)
(***************************************************************************)
THEOREM AckMeansAudienceReached == DeliverySpec => []AckedReachedAll
<1>1. DeliveryInv => AckedReachedAll
  BY DEF DeliveryInv, SendInv, Complete, SettleInv, AckedSucceeded, AckedReachedAll
<1> QED
  BY <1>1, DeliveryInvariant, PTL

-----------------------------------------------------------------------------
(***************************************************************************)
(* Delivery implements Fanout, for any number of messages, devices,        *)
(* incarnations and consumers.  What is left of a message is what its      *)
(* consumer has left, as no two consumers send the same one; it is given   *)
(* up when its consumer failed or ended with its process.                  *)
(***************************************************************************)

\* The refinement mapping of Dispatch.
LeftOf(m) == UNION {left[sw[1]][sw[2]] : sw \in Sending(m)}
Remaining == [m \in Message |-> LeftOf(m)]
Result    == [m \in Message |-> Outcome(m)]

Sends(s, w, m) == Handling(s, w) /\ held[s][w] = m

\* The pairs in Sending.
LEMMA SendingDef ==
  \A m, s, w : <<s, w>> \in Sending(m) <=> s \in Server /\ w \in Worker /\ Sends(s, w, m)
BY DEF Sending, Sends, Handling

\* Sending has nothing but these pairs.
LEMMA InSending ==
  \A m, sw : sw \in Sending(m) <=>
    \E s \in Server, w \in Worker : sw = <<s, w>> /\ Sends(s, w, m)
BY DEF Sending, Sends, Handling

\* What is left of a message is left with one of its consumers.
LEMMA LeftDef ==
  \A m, t : t \in LeftOf(m) <=> \E s \in Server, w \in Worker : Sends(s, w, m) /\ t \in left[s][w]
<1> TAKE m, t
<1>1. ASSUME t \in LeftOf(m)
      PROVE  \E s \in Server, w \in Worker : Sends(s, w, m) /\ t \in left[s][w]
  <2>1. PICK sw \in Sending(m) : t \in left[sw[1]][sw[2]]
    BY <1>1 DEF LeftOf
  <2> QED
    BY <2>1, InSending
<1>2. ASSUME NEW s \in Server, NEW w \in Worker, Sends(s, w, m), t \in left[s][w]
      PROVE  t \in LeftOf(m)
  <2>1. <<s, w>> \in Sending(m)
    BY <1>2, SendingDef
  <2> QED
    BY <1>2, <2>1 DEF LeftOf
<1> QED
  BY <1>1, <1>2

\* Nobody sends a message iff no consumer does.
LEMMA NotSent ==
  \A m : Sending(m) = {} <=> \A s \in Server, w \in Worker : ~Sends(s, w, m)
<1> TAKE m
<1>1. Sending(m) # {} <=> \E sw : sw \in Sending(m)
  OBVIOUS
<1> QED
  BY <1>1, InSending

\* The same of the next state.
LEMMA LeftDefNext ==
  \A m, t : t \in LeftOf(m)' <=>
    \E s \in Server, w \in Worker : Sends(s, w, m)' /\ t \in left'[s][w]
<1>1. (\A m, t : t \in LeftOf(m) <=> \E s \in Server, w \in Worker : Sends(s, w, m) /\ t \in left[s][w])'
  BY LeftDef, PTL
<1> QED
  BY <1>1

\* The same of the next state.
LEMMA NotSentNext ==
  \A m : Sending(m)' = {} <=> \A s \in Server, w \in Worker : ~Sends(s, w, m)'
<1>1. (\A m : Sending(m) = {} <=> \A s \in Server, w \in Worker : ~Sends(s, w, m))'
  BY NotSent, PTL
<1> QED
  BY <1>1

\* A message whose consumer, if it has one, does nothing.
LEMMA Same ==
  ASSUME NEW n,
         \A s \in Server, w \in Worker :
           /\ Sends(s, w, n)' <=> Sends(s, w, n)
           /\ Sends(s, w, n) => left'[s][w] = left[s][w],
         n \in succeeded' <=> n \in succeeded,
         n \in Range(handled') <=> n \in Range(handled)
  PROVE  LeftOf(n)' = LeftOf(n) /\ Outcome(n)' = Outcome(n)
<1>1. \A sw : sw \in Sending(n)' <=> sw \in Sending(n)
  <2>1. \A sw : sw \in Sending(n)' <=>
          \E s \in Server, w \in Worker : sw = <<s, w>> /\ Sends(s, w, n)'
    BY DEF Sending, Sends, Handling
  <2> QED
    BY <2>1, InSending
<1>2. \A sw \in Sending(n) : left'[sw[1]][sw[2]] = left[sw[1]][sw[2]]
  BY InSending
<1>3. Sending(n)' = Sending(n)
  BY <1>1
<1> HIDE DEF Sending
<1>4. LeftOf(n)' = LeftOf(n)
  BY <1>2, <1>3 DEF LeftOf
<1>5. Outcome(n)' = Outcome(n)
  BY <1>3 DEF Outcome
<1> QED
  BY <1>4, <1>5

\* A consumer that sends is the only one with its message.
Owns(s, w, m) ==
  m \in Message /\ LeftOf(m) = left[s][w] /\ Outcome(m) = "nothing"

LEMMA Owner ==
  TypeInv /\ SendInv =>
    \A s \in Server, w \in Worker : Handling(s, w) => Owns(s, w, held[s][w])
<1> SUFFICES ASSUME TypeInv, SendInv, NEW s \in Server, NEW w \in Worker, Handling(s, w)
             PROVE  Owns(s, w, held[s][w])
  OBVIOUS
<1> DEFINE m == held[s][w]
<1>1. m \in Message
  BY DEF Handling, TypeInv, ConsumersOK, HoldsDelivery
<1>2. m \in Range(handled) \ succeeded
  BY DEF SendInv, HandedOut
<1>3. Sends(s, w, m)
  BY DEF Sends
<1>4. \A u \in Server, v \in Worker : Sends(u, v, m) => u = s /\ v = w
  BY DEF SendInv, Apart, Sends
<1> HIDE DEF m
<1>5. LeftOf(m) = left[s][w]
  BY <1>3, <1>4, LeftDef
<1>6. Sending(m) # {}
  BY <1>3, NotSent
<1> QED
  BY <1>1, <1>2, <1>5, <1>6 DEF Outcome, Owns, m

\* The same of the next state.
LEMMA OwnerNext ==
  TypeInv' /\ SendInv' =>
    \A s \in Server, w \in Worker : Handling(s, w)' => Owns(s, w, held[s][w])'
<1>1. (TypeInv /\ SendInv =>
         \A s \in Server, w \in Worker : Handling(s, w) => Owns(s, w, held[s][w]))'
  BY Owner, PTL
<1> QED
  BY <1>1

\* What a step of one consumer leaves alone.
LEMMA Others ==
  ASSUME NEW s \in Server, NEW w \in Worker, NEW m, NEW n, n # m,
         held[s][w] = m, UNCHANGED held, UNCHANGED handled,
         \A u \in Server, v \in Worker :
           u # s \/ v # w => /\ Handling(u, v)' = Handling(u, v)
                             /\ left'[u][v] = left[u][v],
         n \in succeeded' <=> n \in succeeded
  PROVE  LeftOf(n)' = LeftOf(n) /\ Outcome(n)' = Outcome(n)
<1>1. \A u \in Server, v \in Worker :
        /\ Sends(u, v, n)' <=> Sends(u, v, n)
        /\ Sends(u, v, n) => left'[u][v] = left[u][v]
  BY DEF Sends
<1> QED
  BY <1>1, Same

\* A step that neither begins nor ends a call of the handler does not show.
LEMMA QuietStutters ==
  ASSUME Quiet
  PROVE  UNCHANGED <<Remaining, offered, Result>>
<1>1. UNCHANGED <<left, offered, handled, succeeded>>
  BY DEF Quiet, sendingVars, offerVars
<1>2. \A n \in Message : LeftOf(n)' = LeftOf(n) /\ Outcome(n)' = Outcome(n)
  <2> TAKE n \in Message
  <2>1. \A s \in Server, w \in Worker :
          /\ Sends(s, w, n)' <=> Sends(s, w, n)
          /\ Sends(s, w, n) => left'[s][w] = left[s][w]
    BY <1>1 DEF Sends, Quiet
  <2> QED
    BY <1>1, <2>1, Same
<1> QED
  BY <1>1, <1>2 DEF Remaining, Result

-----------------------------------------------------------------------------
\* The call of the handler does not show either: nothing is chosen yet.
LEMMA CallHandlerStutters ==
  ASSUME TypeInv, OnceInv, SendInv, NEW s \in Server, NEW w \in Worker,
         CallHandler(s, w), UNCHANGED <<sendingVars, offerVars>>
  PROVE  UNCHANGED <<Remaining, offered, Result>>
<1>0. PICK m : m = held[s][w]
  OBVIOUS
<1>1. /\ at[s][w] = "decode"
      /\ Goto(s, w, "handling")
      /\ handled' = Append(handled, m)
      /\ UNCHANGED <<held, succeeded, left, offered>>
      /\ handled \in Seq(Message)
      /\ m \in Message
  BY <1>0 DEF CallHandler, TypeInv, HistoryOK, ConsumersOK, HoldsDelivery, sendingVars, offerVars
<1>2. /\ at'[s][w] = "handling"
      /\ \A u \in Server, v \in Worker : u # s \/ v # w => at'[u][v] = at[u][v]
  BY <1>1, GotoLemma DEF TypeInv, ConsumersOK, WorkerState
<1>3. m \notin Range(handled)
  BY <1>0, <1>1 DEF OnceInv, HeldOnce, Before
<1>4. m \notin succeeded /\ \A u \in Server, v \in Worker : ~Sends(u, v, m)
  BY <1>3 DEF SendInv, HandedOut, Sends
<1>5. Sends(s, w, m)' /\ \A u \in Server, v \in Worker : Sends(u, v, m)' => u = s /\ v = w
  BY <1>0, <1>1, <1>2, <1>4 DEF Sends, Handling
<1>6. left[s][w] = {}
  BY <1>1 DEF SendInv, Idle, Handling
<1>7. \A n \in Message, u \in Server, v \in Worker :
        n # m => (Sends(u, v, n)' <=> Sends(u, v, n))
  BY <1>0, <1>1, <1>2 DEF Sends, Handling
<1>8. Range(handled') = Range(handled) \cup {m}
  BY <1>1, AppendRange
<1>9. LeftOf(m) = {} /\ Outcome(m) = "nothing"
  BY <1>3, <1>4, LeftDef DEF Outcome
<1>10. LeftOf(m)' = {}
  <2>1. \A t : t \in LeftOf(m)' <=>
          \E u \in Server, v \in Worker : Sends(u, v, m)' /\ t \in left'[u][v]
    BY LeftDefNext
  <2> QED
    BY <1>1, <1>5, <1>6, <2>1
<1>11. Outcome(m)' = "nothing"
  <2>1. Sending(m)' # {}
    BY <1>5, NotSentNext
  <2> QED
    BY <1>1, <1>4, <2>1 DEF Outcome
<1>12. ASSUME NEW n \in Message, n # m
       PROVE  LeftOf(n)' = LeftOf(n) /\ Outcome(n)' = Outcome(n)
  BY <1>1, <1>7, <1>8, <1>12, Same
<1> QED
  BY <1>1, <1>9, <1>10, <1>11, <1>12 DEF Remaining, Result

-----------------------------------------------------------------------------
(***************************************************************************)
(* A step that is Fanout's changes what is left of one message, or what    *)
(* became of it.                                                           *)
(***************************************************************************)
LEMMA OneMessage ==
  ASSUME NEW m \in Message, NEW ts, NEW r, LeftOf(m)' = ts, Outcome(m)' = r,
         \A n \in Message : n # m => LeftOf(n)' = LeftOf(n) /\ Outcome(n)' = Outcome(n)
  PROVE  /\ Remaining' = [Remaining EXCEPT ![m] = ts]
         /\ Result' = [Result EXCEPT ![m] = r]
BY DEF Remaining, Result

\* The two queries are Fanout's Choose: nothing of the message was offered yet.
LEMMA ChooseStep ==
  ASSUME TypeInv, DeliveryTypeOK, SendInv, TypeInv', SendInv',
         NEW s \in Server, NEW w \in Worker, NEW ts \in SUBSET Token, Choose(s, w, ts)
  PROVE  Dispatch!Next
<1>0. PICK m : m = held[s][w]
  OBVIOUS
<1>1. /\ Handling(s, w)
      /\ ~chosen[s][w]
      /\ left' = [left EXCEPT ![s][w] = ts]
      /\ UNCHANGED <<at, held, handled, succeeded, offered>>
  BY DEF Choose, Handling, vars, processVars, historyVars
<1>2. Owns(s, w, m)
  BY <1>0, <1>1, Owner
<1>3. left[s][w] = {} /\ \A t \in Token : offered[m][t] = 0
  BY <1>0, <1>1 DEF SendInv, Progress, Advanced, Untouched
<1>4. /\ left'[s][w] = ts
      /\ \A u \in Server, v \in Worker : u # s \/ v # w => left'[u][v] = left[u][v]
  BY <1>1 DEF DeliveryTypeOK
<1>5. Handling(s, w)' /\ \A u \in Server, v \in Worker : Handling(u, v)' = Handling(u, v)
  BY <1>1 DEF Handling
<1>6. Owns(s, w, m)'
  BY <1>0, <1>1, <1>5, OwnerNext DEF Owns
<1>7. ASSUME NEW n \in Message, n # m
      PROVE  LeftOf(n)' = LeftOf(n) /\ Outcome(n)' = Outcome(n)
  BY <1>0, <1>1, <1>4, <1>5, <1>7, Others
<1>8. LeftOf(m)' = ts /\ Outcome(m)' = "nothing"
  BY <1>4, <1>6 DEF Owns
<1>9. /\ Remaining' = [Remaining EXCEPT ![m] = ts]
      /\ Result' = [Result EXCEPT ![m] = "nothing"]
  BY <1>2, <1>7, <1>8, OneMessage DEF Owns
<1>10. Remaining[m] = {} /\ Result[m] = "nothing" /\ UNCHANGED Result
  BY <1>2, <1>3, <1>9 DEF Remaining, Result, Owns
<1>11. Dispatch!Choose(m, ts)
  BY <1>1, <1>3, <1>9, <1>10 DEF Dispatch!Choose, Dispatch!Fresh, Remaining, Result, LeftOf
<1> QED
  BY <1>2, <1>11 DEF Dispatch!Next, Owns

\* A batch is Fanout's Offer.
LEMMA OfferStep ==
  ASSUME TypeInv, DeliveryTypeOK, SendInv, TypeInv', SendInv',
         NEW s \in Server, NEW w \in Worker, NEW ts \in SUBSET Token, Offer(s, w, ts)
  PROVE  Dispatch!Next
<1>0. PICK m : m = held[s][w]
  OBVIOUS
<1>1. /\ Handling(s, w)
      /\ ts \subseteq left[s][w]
      /\ offered' = Offered(m, ts)
      /\ left' = [left EXCEPT ![s][w] = @ \ ts]
      /\ UNCHANGED <<at, held, handled, succeeded>>
  BY <1>0 DEF Offer, Handling, vars, processVars, historyVars
<1>2. Owns(s, w, m)
  BY <1>0, <1>1, Owner
<1>3. /\ left'[s][w] = left[s][w] \ ts
      /\ \A u \in Server, v \in Worker : u # s \/ v # w => left'[u][v] = left[u][v]
  BY <1>1 DEF DeliveryTypeOK
<1>4. Handling(s, w)' /\ \A u \in Server, v \in Worker : Handling(u, v)' = Handling(u, v)
  BY <1>1 DEF Handling
<1>5. Owns(s, w, m)'
  BY <1>0, <1>1, <1>4, OwnerNext DEF Owns
<1>6. ASSUME NEW n \in Message, n # m
      PROVE  LeftOf(n)' = LeftOf(n) /\ Outcome(n)' = Outcome(n)
  BY <1>0, <1>1, <1>3, <1>4, <1>6, Others
<1>7. LeftOf(m)' = left[s][w] \ ts /\ Outcome(m)' = "nothing"
  BY <1>3, <1>5 DEF Owns
<1>8. /\ Remaining' = [Remaining EXCEPT ![m] = left[s][w] \ ts]
      /\ Result' = [Result EXCEPT ![m] = "nothing"]
  BY <1>2, <1>6, <1>7, OneMessage DEF Owns
<1>9. Remaining[m] = left[s][w] /\ Result[m] = "nothing" /\ UNCHANGED Result
  BY <1>2, <1>8 DEF Remaining, Result, Owns
<1>10. Dispatch!Offer(m, ts)
  BY <1>1, <1>8, <1>9 DEF Dispatch!Offer, Dispatch!Offered, Offered, Remaining, Result, LeftOf
<1> QED
  BY <1>2, <1>10 DEF Dispatch!Next, Owns

\* SendMessage returned: nobody sends its message any more.
LEMMA Returned ==
  ASSUME TypeInv, SendInv, NEW s \in Server, NEW w \in Worker, NEW m, m = held[s][w],
         SendingEnds(s, w), NEW r,
         \/ r = "ok" /\ succeeded' = succeeded \cup {m}
         \/ r = "err" /\ succeeded' = succeeded
  PROVE  /\ Owns(s, w, m)
         /\ Remaining' = [Remaining EXCEPT ![m] = {}]
         /\ Result' = [Result EXCEPT ![m] = r]
<1>1. /\ Handling(s, w) /\ ~Handling(s, w)' /\ UNCHANGED <<held, handled>>
      /\ \A u \in Server, v \in Worker :
           u # s \/ v # w => /\ Handling(u, v)' = Handling(u, v)
                             /\ left'[u][v] = left[u][v]
  BY DEF SendingEnds
<1>2. Owns(s, w, m)
  BY <1>1, Owner
<1>3. m \in Range(handled) \ succeeded
  BY <1>1 DEF SendInv, HandedOut
<1>4. \A u \in Server, v \in Worker : ~Sends(u, v, m)'
  <2> SUFFICES ASSUME NEW u \in Server, NEW v \in Worker, Sends(u, v, m)'
               PROVE  FALSE
    OBVIOUS
  <2>1. (u # s \/ v # w) /\ Handling(u, v) /\ held[u][v] = m
    BY <1>1 DEF Sends
  <2> QED
    BY <1>1, <2>1 DEF SendInv, Apart
<1>5. LeftOf(m)' = {}
  BY <1>4, LeftDefNext
<1>6. Sending(m)' = {}
  BY <1>4, NotSentNext
<1>7. Outcome(m)' = r
  BY <1>1, <1>3, <1>6 DEF Outcome
<1>8. ASSUME NEW n \in Message, n # m
      PROVE  LeftOf(n)' = LeftOf(n) /\ Outcome(n)' = Outcome(n)
  BY <1>1, <1>8, Others
<1> QED
  BY <1>2, <1>5, <1>7, <1>8, OneMessage DEF Owns

\* SendMessage returns nil with nothing left: Fanout's Succeed.
LEMMA SucceedStep ==
  ASSUME TypeInv, DeliveryTypeOK, SendInv, NEW s \in Server, NEW w \in Worker,
         Succeed(s, w)
  PROVE  Dispatch!Next
<1>0. PICK m : m = held[s][w]
  OBVIOUS
<1>1. /\ left[s][w] = {}
      /\ HandlerReturns(s, w, TRUE) /\ Forget(s, w)
      /\ UNCHANGED offered
  BY DEF Succeed, offerVars
<1>2. SendingEnds(s, w) /\ succeeded' = succeeded \cup {held[s][w]}
  BY <1>1, ReturnsSend
<1>3. /\ Owns(s, w, m)
      /\ Remaining' = [Remaining EXCEPT ![m] = {}]
      /\ Result' = [Result EXCEPT ![m] = "ok"]
  BY <1>0, <1>2, Returned
<1>4. Remaining[m] = {} /\ Result[m] = "nothing" /\ UNCHANGED Remaining
  BY <1>1, <1>3 DEF Remaining, Result, Owns
<1>5. Dispatch!Succeed(m)
  BY <1>1, <1>3, <1>4 DEF Dispatch!Succeed, Remaining, Result, LeftOf
<1> QED
  BY <1>3, <1>5 DEF Dispatch!Next, Owns

\* It returns an error: Fanout's Fail.
LEMMA FailStep ==
  ASSUME TypeInv, DeliveryTypeOK, SendInv, NEW s \in Server, NEW w \in Worker,
         NEW ts \in SUBSET Token, Fail(s, w, ts)
  PROVE  Dispatch!Next
<1>0. PICK m : m = held[s][w]
  OBVIOUS
<1>1. /\ ts \subseteq left[s][w]
      /\ HandlerReturns(s, w, FALSE) /\ Forget(s, w)
      /\ offered' = Offered(m, ts)
  BY <1>0 DEF Fail
<1>2. SendingEnds(s, w) /\ succeeded' = succeeded
  BY <1>1, ReturnsSend
<1>3. /\ Owns(s, w, m)
      /\ Remaining' = [Remaining EXCEPT ![m] = {}]
      /\ Result' = [Result EXCEPT ![m] = "err"]
  BY <1>0, <1>2, Returned
<1>4. Remaining[m] = left[s][w] /\ Result[m] = "nothing"
  BY <1>3 DEF Remaining, Result, Owns
<1>5. Dispatch!Fail(m, ts)
  BY <1>1, <1>3, <1>4 DEF Dispatch!Fail, Dispatch!Offered, Offered, Remaining, Result, LeftOf
<1> QED
  BY <1>3, <1>5 DEF Dispatch!Next, Owns

\* The end of a process abandons what its consumers send.
LEMMA EndStep ==
  ASSUME TypeInv, DeliveryTypeOK, SendInv, NEW s \in Server, End(s)
  PROVE  Dispatch!Next
<1>0. PICK ms : ms = {held[s][w] : w \in {v \in Worker : Handling(s, v)}}
  OBVIOUS
<1>1. PICK state : EndProcess(s, state)
  BY DEF End, Stopped, Crash
<1>2. UNCHANGED <<handled, succeeded>>
  BY <1>1 DEF EndProcess, historyVars
<1>3. /\ \A w \in Worker : at'[s][w] = "off"
      /\ \A u \in Server, v \in Worker :
           u # s => at'[u][v] = at[u][v] /\ held'[u][v] = held[u][v]
  BY <1>1, EndProcessLemma DEF TypeInv, ConsumersOK
<1>4. /\ \A u \in Server, v \in Worker : u # s => left'[u][v] = left[u][v]
      /\ UNCHANGED offered
  BY DEF End, DeliveryTypeOK, offerVars
<1>5. /\ \A w \in Worker : ~Handling(s, w)'
      /\ \A u \in Server, v \in Worker : u # s => Handling(u, v)' = Handling(u, v)
  BY <1>3 DEF Handling
<1>6. ASSUME NEW m \in ms
      PROVE  /\ m \in Message /\ Outcome(m) = "nothing"
             /\ LeftOf(m)' = {} /\ Outcome(m)' = "err"
  <2>1. PICK w \in Worker : Handling(s, w) /\ m = held[s][w]
    BY <1>0, <1>6
  <2>2. Owns(s, w, m)
    BY <2>1, Owner
  <2>3. m \in Range(handled) \ succeeded
    BY <2>1 DEF SendInv, HandedOut
  <2>4. \A u \in Server, v \in Worker : ~Sends(u, v, m)'
    <3> SUFFICES ASSUME NEW u \in Server, NEW v \in Worker, Sends(u, v, m)'
                 PROVE  FALSE
      OBVIOUS
    <3>1. u # s /\ Handling(u, v) /\ held[u][v] = m
      BY <1>3, <1>5 DEF Sends
    <3> QED
      BY <2>1, <3>1 DEF SendInv, Apart
  <2>5. LeftOf(m)' = {} /\ Sending(m)' = {}
    BY <2>4, LeftDefNext, NotSentNext
  <2> QED
    BY <1>2, <2>2, <2>3, <2>5 DEF Outcome, Owns
<1>7. ASSUME NEW n \in Message, n \notin ms
      PROVE  LeftOf(n)' = LeftOf(n) /\ Outcome(n)' = Outcome(n)
  <2>1. \A w \in Worker : ~Sends(s, w, n) /\ ~Sends(s, w, n)'
    BY <1>0, <1>5, <1>7 DEF Sends
  <2>2. \A u \in Server, v \in Worker :
          /\ Sends(u, v, n)' <=> Sends(u, v, n)
          /\ Sends(u, v, n) => left'[u][v] = left[u][v]
    BY <1>3, <1>4, <1>5, <2>1 DEF Sends
  <2> QED
    BY <1>2, <2>2, Same
<1>8. /\ Remaining' = [m \in Message |-> IF m \in ms THEN {} ELSE Remaining[m]]
      /\ Result' = [m \in Message |-> IF m \in ms THEN "err" ELSE Result[m]]
      /\ \A m \in ms : Result[m] = "nothing"
  BY <1>6, <1>7 DEF Remaining, Result
<1>9. ms \in SUBSET Message
  BY <1>6
<1>10. Dispatch!Abandon(ms)
  BY <1>4, <1>8 DEF Dispatch!Abandon, Remaining, Result, LeftOf
<1> QED
  BY <1>9, <1>10 DEF Dispatch!Next

-----------------------------------------------------------------------------
\* No message has a consumer at the start.
LEMMA DispatchInit == DeliveryInit => Dispatch!Init
<1> SUFFICES ASSUME DeliveryInit
             PROVE  Dispatch!Init
  OBVIOUS
<1>1. /\ \A s \in Server, w \in Worker : ~Handling(s, w)
      /\ succeeded = {} /\ handled = <<>>
      /\ offered = [m \in Message |-> [t \in Token |-> 0]]
  BY DEF DeliveryInit, Init, Handling
<1>2. Range(handled) = {}
  BY <1>1 DEF Range
<1>3. ASSUME NEW m \in Message
      PROVE  LeftOf(m) = {} /\ Outcome(m) = "nothing"
  <2>1. \A s \in Server, w \in Worker : ~Sends(s, w, m)
    BY <1>1 DEF Sends
  <2> QED
    BY <1>1, <1>2, <2>1, LeftDef DEF Outcome
<1>4. /\ Remaining = [m \in Message |-> {}]
      /\ Result = [m \in Message |-> "nothing"]
  BY <1>3 DEF Remaining, Result
<1> QED
  BY <1>1, <1>4 DEF Dispatch!Init, Remaining, Result, LeftOf

\* Every step maps to a step of Fanout or does not show.
LEMMA DispatchNext ==
  ASSUME DeliveryInv, DeliveryInv', [DeliveryNext]_deliveryVars
  PROVE  Dispatch!Next \/ UNCHANGED <<Remaining, offered, Result>>
<1> USE DEF DeliveryInv
<1>1. ASSUME NEW m \in Message, Add(m), UNCHANGED <<sendingVars, offerVars>>
      PROVE  UNCHANGED <<Remaining, offered, Result>>
  <2>1. UNCHANGED <<at, held, handled, succeeded>>
    BY <1>1 DEF Add, processVars
  <2> QED
    BY <1>1, <2>1, StayQuiet, QuietStutters
<1>2. ASSUME NEW s \in Server, QueueStep(s)
      PROVE  UNCHANGED <<Remaining, offered, Result>>
  <2>1. UNCHANGED <<sendingVars, offerVars>>
    BY <1>2 DEF QueueStep
  <2> QED
    BY <1>2, <2>1, QueueStepQuiet, QuietStutters, CallHandlerStutters
<1>3. ASSUME NEW s \in Server, End(s)
      PROVE  Dispatch!Next
  BY <1>3, EndStep
<1>4. ASSUME NEW s \in Server, NEW w \in Worker, SendStep(s, w)
      PROVE  Dispatch!Next
  BY <1>4, ChooseStep, OfferStep, SucceedStep, FailStep DEF SendStep
<1>5. CASE UNCHANGED deliveryVars
  <2>1. UNCHANGED <<sendingVars, offerVars, at, held, handled, succeeded>>
    BY <1>5 DEF deliveryVars, vars, processVars, historyVars
  <2> QED
    BY <2>1, StayQuiet, QuietStutters
<1> QED
  BY <1>1, <1>2, <1>3, <1>4, <1>5 DEF DeliveryNext

(***************************************************************************)
(* The processes together send a message as one SendMessage would that ran *)
(* once, whatever ends, fails or overlaps: Delivery implements Fanout.     *)
(***************************************************************************)
THEOREM DeliveryImplementsFanout == DeliverySpec => ImplementsFanout
<1>1. DeliveryInv /\ DeliveryInv' /\ [DeliveryNext]_deliveryVars =>
        [Dispatch!Next]_<<Remaining, offered, Result>>
  BY DispatchNext
<1> QED
  BY <1>1, DispatchInit, DeliveryInvariant, PTL
     DEF DeliverySpec, ImplementsFanout, Dispatch!Spec, Remaining, Result, LeftOf
=============================================================================
