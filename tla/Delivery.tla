------------------------------ MODULE Delivery ------------------------------
(***************************************************************************)
(* The queue and the senders together: from Add to FCM.  sender.Run makes  *)
(* SendMessage the handler of every consumer, so a call of the handler is  *)
(* a run of SendMessage, its result decides between Ack and Reject, and it *)
(* ends with its process.                                                  *)
(*                                                                         *)
(* The queue is Queue as it is.  SendMessage is as coarse as Fanout, which *)
(* Sender implements, but belongs to a consumer and not to a message:      *)
(* nothing here keeps a second consumer from sending a message again.      *)
(***************************************************************************)
EXTENDS Queue

CONSTANT Token

VARIABLES
  chosen,    \* whether a consumer's SendMessage has made its two queries
  left,      \* the tokens it has not offered yet
  offered,   \* history: how often a message was offered for a token
  audience   \* history: the tokens that were chosen for a message

sendingVars  == <<chosen, left>>
offerVars    == <<offered, audience>>
deliveryVars == <<vars, sendingVars, offerVars>>

DeliveryInit ==
  /\ Init
  /\ chosen = [s \in Server |-> [w \in Worker |-> FALSE]]
  /\ left = [s \in Server |-> [w \in Worker |-> {}]]
  /\ offered = [m \in Message |-> [t \in Token |-> 0]]
  /\ audience = [m \in Message |-> {}]

\* SendMessage returns; its locals are gone.
Forget(s, w) ==
  /\ chosen' = [chosen EXCEPT ![s][w] = FALSE]
  /\ left' = [left EXCEPT ![s][w] = {}]

Offered(m, ts) ==
  [offered EXCEPT ![m] = [t \in Token |-> IF t \in ts THEN @[t] + 1 ELSE @[t]]]

-----------------------------------------------------------------------------
\* The two queries: any tokens may be due the message by now, or none.
Choose(s, w, ts) ==
  /\ at[s][w] = "handling"
  /\ ~chosen[s][w]
  /\ chosen' = [chosen EXCEPT ![s][w] = TRUE]
  /\ left' = [left EXCEPT ![s][w] = ts]
  /\ audience' = [audience EXCEPT ![held[s][w]] = @ \cup ts]
  /\ UNCHANGED <<vars, offered>>

\* A batch goes to FCM.
Offer(s, w, ts) ==
  /\ at[s][w] = "handling"
  /\ ts # {} /\ ts \subseteq left[s][w]
  /\ offered' = Offered(held[s][w], ts)
  /\ left' = [left EXCEPT ![s][w] = @ \ ts]
  /\ UNCHANGED <<vars, chosen, audience>>

\* Mutant of Succeed: SendMessage returns nil after the first platform.
SucceedEarly(s, w) ==
  /\ chosen[s][w]
  /\ HandlerReturns(s, w, TRUE)
  /\ Forget(s, w)
  /\ UNCHANGED offerVars

\* No batch is left: SendMessage returns nil.
Succeed(s, w) ==
  /\ chosen[s][w]
  /\ left[s][w] = {}
  /\ HandlerReturns(s, w, TRUE)
  /\ Forget(s, w)
  /\ UNCHANGED offerVars

\* A query fails, or the call for a batch: FCM may have taken some of it.
Fail(s, w, ts) ==
  /\ ts \subseteq left[s][w]
  /\ HandlerReturns(s, w, FALSE)
  /\ offered' = Offered(held[s][w], ts)
  /\ Forget(s, w)
  /\ UNCHANGED audience

\* The end of a process is the end of what its consumers were sending.
End(s) ==
  /\ Stopped(s) \/ Crash(s)
  /\ chosen' = [chosen EXCEPT ![s] = [w \in Worker |-> FALSE]]
  /\ left' = [left EXCEPT ![s] = [w \in Worker |-> {}]]
  /\ UNCHANGED offerVars

\* What the queue does by itself.
QueueStep(s) ==
  /\ \/ Run(s)
     \/ Prefetch(s) \/ PrefetchLost(s) \/ BatchEnds(s)
     \/ Cancel(s)
     \/ StopConsuming(s)
     \/ HeartbeatLost(s)
     \/ \E w \in Worker :
          \/ Consume(s, w)
          \/ Take(s, w)
          \/ Select(s, w)
          \/ RejectPush(s, w) \/ RejectPushLost(s, w)
          \/ RejectRemove(s, w)
          \/ DecodeFails(s, w)
          \/ CallHandler(s, w)
          \/ Ack(s, w)
          \/ GiveUp(s, w)
  /\ UNCHANGED <<sendingVars, offerVars>>

SendStep(s, w) ==
  \/ Succeed(s, w)
  \/ \E ts \in SUBSET Token : Choose(s, w, ts) \/ Offer(s, w, ts) \/ Fail(s, w, ts)

DeliveryNext ==
  \/ \E m \in Message : Add(m) /\ UNCHANGED <<sendingVars, offerVars>>
  \/ \E s \in Server :
       \/ QueueStep(s)
       \/ End(s)
       \/ \E w \in Worker : SendStep(s, w)

DeliverySpec == DeliveryInit /\ [][DeliveryNext]_deliveryVars

-----------------------------------------------------------------------------
DeliveryTypeOK ==
  /\ chosen \in [Server -> [Worker -> BOOLEAN]]
  /\ left \in [Server -> [Worker -> SUBSET Token]]
  /\ offered \in [Message -> [Token -> Nat]]
  /\ audience \in [Message -> SUBSET Token]

(***************************************************************************)
(* Whatever crashes, restarts, replicas and failures there are, FCM gets a *)
(* message for a token at most once: nothing after Add repeats one.  (As   *)
(* in Queue, a message is one entry of the list; an Add whose LPUSH was    *)
(* executed twice makes two, and a device shows both.)                     *)
(***************************************************************************)
NotifiedAtMostOnce ==
  \A m \in Message, t \in Token : offered[m][t] <= 1

(***************************************************************************)
(* An Ack, the only way a message leaves Redis, means that FCM got it for  *)
(* every token that was due it: no crash and no error in between leaves    *)
(* part of the audience of a message that is gone without it.              *)
(***************************************************************************)
AckedReachedAll ==
  \A m \in acked : \A t \in audience[m] : offered[m][t] > 0

(***************************************************************************)
(* Processes together send a message as one SendMessage would that ran     *)
(* once for each entry of the queue: they do what Fanout specifies.  A     *)
(* process that ends gives up what it was sending.                         *)
(***************************************************************************)
Sending(m) ==
  {sw \in Server \X Worker : at[sw[1]][sw[2]] = "handling" /\ held[sw[1]][sw[2]] = m}
Outcome(m) ==
  IF m \in succeeded THEN "ok"
  ELSE IF m \in Range(handled) /\ Sending(m) = {} THEN "err"
  ELSE "nothing"
Dispatch ==
  INSTANCE Fanout
  WITH remaining <- [m \in Message |-> UNION {left[sw[1]][sw[2]] : sw \in Sending(m)}],
       result    <- [m \in Message |-> Outcome(m)]
ImplementsFanout == Dispatch!Spec
=============================================================================
