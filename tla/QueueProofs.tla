---------------------------- MODULE QueueProofs ----------------------------
(***************************************************************************)
(* What holds of Queue for any number of messages, incarnations and        *)
(* consumers, and any prefetch limit.                                      *)
(***************************************************************************)
EXTENDS Queue, FiniteSetTheorems, TLAPS

(***************************************************************************)
(* How Append, Head and Tail change the range of a sequence, and that they *)
(* keep its elements distinct.                                             *)
(***************************************************************************)
LEMMA AppendRange ==
  ASSUME NEW S, NEW q \in Seq(S), NEW e \in S
  PROVE  /\ Append(q, e) \in Seq(S)
         /\ Range(Append(q, e)) = Range(q) \cup {e}
         /\ IsInjective(q) /\ e \notin Range(q) => IsInjective(Append(q, e))
<1>1. /\ DOMAIN Append(q, e) = 1 .. Len(q) + 1
      /\ DOMAIN q = 1 .. Len(q)
      /\ \A i \in 1 .. Len(q) : Append(q, e)[i] = q[i]
      /\ Append(q, e)[Len(q) + 1] = e
      /\ Len(q) \in Nat
  OBVIOUS
<1>2. Append(q, e) \in Seq(S)
  OBVIOUS
<1>3. Range(Append(q, e)) = Range(q) \cup {e}
  <2>1. \A i \in 1 .. Len(q) + 1 : i \in 1 .. Len(q) \/ i = Len(q) + 1
    BY <1>1
  <2> QED
    BY <1>1, <2>1 DEF Range
<1>4. IsInjective(q) /\ e \notin Range(q) => IsInjective(Append(q, e))
  BY <1>1 DEF Range, IsInjective
<1> QED
  BY <1>2, <1>3, <1>4

\* What Head and Tail return of a sequence that is not empty.
LEMMA TailRange ==
  ASSUME NEW S, NEW q \in Seq(S), q # <<>>
  PROVE  /\ Head(q) \in S
         /\ Tail(q) \in Seq(S)
         /\ Head(q) \in Range(q)
         /\ Range(q) = Range(Tail(q)) \cup {Head(q)}
         /\ IsInjective(q) => IsInjective(Tail(q)) /\ Head(q) \notin Range(Tail(q))
<1>1. /\ Len(q) \in Nat \ {0}
      /\ DOMAIN q = 1 .. Len(q)
      /\ DOMAIN Tail(q) = 1 .. Len(q) - 1
      /\ \A i \in 1 .. Len(q) - 1 : Tail(q)[i] = q[i + 1]
      /\ Head(q) = q[1]
      /\ Head(q) \in S
      /\ Tail(q) \in Seq(S)
  OBVIOUS
<1>2. Range(q) = Range(Tail(q)) \cup {Head(q)}
  <2>1. \A i \in 1 .. Len(q) : i = 1 \/ (i - 1 \in 1 .. Len(q) - 1 /\ q[i] = Tail(q)[i - 1])
    BY <1>1
  <2>2. \A i \in 1 .. Len(q) - 1 : i + 1 \in 1 .. Len(q)
    BY <1>1
  <2>3. 1 \in 1 .. Len(q)
    BY <1>1
  <2>4. ASSUME NEW x \in Range(q)
        PROVE  x \in Range(Tail(q)) \cup {Head(q)}
    <3>1. PICK i \in 1 .. Len(q) : x = q[i]
      BY <1>1 DEF Range
    <3> QED
      BY <1>1, <2>1, <3>1 DEF Range
  <2>5. ASSUME NEW x \in Range(Tail(q)) \cup {Head(q)}
        PROVE  x \in Range(q)
    BY <1>1, <2>2, <2>3 DEF Range
  <2> QED
    BY <2>4, <2>5
<1>3. ASSUME IsInjective(q)
      PROVE  IsInjective(Tail(q)) /\ Head(q) \notin Range(Tail(q))
  <2>1. \A i \in 1 .. Len(q) - 1 : i + 1 \in 1 .. Len(q) /\ i + 1 # 1
    BY <1>1
  <2> QED
    BY <1>1, <1>3, <2>1 DEF Range, IsInjective
<1> QED
  BY <1>1, <1>2, <1>3

-----------------------------------------------------------------------------
(***************************************************************************)
(* What the steps of one consumer do to at and held: nothing changes for   *)
(* any other consumer.                                                     *)
(***************************************************************************)
AtType   == at \in [Server -> [Worker -> WorkerState]]
HeldType == held \in [Server -> [Worker -> Message \cup {NoMessage}]]

LEMMA GotoLemma ==
  ASSUME AtType, NEW s \in Server, NEW w \in Worker, NEW state \in WorkerState,
         Goto(s, w, state)
  PROVE  /\ AtType'
         /\ at'[s][w] = state
         /\ \A u \in Server, v \in Worker : u # s \/ v # w => at'[u][v] = at[u][v]
BY DEF AtType, Goto

\* The closure returns: this consumer waits or is off, no other one moves.
LEMMA ReturnLemma ==
  ASSUME AtType, HeldType, NEW s \in Server, NEW w \in Worker, Return(s, w)
  PROVE  /\ AtType' /\ HeldType'
         /\ at'[s][w] \in {"off", "idle"}
         /\ \A u \in Server, v \in Worker :
              u # s \/ v # w => at'[u][v] = at[u][v] /\ held'[u][v] = held[u][v]
<1>1. PICK state \in {"off", "idle"} : Goto(s, w, state)
  BY DEF Return
<1>2. state \in WorkerState
  BY DEF WorkerState
<1>3. held' = [held EXCEPT ![s][w] = NoMessage]
  BY DEF Return
<1>4. NoMessage \in Message \cup {NoMessage}
  OBVIOUS
<1>5. /\ AtType'
      /\ at'[s][w] = state
      /\ \A u \in Server, v \in Worker : u # s \/ v # w => at'[u][v] = at[u][v]
  BY <1>1, <1>2, GotoLemma
<1>6. /\ HeldType'
      /\ \A u \in Server, v \in Worker : u # s \/ v # w => held'[u][v] = held[u][v]
  BY <1>3 DEF HeldType
<1> QED
  BY <1>1, <1>5, <1>6

\* A process ends: all its consumers are off, those of others do not move.
LEMMA EndProcessLemma ==
  ASSUME AtType, HeldType, NEW s \in Server, NEW state, EndProcess(s, state)
  PROVE  /\ AtType' /\ HeldType'
         /\ \A w \in Worker : at'[s][w] = "off"
         /\ \A u \in Server, v \in Worker :
              u # s => at'[u][v] = at[u][v] /\ held'[u][v] = held[u][v]
<1>1. at' = [at EXCEPT ![s] = [w \in Worker |-> "off"]]
  BY DEF EndProcess
<1>2. held' = [held EXCEPT ![s] = [w \in Worker |-> NoMessage]]
  BY DEF EndProcess
<1>3. [w \in Worker |-> "off"] \in [Worker -> WorkerState]
  BY DEF WorkerState
<1>4. [w \in Worker |-> NoMessage] \in [Worker -> Message \cup {NoMessage}]
  OBVIOUS
<1>5. AtType'
  BY <1>1, <1>3 DEF AtType
<1>6. HeldType'
  BY <1>2, <1>4 DEF HeldType
<1>7. \A w \in Worker : at'[s][w] = "off"
  BY <1>1 DEF AtType
<1>8. \A u \in Server, v \in Worker :
              u # s => at'[u][v] = at[u][v] /\ held'[u][v] = held[u][v]
  BY <1>1, <1>2 DEF AtType, HeldType
<1> QED BY <1>5, <1>6, <1>7, <1>8

\* A consumer that is in the closure has a delivery.
HoldsDelivery ==
  \A s \in Server, w \in Worker :
    at[s][w] \in {"off", "idle"} \/ held[s][w] \in Message
ConsumersOK == AtType /\ HeldType /\ HoldsDelivery

\* A consumer goes on with its delivery, or starts to wait for one.
LEMMA StayLemma ==
  ASSUME ConsumersOK, NEW s \in Server, NEW w \in Worker,
         NEW state \in WorkerState, Goto(s, w, state), UNCHANGED held,
         state \in {"off", "idle"} \/ at[s][w] \notin {"off", "idle"}
  PROVE  ConsumersOK'
<1>1. /\ AtType'
      /\ at'[s][w] = state
      /\ \A u \in Server, v \in Worker : u # s \/ v # w => at'[u][v] = at[u][v]
  BY GotoLemma DEF ConsumersOK
<1>2. HeldType'
  BY DEF ConsumersOK, HeldType
<1>3. HoldsDelivery'
  BY <1>1 DEF ConsumersOK, HoldsDelivery
<1> QED
  BY <1>1, <1>2, <1>3 DEF ConsumersOK

\* A consumer returns from the closure and holds nothing any more.
LEMMA LeaveLemma ==
  ASSUME ConsumersOK, NEW s \in Server, NEW w \in Worker, Return(s, w)
  PROVE  ConsumersOK'
<1>1. /\ AtType' /\ HeldType'
      /\ at'[s][w] \in {"off", "idle"}
      /\ \A u \in Server, v \in Worker :
           u # s \/ v # w => at'[u][v] = at[u][v] /\ held'[u][v] = held[u][v]
  BY ReturnLemma DEF ConsumersOK
<1>2. HoldsDelivery'
  BY <1>1 DEF ConsumersOK, HoldsDelivery
<1> QED
  BY <1>1, <1>2 DEF ConsumersOK

-----------------------------------------------------------------------------
(***************************************************************************)
(* Type correctness.                                                       *)
(***************************************************************************)
RedisOK ==
  /\ ready \in Seq(Message)
  /\ unacked \in [Server -> SUBSET Message]
  /\ \A s \in Server : IsFiniteSet(unacked[s])
  /\ rejected \in [Message -> Nat]
ProcessOK ==
  /\ conn \in [Server -> ConnState]
  /\ cancelled \in [Server -> BOOLEAN]
  /\ batch \in [Server -> Nat]
  /\ chan \in [Server -> Seq(Message)]
HistoryOK ==
  /\ log \in Seq(Message)
  /\ handled \in Seq(Message)
  /\ succeeded \in SUBSET Message
  /\ acked \in SUBSET Message
  /\ resent \in [Message -> Nat]
  /\ stranded \in [Server -> SUBSET Message]
  /\ lost \in 0 .. MaxLost
TypeInv == RedisOK /\ ProcessOK /\ ConsumersOK /\ HistoryOK

\* The invariant holds when no process has started.
LEMMA TypeInit == Init => TypeInv
BY QueueAssumption, FS_EmptySet DEF Init, TypeInv, RedisOK, ProcessOK, ConsumersOK, HistoryOK, AtType, HeldType,
       HoldsDelivery, ConnState, WorkerState

\* Nothing but the consumers matters to ConsumersOK.
LEMMA ConsumersUnchanged ==
  ASSUME ConsumersOK, UNCHANGED <<at, held>>
  PROVE  ConsumersOK'
BY DEF ConsumersOK, AtType, HeldType, HoldsDelivery

\* A fetch moves the head of ready to unacked and leaves a batch of the type.
LEMMA FetchLemma ==
  ASSUME RedisOK, ProcessOK, NEW s \in Server, NEW rest, Fetch(s, rest),
         rest \in {Left(s), Left(s) - 1}
  PROVE  /\ Head(ready) \in Message
         /\ RedisOK'
         /\ batch' \in [Server -> Nat]
<1>1. Head(ready) \in Message /\ Tail(ready) \in Seq(Message)
  BY TailRange DEF Fetch, RedisOK
<1>2. IsFiniteSet(unacked[s] \cup {Head(ready)})
  BY FS_AddElement DEF RedisOK
<1>3. unacked' = [unacked EXCEPT ![s] = @ \cup {Head(ready)}]
  BY DEF Fetch
<1>4. RedisOK'
  <2>1. \A u \in Server : IsFiniteSet(unacked'[u])
    BY <1>2, <1>3 DEF RedisOK
  <2> QED
    BY <1>1, <1>3, <2>1 DEF Fetch, RedisOK
<1>5. Left(s) \in Nat \ {0}
  <2>1. Cardinality(unacked[s]) \in Nat /\ PrefetchLimit \in Nat
    BY FS_CardinalityType, QueueAssumption DEF RedisOK
  <2>2. Free(unacked[s]) \in Int
    BY <2>1 DEF Free
  <2>3. Left(s) \in Int /\ Left(s) > 0
    BY <2>2 DEF Left, Fetch, ProcessOK
  <2> QED
    BY <2>3
<1>6. rest \in Nat
  BY <1>5
<1>7. PICK n \in Nat : batch' = [batch EXCEPT ![s] = n]
  BY <1>6 DEF Fetch
<1> QED
  BY <1>1, <1>4, <1>7 DEF ProcessOK

\* Every step keeps the types, and every consumer in the closure its delivery.
LEMMA TypeNext == TypeInv /\ [Next]_vars => TypeInv'
<1> SUFFICES ASSUME TypeInv, [Next]_vars
             PROVE  TypeInv'
  OBVIOUS
<1>0. RedisOK /\ ProcessOK /\ ConsumersOK /\ HistoryOK
  BY DEF TypeInv
<1> USE DEF redisVars, processVars, historyVars, faultVars
<1>1. ASSUME NEW m \in Message, Add(m)
      PROVE  TypeInv'
  <2>1. Append(ready, m) \in Seq(Message) /\ Append(log, m) \in Seq(Message)
    BY <1>0, AppendRange DEF RedisOK, HistoryOK
  <2>2. RedisOK' /\ HistoryOK' /\ ProcessOK' /\ UNCHANGED <<at, held>>
    BY <1>0, <1>1, <2>1 DEF Add, RedisOK, HistoryOK, ProcessOK
  <2> QED
    BY <1>0, <2>2, ConsumersUnchanged DEF TypeInv
<1>2. ASSUME NEW s \in Server,
             Run(s) \/ Cancel(s) \/ StopConsuming(s) \/ HeartbeatLost(s)
      PROVE  TypeInv'
  <2>1. RedisOK' /\ HistoryOK' /\ UNCHANGED <<at, held, chan>>
    BY <1>0, <1>2
       DEF Run, Cancel, StopConsuming, HeartbeatLost, RedisOK, HistoryOK
  <2>2. ProcessOK'
    BY <1>0, <1>2
       DEF Run, Cancel, StopConsuming, HeartbeatLost, ProcessOK, ConnState
  <2> QED
    BY <1>0, <2>1, <2>2, ConsumersUnchanged DEF TypeInv
<1>3. ASSUME NEW s \in Server, Prefetch(s)
      PROVE  TypeInv'
  <2>1. Head(ready) \in Message /\ RedisOK' /\ batch' \in [Server -> Nat]
    BY <1>0, <1>3, FetchLemma DEF Prefetch
  <2>2. Append(chan[s], Head(ready)) \in Seq(Message)
    BY <1>0, <2>1, AppendRange DEF ProcessOK
  <2>3. ProcessOK'
    BY <1>0, <1>3, <2>1, <2>2 DEF Prefetch, Fetch, ProcessOK
  <2>4. HistoryOK' /\ UNCHANGED <<at, held>>
    BY <1>0, <1>3 DEF Prefetch, Fetch, HistoryOK
  <2> QED
    BY <1>0, <2>1, <2>3, <2>4, ConsumersUnchanged DEF TypeInv
<1>3a. ASSUME NEW s \in Server, PrefetchLost(s)
       PROVE  TypeInv'
  <2>1. Head(ready) \in Message /\ RedisOK' /\ batch' \in [Server -> Nat]
    BY <1>0, <1>3a, FetchLemma DEF PrefetchLost
  <2>2. ProcessOK' /\ UNCHANGED <<at, held>>
    BY <1>0, <1>3a, <2>1 DEF PrefetchLost, Fetch, ProcessOK
  <2>3. stranded' \in [Server -> SUBSET Message] /\ lost' \in 0 .. MaxLost
    BY <1>0, <1>3a, <2>1, QueueAssumption DEF PrefetchLost, HistoryOK
  <2>4. HistoryOK'
    BY <1>0, <1>3a, <2>3 DEF PrefetchLost, HistoryOK
  <2> QED
    BY <1>0, <2>1, <2>2, <2>4, ConsumersUnchanged DEF TypeInv
<1>3b. ASSUME NEW s \in Server, BatchEnds(s)
       PROVE  TypeInv'
  <2>1. RedisOK' /\ HistoryOK' /\ ProcessOK' /\ UNCHANGED <<at, held>>
    BY <1>0, <1>3b DEF BatchEnds, RedisOK, HistoryOK, ProcessOK
  <2> QED
    BY <1>0, <2>1, ConsumersUnchanged DEF TypeInv
<1>4. ASSUME NEW s \in Server, Stopped(s) \/ Crash(s)
      PROVE  TypeInv'
  <2>1. PICK state \in ConnState : EndProcess(s, state)
    BY <1>4 DEF Stopped, Crash, ConnState
  <2>2. /\ AtType' /\ HeldType'
        /\ \A w \in Worker : at'[s][w] = "off"
        /\ \A u \in Server, v \in Worker :
             u # s => at'[u][v] = at[u][v] /\ held'[u][v] = held[u][v]
    BY <1>0, <2>1, EndProcessLemma DEF ConsumersOK
  <2>3. ConsumersOK'
    BY <1>0, <2>2 DEF ConsumersOK, HoldsDelivery
  <2>4. RedisOK' /\ HistoryOK' /\ ProcessOK'
    BY <1>0, <2>1 DEF EndProcess, RedisOK, HistoryOK, ProcessOK
  <2> QED
    BY <2>3, <2>4 DEF TypeInv
<1>5. ASSUME NEW s \in Server, NEW w \in Worker, Consume(s, w)
      PROVE  TypeInv'
  <2>1. RedisOK' /\ HistoryOK' /\ ProcessOK' /\ UNCHANGED held
    BY <1>0, <1>5 DEF Consume, RedisOK, HistoryOK, ProcessOK
  <2>2. Goto(s, w, "idle") /\ "idle" \in WorkerState
    BY <1>5 DEF Consume, WorkerState
  <2>3. ConsumersOK'
    BY <1>0, <2>1, <2>2, StayLemma
  <2> QED
    BY <2>1, <2>3 DEF TypeInv
<1>6. ASSUME NEW s \in Server, NEW w \in Worker, Take(s, w)
      PROVE  TypeInv'
  <2>1. Head(chan[s]) \in Message /\ Tail(chan[s]) \in Seq(Message)
    BY <1>0, <1>6, TailRange DEF Take, ProcessOK
  <2>2. RedisOK' /\ HistoryOK' /\ ProcessOK'
    BY <1>0, <1>6, <2>1 DEF Take, RedisOK, HistoryOK, ProcessOK
  <2>3. Goto(s, w, "select") /\ "select" \in WorkerState
    BY <1>6 DEF Take, WorkerState
  <2>4. /\ AtType'
        /\ \A u \in Server, v \in Worker : u # s \/ v # w => at'[u][v] = at[u][v]
    BY <1>0, <2>3, GotoLemma DEF ConsumersOK
  <2>5. HeldType' /\ held'[s][w] = Head(chan[s])
    BY <1>0, <1>6, <2>1 DEF Take, ConsumersOK, HeldType
  <2>6. \A u \in Server, v \in Worker : u # s \/ v # w => held'[u][v] = held[u][v]
    BY <1>0, <1>6 DEF Take, ConsumersOK, HeldType
  <2>7. HoldsDelivery'
    BY <1>0, <2>1, <2>4, <2>5, <2>6 DEF ConsumersOK, HoldsDelivery
  <2> QED
    BY <2>2, <2>4, <2>5, <2>7 DEF TypeInv, ConsumersOK
<1>7. ASSUME NEW s \in Server, NEW w \in Worker, Select(s, w) \/ DecodeFails(s, w)
      PROVE  TypeInv'
  <2>1. PICK state \in WorkerState : Goto(s, w, state)
    BY <1>7 DEF Select, DecodeFails, WorkerState
  <2>2. UNCHANGED held /\ at[s][w] \notin {"off", "idle"}
    BY <1>7 DEF Select, DecodeFails
  <2>3. ConsumersOK'
    BY <1>0, <2>1, <2>2, StayLemma
  <2>4. RedisOK' /\ HistoryOK' /\ ProcessOK'
    BY <1>0, <1>7 DEF Select, DecodeFails, RedisOK, HistoryOK, ProcessOK
  <2> QED
    BY <2>3, <2>4 DEF TypeInv
<1>8. ASSUME NEW s \in Server, NEW w \in Worker, RejectPush(s, w)
      PROVE  TypeInv'
  <2>1. PICK state \in WorkerState : Goto(s, w, state)
    BY <1>8 DEF RejectPush, WorkerState
  <2>2. UNCHANGED held /\ at[s][w] \notin {"off", "idle"}
    BY <1>8 DEF RejectPush
  <2>3. ConsumersOK'
    BY <1>0, <2>1, <2>2, StayLemma
  <2>4. /\ rejected' = [rejected EXCEPT ![held[s][w]] = @ + 1]
        /\ rejected \in [Message -> Nat]
        /\ held[s][w] \in Message
    BY <1>0, <1>8, <2>2 DEF RejectPush, RedisOK, ConsumersOK, HoldsDelivery
  <2>5. rejected' \in [Message -> Nat]
    BY <2>4
  <2>6. RedisOK' /\ HistoryOK' /\ ProcessOK'
    BY <1>0, <1>8, <2>5 DEF RejectPush, RedisOK, HistoryOK, ProcessOK
  <2> QED
    BY <2>3, <2>6 DEF TypeInv
<1>8a. ASSUME NEW s \in Server, NEW w \in Worker, RejectPushLost(s, w)
       PROVE  TypeInv'
  <2>1. held[s][w] \in Message /\ UNCHANGED <<at, held>>
    BY <1>0, <1>8a DEF RejectPushLost, ConsumersOK, HoldsDelivery
  <2>2. rejected' \in [Message -> Nat] /\ resent' \in [Message -> Nat] /\ lost' \in 0 .. MaxLost
    BY <1>0, <1>8a, <2>1, QueueAssumption DEF RejectPushLost, RedisOK, HistoryOK
  <2>3. RedisOK' /\ HistoryOK' /\ ProcessOK'
    BY <1>0, <1>8a, <2>2 DEF RejectPushLost, RedisOK, HistoryOK, ProcessOK
  <2> QED
    BY <1>0, <2>1, <2>3, ConsumersUnchanged DEF TypeInv
<1>9. ASSUME NEW s \in Server, NEW w \in Worker,
             RejectRemove(s, w) \/ Ack(s, w) \/ GiveUp(s, w)
      PROVE  TypeInv'
  <2>0. \A u \in Server : unacked'[u] \subseteq unacked[u] /\ IsFiniteSet(unacked'[u])
    <3>1. \A u \in Server : unacked'[u] \subseteq unacked[u]
      BY <1>0, <1>9 DEF RejectRemove, Ack, GiveUp, RedisOK
    <3> QED
      BY <1>0, <3>1, FS_Subset DEF RedisOK
  <2>1. RedisOK' /\ HistoryOK' /\ ProcessOK'
    BY <1>0, <1>9, <2>0 DEF RejectRemove, Ack, GiveUp, RedisOK, HistoryOK, ProcessOK
  <2>2. CASE Return(s, w)
    BY <1>0, <2>1, <2>2, LeaveLemma DEF TypeInv
  <2>3. CASE Goto(s, w, "decode") /\ UNCHANGED held /\ at[s][w] \notin {"off", "idle"}
    <3>1. "decode" \in WorkerState
      BY DEF WorkerState
    <3>2. ConsumersOK'
      BY <1>0, <2>3, <3>1, StayLemma
    <3> QED
      BY <2>1, <3>2 DEF TypeInv
  <2> QED
    BY <1>9, <2>2, <2>3 DEF RejectRemove, Ack, GiveUp
<1>10. ASSUME NEW s \in Server, NEW w \in Worker, CallHandler(s, w)
       PROVE  TypeInv'
  <2>1. held[s][w] \in Message
    BY <1>0, <1>10 DEF CallHandler, ConsumersOK, HoldsDelivery
  <2>2. Append(handled, held[s][w]) \in Seq(Message)
    BY <1>0, <2>1, AppendRange DEF HistoryOK
  <2>3. RedisOK' /\ HistoryOK' /\ ProcessOK' /\ UNCHANGED held
    BY <1>0, <1>10, <2>2 DEF CallHandler, RedisOK, HistoryOK, ProcessOK
  <2>4. Goto(s, w, "handling") /\ at[s][w] \notin {"off", "idle"}
    BY <1>10 DEF CallHandler
  <2>5. "handling" \in WorkerState
    BY DEF WorkerState
  <2>6. ConsumersOK'
    BY <1>0, <2>3, <2>4, <2>5, StayLemma
  <2> QED
    BY <2>3, <2>6 DEF TypeInv
<1>11. ASSUME NEW s \in Server, NEW w \in Worker, NEW ok \in BOOLEAN,
              HandlerReturns(s, w, ok)
       PROVE  TypeInv'
  <2>1. held[s][w] \in Message
    BY <1>0, <1>11 DEF HandlerReturns, ConsumersOK, HoldsDelivery
  <2>2. RedisOK' /\ HistoryOK' /\ ProcessOK' /\ UNCHANGED held
    BY <1>0, <1>11, <2>1 DEF HandlerReturns, RedisOK, HistoryOK, ProcessOK
  <2>3. PICK state \in WorkerState : Goto(s, w, state)
    BY <1>11 DEF HandlerReturns, WorkerState
  <2>4. at[s][w] \notin {"off", "idle"}
    BY <1>11 DEF HandlerReturns
  <2>5. ConsumersOK'
    BY <1>0, <2>2, <2>3, <2>4, StayLemma
  <2> QED
    BY <2>2, <2>5 DEF TypeInv
<1>12. CASE UNCHANGED vars
  <2>1. RedisOK' /\ HistoryOK' /\ ProcessOK' /\ UNCHANGED <<at, held>>
    BY <1>0, <1>12 DEF vars, RedisOK, HistoryOK, ProcessOK
  <2> QED
    BY <1>0, <2>1, ConsumersUnchanged DEF TypeInv
<1> QED
  BY <1>1, <1>2, <1>3, <1>3a, <1>3b, <1>4, <1>5, <1>6, <1>7, <1>8, <1>8a, <1>9, <1>10, <1>11,
     <1>12
     DEF Next, ServerStep, WorkerStep

\* Every variable of the queue keeps its type.
THEOREM TypeCorrect == Spec => []TypeOK
<1>1. TypeInv => TypeOK
  BY DEF TypeInv, TypeOK, RedisOK, ProcessOK, ConsumersOK, HistoryOK, AtType, HeldType
<1> QED
  BY <1>1, TypeInit, TypeNext, PTL DEF Spec

-----------------------------------------------------------------------------
(***************************************************************************)
(* At most one call of the handler.  A message whose handler was not       *)
(* called is in one place only: in ready, in one channel, or with one      *)
(* consumer that has not called the handler yet.  The copies that unacked  *)
(* and rejected keep do not count, because nothing takes them from there.  *)
(***************************************************************************)
Before(s, w) == at[s][w] \in {"select", "shedPush", "shedRemove", "decode"}

ReadyOnce ==
  /\ IsInjective(ready)
  /\ \A s \in Server : Range(ready) \cap Range(chan[s]) = {}
  /\ Range(ready) \cap Range(handled) = {}
  /\ Range(ready) \subseteq Range(log)
ChanOnce ==
  /\ \A s \in Server : IsInjective(chan[s])
  /\ \A s, u \in Server : s # u => Range(chan[s]) \cap Range(chan[u]) = {}
  /\ \A s \in Server : Range(chan[s]) \cap Range(handled) = {}
  /\ \A s \in Server : Range(chan[s]) \subseteq Range(log)
HeldOnce ==
  /\ \A s, u \in Server, w \in Worker :
       Before(s, w) => held[s][w] \notin Range(ready) \cup Range(chan[u])
  /\ \A s \in Server, w \in Worker :
       Before(s, w) => held[s][w] \in Range(log) \ Range(handled)
  /\ \A s, u \in Server, w, v \in Worker :
       Before(s, w) /\ Before(u, v) /\ (s # u \/ w # v) => held[s][w] # held[u][v]
HandledOnce ==
  /\ IsInjective(handled)
  /\ Range(handled) \subseteq Range(log)
OnceInv == ReadyOnce /\ ChanOnce /\ HeldOnce /\ HandledOnce

\* Nothing was added and nobody holds a message.
LEMMA OnceInit == Init => OnceInv
<1> SUFFICES ASSUME Init
             PROVE  OnceInv
  OBVIOUS
<1>1. /\ Range(<<>>) = {}
      /\ IsInjective(<<>>)
  BY DEF Range, IsInjective
<1>2. \A s \in Server, w \in Worker : ~Before(s, w)
  BY DEF Init, Before
<1> QED
  BY <1>1, <1>2 DEF Init, OnceInv, ReadyOnce, ChanOnce, HeldOnce, HandledOnce

\* The steps that move no message from its place, or only settle it.
LEMMA OnceKept ==
  ASSUME OnceInv, UNCHANGED <<ready, chan, handled, log>>,
         \A s \in Server, w \in Worker :
           Before(s, w)' => Before(s, w) /\ held'[s][w] = held[s][w]
  PROVE  OnceInv'
<1>1. ReadyOnce'
  BY DEF OnceInv, ReadyOnce
<1>2. ChanOnce'
  BY DEF OnceInv, ChanOnce
<1>3. HeldOnce'
  BY DEF OnceInv, HeldOnce
<1>4. HandledOnce'
  BY DEF OnceInv, HandledOnce
<1> QED
  BY <1>1, <1>2, <1>3, <1>4 DEF OnceInv

\* Add puts a message that is nowhere yet into ready only.
LEMMA AddOnce ==
  ASSUME TypeInv, OnceInv, NEW m \in Message, Add(m)
  PROVE  OnceInv'
<1>1. /\ Range(ready') = Range(ready) \cup {m}
      /\ Range(log') = Range(log) \cup {m}
      /\ IsInjective(ready) /\ m \notin Range(ready) => IsInjective(ready')
  BY AppendRange DEF Add, TypeInv, RedisOK, HistoryOK
<1>2. m \notin Range(log) /\ UNCHANGED <<chan, handled, at, held>>
  BY DEF Add, Published, processVars
<1>3. /\ m \notin Range(ready)
      /\ m \notin Range(handled)
      /\ \A s \in Server : m \notin Range(chan[s])
      /\ \A s \in Server, w \in Worker : Before(s, w) => held[s][w] # m
  BY <1>2 DEF OnceInv, ReadyOnce, ChanOnce, HeldOnce, HandledOnce
<1>4. ReadyOnce'
  BY <1>1, <1>2, <1>3 DEF OnceInv, ReadyOnce
<1>5. ChanOnce'
  BY <1>1, <1>2 DEF OnceInv, ChanOnce
<1>6. \A s \in Server, w \in Worker : Before(s, w)' = Before(s, w)
  BY <1>2 DEF Before
<1>7. HeldOnce'
  BY <1>1, <1>2, <1>3, <1>6 DEF OnceInv, HeldOnce
<1>8. HandledOnce'
  BY <1>1, <1>2 DEF OnceInv, HandledOnce
<1> QED
  BY <1>4, <1>5, <1>7, <1>8 DEF OnceInv

\* The head of ready moves to one channel and is in ready no more.
LEMMA PrefetchOnce ==
  ASSUME TypeInv, OnceInv, NEW s \in Server, Prefetch(s)
  PROVE  OnceInv'
<1> DEFINE m == Head(ready)
<1>1. /\ m \in Message /\ m \in Range(ready)
      /\ ready' = Tail(ready)
      /\ Range(ready) = Range(ready') \cup {m}
      /\ IsInjective(ready') /\ m \notin Range(ready')
  BY TailRange DEF Prefetch, Fetch, TypeInv, RedisOK, OnceInv, ReadyOnce
<1>2. /\ chan \in [Server -> Seq(Message)]
      /\ chan' = [chan EXCEPT ![s] = Append(@, m)]
      /\ UNCHANGED <<handled, log, at, held>>
  BY DEF Prefetch, Fetch, TypeInv, ProcessOK, historyVars
<1> HIDE DEF m
<1>3. /\ chan'[s] = Append(chan[s], m)
      /\ chan[s] \in Seq(Message)
      /\ \A u \in Server : u # s => chan'[u] = chan[u]
  BY <1>2
<1>4. /\ Range(chan'[s]) = Range(chan[s]) \cup {m}
      /\ IsInjective(chan[s]) /\ m \notin Range(chan[s]) => IsInjective(chan'[s])
  BY <1>1, <1>3, AppendRange
<1>5. /\ m \in Range(log) /\ m \notin Range(handled)
      /\ \A u \in Server : m \notin Range(chan[u])
      /\ \A u \in Server, w \in Worker : Before(u, w) => held[u][w] # m
  BY <1>1 DEF OnceInv, ReadyOnce, HeldOnce
<1>6. ReadyOnce'
  <2>1. \A u \in Server : Range(ready') \cap Range(chan'[u]) = {}
    BY <1>1, <1>3, <1>4 DEF OnceInv, ReadyOnce
  <2> QED
    BY <1>1, <1>2, <2>1 DEF OnceInv, ReadyOnce
<1>7. ChanOnce'
  <2>1. \A u \in Server : IsInjective(chan'[u])
    BY <1>3, <1>4, <1>5 DEF OnceInv, ChanOnce
  <2>2. ASSUME NEW u \in Server, NEW v \in Server, u # v
        PROVE  Range(chan'[u]) \cap Range(chan'[v]) = {}
    <3>1. Range(chan[u]) \cap Range(chan[v]) = {}
      BY <2>2 DEF OnceInv, ChanOnce
    <3>2. CASE u = s
      BY <1>3, <1>4, <1>5, <2>2, <3>1, <3>2
    <3>3. CASE v = s
      BY <1>3, <1>4, <1>5, <2>2, <3>1, <3>3
    <3>4. CASE u # s /\ v # s
      BY <1>3, <3>1, <3>4
    <3> QED
      BY <3>2, <3>3, <3>4
  <2>3. \A u \in Server : /\ Range(chan'[u]) \cap Range(handled') = {}
                          /\ Range(chan'[u]) \subseteq Range(log')
    BY <1>2, <1>3, <1>4, <1>5 DEF OnceInv, ChanOnce
  <2> QED
    BY <2>1, <2>2, <2>3 DEF ChanOnce
<1>8. \A u \in Server, w \in Worker : Before(u, w)' = Before(u, w)
  BY <1>2 DEF Before
<1>9. HeldOnce'
  <2>1. ASSUME NEW u \in Server, NEW v \in Server, NEW w \in Worker, Before(u, w)
        PROVE  held[u][w] \notin Range(ready') \cup Range(chan'[v])
    BY <1>1, <1>3, <1>4, <1>5, <2>1 DEF OnceInv, HeldOnce
  <2> QED
    BY <1>2, <1>8, <2>1 DEF OnceInv, HeldOnce
<1>10. HandledOnce'
  BY <1>2 DEF OnceInv, HandledOnce
<1> QED
  BY <1>6, <1>7, <1>9, <1>10 DEF OnceInv

\* The head of ready is stranded: it is nowhere any more.
LEMMA PrefetchLostOnce ==
  ASSUME TypeInv, OnceInv, NEW s \in Server, PrefetchLost(s)
  PROVE  OnceInv'
<1>1. /\ Range(ready') \subseteq Range(ready)
      /\ IsInjective(ready')
      /\ UNCHANGED <<chan, handled, log, at, held>>
  BY TailRange DEF PrefetchLost, Fetch, TypeInv, RedisOK, OnceInv, ReadyOnce
<1>2. \A u \in Server, w \in Worker : Before(u, w)' = Before(u, w)
  BY <1>1 DEF Before
<1>3. ReadyOnce'
  BY <1>1 DEF OnceInv, ReadyOnce
<1>4. ChanOnce'
  BY <1>1 DEF OnceInv, ChanOnce
<1>5. HeldOnce'
  BY <1>1, <1>2 DEF OnceInv, HeldOnce
<1>6. HandledOnce'
  BY <1>1 DEF OnceInv, HandledOnce
<1> QED
  BY <1>3, <1>4, <1>5, <1>6 DEF OnceInv

\* A consumer takes the next delivery of its process's channel.
LEMMA TakeOnce ==
  ASSUME TypeInv, OnceInv, NEW s \in Server, NEW w \in Worker, Take(s, w)
  PROVE  OnceInv'
<1> DEFINE m == Head(chan[s])
<1>1. /\ chan \in [Server -> Seq(Message)]
      /\ chan[s] \in Seq(Message) /\ chan[s] # <<>>
      /\ chan' = [chan EXCEPT ![s] = Tail(@)]
      /\ UNCHANGED <<ready, handled, log>>
  BY DEF Take, TypeInv, ProcessOK, redisVars, historyVars
<1>2. /\ m \in Message /\ m \in Range(chan[s])
      /\ Range(chan[s]) = Range(Tail(chan[s])) \cup {m}
      /\ IsInjective(chan[s])
      /\ IsInjective(Tail(chan[s])) /\ m \notin Range(Tail(chan[s]))
  BY <1>1, TailRange DEF OnceInv, ChanOnce
<1>3. /\ chan'[s] = Tail(chan[s])
      /\ \A u \in Server : u # s => chan'[u] = chan[u]
  BY <1>1
<1>4. \A u \in Server : Range(chan'[u]) \subseteq Range(chan[u])
  BY <1>2, <1>3
<1>5. Goto(s, w, "select") /\ "select" \in WorkerState /\ AtType /\ HeldType
  BY DEF Take, WorkerState, TypeInv, ConsumersOK
<1>6. /\ at'[s][w] = "select"
      /\ \A u \in Server, v \in Worker : u # s \/ v # w => at'[u][v] = at[u][v]
  BY <1>5, GotoLemma
<1>7. /\ held'[s][w] = m
      /\ \A u \in Server, v \in Worker : u # s \/ v # w => held'[u][v] = held[u][v]
  BY <1>2, <1>5 DEF Take, HeldType
<1> HIDE DEF m
<1>8. \A u \in Server, v \in Worker : u # s \/ v # w => Before(u, v)' = Before(u, v)
  BY <1>6 DEF Before
<1>9. /\ m \in Range(log) /\ m \notin Range(handled) /\ m \notin Range(ready)
      /\ \A u \in Server : m \notin Range(chan'[u])
      /\ \A u \in Server, v \in Worker : Before(u, v) => held[u][v] # m
  <2>1. m \in Range(log) /\ m \notin Range(handled) /\ m \notin Range(ready)
    BY <1>2 DEF OnceInv, ChanOnce, ReadyOnce
  <2>2. \A u \in Server, v \in Worker : Before(u, v) => held[u][v] # m
    BY <1>2 DEF OnceInv, HeldOnce
  <2>3. ASSUME NEW u \in Server
        PROVE  m \notin Range(chan'[u])
    BY <1>2, <1>3 DEF OnceInv, ChanOnce
  <2> QED
    BY <2>1, <2>2, <2>3
<1>10. ReadyOnce'
  BY <1>1, <1>4 DEF OnceInv, ReadyOnce
<1>11. ChanOnce'
  <2>1. \A u \in Server : IsInjective(chan'[u])
    BY <1>2, <1>3 DEF OnceInv, ChanOnce
  <2>2. ASSUME NEW u \in Server, NEW v \in Server, u # v
        PROVE  Range(chan'[u]) \cap Range(chan'[v]) = {}
    BY <1>4, <2>2 DEF OnceInv, ChanOnce
  <2>3. \A u \in Server : /\ Range(chan'[u]) \cap Range(handled') = {}
                          /\ Range(chan'[u]) \subseteq Range(log')
    BY <1>1, <1>4 DEF OnceInv, ChanOnce
  <2> QED
    BY <2>1, <2>2, <2>3 DEF ChanOnce
<1>12. HeldOnce'
  <2>1. ASSUME NEW u \in Server, NEW t \in Server, NEW v \in Worker, Before(u, v)'
        PROVE  /\ held'[u][v] \notin Range(ready') \cup Range(chan'[t])
               /\ held'[u][v] \in Range(log') \ Range(handled')
    <3>1. CASE u = s /\ v = w
      BY <1>1, <1>7, <1>9, <3>1
    <3>2. CASE u # s \/ v # w
      BY <1>1, <1>4, <1>7, <1>8, <2>1, <3>2 DEF OnceInv, HeldOnce
    <3> QED
      BY <3>1, <3>2
  <2>2. ASSUME NEW u \in Server, NEW t \in Server, NEW v \in Worker, NEW x \in Worker,
               Before(u, v)', Before(t, x)', u # t \/ v # x
        PROVE  held'[u][v] # held'[t][x]
    <3>1. CASE u = s /\ v = w
      BY <1>7, <1>8, <1>9, <2>2, <3>1
    <3>2. CASE t = s /\ x = w
      BY <1>7, <1>8, <1>9, <2>2, <3>2
    <3>3. CASE (u # s \/ v # w) /\ (t # s \/ x # w)
      BY <1>7, <1>8, <2>2, <3>3 DEF OnceInv, HeldOnce
    <3> QED
      BY <3>1, <3>2, <3>3
  <2> QED
    BY <2>1, <2>2 DEF HeldOnce
<1>13. HandledOnce'
  BY <1>1 DEF OnceInv, HandledOnce
<1> QED
  BY <1>10, <1>11, <1>12, <1>13 DEF OnceInv

\* A process ends: what it fetched is in no channel and with no consumer.
LEMMA EndProcessOnce ==
  ASSUME TypeInv, OnceInv, NEW s \in Server, NEW state, EndProcess(s, state)
  PROVE  OnceInv'
<1>1. /\ chan \in [Server -> Seq(Message)]
      /\ chan' = [chan EXCEPT ![s] = <<>>]
      /\ UNCHANGED <<ready, handled, log>>
      /\ AtType /\ HeldType
  BY DEF EndProcess, TypeInv, ProcessOK, ConsumersOK, redisVars, historyVars
<1>2. /\ chan'[s] = <<>>
      /\ \A u \in Server : u # s => chan'[u] = chan[u]
  BY <1>1
<1>3. Range(<<>>) = {} /\ IsInjective(<<>>)
  BY DEF Range, IsInjective
<1>4. \A u \in Server : Range(chan'[u]) \subseteq Range(chan[u]) /\ (IsInjective(chan'[u]))
  BY <1>2, <1>3 DEF OnceInv, ChanOnce
<1>5. /\ \A w \in Worker : at'[s][w] = "off"
      /\ \A u \in Server, v \in Worker :
           u # s => at'[u][v] = at[u][v] /\ held'[u][v] = held[u][v]
  BY <1>1, EndProcessLemma
<1>6. \A u \in Server, v \in Worker :
        Before(u, v)' => Before(u, v) /\ held'[u][v] = held[u][v]
  BY <1>5 DEF Before
<1>7. ReadyOnce'
  BY <1>1, <1>4 DEF OnceInv, ReadyOnce
<1>8. ChanOnce'
  <2>1. ASSUME NEW u \in Server, NEW v \in Server, u # v
        PROVE  Range(chan'[u]) \cap Range(chan'[v]) = {}
    BY <1>4, <2>1 DEF OnceInv, ChanOnce
  <2>2. \A u \in Server : /\ Range(chan'[u]) \cap Range(handled') = {}
                          /\ Range(chan'[u]) \subseteq Range(log')
    BY <1>1, <1>4 DEF OnceInv, ChanOnce
  <2> QED
    BY <1>4, <2>1, <2>2 DEF ChanOnce
<1>9. HeldOnce'
  <2>1. ASSUME NEW u \in Server, NEW t \in Server, NEW v \in Worker, Before(u, v)'
        PROVE  /\ held'[u][v] \notin Range(ready') \cup Range(chan'[t])
               /\ held'[u][v] \in Range(log') \ Range(handled')
    BY <1>1, <1>4, <1>6, <2>1 DEF OnceInv, HeldOnce
  <2>2. ASSUME NEW u \in Server, NEW t \in Server, NEW v \in Worker, NEW x \in Worker,
               Before(u, v)', Before(t, x)', u # t \/ v # x
        PROVE  held'[u][v] # held'[t][x]
    BY <1>6, <2>2 DEF OnceInv, HeldOnce
  <2> QED
    BY <2>1, <2>2 DEF HeldOnce
<1>10. HandledOnce'
  BY <1>1 DEF OnceInv, HandledOnce
<1> QED
  BY <1>7, <1>8, <1>9, <1>10 DEF OnceInv

\* The handler is called with a message that was with this consumer only.
LEMMA CallHandlerOnce ==
  ASSUME TypeInv, OnceInv, NEW s \in Server, NEW w \in Worker, CallHandler(s, w)
  PROVE  OnceInv'
<1> DEFINE m == held[s][w]
<1>1. /\ at[s][w] = "decode"
      /\ handled' = Append(handled, m)
      /\ handled \in Seq(Message)
      /\ m \in Message
      /\ UNCHANGED <<ready, chan, log, held>>
  BY DEF CallHandler, TypeInv, HistoryOK, ConsumersOK, HoldsDelivery, redisVars
<1>2. Goto(s, w, "handling") /\ "handling" \in WorkerState /\ AtType
  BY DEF CallHandler, WorkerState, TypeInv, ConsumersOK
<1>3. /\ at'[s][w] = "handling"
      /\ \A u \in Server, v \in Worker : u # s \/ v # w => at'[u][v] = at[u][v]
  BY <1>2, GotoLemma
<1>4. /\ Before(s, w) /\ ~Before(s, w)'
      /\ \A u \in Server, v \in Worker : u # s \/ v # w => Before(u, v)' = Before(u, v)
  BY <1>1, <1>3 DEF Before
<1>5. /\ m \in Range(log) /\ m \notin Range(handled) /\ m \notin Range(ready)
      /\ \A u \in Server : m \notin Range(chan[u])
      /\ \A u \in Server, v \in Worker :
           Before(u, v) /\ (u # s \/ v # w) => held[u][v] # m
  BY <1>4 DEF OnceInv, HeldOnce
<1> HIDE DEF m
<1>6. /\ Range(handled') = Range(handled) \cup {m}
      /\ IsInjective(handled')
  BY <1>1, <1>5, AppendRange DEF OnceInv, HandledOnce
<1>7. ReadyOnce'
  BY <1>1, <1>5, <1>6 DEF OnceInv, ReadyOnce
<1>8. ChanOnce'
  BY <1>1, <1>5, <1>6 DEF OnceInv, ChanOnce
<1>9. HeldOnce'
  <2>1. ASSUME NEW u \in Server, NEW v \in Worker, Before(u, v)'
        PROVE  /\ Before(u, v) /\ held[u][v] # m
    BY <1>4, <1>5, <2>1
  <2> QED
    BY <1>1, <1>6, <2>1 DEF OnceInv, HeldOnce
<1>10. HandledOnce'
  BY <1>1, <1>5, <1>6 DEF OnceInv, HandledOnce
<1> QED
  BY <1>7, <1>8, <1>9, <1>10 DEF OnceInv

\* A consumer moves on with its delivery, and not back to before the handler.
LEMMA GotoOnce ==
  ASSUME TypeInv, OnceInv, UNCHANGED <<ready, chan, handled, log, held>>,
         NEW s \in Server, NEW w \in Worker, NEW state \in WorkerState,
         Goto(s, w, state),
         state \in {"select", "shedPush", "shedRemove", "decode"} => Before(s, w)
  PROVE  OnceInv'
<1>1. /\ at'[s][w] = state
      /\ \A u \in Server, v \in Worker : u # s \/ v # w => at'[u][v] = at[u][v]
  BY GotoLemma DEF TypeInv, ConsumersOK
<1>2. \A u \in Server, v \in Worker : Before(u, v)' => Before(u, v)
  BY <1>1 DEF Before
<1> QED
  BY <1>2, OnceKept

\* A consumer lets go of its delivery.
LEMMA ReturnOnce ==
  ASSUME TypeInv, OnceInv, UNCHANGED <<ready, chan, handled, log>>,
         NEW s \in Server, NEW w \in Worker, Return(s, w)
  PROVE  OnceInv'
<1>1. /\ at'[s][w] \in {"off", "idle"}
      /\ \A u \in Server, v \in Worker :
           u # s \/ v # w => at'[u][v] = at[u][v] /\ held'[u][v] = held[u][v]
  BY ReturnLemma DEF TypeInv, ConsumersOK
<1>2. \A u \in Server, v \in Worker :
        Before(u, v)' => Before(u, v) /\ held'[u][v] = held[u][v]
  BY <1>1 DEF Before
<1> QED
  BY <1>2, OnceKept

\* Every step of the queue keeps a message in one place.
LEMMA OnceNext == TypeInv /\ OnceInv /\ [Next]_vars => OnceInv'
<1> SUFFICES ASSUME TypeInv, OnceInv, [Next]_vars
             PROVE  OnceInv'
  OBVIOUS
<1> USE DEF redisVars, processVars, historyVars, faultVars
<1>1. ASSUME NEW m \in Message, Add(m)
      PROVE  OnceInv'
  BY <1>1, AddOnce
<1>2. ASSUME NEW s \in Server, Prefetch(s)
      PROVE  OnceInv'
  BY <1>2, PrefetchOnce
<1>2a. ASSUME NEW s \in Server, PrefetchLost(s)
       PROVE  OnceInv'
  BY <1>2a, PrefetchLostOnce
<1>3. ASSUME NEW s \in Server,
             \/ Run(s) \/ Cancel(s) \/ StopConsuming(s) \/ HeartbeatLost(s) \/ BatchEnds(s)
             \/ \E w \in Worker : RejectPushLost(s, w)
      PROVE  OnceInv'
  <2>1. UNCHANGED <<ready, chan, handled, log, at, held>>
    BY <1>3 DEF Run, Cancel, StopConsuming, HeartbeatLost, BatchEnds, RejectPushLost
  <2>2. \A u \in Server, v \in Worker : Before(u, v)' = Before(u, v)
    BY <2>1 DEF Before
  <2> QED
    BY <2>1, <2>2, OnceKept
<1>4. ASSUME NEW s \in Server, Stopped(s) \/ Crash(s)
      PROVE  OnceInv'
  <2>1. EndProcess(s, "closed") \/ EndProcess(s, "dead")
    BY <1>4 DEF Stopped, Crash
  <2> QED
    BY <2>1, EndProcessOnce
<1>5. ASSUME NEW s \in Server, NEW w \in Worker, Take(s, w)
      PROVE  OnceInv'
  BY <1>5, TakeOnce
<1>6. ASSUME NEW s \in Server, NEW w \in Worker, CallHandler(s, w)
      PROVE  OnceInv'
  BY <1>6, CallHandlerOnce
<1>7. ASSUME NEW s \in Server, NEW w \in Worker,
             \/ Consume(s, w) \/ Select(s, w) \/ RejectPush(s, w) \/ DecodeFails(s, w)
             \/ \E ok \in BOOLEAN : HandlerReturns(s, w, ok)
      PROVE  OnceInv'
  <2>1. UNCHANGED <<ready, chan, handled, log, held>>
    BY <1>7 DEF Consume, Select, RejectPush, DecodeFails, HandlerReturns
  <2>2. PICK state \in WorkerState :
          /\ Goto(s, w, state)
          /\ state \in {"select", "shedPush", "shedRemove", "decode"} => Before(s, w)
    BY <1>7 DEF Consume, Select, RejectPush, DecodeFails, HandlerReturns, WorkerState, Before
  <2> QED
    BY <2>1, <2>2, GotoOnce
<1>8. ASSUME NEW s \in Server, NEW w \in Worker,
             RejectRemove(s, w) \/ Ack(s, w) \/ GiveUp(s, w)
      PROVE  OnceInv'
  <2>1. UNCHANGED <<ready, chan, handled, log>>
    BY <1>8 DEF RejectRemove, Ack, GiveUp
  <2>2. CASE Return(s, w)
    BY <2>1, <2>2, ReturnOnce
  <2>3. CASE Goto(s, w, "decode") /\ UNCHANGED held /\ Before(s, w)
    <3>1. "decode" \in WorkerState
      BY DEF WorkerState
    <3> QED
      BY <2>1, <2>3, <3>1, GotoOnce
  <2> QED
    BY <1>8, <2>2, <2>3 DEF RejectRemove, Ack, GiveUp, Before
<1>9. CASE UNCHANGED vars
  <2>1. UNCHANGED <<ready, chan, handled, log, at, held>>
    BY <1>9 DEF vars
  <2>2. \A u \in Server, v \in Worker : Before(u, v)' = Before(u, v)
    BY <2>1 DEF Before
  <2> QED
    BY <2>1, <2>2, OnceKept
<1> QED
  BY <1>1, <1>2, <1>2a, <1>3, <1>4, <1>5, <1>6, <1>7, <1>8, <1>9
     DEF Next, ServerStep, WorkerStep

(***************************************************************************)
(* The handler is called at most once for a message, however many          *)
(* processes there are and whenever they crash or close.                   *)
(***************************************************************************)
THEOREM AtMostOneCall == Spec => []HandledAtMostOnce
<1>1. OnceInv => HandledAtMostOnce
  BY DEF OnceInv, HandledOnce, HandledAtMostOnce
<1> QED
  BY <1>1, TypeInit, TypeNext, OnceInit, OnceNext, PTL DEF Spec

-----------------------------------------------------------------------------
(***************************************************************************)
(* The queue implements AtMostOnce: Add is its Accept, CallHandler its     *)
(* Deliver, and no other step changes log or handled.                      *)
(***************************************************************************)
LEMMA MailboxInit == Init => Mailbox!Init
<1> SUFFICES ASSUME Init
             PROVE  Mailbox!Init
  OBVIOUS
<1>1. Range(log) = {} /\ handled = <<>>
  BY DEF Init, Range
<1> QED
  BY <1>1 DEF Mailbox!Init, Published

\* A message is delivered in the sense of AtMostOnce if it was handled.
LEMMA MailboxDelivered ==
  ASSUME NEW m
  PROVE  Mailbox!Delivered(m) <=> m \in Range(handled)
BY DEF Mailbox!Delivered, Range

\* No other step changes what AtMostOnce speaks of.
LEMMA MailboxStutter ==
  [Next]_vars =>
    \/ \E m \in Message : Add(m)
    \/ \E s \in Server, w \in Worker : CallHandler(s, w)
    \/ UNCHANGED <<log, handled>>
BY DEF Next, ServerStep, WorkerStep, Run, Prefetch, PrefetchLost, Fetch, BatchEnds, Cancel,
       StopConsuming, Stopped, HeartbeatLost, Crash, EndProcess, Consume, Take, Select,
       RejectPush, RejectPushLost, RejectRemove, DecodeFails, HandlerReturns, Ack, GiveUp, vars, historyVars

\* Add maps to Accept, CallHandler to Deliver, all else to a stutter.
LEMMA MailboxNext ==
  TypeInv /\ OnceInv /\ [Next]_vars =>
    [Mailbox!Next]_<<{m \in Message : Published(m) /\ m \notin Range(handled)}, handled>>
<1> DEFINE pending == {m \in Message : Published(m) /\ m \notin Range(handled)}
<1> SUFFICES ASSUME TypeInv, OnceInv, [Next]_vars
             PROVE  Mailbox!Next \/ UNCHANGED <<pending, handled>>
  OBVIOUS
<1>1. ASSUME NEW m \in Message, Add(m)
      PROVE  Mailbox!Next
  <2>1. /\ Range(log') = Range(log) \cup {m}
        /\ m \notin Range(log)
        /\ UNCHANGED handled
    BY <1>1, AppendRange DEF Add, Published, TypeInv, HistoryOK
  <2>2. m \notin Range(handled)
    BY <2>1 DEF OnceInv, HandledOnce
  <2>3. m \notin pending /\ pending' = pending \cup {m}
    BY <2>1, <2>2 DEF Published
  <2>4. ~Mailbox!Delivered(m)
    BY <2>2, MailboxDelivered
  <2> QED
    BY <2>1, <2>3, <2>4 DEF Mailbox!Next, Mailbox!Accept
<1>2. ASSUME NEW s \in Server, NEW w \in Worker, CallHandler(s, w)
      PROVE  Mailbox!Next
  <2> DEFINE m == held[s][w]
  <2>1. /\ handled' = Append(handled, m)
        /\ handled \in Seq(Message)
        /\ m \in Message
        /\ UNCHANGED log
    BY <1>2 DEF CallHandler, TypeInv, HistoryOK, ConsumersOK, HoldsDelivery
  <2>2. m \in Range(log) /\ m \notin Range(handled)
    BY <1>2 DEF CallHandler, Before, OnceInv, HeldOnce
  <2> HIDE DEF m
  <2>3. Range(handled') = Range(handled) \cup {m}
    BY <2>1, AppendRange
  <2>4. m \in pending /\ pending' = pending \ {m}
    BY <2>1, <2>2, <2>3 DEF Published
  <2> QED
    BY <2>1, <2>4 DEF Mailbox!Next, Mailbox!Deliver
<1>3. ASSUME UNCHANGED <<log, handled>>
      PROVE  UNCHANGED <<pending, handled>>
  BY <1>3 DEF Published
<1> QED
  BY <1>1, <1>2, <1>3, MailboxStutter

\* Whatever the processes do, the queue is an AtMostOnce mailbox.
THEOREM QueueImplementsAtMostOnce == Spec => ImplementsAtMostOnce
<1> QED
  BY TypeInit, TypeNext, OnceInit, OnceNext, MailboxInit, MailboxNext, PTL
     DEF Spec, ImplementsAtMostOnce, Mailbox!Spec

-----------------------------------------------------------------------------
(***************************************************************************)
(* Where a message is.  A consumer that is about to remove a delivery from *)
(* unacked has put it in rejected before, or its handler returned nil.     *)
(***************************************************************************)
Removable ==
  \A s \in Server, w \in Worker :
    /\ at[s][w] \in {"shedRemove", "rejectRemove"} => rejected[held[s][w]] > 0
    /\ at[s][w] = "ack" => held[s][w] \in succeeded
SettleInv == Removable /\ NothingVanishes /\ AckedSucceeded

\* Nothing was published, so nothing can vanish.
LEMMA SettleInit == Init => SettleInv
<1> SUFFICES ASSUME Init
             PROVE  SettleInv
  OBVIOUS
<1>1. Range(log) = {} /\ acked = {}
  BY DEF Init, Range
<1>2. \A s \in Server, w \in Worker : at[s][w] = "off"
  BY DEF Init
<1> QED
  BY <1>1, <1>2 DEF SettleInv, Removable, NothingVanishes, AckedSucceeded

\* The consumers' part: no step but one to such a state can break it.
LEMMA RemovableKept ==
  ASSUME Removable, succeeded \subseteq succeeded',
         \A m \in Message : rejected[m] > 0 => rejected'[m] > 0,
         TypeInv,
         \A s \in Server, w \in Worker :
           at'[s][w] \in {"shedRemove", "rejectRemove", "ack"} =>
             at'[s][w] = at[s][w] /\ held'[s][w] = held[s][w]
  PROVE  Removable'
<1> SUFFICES ASSUME NEW s \in Server, NEW w \in Worker,
                    at'[s][w] \in {"shedRemove", "rejectRemove", "ack"}
             PROVE  /\ at'[s][w] \in {"shedRemove", "rejectRemove"} => rejected'[held'[s][w]] > 0
                    /\ at'[s][w] = "ack" => held'[s][w] \in succeeded'
  BY DEF Removable
<1>1. at'[s][w] = at[s][w] /\ held'[s][w] = held[s][w] /\ held[s][w] \in Message
  BY DEF TypeInv, ConsumersOK, HoldsDelivery
<1> QED
  BY <1>1 DEF Removable

\* The lists' part: no step but a removal can break it.
LEMMA ListsKept ==
  ASSUME NothingVanishes, AckedSucceeded, TypeInv,
         Range(log') = Range(log), Range(ready) \subseteq Range(ready'),
         \A s \in Server : unacked[s] \subseteq unacked'[s],
         \A m \in Message : rejected[m] > 0 => rejected'[m] > 0,
         acked' = acked, succeeded \subseteq succeeded'
  PROVE  NothingVanishes' /\ AckedSucceeded'
<1>1. Range(log) \subseteq Message
  BY DEF TypeInv, HistoryOK, Range
<1> QED
  BY <1>1 DEF NothingVanishes, AckedSucceeded

\* Every step keeps a published message in one of the lists, or acked.
LEMMA SettleNext == TypeInv /\ SettleInv /\ [Next]_vars => SettleInv'
<1> SUFFICES ASSUME TypeInv, SettleInv, [Next]_vars
             PROVE  SettleInv'
  OBVIOUS
<1> USE DEF redisVars, processVars, historyVars, faultVars
<1>0. /\ Removable /\ NothingVanishes /\ AckedSucceeded
      /\ AtType /\ HeldType
      /\ unacked \in [Server -> SUBSET Message]
      /\ rejected \in [Message -> Nat]
  BY DEF SettleInv, TypeInv, ConsumersOK, RedisOK
<1>1. ASSUME NEW m \in Message, Add(m)
      PROVE  SettleInv'
  <2>1. /\ Range(ready') = Range(ready) \cup {m}
        /\ Range(log') = Range(log) \cup {m}
    BY <1>1, AppendRange DEF Add, TypeInv, RedisOK, HistoryOK
  <2>2. UNCHANGED <<unacked, rejected, acked, succeeded, at, held>>
    BY <1>1 DEF Add
  <2>3. Removable'
    BY <1>0, <2>2, RemovableKept
  <2> QED
    BY <1>0, <2>1, <2>2, <2>3 DEF SettleInv, NothingVanishes, AckedSucceeded
<1>2. ASSUME NEW s \in Server, Prefetch(s) \/ PrefetchLost(s)
      PROVE  SettleInv'
  <2>1. /\ Range(ready) = Range(ready') \cup {Head(ready)}
        /\ unacked' = [unacked EXCEPT ![s] = @ \cup {Head(ready)}]
        /\ UNCHANGED <<rejected, log, acked, succeeded, at, held>>
    BY <1>2, TailRange DEF Prefetch, PrefetchLost, Fetch, TypeInv, RedisOK
  <2>2. /\ Head(ready) \in unacked'[s]
        /\ \A u \in Server : unacked[u] \subseteq unacked'[u]
    BY <1>0, <2>1
  <2>3. Removable'
    BY <1>0, <2>1, RemovableKept
  <2>4. NothingVanishes' /\ AckedSucceeded'
    BY <1>0, <2>1, <2>2 DEF NothingVanishes, AckedSucceeded
  <2> QED
    BY <2>3, <2>4 DEF SettleInv
<1>3. ASSUME UNCHANGED <<redisVars, log, succeeded, acked>>,
             \A s \in Server, w \in Worker :
               at'[s][w] \in {"shedRemove", "rejectRemove", "ack"} =>
                 at'[s][w] = at[s][w] /\ held'[s][w] = held[s][w]
      PROVE  SettleInv'
  <2>1. Removable'
    BY <1>0, <1>3, RemovableKept
  <2> QED
    BY <1>0, <1>3, <2>1 DEF SettleInv, NothingVanishes, AckedSucceeded
<1>4. ASSUME NEW s \in Server,
             Run(s) \/ BatchEnds(s) \/ Cancel(s) \/ StopConsuming(s) \/ HeartbeatLost(s)
      PROVE  SettleInv'
  BY <1>3, <1>4 DEF Run, BatchEnds, Cancel, StopConsuming, HeartbeatLost
<1>5. ASSUME NEW s \in Server, Stopped(s) \/ Crash(s)
      PROVE  SettleInv'
  <2>1. PICK state \in {"closed", "dead"} : EndProcess(s, state)
    BY <1>5 DEF Stopped, Crash
  <2>2. \A u \in Server, v \in Worker :
          at'[u][v] # "off" => at'[u][v] = at[u][v] /\ held'[u][v] = held[u][v]
    BY <1>0, <2>1, EndProcessLemma
  <2> QED
    BY <1>3, <2>1, <2>2 DEF EndProcess
<1>6. ASSUME NEW s \in Server, NEW w \in Worker, Take(s, w)
      PROVE  SettleInv'
  <2>1. Goto(s, w, "select") /\ "select" \in WorkerState
    BY <1>6 DEF Take, WorkerState
  <2>2. /\ at'[s][w] = "select"
        /\ \A u \in Server, v \in Worker : u # s \/ v # w => at'[u][v] = at[u][v]
    BY <1>0, <2>1, GotoLemma
  <2>3. \A u \in Server, v \in Worker : u # s \/ v # w => held'[u][v] = held[u][v]
    BY <1>0, <1>6 DEF Take, HeldType
  <2> QED
    BY <1>3, <1>6, <2>2, <2>3 DEF Take
<1>7. ASSUME NEW s \in Server, NEW w \in Worker,
             Consume(s, w) \/ Select(s, w) \/ DecodeFails(s, w) \/ CallHandler(s, w)
      PROVE  SettleInv'
  <2>1. PICK state \in WorkerState \ {"shedRemove", "rejectRemove", "ack"} : Goto(s, w, state)
    BY <1>7 DEF Consume, Select, DecodeFails, CallHandler, WorkerState
  <2>2. /\ at'[s][w] = state
        /\ \A u \in Server, v \in Worker : u # s \/ v # w => at'[u][v] = at[u][v]
    BY <1>0, <2>1, GotoLemma
  <2>3. UNCHANGED <<redisVars, held, log, succeeded, acked>>
    BY <1>7 DEF Consume, Select, DecodeFails, CallHandler
  <2> QED
    BY <1>3, <2>2, <2>3
<1>8. ASSUME NEW s \in Server, NEW w \in Worker, RejectPush(s, w)
      PROVE  SettleInv'
  <2>1. PICK state \in {"shedRemove", "rejectRemove"} : Goto(s, w, state)
    BY <1>8 DEF RejectPush
  <2>2. state \in WorkerState
    BY DEF WorkerState
  <2>3. /\ at'[s][w] = state
        /\ \A u \in Server, v \in Worker : u # s \/ v # w => at'[u][v] = at[u][v]
    BY <1>0, <2>1, <2>2, GotoLemma
  <2>4. /\ rejected' = [rejected EXCEPT ![held[s][w]] = @ + 1]
        /\ held[s][w] \in Message
        /\ UNCHANGED <<ready, unacked, held, log, succeeded, acked>>
    BY <1>8 DEF RejectPush, TypeInv, ConsumersOK, HoldsDelivery
  <2>5. /\ rejected'[held[s][w]] > 0
        /\ \A m \in Message : rejected[m] > 0 => rejected'[m] > 0
    BY <1>0, <2>4
  <2>6. Removable'
    <3> SUFFICES ASSUME NEW u \in Server, NEW v \in Worker
                 PROVE  /\ at'[u][v] \in {"shedRemove", "rejectRemove"} => rejected'[held'[u][v]] > 0
                        /\ at'[u][v] = "ack" => held'[u][v] \in succeeded'
      BY DEF Removable
    <3>1. CASE u = s /\ v = w
      BY <2>3, <2>4, <2>5, <3>1
    <3>2. CASE u # s \/ v # w
      <4>1. at'[u][v] = at[u][v] /\ held'[u][v] = held[u][v]
        BY <2>3, <2>4, <3>2
      <4>2. at[u][v] \in {"shedRemove", "rejectRemove"} => held[u][v] \in Message
        BY DEF TypeInv, ConsumersOK, HoldsDelivery
      <4> QED
        BY <1>0, <2>4, <2>5, <4>1, <4>2 DEF Removable
    <3> QED
      BY <3>1, <3>2
  <2>7. NothingVanishes' /\ AckedSucceeded'
    BY <1>0, <2>4, <2>5, ListsKept
  <2> QED
    BY <2>6, <2>7 DEF SettleInv
<1>8a. ASSUME NEW s \in Server, NEW w \in Worker, RejectPushLost(s, w)
       PROVE  SettleInv'
  <2>1. /\ rejected' = [rejected EXCEPT ![held[s][w]] = @ + 1]
        /\ held[s][w] \in Message
        /\ UNCHANGED <<ready, unacked, at, held, log, succeeded, acked>>
    BY <1>8a DEF RejectPushLost, TypeInv, ConsumersOK, HoldsDelivery
  <2>2. \A m \in Message : rejected[m] > 0 => rejected'[m] > 0
    BY <1>0, <2>1
  <2>3. Removable'
    BY <1>0, <2>1, <2>2, RemovableKept
  <2>4. NothingVanishes' /\ AckedSucceeded'
    BY <1>0, <2>1, <2>2, ListsKept
  <2> QED
    BY <2>3, <2>4 DEF SettleInv
<1>9. ASSUME NEW s \in Server, NEW w \in Worker, NEW ok \in BOOLEAN,
             HandlerReturns(s, w, ok)
      PROVE  SettleInv'
  <2>1. PICK state \in {"ack", "rejectPush"} :
          Goto(s, w, state) /\ (state = "ack" => held[s][w] \in succeeded')
    BY <1>9 DEF HandlerReturns
  <2>2. state \in WorkerState
    BY DEF WorkerState
  <2>3. /\ at'[s][w] = state
        /\ \A u \in Server, v \in Worker : u # s \/ v # w => at'[u][v] = at[u][v]
    BY <1>0, <2>1, <2>2, GotoLemma
  <2>4. /\ succeeded \subseteq succeeded'
        /\ UNCHANGED <<ready, unacked, rejected, held, log, acked>>
    BY <1>9 DEF HandlerReturns
  <2>5. Removable'
    <3> SUFFICES ASSUME NEW u \in Server, NEW v \in Worker
                 PROVE  /\ at'[u][v] \in {"shedRemove", "rejectRemove"} => rejected'[held'[u][v]] > 0
                        /\ at'[u][v] = "ack" => held'[u][v] \in succeeded'
      BY DEF Removable
    <3>1. CASE u = s /\ v = w
      BY <2>1, <2>3, <2>4, <3>1
    <3>2. CASE u # s \/ v # w
      BY <1>0, <2>3, <2>4, <3>2 DEF Removable
    <3> QED
      BY <3>1, <3>2
  <2>6. NothingVanishes' /\ AckedSucceeded'
    BY <1>0, <2>4, ListsKept
  <2> QED
    BY <2>5, <2>6 DEF SettleInv
<1>10. ASSUME NEW s \in Server, NEW w \in Worker,
              RejectRemove(s, w) \/ Ack(s, w) \/ GiveUp(s, w)
       PROVE  SettleInv'
  <2>1. \A u \in Server, v \in Worker :
          at'[u][v] \in {"shedRemove", "rejectRemove", "ack"} =>
            at'[u][v] = at[u][v] /\ held'[u][v] = held[u][v]
    <3>1. CASE Return(s, w)
      BY <1>0, <3>1, ReturnLemma
    <3>2. CASE Goto(s, w, "decode") /\ UNCHANGED held
      <4>1. "decode" \in WorkerState
        BY DEF WorkerState
      <4> QED
        BY <1>0, <3>2, <4>1, GotoLemma
    <3> QED
      BY <1>10, <3>1, <3>2 DEF RejectRemove, Ack, GiveUp
  <2>2. CASE RejectRemove(s, w)
    <3>1. /\ rejected[held[s][w]] > 0
          /\ unacked' = [unacked EXCEPT ![s] = @ \ {held[s][w]}]
          /\ UNCHANGED <<ready, rejected, log, acked, succeeded>>
      BY <1>0, <2>2 DEF RejectRemove, Removable
    <3>2. \A u \in Server : unacked[u] \subseteq unacked'[u] \cup {held[s][w]}
      BY <1>0, <3>1
    <3>3. Removable'
      BY <1>0, <2>1, <3>1, RemovableKept
    <3>4. NothingVanishes' /\ AckedSucceeded'
      BY <1>0, <3>1, <3>2 DEF NothingVanishes, AckedSucceeded
    <3> QED
      BY <3>3, <3>4 DEF SettleInv
  <2>3. CASE Ack(s, w)
    <3>1. /\ held[s][w] \in succeeded
          /\ unacked' = [unacked EXCEPT ![s] = @ \ {held[s][w]}]
          /\ acked' = acked \cup ({held[s][w]} \cap unacked[s])
          /\ UNCHANGED <<ready, rejected, log, succeeded>>
      BY <1>0, <2>3 DEF Ack, Removable
    <3>2. \A u \in Server : unacked[u] \subseteq unacked'[u] \cup acked'
      BY <1>0, <3>1
    <3>3. Removable'
      BY <1>0, <2>1, <3>1, RemovableKept
    <3>4. NothingVanishes' /\ AckedSucceeded'
      BY <1>0, <3>1, <3>2 DEF NothingVanishes, AckedSucceeded
    <3> QED
      BY <3>3, <3>4 DEF SettleInv
  <2>4. CASE GiveUp(s, w)
    <3>1. UNCHANGED <<redisVars, log, succeeded, acked>>
      BY <2>4 DEF GiveUp
    <3> QED
      BY <1>3, <2>1, <3>1
  <2> QED
    BY <1>10, <2>2, <2>3, <2>4
<1>11. CASE UNCHANGED vars
  BY <1>3, <1>11 DEF vars
<1> QED
  BY <1>1, <1>2, <1>4, <1>5, <1>6, <1>7, <1>8, <1>8a, <1>9, <1>10, <1>11
     DEF Next, ServerStep, WorkerStep

(***************************************************************************)
(* A published message is in ready, in unacked, in rejected, or was acked: *)
(* no crash between two Redis commands loses it.                           *)
(***************************************************************************)
THEOREM NoMessageVanishes == Spec => []NothingVanishes
<1>1. SettleInv => NothingVanishes
  BY DEF SettleInv
<1> QED
  BY <1>1, TypeInit, TypeNext, SettleInit, SettleNext, PTL DEF Spec

\* A message is acked only after its handler returned nil.
THEOREM AckMeansSuccess == Spec => []AckedSucceeded
<1>1. SettleInv => AckedSucceeded
  BY DEF SettleInv
<1> QED
  BY <1>1, TypeInit, TypeNext, SettleInit, SettleNext, PTL DEF Spec

-----------------------------------------------------------------------------
(***************************************************************************)
(* No slot of the prefetch limit leaks.  A connection that did not start   *)
(* to consume has fetched nothing, and a waiting consumer holds nothing,   *)
(* so that Take overwrites no delivery.                                    *)
(***************************************************************************)
IdleEmpty ==
  \A s \in Server, w \in Worker :
    at[s][w] \in {"off", "idle"} => held[s][w] = NoMessage
FreshConnection == \A s \in Server : conn[s] = "down" => unacked[s] = {}
SlotInv == NoSlotLeak /\ FreshConnection

\* Nothing was fetched, and every consumer is off.
LEMMA SlotInit == Init => SlotInv /\ IdleEmpty
BY DEF Init, SlotInv, NoSlotLeak, FreshConnection, IdleEmpty

\* A step that lets nobody start to wait with a delivery.
LEMMA IdleKept ==
  ASSUME IdleEmpty,
         \A s \in Server, w \in Worker :
           at'[s][w] \in {"off", "idle"} =>
             \/ held'[s][w] = NoMessage
             \/ at[s][w] \in {"off", "idle"} /\ held'[s][w] = held[s][w]
  PROVE  IdleEmpty'
BY DEF IdleEmpty

\* Every step leaves a waiting consumer without a delivery.
LEMMA IdleNext == TypeInv /\ IdleEmpty /\ [Next]_vars => IdleEmpty'
<1> SUFFICES ASSUME TypeInv, IdleEmpty, [Next]_vars
             PROVE  IdleEmpty'
  OBVIOUS
<1> USE DEF redisVars, processVars, historyVars, faultVars
<1>0. AtType /\ HeldType
  BY DEF TypeInv, ConsumersOK
<1>1. ASSUME UNCHANGED <<at, held>>
      PROVE  IdleEmpty'
  BY <1>1, IdleKept
<1>2. ASSUME NEW s \in Server, NEW w \in Worker, NEW state \in WorkerState,
             Goto(s, w, state), UNCHANGED held,
             state \in {"off", "idle"} => at[s][w] \in {"off", "idle"}
      PROVE  IdleEmpty'
  <2>1. /\ at'[s][w] = state
        /\ \A u \in Server, v \in Worker : u # s \/ v # w => at'[u][v] = at[u][v]
    BY <1>0, <1>2, GotoLemma
  <2> QED
    BY <1>2, <2>1, IdleKept
<1>3. ASSUME NEW s \in Server, NEW w \in Worker, Return(s, w)
      PROVE  IdleEmpty'
  <2>1. held'[s][w] = NoMessage
    BY <1>0, <1>3 DEF Return, HeldType
  <2>2. \A u \in Server, v \in Worker :
          u # s \/ v # w => at'[u][v] = at[u][v] /\ held'[u][v] = held[u][v]
    BY <1>0, <1>3, ReturnLemma
  <2> QED
    BY <2>1, <2>2, IdleKept
<1>4. ASSUME NEW s \in Server, Stopped(s) \/ Crash(s)
      PROVE  IdleEmpty'
  <2>1. PICK state \in {"closed", "dead"} : EndProcess(s, state)
    BY <1>4 DEF Stopped, Crash
  <2>2. \A v \in Worker : held'[s][v] = NoMessage
    BY <1>0, <2>1 DEF EndProcess, HeldType
  <2>3. \A u \in Server, v \in Worker :
          u # s => at'[u][v] = at[u][v] /\ held'[u][v] = held[u][v]
    BY <1>0, <2>1, EndProcessLemma
  <2> QED
    BY <2>2, <2>3, IdleKept
<1>5. ASSUME NEW s \in Server, NEW w \in Worker, Take(s, w)
      PROVE  IdleEmpty'
  <2>1. Goto(s, w, "select") /\ "select" \in WorkerState
    BY <1>5 DEF Take, WorkerState
  <2>2. /\ at'[s][w] = "select"
        /\ \A u \in Server, v \in Worker : u # s \/ v # w => at'[u][v] = at[u][v]
    BY <1>0, <2>1, GotoLemma
  <2>3. \A u \in Server, v \in Worker : u # s \/ v # w => held'[u][v] = held[u][v]
    BY <1>0, <1>5 DEF Take, HeldType
  <2> QED
    BY <2>2, <2>3, IdleKept
<1>6. ASSUME NEW s \in Server, NEW w \in Worker,
             \/ Consume(s, w) \/ Select(s, w) \/ RejectPush(s, w) \/ DecodeFails(s, w)
             \/ CallHandler(s, w) \/ \E ok \in BOOLEAN : HandlerReturns(s, w, ok)
      PROVE  IdleEmpty'
  <2>1. PICK state \in WorkerState :
          /\ Goto(s, w, state)
          /\ state \in {"off", "idle"} => at[s][w] \in {"off", "idle"}
    BY <1>6 DEF Consume, Select, RejectPush, DecodeFails, CallHandler, HandlerReturns,
                WorkerState
  <2>2. UNCHANGED held
    BY <1>6 DEF Consume, Select, RejectPush, DecodeFails, CallHandler, HandlerReturns
  <2> QED
    BY <1>2, <2>1, <2>2
<1>7. ASSUME NEW s \in Server, NEW w \in Worker,
             RejectRemove(s, w) \/ Ack(s, w) \/ GiveUp(s, w)
      PROVE  IdleEmpty'
  <2>1. \/ Return(s, w)
        \/ Goto(s, w, "decode") /\ UNCHANGED held
    BY <1>7 DEF RejectRemove, Ack, GiveUp
  <2>2. "decode" \in WorkerState
    BY DEF WorkerState
  <2> QED
    BY <1>2, <1>3, <2>1, <2>2
<1>8. CASE UNCHANGED vars
  BY <1>1, <1>8 DEF vars
<1>9. ASSUME NEW m \in Message, Add(m)
      PROVE  IdleEmpty'
  BY <1>1, <1>9 DEF Add
<1>10. ASSUME NEW s \in Server,
              \/ Run(s) \/ Prefetch(s) \/ PrefetchLost(s) \/ BatchEnds(s) \/ Cancel(s)
              \/ StopConsuming(s) \/ HeartbeatLost(s) \/ \E w \in Worker : RejectPushLost(s, w)
       PROVE  IdleEmpty'
  BY <1>1, <1>10
     DEF Run, Prefetch, PrefetchLost, Fetch, BatchEnds, Cancel, StopConsuming, HeartbeatLost,
         RejectPushLost
<1> QED
  BY <1>4, <1>5, <1>6, <1>7, <1>8, <1>9, <1>10 DEF Next, ServerStep, WorkerStep

\* A step that leaves the deliveries of consuming processes where they are.
LEMMA SlotsKept ==
  ASSUME SlotInv, UNCHANGED <<unacked, stranded>>,
         \A s \in Server : conn'[s] = "down" => conn[s] = "down",
         \A s \in Server :
           conn'[s] = "up" =>
             \/ conn[s] = "down"
             \/ /\ conn[s] = "up"
                /\ chan'[s] = chan[s]
                /\ \A w \in Worker : held'[s][w] = held[s][w]
  PROVE  SlotInv'
<1>1. FreshConnection'
  BY DEF SlotInv, FreshConnection
<1>2. NoSlotLeak'
  <2> SUFFICES ASSUME NEW s \in Server, conn'[s] = "up", NEW m \in unacked[s]
               PROVE  m \in Range(chan'[s]) \cup {held'[s][w] : w \in Worker} \cup stranded'[s]
    BY DEF NoSlotLeak
  <2>1. conn[s] = "up" /\ chan'[s] = chan[s] /\ \A w \in Worker : held'[s][w] = held[s][w]
    BY DEF SlotInv, FreshConnection
  <2>2. m \in Range(chan[s]) \/ m \in stranded[s] \/ \E w \in Worker : m = held[s][w]
    BY <2>1 DEF SlotInv, NoSlotLeak
  <2> QED
    BY <2>1, <2>2
<1> QED
  BY <1>1, <1>2 DEF SlotInv

\* Every step keeps each unacked delivery with somebody who will settle it.
LEMMA SlotNext == TypeInv /\ SlotInv /\ IdleEmpty /\ [Next]_vars => SlotInv'
<1> SUFFICES ASSUME TypeInv, SlotInv, IdleEmpty, [Next]_vars
             PROVE  SlotInv'
  OBVIOUS
<1> USE DEF redisVars, processVars, historyVars, faultVars
<1>0. /\ AtType /\ HeldType
      /\ unacked \in [Server -> SUBSET Message]
      /\ conn \in [Server -> ConnState]
      /\ chan \in [Server -> Seq(Message)]
      /\ ready \in Seq(Message)
  BY DEF TypeInv, ConsumersOK, RedisOK, ProcessOK
<1>1. ASSUME NEW s \in Server, Run(s) \/ StopConsuming(s) \/ HeartbeatLost(s)
      PROVE  SlotInv'
  <2>1. /\ UNCHANGED <<unacked, stranded, chan, held>>
        /\ conn'[s] # "down"
        /\ conn'[s] = "up" => conn[s] = "down"
        /\ \A u \in Server : u # s => conn'[u] = conn[u]
    BY <1>0, <1>1 DEF Run, StopConsuming, HeartbeatLost
  <2> QED
    BY <2>1, SlotsKept
<1>2. ASSUME NEW s \in Server, Stopped(s) \/ Crash(s)
      PROVE  SlotInv'
  <2>1. PICK state \in {"closed", "dead"} : EndProcess(s, state)
    BY <1>2 DEF Stopped, Crash
  <2>2. \A u \in Server, v \in Worker : u # s => held'[u][v] = held[u][v]
    BY <1>0, <2>1, EndProcessLemma
  <2>3. /\ UNCHANGED <<unacked, stranded>>
        /\ conn'[s] = state
        /\ \A u \in Server : u # s => conn'[u] = conn[u] /\ chan'[u] = chan[u]
    BY <1>0, <2>1 DEF EndProcess
  <2>4. conn'[s] \notin {"up", "down"}
    BY <2>3
  <2>5. \A u \in Server : conn'[u] = "down" => conn[u] = "down"
    BY <2>3, <2>4
  <2>6. \A u \in Server :
          conn'[u] = "up" =>
            /\ conn[u] = "up"
            /\ chan'[u] = chan[u]
            /\ \A v \in Worker : held'[u][v] = held[u][v]
    BY <2>2, <2>3, <2>4
  <2> QED
    BY <2>3, <2>5, <2>6, SlotsKept
<1>3. ASSUME NEW s \in Server, Prefetch(s)
      PROVE  SlotInv'
  <2>1. /\ conn[s] = "up"
        /\ Head(ready) \in Message
        /\ unacked' = [unacked EXCEPT ![s] = @ \cup {Head(ready)}]
        /\ chan' = [chan EXCEPT ![s] = Append(@, Head(ready))]
        /\ UNCHANGED <<conn, held, stranded>>
    BY <1>0, <1>3, TailRange DEF Prefetch, Fetch
  <2>2. Range(chan'[s]) = Range(chan[s]) \cup {Head(ready)}
    BY <1>0, <2>1, AppendRange
  <2>3. unacked'[s] = unacked[s] \cup {Head(ready)}
    BY <1>0, <2>1
  <2>4. \A u \in Server : u # s => unacked'[u] = unacked[u] /\ chan'[u] = chan[u]
    BY <1>0, <2>1
  <2>5. NoSlotLeak'
    BY <2>1, <2>2, <2>3, <2>4 DEF SlotInv, NoSlotLeak
  <2>6. FreshConnection'
    BY <2>1, <2>4 DEF SlotInv, FreshConnection
  <2> QED
    BY <2>5, <2>6 DEF SlotInv
<1>3a. ASSUME NEW s \in Server, PrefetchLost(s)
       PROVE  SlotInv'
  <2>1. /\ conn[s] = "up"
        /\ unacked' = [unacked EXCEPT ![s] = @ \cup {Head(ready)}]
        /\ stranded' = [stranded EXCEPT ![s] = @ \cup {Head(ready)}]
        /\ stranded \in [Server -> SUBSET Message]
        /\ UNCHANGED <<conn, held, chan>>
    BY <1>3a DEF PrefetchLost, Fetch, TypeInv, HistoryOK
  <2>2. /\ unacked'[s] = unacked[s] \cup {Head(ready)}
        /\ stranded'[s] = stranded[s] \cup {Head(ready)}
    BY <1>0, <2>1
  <2>3. \A u \in Server : u # s => unacked'[u] = unacked[u] /\ stranded'[u] = stranded[u]
    BY <1>0, <2>1
  <2>4. NoSlotLeak'
    BY <2>1, <2>2, <2>3 DEF SlotInv, NoSlotLeak
  <2>5. FreshConnection'
    BY <2>1, <2>3 DEF SlotInv, FreshConnection
  <2> QED
    BY <2>4, <2>5 DEF SlotInv
<1>4. ASSUME NEW s \in Server, NEW w \in Worker, Take(s, w)
      PROVE  SlotInv'
  <2>1. /\ chan[s] # <<>>
        /\ held' = [held EXCEPT ![s][w] = Head(chan[s])]
        /\ chan' = [chan EXCEPT ![s] = Tail(@)]
        /\ at[s][w] = "idle"
        /\ UNCHANGED <<unacked, conn, stranded>>
    BY <1>4 DEF Take
  <2>2. held[s][w] = NoMessage /\ NoMessage \notin Message
    BY <2>1, QueueAssumption DEF IdleEmpty
  <2>3. /\ Head(chan[s]) \in Message
        /\ Range(chan[s]) = Range(chan'[s]) \cup {Head(chan[s])}
    BY <1>0, <2>1, TailRange
  <2>4. /\ held'[s][w] = Head(chan[s])
        /\ \A u \in Server, v \in Worker : u # s \/ v # w => held'[u][v] = held[u][v]
    BY <1>0, <2>1, <2>3 DEF HeldType
  <2>5. \A u \in Server : u # s => chan'[u] = chan[u]
    BY <1>0, <2>1
  <2>6. ASSUME NEW u \in Server, conn'[u] = "up", NEW m \in unacked'[u]
        PROVE  m \in Range(chan'[u]) \cup {held'[u][v] : v \in Worker} \cup stranded'[u]
    <3>1. /\ m \in Message
          /\ m \in Range(chan[u]) \/ m \in stranded'[u] \/ \E v \in Worker : m = held[u][v]
      BY <1>0, <2>1, <2>6 DEF SlotInv, NoSlotLeak
    <3>2. CASE u = s
      <4>1. CASE m \in Range(chan[s])
        BY <2>3, <2>4, <3>2, <4>1
      <4>2. ASSUME NEW v \in Worker, m = held[s][v]
            PROVE  m = held'[s][v]
        BY <2>2, <2>4, <3>1, <4>2
      <4> QED
        BY <3>1, <3>2, <4>1, <4>2
    <3>3. CASE u # s
      BY <2>4, <2>5, <3>1, <3>3
    <3> QED
      BY <3>2, <3>3
  <2>7. FreshConnection'
    BY <2>1 DEF SlotInv, FreshConnection
  <2> QED
    BY <2>6, <2>7 DEF SlotInv, NoSlotLeak
<1>5. ASSUME NEW s \in Server, NEW w \in Worker, RejectRemove(s, w) \/ Ack(s, w)
      PROVE  SlotInv'
  <2>1. /\ unacked' = [unacked EXCEPT ![s] = @ \ {held[s][w]}]
        /\ UNCHANGED <<conn, chan, stranded>>
    BY <1>5 DEF RejectRemove, Ack
  <2>2. /\ unacked'[s] = unacked[s] \ {held[s][w]}
        /\ \A u \in Server : u # s => unacked'[u] = unacked[u]
    BY <1>0, <2>1
  <2>3. \A u \in Server, v \in Worker : u # s \/ v # w => held'[u][v] = held[u][v]
    BY <1>0, <1>5, ReturnLemma DEF RejectRemove, Ack
  <2>4. ASSUME NEW u \in Server, conn'[u] = "up", NEW m \in unacked'[u]
        PROVE  m \in Range(chan'[u]) \cup {held'[u][v] : v \in Worker} \cup stranded'[u]
    <3>1. /\ m \in unacked[u]
          /\ m \in Range(chan[u]) \/ m \in stranded'[u] \/ \E v \in Worker : m = held[u][v]
      BY <2>1, <2>2, <2>4 DEF SlotInv, NoSlotLeak
    <3>2. ASSUME NEW v \in Worker, m = held[u][v]
          PROVE  m = held'[u][v]
      BY <2>2, <2>3, <2>4, <3>2
    <3> QED
      BY <2>1, <3>1, <3>2
  <2>5. FreshConnection'
    BY <2>1, <2>2 DEF SlotInv, FreshConnection
  <2> QED
    BY <2>4, <2>5 DEF SlotInv, NoSlotLeak
<1>6. ASSUME NEW s \in Server, NEW w \in Worker, GiveUp(s, w)
      PROVE  SlotInv'
  <2>1. conn[s] = "stopping" /\ UNCHANGED <<unacked, conn, chan, stranded>>
    BY <1>6 DEF GiveUp
  <2>2. \A u \in Server, v \in Worker : u # s => held'[u][v] = held[u][v]
    BY <1>0, <1>6, ReturnLemma DEF GiveUp
  <2>3. \A u \in Server : conn'[u] = "up" => conn[u] = "up" /\ u # s
    BY <2>1
  <2> QED
    BY <2>1, <2>2, <2>3, SlotsKept
<1>7. ASSUME UNCHANGED <<unacked, stranded, conn, chan, held>>
      PROVE  SlotInv'
  BY <1>7 DEF SlotInv, NoSlotLeak, FreshConnection
<1>8. ASSUME NEW m \in Message, Add(m)
      PROVE  SlotInv'
  BY <1>7, <1>8 DEF Add
<1>9. ASSUME NEW s \in Server,
             Cancel(s) \/ BatchEnds(s) \/ \E w \in Worker : RejectPushLost(s, w)
      PROVE  SlotInv'
  BY <1>7, <1>9 DEF Cancel, BatchEnds, RejectPushLost
<1>10. ASSUME NEW s \in Server, NEW w \in Worker,
              \/ Consume(s, w) \/ Select(s, w) \/ RejectPush(s, w) \/ DecodeFails(s, w)
              \/ CallHandler(s, w) \/ \E ok \in BOOLEAN : HandlerReturns(s, w, ok)
       PROVE  SlotInv'
  BY <1>7, <1>10
     DEF Consume, Select, RejectPush, DecodeFails, CallHandler, HandlerReturns
<1>11. CASE UNCHANGED vars
  BY <1>7, <1>11 DEF vars
<1> QED
  BY <1>1, <1>2, <1>3, <1>3a, <1>4, <1>5, <1>6, <1>8, <1>9, <1>10, <1>11
     DEF Next, ServerStep, WorkerStep

(***************************************************************************)
(* While a process consumes, each of its unacked deliveries is in its      *)
(* channel, with one of its consumers, or was fetched by a command whose   *)
(* answer was lost: no path through the closure takes a slot of the        *)
(* prefetch limit for good.                                                *)
(***************************************************************************)
THEOREM SlotsDoNotLeak == Spec => []NoSlotLeak
<1>1. SlotInv => NoSlotLeak
  BY DEF SlotInv
<1> QED
  BY <1>1, TypeInit, TypeNext, SlotInit, IdleNext, SlotNext, PTL DEF Spec

-----------------------------------------------------------------------------
\* A suffix of the log that grows with it is a suffix of the longer log.
LEMMA SuffixAppend ==
  ASSUME NEW S, NEW l \in Seq(S), NEW e \in S, NEW f \in 0 .. Len(l)
  PROVE  Append(SubSeq(l, f + 1, Len(l)), e) = SubSeq(Append(l, e), f + 1, Len(Append(l, e)))
<1>1. Len(l) \in Nat /\ f \in Nat /\ f <= Len(l) /\ Len(Append(l, e)) = Len(l) + 1
  OBVIOUS
<1>2. /\ Append(l, e) \in Seq(S)
      /\ \A i \in 1 .. Len(l) : Append(l, e)[i] = l[i]
      /\ Append(l, e)[Len(l) + 1] = e
  OBVIOUS
<1>3. /\ SubSeq(l, f + 1, Len(l)) \in Seq(S)
      /\ Len(SubSeq(l, f + 1, Len(l))) = Len(l) - f
      /\ \A i \in 1 .. Len(l) - f : SubSeq(l, f + 1, Len(l))[i] = l[f + i]
  BY <1>1
<1>4. /\ SubSeq(Append(l, e), f + 1, Len(l) + 1) \in Seq(S)
      /\ Len(SubSeq(Append(l, e), f + 1, Len(l) + 1)) = Len(l) + 1 - f
      /\ \A i \in 1 .. Len(l) + 1 - f :
           SubSeq(Append(l, e), f + 1, Len(l) + 1)[i] = Append(l, e)[f + i]
  BY <1>1, <1>2
<1>5. /\ Append(SubSeq(l, f + 1, Len(l)), e) \in Seq(S)
      /\ Len(Append(SubSeq(l, f + 1, Len(l)), e)) = Len(l) + 1 - f
      /\ \A i \in 1 .. Len(l) - f :
           Append(SubSeq(l, f + 1, Len(l)), e)[i] = SubSeq(l, f + 1, Len(l))[i]
      /\ Append(SubSeq(l, f + 1, Len(l)), e)[Len(l) - f + 1] = e
  BY <1>1, <1>3
<1> DEFINE a == Append(SubSeq(l, f + 1, Len(l)), e)
           b == SubSeq(Append(l, e), f + 1, Len(l) + 1)
<1>6. \A i \in 1 .. Len(l) + 1 - f : a[i] = b[i]
  <2> SUFFICES ASSUME NEW i \in 1 .. Len(l) + 1 - f PROVE a[i] = b[i]
    OBVIOUS
  <2>1. CASE i \in 1 .. Len(l) - f
    <3>1. f + i \in 1 .. Len(l)
      BY <1>1, <2>1
    <3> QED BY <1>2, <1>3, <1>4, <1>5, <2>1, <3>1
  <2>2. CASE i = Len(l) - f + 1
    <3>1. f + i = Len(l) + 1
      BY <1>1, <2>2
    <3> QED BY <1>2, <1>4, <1>5, <2>2, <3>1
  <2>3. i \in 1 .. Len(l) - f \/ i = Len(l) - f + 1
    <3> HIDE DEF a, b
    <3> QED BY <1>1
  <2> QED BY <2>1, <2>2, <2>3
<1>7. a \in Seq(S) /\ b \in Seq(S) /\ Len(a) = Len(b) /\ Len(b) = Len(l) + 1 - f
  BY <1>4, <1>5
<1> HIDE DEF a, b
<1>8. a = b
  BY <1>6, <1>7
<1> QED BY <1>1, <1>8 DEF a, b

\* A suffix without its first element is the next suffix.
LEMMA SuffixTail ==
  ASSUME NEW S, NEW l \in Seq(S), NEW f \in 0 .. Len(l), SubSeq(l, f + 1, Len(l)) # <<>>
  PROVE  /\ f + 1 \in 0 .. Len(l)
         /\ Tail(SubSeq(l, f + 1, Len(l))) = SubSeq(l, f + 2, Len(l))
         /\ Head(SubSeq(l, f + 1, Len(l))) = l[f + 1]
<1>1. Len(l) \in Nat /\ f \in Nat /\ f <= Len(l)
  OBVIOUS
<1>2. /\ SubSeq(l, f + 1, Len(l)) \in Seq(S)
      /\ Len(SubSeq(l, f + 1, Len(l))) = Len(l) - f
      /\ \A i \in 1 .. Len(l) - f : SubSeq(l, f + 1, Len(l))[i] = l[f + i]
  BY <1>1
<1>3. f + 1 <= Len(l)
  BY <1>1, <1>2
<1>4. /\ SubSeq(l, f + 2, Len(l)) \in Seq(S)
      /\ Len(SubSeq(l, f + 2, Len(l))) = Len(l) - f - 1
      /\ \A i \in 1 .. Len(l) - f - 1 : SubSeq(l, f + 2, Len(l))[i] = l[f + 1 + i]
  BY <1>1, <1>3
<1> DEFINE q == SubSeq(l, f + 1, Len(l))
<1>5. /\ Tail(q) \in Seq(S)
      /\ Len(Tail(q)) = Len(l) - f - 1
      /\ \A i \in 1 .. Len(l) - f - 1 : Tail(q)[i] = q[i + 1]
      /\ Head(q) = q[1]
  BY <1>1, <1>2
<1>6. \A i \in 1 .. Len(l) - f - 1 : Tail(q)[i] = SubSeq(l, f + 2, Len(l))[i]
  <2> SUFFICES ASSUME NEW i \in 1 .. Len(l) - f - 1
               PROVE  Tail(q)[i] = SubSeq(l, f + 2, Len(l))[i]
    OBVIOUS
  <2>1. i + 1 \in 1 .. Len(l) - f /\ f + (i + 1) = f + 1 + i
    BY <1>1
  <2> QED BY <1>2, <1>4, <1>5, <2>1
<1>7. PICK t, b : t = Tail(q) /\ b = SubSeq(l, f + 2, Len(l))
  OBVIOUS
<1>8. /\ t \in Seq(S) /\ b \in Seq(S)
      /\ Len(t) = Len(b)
      /\ \A i \in 1 .. Len(b) : t[i] = b[i]
  BY <1>4, <1>5, <1>6, <1>7
<1>9. t = b
  BY <1>8
<1> QED BY <1>1, <1>2, <1>3, <1>5, <1>7, <1>9

\* ready is at first all of the empty log.
LEMMA FetchedInit == Init => FetchedInOrder
<1> SUFFICES ASSUME Init PROVE FetchedInOrder
  OBVIOUS
<1>1. 0 \in 0 .. Len(log) /\ ready = SubSeq(log, 0 + 1, Len(log))
  BY DEF Init
<1> QED BY <1>1 DEF FetchedInOrder

\* Add extends the log and ready alike, the fetch takes the first that is left.
LEMMA FetchedNext == TypeInv /\ FetchedInOrder /\ [Next]_vars => FetchedInOrder'
<1> SUFFICES ASSUME TypeInv, FetchedInOrder, [Next]_vars PROVE FetchedInOrder'
  OBVIOUS
<1>1. PICK f \in 0 .. Len(log) : ready = SubSeq(log, f + 1, Len(log))
  BY DEF FetchedInOrder
<1>2. log \in Seq(Message) /\ Len(log) \in Nat
  BY DEF TypeInv, HistoryOK
<1>3. ASSUME NEW m \in Message, Add(m) PROVE FetchedInOrder'
  <2>1. ready' = Append(ready, m) /\ log' = Append(log, m)
    BY <1>3 DEF Add
  <2>2. ready' = SubSeq(log', f + 1, Len(log'))
    BY <1>1, <1>2, <2>1, SuffixAppend
  <2>3. f \in 0 .. Len(log')
    BY <1>2, <2>1
  <2> QED BY <2>2, <2>3 DEF FetchedInOrder
<1>4. ASSUME NEW s \in Server, Prefetch(s) \/ PrefetchLost(s) PROVE FetchedInOrder'
  <2>1. ready # <<>> /\ ready' = Tail(ready) /\ log' = log
    BY <1>4 DEF Prefetch, PrefetchLost, Fetch, historyVars
  <2>2. f + 1 \in 0 .. Len(log) /\ ready' = SubSeq(log, f + 2, Len(log))
    BY <1>1, <1>2, <2>1, SuffixTail
  <2>3. f + 2 = (f + 1) + 1
    OBVIOUS
  <2> QED BY <2>1, <2>2, <2>3 DEF FetchedInOrder
<1>5. CASE UNCHANGED <<ready, log>>
  BY <1>5 DEF FetchedInOrder
<1> QED BY <1>3, <1>4, <1>5
    DEF Next, ServerStep, WorkerStep, Run, BatchEnds, Cancel, StopConsuming, Stopped,
        HeartbeatLost, Crash, EndProcess, Consume, Take, Select, RejectPush, RejectPushLost,
        RejectRemove, DecodeFails, CallHandler,
        HandlerReturns, Ack, GiveUp, redisVars, historyVars, vars

(***************************************************************************)
(* All processes together fetch the messages in the order of their Add:    *)
(* what is still in the ready list is the end of the log, whoever fetched  *)
(* the rest and whatever became of it.                                     *)
(***************************************************************************)
THEOREM FetchedInOrderOfAdd == Spec => []FetchedInOrder
BY TypeInit, TypeNext, FetchedInit, FetchedNext, PTL DEF Spec

-----------------------------------------------------------------------------
(***************************************************************************)
(* A message is settled once.  A consumer is open until it has settled its *)
(* delivery; as long as no process was cancelled none of the messages that *)
(* are still to be delivered, or are with an open consumer, is settled.    *)
(***************************************************************************)
Open(s, w) == Before(s, w) \/ at[s][w] \in {"handling", "rejectPush"}

\* A delivery that is not settled is with one consumer and nowhere else.
OpenOnce ==
  /\ \A s, u \in Server, w \in Worker :
       Open(s, w) => held[s][w] \notin Range(ready) \cup Range(chan[u])
  /\ \A s \in Server, w \in Worker : Open(s, w) => held[s][w] \in Range(log)
  /\ \A s, u \in Server, w, v \in Worker :
       Open(s, w) /\ Open(u, v) /\ (s # u \/ w # v) => held[s][w] # held[u][v]

\* What was put in rejected so far was put there by a Reject that goes on.
Unsettled(m) == rejected[m] = resent[m] /\ m \notin succeeded
Fresh(m)     == Unsettled(m) /\ resent[m] = 0

\* What holds of the settlements until somebody is cancelled.
SettledOnce ==
  /\ \A s \in Server, w \in Worker : at[s][w] \notin {"shedPush", "shedRemove"}
  /\ \A m \in Range(ready) : Fresh(m)
  /\ \A s \in Server : \A m \in Range(chan[s]) : Fresh(m)
  /\ \A s \in Server, w \in Worker :
       Open(s, w) =>
         /\ Unsettled(held[s][w])
         /\ at[s][w] # "rejectPush" => Fresh(held[s][w])
  /\ \A m \in Message : m \in Range(log) \/ Fresh(m)
  /\ \A m \in Message :
       rejected[m] <= 1 + resent[m] /\ (rejected[m] = 0 \/ m \notin succeeded)

Closing == \E s \in Server : cancelled[s]
OpenInv == OpenOnce /\ (Closing \/ SettledOnce)

\* At first there is no delivery.
LEMMA OpenInit == Init => OpenInv
<1> SUFFICES ASSUME Init PROVE OpenInv
  OBVIOUS
<1>1. Range(<<>>) = {}
  BY DEF Range
<1>2. \A s \in Server, w \in Worker : at[s][w] = "off" /\ ~Open(s, w)
  BY DEF Init, Open, Before
<1>3. \A m \in Message : Fresh(m)
  BY DEF Init, Unsettled, Fresh
<1>4. \A m \in Message : rejected[m] = 0 /\ resent[m] = 0
  BY DEF Init
<1> QED BY <1>1, <1>2, <1>3, <1>4 DEF Init, OpenInv, OpenOnce, SettledOnce

\* Nobody has cancelled yet if nobody has after the step.
LEMMA ClosingKept == TypeInv /\ Closing /\ [Next]_vars => Closing'
<1> SUFFICES ASSUME TypeInv, Closing, [Next]_vars PROVE Closing'
  OBVIOUS
<1>1. CASE UNCHANGED cancelled
  BY <1>1 DEF Closing
<1>2. ASSUME NEW s \in Server, Cancel(s) PROVE Closing'
  BY <1>2 DEF Cancel, Closing, TypeInv, ProcessOK
<1> QED BY <1>1, <1>2
    DEF Next, Add, ServerStep, WorkerStep, Run, Prefetch, PrefetchLost, Fetch, BatchEnds,
        StopConsuming, Stopped, HeartbeatLost, Crash, EndProcess, Consume, Take, Select,
        RejectPush, RejectPushLost, RejectRemove, DecodeFails, CallHandler, HandlerReturns, Ack, GiveUp, processVars, vars

\* Steps that settle nothing, and after which no consumer is open that was not.
LEMMA OpenKept ==
  ASSUME OpenInv, UNCHANGED <<rejected, resent, log, succeeded>>, Closing => Closing',
         Range(ready') \subseteq Range(ready),
         \A s \in Server : Range(chan'[s]) \subseteq Range(chan[s]),
         \A s \in Server, w \in Worker :
           /\ Open(s, w)' =>
                /\ Open(s, w) /\ held'[s][w] = held[s][w]
                /\ at[s][w] = "rejectPush" => at'[s][w] = "rejectPush"
           /\ at'[s][w] \in {"shedPush", "shedRemove"} =>
                Closing \/ at[s][w] \in {"shedPush", "shedRemove"}
  PROVE  OpenInv'
<1>1. OpenOnce'
  <2>1. ASSUME NEW s \in Server, NEW u \in Server, NEW w \in Worker, Open(s, w)'
        PROVE  held'[s][w] \notin Range(ready') \cup Range(chan'[u])
    <3>1. held[s][w] \notin Range(ready) \cup Range(chan[u])
      BY <2>1 DEF OpenInv, OpenOnce
    <3> QED BY <2>1, <3>1
  <2>2. \A s \in Server, w \in Worker : Open(s, w)' => held'[s][w] \in Range(log')
    BY DEF OpenInv, OpenOnce
  <2>3. ASSUME NEW s \in Server, NEW u \in Server, NEW w \in Worker, NEW v \in Worker,
               Open(s, w)', Open(u, v)', s # u \/ w # v
        PROVE  held'[s][w] # held'[u][v]
    BY <2>3 DEF OpenInv, OpenOnce
  <2> QED BY <2>1, <2>2, <2>3 DEF OpenOnce
<1>2. ASSUME ~Closing' PROVE SettledOnce'
  <2>1. SettledOnce /\ ~Closing
    BY <1>2 DEF OpenInv
  <2> QED BY <2>1 DEF SettledOnce, Unsettled, Fresh
<1> QED BY <1>1, <1>2 DEF OpenInv

\* Add puts a message into ready that is nowhere yet, and not settled.
LEMMA AddOpen ==
  ASSUME TypeInv, OpenInv, OnceInv, NEW m \in Message, Add(m)
  PROVE  OpenInv'
<1>1. /\ Range(ready') = Range(ready) \cup {m}
      /\ Range(log') = Range(log) \cup {m}
  BY AppendRange DEF Add, TypeInv, RedisOK, HistoryOK
<1>2. m \notin Range(log) /\ UNCHANGED <<chan, rejected, resent, succeeded, at, held, cancelled>>
  BY DEF Add, Published, processVars, faultVars
<1>3. \A s \in Server, w \in Worker : Open(s, w)' = Open(s, w)
  BY <1>2 DEF Open, Before
<1>4. OpenOnce'
  BY <1>1, <1>2, <1>3 DEF OpenInv, OpenOnce
<1>5. ASSUME ~Closing' PROVE SettledOnce'
  <2>1. SettledOnce
    BY <1>2, <1>5 DEF OpenInv, Closing
  <2>2. Fresh(m)
    BY <1>2, <2>1 DEF SettledOnce
  <2> QED BY <1>1, <1>2, <1>3, <2>1, <2>2 DEF SettledOnce, Unsettled, Fresh
<1> QED BY <1>4, <1>5 DEF OpenInv

\* The fetch takes a message that is fresh from ready to a channel.
LEMMA PrefetchOpen ==
  ASSUME TypeInv, OpenInv, NEW s \in Server, Prefetch(s)
  PROVE  OpenInv'
<1> DEFINE m == Head(ready)
<1>1. /\ m \in Message /\ m \in Range(ready)
      /\ Range(ready') \subseteq Range(ready)
      /\ chan' = [chan EXCEPT ![s] = Append(@, m)]
      /\ chan \in [Server -> Seq(Message)]
      /\ UNCHANGED <<rejected, resent, log, succeeded, at, held, cancelled>>
  BY TailRange DEF Prefetch, Fetch, TypeInv, RedisOK, ProcessOK, historyVars, faultVars
<1> HIDE DEF m
<1>2. \A u \in Server : Range(chan'[u]) \subseteq Range(chan[u]) \cup {m}
  <2>1. chan'[s] = Append(chan[s], m) /\ \A u \in Server \ {s} : chan'[u] = chan[u]
    BY <1>1
  <2> QED BY <1>1, <2>1, AppendRange
<1>3. \A u \in Server, w \in Worker : Open(u, w)' = Open(u, w)
  BY <1>1 DEF Open, Before
<1>4. OpenOnce'
  <2>1. \A u, v \in Server, w \in Worker :
          Open(u, w) => held[u][w] \notin Range(ready') \cup Range(chan'[v])
    BY <1>1, <1>2 DEF OpenInv, OpenOnce
  <2> QED BY <1>1, <1>3, <2>1 DEF OpenInv, OpenOnce
<1>5. ASSUME ~Closing' PROVE SettledOnce'
  <2>1. SettledOnce
    BY <1>1, <1>5 DEF OpenInv, Closing
  <2>2. Fresh(m)
    BY <1>1, <2>1 DEF SettledOnce
  <2> QED BY <1>1, <1>2, <1>3, <2>1, <2>2 DEF SettledOnce, Unsettled, Fresh
<1> QED BY <1>4, <1>5 DEF OpenInv

\* A consumer opens with a message of its channel.
LEMMA TakeOpen ==
  ASSUME TypeInv, OpenInv, OnceInv, NEW s \in Server, NEW w \in Worker, Take(s, w)
  PROVE  OpenInv'
<1> DEFINE m == Head(chan[s])
<1>1. /\ chan \in [Server -> Seq(Message)]
      /\ chan[s] \in Seq(Message) /\ chan[s] # <<>>
      /\ chan' = [chan EXCEPT ![s] = Tail(@)]
      /\ UNCHANGED <<ready, rejected, resent, log, succeeded, cancelled>>
  BY DEF Take, TypeInv, ProcessOK, redisVars, historyVars, faultVars
<1>2. /\ m \in Message /\ m \in Range(chan[s])
      /\ Range(chan[s]) = Range(Tail(chan[s])) \cup {m}
      /\ m \notin Range(Tail(chan[s]))
  BY <1>1, TailRange DEF OnceInv, ChanOnce
<1>3. /\ chan'[s] = Tail(chan[s])
      /\ \A u \in Server : u # s => chan'[u] = chan[u]
  BY <1>1
<1>4. \A u \in Server : Range(chan'[u]) \subseteq Range(chan[u])
  BY <1>2, <1>3
<1>5. Goto(s, w, "select") /\ "select" \in WorkerState /\ AtType /\ HeldType
  BY DEF Take, WorkerState, TypeInv, ConsumersOK
<1>6. /\ at'[s][w] = "select"
      /\ \A u \in Server, v \in Worker : u # s \/ v # w => at'[u][v] = at[u][v]
  BY <1>5, GotoLemma
<1>7. /\ held'[s][w] = m
      /\ \A u \in Server, v \in Worker : u # s \/ v # w => held'[u][v] = held[u][v]
  BY <1>2, <1>5 DEF Take, HeldType
<1> HIDE DEF m
<1>8. \A u \in Server, v \in Worker : u # s \/ v # w => Open(u, v)' = Open(u, v)
  BY <1>6 DEF Open, Before
<1>9. /\ m \in Range(log) /\ m \notin Range(ready)
      /\ \A u \in Server : m \notin Range(chan'[u])
      /\ \A u \in Server, v \in Worker : Open(u, v) => held[u][v] # m
  <2>1. m \in Range(log) /\ m \notin Range(ready)
    BY <1>2 DEF OnceInv, ChanOnce, ReadyOnce
  <2>2. \A u \in Server, v \in Worker : Open(u, v) => held[u][v] # m
    BY <1>2 DEF OpenInv, OpenOnce
  <2>3. \A u \in Server : m \notin Range(chan'[u])
    BY <1>2, <1>3 DEF OnceInv, ChanOnce
  <2> QED BY <2>1, <2>2, <2>3
<1>10. OpenOnce'
  <2>1. ASSUME NEW u \in Server, NEW t \in Server, NEW v \in Worker, Open(u, v)'
        PROVE  /\ held'[u][v] \notin Range(ready') \cup Range(chan'[t])
               /\ held'[u][v] \in Range(log')
    <3>1. CASE u = s /\ v = w
      BY <1>1, <1>7, <1>9, <3>1
    <3>2. CASE u # s \/ v # w
      BY <1>1, <1>4, <1>7, <1>8, <2>1, <3>2 DEF OpenInv, OpenOnce
    <3> QED BY <3>1, <3>2
  <2>2. ASSUME NEW u \in Server, NEW t \in Server, NEW v \in Worker, NEW x \in Worker,
               Open(u, v)', Open(t, x)', u # t \/ v # x
        PROVE  held'[u][v] # held'[t][x]
    <3>1. CASE u = s /\ v = w
      BY <1>7, <1>8, <1>9, <2>2, <3>1
    <3>2. CASE t = s /\ x = w
      BY <1>7, <1>8, <1>9, <2>2, <3>2
    <3>3. CASE (u # s \/ v # w) /\ (t # s \/ x # w)
      BY <1>7, <1>8, <2>2, <3>3 DEF OpenInv, OpenOnce
    <3> QED BY <3>1, <3>2, <3>3
  <2> QED BY <2>1, <2>2 DEF OpenOnce
<1>11. ASSUME ~Closing' PROVE SettledOnce'
  <2>1. SettledOnce
    BY <1>1, <1>11 DEF OpenInv, Closing
  <2>2. Fresh(m)
    BY <1>2, <2>1 DEF SettledOnce
  <2>3. \A u \in Server, v \in Worker :
          /\ at'[u][v] \notin {"shedPush", "shedRemove"}
          /\ Open(u, v)' =>
               /\ Unsettled(held'[u][v])
               /\ at'[u][v] # "rejectPush" => Fresh(held'[u][v])
    BY <1>6, <1>7, <1>8, <2>1, <2>2 DEF SettledOnce, Fresh
  <2> QED BY <1>1, <1>4, <2>1, <2>3 DEF SettledOnce, Unsettled, Fresh
<1> QED BY <1>10, <1>11 DEF OpenInv

\* A step of one consumer about its own delivery touches no other message.
LEMMA OthersSettled ==
  ASSUME TypeInv, OpenOnce, SettledOnce, NEW s \in Server, NEW w \in Worker, NEW m \in Message,
         Open(s, w), held[s][w] = m,
         UNCHANGED <<ready, chan, held, log>>,
         \A u \in Server, v \in Worker : u # s \/ v # w => at'[u][v] = at[u][v],
         \A n \in Message \ {m} :
           /\ rejected'[n] = rejected[n] /\ resent'[n] = resent[n]
           /\ n \in succeeded' <=> n \in succeeded,
         at'[s][w] \notin {"shedPush", "shedRemove"},
         Open(s, w)' =>
           rejected'[m] = resent'[m] /\ m \notin succeeded' /\ at'[s][w] = "rejectPush",
         rejected'[m] <= 1 + resent'[m],
         rejected'[m] = 0 \/ m \notin succeeded'
  PROVE  SettledOnce'
<1>1. /\ m \in Range(log) /\ m \notin Range(ready)
      /\ \A u \in Server : m \notin Range(chan[u])
      /\ \A u \in Server, v \in Worker :
           Open(u, v) /\ (u # s \/ v # w) => held[u][v] \in Message \ {m}
  BY DEF OpenOnce, Open, Before, TypeInv, ConsumersOK, HoldsDelivery
<1>2. /\ Range(ready) \subseteq Message
      /\ \A u \in Server : Range(chan[u]) \subseteq Message
  BY DEF TypeInv, RedisOK, ProcessOK, Range
<1>3. \A n \in Message \ {m} : (Unsettled(n)' <=> Unsettled(n)) /\ (Fresh(n)' <=> Fresh(n))
  BY DEF Unsettled, Fresh
<1>4. \A u \in Server, v \in Worker : u # s \/ v # w => (Open(u, v)' <=> Open(u, v))
  BY DEF Open, Before
<1>5. \A u \in Server, v \in Worker : at'[u][v] \notin {"shedPush", "shedRemove"}
  BY DEF SettledOnce
<1>6. \A n \in Range(ready) : Fresh(n)'
  BY <1>1, <1>2, <1>3 DEF SettledOnce
<1>7. \A u \in Server : \A n \in Range(chan[u]) : Fresh(n)'
  BY <1>1, <1>2, <1>3 DEF SettledOnce
<1>8. ASSUME NEW u \in Server, NEW v \in Worker, Open(u, v)'
      PROVE  Unsettled(held[u][v])' /\ (at'[u][v] # "rejectPush" => Fresh(held[u][v])')
  <2>1. CASE u = s /\ v = w
    BY <1>8, <2>1 DEF Unsettled
  <2>2. CASE u # s \/ v # w
    <3>1. /\ held[u][v] \in Message \ {m}
          /\ Unsettled(held[u][v]) /\ (at[u][v] # "rejectPush" => Fresh(held[u][v]))
      BY <1>1, <1>4, <1>8, <2>2 DEF SettledOnce
    <3>2. /\ Unsettled(held[u][v])' <=> Unsettled(held[u][v])
          /\ Fresh(held[u][v])' <=> Fresh(held[u][v])
          /\ at'[u][v] = at[u][v]
      BY <1>3, <2>2, <3>1
    <3> QED BY <3>1, <3>2
  <2> QED BY <2>1, <2>2
<1>9. \A n \in Message : n \in Range(log) \/ Fresh(n)'
  BY <1>1, <1>3 DEF SettledOnce
<1>10. \A n \in Message :
         rejected'[n] <= 1 + resent'[n] /\ (rejected'[n] = 0 \/ n \notin succeeded')
  BY DEF SettledOnce
<1> QED BY <1>5, <1>6, <1>7, <1>8, <1>9, <1>10 DEF SettledOnce

\* A consumer settles the delivery that only it has, one way or the other.
LEMMA SettlesOpen ==
  ASSUME TypeInv, OpenInv, NEW s \in Server, NEW w \in Worker, NEW state \in WorkerState,
         Open(s, w), Goto(s, w, state), state \in {"shedRemove", "rejectRemove", "ack"},
         UNCHANGED <<ready, chan, held, log, resent, cancelled>>,
         state = "shedRemove" => at[s][w] = "shedPush",
         \A m \in Message \ {held[s][w]} :
           rejected'[m] = rejected[m] /\ (m \in succeeded' <=> m \in succeeded),
         \/ /\ rejected'[held[s][w]] = rejected[held[s][w]] + 1
            /\ held[s][w] \in succeeded' <=> held[s][w] \in succeeded
         \/ /\ rejected'[held[s][w]] = rejected[held[s][w]]
            /\ at[s][w] # "rejectPush"
  PROVE  OpenInv'
<1>1. /\ at'[s][w] = state
      /\ \A u \in Server, v \in Worker : u # s \/ v # w => at'[u][v] = at[u][v]
  BY GotoLemma DEF TypeInv, ConsumersOK
<1>2. PICK m : m = held[s][w]
  OBVIOUS
<1>3. m \in Message
  BY <1>2 DEF Open, Before, TypeInv, ConsumersOK, HoldsDelivery
<1>4. \A u \in Server, v \in Worker : Open(u, v)' => Open(u, v)
  BY <1>1 DEF Open, Before
<1>5. OpenOnce'
  BY <1>4 DEF OpenInv, OpenOnce
<1>6. ASSUME ~Closing' PROVE SettledOnce'
  <2>1. SettledOnce /\ OpenOnce
    BY <1>6 DEF OpenInv, Closing
  <2>2. at[s][w] # "shedPush" /\ state \notin {"shedPush", "shedRemove"}
    BY <2>1 DEF SettledOnce
  <2>3. ~Open(s, w)'
    BY <1>1, <2>2 DEF Open, Before
  <2>4. rejected'[m] <= 1 + resent'[m] /\ (rejected'[m] = 0 \/ m \notin succeeded')
    <3>1. Unsettled(m) /\ (at[s][w] # "rejectPush" => Fresh(m))
      BY <1>2, <2>1 DEF SettledOnce
    <3>2. rejected[m] \in Nat /\ resent[m] \in Nat
      BY <1>3 DEF TypeInv, RedisOK, HistoryOK
    <3> QED BY <1>2, <3>1, <3>2 DEF Unsettled, Fresh
  <2> QED BY <1>1, <1>2, <1>3, <2>1, <2>2, <2>3, <2>4, OthersSettled
<1> QED BY <1>5, <1>6 DEF OpenInv

\* A Reject that was executed and not answered: the delivery stays open.
LEMMA RepeatsOpen ==
  ASSUME TypeInv, OpenInv, NEW s \in Server, NEW w \in Worker, RejectPushLost(s, w)
  PROVE  OpenInv'
<1>1. PICK m : m = held[s][w]
  OBVIOUS
<1>2. /\ Open(s, w) /\ m \in Message
      /\ rejected[m] \in Nat /\ resent[m] \in Nat
      /\ UNCHANGED <<ready, chan, at, held, log, succeeded, cancelled>>
  BY <1>1 DEF RejectPushLost, Open, Before, processVars, TypeInv, RedisOK, HistoryOK,
              ConsumersOK, HoldsDelivery
<1>3. /\ rejected'[m] = rejected[m] + 1 /\ resent'[m] = resent[m] + 1
      /\ \A n \in Message \ {m} : rejected'[n] = rejected[n] /\ resent'[n] = resent[n]
  BY <1>1, <1>2 DEF RejectPushLost, TypeInv, RedisOK, HistoryOK
<1>4. \A u \in Server, v \in Worker : Open(u, v)' <=> Open(u, v)
  BY <1>2 DEF Open, Before
<1>5. OpenOnce'
  BY <1>2, <1>4 DEF OpenInv, OpenOnce
<1>6. ASSUME ~Closing' PROVE SettledOnce'
  <2>1. SettledOnce /\ OpenOnce
    BY <1>2, <1>6 DEF OpenInv, Closing
  <2>2. at[s][w] = "rejectPush"
    BY <2>1 DEF RejectPushLost, SettledOnce
  <2>3. rejected[m] = resent[m] /\ m \notin succeeded
    BY <1>1, <1>2, <2>1 DEF SettledOnce, Unsettled
  <2> QED BY <1>1, <1>2, <1>3, <2>1, <2>2, <2>3, OthersSettled
<1> QED BY <1>5, <1>6 DEF OpenInv

\* Every step keeps the deliveries that are not settled apart, and settles only
\* what was not settled unless somebody was cancelled.
LEMMA OpenNext == TypeInv /\ OnceInv /\ OpenInv /\ [Next]_vars => OpenInv'
<1> SUFFICES ASSUME TypeInv, OnceInv, OpenInv, [Next]_vars PROVE OpenInv'
  OBVIOUS
<1> USE DEF redisVars, processVars, historyVars, faultVars
<1>0. AtType /\ HeldType /\ (Closing => Closing')
  BY ClosingKept DEF TypeInv, ConsumersOK
<1>1. ASSUME NEW s \in Server,
             \/ Run(s) \/ PrefetchLost(s) \/ BatchEnds(s) \/ Cancel(s) \/ StopConsuming(s)
             \/ HeartbeatLost(s)
      PROVE  OpenInv'
  <2>1. UNCHANGED <<chan, rejected, resent, log, succeeded, at, held>>
    BY <1>1 DEF Run, PrefetchLost, Fetch, BatchEnds, Cancel, StopConsuming, HeartbeatLost
  <2>2. \A u \in Server, v \in Worker : Open(u, v)' = Open(u, v)
    BY <2>1 DEF Open, Before
  <2>3. Range(ready') \subseteq Range(ready)
    BY <1>1, TailRange DEF Run, PrefetchLost, Fetch, BatchEnds, Cancel, StopConsuming,
                           HeartbeatLost, TypeInv, RedisOK
  <2> QED BY <1>0, <2>1, <2>2, <2>3, OpenKept
<1>2. ASSUME NEW s \in Server, Stopped(s) \/ Crash(s) PROVE OpenInv'
  <2>1. PICK state : EndProcess(s, state)
    BY <1>2 DEF Stopped, Crash
  <2>2. /\ \A w \in Worker : at'[s][w] = "off"
        /\ \A u \in Server, v \in Worker :
             u # s => at'[u][v] = at[u][v] /\ held'[u][v] = held[u][v]
    BY <1>0, <2>1, EndProcessLemma
  <2>3. \A u \in Server : Range(chan'[u]) \subseteq Range(chan[u])
    <3>1. Range(<<>>) = {}
      BY DEF Range
    <3> QED BY <2>1, <3>1 DEF EndProcess, TypeInv, ProcessOK
  <2>4. \A u \in Server, v \in Worker :
          /\ Open(u, v)' =>
               /\ Open(u, v) /\ held'[u][v] = held[u][v]
               /\ at[u][v] = "rejectPush" => at'[u][v] = "rejectPush"
          /\ at'[u][v] \in {"shedPush", "shedRemove"} => at[u][v] \in {"shedPush", "shedRemove"}
    BY <2>2 DEF Open, Before
  <2>5. UNCHANGED <<ready, rejected, resent, log, succeeded>>
    BY <2>1 DEF EndProcess
  <2> QED BY <1>0, <2>3, <2>4, <2>5, OpenKept
<1>3. ASSUME NEW s \in Server, NEW w \in Worker,
             \/ Consume(s, w) \/ Select(s, w) \/ DecodeFails(s, w) \/ CallHandler(s, w)
             \/ HandlerReturns(s, w, FALSE)
      PROVE  OpenInv'
  <2>1. PICK state \in WorkerState :
          /\ Goto(s, w, state)
          /\ state = "idle" \/ (Open(s, w) /\ at[s][w] # "rejectPush")
          /\ state = "shedPush" => Closing
          /\ state # "shedRemove"
    BY <1>3 DEF Consume, Select, DecodeFails, CallHandler, HandlerReturns, WorkerState, Open,
                Before, Closing
  <2>2. /\ at'[s][w] = state
        /\ \A u \in Server, v \in Worker : u # s \/ v # w => at'[u][v] = at[u][v]
    BY <1>0, <2>1, GotoLemma
  <2>3. UNCHANGED <<ready, chan, rejected, resent, log, succeeded, held>>
    BY <1>3 DEF Consume, Select, DecodeFails, CallHandler, HandlerReturns
  <2>4. \A u \in Server, v \in Worker :
          /\ Open(u, v)' =>
               /\ Open(u, v) /\ held'[u][v] = held[u][v]
               /\ at[u][v] = "rejectPush" => at'[u][v] = "rejectPush"
          /\ at'[u][v] \in {"shedPush", "shedRemove"} =>
               Closing \/ at[u][v] \in {"shedPush", "shedRemove"}
    BY <2>1, <2>2, <2>3 DEF Open, Before
  <2> QED BY <1>0, <2>3, <2>4, OpenKept
<1>4. ASSUME NEW s \in Server, NEW w \in Worker,
             RejectRemove(s, w) \/ Ack(s, w) \/ GiveUp(s, w)
      PROVE  OpenInv'
  <2>1. UNCHANGED <<ready, chan, rejected, resent, log, succeeded>>
    BY <1>4 DEF RejectRemove, Ack, GiveUp
  <2>2. \A u \in Server, v \in Worker :
          /\ Open(u, v)' =>
               /\ Open(u, v) /\ held'[u][v] = held[u][v]
               /\ at[u][v] = "rejectPush" => at'[u][v] = "rejectPush"
          /\ at'[u][v] \in {"shedPush", "shedRemove"} => at[u][v] \in {"shedPush", "shedRemove"}
    <3>1. CASE Return(s, w)
      BY <1>0, <3>1, ReturnLemma DEF Open, Before
    <3>2. CASE Goto(s, w, "decode") /\ UNCHANGED held /\ at[s][w] \in {"shedPush", "shedRemove"}
      <4>1. "decode" \in WorkerState
        BY DEF WorkerState
      <4> QED BY <1>0, <3>2, <4>1, GotoLemma DEF Open, Before
    <3> QED BY <1>4, <3>1, <3>2 DEF RejectRemove, Ack, GiveUp
  <2> QED BY <1>0, <2>1, <2>2, OpenKept
<1>5. ASSUME NEW s \in Server, NEW w \in Worker, RejectPush(s, w) PROVE OpenInv'
  <2>1. PICK state \in {"shedRemove", "rejectRemove"} :
          Goto(s, w, state) /\ (state = "shedRemove" => at[s][w] = "shedPush")
    BY <1>5 DEF RejectPush
  <2>2. Open(s, w) /\ state \in WorkerState /\ held[s][w] \in Message
    BY <1>5 DEF RejectPush, Open, Before, WorkerState, TypeInv, ConsumersOK, HoldsDelivery
  <2>3. UNCHANGED <<ready, chan, held, log, resent, cancelled, succeeded>>
    BY <1>5 DEF RejectPush
  <2>4. /\ rejected'[held[s][w]] = rejected[held[s][w]] + 1
        /\ \A m \in Message \ {held[s][w]} : rejected'[m] = rejected[m]
    BY <1>5, <2>2 DEF RejectPush, TypeInv, RedisOK
  <2> QED BY <2>1, <2>2, <2>3, <2>4, SettlesOpen
<1>6. ASSUME NEW s \in Server, NEW w \in Worker, HandlerReturns(s, w, TRUE) PROVE OpenInv'
  <2>1. /\ Goto(s, w, "ack") /\ "ack" \in WorkerState
        /\ Open(s, w) /\ at[s][w] # "rejectPush"
    BY <1>6 DEF HandlerReturns, Open, WorkerState
  <2>2. /\ UNCHANGED <<ready, chan, held, log, resent, cancelled, rejected>>
        /\ succeeded' = succeeded \cup {held[s][w]}
    BY <1>6 DEF HandlerReturns
  <2> QED BY <2>1, <2>2, SettlesOpen
<1>7. CASE UNCHANGED vars
  <2>1. UNCHANGED <<ready, chan, rejected, resent, log, succeeded, at, held>>
    BY <1>7 DEF vars
  <2>2. \A u \in Server, v \in Worker : Open(u, v)' = Open(u, v)
    BY <2>1 DEF Open, Before
  <2> QED BY <1>0, <2>1, <2>2, OpenKept
<1> QED BY <1>1, <1>2, <1>3, <1>4, <1>5, <1>6, <1>7, AddOpen, PrefetchOpen, TakeOpen,
        RepeatsOpen
        DEF Next, ServerStep, WorkerStep

(***************************************************************************)
(* Until a process is closing, no message is both rejected and delivered,  *)
(* and none is in the rejected list more often than its one Reject pushed  *)
(* it and had to repeat that: every delivery that is not settled is with   *)
(* one consumer, and each path through the closure settles it once.        *)
(***************************************************************************)
THEOREM SettledOnceBeforeClose == Spec => []SettledOnceUnlessClosing
<1>1. OpenInv => SettledOnceUnlessClosing
  BY DEF OpenInv, SettledOnce, Closing, SettledOnceUnlessClosing
<1> QED BY <1>1, TypeInit, TypeNext, OnceInit, OnceNext, OpenInit, OpenNext, PTL DEF Spec

-----------------------------------------------------------------------------
(***************************************************************************)
(* The order of one consumer.  Each message was added before those that    *)
(* come after it: first what was handled, then the delivery that one       *)
(* consumer is about to handle, the channel of the one process, and ready. *)
(***************************************************************************)
PositionIn(l, m) == CHOOSE i \in DOMAIN l : l[i] = m
InOrder(l, q)    == \A i, j \in DOMAIN q : i < j => PositionIn(l, q[i]) < PositionIn(l, q[j])
Ahead(l, A, B)   == \A a \in A, b \in B : PositionIn(l, a) < PositionIn(l, b)

Current == {m \in Message : \E s \in Server, w \in Worker : Before(s, w) /\ held[s][w] = m}
Fetched == UNION {Range(chan[s]) : s \in Server}

OrderInv ==
  /\ IsInjective(log)
  /\ InOrder(log, handled) /\ InOrder(log, ready)
  /\ \A s \in Server : InOrder(log, chan[s])
  /\ Ahead(log, Range(handled), Current \cup Fetched \cup Range(ready))
  /\ Ahead(log, Current, Fetched \cup Range(ready))
  /\ Ahead(log, Fetched, Range(ready))

\* The position of a message in a list without repetitions.
LEMMA PositionOf ==
  ASSUME NEW l, IsInjective(l), NEW i \in DOMAIN l
  PROVE  PositionIn(l, l[i]) = i
BY DEF PositionIn, IsInjective

\* The log grows at its end: the new message comes after all the others, whose
\* positions stay.
LEMMA PositionsStay ==
  ASSUME NEW l \in Seq(Message), IsInjective(l), NEW e \in Message, e \notin Range(l)
  PROVE  /\ IsInjective(Append(l, e))
         /\ \A m \in Range(l) : /\ PositionIn(Append(l, e), m) = PositionIn(l, m)
                                /\ PositionIn(l, m) < PositionIn(Append(l, e), e)
<1>1. IsInjective(Append(l, e))
  BY AppendRange
<1>2. /\ Len(l) \in Nat /\ DOMAIN l = 1 .. Len(l)
      /\ DOMAIN Append(l, e) = 1 .. Len(l) + 1
      /\ \A i \in 1 .. Len(l) : Append(l, e)[i] = l[i]
      /\ Append(l, e)[Len(l) + 1] = e
  OBVIOUS
<1>3. PositionIn(Append(l, e), e) = Len(l) + 1
  <2>1. Len(l) + 1 \in DOMAIN Append(l, e)
    BY <1>2
  <2> QED BY <1>1, <1>2, <2>1, PositionOf
<1>4. ASSUME NEW m \in Range(l)
      PROVE  /\ PositionIn(Append(l, e), m) = PositionIn(l, m)
             /\ PositionIn(l, m) < Len(l) + 1
  <2>1. PICK i \in 1 .. Len(l) : l[i] = m
    BY <1>2 DEF Range
  <2>2. i \in DOMAIN l /\ i \in DOMAIN Append(l, e) /\ Append(l, e)[i] = m /\ i < Len(l) + 1
    BY <1>2, <2>1
  <2>3. PositionIn(l, m) = i
    BY <2>1, <2>2, PositionOf
  <2>4. PositionIn(Append(l, e), m) = i
    BY <1>1, <2>2, PositionOf
  <2> QED BY <2>2, <2>3, <2>4
<1> QED BY <1>1, <1>3, <1>4

\* A list in order with a message that comes after all of it is in order.
LEMMA AppendInOrder ==
  ASSUME NEW l, NEW q \in Seq(Message), NEW e \in Message, InOrder(l, q),
         Ahead(l, Range(q), {e})
  PROVE  InOrder(l, Append(q, e))
<1>1. /\ Len(q) \in Nat /\ DOMAIN q = 1 .. Len(q)
      /\ DOMAIN Append(q, e) = 1 .. Len(q) + 1
      /\ \A i \in 1 .. Len(q) : Append(q, e)[i] = q[i]
      /\ Append(q, e)[Len(q) + 1] = e
  OBVIOUS
<1> SUFFICES ASSUME NEW i \in 1 .. Len(q) + 1, NEW j \in 1 .. Len(q) + 1, i < j
             PROVE  PositionIn(l, Append(q, e)[i]) < PositionIn(l, Append(q, e)[j])
  BY <1>1 DEF InOrder
<1>2. i \in 1 .. Len(q) /\ q[i] \in Range(q)
  BY <1>1 DEF Range
<1>3. CASE j \in 1 .. Len(q)
  BY <1>1, <1>2, <1>3 DEF InOrder
<1>4. CASE j = Len(q) + 1
  BY <1>1, <1>2, <1>4 DEF Ahead
<1> QED BY <1>1, <1>3, <1>4

\* The first message of a list in order comes before the rest, which is in order.
LEMMA TailInOrder ==
  ASSUME NEW l, NEW q \in Seq(Message), q # <<>>, InOrder(l, q)
  PROVE  InOrder(l, Tail(q)) /\ Ahead(l, {Head(q)}, Range(Tail(q)))
<1>1. /\ Len(q) \in Nat \ {0}
      /\ DOMAIN q = 1 .. Len(q)
      /\ DOMAIN Tail(q) = 1 .. Len(q) - 1
      /\ \A i \in 1 .. Len(q) - 1 : Tail(q)[i] = q[i + 1]
      /\ Head(q) = q[1]
  OBVIOUS
<1>2. \A i \in 1 .. Len(q) - 1 : i + 1 \in 1 .. Len(q) /\ 1 < i + 1 /\ 1 \in 1 .. Len(q)
  BY <1>1
<1>3. \A i, j \in 1 .. Len(q) - 1 : i < j => i + 1 < j + 1
  BY <1>1
<1>4. InOrder(l, Tail(q))
  BY <1>1, <1>2, <1>3 DEF InOrder
<1>5. Ahead(l, {Head(q)}, Range(Tail(q)))
  BY <1>1, <1>2 DEF InOrder, Ahead, Range
<1> QED BY <1>4, <1>5

\* The order of published messages does not change when the log grows.
LEMMA OrderStays ==
  ASSUME NEW l \in Seq(Message), IsInjective(l), NEW e \in Message, e \notin Range(l)
  PROVE  /\ \A q : Range(q) \subseteq Range(l) /\ InOrder(l, q) => InOrder(Append(l, e), q)
         /\ \A A, B : A \subseteq Range(l) /\ B \subseteq Range(l) /\ Ahead(l, A, B)
                        => Ahead(Append(l, e), A, B)
         /\ \A A : A \subseteq Range(l) => Ahead(Append(l, e), A, {e})
<1>1. \A m \in Range(l) : /\ PositionIn(Append(l, e), m) = PositionIn(l, m)
                          /\ PositionIn(l, m) < PositionIn(Append(l, e), e)
  BY PositionsStay
<1>2. ASSUME NEW q, Range(q) \subseteq Range(l), InOrder(l, q) PROVE InOrder(Append(l, e), q)
  BY <1>1, <1>2 DEF InOrder, Range
<1>3. ASSUME NEW A, NEW B, A \subseteq Range(l), B \subseteq Range(l), Ahead(l, A, B)
      PROVE  Ahead(Append(l, e), A, B)
  BY <1>1, <1>3 DEF Ahead
<1>4. ASSUME NEW A, A \subseteq Range(l) PROVE Ahead(Append(l, e), A, {e})
  BY <1>1, <1>4 DEF Ahead
<1> QED BY <1>2, <1>3, <1>4

\* Parts and unions of what is ahead.
LEMMA AheadParts ==
  ASSUME NEW l, NEW A, NEW B
  PROVE  /\ \A C, D : Ahead(l, A, B) /\ C \subseteq A /\ D \subseteq B => Ahead(l, C, D)
         /\ \A C : Ahead(l, A, B) /\ Ahead(l, A, C) => Ahead(l, A, B \cup C)
         /\ \A C : Ahead(l, A, B) /\ Ahead(l, C, B) => Ahead(l, A \cup C, B)
BY DEF Ahead

\* At first all lists are empty.
LEMMA OrderInit == Init => OrderInv
<1> SUFFICES ASSUME Init PROVE OrderInv
  OBVIOUS
<1>1. /\ Range(<<>>) = {} /\ DOMAIN <<>> = {}
      /\ ready = <<>> /\ handled = <<>> /\ log = <<>> /\ \A s \in Server : chan[s] = <<>>
  BY DEF Init, Range
<1>2. Current = {} /\ Fetched = {}
  BY <1>1 DEF Init, Current, Before, Fetched
<1> QED BY <1>1, <1>2 DEF OrderInv, InOrder, Ahead, IsInjective

\* Steps that take a message at most out of a consumer's hands or a channel.
LEMMA OrderKept ==
  ASSUME OrderInv, UNCHANGED <<log, handled, ready>>,
         \A s \in Server : chan'[s] = chan[s] \/ chan'[s] = <<>>,
         \A s \in Server, w \in Worker :
           Before(s, w)' => Before(s, w) /\ held'[s][w] = held[s][w]
  PROVE  OrderInv'
<1>1. Current' \subseteq Current
  BY DEF Current
<1>2. Fetched' \subseteq Fetched /\ \A s \in Server : InOrder(log, chan'[s])
  BY DEF Fetched, OrderInv, InOrder, Range
<1> QED BY <1>1, <1>2 DEF OrderInv, InOrder, Ahead, IsInjective

\* Add: the new message is the last of the log and the last of ready.
LEMMA AddOrder ==
  ASSUME TypeInv, OnceInv, OrderInv, NEW e \in Message, Add(e)
  PROVE  OrderInv'
<1>1. /\ ready' = Append(ready, e) /\ log' = Append(log, e) /\ e \notin Range(log)
      /\ UNCHANGED <<chan, handled, at, held>>
      /\ ready \in Seq(Message) /\ log \in Seq(Message)
  BY DEF Add, Published, processVars, TypeInv, RedisOK, HistoryOK
<1>2. /\ Range(ready) \subseteq Range(log) /\ Range(handled) \subseteq Range(log)
      /\ Current \subseteq Range(log) /\ Fetched \subseteq Range(log)
      /\ \A s \in Server : Range(chan[s]) \subseteq Range(log)
  BY DEF OnceInv, ReadyOnce, HandledOnce, HeldOnce, ChanOnce, Current, Fetched
<1>3. Current' = Current /\ Fetched' = Fetched /\ Range(ready') = Range(ready) \cup {e}
  BY <1>1, AppendRange DEF Current, Fetched, Before
<1>4. IsInjective(log) /\ IsInjective(log')
  BY <1>1, PositionsStay DEF OrderInv
<1>5. /\ InOrder(log', handled') /\ InOrder(log', ready)
      /\ \A s \in Server : InOrder(log', chan'[s])
  BY <1>1, <1>2, <1>4, OrderStays DEF OrderInv
<1>6. InOrder(log', ready')
  <2>1. Ahead(log', Range(ready), {e})
    BY <1>1, <1>2, <1>4, OrderStays
  <2> QED BY <1>1, <1>5, <2>1, AppendInOrder
<1>7. \A A, B : A \subseteq Range(log) /\ B \subseteq Range(log) /\ Ahead(log, A, B)
                  => Ahead(log', A, B \cup {e})
  BY <1>1, <1>4, OrderStays, AheadParts
<1>8. Ahead(log', Range(handled), (Current \cup Fetched \cup Range(ready)) \cup {e})
  BY <1>2, <1>7 DEF OrderInv
<1>9. Ahead(log', Current, (Fetched \cup Range(ready)) \cup {e})
  BY <1>2, <1>7 DEF OrderInv
<1>10. Ahead(log', Fetched, Range(ready) \cup {e})
  BY <1>2, <1>7 DEF OrderInv
<1>11. /\ (Current \cup Fetched \cup Range(ready)) \cup {e} = Current \cup Fetched \cup Range(ready')
       /\ (Fetched \cup Range(ready)) \cup {e} = Fetched \cup Range(ready')
  BY <1>3
<1> QED BY <1>1, <1>3, <1>4, <1>5, <1>6, <1>8, <1>9, <1>10, <1>11 DEF OrderInv

\* The fetch: the first of ready becomes the last of the channel.
LEMMA PrefetchOrder ==
  ASSUME TypeInv, OrderInv, NEW s \in Server, Prefetch(s)
  PROVE  OrderInv'
<1>1. PICK m : m = Head(ready)
  OBVIOUS
<1>2. /\ ready # <<>> /\ ready \in Seq(Message) /\ ready' = Tail(ready)
      /\ chan \in [Server -> Seq(Message)]
      /\ chan' = [chan EXCEPT ![s] = Append(@, m)]
      /\ UNCHANGED <<log, handled, at, held>>
  BY <1>1 DEF Prefetch, Fetch, TypeInv, RedisOK, ProcessOK, historyVars
<1>3. /\ m \in Message /\ m \in Range(ready)
      /\ Range(ready) = Range(ready') \cup {m}
  BY <1>1, <1>2, TailRange
<1>4. InOrder(log, ready') /\ Ahead(log, {m}, Range(ready'))
  BY <1>1, <1>2, TailInOrder DEF OrderInv
<1>5. chan'[s] = Append(chan[s], m) /\ \A u \in Server \ {s} : chan'[u] = chan[u]
  BY <1>2
<1>6. Range(chan'[s]) = Range(chan[s]) \cup {m}
  BY <1>2, <1>3, <1>5, AppendRange
<1>7. Fetched' = Fetched \cup {m} /\ Current' = Current
  BY <1>2, <1>5, <1>6 DEF Fetched, Current, Before
<1>8. \A u \in Server : InOrder(log, chan'[u])
  <2>1. Ahead(log, Range(chan[s]), {m})
    BY <1>3 DEF OrderInv, Ahead, Fetched
  <2> QED BY <1>2, <1>3, <1>5, <2>1, AppendInOrder DEF OrderInv
<1>9. /\ Ahead(log, Range(handled), Current \cup Fetched' \cup Range(ready'))
      /\ Ahead(log, Current, Fetched' \cup Range(ready'))
  BY <1>3, <1>7 DEF OrderInv, Ahead
<1>10. Ahead(log, Fetched', Range(ready'))
  BY <1>3, <1>4, <1>7 DEF OrderInv, Ahead
<1> QED BY <1>2, <1>4, <1>7, <1>8, <1>9, <1>10 DEF OrderInv

\* A fetch whose answer is lost takes the first message out of the order.
LEMMA PrefetchLostOrder ==
  ASSUME TypeInv, OrderInv, NEW s \in Server, PrefetchLost(s)
  PROVE  OrderInv'
<1>1. /\ ready # <<>> /\ ready \in Seq(Message) /\ ready' = Tail(ready)
      /\ UNCHANGED <<log, chan, handled, at, held>>
  BY DEF PrefetchLost, Fetch, TypeInv, RedisOK
<1>2. Range(ready') \subseteq Range(ready) /\ InOrder(log, ready')
  BY <1>1, TailRange, TailInOrder DEF OrderInv
<1>3. Current' = Current /\ Fetched' = Fetched
  BY <1>1 DEF Current, Fetched, Before
<1> QED BY <1>1, <1>2, <1>3 DEF OrderInv, Ahead

\* The one consumer takes the first of the one channel.
LEMMA TakeOrder ==
  ASSUME \A u \in Server, v \in Server : u = v, \A v \in Worker, x \in Worker : v = x,
         TypeInv, OrderInv, NEW s \in Server, NEW w \in Worker, Take(s, w)
  PROVE  OrderInv'
<1>1. PICK m : m = Head(chan[s])
  OBVIOUS
<1>2. /\ chan[s] # <<>> /\ chan \in [Server -> Seq(Message)]
      /\ chan' = [chan EXCEPT ![s] = Tail(@)]
      /\ held' = [held EXCEPT ![s][w] = m]
      /\ HeldType
      /\ UNCHANGED <<log, handled, ready>>
  BY <1>1 DEF Take, TypeInv, ProcessOK, ConsumersOK, redisVars, historyVars
<1>3. chan'[s] = Tail(chan[s]) /\ chan[s] \in Seq(Message) /\ held'[s][w] = m
  BY <1>2 DEF HeldType
<1>4. Range(chan[s]) = Range(chan'[s]) \cup {m}
  BY <1>1, <1>2, <1>3, TailRange
<1>5. InOrder(log, chan'[s]) /\ Ahead(log, {m}, Range(chan'[s]))
  BY <1>1, <1>2, <1>3, TailInOrder DEF OrderInv
<1>6. Fetched = Range(chan[s]) /\ Fetched' = Range(chan'[s])
  BY DEF Fetched
<1>7. Current' \subseteq {m}
  BY <1>3 DEF Current
<1>8. \A u \in Server : InOrder(log, chan'[u])
  BY <1>5
<1>9. /\ Ahead(log, Range(handled), Current' \cup Fetched' \cup Range(ready))
      /\ Ahead(log, Current', Fetched' \cup Range(ready))
      /\ Ahead(log, Fetched', Range(ready))
  BY <1>4, <1>5, <1>6, <1>7 DEF OrderInv, Ahead
<1> QED BY <1>2, <1>8, <1>9 DEF OrderInv

\* The handler is called with the delivery of the one consumer.
LEMMA CallHandlerOrder ==
  ASSUME \A u \in Server, v \in Server : u = v, \A v \in Worker, x \in Worker : v = x,
         TypeInv, OrderInv, NEW s \in Server, NEW w \in Worker, CallHandler(s, w)
  PROVE  OrderInv'
<1>1. PICK m : m = held[s][w]
  OBVIOUS
<1>2. /\ at[s][w] = "decode" /\ at' = [at EXCEPT ![s][w] = "handling"]
      /\ handled' = Append(handled, m)
      /\ handled \in Seq(Message) /\ m \in Message /\ AtType
      /\ UNCHANGED <<ready, chan, log, held>>
  BY <1>1 DEF CallHandler, Goto, TypeInv, HistoryOK, ConsumersOK, HoldsDelivery, redisVars
<1>3. m \in Current
  BY <1>1, <1>2 DEF Current, Before
<1>4. Current' = {}
  <2>1. at'[s][w] = "handling"
    BY <1>2 DEF AtType
  <2> QED BY <2>1 DEF Current, Before
<1>5. Range(handled') = Range(handled) \cup {m} /\ Fetched' = Fetched
  BY <1>2, AppendRange DEF Fetched
<1>6. InOrder(log, handled')
  <2>1. Ahead(log, Range(handled), {m})
    BY <1>3 DEF OrderInv, Ahead
  <2> QED BY <1>2, <2>1, AppendInOrder DEF OrderInv
<1>7. Ahead(log, Range(handled'), Fetched \cup Range(ready))
  BY <1>3, <1>5 DEF OrderInv, Ahead
<1>8. Ahead(log, {}, Fetched \cup Range(ready))
  BY DEF Ahead
<1>9. {} \cup Fetched \cup Range(ready) = Fetched \cup Range(ready)
  OBVIOUS
<1> QED BY <1>2, <1>4, <1>5, <1>6, <1>7, <1>8, <1>9 DEF OrderInv

\* Every step of a program with one consumer keeps the order.
LEMMA OrderNext ==
  ASSUME \A u \in Server, v \in Server : u = v, \A v \in Worker, x \in Worker : v = x
  PROVE  TypeInv /\ OnceInv /\ OrderInv /\ [Next]_vars => OrderInv'
<1> SUFFICES ASSUME TypeInv, OnceInv, OrderInv, [Next]_vars PROVE OrderInv'
  OBVIOUS
<1> USE DEF redisVars, processVars, historyVars, faultVars
<1>0. AtType /\ HeldType
  BY DEF TypeInv, ConsumersOK
<1>1. ASSUME UNCHANGED <<log, handled, ready, chan, at, held>> PROVE OrderInv'
  <2>1. \A s \in Server, w \in Worker : Before(s, w)' => Before(s, w) /\ held'[s][w] = held[s][w]
    BY <1>1 DEF Before
  <2> QED BY <1>1, <2>1, OrderKept
<1>2. ASSUME NEW s \in Server,
             \/ Run(s) \/ BatchEnds(s) \/ Cancel(s) \/ StopConsuming(s) \/ HeartbeatLost(s)
             \/ \E w \in Worker : RejectPushLost(s, w)
      PROVE  OrderInv'
  BY <1>1, <1>2 DEF Run, BatchEnds, Cancel, StopConsuming, HeartbeatLost, RejectPushLost
<1>3. ASSUME NEW s \in Server, Stopped(s) \/ Crash(s) PROVE OrderInv'
  <2>1. PICK state : EndProcess(s, state)
    BY <1>3 DEF Stopped, Crash
  <2>2. \A u \in Server, v \in Worker :
          Before(u, v)' => Before(u, v) /\ held'[u][v] = held[u][v]
    BY <1>0, <2>1, EndProcessLemma DEF Before
  <2>3. \A u \in Server : chan'[u] = chan[u] \/ chan'[u] = <<>>
    BY <2>1 DEF EndProcess, TypeInv, ProcessOK
  <2>4. UNCHANGED <<log, handled, ready>>
    BY <2>1 DEF EndProcess
  <2> QED BY <2>2, <2>3, <2>4, OrderKept
<1>4. ASSUME NEW s \in Server, NEW w \in Worker,
             \/ Consume(s, w) \/ Select(s, w) \/ RejectPush(s, w) \/ DecodeFails(s, w)
             \/ \E ok \in BOOLEAN : HandlerReturns(s, w, ok)
      PROVE  OrderInv'
  <2>1. UNCHANGED <<log, handled, ready, chan, held>>
    BY <1>4 DEF Consume, Select, RejectPush, DecodeFails, HandlerReturns
  <2>2. PICK state \in WorkerState :
          /\ Goto(s, w, state)
          /\ state \in {"select", "shedPush", "shedRemove", "decode"} => Before(s, w)
    BY <1>4 DEF Consume, Select, RejectPush, DecodeFails, HandlerReturns, WorkerState, Before
  <2>3. \A u \in Server, v \in Worker : Before(u, v)' => Before(u, v)
    BY <1>0, <2>2, GotoLemma DEF Before
  <2> QED BY <2>1, <2>3, OrderKept
<1>5. ASSUME NEW s \in Server, NEW w \in Worker,
             RejectRemove(s, w) \/ Ack(s, w) \/ GiveUp(s, w)
      PROVE  OrderInv'
  <2>1. UNCHANGED <<log, handled, ready, chan>>
    BY <1>5 DEF RejectRemove, Ack, GiveUp
  <2>2. \A u \in Server, v \in Worker :
          Before(u, v)' => Before(u, v) /\ held'[u][v] = held[u][v]
    <3>1. CASE Return(s, w)
      BY <1>0, <3>1, ReturnLemma DEF Before
    <3>2. CASE Goto(s, w, "decode") /\ UNCHANGED held /\ Before(s, w)
      <4>1. "decode" \in WorkerState
        BY DEF WorkerState
      <4> QED BY <1>0, <3>2, <4>1, GotoLemma DEF Before
    <3> QED BY <1>5, <3>1, <3>2 DEF RejectRemove, Ack, GiveUp, Before
  <2> QED BY <2>1, <2>2, OrderKept
<1>6. CASE UNCHANGED vars
  BY <1>1, <1>6 DEF vars
<1> QED BY <1>2, <1>3, <1>4, <1>5, <1>6, AddOrder, PrefetchOrder, PrefetchLostOrder, TakeOrder,
        CallHandlerOrder
        DEF Next, ServerStep, WorkerStep

(***************************************************************************)
(* A program that runs once, with a single consumer, handles the messages  *)
(* in the order of their Add, as queue_test.go expects, whatever of them   *)
(* is refused by the decoder, fails or is rejected on the way.             *)
(***************************************************************************)
THEOREM SingleConsumerInOrder ==
  ASSUME \A u \in Server, v \in Server : u = v, \A v \in Worker, x \in Worker : v = x
  PROVE  Spec => []HandledInOrder
<1>1. OrderInv => HandledInOrder
  BY DEF OrderInv, InOrder, HandledInOrder, PositionIn, Position
<1>2. TypeInv /\ OnceInv /\ OrderInv /\ [Next]_vars => OrderInv'
  BY OrderNext
<1> QED BY <1>1, <1>2, TypeInit, TypeNext, OnceInit, OnceNext, OrderInit, PTL DEF Spec
=============================================================================
