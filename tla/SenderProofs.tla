---------------------------- MODULE SenderProofs ----------------------------
(***************************************************************************)
(* What SendMessage and the remover do, for any number of consumers,       *)
(* messages, tokens and changes of the collections, any sizes of batches   *)
(* and of the buffer.                                                      *)
(***************************************************************************)
EXTENDS Sender, FiniteSetTheorems, SequenceTheorems, TLAPS

\* The tokens of a message, grouped by platform, as lists.
Groups == UNION {[P -> Seq(Token)] : P \in SUBSET Platform}

\* The types of the locals of SendMessage and of the buffer.
LocalsTyped ==
  /\ at \in [Worker -> WorkerState]
  /\ msg \in [Worker -> Message \cup {NoMessage}]
  /\ byProvider \in [Worker -> Groups]
  /\ nextBatch \in [Worker -> Seq(Token)]
  /\ batch \in [Worker -> Seq(Token)]
  /\ responses \in [Worker -> Seq(Verdict)]
  /\ \A w \in Worker : Len(responses[w]) <= Len(batch[w])
  /\ invalidTokens \in Seq(Token)

\* The platforms of the documents in the collection are platforms.
CollTyped == tokenColl \in TokenCollType

-----------------------------------------------------------------------------
\* An order of a set of tokens is a list without repetitions of just these.
LEMMA OrdersProperties ==
  ASSUME NEW S \in SUBSET Token, NEW ts \in Orders(S)
  PROVE  /\ ts \in Seq(Token)
         /\ \A i, j \in 1 .. Len(ts) : ts[i] = ts[j] => i = j
         /\ Range(ts) = S
<1>1. IsFiniteSet(S)
  BY FS_Subset, SenderAssumption
<1>2. Cardinality(S) \in Nat
  BY <1>1, FS_CardinalityType
<1>3. /\ ts \in [1 .. Cardinality(S) -> S]
      /\ \A i, j \in DOMAIN ts : ts[i] = ts[j] => i = j
      /\ \A t \in S : \E i \in 1 .. Cardinality(S) : ts[i] = t
  BY DEF Orders, Bijection, Injection, Surjection, IsInjective
<1>4. ts \in Seq(Token)
  BY <1>2, <1>3, IsASeq
<1>5. DOMAIN ts = 1 .. Len(ts)
  BY <1>4
<1>6. Range(ts) = S
  BY <1>3 DEF Range
<1> QED BY <1>3, <1>4, <1>5, <1>6

\* A batch and the rest of it are the list.
LEMMA Batching ==
  ASSUME NEW ts \in Seq(Token)
  PROVE  /\ FirstBatch(ts) \in Seq(Token)
         /\ RestOf(ts) \in Seq(Token)
         /\ Len(FirstBatch(ts)) + Len(RestOf(ts)) = Len(ts)
         /\ \A i \in 1 .. Len(FirstBatch(ts)) : FirstBatch(ts)[i] = ts[i]
         /\ \A i \in 1 .. Len(RestOf(ts)) : RestOf(ts)[i] = ts[Len(FirstBatch(ts)) + i]
<1>1. CASE Len(ts) > BatchSize
  <2>1. BatchSize \in Nat /\ BatchSize >= 1 /\ Len(ts) \in Nat
    BY SenderAssumption
  <2>2. FirstBatch(ts) = SubSeq(ts, 1, BatchSize)
    BY <1>1 DEF FirstBatch
  <2>3. RestOf(ts) = SubSeq(ts, BatchSize + 1, Len(ts))
    BY <1>1 DEF RestOf
  <2>4. /\ SubSeq(ts, 1, BatchSize) \in Seq(Token)
        /\ Len(SubSeq(ts, 1, BatchSize)) = BatchSize
        /\ \A i \in 1 .. BatchSize : SubSeq(ts, 1, BatchSize)[i] = ts[i]
    BY <1>1, <2>1
  <2>5. /\ SubSeq(ts, BatchSize + 1, Len(ts)) \in Seq(Token)
        /\ Len(SubSeq(ts, BatchSize + 1, Len(ts))) = Len(ts) - BatchSize
        /\ \A i \in 1 .. Len(ts) - BatchSize :
             SubSeq(ts, BatchSize + 1, Len(ts))[i] = ts[BatchSize + i]
    BY <1>1, <2>1
  <2> QED BY <2>1, <2>2, <2>3, <2>4, <2>5
<1>2. CASE ~(Len(ts) > BatchSize)
  BY <1>2 DEF FirstBatch, RestOf
<1> QED BY <1>1, <1>2

\* What it is to be a group.
LEMMA GroupsMember ==
  ASSUME NEW f
  PROVE  f \in Groups <=> \E P \in SUBSET Platform : f \in [P -> Seq(Token)]
BY DEF Groups

\* An empty list is no group at all.
LEMMA NoGroups == <<>> \in Groups /\ DOMAIN <<>> = {}
<1>1. <<>> \in [{} -> Seq(Token)] /\ DOMAIN <<>> = {}
  OBVIOUS
<1> QED BY <1>1, GroupsMember

\* Taking a group out leaves groups.
LEMMA WithoutTyped ==
  ASSUME NEW groups \in Groups, NEW p
  PROVE  /\ Without(groups, p) \in Groups
         /\ DOMAIN Without(groups, p) = DOMAIN groups \ {p}
         /\ \A q \in DOMAIN groups \ {p} : Without(groups, p)[q] = groups[q]
<1>1. PICK P \in SUBSET Platform : groups \in [P -> Seq(Token)]
  BY GroupsMember
<1>2. Without(groups, p) \in [P \ {p} -> Seq(Token)]
  BY <1>1 DEF Without, Restrict
<1> QED BY <1>1, <1>2, GroupsMember DEF Without, Restrict

-----------------------------------------------------------------------------
\* At first there is nothing to send.
LEMMA LocalsInit == Init => LocalsTyped /\ CollTyped
BY SenderAssumption, NoGroups DEF Init, LocalsTyped, CollTyped, WorkerState

\* The end of SendMessage leaves its locals empty.
LEMMA ReturnTyped ==
  ASSUME LocalsTyped, NEW w \in Worker, NEW result, Return(w, result),
         UNCHANGED invalidTokens
  PROVE  LocalsTyped'
BY NoGroups DEF LocalsTyped, Return, Goto, WorkerState

\* Every step keeps the types of the locals.
LEMMA LocalsNext == LocalsTyped /\ CollTyped /\ [Next]_vars => LocalsTyped'
<1> SUFFICES ASSUME LocalsTyped, CollTyped, [Next]_vars PROVE LocalsTyped'
  OBVIOUS
<1>1. ASSUME NEW w \in Worker, NEW m \in Message, Start(w, m) PROVE LocalsTyped'
  BY <1>1 DEF Start, Goto, LocalsTyped, WorkerState, removerVars
<1>2. ASSUME NEW w \in Worker, JobStep(w) PROVE LocalsTyped'
  <2>1. CASE FindAccounts(w) \/ BatchesDone(w) \/ ResponsesDone(w)
    BY <2>1 DEF FindAccounts, BatchesDone, ResponsesDone, Goto, LocalsTyped,
                WorkerState, removerVars
  <2>2. CASE FindNoTokens(w) \/ QueryFails(w) \/ PlatformsDone(w) \/ SendBatchFails(w)
    BY <2>2, ReturnTyped DEF FindNoTokens, QueryFails, PlatformsDone,
                SendBatchFails, removerVars
  <2>3. CASE FindTokens(w)
    <3> DEFINE found  == ActiveTokens(accountIds[w])
               of(p)  == {t \in found : tokenColl[t].platform = p}
               groups == {tokenColl[t].platform : t \in found}
    <3>1. PICK order \in [groups -> UNION {Orders(of(p)) : p \in groups}] :
            /\ \A p \in groups : order[p] \in Orders(of(p))
            /\ byProvider' = [byProvider EXCEPT ![w] = order]
      BY <2>3 DEF FindTokens
    <3>2. groups \subseteq Platform
      BY DEF CollTyped, TokenCollType, TokenDoc, ActiveTokens, Registered
    <3>3. \A p \in groups : order[p] \in Seq(Token)
      BY <3>1, OrdersProperties DEF ActiveTokens
    <3>4. order \in Groups
      <4>1. order \in [groups -> Seq(Token)]
        BY <3>1, <3>3
      <4> QED BY <3>2, <4>1, GroupsMember
    <3> QED BY <2>3, <3>1, <3>4 DEF FindTokens, Goto, LocalsTyped, WorkerState, removerVars
  <2>4. ASSUME NEW p \in DOMAIN byProvider[w], SkipPlatform(w, p) PROVE LocalsTyped'
    BY <2>4, WithoutTyped DEF SkipPlatform, LocalsTyped, removerVars
  <2>5. ASSUME NEW p \in DOMAIN byProvider[w], CallProvider(w, p) PROVE LocalsTyped'
    <3>1. byProvider[w] \in Groups /\ byProvider[w][p] \in Seq(Token)
      BY GroupsMember DEF LocalsTyped
    <3> QED BY <2>5, <3>1, WithoutTyped
            DEF CallProvider, Goto, LocalsTyped, WorkerState, removerVars
  <2>6. CASE SendBatch(w)
    <3>1. nextBatch[w] \in Seq(Token)
      BY DEF LocalsTyped
    <3>2. PICK verdicts \in [1 .. Len(FirstBatch(nextBatch[w])) -> Verdict] :
            responses' = [responses EXCEPT ![w] = verdicts]
      BY <2>6 DEF SendBatch
    <3>3. verdicts \in Seq(Verdict) /\ Len(verdicts) = Len(FirstBatch(nextBatch[w]))
      <4>1. Len(FirstBatch(nextBatch[w])) \in Nat
        BY <3>1, Batching, LenProperties
      <4> QED BY <4>1, <3>2
    <3> QED BY <2>6, <3>1, <3>2, <3>3, Batching
            DEF SendBatch, Goto, LocalsTyped, WorkerState, removerVars
  <2>7. CASE HandleResponse(w)
    <3>1. batch[w] \in Seq(Token) /\ responses[w] \in Seq(Verdict) /\ responses[w] # <<>>
          /\ Len(responses[w]) <= Len(batch[w])
      BY <2>7 DEF HandleResponse, LocalsTyped
    <3>2. Tail(responses[w]) \in Seq(Verdict) /\ Len(Tail(responses[w])) = Len(responses[w]) - 1
          /\ Len(responses[w]) >= 1
      BY <3>1
    <3>3. Answered(w) \in Token
      <4>1. Len(batch[w]) \in Nat /\ Len(responses[w]) \in Nat
        BY <3>1
      <4>2. 1 <= Len(responses[w]) /\ Len(responses[w]) <= Len(batch[w])
        BY <3>1, <3>2
      <4>3. \A b, r \in Nat : 1 <= r /\ r <= b => b - r + 1 \in 1 .. b
        OBVIOUS
      <4>4. Len(batch[w]) - Len(responses[w]) + 1 \in 1 .. Len(batch[w])
        BY <4>1, <4>2, <4>3
      <4> QED BY <3>1, <4>4, ElementOfSeq DEF Answered
    <3>4. invalidTokens' \in Seq(Token)
      <4>1. invalidTokens' = invalidTokens \/ invalidTokens' = Append(invalidTokens, Answered(w))
        BY <2>7 DEF HandleResponse, onInvalid
      <4>2. invalidTokens \in Seq(Token)
        BY DEF LocalsTyped
      <4> QED BY <3>3, <4>1, <4>2, AppendProperties
    <3>5. /\ responses' = [responses EXCEPT ![w] = Tail(responses[w])]
          /\ UNCHANGED <<at, msg, byProvider, nextBatch, batch>>
      BY <2>7 DEF HandleResponse
    <3>6. Len(responses'[w]) <= Len(batch'[w])
      BY <3>1, <3>2, <3>5 DEF LocalsTyped
    <3> QED BY <3>2, <3>4, <3>5, <3>6 DEF LocalsTyped
  <2> QED BY <1>2, <2>1, <2>2, <2>3, <2>4, <2>5, <2>6, <2>7 DEF JobStep
<1>3. CASE TakeInvalid \/ RemoveBatch \/ RemoveBatchFails \/ Close \/ Change
  <2>1. UNCHANGED jobVars /\ (invalidTokens' = invalidTokens \/ invalidTokens' = <<>>)
    BY <1>3 DEF TakeInvalid, RemoveBatch, RemoveBatchFails, Close, Change, removerVars
  <2>2. invalidTokens' \in Seq(Token)
    BY <2>1, EmptySeq DEF LocalsTyped
  <2> QED BY <2>1, <2>2 DEF LocalsTyped, jobVars
<1>4. CASE UNCHANGED vars
  BY <1>4 DEF vars, jobVars, removerVars, LocalsTyped
<1> QED BY <1>1, <1>2, <1>3, <1>4 DEF Next

\* Others, and the remover, leave a collection of typed documents.
LEMMA CollNext == CollTyped /\ [Next]_vars => CollTyped'
<1> SUFFICES ASSUME CollTyped, [Next]_vars PROVE CollTyped'
  OBVIOUS
<1>1. CASE Change
  <2>1. ASSUME NEW t \in Token, NEW a \in Account, NEW p \in Peer, NEW wire \in WirePlatform,
               AddToken(t, a, p, ToPlatform(wire))
        PROVE  CollTyped'
    <3>1. ToPlatform(wire) \in Platform
      BY SenderAssumption DEF ToPlatform, Platform
    <3> QED BY <2>1, <3>1 DEF AddToken, CollTyped, TokenCollType, TokenDoc, TokenStatus
  <2>2. ASSUME NEW a \in Account, NEW p \in Peer, RevokeToken(a, p) PROVE CollTyped'
    BY <2>2 DEF RevokeToken, CollTyped, TokenCollType
  <2>3. CASE UNCHANGED tokenColl
    BY <2>3 DEF CollTyped
  <2> QED BY <1>1, <2>1, <2>2, <2>3 DEF Change
<1>2. CASE RemoveBatch
  BY <1>2 DEF RemoveBatch, RemoveTokens, CollTyped, TokenCollType
<1>3. CASE UNCHANGED tokenColl
  BY <1>3 DEF CollTyped
<1> QED BY <1>1, <1>2, <1>3 DEF Next, Start, JobStep, FindAccounts, FindNoTokens, FindTokens,
     QueryFails, SkipPlatform, CallProvider, PlatformsDone, SendBatch, SendBatchFails,
     BatchesDone, HandleResponse, ResponsesDone, TakeInvalid, RemoveBatchFails, Close,
     collVars, vars

\* The types as an invariant of the specification.
LEMMA Typed == Spec => [](LocalsTyped /\ CollTyped)
BY LocalsInit, LocalsNext, CollNext, PTL DEF Spec

-----------------------------------------------------------------------------
\* FCM called t invalid in a response that a consumer has not handled yet.
OpenVerdict(w, t) ==
  \E j \in 1 .. Len(responses[w]) :
    /\ responses[w][j] = "invalid"
    /\ t = batch[w][Len(batch[w]) - Len(responses[w]) + j]

\* A verdict is open only between a call of FCM and the end of its responses,
\* and an open one is a verdict.
Matched ==
  \A w \in Worker :
    /\ at[w] # "responses" => responses[w] = <<>>
    /\ \A t : OpenVerdict(w, t) => t \in judged

\* A verdict that is not open is where onInvalid or the remover left it.
Followed ==
  \A t \in judged :
    \/ \E w \in Worker : OpenVerdict(w, t)
    \/ t \in Range(invalidTokens) \cup removing \cup purged \cup dropped

VerdictInv == Matched /\ Followed /\ OnlyJudgedRemoved

\* Open verdicts are the unreported ones of VerdictsKept.
LEMMA OpenIsUnreported ==
  ASSUME LocalsTyped, NEW w \in Worker, NEW t, OpenVerdict(w, t)
  PROVE  t \in Unreported
<1>1. PICK j \in 1 .. Len(responses[w]) :
        /\ responses[w][j] = "invalid"
        /\ t = batch[w][Len(batch[w]) - Len(responses[w]) + j]
  BY DEF OpenVerdict
<1> DEFINE i == Len(batch[w]) - Len(responses[w]) + j
<1>2. /\ Len(batch[w]) \in Nat
      /\ Len(responses[w]) \in Nat
      /\ Len(responses[w]) <= Len(batch[w])
      /\ DOMAIN batch[w] = 1 .. Len(batch[w])
  BY LenProperties DEF LocalsTyped
<1>3. \A b, r \in Nat : \A k \in 1 .. r : r <= b =>
        /\ b - r + k \in 1 .. b
        /\ b - r + k > b - r
        /\ (b - r + k) - b + r = k
  OBVIOUS
<1>4. /\ i \in DOMAIN batch[w]
      /\ i > Len(batch[w]) - Len(responses[w])
      /\ i - Len(batch[w]) + Len(responses[w]) = j
  BY <1>2, <1>3
<1>5. t = batch[w][i]
  BY <1>1
<1> HIDE DEF i
<1>6. t \in {batch[w][k] : k \in {l \in DOMAIN batch[w] :
                    /\ l > Len(batch[w]) - Len(responses[w])
                    /\ responses[w][l - Len(batch[w]) + Len(responses[w])] = "invalid"}}
  BY <1>1, <1>4, <1>5
<1> QED BY <1>6 DEF Unreported

\* Nothing is open where there are no responses.
LEMMA NoneOpen ==
  ASSUME NEW w \in Worker, responses[w] = <<>>
  PROVE  \A t : ~OpenVerdict(w, t)
BY EmptySeq DEF OpenVerdict

\* The response that comes next is about its own token: handling it settles
\* the verdict on this token and leaves the other ones open.
LEMMA NextResponse ==
  ASSUME LocalsTyped, NEW w \in Worker, HandleResponse(w)
  PROVE  /\ Head(responses[w]) = "invalid" => OpenVerdict(w, Answered(w))
         /\ \A t : OpenVerdict(w, t)' => OpenVerdict(w, t)
         /\ \A t : OpenVerdict(w, t) =>
              OpenVerdict(w, t)' \/ (t = Answered(w) /\ Head(responses[w]) = "invalid")
<1> DEFINE r == responses[w]
           b == batch[w]
           n == Len(batch[w]) - Len(responses[w])
<1>1. /\ r \in Seq(Verdict) /\ r # <<>>
      /\ responses' = [responses EXCEPT ![w] = Tail(r)]
      /\ batch' = batch
      /\ responses \in [Worker -> Seq(Verdict)]
  BY DEF HandleResponse, LocalsTyped
<1>2. /\ Len(r) \in Nat \ {0}
      /\ Head(r) = r[1]
      /\ Len(Tail(r)) = Len(r) - 1
      /\ \A j \in 1 .. Len(r) - 1 : Tail(r)[j] = r[j + 1]
  BY <1>1, HeadTailProperties, EmptySeq
<1>3. Len(b) \in Nat
  BY LenProperties DEF LocalsTyped
<1>4. Answered(w) = b[n + 1]
  BY DEF Answered
<1>5. \A t : OpenVerdict(w, t) <=> \E j \in 1 .. Len(r) : r[j] = "invalid" /\ t = b[n + j]
  BY DEF OpenVerdict
<1>6. \A t : OpenVerdict(w, t)' <=>
             \E j \in 1 .. Len(r) - 1 : r[j + 1] = "invalid" /\ t = b[n + (j + 1)]
  <2>1. responses'[w] = Tail(r) /\ batch'[w] = b
    BY <1>1
  <2>2. \A t : OpenVerdict(w, t)' <=>
               \E j \in 1 .. Len(Tail(r)) : Tail(r)[j] = "invalid"
                                            /\ t = b[Len(b) - Len(Tail(r)) + j]
    BY <2>1 DEF OpenVerdict
  <2>3. \A j \in 1 .. Len(r) - 1 : Len(b) - Len(Tail(r)) + j = n + (j + 1)
    <3>1. \A x, y \in Nat : \A j \in 1 .. y - 1 : x - (y - 1) + j = (x - y) + (j + 1)
      OBVIOUS
    <3> QED BY <1>2, <1>3, <3>1
  <2>4. ASSUME NEW t
        PROVE  (\E j \in 1 .. Len(Tail(r)) : Tail(r)[j] = "invalid"
                                            /\ t = b[Len(b) - Len(Tail(r)) + j])
               <=> \E j \in 1 .. Len(r) - 1 : r[j + 1] = "invalid" /\ t = b[n + (j + 1)]
    <3> HIDE DEF r, b, n
    <3> QED BY <1>2, <2>3
  <2> QED BY <2>2, <2>4
<1> HIDE DEF r, b, n
<1>7. \A j \in 1 .. Len(r) : j = 1 \/ (j - 1 \in 1 .. Len(r) - 1 /\ (j - 1) + 1 = j)
  BY <1>2
<1>8. \A j \in 1 .. Len(r) - 1 : j + 1 \in 1 .. Len(r)
  BY <1>2
<1>9. 1 \in 1 .. Len(r)
  BY <1>2
<1>10. Head(r) = "invalid" => OpenVerdict(w, Answered(w))
  BY <1>2, <1>4, <1>5, <1>9
<1>11. \A t : OpenVerdict(w, t)' => OpenVerdict(w, t)
  BY <1>5, <1>6, <1>8
<1>12. ASSUME NEW t, OpenVerdict(w, t)
       PROVE  OpenVerdict(w, t)' \/ (t = Answered(w) /\ Head(r) = "invalid")
  <2>1. PICK j \in 1 .. Len(r) : r[j] = "invalid" /\ t = b[n + j]
    BY <1>5, <1>12
  <2>2. CASE j = 1
    BY <1>2, <1>4, <2>1, <2>2
  <2>3. CASE j # 1
    BY <1>6, <1>7, <2>1, <2>3
  <2> QED BY <2>2, <2>3
<1> QED BY <1>10, <1>11, <1>12 DEF r

-----------------------------------------------------------------------------
\* At first there is no verdict.
LEMMA VerdictInit == Init => VerdictInv
<1> SUFFICES ASSUME Init PROVE VerdictInv
  OBVIOUS
<1>1. \A w \in Worker : responses[w] = <<>>
  BY DEF Init
<1>2. Range(invalidTokens) = {}
  BY EmptySeq DEF Init, Range
<1> QED BY <1>1, <1>2, NoneOpen DEF Init, VerdictInv, Matched, Followed, OnlyJudgedRemoved

\* A consumer's verdicts are open as long as its batch and responses stay.
LEMMA SameOpen ==
  ASSUME NEW w \in Worker, responses'[w] = responses[w], batch'[w] = batch[w]
  PROVE  \A t : OpenVerdict(w, t)' <=> OpenVerdict(w, t)
BY DEF OpenVerdict

\* Steps that neither call FCM, nor handle a response, nor remove tokens.
LEMMA VerdictsUndisturbed ==
  ASSUME VerdictInv,
         UNCHANGED <<invalidTokens, removing, judged, purged, dropped>>,
         \A w \in Worker :
           /\ at'[w] # "responses" => responses'[w] = <<>>
           /\ \/ responses'[w] = responses[w] /\ batch'[w] = batch[w]
              \/ responses[w] = <<>> /\ responses'[w] = <<>>
  PROVE  VerdictInv'
<1>1. ASSUME NEW w \in Worker, NEW t PROVE OpenVerdict(w, t)' <=> OpenVerdict(w, t)
  <2>1. CASE responses'[w] = responses[w] /\ batch'[w] = batch[w]
    BY <2>1, SameOpen
  <2>2. CASE responses[w] = <<>> /\ responses'[w] = <<>>
    <3>1. ~OpenVerdict(w, t)
      BY <2>2, NoneOpen
    <3>2. ~OpenVerdict(w, t)'
      BY <2>2, EmptySeq DEF OpenVerdict
    <3> QED BY <3>1, <3>2
  <2> QED BY <2>1, <2>2
<1>2. Matched'
  BY <1>1 DEF VerdictInv, Matched
<1>3. Followed'
  BY <1>1 DEF VerdictInv, Followed
<1>4. OnlyJudgedRemoved'
  BY DEF VerdictInv, OnlyJudgedRemoved
<1> QED BY <1>2, <1>3, <1>4 DEF VerdictInv

\* A call of FCM opens a verdict for each token it calls invalid.
LEMMA SendBatchVerdicts ==
  ASSUME LocalsTyped, VerdictInv, NEW w \in Worker, SendBatch(w)
  PROVE  VerdictInv'
<1> DEFINE ts == FirstBatch(nextBatch[w])
<1>1. PICK verdicts \in [1 .. Len(ts) -> Verdict] :
        /\ responses' = [responses EXCEPT ![w] = verdicts]
        /\ judged' = judged \cup {ts[i] : i \in {j \in DOMAIN verdicts : verdicts[j] = "invalid"}}
  BY DEF SendBatch
<1>2. ts \in Seq(Token)
  BY Batching DEF LocalsTyped
<1> HIDE DEF ts
<1>3. /\ verdicts \in Seq(Verdict)
      /\ Len(verdicts) = Len(ts)
      /\ DOMAIN verdicts = 1 .. Len(ts)
      /\ Len(ts) \in Nat
  <2>1. Len(ts) \in Nat
    BY <1>2, LenProperties
  <2> QED BY <1>1, <2>1
<1>4. /\ at[w] = "batches"
      /\ batch' = [batch EXCEPT ![w] = ts]
      /\ at' = [at EXCEPT ![w] = "responses"]
      /\ UNCHANGED <<invalidTokens, removing, purged, dropped>>
  BY DEF SendBatch, Goto, removerVars, ts
<1>5. responses[w] = <<>>
  BY <1>4 DEF VerdictInv, Matched
<1>6. /\ responses'[w] = verdicts
      /\ batch'[w] = ts
      /\ at'[w] = "responses"
      /\ \A v \in Worker \ {w} : /\ responses'[v] = responses[v]
                                 /\ batch'[v] = batch[v]
                                 /\ at'[v] = at[v]
  BY <1>1, <1>4 DEF LocalsTyped
<1>7. \A t : OpenVerdict(w, t)' <=>
             t \in {ts[i] : i \in {j \in DOMAIN verdicts : verdicts[j] = "invalid"}}
  <2>1. \A n \in Nat : \A j \in 1 .. n : n - n + j = j
    OBVIOUS
  <2>2. \A j \in 1 .. Len(ts) : Len(ts) - Len(ts) + j = j
    BY <1>3, <2>1
  <2>3. \A t : OpenVerdict(w, t)' <=>
               \E j \in 1 .. Len(ts) : verdicts[j] = "invalid" /\ t = ts[Len(ts) - Len(ts) + j]
    BY <1>3, <1>6 DEF OpenVerdict
  <2>4. \A t : OpenVerdict(w, t)' <=>
               \E j \in 1 .. Len(ts) : verdicts[j] = "invalid" /\ t = ts[j]
    BY <2>2, <2>3
  <2> QED BY <1>3, <2>4
<1>8. \A t : ~OpenVerdict(w, t)
  BY <1>5, NoneOpen
<1>9. \A v \in Worker \ {w} : \A t : OpenVerdict(v, t)' <=> OpenVerdict(v, t)
  BY <1>6, SameOpen
<1>10. Matched'
  <2>1. ASSUME NEW v \in Worker, NEW t, OpenVerdict(v, t)' PROVE t \in judged'
    BY <1>1, <1>7, <1>9, <2>1 DEF VerdictInv, Matched
  <2>2. ASSUME NEW v \in Worker, at'[v] # "responses" PROVE responses'[v] = <<>>
    BY <1>6, <2>2 DEF VerdictInv, Matched
  <2> QED BY <2>1, <2>2 DEF Matched
<1>11. Followed'
  <2> SUFFICES ASSUME NEW t \in judged'
               PROVE  \/ \E v \in Worker : OpenVerdict(v, t)'
                      \/ t \in (Range(invalidTokens) \cup removing \cup purged \cup dropped)'
    BY DEF Followed
  <2>1. CASE t \in judged
    BY <1>4, <1>8, <1>9, <2>1 DEF VerdictInv, Followed
  <2>2. CASE t \notin judged
    BY <1>1, <1>7, <2>2
  <2> QED BY <2>1, <2>2
<1>12. OnlyJudgedRemoved'
  BY <1>1, <1>4 DEF VerdictInv, OnlyJudgedRemoved
<1> QED BY <1>10, <1>11, <1>12 DEF VerdictInv

\* What is appended to the buffer is in it, with what was there.
LEMMA AppendedRange ==
  ASSUME NEW s \in Seq(Token), NEW t \in Token
  PROVE  Range(Append(s, t)) = Range(s) \cup {t}
<1>1. /\ Append(s, t) \in Seq(Token)
      /\ Len(Append(s, t)) = Len(s) + 1
      /\ \A i \in 1 .. Len(s) : Append(s, t)[i] = s[i]
      /\ Append(s, t)[Len(s) + 1] = t
      /\ Len(s) \in Nat
      /\ DOMAIN s = 1 .. Len(s)
      /\ DOMAIN Append(s, t) = 1 .. Len(s) + 1
  BY AppendProperties, LenProperties
<1>2. \A n \in Nat : 1 .. n + 1 = (1 .. n) \cup {n + 1}
  OBVIOUS
<1>3. DOMAIN Append(s, t) = DOMAIN s \cup {Len(s) + 1}
  BY <1>1, <1>2
<1> QED BY <1>1, <1>3 DEF Range

\* Reporting a token leaves it in the buffer or drops it, and loses no other.
LEMMA Reported ==
  ASSUME NEW t \in Token, invalidTokens \in Seq(Token), onInvalid(t)
  PROVE  (Range(invalidTokens) \cup dropped)' = Range(invalidTokens) \cup dropped \cup {t}
<1>1. CASE invalidTokens' = Append(invalidTokens, t) /\ UNCHANGED dropped
  BY <1>1, AppendedRange
<1>2. CASE dropped' = dropped \cup {t} /\ UNCHANGED invalidTokens
  BY <1>2
<1> QED BY <1>1, <1>2 DEF onInvalid

\* A response is handled: its verdict leads to its own token.
LEMMA HandleResponseVerdicts ==
  ASSUME LocalsTyped, VerdictInv, NEW w \in Worker, HandleResponse(w)
  PROVE  VerdictInv'
<1> DEFINE a == Answered(w)
           bad == Head(responses[w]) = "invalid"
<1>1. /\ at[w] = "responses"
      /\ responses' = [responses EXCEPT ![w] = Tail(responses[w])]
      /\ UNCHANGED <<at, batch, removing, purged, judged>>
      /\ IF bad THEN onInvalid(a) ELSE UNCHANGED <<invalidTokens, dropped>>
  BY DEF HandleResponse
<1>2. \A v \in Worker \ {w} : \A t : OpenVerdict(v, t)' <=> OpenVerdict(v, t)
  <2>1. \A v \in Worker \ {w} : responses'[v] = responses[v] /\ batch'[v] = batch[v]
    BY <1>1 DEF LocalsTyped
  <2> QED BY <2>1, SameOpen
<1>3. /\ bad => OpenVerdict(w, a)
      /\ \A t : OpenVerdict(w, t)' => OpenVerdict(w, t)
      /\ \A t : OpenVerdict(w, t) => OpenVerdict(w, t)' \/ (t = a /\ bad)
  BY NextResponse
<1>4. bad => a \in judged
  BY <1>3 DEF VerdictInv, Matched
<1>5. bad => a \in Token
  <2>1. /\ batch[w] \in Seq(Token) /\ responses[w] \in Seq(Verdict)
        /\ responses[w] # <<>>
        /\ Len(responses[w]) <= Len(batch[w])
    BY DEF HandleResponse, LocalsTyped
  <2>2. Len(batch[w]) \in Nat /\ Len(responses[w]) \in Nat /\ Len(responses[w]) >= 1
    BY <2>1
  <2>3. \A b, r \in Nat : 1 <= r /\ r <= b => b - r + 1 \in 1 .. b
    OBVIOUS
  <2>4. Len(batch[w]) - Len(responses[w]) + 1 \in 1 .. Len(batch[w])
    BY <2>1, <2>2, <2>3
  <2> QED BY <2>1, <2>4, ElementOfSeq DEF Answered
<1>6. invalidTokens \in Seq(Token)
  BY DEF LocalsTyped
<1> HIDE DEF a, bad
<1>7. (Range(invalidTokens) \cup dropped)' =
         Range(invalidTokens) \cup dropped \cup (IF bad THEN {a} ELSE {})
  <2>1. CASE bad
    BY <1>1, <1>5, <1>6, <2>1, Reported
  <2>2. CASE ~bad
    BY <1>1, <2>2
  <2> QED BY <2>1, <2>2
<1>8. Matched'
  <2>1. ASSUME NEW v \in Worker, NEW t, OpenVerdict(v, t)' PROVE t \in judged'
    BY <1>1, <1>2, <1>3, <2>1 DEF VerdictInv, Matched
  <2>2. ASSUME NEW v \in Worker, at'[v] # "responses" PROVE responses'[v] = <<>>
    BY <1>1, <2>2 DEF VerdictInv, Matched, LocalsTyped
  <2> QED BY <2>1, <2>2 DEF Matched
<1>9. Followed'
  <2> SUFFICES ASSUME NEW t \in judged'
               PROVE  \/ \E v \in Worker : OpenVerdict(v, t)'
                      \/ t \in (Range(invalidTokens) \cup dropped)' \cup removing' \cup purged'
    BY DEF Followed
  <2>1. t \in judged
    BY <1>1
  <2>2. CASE \E v \in Worker : OpenVerdict(v, t)
    BY <1>2, <1>3, <1>7, <2>2
  <2>3. CASE t \in Range(invalidTokens) \cup removing \cup purged \cup dropped
    BY <1>1, <1>7, <2>3
  <2> QED BY <2>1, <2>2, <2>3 DEF VerdictInv, Followed
<1>10. OnlyJudgedRemoved'
  <2>1. (Range(invalidTokens) \cup dropped)' \subseteq judged
    BY <1>4, <1>7 DEF VerdictInv, OnlyJudgedRemoved
  <2> QED BY <1>1, <2>1 DEF VerdictInv, OnlyJudgedRemoved
<1> QED BY <1>8, <1>9, <1>10 DEF VerdictInv

\* The remover passes tokens on, from the buffer to the database.
LEMMA RemoverVerdicts ==
  ASSUME VerdictInv, TakeInvalid \/ RemoveBatch \/ RemoveBatchFails
  PROVE  VerdictInv'
<1>1. UNCHANGED <<at, responses, batch, judged>>
  BY DEF TakeInvalid, RemoveBatch, RemoveBatchFails, jobVars, historyVars
<1>2. (Range(invalidTokens) \cup removing \cup purged \cup dropped)' =
         Range(invalidTokens) \cup removing \cup purged \cup dropped
  <2>1. CASE TakeInvalid
    <3>1. Range(<<>>) = {}
      BY EmptySeq DEF Range
    <3> QED BY <2>1, <3>1 DEF TakeInvalid, historyVars
  <2>2. CASE RemoveBatch
    BY <2>2 DEF RemoveBatch
  <2>3. CASE RemoveBatchFails
    BY <2>3 DEF RemoveBatchFails
  <2> QED BY <2>1, <2>2, <2>3
<1>3. \A w \in Worker : \A t : OpenVerdict(w, t)' <=> OpenVerdict(w, t)
  BY <1>1, SameOpen
<1>4. Matched'
  BY <1>1, <1>3 DEF VerdictInv, Matched
<1>5. Followed' /\ OnlyJudgedRemoved'
  BY <1>1, <1>2, <1>3 DEF VerdictInv, Followed, OnlyJudgedRemoved
<1> QED BY <1>4, <1>5 DEF VerdictInv

\* Every step keeps track of the verdicts.
LEMMA VerdictNext ==
  ASSUME LocalsTyped, VerdictInv, [Next]_vars
  PROVE  VerdictInv'
<1>1. ASSUME NEW w \in Worker, NEW m \in Message, Start(w, m) PROVE VerdictInv'
  <2>1. \A v \in Worker : at'[v] # "responses" => responses'[v] = <<>>
    BY <1>1 DEF Start, Goto, VerdictInv, Matched, LocalsTyped
  <2> QED BY <1>1, <2>1, VerdictsUndisturbed DEF Start, removerVars
<1>2. ASSUME NEW w \in Worker, JobStep(w) PROVE VerdictInv'
  <2>1. ASSUME FindAccounts(w) \/ FindTokens(w) \/ BatchesDone(w) \/ ResponsesDone(w)
               \/ \E p \in DOMAIN byProvider[w] : SkipPlatform(w, p) \/ CallProvider(w, p)
        PROVE  VerdictInv'
    <3>1. /\ UNCHANGED <<responses, batch, invalidTokens, removing, judged, purged, dropped>>
          /\ at' = at \/ \E state : at' = [at EXCEPT ![w] = state]
          /\ at[w] = "responses" => responses[w] = <<>>
      BY <2>1 DEF FindAccounts, FindTokens, BatchesDone, ResponsesDone, SkipPlatform,
                  CallProvider, Goto, removerVars, historyVars
    <3>2. \A v \in Worker : at'[v] # "responses" => responses'[v] = <<>>
      BY <3>1 DEF VerdictInv, Matched, LocalsTyped
    <3> QED BY <3>1, <3>2, VerdictsUndisturbed
  <2>2. CASE FindNoTokens(w) \/ QueryFails(w) \/ PlatformsDone(w) \/ SendBatchFails(w)
    <3>1. /\ UNCHANGED <<invalidTokens, removing, judged, purged, dropped>>
          /\ at[w] # "responses"
          /\ at' = [at EXCEPT ![w] = "idle"]
          /\ batch' = [batch EXCEPT ![w] = <<>>]
          /\ responses' = [responses EXCEPT ![w] = <<>>]
      BY <2>2 DEF FindNoTokens, QueryFails, PlatformsDone, SendBatchFails, Return, Goto,
                  removerVars
    <3>2. \A v \in Worker :
            /\ at'[v] # "responses" => responses'[v] = <<>>
            /\ \/ responses'[v] = responses[v] /\ batch'[v] = batch[v]
               \/ responses[v] = <<>> /\ responses'[v] = <<>>
      BY <3>1 DEF VerdictInv, Matched, LocalsTyped
    <3> QED BY <3>1, <3>2, VerdictsUndisturbed
  <2> QED BY <1>2, <2>1, <2>2, SendBatchVerdicts, HandleResponseVerdicts DEF JobStep
<1>3. CASE TakeInvalid \/ RemoveBatch \/ RemoveBatchFails
  BY <1>3, RemoverVerdicts
<1>4. CASE Close \/ Change \/ UNCHANGED vars
  <2>1. UNCHANGED <<at, responses, batch, invalidTokens, removing, judged, purged, dropped>>
    BY <1>4 DEF Close, Change, vars, jobVars, removerVars, historyVars
  <2>2. \A v \in Worker : at'[v] # "responses" => responses'[v] = <<>>
    BY <2>1 DEF VerdictInv, Matched
  <2> QED BY <2>1, <2>2, VerdictsUndisturbed
<1> QED BY <1>1, <1>2, <1>3, <1>4 DEF Next

(***************************************************************************)
(* No consumer, batch or response index makes the sender delete a token    *)
(* that FCM did not call invalid: HandleResponse takes each response for   *)
(* its own token, and the remover deletes what was in the buffer.          *)
(***************************************************************************)
THEOREM OnlyJudgedTokensRemoved == Spec => []OnlyJudgedRemoved
<1>1. VerdictInv => OnlyJudgedRemoved
  BY DEF VerdictInv
<1> QED BY <1>1, VerdictInit, VerdictNext, Typed, PTL DEF Spec

(***************************************************************************)
(* Each token that FCM called invalid is on its way to removeTokensBatch   *)
(* until it is deleted, or until onInvalid or the remover gave it up.      *)
(***************************************************************************)
THEOREM VerdictsNotForgotten == Spec => []VerdictsKept
<1>1. LocalsTyped /\ VerdictInv => VerdictsKept
  BY OpenIsUnreported DEF VerdictInv, Followed, VerdictsKept
<1> QED BY <1>1, VerdictInit, VerdictNext, Typed, PTL DEF Spec

-----------------------------------------------------------------------------
NoRepeats(ts) == \A i, j \in 1 .. Len(ts) : ts[i] = ts[j] => i = j

\* The tokens that a consumer has fetched and not yet put in a batch.
Left(w) == Range(nextBatch[w]) \cup UNION {Range(byProvider[w][p]) : p \in DOMAIN byProvider[w]}

\* The locals fit the place in SendMessage, and the message has no result yet.
LocalsMatch ==
  \A w \in Worker :
    /\ at[w] = "idle" <=> msg[w] = NoMessage
    /\ at[w] \in {"idle", "accounts", "tokens"} => DOMAIN byProvider[w] = {}
    /\ at[w] \in {"idle", "accounts", "tokens", "platforms"} => nextBatch[w] = <<>>
    /\ msg[w] # NoMessage => returned[msg[w]] = "nothing"

\* A message is with one consumer.
OneConsumer ==
  \A v, w \in Worker : msg[v] = msg[w] /\ msg[w] # NoMessage => v = w

\* No token is twice in what a consumer has left.
Apart(w) ==
  /\ NoRepeats(nextBatch[w])
  /\ \A p \in DOMAIN byProvider[w] :
       /\ NoRepeats(byProvider[w][p])
       /\ Range(byProvider[w][p]) \cap Range(nextBatch[w]) = {}
       /\ \A q \in DOMAIN byProvider[w] :
            p # q => Range(byProvider[w][p]) \cap Range(byProvider[w][q]) = {}

LocalsInv == LocalsMatch /\ OneConsumer /\ \A w \in Worker : Apart(w)

\* A list of no tokens.
LEMMA EmptyList == NoRepeats(<<>>) /\ Range(<<>>) = {}
BY EmptySeq DEF NoRepeats, Range

\* What a consumer has left depends on its two lists only.
LEMMA ApartKept ==
  ASSUME NEW w \in Worker, Apart(w), UNCHANGED <<byProvider[w], nextBatch[w]>>
  PROVE  Apart(w)'
BY DEF Apart

\* A consumer that has nothing left has no token twice.
LEMMA ApartEmpty ==
  ASSUME NEW w \in Worker, (DOMAIN byProvider[w])' = {}, nextBatch'[w] = <<>>
  PROVE  Apart(w)'
BY EmptyList DEF Apart

\* At first no consumer has anything.
LEMMA LocalsInvInit == Init => LocalsInv
<1> SUFFICES ASSUME Init PROVE LocalsInv
  OBVIOUS
<1>1. \A w \in Worker : /\ at[w] = "idle" /\ msg[w] = NoMessage
                        /\ DOMAIN byProvider[w] = {} /\ nextBatch[w] = <<>>
  BY NoGroups DEF Init
<1>2. \A w \in Worker : Apart(w)
  BY <1>1, EmptyList DEF Apart
<1> QED BY <1>1, <1>2 DEF LocalsInv, LocalsMatch, OneConsumer

\* The end of SendMessage frees the consumer and settles its message only.
LEMMA ReturnLocals ==
  ASSUME LocalsTyped, LocalsInv, NEW w \in Worker, NEW result, Return(w, result),
         at[w] # "idle", returned \in [Message -> {"nothing", "ok", "err"}]
  PROVE  LocalsInv'
<1>1. msg[w] \in Message
  BY DEF LocalsInv, LocalsMatch, LocalsTyped
<1>2. /\ at'[w] = "idle" /\ msg'[w] = NoMessage
      /\ byProvider'[w] = <<>> /\ nextBatch'[w] = <<>>
      /\ \A v \in Worker \ {w} :
           /\ at'[v] = at[v] /\ msg'[v] = msg[v]
           /\ byProvider'[v] = byProvider[v] /\ nextBatch'[v] = nextBatch[v]
      /\ \A m \in Message \ {msg[w]} : returned'[m] = returned[m]
  BY DEF Return, Goto, LocalsTyped
<1>3. \A v \in Worker \ {w} : msg[v] # msg[w]
  BY <1>1, SenderAssumption DEF LocalsInv, OneConsumer
<1>4. LocalsMatch'
  <2>1. \A v \in Worker \ {w} : msg[v] # NoMessage => returned'[msg[v]] = returned[msg[v]]
    BY <1>2, <1>3 DEF LocalsTyped
  <2> QED BY <1>2, <2>1, NoGroups DEF LocalsInv, LocalsMatch
<1>5. OneConsumer'
  BY <1>2 DEF LocalsInv, OneConsumer
<1>6. ASSUME NEW v \in Worker PROVE Apart(v)'
  BY <1>2, NoGroups, ApartEmpty, ApartKept DEF LocalsInv
<1> QED BY <1>4, <1>5, <1>6 DEF LocalsInv

\* The part of a batch that FCM took before the call failed.
LEMMA TakenPart ==
  ASSUME NEW ts \in Seq(Token), NoRepeats(ts), NEW n \in 0 .. Len(ts)
  PROVE  /\ SubSeq(ts, 1, n) \in Seq(Token)
         /\ NoRepeats(SubSeq(ts, 1, n))
         /\ Range(SubSeq(ts, 1, n)) \subseteq Range(ts)
<1> DEFINE p == SubSeq(ts, 1, n)
<1>1. /\ p \in Seq(Token) /\ Len(p) = n
      /\ \A i \in 1 .. n : p[i] = ts[i]
  OBVIOUS
<1> HIDE DEF p
<1>2. n \in Nat /\ 1 .. n \subseteq 1 .. Len(ts)
  BY LenProperties
<1>3. DOMAIN p = 1 .. n /\ DOMAIN ts = 1 .. Len(ts)
  BY <1>1, LenProperties
<1>4. NoRepeats(p)
  BY <1>1, <1>2 DEF NoRepeats
<1>5. Range(p) \subseteq Range(ts)
  BY <1>1, <1>2, <1>3 DEF Range
<1> QED BY <1>1, <1>4, <1>5 DEF p

\* The batches cut off a list are part of it, and have no token in common.
LEMMA BatchApart ==
  ASSUME NEW ts \in Seq(Token), NoRepeats(ts)
  PROVE  /\ NoRepeats(FirstBatch(ts))
         /\ NoRepeats(RestOf(ts))
         /\ Range(FirstBatch(ts)) \cup Range(RestOf(ts)) = Range(ts)
         /\ Range(FirstBatch(ts)) \cap Range(RestOf(ts)) = {}
<1> DEFINE f == FirstBatch(ts)
           r == RestOf(ts)
<1>1. /\ f \in Seq(Token) /\ r \in Seq(Token)
      /\ Len(f) + Len(r) = Len(ts)
      /\ \A i \in 1 .. Len(f) : f[i] = ts[i]
      /\ \A i \in 1 .. Len(r) : r[i] = ts[Len(f) + i]
  BY Batching
<1> HIDE DEF f, r
<1>2. /\ Len(f) \in Nat /\ Len(r) \in Nat /\ Len(ts) \in Nat
      /\ DOMAIN f = 1 .. Len(f) /\ DOMAIN r = 1 .. Len(r) /\ DOMAIN ts = 1 .. Len(ts)
  BY <1>1, LenProperties
<1>3. /\ \A i \in 1 .. Len(f) : i \in 1 .. Len(ts)
      /\ \A i \in 1 .. Len(r) : Len(f) + i \in 1 .. Len(ts)
      /\ \A i \in 1 .. Len(f), j \in 1 .. Len(r) : i # Len(f) + j
      /\ \A i, j \in 1 .. Len(r) : Len(f) + i = Len(f) + j => i = j
      /\ \A i \in 1 .. Len(ts) :
           i \in 1 .. Len(f) \/ (i - Len(f) \in 1 .. Len(r) /\ Len(f) + (i - Len(f)) = i)
  <2>1. \A a, b \in Nat :
          /\ \A i \in 1 .. a : i \in 1 .. a + b
          /\ \A i \in 1 .. b : a + i \in 1 .. a + b
          /\ \A i \in 1 .. a, j \in 1 .. b : i # a + j
          /\ \A i, j \in 1 .. b : a + i = a + j => i = j
          /\ \A i \in 1 .. a + b : i \in 1 .. a \/ (i - a \in 1 .. b /\ a + (i - a) = i)
    OBVIOUS
  <2> QED BY <1>1, <1>2, <2>1
<1>4. NoRepeats(f)
  BY <1>1, <1>3 DEF NoRepeats
<1>5. NoRepeats(r)
  BY <1>1, <1>3 DEF NoRepeats
<1>6. Range(f) \cup Range(r) \subseteq Range(ts)
  <2>1. ASSUME NEW i \in 1 .. Len(f) PROVE f[i] \in Range(ts)
    <3>1. i \in DOMAIN ts /\ f[i] = ts[i]
      BY <1>1, <1>2, <1>3
    <3> QED BY <3>1 DEF Range
  <2>2. ASSUME NEW i \in 1 .. Len(r) PROVE r[i] \in Range(ts)
    <3>1. Len(f) + i \in DOMAIN ts /\ r[i] = ts[Len(f) + i]
      BY <1>1, <1>2, <1>3
    <3> QED BY <3>1 DEF Range
  <2> QED BY <1>2, <2>1, <2>2 DEF Range
<1>7. Range(ts) \subseteq Range(f) \cup Range(r)
  <2> SUFFICES ASSUME NEW i \in 1 .. Len(ts) PROVE ts[i] \in Range(f) \cup Range(r)
    BY <1>2 DEF Range
  <2>1. CASE i \in 1 .. Len(f)
    BY <1>1, <1>2, <2>1 DEF Range
  <2>2. CASE i - Len(f) \in 1 .. Len(r) /\ Len(f) + (i - Len(f)) = i
    <3>1. r[i - Len(f)] = ts[i]
      BY <1>1, <2>2
    <3> QED BY <1>2, <2>2, <3>1 DEF Range
  <2> QED BY <1>3, <2>1, <2>2
<1>8. Range(f) \cap Range(r) = {}
  BY <1>1, <1>2, <1>3 DEF Range, NoRepeats
<1> QED BY <1>4, <1>5, <1>6, <1>7, <1>8 DEF f, r

\* The lists that FindTokens makes have no token in common, since a token is
\* on one platform.
LEMMA FoundApart ==
  ASSUME NEW order, NEW found \in SUBSET Token,
         DOMAIN order = {tokenColl[t].platform : t \in found},
         \A p \in DOMAIN order : order[p] \in Orders({t \in found : tokenColl[t].platform = p})
  PROVE  /\ \A p \in DOMAIN order :
              /\ NoRepeats(order[p])
              /\ Range(order[p]) = {t \in found : tokenColl[t].platform = p}
         /\ \A p, q \in DOMAIN order : p # q => Range(order[p]) \cap Range(order[q]) = {}
<1>1. ASSUME NEW p \in DOMAIN order
      PROVE  /\ NoRepeats(order[p])
             /\ Range(order[p]) = {t \in found : tokenColl[t].platform = p}
  <2>1. {t \in found : tokenColl[t].platform = p} \in SUBSET Token
    OBVIOUS
  <2> QED BY <2>1, OrdersProperties DEF NoRepeats
<1> QED BY <1>1

\* Every step keeps the lists apart and the messages with one consumer.
LEMMA LocalsInvNext ==
  ASSUME LocalsTyped, LocalsInv, [Next]_vars,
         returned \in [Message -> {"nothing", "ok", "err"}]
  PROVE  LocalsInv'
<1>1. ASSUME NEW w \in Worker, NEW m \in Message, Start(w, m) PROVE LocalsInv'
  <2>1. /\ at'[w] = "accounts" /\ msg'[w] = m /\ at[w] = "idle"
        /\ \A v \in Worker : msg[v] # m
        /\ \A v \in Worker \ {w} : at'[v] = at[v] /\ msg'[v] = msg[v]
        /\ UNCHANGED <<byProvider, nextBatch, returned>>
        /\ returned[m] = "nothing"
    BY <1>1 DEF Start, Goto, LocalsTyped
  <2>2. LocalsMatch'
    BY <2>1, SenderAssumption DEF LocalsInv, LocalsMatch
  <2>3. OneConsumer'
    BY <2>1 DEF LocalsInv, OneConsumer
  <2>4. \A v \in Worker : Apart(v)'
    BY <2>1, ApartKept DEF LocalsInv
  <2> QED BY <2>2, <2>3, <2>4 DEF LocalsInv
<1>2. ASSUME NEW w \in Worker, JobStep(w) PROVE LocalsInv'
  <2>1. CASE FindNoTokens(w) \/ QueryFails(w) \/ PlatformsDone(w) \/ SendBatchFails(w)
    BY <2>1, ReturnLocals DEF FindNoTokens, QueryFails, PlatformsDone, SendBatchFails
  <2>2. ASSUME FindAccounts(w) \/ BatchesDone(w) \/ ResponsesDone(w) \/ HandleResponse(w)
        PROVE  LocalsInv'
    <3>1. /\ UNCHANGED <<msg, byProvider, nextBatch, returned>>
          /\ \/ at[w] = "accounts" /\ at' = [at EXCEPT ![w] = "tokens"]
             \/ at[w] = "batches" /\ nextBatch[w] = <<>> /\ at' = [at EXCEPT ![w] = "platforms"]
             \/ at[w] = "responses" /\ at' = [at EXCEPT ![w] = "batches"]
             \/ at' = at
      BY <2>2 DEF FindAccounts, BatchesDone, ResponsesDone, HandleResponse, Goto, historyVars
    <3>2. LocalsMatch'
      BY <3>1 DEF LocalsInv, LocalsMatch, LocalsTyped
    <3>3. OneConsumer'
      BY <3>1 DEF LocalsInv, OneConsumer
    <3>4. \A v \in Worker : Apart(v)'
      BY <3>1, ApartKept DEF LocalsInv
    <3> QED BY <3>2, <3>3, <3>4 DEF LocalsInv
  <2>3. ASSUME FindTokens(w) PROVE LocalsInv'
    <3> DEFINE found  == ActiveTokens(accountIds[w])
               of(p)  == {t \in found : tokenColl[t].platform = p}
               groups == {tokenColl[t].platform : t \in found}
    <3>1. PICK order \in [groups -> UNION {Orders(of(p)) : p \in groups}] :
            /\ \A p \in groups : order[p] \in Orders(of(p))
            /\ byProvider' = [byProvider EXCEPT ![w] = order]
      BY <2>3 DEF FindTokens
    <3>2. found \in SUBSET Token /\ DOMAIN order = groups
      BY <3>1 DEF ActiveTokens
    <3>3. /\ \A p \in DOMAIN order : NoRepeats(order[p])
          /\ \A p, q \in DOMAIN order : p # q => Range(order[p]) \cap Range(order[q]) = {}
      <4>1. /\ DOMAIN order = {tokenColl[t].platform : t \in found}
            /\ \A p \in DOMAIN order : order[p] \in Orders({t \in found : tokenColl[t].platform = p})
        BY <3>1, <3>2
      <4> HIDE DEF found, of, groups
      <4> QED BY <3>2, <4>1, FoundApart
    <3>4. /\ at[w] = "tokens" /\ at' = [at EXCEPT ![w] = "platforms"]
          /\ UNCHANGED <<msg, nextBatch, returned>>
      BY <2>3 DEF FindTokens, Goto, historyVars
    <3>5. byProvider'[w] = order /\ \A v \in Worker \ {w} : byProvider'[v] = byProvider[v]
      BY <3>1 DEF LocalsTyped
    <3>6. nextBatch[w] = <<>>
      BY <3>4 DEF LocalsInv, LocalsMatch
    <3> HIDE DEF found, of, groups
    <3>7. LocalsMatch'
      BY <3>4, <3>5, <3>6 DEF LocalsInv, LocalsMatch, LocalsTyped
    <3>8. OneConsumer'
      BY <3>4 DEF LocalsInv, OneConsumer
    <3>9. Apart(w)'
      BY <3>3, <3>4, <3>5, <3>6, EmptyList DEF Apart
    <3>10. \A v \in Worker \ {w} : Apart(v)'
      BY <3>4, <3>5, ApartKept DEF LocalsInv
    <3> QED BY <3>7, <3>8, <3>9, <3>10 DEF LocalsInv
  <2>4. ASSUME NEW p \in DOMAIN byProvider[w], SkipPlatform(w, p) \/ CallProvider(w, p)
        PROVE  LocalsInv'
    <3>1. /\ at[w] = "platforms"
          /\ byProvider' = [byProvider EXCEPT ![w] = Without(@, p)]
          /\ UNCHANGED <<msg, returned>>
          /\ \/ UNCHANGED <<at, nextBatch>>
             \/ /\ at' = [at EXCEPT ![w] = "batches"]
                /\ nextBatch' = [nextBatch EXCEPT ![w] = byProvider[w][p]]
      BY <2>4 DEF SkipPlatform, CallProvider, Goto, historyVars
    <3>2. /\ (DOMAIN byProvider[w])' = DOMAIN byProvider[w] \ {p}
          /\ \A q \in DOMAIN byProvider[w] \ {p} : byProvider'[w][q] = byProvider[w][q]
          /\ \A v \in Worker \ {w} : byProvider'[v] = byProvider[v]
      <4>1. byProvider[w] \in Groups /\ byProvider \in [Worker -> Groups]
        BY DEF LocalsTyped
      <4>2. /\ byProvider'[w] = Without(byProvider[w], p)
            /\ \A v \in Worker \ {w} : byProvider'[v] = byProvider[v]
        BY <3>1, <4>1
      <4>3. /\ DOMAIN Without(byProvider[w], p) = DOMAIN byProvider[w] \ {p}
            /\ \A q \in DOMAIN byProvider[w] \ {p} : Without(byProvider[w], p)[q] = byProvider[w][q]
        BY <4>1, WithoutTyped
      <4> QED BY <4>2, <4>3
    <3>3. /\ nextBatch'[w] = nextBatch[w] \/ nextBatch'[w] = byProvider[w][p]
          /\ \A v \in Worker \ {w} : nextBatch'[v] = nextBatch[v]
      BY <3>1 DEF LocalsTyped
    <3>4. LocalsMatch'
      BY <3>1, <3>2 DEF LocalsInv, LocalsMatch, LocalsTyped
    <3>5. OneConsumer'
      BY <3>1 DEF LocalsInv, OneConsumer
    <3>6. Apart(w)'
      BY <3>2, <3>3 DEF LocalsInv, Apart
    <3>7. \A v \in Worker \ {w} : Apart(v)'
      BY <3>2, <3>3, ApartKept DEF LocalsInv
    <3> QED BY <3>4, <3>5, <3>6, <3>7 DEF LocalsInv
  <2>5. ASSUME SendBatch(w) PROVE LocalsInv'
    <3>1. /\ at[w] = "batches" /\ at' = [at EXCEPT ![w] = "responses"]
          /\ nextBatch' = [nextBatch EXCEPT ![w] = RestOf(nextBatch[w])]
          /\ UNCHANGED <<msg, byProvider, returned>>
      BY <2>5 DEF SendBatch, Goto
    <3>2. NoRepeats(RestOf(nextBatch[w])) /\ Range(RestOf(nextBatch[w])) \subseteq Range(nextBatch[w])
      BY BatchApart DEF LocalsTyped, LocalsInv, Apart
    <3>3. /\ nextBatch'[w] = RestOf(nextBatch[w])
          /\ \A v \in Worker \ {w} : nextBatch'[v] = nextBatch[v]
      BY <3>1 DEF LocalsTyped
    <3>4. LocalsMatch'
      BY <3>1 DEF LocalsInv, LocalsMatch, LocalsTyped
    <3>5. OneConsumer'
      BY <3>1 DEF LocalsInv, OneConsumer
    <3>6. Apart(w)'
      BY <3>1, <3>2, <3>3 DEF LocalsInv, Apart
    <3>7. \A v \in Worker \ {w} : Apart(v)'
      BY <3>1, <3>3, ApartKept DEF LocalsInv
    <3> QED BY <3>4, <3>5, <3>6, <3>7 DEF LocalsInv
  <2> QED BY <1>2, <2>1, <2>2, <2>3, <2>4, <2>5 DEF JobStep
<1>3. CASE TakeInvalid \/ RemoveBatch \/ RemoveBatchFails \/ Close \/ Change \/ UNCHANGED vars
  <2>1. UNCHANGED <<at, msg, byProvider, nextBatch, returned>>
    BY <1>3 DEF TakeInvalid, RemoveBatch, RemoveBatchFails, Close, Change, vars, jobVars,
                historyVars
  <2>2. \A v \in Worker : Apart(v)'
    BY <2>1, ApartKept DEF LocalsInv
  <2> QED BY <2>1, <2>2 DEF LocalsInv, LocalsMatch, OneConsumer
<1> QED BY <1>1, <1>2, <1>3 DEF Next

-----------------------------------------------------------------------------
\* A list without repetitions holds each of its tokens once.
LEMMA CountOnce ==
  ASSUME NEW ts \in Seq(Token), NoRepeats(ts), NEW t
  PROVE  Cardinality({i \in DOMAIN ts : ts[i] = t}) = IF t \in Range(ts) THEN 1 ELSE 0
<1>1. DOMAIN ts = 1 .. Len(ts)
  BY LenProperties
<1>2. CASE t \in Range(ts)
  <2>1. PICK i \in DOMAIN ts : ts[i] = t
    BY <1>2 DEF Range
  <2>2. {j \in DOMAIN ts : ts[j] = t} = {i}
    BY <1>1, <2>1 DEF NoRepeats
  <2> QED BY <1>2, <2>2, FS_Singleton
<1>3. CASE t \notin Range(ts)
  <2>1. {j \in DOMAIN ts : ts[j] = t} = {}
    BY <1>3 DEF Range
  <2> QED BY <1>3, <2>1, FS_EmptySet
<1> QED BY <1>2, <1>3

\* Offering a list without repetitions counts each of its tokens once more.
LEMMA OfferCounts ==
  ASSUME NEW m, NEW ts \in Seq(Token), NoRepeats(ts), Offer(m, ts),
         offered \in [Message -> [Token -> Nat]], m \in Message
  PROVE  /\ offered' \in [Message -> [Token -> Nat]]
         /\ \A n \in Message \ {m} : offered'[n] = offered[n]
         /\ \A t \in Token : offered'[m][t] =
                               IF t \in Range(ts) THEN offered[m][t] + 1 ELSE offered[m][t]
<1> DEFINE count(t) == Cardinality({i \in DOMAIN ts : ts[i] = t})
<1>1. \A t \in Token : count(t) = IF t \in Range(ts) THEN 1 ELSE 0
  BY CountOnce
<1>2. offered' = [offered EXCEPT ![m] = [t \in Token |-> @[t] + count(t)]]
  BY DEF Offer
<1> HIDE DEF count
<1>3. offered'[m] = [t \in Token |-> offered[m][t] + count(t)]
  BY <1>2
<1>4. \A t \in Token : offered'[m][t] =
                         IF t \in Range(ts) THEN offered[m][t] + 1 ELSE offered[m][t]
  BY <1>1, <1>3
<1>5. offered'[m] \in [Token -> Nat]
  <2>1. \A t \in Token : offered[m][t] + count(t) \in Nat
    BY <1>1
  <2> QED BY <1>3, <2>1
<1>6. \A n \in Message \ {m} : offered'[n] = offered[n]
  BY <1>2
<1>7. offered' \in [Message -> [Token -> Nat]]
  BY <1>2, <1>3, <1>5
<1> QED BY <1>4, <1>6, <1>7

\* The tokens a consumer has left were not offered its message.
LeftUnoffered ==
  \A w \in Worker : msg[w] # NoMessage => \A t \in Left(w) : offered[msg[w]][t] = 0

\* A message was offered for no token before its second query.
Untouched ==
  \A m \in Message :
    returned[m] = "nothing" /\ (\A w \in Worker : msg[w] = m => at[w] \in {"accounts", "tokens"})
      => \A t \in Token : offered[m][t] = 0

OfferedTyped ==
  /\ offered \in [Message -> [Token -> Nat]]
  /\ returned \in [Message -> {"nothing", "ok", "err"}]

OfferedInv == OfferedTyped /\ LeftUnoffered /\ Untouched /\ OfferedAtMostOnce

\* At first nothing was offered.
LEMMA OfferedInit == Init => OfferedInv
BY DEF Init, OfferedInv, OfferedTyped, LeftUnoffered, Untouched, OfferedAtMostOnce

LeftAreTokens == \A w \in Worker : Left(w) \subseteq Token

\* Only tokens are left.
LEMMA LeftTokens == LocalsTyped => LeftAreTokens
<1> SUFFICES ASSUME LocalsTyped, NEW w \in Worker PROVE Left(w) \subseteq Token
  BY DEF LeftAreTokens
<1>1. Range(nextBatch[w]) \subseteq Token
  BY ElementOfSeq, LenProperties DEF LocalsTyped, Range
<1>2. ASSUME NEW p \in DOMAIN byProvider[w] PROVE Range(byProvider[w][p]) \subseteq Token
  <2>1. byProvider[w][p] \in Seq(Token)
    BY GroupsMember DEF LocalsTyped
  <2> QED BY <2>1, ElementOfSeq, LenProperties DEF Range
<1> QED BY <1>1, <1>2 DEF Left

\* What is left gets smaller when a list does, and a step of one consumer
\* does not touch the other ones.
LEMMA LeftSame ==
  ASSUME NEW w \in Worker, UNCHANGED <<byProvider[w], nextBatch[w]>>
  PROVE  Left(w)' = Left(w)
BY DEF Left

\* Steps that offer nothing and end no call.
LEMMA OfferedKept ==
  ASSUME OfferedInv, UNCHANGED <<offered, returned>>,
         \A w \in Worker : msg'[w] # NoMessage =>
           (msg'[w] = msg[w] /\ Left(w)' \subseteq Left(w)) \/ Left(w)' = {},
         \A w \in Worker : /\ msg[w] # NoMessage => msg'[w] = msg[w]
                           /\ msg[w] \in Message /\ at'[w] \in {"accounts", "tokens"}
                                => at[w] \in {"accounts", "tokens"},
         NoMessage \notin Message
  PROVE  OfferedInv'
<1>1. LeftUnoffered'
  BY DEF OfferedInv, LeftUnoffered
<1>2. Untouched'
  <2> SUFFICES ASSUME NEW m \in Message, returned[m] = "nothing",
                      \A w \in Worker : msg'[w] = m => at'[w] \in {"accounts", "tokens"}
               PROVE  \A t \in Token : offered[m][t] = 0
    BY DEF Untouched
  <2>1. \A w \in Worker : msg[w] = m => at[w] \in {"accounts", "tokens"}
    OBVIOUS
  <2> QED BY <2>1 DEF OfferedInv, Untouched
<1> QED BY <1>1, <1>2 DEF OfferedInv, OfferedTyped, OfferedAtMostOnce

\* What offering tokens that are left, and are not left any more, does.
LEMMA OfferedOnce ==
  ASSUME LocalsTyped, LocalsInv, OfferedInv, NEW w \in Worker, at[w] # "idle",
         NEW ts \in Seq(Token), NoRepeats(ts), Range(ts) \subseteq Left(w),
         Offer(msg[w], ts)
  PROVE  /\ offered' \in [Message -> [Token -> Nat]]
         /\ OfferedAtMostOnce'
         /\ \A m \in Message \ {msg[w]} : offered'[m] = offered[m]
         /\ \A t \in Token \ Range(ts) : offered'[msg[w]][t] = offered[msg[w]][t]
<1>1. msg[w] \in Message
  BY DEF LocalsInv, LocalsMatch, LocalsTyped
<1>2. \A t \in Range(ts) : offered[msg[w]][t] = 0
  BY <1>1, SenderAssumption DEF OfferedInv, LeftUnoffered
<1>3. /\ offered' \in [Message -> [Token -> Nat]]
      /\ \A m \in Message \ {msg[w]} : offered'[m] = offered[m]
      /\ \A t \in Token : offered'[msg[w]][t] =
           IF t \in Range(ts) THEN offered[msg[w]][t] + 1 ELSE offered[msg[w]][t]
  BY <1>1, OfferCounts DEF OfferedInv, OfferedTyped
<1>4. \A t \in Token : offered'[msg[w]][t] <= 1
  <2> SUFFICES ASSUME NEW t \in Token PROVE offered'[msg[w]][t] <= 1
    OBVIOUS
  <2>1. CASE t \in Range(ts)
    BY <1>2, <1>3, <2>1
  <2>2. CASE t \notin Range(ts)
    BY <1>1, <1>3, <2>2 DEF OfferedInv, OfferedAtMostOnce
  <2> QED BY <2>1, <2>2
<1>5. OfferedAtMostOnce'
  BY <1>3, <1>4 DEF OfferedInv, OfferedAtMostOnce
<1> QED BY <1>3, <1>5

\* What SendMessage has done when it returns, whether its last batch went out
\* or not.
LEMMA ReturnOffered ==
  ASSUME LocalsTyped, LocalsInv, OfferedInv, NEW w \in Worker, at[w] # "idle",
         NEW result \in {"ok", "err"}, Return(w, result),
         offered' \in [Message -> [Token -> Nat]],
         OfferedAtMostOnce',
         \A m \in Message \ {msg[w]} : offered'[m] = offered[m]
  PROVE  OfferedInv'
<1>1. msg[w] \in Message
  BY DEF LocalsInv, LocalsMatch, LocalsTyped
<1>2. /\ msg'[w] = NoMessage
      /\ \A v \in Worker \ {w} : /\ msg'[v] = msg[v] /\ at'[v] = at[v]
                                 /\ UNCHANGED <<byProvider[v], nextBatch[v]>>
      /\ returned' = [returned EXCEPT ![msg[w]] = result]
  BY DEF Return, Goto, LocalsTyped
<1>3. \A v \in Worker \ {w} : msg[v] # msg[w]
  BY <1>1, SenderAssumption DEF LocalsInv, OneConsumer
<1>4. LeftUnoffered'
  <2> SUFFICES ASSUME NEW v \in Worker, msg'[v] # NoMessage, NEW t \in Left(v)'
               PROVE  offered'[msg'[v]][t] = 0
    BY DEF LeftUnoffered
  <2>1. v \in Worker \ {w} /\ msg'[v] = msg[v] /\ msg[v] \in Message \ {msg[w]}
    BY <1>2, <1>3 DEF LocalsTyped
  <2>2. t \in Left(v)
    BY <1>2, <2>1, LeftSame
  <2> QED BY <2>1, <2>2 DEF OfferedInv, LeftUnoffered
<1>5. Untouched'
  <2> SUFFICES ASSUME NEW m \in Message, returned'[m] = "nothing",
                      \A v \in Worker : msg'[v] = m => at'[v] \in {"accounts", "tokens"}
               PROVE  \A t \in Token : offered'[m][t] = 0
    BY DEF Untouched
  <2>1. m # msg[w]
    BY <1>1, <1>2 DEF OfferedInv, OfferedTyped
  <2>2. \A v \in Worker : msg[v] = m => at[v] \in {"accounts", "tokens"}
    BY <1>2, <2>1
  <2>3. returned[m] = "nothing"
    BY <1>2, <2>1 DEF OfferedInv, OfferedTyped
  <2> QED BY <2>1, <2>2, <2>3 DEF OfferedInv, Untouched
<1>6. returned' \in [Message -> {"nothing", "ok", "err"}]
  BY <1>1, <1>2 DEF OfferedInv, OfferedTyped
<1> QED BY <1>4, <1>5, <1>6 DEF OfferedInv, OfferedTyped

\* Every step offers tokens only that were not offered the message yet.
LEMMA OfferedNext ==
  ASSUME LocalsTyped, LeftAreTokens', LocalsInv, OfferedInv, [Next]_vars
  PROVE  OfferedInv'
<1> USE SenderAssumption
<1>1. ASSUME NEW w \in Worker, NEW m \in Message, Start(w, m) PROVE OfferedInv'
  <2>1. /\ at[w] = "idle" /\ msg'[w] = m /\ at'[w] = "accounts"
        /\ \A v \in Worker \ {w} : msg'[v] = msg[v] /\ at'[v] = at[v]
        /\ UNCHANGED <<byProvider, nextBatch, offered, returned>>
    BY <1>1 DEF Start, Goto, LocalsTyped
  <2>2. msg[w] = NoMessage /\ DOMAIN byProvider[w] = {} /\ nextBatch[w] = <<>>
    BY <2>1 DEF LocalsInv, LocalsMatch
  <2>3. Left(w)' = {}
    <3>1. (DOMAIN byProvider[w])' = {} /\ Range(nextBatch'[w]) = {}
      BY <2>1, <2>2, EmptyList
    <3> QED BY <3>1 DEF Left
  <2>4. \A v \in Worker : Left(v)' = Left(v)
    BY <2>1, LeftSame
  <2> QED BY <2>1, <2>2, <2>3, <2>4, OfferedKept
<1>2. ASSUME NEW w \in Worker, JobStep(w) PROVE OfferedInv'
  <2>1. ASSUME FindAccounts(w) \/ BatchesDone(w) \/ ResponsesDone(w) \/ HandleResponse(w)
        PROVE  OfferedInv'
    <3>1. /\ UNCHANGED <<msg, byProvider, nextBatch, offered, returned>>
          /\ \/ at[w] = "accounts" /\ at' = [at EXCEPT ![w] = "tokens"]
             \/ \E s \in {"platforms", "batches"} : at' = [at EXCEPT ![w] = s]
             \/ at' = at
      BY <2>1 DEF FindAccounts, BatchesDone, ResponsesDone, HandleResponse, Goto, historyVars
    <3>2. \A v \in Worker : Left(v)' = Left(v)
      BY <3>1, LeftSame
    <3>3. \A v \in Worker : at'[v] \in {"accounts", "tokens"} => at[v] \in {"accounts", "tokens"}
      BY <3>1 DEF LocalsTyped
    <3> QED BY <3>1, <3>2, <3>3, OfferedKept
  <2>2. ASSUME FindTokens(w) PROVE OfferedInv'
    <3>1. /\ at[w] = "tokens" /\ at' = [at EXCEPT ![w] = "platforms"]
          /\ \E order : byProvider' = [byProvider EXCEPT ![w] = order]
          /\ UNCHANGED <<msg, nextBatch, offered, returned>>
      BY <2>2 DEF FindTokens, Goto, historyVars
    <3>2. \A v \in Worker \ {w} : UNCHANGED <<byProvider[v], nextBatch[v], msg[v], at[v]>>
      BY <3>1 DEF LocalsTyped
    <3>3. msg[w] \in Message /\ returned[msg[w]] = "nothing"
      BY <3>1 DEF LocalsInv, LocalsMatch, LocalsTyped
    <3>4. \A t \in Token : offered[msg[w]][t] = 0
      <4>1. \A v \in Worker : msg[v] = msg[w] => at[v] \in {"accounts", "tokens"}
        BY <3>1, <3>3 DEF LocalsInv, OneConsumer
      <4> QED BY <3>3, <4>1 DEF OfferedInv, Untouched
    <3>5. LeftUnoffered'
      <4> SUFFICES ASSUME NEW v \in Worker, msg'[v] # NoMessage, NEW t \in Left(v)'
                   PROVE  offered'[msg'[v]][t] = 0
        BY DEF LeftUnoffered
      <4>1. CASE v = w
        <5>1. Left(w)' \subseteq Token
          BY DEF LeftAreTokens
        <5> QED BY <3>1, <3>4, <4>1, <5>1
      <4>2. CASE v # w
        BY <3>1, <3>2, <4>2, LeftSame DEF OfferedInv, LeftUnoffered
      <4> QED BY <4>1, <4>2
    <3>6. Untouched'
      <4> SUFFICES ASSUME NEW m \in Message, returned[m] = "nothing",
                          \A v \in Worker : msg[v] = m => at'[v] \in {"accounts", "tokens"}
                   PROVE  \A t \in Token : offered[m][t] = 0
        BY <3>1 DEF Untouched
      <4>1. \A v \in Worker : msg[v] = m => at[v] \in {"accounts", "tokens"}
        BY <3>1, <3>2
      <4> QED BY <4>1 DEF OfferedInv, Untouched
    <3> QED BY <3>1, <3>5, <3>6 DEF OfferedInv, OfferedTyped, OfferedAtMostOnce
  <2>3. ASSUME NEW p \in DOMAIN byProvider[w], SkipPlatform(w, p) \/ CallProvider(w, p)
        PROVE  OfferedInv'
    <3>1. /\ at[w] = "platforms"
          /\ byProvider' = [byProvider EXCEPT ![w] = Without(@, p)]
          /\ UNCHANGED <<msg, offered, returned>>
          /\ \/ UNCHANGED <<at, nextBatch>>
             \/ /\ at' = [at EXCEPT ![w] = "batches"]
                /\ nextBatch' = [nextBatch EXCEPT ![w] = byProvider[w][p]]
      BY <2>3 DEF SkipPlatform, CallProvider, Goto, historyVars
    <3>2. byProvider[w] \in Groups /\ byProvider \in [Worker -> Groups]
      BY DEF LocalsTyped
    <3>3. /\ DOMAIN Without(byProvider[w], p) = DOMAIN byProvider[w] \ {p}
          /\ \A q \in DOMAIN byProvider[w] \ {p} : Without(byProvider[w], p)[q] = byProvider[w][q]
      BY <3>2, WithoutTyped
    <3>4. /\ (DOMAIN byProvider[w])' = DOMAIN byProvider[w] \ {p}
          /\ \A q \in DOMAIN byProvider[w] \ {p} : byProvider'[w][q] = byProvider[w][q]
          /\ nextBatch'[w] = nextBatch[w] \/ nextBatch'[w] = byProvider[w][p]
          /\ \A v \in Worker \ {w} : UNCHANGED <<byProvider[v], nextBatch[v]>>
      BY <3>1, <3>2, <3>3 DEF LocalsTyped
    <3>5. Left(w)' \subseteq Left(w)
      BY <3>4 DEF Left
    <3>6. \A v \in Worker : Left(v)' \subseteq Left(v)
      BY <3>4, <3>5, LeftSame
    <3>7. \A v \in Worker : at'[v] \in {"accounts", "tokens"} => at[v] \in {"accounts", "tokens"}
      BY <3>1 DEF LocalsTyped
    <3> QED BY <3>1, <3>6, <3>7, OfferedKept
  <2>4. ASSUME FindNoTokens(w) \/ QueryFails(w) \/ PlatformsDone(w) PROVE OfferedInv'
    <3>1. /\ at[w] # "idle"
          /\ UNCHANGED offered
          /\ Return(w, "ok") \/ Return(w, "err")
      BY <2>4 DEF FindNoTokens, QueryFails, PlatformsDone
    <3>2. /\ offered' \in [Message -> [Token -> Nat]] /\ OfferedAtMostOnce'
          /\ \A m \in Message \ {msg[w]} : offered'[m] = offered[m]
      BY <3>1 DEF OfferedInv, OfferedTyped, OfferedAtMostOnce
    <3> QED BY <3>1, <3>2, ReturnOffered
  <2>5. ASSUME SendBatch(w) \/ SendBatchFails(w) PROVE OfferedInv'
    <3> DEFINE f == FirstBatch(nextBatch[w])
               r == RestOf(nextBatch[w])
    <3>1. /\ nextBatch[w] \in Seq(Token) /\ NoRepeats(nextBatch[w])
          /\ \A p \in DOMAIN byProvider[w] :
               Range(byProvider[w][p]) \cap Range(nextBatch[w]) = {}
      BY DEF LocalsTyped, LocalsInv, Apart
    <3>2. /\ f \in Seq(Token) /\ NoRepeats(f)
          /\ Range(f) \cup Range(r) = Range(nextBatch[w])
          /\ Range(f) \cap Range(r) = {}
      BY <3>1, Batching, BatchApart
    <3>3. Range(f) \subseteq Left(w)
      BY <3>2 DEF Left
    <3>4. at[w] = "batches"
      BY <2>5 DEF SendBatch, SendBatchFails
    <3>5. msg[w] \in Message
      BY <3>4 DEF LocalsInv, LocalsMatch, LocalsTyped
    <3> HIDE DEF f, r
    <3>6. ASSUME Offer(msg[w], f)
          PROVE  /\ offered' \in [Message -> [Token -> Nat]]
                 /\ OfferedAtMostOnce'
                 /\ \A m \in Message \ {msg[w]} : offered'[m] = offered[m]
                 /\ \A t \in Token \ Range(f) : offered'[msg[w]][t] = offered[msg[w]][t]
      BY <3>2, <3>3, <3>4, <3>6, OfferedOnce
    <3>7. CASE SendBatchFails(w)
      <4>1. /\ offered' \in [Message -> [Token -> Nat]] /\ OfferedAtMostOnce'
            /\ \A m \in Message \ {msg[w]} : offered'[m] = offered[m]
        <5>1. PICK n \in 0 .. Len(f) : Offer(msg[w], SubSeq(f, 1, n))
          BY <3>7 DEF SendBatchFails, f
        <5>2. PICK taken : taken = SubSeq(f, 1, n)
          OBVIOUS
        <5>3. taken \in Seq(Token) /\ NoRepeats(taken) /\ Range(taken) \subseteq Left(w)
          BY <3>2, <3>3, <5>2, TakenPart
        <5> QED BY <3>4, <5>1, <5>2, <5>3, OfferedOnce
      <4>2. Return(w, "err")
        BY <3>7 DEF SendBatchFails
      <4> QED BY <3>4, <4>1, <4>2, ReturnOffered
    <3>8. CASE SendBatch(w)
      <4>1. /\ Offer(msg[w], f)
            /\ nextBatch' = [nextBatch EXCEPT ![w] = r]
            /\ at' = [at EXCEPT ![w] = "responses"]
            /\ UNCHANGED <<msg, byProvider, returned>>
        BY <3>8 DEF SendBatch, Goto, f, r
      <4>2. /\ nextBatch'[w] = r
            /\ \A v \in Worker \ {w} : UNCHANGED <<byProvider[v], nextBatch[v], at[v]>>
        BY <4>1 DEF LocalsTyped
      <4>3. Left(w)' \subseteq Left(w) \ Range(f)
        BY <3>1, <3>2, <4>1, <4>2 DEF Left
      <4>4. \A v \in Worker \ {w} : Left(v)' = Left(v) /\ msg[v] # msg[w]
        BY <3>5, <4>2, LeftSame DEF LocalsInv, OneConsumer
      <4>5. LeftUnoffered'
        <5> SUFFICES ASSUME NEW v \in Worker, msg[v] # NoMessage, NEW t \in Left(v)'
                     PROVE  offered'[msg[v]][t] = 0
          BY <4>1 DEF LeftUnoffered
        <5>1. CASE v = w
          <6>1. t \in Left(w) \ Range(f) /\ t \in Token
            BY <4>3, <5>1, LeftTokens DEF LeftAreTokens
          <6> QED BY <3>6, <4>1, <5>1, <6>1 DEF OfferedInv, LeftUnoffered
        <5>2. CASE v # w
          <6>1. t \in Left(v) /\ msg[v] \in Message \ {msg[w]}
            BY <4>4, <5>2 DEF LocalsTyped
          <6> QED BY <3>6, <4>1, <6>1 DEF OfferedInv, LeftUnoffered
        <5> QED BY <5>1, <5>2
      <4>6. Untouched'
        <5> SUFFICES ASSUME NEW m \in Message, returned[m] = "nothing",
                            \A v \in Worker : msg[v] = m => at'[v] \in {"accounts", "tokens"}
                     PROVE  \A t \in Token : offered'[m][t] = 0
          BY <4>1 DEF Untouched
        <5>1. m # msg[w]
          BY <4>1 DEF LocalsTyped
        <5>2. \A v \in Worker : msg[v] = m => at[v] \in {"accounts", "tokens"}
          BY <4>2, <5>1
        <5>3. offered'[m] = offered[m]
          BY <3>6, <4>1, <5>1
        <5> QED BY <5>2, <5>3 DEF OfferedInv, Untouched
      <4> QED BY <3>6, <4>1, <4>5, <4>6 DEF OfferedInv, OfferedTyped
    <3> QED BY <2>5, <3>7, <3>8
  <2> QED BY <1>2, <2>1, <2>2, <2>3, <2>4, <2>5 DEF JobStep
<1>3. CASE TakeInvalid \/ RemoveBatch \/ RemoveBatchFails \/ Close \/ Change \/ UNCHANGED vars
  <2>1. UNCHANGED <<at, msg, byProvider, nextBatch, offered, returned>>
    BY <1>3 DEF TakeInvalid, RemoveBatch, RemoveBatchFails, Close, Change, vars, jobVars,
                historyVars
  <2>2. \A v \in Worker : Left(v)' = Left(v)
    BY <2>1, LeftSame
  <2> QED BY <2>1, <2>2, OfferedKept
<1> QED BY <1>1, <1>2, <1>3 DEF Next

\* The locals and the offers as an invariant of the specification.
LEMMA OfferedAlways == Spec => [](LocalsInv /\ OfferedInv)
<1>1. LocalsTyped /\ LocalsInv /\ OfferedInv /\ [Next]_vars => LocalsInv'
  BY LocalsInvNext DEF OfferedInv, OfferedTyped
<1>2. LocalsTyped /\ LeftAreTokens' /\ LocalsInv /\ OfferedInv /\ [Next]_vars => OfferedInv'
  BY OfferedNext
<1> QED BY <1>1, <1>2, LocalsInvInit, OfferedInit, LeftTokens, Typed, PTL DEF Spec

(***************************************************************************)
(* SendMessage and the provider's loop over its batches offer FCM a        *)
(* message for a token at most once, however the tokens are grouped, in    *)
(* whatever order the platforms come, and whatever fails in between.       *)
(***************************************************************************)
THEOREM NoTokenTwice == Spec => []OfferedAtMostOnce
<1>1. OfferedInv => OfferedAtMostOnce
  BY DEF OfferedInv
<1> QED BY <1>1, OfferedAlways, PTL

-----------------------------------------------------------------------------
\* The types that the lists do not need.
OthersTyped ==
  /\ accountColl \in AccountCollType
  /\ changes \in 0 .. MaxChanges
  /\ accountIds \in [Worker -> SUBSET Account]
  /\ Len(invalidTokens) <= BufferSize
  /\ closed \in BOOLEAN
  /\ removing \in SUBSET Token
  /\ stable \in [Message -> SUBSET Token]
  /\ undisturbed \in SUBSET Message
  /\ judged \in SUBSET Token
  /\ purged \in SUBSET Token
  /\ dropped \in SUBSET Token

\* At first every variable has its type.
LEMMA OthersInit == Init => OthersTyped
<1>1. Len(<<>>) = 0 /\ 0 <= BufferSize /\ 0 \in 0 .. MaxChanges
  BY EmptySeq, SenderAssumption
<1>2. InitialAccounts \subseteq AccountCollType
  BY SenderAssumption
<1> QED BY <1>1, <1>2 DEF Init, OthersTyped

\* A change of the collections keeps the types of the histories.
LEMMA DisturbTyped ==
  ASSUME OthersTyped, LocalsTyped, Disturb
  PROVE  stable' \in [Message -> SUBSET Token] /\ undisturbed' \in SUBSET Message
BY DEF Disturb, OthersTyped

\* A call of FCM judges tokens.
LEMMA SendBatchTyped ==
  ASSUME OthersTyped, LocalsTyped, NEW w \in Worker, SendBatch(w)
  PROVE  OthersTyped'
<1>1. PICK ts : ts = FirstBatch(nextBatch[w])
  OBVIOUS
<1>2. ts \in Seq(Token)
  BY <1>1, Batching DEF LocalsTyped
<1>3. PICK verdicts \in [1 .. Len(ts) -> Verdict] :
        judged' = judged \cup {ts[i] : i \in {j \in DOMAIN verdicts : verdicts[j] = "invalid"}}
  BY <1>1 DEF SendBatch
<1>4. \A i \in 1 .. Len(ts) : ts[i] \in Token
  BY <1>2, ElementOfSeq
<1>5. judged' \in SUBSET Token
  BY <1>3, <1>4 DEF OthersTyped
<1> QED BY <1>5 DEF SendBatch, OthersTyped, collVars, removerVars

\* The buffer takes a token only while there is room.
LEMMA HandleResponseTyped ==
  ASSUME OthersTyped, LocalsTyped, LocalsTyped', VerdictInv, NEW w \in Worker, HandleResponse(w)
  PROVE  OthersTyped'
<1>1. Head(responses[w]) = "invalid" => Answered(w) \in Token
  BY NextResponse DEF VerdictInv, Matched, OthersTyped
<1>2. Len(invalidTokens') <= BufferSize /\ dropped' \in SUBSET Token
  <2>1. CASE Head(responses[w]) = "invalid"
    <3>1. onInvalid(Answered(w)) /\ Answered(w) \in Token
      BY <1>1, <2>1 DEF HandleResponse
    <3>2. Len(Append(invalidTokens, Answered(w))) = Len(invalidTokens) + 1
          /\ Len(invalidTokens) \in Nat
      BY <3>1, AppendProperties, LenProperties DEF LocalsTyped
    <3> QED BY <3>1, <3>2, SenderAssumption DEF onInvalid, OthersTyped
  <2>2. CASE Head(responses[w]) # "invalid"
    BY <2>2 DEF HandleResponse, OthersTyped
  <2> QED BY <2>1, <2>2
<1> QED BY <1>2 DEF HandleResponse, OthersTyped, collVars

\* Every step keeps the types.
LEMMA OthersNext ==
  ASSUME OthersTyped, LocalsTyped, LocalsTyped', CollTyped, VerdictInv, [Next]_vars
  PROVE  OthersTyped'
<1>1. ASSUME NEW w \in Worker, NEW m \in Message, Start(w, m) PROVE OthersTyped'
  <2>1. Due(m) \in SUBSET Token
    BY DEF Due
  <2> QED BY <1>1, <2>1 DEF Start, OthersTyped, collVars, removerVars
<1>2. ASSUME NEW w \in Worker, JobStep(w) PROVE OthersTyped'
  <2>1. CASE FindAccounts(w)
    <3>1. Audience(msg[w]) \in SUBSET Account
      BY DEF Audience, AccountIdsByTopics
    <3> QED BY <2>1, <3>1 DEF FindAccounts, OthersTyped, collVars, removerVars, historyVars
  <2>2. CASE FindNoTokens(w) \/ QueryFails(w) \/ PlatformsDone(w) \/ SendBatchFails(w)
    BY <2>2 DEF FindNoTokens, QueryFails, PlatformsDone, SendBatchFails, Return, OthersTyped,
                collVars, removerVars
  <2>3. CASE FindTokens(w) \/ BatchesDone(w) \/ ResponsesDone(w)
    BY <2>3 DEF FindTokens, BatchesDone, ResponsesDone, OthersTyped, collVars, removerVars,
                historyVars
  <2>4. ASSUME NEW p \in DOMAIN byProvider[w], SkipPlatform(w, p) \/ CallProvider(w, p)
        PROVE  OthersTyped'
    BY <2>4 DEF SkipPlatform, CallProvider, OthersTyped, collVars, removerVars, historyVars
  <2> QED BY <1>2, <2>1, <2>2, <2>3, <2>4, SendBatchTyped, HandleResponseTyped DEF JobStep
<1>3. CASE TakeInvalid
  <2>1. Range(invalidTokens) \in SUBSET Token
    BY ElementOfSeq, LenProperties DEF LocalsTyped, Range
  <2>2. Len(<<>>) = 0
    BY EmptySeq
  <2> QED BY <1>3, <2>1, <2>2, SenderAssumption
          DEF TakeInvalid, OthersTyped, collVars, jobVars, historyVars
<1>4. CASE RemoveBatch
  BY <1>4, DisturbTyped DEF RemoveBatch, OthersTyped, jobVars
<1>5. CASE RemoveBatchFails \/ Close
  BY <1>5 DEF RemoveBatchFails, Close, OthersTyped, collVars, jobVars, historyVars
<1>6. CASE Change
  <2>1. changes' \in 0 .. MaxChanges
    BY <1>6, SenderAssumption DEF Change, OthersTyped
  <2>2. accountColl' \in AccountCollType
    BY <1>6 DEF Change, SetAccountTopics, OthersTyped, AccountCollType
  <2> QED BY <1>6, <2>1, <2>2, DisturbTyped DEF Change, OthersTyped, jobVars, removerVars
<1>7. CASE UNCHANGED vars
  BY <1>7 DEF vars, collVars, removerVars, historyVars, jobVars, OthersTyped
<1> QED BY <1>1, <1>2, <1>3, <1>4, <1>5, <1>6, <1>7 DEF Next

(***************************************************************************)
(* Every variable of the sender keeps its type; in particular the buffer   *)
(* of invalid tokens never holds more than its capacity.                   *)
(***************************************************************************)
THEOREM SenderTypeCorrect == Spec => []TypeOK
<1>1. LocalsTyped /\ CollTyped /\ OthersTyped /\ OfferedInv => TypeOK
  <2> SUFFICES ASSUME LocalsTyped, CollTyped, OthersTyped, OfferedInv PROVE TypeOK
    OBVIOUS
  <2>1. \A w \in Worker : /\ DOMAIN byProvider[w] \subseteq Platform
                          /\ \A p \in DOMAIN byProvider[w] : byProvider[w][p] \in Seq(Token)
    BY GroupsMember DEF LocalsTyped
  <2> QED BY <2>1 DEF TypeOK, LocalsTyped, CollTyped, OthersTyped, OfferedInv, OfferedTyped
<1>2. OthersTyped /\ LocalsTyped /\ LocalsTyped' /\ CollTyped /\ VerdictInv /\ [Next]_vars
        => OthersTyped'
  BY OthersNext
<1> QED BY <1>1, <1>2, OthersInit, VerdictInit, VerdictNext, OfferedAlways, Typed, PTL DEF Spec

-----------------------------------------------------------------------------
\* What a consumer has left for the platforms with a provider.
Own(w) == Range(nextBatch[w])
            \cup UNION {Range(byProvider[w][p]) : p \in DOMAIN byProvider[w] \cap Provider}

-----------------------------------------------------------------------------
(***************************************************************************)
(* Whom a message reaches.  MissesNone follows the tokens that were due it *)
(* all along: they are due it, their accounts are in the answer of the     *)
(* first query, and after the second one they were offered or are left.    *)
(* HitsOnlyDue follows the other side, as long as nobody changed the       *)
(* collections: both answers, and so what is left, have due tokens only.   *)
(***************************************************************************)
MissesNone(w) ==
  /\ at[w] \in {"accounts", "tokens"} => stable[msg[w]] \subseteq Due(msg[w])
  /\ at[w] = "tokens" =>
       \A t \in stable[msg[w]] : tokenColl[t].accountId \in accountIds[w]
  /\ at[w] \in {"platforms", "batches", "responses"} =>
       \A t \in stable[msg[w]] : offered[msg[w]][t] > 0 \/ t \in Own(w)

HitsOnlyDue(w) ==
  msg[w] \in undisturbed =>
    /\ at[w] \in {"accounts", "tokens"} => Due(msg[w]) \subseteq stable[msg[w]]
    /\ at[w] = "tokens" => accountIds[w] \subseteq Audience(msg[w])
    /\ Own(w) \subseteq stable[msg[w]]

\* The messages that SendMessage has returned nil for.
SuccessReached ==
  \A m \in Message : returned[m] = "ok" => \A t \in stable[m] : offered[m][t] > 0

ReachInv ==
  /\ \A w \in Worker : msg[w] # NoMessage => MissesNone(w) /\ HitsOnlyDue(w)
  /\ SuccessReached
  /\ OnlyDueTokens

\* The types these speak of.
ReachTyped ==
  /\ accountColl \in AccountCollType
  /\ accountIds \in [Worker -> SUBSET Account]
  /\ stable \in [Message -> SUBSET Token]
  /\ undisturbed \in SUBSET Message

\* At first there is no message to reach anybody.
LEMMA ReachInit == Init => ReachInv
<1> SUFFICES ASSUME Init PROVE ReachInv
  OBVIOUS
<1>1. /\ \A w \in Worker : msg[w] = NoMessage
      /\ \A m \in Message : returned[m] = "nothing"
      /\ undisturbed = {}
  BY DEF Init
<1> QED BY <1>1 DEF ReachInv, SuccessReached, OnlyDueTokens

\* A consumer that keeps its lists has the same as before.
LEMMA OwnSame ==
  ASSUME NEW w \in Worker, UNCHANGED <<byProvider[w], nextBatch[w]>>
  PROVE  Own(w)' = Own(w)
BY DEF Own

\* The same tokens are due a message, and the same accounts get it, while the
\* collections do not change.
LEMMA DueSame ==
  ASSUME UNCHANGED <<tokenColl, accountColl>>, NEW m
  PROVE  Due(m)' = Due(m) /\ Audience(m)' = Audience(m)
BY DEF Due, Audience, AccountIdsByTopics

\* A step that concerns another message.
LEMMA OtherReach ==
  ASSUME UNCHANGED <<tokenColl, accountColl>>, NEW w \in Worker,
         UNCHANGED <<at[w], msg[w], accountIds[w], byProvider[w], nextBatch[w]>>,
         stable'[msg[w]] = stable[msg[w]], offered'[msg[w]] = offered[msg[w]],
         msg[w] \in undisturbed' => msg[w] \in undisturbed,
         MissesNone(w), HitsOnlyDue(w)
  PROVE  MissesNone(w)' /\ HitsOnlyDue(w)'
<1>1. /\ Due(msg[w])' = Due(msg[w]) /\ Audience(msg[w])' = Audience(msg[w])
      /\ Own(w)' = Own(w)
  BY DueSame, OwnSame DEF Due, Audience, AccountIdsByTopics
<1>2. MissesNone(w)'
  BY <1>1 DEF MissesNone
<1>3. HitsOnlyDue(w)'
  BY <1>1 DEF HitsOnlyDue
<1> QED BY <1>2, <1>3

\* A token is due a message through one of the accounts of its audience, and
\* the tokens of the audience that have a provider are due it.
LEMMA DueThroughAudience ==
  ASSUME ReachTyped, CollTyped, NEW m \in Message, NEW t \in Token
  PROVE  /\ t \in Due(m) => tokenColl[t].accountId \in Audience(m)
         /\ t \in ActiveTokens(Audience(m)) /\ tokenColl[t].platform \in Provider
              => t \in Due(m)
<1>1. ASSUME tokenColl[t] # NoDoc PROVE tokenColl[t].accountId \in Account
  BY <1>1 DEF CollTyped, TokenCollType, TokenDoc
<1> QED BY <1>1 DEF Due, Audience, AccountIdsByTopics, ActiveTokens, Registered

\* What the second query finds of the tokens that are due.
LEMMA DueFound ==
  ASSUME NEW m, NEW accounts, NEW t \in Due(m), tokenColl[t].accountId \in accounts
  PROVE  t \in ActiveTokens(accounts) /\ tokenColl[t].platform \in Provider
BY DEF Due, ActiveTokens, Registered

\* A step of one consumer, which offers what it has only: the other consumers
\* and the messages they have returned from are as before.
LEMMA JobReach ==
  ASSUME LocalsTyped, LocalsInv, ReachTyped, ReachInv, OfferedTyped,
         NEW w \in Worker, at[w] # "idle",
         UNCHANGED <<tokenColl, accountColl, stable, undisturbed>>,
         \A v \in Worker \ {w} :
           UNCHANGED <<at[v], msg[v], accountIds[v], byProvider[v], nextBatch[v]>>,
         \A m \in Message \ {msg[w]} : UNCHANGED <<offered[m], returned[m]>>,
         \A t \in Token : offered'[msg[w]][t] > 0 => offered[msg[w]][t] > 0 \/ t \in Own(w),
         returned'[msg[w]] = "ok" => \A t \in stable[msg[w]] : offered'[msg[w]][t] > 0,
         msg'[w] # NoMessage => MissesNone(w)' /\ HitsOnlyDue(w)'
  PROVE  ReachInv'
<1>1. msg[w] \in Message
  BY DEF LocalsInv, LocalsMatch, LocalsTyped
<1>2. ASSUME NEW v \in Worker, msg'[v] # NoMessage PROVE MissesNone(v)' /\ HitsOnlyDue(v)'
  <2>1. CASE v = w
    BY <1>2, <2>1
  <2>2. CASE v # w
    <3>1. msg[v] \in Message \ {msg[w]}
      BY <1>2, <2>2 DEF LocalsInv, OneConsumer, LocalsTyped
    <3>2. MissesNone(v) /\ HitsOnlyDue(v)
      BY <3>1, SenderAssumption DEF ReachInv
    <3> QED BY <2>2, <3>1, <3>2, OtherReach
  <2> QED BY <2>1, <2>2
<1>3. SuccessReached'
  <2> SUFFICES ASSUME NEW m \in Message, returned'[m] = "ok", NEW t \in stable'[m]
               PROVE  offered'[m][t] > 0
    BY DEF SuccessReached
  <2> QED BY <1>1 DEF ReachInv, SuccessReached
<1>4. OnlyDueTokens'
  <2> SUFFICES ASSUME NEW m \in Message, m \in undisturbed', NEW t \in Token, offered'[m][t] > 0
               PROVE  t \in stable'[m]
    BY DEF OnlyDueTokens, ReachTyped
  <2>1. CASE m = msg[w]
    <3>1. HitsOnlyDue(w)
      BY <1>1, SenderAssumption DEF ReachInv
    <3>2. Own(w) \subseteq stable[m]
      BY <2>1, <3>1 DEF HitsOnlyDue
    <3> QED BY <2>1, <3>2 DEF ReachInv, OnlyDueTokens
  <2>2. CASE m # msg[w]
    BY <2>2 DEF ReachInv, OnlyDueTokens
  <2> QED BY <2>1, <2>2
<1> QED BY <1>2, <1>3, <1>4 DEF ReachInv

\* The first query: who is due the message is in its answer.
LEMMA FindAccountsReach ==
  ASSUME LocalsTyped, LocalsInv, CollTyped, ReachTyped, ReachInv, OfferedTyped,
         NEW w \in Worker, FindAccounts(w)
  PROVE  ReachInv'
<1>1. PICK m : m = msg[w]
  OBVIOUS
<1>2. /\ at[w] = "accounts" /\ at' = [at EXCEPT ![w] = "tokens"]
      /\ accountIds' = [accountIds EXCEPT ![w] = Audience(m)]
      /\ UNCHANGED <<tokenColl, accountColl, msg, byProvider, nextBatch, offered, returned,
                     stable, undisturbed>>
  BY <1>1 DEF FindAccounts, Goto, collVars, historyVars
<1>3. /\ m \in Message /\ returned[m] = "nothing"
      /\ at'[w] = "tokens" /\ accountIds'[w] = Audience(m)
  BY <1>1, <1>2 DEF LocalsInv, LocalsMatch, LocalsTyped, ReachTyped
<1>4. MissesNone(w) /\ HitsOnlyDue(w)
  BY <1>1, <1>3, SenderAssumption DEF ReachInv
<1>5. Due(m)' = Due(m) /\ Audience(m)' = Audience(m) /\ Own(w)' = Own(w)
  BY <1>2, DueSame, OwnSame
<1>6. \A t \in stable[m] : t \in Due(m) /\ tokenColl[t].accountId \in Audience(m)
  <2>1. stable[m] \subseteq Due(m) /\ stable[m] \subseteq Token
    BY <1>1, <1>2, <1>3, <1>4 DEF MissesNone, ReachTyped
  <2> QED BY <1>3, <2>1, DueThroughAudience
<1>7. MissesNone(w)'
  BY <1>1, <1>2, <1>3, <1>5, <1>6 DEF MissesNone, Due
<1>8. HitsOnlyDue(w)'
  BY <1>1, <1>2, <1>3, <1>4, <1>5 DEF HitsOnlyDue, Due, Audience, AccountIdsByTopics
<1>9. \A v \in Worker \ {w} :
        UNCHANGED <<at[v], msg[v], accountIds[v], byProvider[v], nextBatch[v]>>
  BY <1>2 DEF LocalsTyped, ReachTyped
<1> QED BY <1>1, <1>2, <1>3, <1>7, <1>8, <1>9, JobReach

\* SendMessage returns nil when the query found nothing and when the last
\* platform is done: all the due tokens were offered.
LEMMA EndsReach ==
  ASSUME LocalsTyped, LocalsInv, CollTyped, ReachTyped, ReachInv, OfferedTyped,
         NEW w \in Worker, FindNoTokens(w) \/ QueryFails(w) \/ PlatformsDone(w)
  PROVE  ReachInv'
<1>1. PICK m : m = msg[w]
  OBVIOUS
<1>2. /\ at[w] \in {"accounts", "tokens", "platforms"}
      /\ UNCHANGED <<tokenColl, accountColl, offered, stable, undisturbed>>
      /\ \E result \in {"ok", "err"} : Return(w, result)
  BY DEF FindNoTokens, QueryFails, PlatformsDone, collVars
<1>3. /\ m \in Message /\ msg'[w] = NoMessage
      /\ \A v \in Worker \ {w} :
           UNCHANGED <<at[v], msg[v], accountIds[v], byProvider[v], nextBatch[v]>>
      /\ \A n \in Message \ {m} : returned'[n] = returned[n]
  BY <1>1, <1>2 DEF Return, Goto, LocalsInv, LocalsMatch, LocalsTyped, ReachTyped, OfferedTyped
<1>4. MissesNone(w) /\ stable[m] \subseteq Token
  BY <1>1, <1>3, SenderAssumption DEF ReachInv, ReachTyped
<1>5. ASSUME returned'[m] = "ok", NEW t \in stable[m] PROVE offered'[m][t] > 0
  <2>1. CASE FindNoTokens(w)
    <3>1. at[w] = "tokens" /\ ActiveTokens(accountIds[w]) = {}
      BY <2>1 DEF FindNoTokens
    <3>2. t \in Due(m) /\ tokenColl[t].accountId \in accountIds[w]
      BY <1>1, <1>4, <1>5, <3>1 DEF MissesNone
    <3>3. t \in ActiveTokens(accountIds[w])
      BY <3>2, DueFound
    <3> QED BY <3>1, <3>3
  <2>2. CASE QueryFails(w)
    <3>1. returned'[m] = "err"
      BY <1>1, <1>3, <2>2 DEF QueryFails, Return, OfferedTyped
    <3> QED BY <1>5, <3>1
  <2>3. CASE PlatformsDone(w)
    <3>1. at[w] = "platforms" /\ DOMAIN byProvider[w] = {}
      BY <2>3 DEF PlatformsDone
    <3>2. Own(w) = {}
      BY <3>1, EmptyList DEF Own, LocalsInv, LocalsMatch
    <3> QED BY <1>1, <1>2, <1>4, <1>5, <3>1, <3>2 DEF MissesNone
  <2> QED BY <2>1, <2>2, <2>3
<1> QED BY <1>1, <1>2, <1>3, <1>5, JobReach

\* The second query: the due tokens are among those that it groups by platform,
\* and those it finds for the audience of the message are due it.
LEMMA FindTokensReach ==
  ASSUME LocalsTyped, LocalsInv, CollTyped, ReachTyped, ReachInv, OfferedTyped,
         NEW w \in Worker, FindTokens(w)
  PROVE  ReachInv'
<1>1. PICK m, found : m = msg[w] /\ found = ActiveTokens(accountIds[w])
  OBVIOUS
<1>2. PICK order :
        /\ DOMAIN order = {tokenColl[t].platform : t \in found}
        /\ \A p \in DOMAIN order : order[p] \in Orders({t \in found : tokenColl[t].platform = p})
        /\ byProvider' = [byProvider EXCEPT ![w] = order]
  BY <1>1 DEF FindTokens
<1>3. /\ at[w] = "tokens" /\ at' = [at EXCEPT ![w] = "platforms"]
      /\ UNCHANGED <<tokenColl, accountColl, msg, accountIds, nextBatch, offered, returned,
                     stable, undisturbed>>
  BY DEF FindTokens, Goto, collVars, historyVars
<1>4. /\ m \in Message /\ returned[m] = "nothing"
      /\ at'[w] = "platforms" /\ byProvider'[w] = order /\ nextBatch'[w] = <<>>
  BY <1>1, <1>2, <1>3 DEF LocalsInv, LocalsMatch, LocalsTyped
<1>5. MissesNone(w) /\ HitsOnlyDue(w)
  BY <1>1, <1>4, SenderAssumption DEF ReachInv
<1>6. found \in SUBSET Token
  BY <1>1 DEF ActiveTokens
<1>7. \A p \in DOMAIN order : Range(order[p]) = {t \in found : tokenColl[t].platform = p}
  BY <1>2, <1>6, FoundApart
<1>8. Own(w)' = {t \in found : tokenColl[t].platform \in Provider}
  <2>1. Own(w)' = UNION {Range(order[p]) : p \in DOMAIN order \cap Provider}
    BY <1>4, EmptyList DEF Own
  <2> QED BY <1>2, <1>7, <2>1
<1>9. MissesNone(w)'
  <2> SUFFICES ASSUME NEW t \in stable[m] PROVE t \in Own(w)'
    BY <1>1, <1>3, <1>4 DEF MissesNone
  <2>1. t \in Due(m) /\ tokenColl[t].accountId \in accountIds[w]
    BY <1>1, <1>3, <1>5 DEF MissesNone
  <2> QED BY <1>1, <1>8, <2>1, DueFound
<1>10. HitsOnlyDue(w)'
  <2> SUFFICES ASSUME m \in undisturbed, NEW t \in Own(w)' PROVE t \in stable[m]
    BY <1>1, <1>3, <1>4 DEF HitsOnlyDue
  <2>1. accountIds[w] \subseteq Audience(m) /\ Due(m) \subseteq stable[m]
    BY <1>1, <1>3, <1>5 DEF HitsOnlyDue
  <2>2. t \in Token /\ t \in ActiveTokens(Audience(m)) /\ tokenColl[t].platform \in Provider
    BY <1>1, <1>6, <1>8, <2>1 DEF ActiveTokens
  <2> QED BY <1>4, <2>1, <2>2, DueThroughAudience
<1>11. \A v \in Worker \ {w} :
         UNCHANGED <<at[v], msg[v], accountIds[v], byProvider[v], nextBatch[v]>>
  BY <1>2, <1>3 DEF LocalsTyped
<1> QED BY <1>1, <1>3, <1>4, <1>9, <1>10, <1>11, JobReach

\* The loop over the platforms moves the tokens of a platform with a provider
\* to the batches, and skips the ones of the others, which did not count.
LEMMA PlatformOwn ==
  ASSUME LocalsTyped, LocalsInv, NEW w \in Worker, NEW p \in DOMAIN byProvider[w],
         SkipPlatform(w, p) \/ CallProvider(w, p)
  PROVE  /\ Own(w)' = Own(w)
         /\ \A v \in Worker \ {w} : UNCHANGED <<byProvider[v], nextBatch[v]>>
<1>1. /\ at[w] = "platforms"
      /\ byProvider' = [byProvider EXCEPT ![w] = Without(@, p)]
      /\ \/ p \notin Provider /\ UNCHANGED nextBatch
         \/ p \in Provider /\ nextBatch' = [nextBatch EXCEPT ![w] = byProvider[w][p]]
  BY DEF SkipPlatform, CallProvider
<1>2. byProvider[w] \in Groups /\ byProvider \in [Worker -> Groups]
  BY DEF LocalsTyped
<1>3. /\ DOMAIN Without(byProvider[w], p) = DOMAIN byProvider[w] \ {p}
      /\ \A q \in DOMAIN byProvider[w] \ {p} : Without(byProvider[w], p)[q] = byProvider[w][q]
  BY <1>2, WithoutTyped
<1>4. /\ (DOMAIN byProvider[w])' = DOMAIN byProvider[w] \ {p}
      /\ \A q \in DOMAIN byProvider[w] \ {p} : byProvider'[w][q] = byProvider[w][q]
      /\ \A v \in Worker \ {w} : UNCHANGED <<byProvider[v], nextBatch[v]>>
  BY <1>1, <1>2, <1>3 DEF LocalsTyped
<1>5. nextBatch[w] = <<>> /\ Range(nextBatch[w]) = {}
  BY <1>1, EmptyList DEF LocalsInv, LocalsMatch
<1>6. Own(w)' = Own(w)
  <2>1. CASE p \notin Provider /\ nextBatch'[w] = nextBatch[w]
    <3>1. (DOMAIN byProvider[w])' \cap Provider = DOMAIN byProvider[w] \cap Provider
      BY <1>4, <2>1
    <3> QED BY <1>4, <2>1, <3>1 DEF Own
  <2>2. CASE p \in Provider /\ nextBatch'[w] = byProvider[w][p]
    <3>1. DOMAIN byProvider[w] \cap Provider = ((DOMAIN byProvider[w])' \cap Provider) \cup {p}
      BY <1>4, <2>2
    <3> QED BY <1>4, <1>5, <2>2, <3>1 DEF Own
  <2> QED BY <1>1, <2>1, <2>2 DEF LocalsTyped
<1> QED BY <1>4, <1>6

\* The tokens of a batch are part of what the consumer has; the rest stays.
LEMMA BatchOwn ==
  ASSUME LocalsTyped, LocalsInv, NEW w \in Worker
  PROVE  /\ FirstBatch(nextBatch[w]) \in Seq(Token)
         /\ NoRepeats(FirstBatch(nextBatch[w]))
         /\ Range(FirstBatch(nextBatch[w])) \in SUBSET Token
         /\ Range(FirstBatch(nextBatch[w])) \subseteq Own(w)
         /\ Own(w) \ Range(FirstBatch(nextBatch[w])) =
              Range(RestOf(nextBatch[w]))
              \cup UNION {Range(byProvider[w][p]) : p \in DOMAIN byProvider[w] \cap Provider}
<1>1. nextBatch[w] \in Seq(Token) /\ NoRepeats(nextBatch[w])
  BY DEF LocalsTyped, LocalsInv, Apart
<1>2. \A p \in DOMAIN byProvider[w] : Range(byProvider[w][p]) \cap Range(nextBatch[w]) = {}
  BY DEF LocalsInv, Apart
<1>3. PICK f, r : f = FirstBatch(nextBatch[w]) /\ r = RestOf(nextBatch[w])
  OBVIOUS
<1>4. /\ f \in Seq(Token) /\ NoRepeats(f)
      /\ Range(f) \cup Range(r) = Range(nextBatch[w])
      /\ Range(f) \cap Range(r) = {}
  BY <1>1, <1>3, Batching, BatchApart
<1>5. Range(f) \subseteq Token
  BY <1>4, ElementOfSeq, LenProperties DEF Range
<1>6. Range(f) \subseteq Own(w)
  BY <1>4 DEF Own
<1>7. Own(w) \ Range(f) =
        Range(r) \cup UNION {Range(byProvider[w][p]) : p \in DOMAIN byProvider[w] \cap Provider}
  BY <1>2, <1>4 DEF Own
<1> QED BY <1>3, <1>4, <1>5, <1>6, <1>7

\* The loops of SendMessage that offer nothing keep what the consumer has.
LEMMA LoopReach ==
  ASSUME LocalsTyped, LocalsInv, ReachTyped, ReachInv, OfferedTyped, NEW w \in Worker,
         \/ BatchesDone(w) \/ ResponsesDone(w) \/ HandleResponse(w)
         \/ \E p \in DOMAIN byProvider[w] : SkipPlatform(w, p) \/ CallProvider(w, p)
  PROVE  ReachInv'
<1>1. PICK m : m = msg[w]
  OBVIOUS
<1>2. /\ at[w] \in {"platforms", "batches", "responses"}
      /\ \/ at' = at
         \/ \E state \in {"platforms", "batches", "responses"} : at' = [at EXCEPT ![w] = state]
      /\ UNCHANGED <<tokenColl, accountColl, msg, accountIds, offered, returned, stable,
                     undisturbed>>
  BY DEF BatchesDone, ResponsesDone, HandleResponse, SkipPlatform, CallProvider, Goto,
         collVars, historyVars
<1>3. /\ Own(w)' = Own(w)
      /\ \A v \in Worker \ {w} : UNCHANGED <<byProvider[v], nextBatch[v]>>
  <2>1. CASE BatchesDone(w) \/ ResponsesDone(w) \/ HandleResponse(w)
    BY <2>1, OwnSame DEF BatchesDone, ResponsesDone, HandleResponse
  <2> QED BY <2>1, PlatformOwn
<1>4. m \in Message /\ returned[m] = "nothing" /\ at'[w] \in {"platforms", "batches", "responses"}
  BY <1>1, <1>2 DEF LocalsInv, LocalsMatch, LocalsTyped
<1>5. MissesNone(w) /\ HitsOnlyDue(w)
  BY <1>1, <1>4, SenderAssumption DEF ReachInv
<1>6. MissesNone(w)'
  BY <1>2, <1>3, <1>4, <1>5 DEF MissesNone
<1>7. HitsOnlyDue(w)'
  BY <1>2, <1>3, <1>4, <1>5 DEF HitsOnlyDue
<1>8. \A v \in Worker \ {w} :
        UNCHANGED <<at[v], msg[v], accountIds[v], byProvider[v], nextBatch[v]>>
  BY <1>2, <1>3 DEF LocalsTyped
<1> QED BY <1>1, <1>2, <1>4, <1>6, <1>7, <1>8, JobReach

\* A batch is offered, which the consumer has no longer; when the call fails,
\* SendMessage returns the error.
LEMMA BatchReach ==
  ASSUME LocalsTyped, LocalsInv, ReachTyped, ReachInv, OfferedTyped, NEW w \in Worker,
         SendBatch(w) \/ SendBatchFails(w)
  PROVE  ReachInv'
<1>1. PICK m, ts : m = msg[w] /\ ts = FirstBatch(nextBatch[w])
  OBVIOUS
<1>2. /\ at[w] = "batches"
      /\ UNCHANGED <<tokenColl, accountColl, stable, undisturbed>>
  BY <1>1 DEF SendBatch, SendBatchFails, collVars
<1>3. m \in Message /\ returned[m] = "nothing"
  BY <1>1, <1>2 DEF LocalsInv, LocalsMatch, LocalsTyped
<1>4. MissesNone(w) /\ HitsOnlyDue(w) /\ stable[m] \subseteq Token
  BY <1>1, <1>3, SenderAssumption DEF ReachInv, ReachTyped
<1>5. /\ ts \in Seq(Token) /\ NoRepeats(ts) /\ Range(ts) \subseteq Own(w)
      /\ Own(w) \ Range(ts) =
           Range(RestOf(nextBatch[w]))
           \cup UNION {Range(byProvider[w][p]) : p \in DOMAIN byProvider[w] \cap Provider}
  BY <1>1, BatchOwn
<1>6. ASSUME NEW us \in Seq(Token), NoRepeats(us), Offer(m, us)
      PROVE  /\ \A n \in Message \ {m} : offered'[n] = offered[n]
             /\ \A t \in Token : offered'[m][t] =
                                   IF t \in Range(us) THEN offered[m][t] + 1 ELSE offered[m][t]
             /\ \A t \in Token : offered[m][t] \in Nat
  BY <1>3, <1>6, OfferCounts DEF OfferedTyped
<1>7. PICK us \in Seq(Token) : NoRepeats(us) /\ Range(us) \subseteq Range(ts) /\ Offer(m, us)
  <2>1. CASE SendBatch(w)
    BY <1>1, <1>5, <2>1 DEF SendBatch
  <2>2. CASE SendBatchFails(w)
    <3>1. PICK n \in 0 .. Len(ts) : Offer(m, SubSeq(ts, 1, n))
      BY <1>1, <2>2 DEF SendBatchFails
    <3> QED BY <1>5, <3>1, TakenPart
  <2> QED BY <2>1, <2>2
<1>8. /\ \A n \in Message \ {m} : offered'[n] = offered[n]
      /\ \A t \in Token : offered'[m][t] > 0 => offered[m][t] > 0 \/ t \in Own(w)
  BY <1>5, <1>6, <1>7
<1>9. CASE SendBatchFails(w)
  <2>1. Return(w, "err")
    BY <1>9 DEF SendBatchFails
  <2>2. /\ msg'[w] = NoMessage /\ returned'[m] = "err"
        /\ \A n \in Message \ {m} : returned'[n] = returned[n]
        /\ \A v \in Worker \ {w} :
             UNCHANGED <<at[v], msg[v], accountIds[v], byProvider[v], nextBatch[v]>>
    BY <1>1, <1>3, <2>1 DEF Return, Goto, LocalsTyped, ReachTyped, OfferedTyped
  <2> QED BY <1>1, <1>2, <1>8, <2>2, JobReach
<1>10. CASE SendBatch(w)
  <2>1. /\ Offer(m, ts)
        /\ nextBatch' = [nextBatch EXCEPT ![w] = RestOf(nextBatch[w])]
        /\ at' = [at EXCEPT ![w] = "responses"]
        /\ UNCHANGED <<msg, accountIds, byProvider, returned>>
    BY <1>1, <1>10 DEF SendBatch, Goto
  <2>2. /\ nextBatch'[w] = RestOf(nextBatch[w]) /\ at'[w] = "responses"
        /\ \A v \in Worker \ {w} :
             UNCHANGED <<at[v], msg[v], accountIds[v], byProvider[v], nextBatch[v]>>
    BY <2>1 DEF LocalsTyped
  <2>3. Own(w)' = Own(w) \ Range(ts)
    BY <1>5, <2>1, <2>2 DEF Own
  <2>4. MissesNone(w)'
    <3> SUFFICES ASSUME NEW t \in stable[m] PROVE offered'[m][t] > 0 \/ t \in Own(w)'
      BY <1>1, <1>2, <2>1, <2>2 DEF MissesNone
    <3>1. t \in Token /\ (offered[m][t] > 0 \/ t \in Own(w))
      BY <1>1, <1>2, <1>4 DEF MissesNone
    <3>2. offered[m][t] \in Nat
          /\ offered'[m][t] = IF t \in Range(ts) THEN offered[m][t] + 1 ELSE offered[m][t]
      BY <1>5, <1>6, <2>1, <3>1
    <3> QED BY <2>3, <3>1, <3>2
  <2>5. HitsOnlyDue(w)'
    BY <1>1, <1>2, <1>4, <2>1, <2>2, <2>3 DEF HitsOnlyDue
  <2>6. returned'[m] # "ok"
    BY <1>3, <2>1
  <2> QED BY <1>1, <1>2, <1>8, <2>1, <2>2, <2>4, <2>5, <2>6, JobReach
<1> QED BY <1>9, <1>10

\* A consumer starts with a message that nobody was offered.
LEMMA StartReach ==
  ASSUME LocalsTyped, LocalsInv, ReachTyped, ReachInv, OfferedInv,
         NEW w \in Worker, NEW m \in Message, Start(w, m)
  PROVE  ReachInv'
<1>1. /\ at[w] = "idle" /\ \A v \in Worker : msg[v] # m
      /\ returned[m] = "nothing"
      /\ at' = [at EXCEPT ![w] = "accounts"] /\ msg' = [msg EXCEPT ![w] = m]
      /\ stable' = [stable EXCEPT ![m] = Due(m)]
      /\ undisturbed' = undisturbed \cup {m}
      /\ UNCHANGED <<tokenColl, accountColl, accountIds, byProvider, nextBatch, offered, returned>>
  BY DEF Start, Goto, collVars
<1>2. /\ at'[w] = "accounts" /\ msg'[w] = m
      /\ stable'[m] = Due(m)
      /\ \A n \in Message \ {m} : stable'[n] = stable[n]
      /\ \A v \in Worker \ {w} : UNCHANGED <<at[v], msg[v]>>
  BY <1>1 DEF LocalsTyped, ReachTyped
<1>3. \A t \in Token : offered[m][t] = 0
  BY <1>1 DEF OfferedInv, Untouched
<1>4. Due(m)' = Due(m)
  BY <1>1, DueSame
<1>5. Own(w)' = {}
  <2>1. DOMAIN byProvider[w] = {} /\ nextBatch[w] = <<>>
    BY <1>1 DEF LocalsInv, LocalsMatch
  <2> QED BY <1>1, <2>1, EmptyList DEF Own
<1>6. ASSUME NEW v \in Worker, msg'[v] # NoMessage PROVE MissesNone(v)' /\ HitsOnlyDue(v)'
  <2>1. CASE v = w
    <3>1. MissesNone(w)'
      BY <1>2, <1>4 DEF MissesNone
    <3>2. HitsOnlyDue(w)'
      BY <1>2, <1>4, <1>5 DEF HitsOnlyDue
    <3> QED BY <2>1, <3>1, <3>2
  <2>2. CASE v # w
    <3>1. msg[v] \in Message \ {m} /\ MissesNone(v) /\ HitsOnlyDue(v)
      BY <1>1, <1>2, <1>6, <2>2 DEF ReachInv, LocalsTyped
    <3> QED BY <1>1, <1>2, <2>2, <3>1, OtherReach
  <2> QED BY <2>1, <2>2
<1>7. SuccessReached'
  <2> SUFFICES ASSUME NEW n \in Message, returned[n] = "ok", NEW t \in stable'[n]
               PROVE  offered[n][t] > 0
    BY <1>1 DEF SuccessReached
  <2>1. n # m
    BY <1>1
  <2> QED BY <1>2, <2>1 DEF ReachInv, SuccessReached
<1>8. OnlyDueTokens'
  <2> SUFFICES ASSUME NEW n \in Message, n \in undisturbed', NEW t \in Token, offered[n][t] > 0
               PROVE  t \in stable'[n]
    BY <1>1 DEF OnlyDueTokens, ReachTyped
  <2>1. n # m
    BY <1>3
  <2> QED BY <1>1, <1>2, <2>1 DEF ReachInv, OnlyDueTokens
<1> QED BY <1>6, <1>7, <1>8 DEF ReachInv

\* Others change the collections: a message whose tokens are still sought
\* keeps those that stay due through their accounts, and no message that is
\* with a consumer is undisturbed any more.
LEMMA DisturbReach ==
  ASSUME LocalsTyped, LocalsInv, ReachTyped, ReachInv, Disturb,
         UNCHANGED <<at, msg, accountIds, byProvider, nextBatch, offered, returned>>
  PROVE  ReachInv'
<1>1. \A m \in Message :
        stable'[m] = IF \E w \in Worker : msg[w] = m /\ at[w] \in {"accounts", "tokens"}
                       THEN {t \in stable[m] \cap Due(m)' :
                               tokenColl'[t].accountId = tokenColl[t].accountId}
                       ELSE stable[m]
  BY DEF Disturb
<1>2. \A w \in Worker : msg[w] \notin undisturbed'
  BY DEF Disturb
<1>3. ASSUME NEW w \in Worker, msg[w] # NoMessage PROVE MissesNone(w)' /\ HitsOnlyDue(w)'
  <2>1. PICK m : m = msg[w]
    OBVIOUS
  <2>2. m \in Message /\ MissesNone(w)
    BY <1>3, <2>1 DEF ReachInv, LocalsTyped
  <2>3. CASE at[w] \in {"accounts", "tokens"}
    <3>1. /\ stable'[m] \subseteq stable[m] \cap Due(m)'
          /\ \A t \in stable'[m] : tokenColl'[t].accountId = tokenColl[t].accountId
      <4>1. stable'[m] = {t \in stable[m] \cap Due(m)' :
                            tokenColl'[t].accountId = tokenColl[t].accountId}
        BY <1>1, <2>1, <2>2, <2>3, Zenon
      <4> QED BY <4>1
    <3> QED BY <1>2, <2>1, <2>2, <2>3, <3>1 DEF MissesNone, HitsOnlyDue, Due
  <2>4. CASE at[w] \notin {"accounts", "tokens"}
    <3>1. \A v \in Worker : msg[v] = m => v = w
      BY <1>3, <2>1 DEF LocalsInv, OneConsumer
    <3>2. stable'[m] = stable[m]
      BY <1>1, <2>2, <2>4, <3>1
    <3>3. Own(w)' = Own(w)
      BY OwnSame
    <3> QED BY <1>2, <2>1, <2>2, <2>4, <3>2, <3>3 DEF MissesNone, HitsOnlyDue
  <2> QED BY <2>3, <2>4
<1>4. SuccessReached'
  <2> SUFFICES ASSUME NEW m \in Message, returned[m] = "ok", NEW t \in stable'[m]
               PROVE  offered[m][t] > 0
    BY DEF SuccessReached
  <2>1. stable'[m] \subseteq stable[m]
    BY <1>1
  <2> QED BY <2>1 DEF ReachInv, SuccessReached
<1>5. OnlyDueTokens'
  <2> SUFFICES ASSUME NEW m \in undisturbed', NEW t \in Token, offered[m][t] > 0
               PROVE  t \in stable'[m]
    BY DEF OnlyDueTokens
  <2>1. m \in undisturbed /\ m \in Message /\ \A w \in Worker : msg[w] # m
    BY DEF Disturb, ReachTyped
  <2>2. stable'[m] = stable[m]
    BY <1>1, <2>1
  <2> QED BY <2>1, <2>2 DEF ReachInv, OnlyDueTokens
<1> QED BY <1>3, <1>4, <1>5 DEF ReachInv

\* Every step misses none of the stable tokens, and hits due ones only as long
\* as the collections are left alone.
LEMMA ReachNext ==
  ASSUME LocalsTyped, LocalsInv, CollTyped, ReachTyped, ReachInv, OfferedInv, [Next]_vars
  PROVE  ReachInv'
<1>1. ASSUME NEW w \in Worker, JobStep(w) PROVE ReachInv'
  BY <1>1, FindAccountsReach, EndsReach, FindTokensReach, LoopReach, BatchReach
     DEF JobStep, OfferedInv
<1>2. CASE RemoveBatch \/ Change
  <2>1. Disturb /\ UNCHANGED <<jobVars, offered, returned>>
    BY <1>2 DEF RemoveBatch, Change
  <2> QED BY <2>1, DisturbReach DEF jobVars
<1>3. CASE TakeInvalid \/ RemoveBatchFails \/ Close \/ UNCHANGED vars
  <2>1. UNCHANGED <<tokenColl, accountColl, at, msg, accountIds, byProvider, nextBatch,
                    offered, returned, stable, undisturbed>>
    BY <1>3 DEF TakeInvalid, RemoveBatchFails, Close, vars, collVars, jobVars, historyVars
  <2>2. ASSUME NEW w \in Worker, msg[w] # NoMessage PROVE MissesNone(w)' /\ HitsOnlyDue(w)'
    BY <2>1, <2>2, OtherReach DEF ReachInv
  <2> QED BY <2>1, <2>2 DEF ReachInv, SuccessReached, OnlyDueTokens
<1> QED BY <1>1, <1>2, <1>3, StartReach DEF Next

\* What is reached as an invariant of the specification.
LEMMA ReachAlways == Spec => [](ReachInv /\ OthersTyped)
<1>1. OthersTyped => ReachTyped
  BY DEF OthersTyped, ReachTyped
<1>2. OthersTyped /\ LocalsTyped /\ LocalsTyped' /\ CollTyped /\ VerdictInv /\ [Next]_vars
        => OthersTyped'
  BY OthersNext
<1>3. LocalsTyped /\ LocalsInv /\ CollTyped /\ ReachTyped /\ ReachInv /\ OfferedInv /\ [Next]_vars
        => ReachInv'
  BY ReachNext
<1> QED BY <1>1, <1>2, <1>3, ReachInit, OthersInit, VerdictInit, VerdictNext, OfferedAlways,
           Typed, PTL DEF Spec

(***************************************************************************)
(* When SendMessage returned nil, FCM got the message once for every token *)
(* that was due it, through one account, from the start to the second      *)
(* query, whatever others did to the two collections between the queries   *)
(* and after them.                                                         *)
(***************************************************************************)
THEOREM StableTokensAreReached == Spec => []StableTokensReached
<1>1. ReachInv /\ OthersTyped /\ OfferedInv => StableTokensReached
  <2> SUFFICES ASSUME ReachInv, OthersTyped, OfferedInv, NEW m \in Message, returned[m] = "ok",
                      NEW t \in stable[m]
               PROVE  offered[m][t] = 1
    BY DEF StableTokensReached
  <2>1. t \in Token /\ offered[m][t] \in Nat
    BY DEF OthersTyped, OfferedInv, OfferedTyped
  <2>2. offered[m][t] > 0 /\ offered[m][t] <= 1
    BY <2>1 DEF ReachInv, SuccessReached, OfferedInv, OfferedAtMostOnce
  <2> QED BY <2>1, <2>2
<1> QED BY <1>1, ReachAlways, OfferedAlways, PTL

(***************************************************************************)
(* FCM gets a message for those tokens only that were due it when it       *)
(* started, as long as nobody changes the collections while SendMessage    *)
(* runs: no token of the author, of an account that is not subscribed, or  *)
(* of a platform without a provider.                                       *)
(***************************************************************************)
THEOREM OnlyDueTokensOffered == Spec => []OnlyDueTokens
<1>1. ReachInv => OnlyDueTokens
  BY DEF ReachInv
<1> QED BY <1>1, ReachAlways, PTL

-----------------------------------------------------------------------------
(***************************************************************************)
(* Sender implements Fanout, for any number of consumers, messages, tokens *)
(* and changes of the collections.  What remains of a message is what its  *)
(* consumer has left for the platforms with a provider.                    *)
(***************************************************************************)

\* The refinement mapping of Dispatch.
Rest == [m \in Message |-> Remaining(m)]

\* What remains of a message is what its consumer has, if it has one.
Known ==
  \A m \in Message :
    /\ (\A w \in Worker : msg[w] # m) => Remaining(m) = {}
    /\ \A w \in Worker : msg[w] = m => Remaining(m) = Own(w)

\* A consumer has its message for itself.
LEMMA KnownAlways == LocalsTyped /\ LocalsInv => Known
<1> SUFFICES ASSUME LocalsTyped, LocalsInv, NEW m \in Message
             PROVE  /\ (\A w \in Worker : msg[w] # m) => Remaining(m) = {}
                    /\ \A w \in Worker : msg[w] = m => Remaining(m) = Own(w)
  BY DEF Known
<1>1. ASSUME \A w \in Worker : msg[w] # m PROVE Remaining(m) = {}
  BY <1>1 DEF Remaining
<1>2. ASSUME NEW w \in Worker, msg[w] = m PROVE Remaining(m) = Own(w)
  <2>1. \A v \in Worker : msg[v] = m => v = w
    BY <1>2, SenderAssumption DEF LocalsInv, OneConsumer
  <2>2. Own(w) \subseteq Left(w)
    BY DEF Own, Left
  <2>3. Own(w) \subseteq Token
    BY <2>2, LeftTokens DEF LeftAreTokens
  <2>4. \A t \in Token : t \in Own(w) <=>
          \/ t \in Range(nextBatch[w])
          \/ \E p \in DOMAIN byProvider[w] \cap Provider : t \in Range(byProvider[w][p])
    BY DEF Own
  <2>5. \A t \in Token : t \in Remaining(m) <=> t \in Own(w)
    BY <1>2, <2>1, <2>4 DEF Remaining
  <2>6. Remaining(m) \subseteq Token
    BY DEF Remaining
  <2> QED BY <2>3, <2>5, <2>6
<1> QED BY <1>1, <1>2

\* The steps of one consumer do not show in the messages of the other ones.
LEMMA OthersRemain ==
  ASSUME Known, Known', NEW w \in Worker, NEW n \in Message, msg[w] # n, msg'[w] # n,
         \A v \in Worker \ {w} : UNCHANGED <<msg[v], byProvider[v], nextBatch[v]>>
  PROVE  Remaining(n)' = Remaining(n)
<1>1. CASE \E v \in Worker : msg[v] = n
  <2>1. PICK v \in Worker : msg[v] = n
    BY <1>1
  <2>2. Remaining(n) = Own(v) /\ Remaining(n)' = Own(v)'
    BY <2>1 DEF Known
  <2> QED BY <2>1, <2>2, OwnSame
<1>2. CASE \A v \in Worker : msg[v] # n
  <2>1. \A v \in Worker : msg'[v] # n
    BY <1>2
  <2> QED BY <1>2, <2>1 DEF Known
<1> QED BY <1>1, <1>2

\* Steps that leave what every consumer works on alone do not show.
LEMMA SilentStep ==
  ASSUME Known, Known', UNCHANGED <<offered, returned, msg>>,
         \A v \in Worker : Own(v)' = Own(v)
  PROVE  UNCHANGED <<Rest, offered, returned>>
<1>1. ASSUME NEW n \in Message PROVE Remaining(n)' = Remaining(n)
  <2>1. CASE \E v \in Worker : msg[v] = n
    <3>1. PICK v \in Worker : msg[v] = n
      BY <2>1
    <3> QED BY <3>1 DEF Known
  <2>2. CASE \A v \in Worker : msg[v] # n
    BY <2>2 DEF Known
  <2> QED BY <2>1, <2>2
<1> QED BY <1>1 DEF Rest

\* Steps that show in one message only.
LEMMA OneMessage ==
  ASSUME NEW m \in Message, NEW ts,
         \A n \in Message \ {m} : Remaining(n)' = Remaining(n),
         Remaining(m)' = ts
  PROVE  Rest' = [Rest EXCEPT ![m] = ts]
BY DEF Rest

\* Offering a list counts as Fanout does.
LEMMA OfferedAsFanout ==
  ASSUME NEW m \in Message, NEW ts \in Seq(Token), NoRepeats(ts), Offer(m, ts),
         offered \in [Message -> [Token -> Nat]]
  PROVE  offered' = Dispatch!Offered(m, Range(ts))
<1>1. /\ offered' \in [Message -> [Token -> Nat]]
      /\ \A n \in Message \ {m} : offered'[n] = offered[n]
      /\ \A t \in Token : offered'[m][t] =
                            IF t \in Range(ts) THEN offered[m][t] + 1 ELSE offered[m][t]
  BY OfferCounts
<1>2. offered'[m] = [t \in Token |-> IF t \in Range(ts) THEN offered[m][t] + 1 ELSE offered[m][t]]
  BY <1>1
<1> QED BY <1>1, <1>2 DEF Dispatch!Offered

\* Offering nothing is no change.
LEMMA NothingOffered ==
  ASSUME NEW m \in Message, offered \in [Message -> [Token -> Nat]]
  PROVE  offered = Dispatch!Offered(m, {})
BY DEF Dispatch!Offered

-----------------------------------------------------------------------------
\* At first nothing remains and nothing is offered.
LEMMA RefinesInit == Init => Dispatch!Init
<1> SUFFICES ASSUME Init PROVE Dispatch!Init
  OBVIOUS
<1>1. \A m \in Message : Remaining(m) = {}
  BY SenderAssumption DEF Init, Remaining
<1> QED BY <1>1 DEF Init, Dispatch!Init

\* The end of SendMessage: what remained of its message is given up.
LEMMA ReturnShows ==
  ASSUME LocalsTyped, LocalsInv, OfferedTyped, Known, Known',
         NEW w \in Worker, NEW result, at[w] # "idle", Return(w, result)
  PROVE  /\ msg[w] \in Message
         /\ returned[msg[w]] = "nothing"
         /\ Remaining(msg[w]) = Own(w)
         /\ Rest' = [Rest EXCEPT ![msg[w]] = {}]
         /\ returned' = [returned EXCEPT ![msg[w]] = result]
<1>1. msg[w] \in Message /\ returned[msg[w]] = "nothing"
  BY DEF LocalsTyped, LocalsInv, LocalsMatch
<1>2. /\ msg'[w] = NoMessage
      /\ \A v \in Worker \ {w} : UNCHANGED <<msg[v], byProvider[v], nextBatch[v]>>
  BY DEF Return, LocalsTyped
<1>3. PICK m \in Message : m = msg[w]
  BY <1>1
<1>4. \A n \in Message \ {m} : Remaining(n)' = Remaining(n)
  BY <1>2, <1>3, SenderAssumption, OthersRemain
<1>5. Remaining(m)' = {}
  <2>1. \A v \in Worker : msg'[v] # m
    BY <1>2, <1>3, SenderAssumption DEF LocalsInv, OneConsumer
  <2> QED BY <2>1 DEF Known
<1>6. Rest' = [Rest EXCEPT ![m] = {}]
  BY <1>4, <1>5, OneMessage
<1> QED BY <1>1, <1>3, <1>6 DEF Known, Return

\* An empty collection of tokens is nothing to notify, a failing query the
\* end of it, and the last platform is done when nothing remains.
LEMMA EndsShow ==
  ASSUME LocalsTyped, LocalsInv, OfferedTyped, Known, Known', NEW w \in Worker,
         FindNoTokens(w) \/ QueryFails(w) \/ PlatformsDone(w)
  PROVE  Dispatch!Next
<1>1. PICK m : m = msg[w]
  OBVIOUS
<1>2. PICK result \in {"ok", "err"} : Return(w, result) /\ UNCHANGED offered
  BY DEF FindNoTokens, QueryFails, PlatformsDone
<1>3. /\ at[w] \in {"accounts", "tokens", "platforms"}
      /\ at[w] = "platforms" => DOMAIN byProvider[w] = {}
  BY DEF FindNoTokens, QueryFails, PlatformsDone
<1>4. /\ m \in Message /\ returned[m] = "nothing"
      /\ Remaining(m) = Own(w)
      /\ Rest' = [Rest EXCEPT ![m] = {}]
      /\ returned' = [returned EXCEPT ![m] = result]
  BY <1>1, <1>2, <1>3, ReturnShows
<1>5. DOMAIN byProvider[w] = {} /\ nextBatch[w] = <<>>
  BY <1>3 DEF LocalsInv, LocalsMatch
<1>6. Rest[m] = {}
  BY <1>4, <1>5, EmptyList DEF Own, Rest
<1>7. CASE result = "ok"
  <2>1. Rest' = Rest
    BY <1>4, <1>6 DEF Rest
  <2>2. Dispatch!Succeed(m)
    BY <1>2, <1>4, <1>6, <1>7, <2>1 DEF Dispatch!Succeed, Rest
  <2> QED BY <1>4, <2>2 DEF Dispatch!Next
<1>8. CASE result = "err"
  <2>1. offered' = Dispatch!Offered(m, {})
    BY <1>2, <1>4, NothingOffered DEF OfferedTyped
  <2>2. Dispatch!Fail(m, {})
    BY <1>4, <1>8, <2>1 DEF Dispatch!Fail, Rest
  <2> QED BY <1>4, <2>2 DEF Dispatch!Next
<1> QED BY <1>7, <1>8

\* The second query chooses the tokens.
LEMMA FindTokensShows ==
  ASSUME LocalsTyped, LeftAreTokens', LocalsInv, OfferedInv, Known, Known',
         NEW w \in Worker, FindTokens(w)
  PROVE  Dispatch!Next
<1>1. PICK m : m = msg[w]
  OBVIOUS
<1>2. /\ at[w] = "tokens"
      /\ \E order : byProvider' = [byProvider EXCEPT ![w] = order]
      /\ UNCHANGED <<msg, nextBatch, offered, returned>>
  BY DEF FindTokens, historyVars
<1>3. m \in Message /\ returned[m] = "nothing"
  BY <1>1, <1>2 DEF LocalsTyped, LocalsInv, LocalsMatch
<1>4. \A t \in Token : offered[m][t] = 0
  <2>1. \A v \in Worker : msg[v] = m => at[v] \in {"accounts", "tokens"}
    BY <1>1, <1>2, <1>3, SenderAssumption DEF LocalsInv, OneConsumer
  <2> QED BY <1>3, <2>1 DEF OfferedInv, Untouched
<1>5. Remaining(m) = {}
  <2>1. DOMAIN byProvider[w] = {} /\ nextBatch[w] = <<>>
    BY <1>2 DEF LocalsInv, LocalsMatch
  <2>2. Own(w) = {}
    BY <2>1, EmptyList DEF Own
  <2> QED BY <1>1, <1>3, <2>2 DEF Known
<1>6. \A v \in Worker \ {w} : UNCHANGED <<msg[v], byProvider[v], nextBatch[v]>>
  BY <1>2 DEF LocalsTyped
<1>7. \A n \in Message \ {m} : Remaining(n)' = Remaining(n)
  BY <1>1, <1>2, <1>6, OthersRemain
<1>8. PICK ts : ts = Remaining(m)'
  OBVIOUS
<1>9. ts \in SUBSET Token
  BY <1>8 DEF Remaining
<1>10. Rest' = [Rest EXCEPT ![m] = ts]
  BY <1>3, <1>7, <1>8, OneMessage
<1>11. Dispatch!Choose(m, ts)
  BY <1>2, <1>3, <1>4, <1>5, <1>10 DEF Dispatch!Choose, Dispatch!Fresh, Rest
<1> QED BY <1>3, <1>9, <1>11 DEF Dispatch!Next

\* A batch is offered.
LEMMA SendBatchShows ==
  ASSUME LocalsTyped, LocalsInv, OfferedTyped, Known, Known', NEW w \in Worker, SendBatch(w)
  PROVE  Dispatch!Next
<1>1. PICK m, ts : m = msg[w] /\ ts = FirstBatch(nextBatch[w])
  OBVIOUS
<1>2. /\ at[w] = "batches"
      /\ Offer(m, ts)
      /\ nextBatch' = [nextBatch EXCEPT ![w] = RestOf(nextBatch[w])]
      /\ UNCHANGED <<msg, byProvider, returned>>
  BY <1>1 DEF SendBatch
<1>3. m \in Message /\ returned[m] = "nothing"
  BY <1>1, <1>2 DEF LocalsTyped, LocalsInv, LocalsMatch
<1>4. /\ ts \in Seq(Token) /\ NoRepeats(ts)
      /\ Range(ts) \in SUBSET Token
      /\ Range(ts) \subseteq Own(w)
      /\ Own(w) \ Range(ts) =
           Range(RestOf(nextBatch[w]))
           \cup UNION {Range(byProvider[w][p]) : p \in DOMAIN byProvider[w] \cap Provider}
  BY <1>1, BatchOwn
<1>5. /\ nextBatch'[w] = RestOf(nextBatch[w])
      /\ \A v \in Worker \ {w} : UNCHANGED <<msg[v], byProvider[v], nextBatch[v]>>
  BY <1>2 DEF LocalsTyped
<1>6. Own(w)' = Own(w) \ Range(ts)
  BY <1>2, <1>4, <1>5 DEF Own
<1>7. Remaining(m) = Own(w) /\ Remaining(m)' = Remaining(m) \ Range(ts)
  BY <1>1, <1>2, <1>3, <1>6 DEF Known
<1>8. \A n \in Message \ {m} : Remaining(n)' = Remaining(n)
  BY <1>1, <1>2, <1>5, OthersRemain
<1>9. Rest' = [Rest EXCEPT ![m] = @ \ Range(ts)]
  BY <1>3, <1>7, <1>8 DEF Rest
<1>10. offered' = Dispatch!Offered(m, Range(ts))
  BY <1>2, <1>3, <1>4, OfferedAsFanout DEF OfferedTyped
<1>11. Dispatch!Offer(m, Range(ts))
  BY <1>2, <1>3, <1>4, <1>7, <1>9, <1>10 DEF Dispatch!Offer, Rest
<1> QED BY <1>3, <1>4, <1>11 DEF Dispatch!Next

\* A failing call of the provider gives up the rest, what FCM did not take of
\* the batch included.
LEMMA SendBatchFailsShows ==
  ASSUME LocalsTyped, LocalsInv, OfferedTyped, Known, Known', NEW w \in Worker,
         SendBatchFails(w)
  PROVE  Dispatch!Next
<1>1. PICK m : m = msg[w]
  OBVIOUS
<1>2. PICK ts : ts = FirstBatch(nextBatch[w])
  OBVIOUS
<1>3. /\ at[w] = "batches"
      /\ Return(w, "err")
      /\ \E n \in 0 .. Len(ts) : Offer(m, SubSeq(ts, 1, n))
  BY <1>1, <1>2 DEF SendBatchFails
<1>4. /\ m \in Message /\ returned[m] = "nothing"
      /\ Remaining(m) = Own(w)
      /\ Rest' = [Rest EXCEPT ![m] = {}]
      /\ returned' = [returned EXCEPT ![m] = "err"]
  BY <1>1, <1>3, ReturnShows
<1>5. /\ ts \in Seq(Token) /\ NoRepeats(ts)
      /\ Range(ts) \in SUBSET Token /\ Range(ts) \subseteq Own(w)
  BY <1>2, BatchOwn
<1>6. PICK ms \in SUBSET Range(ts) : offered' = Dispatch!Offered(m, ms)
  <2>1. PICK us \in Seq(Token) : NoRepeats(us) /\ Range(us) \subseteq Range(ts) /\ Offer(m, us)
    BY <1>3, <1>5, TakenPart
  <2>2. offered' = Dispatch!Offered(m, Range(us))
    BY <1>4, <2>1, OfferedAsFanout DEF OfferedTyped
  <2> QED BY <2>1, <2>2
<1>7. Dispatch!Fail(m, ms)
  BY <1>4, <1>5, <1>6 DEF Dispatch!Fail, Rest
<1>8. ms \in SUBSET Token
  BY <1>5, <1>6
<1> QED BY <1>4, <1>7, <1>8 DEF Dispatch!Next

\* The loop over the platforms moves the tokens of a platform with a provider
\* to the batches, and skips the ones of the others, which did not count.
LEMMA PlatformShowsNothing ==
  ASSUME LocalsTyped, LocalsInv, Known, Known', NEW w \in Worker,
         NEW p \in DOMAIN byProvider[w], SkipPlatform(w, p) \/ CallProvider(w, p)
  PROVE  UNCHANGED <<Rest, offered, returned>>
<1>1. UNCHANGED <<msg, offered, returned>>
  BY DEF SkipPlatform, CallProvider, historyVars
<1>2. \A v \in Worker : Own(v)' = Own(v)
  BY PlatformOwn, OwnSame
<1> QED BY <1>1, <1>2, SilentStep

\* A consumer that starts has nothing left, and its message has nobody else.
LEMMA StartShowsNothing ==
  ASSUME LocalsTyped, LocalsInv, Known, Known', NEW w \in Worker, NEW m \in Message,
         Start(w, m)
  PROVE  UNCHANGED <<Rest, offered, returned>>
<1>1. /\ at[w] = "idle"
      /\ \A v \in Worker : msg[v] # m
      /\ msg' = [msg EXCEPT ![w] = m]
      /\ UNCHANGED <<byProvider, nextBatch, offered, returned>>
  BY DEF Start
<1>2. /\ msg[w] = NoMessage /\ msg'[w] = m
      /\ DOMAIN byProvider[w] = {} /\ nextBatch[w] = <<>>
      /\ \A v \in Worker \ {w} : UNCHANGED <<msg[v], byProvider[v], nextBatch[v]>>
  BY <1>1 DEF LocalsTyped, LocalsInv, LocalsMatch
<1>3. Own(w) = {} /\ Own(w)' = Own(w)
  BY <1>1, <1>2, EmptyList, OwnSame DEF Own
<1>4. Remaining(m) = {} /\ Remaining(m)' = {}
  BY <1>1, <1>2, <1>3 DEF Known
<1>5. \A n \in Message \ {m} : Remaining(n)' = Remaining(n)
  BY <1>2, SenderAssumption, OthersRemain
<1> QED BY <1>1, <1>4, <1>5 DEF Rest

\* Every step of the sender is one of Fanout or does not show.
LEMMA RefinesNext ==
  ASSUME LocalsTyped, LeftAreTokens', LocalsInv, OfferedInv, Known, Known', [Next]_vars
  PROVE  Dispatch!Next \/ UNCHANGED <<Rest, offered, returned>>
<1> USE DEF OfferedInv
<1>1. ASSUME NEW w \in Worker, JobStep(w)
      PROVE  Dispatch!Next \/ UNCHANGED <<Rest, offered, returned>>
  <2>1. ASSUME FindAccounts(w) \/ BatchesDone(w) \/ ResponsesDone(w) \/ HandleResponse(w)
        PROVE  UNCHANGED <<Rest, offered, returned>>
    <3>1. UNCHANGED <<msg, byProvider, nextBatch, offered, returned>>
      BY <2>1 DEF FindAccounts, BatchesDone, ResponsesDone, HandleResponse, historyVars
    <3>2. \A v \in Worker : Own(v)' = Own(v)
      BY <3>1, OwnSame
    <3> QED BY <3>1, <3>2, SilentStep
  <2> QED BY <1>1, <2>1, EndsShow, FindTokensShows, SendBatchShows, SendBatchFailsShows,
             PlatformShowsNothing DEF JobStep
<1>2. ASSUME TakeInvalid \/ RemoveBatch \/ RemoveBatchFails \/ Close \/ Change \/ UNCHANGED vars
      PROVE  UNCHANGED <<Rest, offered, returned>>
  <2>1. UNCHANGED <<msg, byProvider, nextBatch, offered, returned>>
    BY <1>2 DEF TakeInvalid, RemoveBatch, RemoveBatchFails, Close, Change, vars, jobVars,
                historyVars
  <2>2. \A v \in Worker : Own(v)' = Own(v)
    BY <2>1, OwnSame
  <2> QED BY <2>1, <2>2, SilentStep
<1> QED BY <1>1, <1>2, StartShowsNothing DEF Next

(***************************************************************************)
(* SendMessage, its loops and the provider's, any failure among them and   *)
(* any change of the collections meanwhile, do what Fanout specifies: the  *)
(* second query fixes the tokens, each is offered at most once, and nil is *)
(* returned only when none is left.                                        *)
(***************************************************************************)
THEOREM SenderImplementsFanout == Spec => ImplementsFanout
<1>1. LocalsTyped /\ LeftAreTokens' /\ LocalsInv /\ OfferedInv /\ Known /\ Known'
        /\ [Next]_vars => [Dispatch!Next]_<<Rest, offered, returned>>
  BY RefinesNext
<1>2. Dispatch!Init /\ [][Dispatch!Next]_<<Rest, offered, returned>> => ImplementsFanout
  BY PTL DEF ImplementsFanout, Dispatch!Spec, Rest
<1> QED BY <1>1, <1>2, RefinesInit, KnownAlways, LeftTokens, OfferedAlways, Typed, PTL DEF Spec
=============================================================================
