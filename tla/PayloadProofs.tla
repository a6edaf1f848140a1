--------------------------- MODULE PayloadProofs ---------------------------
(***************************************************************************)
(* What devices receive, for any tokens, byte slices, texts and batch size.*)
(* The inductive invariant says that the shared data map still is what the *)
(* request makes of it, so that every token got what its platform's        *)
(* builder makes of that map, whatever was built before.                   *)
(***************************************************************************)
EXTENDS Payload, TLAPS

\* What a device on platform p has to get.
Expected(p) == Build(p, request.silent, Data(Queued(request)))

Running == at \in {"platforms", "batches"}

IInv ==
  /\ request \in Request
  /\ at \in {"request", "queued", "platforms", "batches", "returned"}
  /\ at # "request" => delivery = Marshal(Queued(request))
  /\ Running => data = Data(Queued(request))
  /\ DOMAIN byProvider = Platform
  /\ at = "batches" => provider \in {"ios", "android"}
  /\ \A t \in Token :
       received[t] # Nil => \E p \in {"ios", "android"} : received[t] = Expected(p)

-----------------------------------------------------------------------------
\* A slice comes out of the JSON of the queue as it went in, nil as nil.
LEMMA BytesSurvive ==
  ASSUME NEW b \in Content \cup {Nil}
  PROVE  FromJson(ToJson(b)) = b
<1>1. CASE b = Nil
  BY <1>1 DEF FromJson, ToJson
<1>2. CASE b # Nil
  BY <1>2, PayloadAssumption DEF FromJson, ToJson, Base64
<1> QED BY <1>1, <1>2

\* What Notify makes of a request is a queue.Message.
LEMMA QueuedType ==
  ASSUME NEW r \in Request
  PROVE  Queued(r) \in QueueMessage
<1>1. CASE r.message = Nil
  BY <1>1, PayloadAssumption DEF Queued, Request, QueueMessage
<1>2. CASE r.message # Nil
  <2>1. r.message \in Signed
    BY <1>2 DEF Request
  <2> QED BY <1>2, <2>1, PayloadAssumption DEF Queued, Request, QueueMessage, Signed
<1> QED BY <1>1, <1>2

\* SendMessage gets the message that Notify put into the queue.
LEMMA MessageSurvives ==
  ASSUME NEW m \in QueueMessage
  PROVE  Unmarshal(Marshal(m)) = m
<1>1. /\ FromJson(ToJson(m.payload)) = m.payload
      /\ FromJson(ToJson(m.signature)) = m.signature
  BY BytesSurvive DEF QueueMessage
<1> QED BY <1>1 DEF Unmarshal, Marshal, QueueMessage

\* So the whole way through the queue does nothing to the message.
LEMMA DeliveredAsQueued ==
  IInv /\ at # "request" => /\ Unmarshal(delivery) = Queued(request)
                            /\ Unmarshal(delivery).silent = request.silent
<1> SUFFICES ASSUME IInv, at # "request"
             PROVE  /\ Unmarshal(delivery) = Queued(request)
                    /\ Unmarshal(delivery).silent = request.silent
  OBVIOUS
<1>1. Unmarshal(delivery) = Queued(request)
  BY QueuedType, MessageSurvives DEF IInv
<1>2. Queued(request).silent = request.silent
  BY DEF Queued
<1> QED BY <1>1, <1>2

-----------------------------------------------------------------------------
\* The invariant holds at first.
LEMMA IInvInit == Init => IInv
BY DEF Init, IInv, Running, Expected

\* Every step keeps it; only SendBatch gives a device anything.
LEMMA IInvNext == IInv /\ [Next]_vars => IInv'
<1> SUFFICES ASSUME IInv, [Next]_vars
             PROVE  IInv'
  OBVIOUS
<1> USE DEF IInv, Running, Expected
<1>1. CASE Notify
  BY <1>1 DEF Notify
<1>2. CASE Start
  <2>1. data' = Data(Queued(request))
    BY <1>2, DeliveredAsQueued DEF Start
  <2> QED BY <1>2, <2>1 DEF Start
<1>3. ASSUME NEW p \in Platform, CallProvider(p)
      PROVE  IInv'
  BY <1>3 DEF CallProvider, Platform
<1>4. ASSUME NEW ts \in SUBSET Token, SendBatch(ts)
      PROVE  IInv'
  <2>1. at = "batches" /\ at' = at /\ UNCHANGED <<request, delivery, byProvider, provider>>
    BY <1>4 DEF SendBatch
  <2>2. data' = data /\ data = Data(Queued(request))
    BY <1>4 DEF SendBatch, MapAfter
  <2>3. Build(provider, Unmarshal(delivery).silent, data) = Expected(provider)
    BY <2>1, <2>2, DeliveredAsQueued
  <2>4. received' = [t \in Token |-> IF t \in ts THEN Expected(provider) ELSE received[t]]
    BY <1>4, <2>3 DEF SendBatch
  <2>5. Expected(provider)' = Expected(provider)
    BY <2>1
  <2>6. \A t \in Token : received'[t] # Nil =>
          \E p \in {"ios", "android"} : received'[t] = Expected(p)
    BY <2>1, <2>4
  <2> QED BY <2>1, <2>2, <2>6
<1>5. CASE SendBatchFails
  BY <1>5 DEF SendBatchFails
<1>6. CASE BatchesDone
  BY <1>6 DEF BatchesDone
<1>7. CASE PlatformsDone
  BY <1>7 DEF PlatformsDone
<1>8. CASE UNCHANGED vars
  BY <1>8 DEF vars
<1> QED BY <1>1, <1>2, <1>3, <1>4, <1>5, <1>6, <1>7, <1>8 DEF Next

\* The inductive invariant as an invariant of the specification.
LEMMA Invariance == Spec => []IInv
BY IInvInit, IInvNext, PTL DEF Spec

-----------------------------------------------------------------------------
\* What the data of an expected message says of the payload.
LEMMA ExpectedSigned ==
  ASSUME NEW r \in Request, NEW p \in {"ios", "android"}
  PROVE  LET got  == Build(p, r.silent, Data(Queued(r))).data
             sent == r.message
         IN  IF sent # Nil /\ sent.payload # Nil
               THEN /\ {"payload", "signature", "keyId"} \subseteq DOMAIN got
                    /\ got["payload"].base64 = sent.payload
                    /\ got["signature"].base64 = sent.signature
                    /\ got["keyId"] = sent.keyId
               ELSE DOMAIN got \cap {"payload", "signature", "keyId"} = {}
<1> DEFINE d   == Data(Queued(r))
           got == Build(p, r.silent, d).data
<1>1. got = d \/ got = Titled(d)
  BY DEF Build
<1>2. /\ \A k \in {"payload", "signature", "keyId"} :
           /\ k \in DOMAIN got <=> k \in DOMAIN d
           /\ k \in DOMAIN d => got[k] = d[k]
  BY <1>1 DEF Titled, TitleKey
<1>3. CASE r.message # Nil /\ r.message.payload # Nil
  <2>1. r.message \in Signed
    BY <1>3 DEF Request
  <2>2. r.message.signature # Nil
    BY <2>1, PayloadAssumption DEF Signed
  <2>3. /\ Queued(r).payload = r.message.payload
        /\ Queued(r).signature = r.message.signature
        /\ Queued(r).keyId = r.message.keyId
    BY <1>3 DEF Queued
  <2>4. /\ {"payload", "signature", "keyId"} \subseteq DOMAIN d
        /\ d["payload"] = Base64(r.message.payload)
        /\ d["signature"] = Base64(r.message.signature)
        /\ d["keyId"] = r.message.keyId
    BY <1>3, <2>2, <2>3 DEF Data, HasPayload
  <2> QED BY <1>2, <1>3, <2>2, <2>4 DEF Base64
<1>4. CASE ~(r.message # Nil /\ r.message.payload # Nil)
  <2>1. Queued(r).payload = Nil
    BY <1>4 DEF Queued
  <2>2. DOMAIN d = {"type", "groupId"}
    BY <2>1 DEF Data, HasPayload
  <2> QED BY <1>2, <1>4, <2>2
<1> QED BY <1>3, <1>4

\* How an expected message is shown.
LEMMA ExpectedShown ==
  ASSUME NEW r \in Request, NEW p \in {"ios", "android"}
  PROVE  LET got            == Build(p, r.silent, Data(Queued(r)))
             inNotification == got.notification # "none"
             inData         == TitleKey \subseteq DOMAIN got.data
         IN  IF r.silent
               THEN ~inNotification /\ TitleKey \cap DOMAIN got.data = {}
               ELSE inNotification # inData
<1> DEFINE d == Data(Queued(r))
<1>1. r.silent \in BOOLEAN
  BY DEF Request
<1>2. TitleKey \cap DOMAIN d = {}
  BY DEF Data, TitleKey
<1>3. TitleKey \subseteq DOMAIN Titled(d)
  BY DEF Titled
<1>4. ~(TitleKey \subseteq DOMAIN d)
  BY <1>2 DEF TitleKey
<1> HIDE DEF d
<1> QED BY <1>1, <1>2, <1>3, <1>4 DEF Build, d

-----------------------------------------------------------------------------
(***************************************************************************)
(* A device can check what it gets: payload, signature and key id reach it *)
(* together and unchanged, or none of them does.                           *)
(***************************************************************************)
THEOREM PayloadStaysSigned == Spec => []SignedTogether
<1>1. IInv => SignedTogether
  BY ExpectedSigned DEF IInv, Expected, SignedTogether, Reached
<1> QED BY <1>1, Invariance, PTL

(***************************************************************************)
(* A silent message shows nothing, and a normal one has one thing to show, *)
(* on every platform and whatever was sent before it.                      *)
(***************************************************************************)
THEOREM SilentShowsNothing == Spec => []ShownUnlessSilent
<1>1. IInv => ShownUnlessSilent
  BY ExpectedShown DEF IInv, Expected, ShownUnlessSilent, Reached
<1> QED BY <1>1, Invariance, PTL
=============================================================================
