------------------------------ MODULE Payload ------------------------------
(***************************************************************************)
(* What a device receives: the content of one notification on its way from *)
(* the request of Notify or NotifySilent (push/push.go), through the JSON  *)
(* of the queue, the data map of SendMessage (sender/sender.go) and the    *)
(* builders of multicast messages (sender/provider/fcm/fcm.go).            *)
(*                                                                         *)
(* SendMessage makes one data map, and the messages of all platforms and   *)
(* all batches refer to it; only a normal message for Android has a copy.  *)
(* Whom a message is for, and the errors, are the subject of Sender.       *)
(***************************************************************************)
EXTENDS Integers, FiniteSets

CONSTANTS
  Token,      \* the tokens that the queries of SendMessage may find
  Content,    \* the byte slices a client sends, the empty one among them
  EmptyBytes, \* the slice of length zero
  Nil,        \* a slice, a message or a map that is not there
  Text,       \* key ids and group ids
  EmptyText,  \* the string of length zero
  Null,       \* the null of JSON
  BatchSize   \* batchSize of fcm.go (500)

ASSUME PayloadAssumption ==
  /\ IsFiniteSet(Token)
  /\ EmptyBytes \in Content
  /\ EmptyText \in Text
  /\ Nil \notin Content
  /\ \A b \in Content : Null # [base64 |-> b]
  /\ BatchSize \in Nat \ {0}

VARIABLES
  at,          \* "request", "queued", "platforms", "batches" or "returned"
  request,     \* the request, which verified
  delivery,    \* the JSON of queue.Message
  data,        \* the map of SendMessage that its messages refer to
  byProvider,  \* the tokens found, by platform; done ones are taken out
  provider,    \* the platform of the provider that is called
  nextBatch,   \* the tokens this provider has not sent to
  received     \* what FCM got for each token

vars == <<at, request, delivery, data, byProvider, provider, nextBatch, received>>

\* A platform without a provider is possible, see Domain.
Platform == {"ios", "android", "unknown"}

(***************************************************************************)
(* A request that Notify accepts: the message is signed, and only a silent *)
(* one may have none.  The payload is nil when its field was not sent.     *)
(***************************************************************************)
Signed  == [payload : Content \cup {Nil}, signature : Content \ {EmptyBytes}, keyId : Text]
Request == {r \in [silent : BOOLEAN, groupId : Text, message : Signed \cup {Nil}] :
              r.message = Nil => r.silent}

\* queue.Message, of which the rest is not about the content.
QueueMessage == [silent : BOOLEAN, groupId : Text, keyId : Text,
                 payload : Content \cup {Nil}, signature : Content \cup {Nil}]

Queued(r) ==
  [silent    |-> r.silent,
   groupId   |-> r.groupId,
   keyId     |-> IF r.message = Nil THEN EmptyText ELSE r.message.keyId,
   payload   |-> IF r.message = Nil THEN Nil ELSE r.message.payload,
   signature |-> IF r.message = Nil THEN Nil ELSE r.message.signature]

-----------------------------------------------------------------------------
\* base64 makes the same text of nil and of an empty slice.
Base64(b) == [base64 |-> IF b = Nil THEN EmptyBytes ELSE b]

\* JSON tells the two apart.
ToJson(b)   == IF b = Nil THEN Null ELSE Base64(b)
FromJson(j) == IF j = Null THEN Nil ELSE j.base64

Marshal(m) ==
  [m EXCEPT !.payload = ToJson(@), !.signature = ToJson(@)]
Unmarshal(d) ==
  [d EXCEPT !.payload = FromJson(@), !.signature = FromJson(@)]

\* Mutant of HasPayload: one of the two is enough.
HasPayloadOr(m) == m.payload # Nil \/ m.signature # Nil

HasPayload(m) == m.payload # Nil /\ m.signature # Nil

\* The data map of SendMessage.
Data(m) ==
  [k \in {"type", "groupId"} \cup
         (IF HasPayload(m) THEN {"payload", "signature", "keyId"} ELSE {}) |->
     CASE k = "type"      -> IF m.silent THEN "silent" ELSE "normal"
       [] k = "groupId"   -> m.groupId
       [] k = "payload"   -> Base64(m.payload)
       [] k = "signature" -> Base64(m.signature)
       [] k = "keyId"     -> m.keyId]

-----------------------------------------------------------------------------
\* The keys a normal message for Android has in addition, with DefaultMessage.
TitleKey == {"title", "body", "imageUrl"}
Titled(d) == [k \in DOMAIN d \cup TitleKey |-> IF k \in TitleKey THEN "default" ELSE d[k]]

(***************************************************************************)
(* The switch of fcmSender.SendMessage, and its four builders.             *)
(***************************************************************************)
Build(p, silent, d) ==
  [data         |-> IF p = "android" /\ ~silent THEN Titled(d) ELSE d,
   notification |-> IF p = "ios" /\ ~silent THEN "default" ELSE "none",
   apns         |-> CASE p = "ios" /\ ~silent -> "mutableContent"
                      [] p = "ios" /\ silent  -> "contentAvailable"
                      [] OTHER                -> "none",
   android      |-> IF p = "android" /\ ~silent THEN "high" ELSE "none"]

\* Mutant of MapAfter: the builder writes into the map it was given.
MapAfterInPlace(p, silent, d) == Build(p, silent, d).data

\* What a builder leaves of the map it was given: maps.Copy makes another.
MapAfter(p, silent, d) == d

-----------------------------------------------------------------------------
Init ==
  /\ at = "request"
  /\ request \in Request
  /\ delivery = Nil
  /\ data = Nil
  /\ byProvider = [p \in Platform |-> {}]
  /\ provider = Nil
  /\ nextBatch = {}
  /\ received = [t \in Token |-> Nil]

Notify ==
  /\ at = "request"
  /\ at' = "queued"
  /\ delivery' = Marshal(Queued(request))
  /\ UNCHANGED <<request, data, byProvider, provider, nextBatch, received>>

\* The queries found tokens; each has one platform.
Start ==
  /\ at = "queued"
  /\ at' = "platforms"
  /\ data' = Data(Unmarshal(delivery))
  /\ \E found \in SUBSET Token : \E platformOf \in [found -> Platform] :
       byProvider' = [p \in Platform |-> {t \in found : platformOf[t] = p}]
  /\ UNCHANGED <<request, delivery, provider, nextBatch, received>>

CallProvider(p) ==
  /\ at = "platforms"
  /\ p # "unknown"
  /\ byProvider[p] # {}
  /\ at' = "batches"
  /\ provider' = p
  /\ nextBatch' = byProvider[p]
  /\ byProvider' = [byProvider EXCEPT ![p] = {}]
  /\ UNCHANGED <<request, delivery, data, received>>

\* The tokens are in any order, so that a batch is any part of the right size.
IsBatch(ts) ==
  /\ ts \subseteq nextBatch
  /\ ts # {}
  /\ IF Cardinality(nextBatch) > BatchSize
       THEN Cardinality(ts) = BatchSize
       ELSE ts = nextBatch

SendBatch(ts) ==
  /\ at = "batches"
  /\ IsBatch(ts)
  /\ LET silent  == Unmarshal(delivery).silent
         message == Build(provider, silent, data)
     IN  /\ received' = [t \in Token |-> IF t \in ts THEN message ELSE received[t]]
         /\ data' = MapAfter(provider, silent, data)
  /\ nextBatch' = nextBatch \ ts
  /\ UNCHANGED <<at, request, delivery, byProvider, provider>>

\* FCM's error ends SendMessage.
SendBatchFails ==
  /\ at = "batches"
  /\ nextBatch # {}
  /\ at' = "returned"
  /\ UNCHANGED <<request, delivery, data, byProvider, provider, nextBatch, received>>

BatchesDone ==
  /\ at = "batches"
  /\ nextBatch = {}
  /\ at' = "platforms"
  /\ UNCHANGED <<request, delivery, data, byProvider, provider, nextBatch, received>>

PlatformsDone ==
  /\ at = "platforms"
  /\ byProvider["ios"] \cup byProvider["android"] = {}
  /\ at' = "returned"
  /\ UNCHANGED <<request, delivery, data, byProvider, provider, nextBatch, received>>

Next ==
  \/ Notify
  \/ Start
  \/ \E p \in Platform : CallProvider(p)
  \/ \E ts \in SUBSET Token : SendBatch(ts)
  \/ SendBatchFails
  \/ BatchesDone
  \/ PlatformsDone

Spec == Init /\ [][Next]_vars

-----------------------------------------------------------------------------
Reached == {t \in Token : received[t] # Nil}

(***************************************************************************)
(* A device can check what it gets: it has the payload, the signature and  *)
(* the key id of the request, all of them and unchanged, or none when the  *)
(* author sent no payload, on every platform and in every batch.           *)
(***************************************************************************)
SignedTogether ==
  \A t \in Reached :
    LET got  == received[t].data
        sent == request.message
    IN  IF sent # Nil /\ sent.payload # Nil
          THEN /\ {"payload", "signature", "keyId"} \subseteq DOMAIN got
               /\ got["payload"].base64 = sent.payload
               /\ got["signature"].base64 = sent.signature
               /\ got["keyId"] = sent.keyId
          ELSE DOMAIN got \cap {"payload", "signature", "keyId"} = {}

(***************************************************************************)
(* A silent message shows nothing on any device: no Notification and no    *)
(* title.  A normal one can be shown in one way on each, by iOS from the   *)
(* Notification and by the Android application from the data, whichever    *)
(* platform or batch was served before.                                    *)
(***************************************************************************)
ShownUnlessSilent ==
  \A t \in Reached :
    LET inNotification == received[t].notification # "none"
        inData         == TitleKey \subseteq DOMAIN received[t].data
    IN  IF request.silent
          THEN ~inNotification /\ TitleKey \cap DOMAIN received[t].data = {}
          ELSE inNotification # inData
=============================================================================
