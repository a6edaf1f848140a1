------------------------------ MODULE PushApi ------------------------------
(***************************************************************************)
(* The messages of pushclient/pushapi/protos/push.proto and their codec,   *)
(* push_vtproto.pb.go, which client and server share.                      *)
(*                                                                         *)
(* A buffer is the sequence of its fields; of their bytes the model keeps  *)
(* how many they are, because MarshalVT first computes the size of a       *)
(* message with SizeVT and then fills a buffer of that size from its end.  *)
(* Byte strings and strings are opaque, but have a length; nil and empty   *)
(* ones are the same.  A message that is optional in another one is a      *)
(* sequence of at most one message.                                        *)
(***************************************************************************)
EXTENDS Integers, Sequences, FiniteSets, SequencesExt

CONSTANTS
  Blob,     \* byte strings
  BlobLen,  \* how long each of them is
  Empty     \* the empty one

ASSUME ApiAssumption ==
  /\ BlobLen \in [Blob -> Nat]
  /\ Empty \in Blob
  /\ \A b \in Blob : BlobLen[b] = 0 <=> b = Empty

\* Wire types; a group is one field, with all that is in it.
VarintType    == 0
Fixed64Type   == 1
DelimitedType == 2
GroupType     == 3
EndGroupType  == 4
Fixed32Type   == 5

\* An int32 travels sign-extended to 64 bits: a negative one takes ten bytes.
SizeOfVarint(n) ==
  IF n < 0 THEN 10 ELSE 1 + Cardinality({k \in 1 .. 4 : n >= 128 ^ k})

\* Field numbers are below 16, so that a tag is one byte.
FieldSize(f) ==
  1 + f.len + IF f.type = DelimitedType THEN SizeOfVarint(f.len) ELSE 0

WireSize(b) == FoldLeft(LAMBDA n, f : n + FieldSize(f), 0, b)

-----------------------------------------------------------------------------
\* The generated structs, as new(T) makes them.
Topics0                == [topics |-> <<>>, unknownFields |-> <<>>]
Topic0                 == [spaceKey |-> Empty, topic |-> Empty, signature |-> Empty,
                           unknownFields |-> <<>>]
SetTokenRequest0       == [platform |-> 0, token |-> Empty, unknownFields |-> <<>>]
CreateSpaceRequest0    == [spaceKey |-> Empty, accountSignature |-> Empty,
                           unknownFields |-> <<>>]
RemoveSpaceRequest0    == [spaceKey |-> Empty, accountSignature |-> Empty,
                           unknownFields |-> <<>>]
SubscriptionsRequest0  == [unknownFields |-> <<>>]
SubscriptionsResponse0 == [topics |-> <<>>, unknownFields |-> <<>>]
SubscribeRequest0      == [topics |-> <<>>, unknownFields |-> <<>>]
UnsubscribeRequest0    == [topics |-> <<>>, unknownFields |-> <<>>]
SubscribeAllRequest0   == [topics |-> <<>>, unknownFields |-> <<>>]
NotifyRequest0         == [topics |-> <<>>, message |-> <<>>, groupId |-> Empty,
                           unknownFields |-> <<>>]
Message0               == [keyId |-> Empty, payload |-> Empty, signature |-> Empty,
                           unknownFields |-> <<>>]
Ok0                    == [unknownFields |-> <<>>]

-----------------------------------------------------------------------------
(***************************************************************************)
(* MarshalToSizedBufferVT: the fields that are set, in the order of their  *)
(* numbers, and then those that this release did not know when it read     *)
(* them.                                                                   *)
(***************************************************************************)
Delimited(num, len, value) ==
  [num |-> num, type |-> DelimitedType, len |-> len, value |-> value]

PutInt(num, n) ==
  IF n = 0 THEN <<>>
  ELSE <<[num |-> num, type |-> VarintType, len |-> SizeOfVarint(n), value |-> n]>>

PutBytes(num, b) == IF b = Empty THEN <<>> ELSE <<Delimited(num, BlobLen[b], b)>>

\* The buffers of the messages of a repeated field, or of an optional field.
PutMessages(num, buffers) ==
  [i \in DOMAIN buffers |-> Delimited(num, WireSize(buffers[i]), buffers[i])]

MarshalTopic(m) ==
  PutBytes(1, m.spaceKey) \o PutBytes(2, m.topic) \o PutBytes(3, m.signature)
    \o m.unknownFields
MarshalTopics(m) ==
  PutMessages(1, [i \in DOMAIN m.topics |-> MarshalTopic(m.topics[i])]) \o m.unknownFields
MarshalOptionalTopics(m) ==
  PutMessages(1, [i \in DOMAIN m.topics |-> MarshalTopics(m.topics[i])])
MarshalMessage(m) ==
  PutBytes(1, m.keyId) \o PutBytes(2, m.payload) \o PutBytes(3, m.signature)
    \o m.unknownFields
MarshalSetTokenRequest(m) ==
  PutInt(1, m.platform) \o PutBytes(2, m.token) \o m.unknownFields
MarshalCreateSpaceRequest(m) ==
  PutBytes(1, m.spaceKey) \o PutBytes(2, m.accountSignature) \o m.unknownFields
MarshalRemoveSpaceRequest(m) ==
  PutBytes(1, m.spaceKey) \o PutBytes(2, m.accountSignature) \o m.unknownFields
MarshalSubscriptionsRequest(m) == m.unknownFields
MarshalSubscriptionsResponse(m) == MarshalOptionalTopics(m) \o m.unknownFields
MarshalSubscribeRequest(m) == MarshalOptionalTopics(m) \o m.unknownFields
MarshalUnsubscribeRequest(m) == MarshalOptionalTopics(m) \o m.unknownFields
MarshalSubscribeAllRequest(m) == MarshalOptionalTopics(m) \o m.unknownFields
MarshalNotifyRequest(m) ==
  MarshalOptionalTopics(m)
    \o PutMessages(2, [i \in DOMAIN m.message |-> MarshalMessage(m.message[i])])
    \o PutBytes(3, m.groupId) \o m.unknownFields
MarshalOk(m) == m.unknownFields

-----------------------------------------------------------------------------
(***************************************************************************)
(* SizeVT: how many bytes these fields take.  It follows the struct and    *)
(* not the buffer, so the two computations may disagree.                   *)
(***************************************************************************)
IntSize(n) == IF n = 0 THEN 0 ELSE 1 + SizeOfVarint(n)

\* Mutant of BytesSize: the length of a string takes one byte.
BytesSizeShort(b) == IF b = Empty THEN 0 ELSE 2 + BlobLen[b]

BytesSize(b) ==
  IF b = Empty THEN 0 ELSE 1 + BlobLen[b] + SizeOfVarint(BlobLen[b])

MessagesSize(sizes) == FoldLeft(LAMBDA n, l : n + 1 + l + SizeOfVarint(l), 0, sizes)

SizeTopic(m) ==
  BytesSize(m.spaceKey) + BytesSize(m.topic) + BytesSize(m.signature)
    + WireSize(m.unknownFields)
SizeTopics(m) ==
  MessagesSize([i \in DOMAIN m.topics |-> SizeTopic(m.topics[i])])
    + WireSize(m.unknownFields)
SizeOptionalTopics(m) ==
  MessagesSize([i \in DOMAIN m.topics |-> SizeTopics(m.topics[i])])
SizeMessage(m) ==
  BytesSize(m.keyId) + BytesSize(m.payload) + BytesSize(m.signature)
    + WireSize(m.unknownFields)
SizeSetTokenRequest(m) ==
  IntSize(m.platform) + BytesSize(m.token) + WireSize(m.unknownFields)
SizeCreateSpaceRequest(m) ==
  BytesSize(m.spaceKey) + BytesSize(m.accountSignature) + WireSize(m.unknownFields)
SizeRemoveSpaceRequest(m) ==
  BytesSize(m.spaceKey) + BytesSize(m.accountSignature) + WireSize(m.unknownFields)
SizeSubscriptionsRequest(m) == WireSize(m.unknownFields)
SizeSubscriptionsResponse(m) ==
  SizeOptionalTopics(m) + WireSize(m.unknownFields)
SizeSubscribeRequest(m) ==
  SizeOptionalTopics(m) + WireSize(m.unknownFields)
SizeUnsubscribeRequest(m) ==
  SizeOptionalTopics(m) + WireSize(m.unknownFields)
SizeSubscribeAllRequest(m) ==
  SizeOptionalTopics(m) + WireSize(m.unknownFields)
SizeNotifyRequest(m) ==
  SizeOptionalTopics(m)
    + MessagesSize([i \in DOMAIN m.message |-> SizeMessage(m.message[i])])
    + BytesSize(m.groupId) + WireSize(m.unknownFields)
SizeOk(m) == WireSize(m.unknownFields)

(***************************************************************************)
(* MarshalVT: make([]byte, size), filled from the end; the first len(dAtA) *)
(* - i of its bytes are returned.  With a buffer that is too large these   *)
(* are zeroes, whose tag is illegal, and with one that is too small an     *)
(* index is out of range: nothing is sent that could be read.              *)
(***************************************************************************)
Unreadable == [num |-> 0, type |-> VarintType, len |-> 1, value |-> 0]
MarshalVT(size, buffer) ==
  IF WireSize(buffer) = size THEN buffer ELSE <<Unreadable>>

-----------------------------------------------------------------------------
(***************************************************************************)
(* UnmarshalVT reads the fields in the order they come into a message.  A  *)
(* step gives the messages that a field may turn it into: one, or none     *)
(* when the field is refused.                                              *)
(***************************************************************************)
LegalTag(f) == f.num > 0 /\ f.type # EndGroupType

\* Mutant of TakeInt: the wire type is not looked at.
TakeIntOfAnyType(m, f, num, name) ==
  IF f.num = num THEN {[m EXCEPT ![name] = f.value]} ELSE {}

TakeInt(m, f, num, name) ==
  IF f.num = num /\ f.type = VarintType THEN {[m EXCEPT ![name] = f.value]} ELSE {}

TakeBytes(m, f, num, name) ==
  IF f.num = num /\ f.type = DelimitedType THEN {[m EXCEPT ![name] = f.value]} ELSE {}

\* A repeated message is appended.  ns is what its buffer is read as.
TakeMessage(m, f, num, name, ns) ==
  IF f.num = num /\ f.type = DelimitedType
    THEN {[m EXCEPT ![name] = Append(@, n)] : n \in ns}
    ELSE {}

\* An optional message is read into the one that came before.
Previous(m, name, m0) == IF m[name] = <<>> THEN m0 ELSE m[name][1]
TakeOptional(m, f, num, name, ns) ==
  IF f.num = num /\ f.type = DelimitedType
    THEN {[m EXCEPT ![name] = <<n>>] : n \in ns}
    ELSE {}

\* protohelpers.Skip finds the end of a field of any legal type.
TakeUnknown(m, f, known) ==
  IF /\ LegalTag(f)
     /\ f.num \notin known
     /\ f.type \in {VarintType, Fixed64Type, DelimitedType, GroupType, Fixed32Type}
    THEN {[m EXCEPT !.unknownFields = Append(@, f)]}
    ELSE {}

\* The messages that a buffer is read into, field by field, from m0.
Read(take(_, _), buffer, m0) ==
  FoldLeft(LAMBDA read, f : UNION {take(m, f) : m \in read}, {m0}, buffer)

ReadTopic(m, f) ==
  TakeBytes(m, f, 1, "spaceKey") \cup TakeBytes(m, f, 2, "topic")
    \cup TakeBytes(m, f, 3, "signature") \cup TakeUnknown(m, f, {1, 2, 3})
UnmarshalTopic(buffer, m0) == Read(ReadTopic, buffer, m0)

ReadTopics(m, f) ==
  TakeMessage(m, f, 1, "topics", UnmarshalTopic(f.value, Topic0)) \cup TakeUnknown(m, f, {1})
UnmarshalTopics(buffer, m0) == Read(ReadTopics, buffer, m0)

ReadMessage(m, f) ==
  TakeBytes(m, f, 1, "keyId") \cup TakeBytes(m, f, 2, "payload")
    \cup TakeBytes(m, f, 3, "signature") \cup TakeUnknown(m, f, {1, 2, 3})
UnmarshalMessage(buffer, m0) == Read(ReadMessage, buffer, m0)

ReadSetTokenRequest(m, f) ==
  TakeInt(m, f, 1, "platform") \cup TakeBytes(m, f, 2, "token") \cup TakeUnknown(m, f, {1, 2})
UnmarshalSetTokenRequest(buffer, m0) == Read(ReadSetTokenRequest, buffer, m0)

ReadSpaceRequest(m, f) ==
  TakeBytes(m, f, 1, "spaceKey") \cup TakeBytes(m, f, 2, "accountSignature")
    \cup TakeUnknown(m, f, {1, 2})
UnmarshalCreateSpaceRequest(buffer, m0) == Read(ReadSpaceRequest, buffer, m0)
UnmarshalRemoveSpaceRequest(buffer, m0) == Read(ReadSpaceRequest, buffer, m0)

\* The types without a field of their own.
ReadUnknown(m, f) == TakeUnknown(m, f, {})
UnmarshalSubscriptionsRequest(buffer, m0) == Read(ReadUnknown, buffer, m0)
UnmarshalOk(buffer, m0) == Read(ReadUnknown, buffer, m0)

\* The types that have an optional Topics for their only field.
TakeOptionalTopics(m, f) ==
  TakeOptional(m, f, 1, "topics", UnmarshalTopics(f.value, Previous(m, "topics", Topics0)))
ReadOptionalTopics(m, f) == TakeOptionalTopics(m, f) \cup TakeUnknown(m, f, {1})
UnmarshalSubscriptionsResponse(buffer, m0) == Read(ReadOptionalTopics, buffer, m0)
UnmarshalSubscribeRequest(buffer, m0) == Read(ReadOptionalTopics, buffer, m0)
UnmarshalUnsubscribeRequest(buffer, m0) == Read(ReadOptionalTopics, buffer, m0)
UnmarshalSubscribeAllRequest(buffer, m0) == Read(ReadOptionalTopics, buffer, m0)

ReadNotifyRequest(m, f) ==
  TakeOptionalTopics(m, f)
    \cup TakeOptional(m, f, 2, "message",
             UnmarshalMessage(f.value, Previous(m, "message", Message0)))
    \cup TakeBytes(m, f, 3, "groupId") \cup TakeUnknown(m, f, {1, 2, 3})
UnmarshalNotifyRequest(buffer, m0) == Read(ReadNotifyRequest, buffer, m0)
=============================================================================
