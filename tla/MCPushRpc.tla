----------------------------- MODULE MCPushRpc -----------------------------
(***************************************************************************)
(* An instance of PushRpc for TLC: byte strings on both sides of the       *)
(* length at which a length takes two bytes, alone and in nested messages. *)
(***************************************************************************)
EXTENDS PushRpc, TLC

CONSTANTS empty, short, long, longest

Blobs   == {empty, short, long, longest}
Lengths == empty :> 0 @@ short :> 32 @@ long :> 127 @@ longest :> 128

Field(num, type, len) == [num |-> num, type |-> type, len |-> len, value |-> 1]
Added   == {Field(15, VarintType, 1), Field(15, Fixed64Type, 8), Field(15, GroupType, 3),
            Field(15, Fixed32Type, 4)}
Changed == {Field(1, Fixed64Type, 8), Field(2, VarintType, 1), Field(3, Fixed32Type, 4)}
Later   == <<Field(15, VarintType, 1), Field(15, GroupType, 3)>>

TopicMsg(key, name, signature) ==
  [Topic0 EXCEPT !.spaceKey = key, !.topic = name, !.signature = signature]
TopicsMsg(topics) == [Topics0 EXCEPT !.topics = topics]
Chat     == TopicMsg(short, short, short)
NewChat  == [Chat EXCEPT !.unknownFields = Later]
LongChat == TopicMsg(longest, long, empty)
Topicss ==
  {<<>>} \cup {<<TopicsMsg(ts)>> : ts \in {<<>>, <<Chat>>, <<Topic0>>, <<Chat, Chat>>,
                                           <<LongChat, Topic0, NewChat>>}}
    \cup {<<[TopicsMsg(<<Chat>>) EXCEPT !.unknownFields = Later]>>}

Messages ==
  {<<>>, <<Message0>>, <<[Message0 EXCEPT !.payload = longest, !.signature = short]>>,
   <<[Message0 EXCEPT !.keyId = short, !.payload = long]>>}

Asked(method, ms) == {[method |-> method, in |-> m] : m \in ms}
Requests ==
  Asked("SetToken", {[SetTokenRequest0 EXCEPT !.platform = p, !.token = b]
                       : p \in {0, 1, 300, -1}, b \in Blobs})
  \cup Asked("RevokeToken", {Ok0, [Ok0 EXCEPT !.unknownFields = Later]})
  \cup Asked("CreateSpace", {[CreateSpaceRequest0 EXCEPT !.spaceKey = k, !.accountSignature = s]
                               : k \in Blobs, s \in {empty, short}})
  \cup Asked("RemoveSpace", {[RemoveSpaceRequest0 EXCEPT !.spaceKey = k, !.accountSignature = s]
                               : k \in {empty, short}, s \in Blobs})
  \cup Asked("Subscriptions", {SubscriptionsRequest0})
  \cup UNION {Asked(method, {[SubscribeRequest0 EXCEPT !.topics = ts] : ts \in Topicss})
                : method \in {"Subscribe", "Unsubscribe", "SubscribeAll"}}
  \cup UNION {Asked(method, {[NotifyRequest0 EXCEPT !.topics = ts, !.message = m, !.groupId = g]
                               : ts \in Topicss, m \in Messages, g \in {empty, long}})
                : method \in {"Notify", "NotifySilent"}}

Responses ==
  [Ok |-> {Ok0, [Ok0 EXCEPT !.unknownFields = Later]},
   SubscriptionsResponse |-> {[SubscriptionsResponse0 EXCEPT !.topics = ts] : ts \in Topicss}]
=============================================================================
