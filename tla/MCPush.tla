------------------------------- MODULE MCPush -------------------------------
(***************************************************************************)
(* Instances of Push for TLC: ann sends one request at a time, bob does    *)
(* not.  chat is a topic of the space; annTopic has the name of ann's      *)
(* account, so that ann may notify it silently.                            *)
(***************************************************************************)
EXTENDS Push, TLC

CONSTANTS ann, bob, phone, tablet, t1, t2, space, chat, h1, h2, h3

Chat(signature) == [spaceKey |-> space, name |-> chat, signature |-> signature]
Own(signature)  == [spaceKey |-> space, name |-> ann, signature |-> signature]

\* A request with the fields of its RPC set.
Blank(rpc, a) ==
  [rpc |-> rpc, account |-> a, peer |-> phone, token |-> t1, platform |-> 0,
   hasTopics |-> TRUE, topics |-> {}, space |-> space, signature |-> "valid",
   message |-> "valid"]
About(rpc, a, topics) == [Blank(rpc, a) EXCEPT !.topics = topics]
WithoutTopics(rpc, a) == [Blank(rpc, a) EXCEPT !.hasTopics = FALSE]

TokenRequests ==
  {[Blank("SetToken", a) EXCEPT !.token = t, !.platform = p]
     : a \in Account, t \in {t1, t2}, p \in {1, 256}}
  \cup {[Blank("RevokeToken", a) EXCEPT !.peer = p] : a \in Account, p \in Peer}

TopicSets ==
  {{}, {Chat("valid")}, {Chat("valid"), Own("valid")},
   {Chat("valid"), Own("invalid")}, {Own("noKey")}}
TopicRequests ==
  {About(rpc, a, topics) : rpc \in {"Subscribe", "Unsubscribe"}, a \in Account,
                           topics \in TopicSets}
  \cup {About("SubscribeAll", a, {Own("valid")}) : a \in Account}
  \cup {Blank("Subscriptions", ann), WithoutTopics("Subscribe", bob),
         WithoutTopics("Unsubscribe", ann)}

SpaceRequests ==
  {[Blank(rpc, a) EXCEPT !.signature = s] : rpc \in SpaceRpc, a \in Account, s \in Signature}
NotifyRequests ==
  {[About(rpc, ann, topics) EXCEPT !.message = m]
     : rpc \in {"Notify", "NotifySilent"}, topics \in TopicSets,
       m \in {"valid", "invalid", "none"}}
  \cup {WithoutTopics("Notify", ann)}
OtherRequests == TokenRequests \cup SpaceRequests \cup NotifyRequests

Symmetry == Permutations(Handler)
=============================================================================
