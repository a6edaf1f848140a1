------------------------------ MODULE PushRpc ------------------------------
(***************************************************************************)
(* One call of the service Push, push_drpc.pb.go: the stub of a client     *)
(* encodes the request, drpc carries it to the server's mux, which finds   *)
(* the method by its name, decodes the request and calls the handler; the  *)
(* answer takes the same way back.                                         *)
(*                                                                         *)
(* Calls are streams of their own and share nothing, so one is enough.     *)
(* Client and server need not be of the same release: a newer client knows *)
(* methods and fields that this server does not, or uses a number for a    *)
(* field of another type.  The connection may break at any time.           *)
(***************************************************************************)
EXTENDS PushApi

CONSTANTS
  Request,    \* what a client may ask: records of method and message
  NewField,   \* fields of a newer release
  Retyped,    \* fields that changed their type in a newer release
  Response    \* for each type of answer, the messages it may be

\* What is not there yet.
Nothing == <<>>

Method == {"SetToken", "RevokeToken", "CreateSpace", "RemoveSpace", "Subscriptions",
           "Subscribe", "Unsubscribe", "SubscribeAll", "Notify", "NotifySilent"}

VARIABLES
  client,  \* "ready", "waiting" for the answer, "done"
  server,  \* "ready", "handling", "done"
  asked,   \* the request, and the field its client adds to it
  wire,    \* the name of the method and the buffer on their way
  got,     \* the handler that was called, and its request
  gave,    \* what the handler returned
  answer,  \* the buffer, or the code of the error, on its way back
  result   \* what the stub returned

vars == <<client, server, asked, wire, got, gave, answer, result>>

Init ==
  /\ client = "ready"
  /\ server = "ready"
  /\ asked = Nothing
  /\ wire = Nothing
  /\ got = Nothing
  /\ gave = Nothing
  /\ answer = Nothing
  /\ result = Nothing

-----------------------------------------------------------------------------
\* drpcEncoding.Marshal: each type has its MarshalVT.
Marshal(type, m) ==
  CASE type = "SetTokenRequest" ->
         MarshalVT(SizeSetTokenRequest(m), MarshalSetTokenRequest(m))
    [] type = "CreateSpaceRequest" ->
         MarshalVT(SizeCreateSpaceRequest(m), MarshalCreateSpaceRequest(m))
    [] type = "RemoveSpaceRequest" ->
         MarshalVT(SizeRemoveSpaceRequest(m), MarshalRemoveSpaceRequest(m))
    [] type = "SubscriptionsRequest" ->
         MarshalVT(SizeSubscriptionsRequest(m), MarshalSubscriptionsRequest(m))
    [] type = "SubscriptionsResponse" ->
         MarshalVT(SizeSubscriptionsResponse(m), MarshalSubscriptionsResponse(m))
    [] type = "SubscribeRequest" ->
         MarshalVT(SizeSubscribeRequest(m), MarshalSubscribeRequest(m))
    [] type = "UnsubscribeRequest" ->
         MarshalVT(SizeUnsubscribeRequest(m), MarshalUnsubscribeRequest(m))
    [] type = "SubscribeAllRequest" ->
         MarshalVT(SizeSubscribeAllRequest(m), MarshalSubscribeAllRequest(m))
    [] type = "NotifyRequest" ->
         MarshalVT(SizeNotifyRequest(m), MarshalNotifyRequest(m))
    [] type = "Ok" -> MarshalVT(SizeOk(m), MarshalOk(m))

\* drpcEncoding.Unmarshal into a new message: a set of one, or of none.
Unmarshal(type, b) ==
  CASE type = "SetTokenRequest" -> UnmarshalSetTokenRequest(b, SetTokenRequest0)
    [] type = "CreateSpaceRequest" -> UnmarshalCreateSpaceRequest(b, CreateSpaceRequest0)
    [] type = "RemoveSpaceRequest" -> UnmarshalRemoveSpaceRequest(b, RemoveSpaceRequest0)
    [] type = "SubscriptionsRequest" ->
         UnmarshalSubscriptionsRequest(b, SubscriptionsRequest0)
    [] type = "SubscriptionsResponse" ->
         UnmarshalSubscriptionsResponse(b, SubscriptionsResponse0)
    [] type = "SubscribeRequest" -> UnmarshalSubscribeRequest(b, SubscribeRequest0)
    [] type = "UnsubscribeRequest" -> UnmarshalUnsubscribeRequest(b, UnsubscribeRequest0)
    [] type = "SubscribeAllRequest" -> UnmarshalSubscribeAllRequest(b, SubscribeAllRequest0)
    [] type = "NotifyRequest" -> UnmarshalNotifyRequest(b, NotifyRequest0)
    [] type = "Ok" -> UnmarshalOk(b, Ok0)

\* The methods of the stub: the name they invoke, and the types they encode
\* and decode.
Invoked(name, in, out) == [name |-> name, in |-> in, out |-> out]
Stub ==
  [SetToken      |-> Invoked("SetToken", "SetTokenRequest", "Ok"),
   RevokeToken   |-> Invoked("RevokeToken", "Ok", "Ok"),
   CreateSpace   |-> Invoked("CreateSpace", "CreateSpaceRequest", "Ok"),
   RemoveSpace   |-> Invoked("RemoveSpace", "RemoveSpaceRequest", "Ok"),
   Subscriptions |-> Invoked("Subscriptions", "SubscriptionsRequest", "SubscriptionsResponse"),
   Subscribe     |-> Invoked("Subscribe", "SubscribeRequest", "Ok"),
   Unsubscribe   |-> Invoked("Unsubscribe", "UnsubscribeRequest", "Ok"),
   SubscribeAll  |-> Invoked("SubscribeAll", "SubscribeAllRequest", "Ok"),
   Notify        |-> Invoked("Notify", "NotifyRequest", "Ok"),
   NotifySilent  |-> Invoked("NotifySilent", "NotifyRequest", "Ok")]

\* DRPCPushDescription.Method(n): a name, the type its receiver asserts, the
\* handler the receiver calls, and the type that returns.
Receiver(name, in, handler, out) ==
  [name |-> name, in |-> in, handler |-> handler, out |-> out]
Description ==
  {Receiver("SetToken", "SetTokenRequest", "SetToken", "Ok"),
   Receiver("RevokeToken", "Ok", "RevokeToken", "Ok"),
   Receiver("CreateSpace", "CreateSpaceRequest", "CreateSpace", "Ok"),
   Receiver("RemoveSpace", "RemoveSpaceRequest", "RemoveSpace", "Ok"),
   Receiver("Subscriptions", "SubscriptionsRequest", "Subscriptions", "SubscriptionsResponse"),
   Receiver("Subscribe", "SubscribeRequest", "Subscribe", "Ok"),
   Receiver("Unsubscribe", "UnsubscribeRequest", "Unsubscribe", "Ok"),
   Receiver("SubscribeAll", "SubscribeAllRequest", "SubscribeAll", "Ok"),
   Receiver("Notify", "NotifyRequest", "Notify", "Ok"),
   Receiver("NotifySilent", "NotifyRequest", "NotifySilent", "Ok")}

\* Codes of drpc: Unimplemented, an error without a code, the connection broke.
Unimplemented == 12
NoCode        == 0
Broken        == -1

\* Mutant of ErrCode: two errors of the group have one code.
ErrCodeShared ==
  [Unexpected |-> 1200, InvalidSignature |-> 1201, InvalidTopicSignature |-> 1201,
   SpaceExists |-> 1203, NoValidTopics |-> 1204]

\* errGroup registers ErrCodes from ErrorOffset on; drpc sends an error as its
\* code, and one without a code as 0.
ErrCode ==
  [Unexpected |-> 1200, InvalidSignature |-> 1201, InvalidTopicSignature |-> 1202,
   SpaceExists |-> 1203, NoValidTopics |-> 1204]
CodeOf(e) == IF e \in DOMAIN ErrCode THEN ErrCode[e] ELSE NoCode

-----------------------------------------------------------------------------
(***************************************************************************)
(* The values of the generated structs.  unknownFields holds what a        *)
(* message had of a newer release when it was read.                        *)
(***************************************************************************)
Topic  == [spaceKey : Blob, topic : Blob, signature : Blob, unknownFields : Seq(NewField)]
Topics == [topics : Seq(Topic), unknownFields : Seq(NewField)]
PushMessage == [keyId : Blob, payload : Blob, signature : Blob, unknownFields : Seq(NewField)]
AtMostOne(S) == {s \in Seq(S) : Len(s) <= 1}

Message(type) ==
  CASE type = "SetTokenRequest" ->
         [platform : Int, token : Blob, unknownFields : Seq(NewField)]
    [] type \in {"CreateSpaceRequest", "RemoveSpaceRequest"} ->
         [spaceKey : Blob, accountSignature : Blob, unknownFields : Seq(NewField)]
    [] type \in {"SubscriptionsRequest", "Ok"} -> [unknownFields : Seq(NewField)]
    [] type \in {"SubscriptionsResponse", "SubscribeRequest", "UnsubscribeRequest",
                 "SubscribeAllRequest"} ->
         [topics : AtMostOne(Topics), unknownFields : Seq(NewField)]
    [] type = "NotifyRequest" ->
         [topics : AtMostOne(Topics), message : AtMostOne(PushMessage), groupId : Blob,
          unknownFields : Seq(NewField)]

(***************************************************************************)
(* The numbers that this release uses are 1 to 3.  A field that has one of *)
(* them and another type is of a type that no message has at that number.  *)
(***************************************************************************)
Legal(f) ==
  /\ f.num \in 1 .. 15
  /\ f.len \in Nat
  /\ f.type \in {VarintType, Fixed64Type, DelimitedType, GroupType, Fixed32Type}

ASSUME RpcAssumption ==
  /\ \A r \in Request : r.method \in Method /\ r.in \in Message(Stub[r.method].in)
  /\ \A t \in {"Ok", "SubscriptionsResponse"} : Response[t] \subseteq Message(t)
  /\ \A f \in NewField : Legal(f) /\ f.num > 3
  /\ \A f \in Retyped :
       /\ Legal(f) /\ f.type # DelimitedType
       /\ f.num = 1 => f.type # VarintType
  /\ Nothing \notin NewField \cup Retyped

-----------------------------------------------------------------------------
Refused(code)   == [ok |-> FALSE, code |-> code]
Answered(value) == [ok |-> TRUE, value |-> value]

\* A stub encodes the request and waits; field is what its release adds.
Send(r, name, buffer, field) ==
  /\ client = "ready"
  /\ client' = "waiting"
  /\ asked' = [method |-> r.method, in |-> r.in, field |-> field]
  /\ wire' = [name |-> name, buffer |-> buffer]
  /\ UNCHANGED <<server, got, gave, answer, result>>

Invoke(r) ==
  LET stub   == Stub[r.method]
      buffer == Marshal(stub.in, r.in)
  IN  \/ Send(r, stub.name, buffer, Nothing)
      \/ \E f \in NewField \cup Retyped, i \in 1 .. Len(buffer) + 1 :
           Send(r, stub.name, InsertAt(buffer, i, f), f)

\* A method that this server does not have.
InvokeNewer == Send([method |-> "Newer", in |-> Ok0], "Newer", <<>>, Nothing)

\* The server's part: the mux answers by itself, or calls the handler.
Answer(a) ==
  /\ server' = "done"
  /\ answer' = a

RefuseName ==
  /\ server = "ready" /\ wire # Nothing
  /\ \A r \in Description : r.name # wire.name
  /\ Answer(Refused(Unimplemented))
  /\ UNCHANGED <<client, asked, wire, got, gave, result>>

RefuseBuffer ==
  /\ server = "ready" /\ wire # Nothing
  /\ \E r \in Description :
       /\ r.name = wire.name
       /\ Unmarshal(r.in, wire.buffer) = {}
  /\ Answer(Refused(NoCode))
  /\ UNCHANGED <<client, asked, wire, got, gave, result>>

CallHandler ==
  /\ server = "ready" /\ wire # Nothing
  /\ \E r \in Description :
       /\ r.name = wire.name
       /\ \E m \in Unmarshal(r.in, wire.buffer) :
            got' = [handler |-> r.handler, out |-> r.out, in |-> m]
  /\ server' = "handling"
  /\ UNCHANGED <<client, asked, wire, gave, answer, result>>

\* The handler is specified by Push; here it may return anything of its type.
HandlerReturns ==
  /\ server = "handling"
  /\ \/ \E m \in Response[got.out] :
          /\ gave' = Answered(m)
          /\ Answer(Answered(Marshal(got.out, m)))
     \/ \E e \in DOMAIN ErrCode \cup {"other"} :
          /\ gave' = Refused(e)
          /\ Answer(Refused(CodeOf(e)))
  /\ UNCHANGED <<client, asked, wire, got, result>>

\* The stub returns the message it decodes, or an error with its code.
Return ==
  /\ client = "waiting" /\ answer # Nothing
  /\ client' = "done"
  /\ result' \in IF ~answer.ok THEN {answer}
                 ELSE LET out == Unmarshal(Stub[asked.method].out, answer.value)
                      IN  IF out = {} THEN {Refused(NoCode)} ELSE {Answered(m) : m \in out}
  /\ UNCHANGED <<server, asked, wire, got, gave, answer>>

\* The stub gives up; the request may have reached the server, or may not.
Break ==
  /\ client = "waiting"
  /\ client' = "done"
  /\ result' = Refused(Broken)
  /\ wire' \in {wire} \cup IF server = "ready" THEN {Nothing} ELSE {}
  /\ UNCHANGED <<server, asked, got, gave, answer>>

Next ==
  \/ \E r \in Request : Invoke(r)
  \/ InvokeNewer
  \/ RefuseName
  \/ RefuseBuffer
  \/ CallHandler
  \/ HandlerReturns
  \/ Return
  \/ Break

Spec == Init /\ [][Next]_vars

-----------------------------------------------------------------------------
(***************************************************************************)
(* A handler gets the request that its method's caller made: no field has  *)
(* another value, none is lost, and a Topics or Message that was set is    *)
(* there even if it is empty, as convertTopics needs it to be.  A field of *)
(* a newer release changes nothing but unknownFields, wherever it comes,   *)
(* and one of another type never passes for a known one.                   *)
(***************************************************************************)
RequestIntact ==
  got # Nothing =>
    /\ got.handler = asked.method
    /\ IF asked.field = Nothing THEN got.in = asked.in
       ELSE \E i \in 1 .. Len(asked.in.unknownFields) + 1 :
              got.in = [asked.in EXCEPT !.unknownFields = InsertAt(@, i, asked.field)]

(***************************************************************************)
(* What the client is told is what the handler said: a success comes with  *)
(* the handler's message, and the code of an error of the API names the    *)
(* one error that the handler returned.                                    *)
(***************************************************************************)
AnswerIntact ==
  client = "done" =>
    /\ result.ok => gave = Answered(result.value)
    /\ \A e \in DOMAIN ErrCode : result = Refused(ErrCode[e]) => gave = Refused(e)

(***************************************************************************)
(* A client of the same release, or of one that has only added fields, is  *)
(* served: the codec refuses neither its request nor the answer, however   *)
(* long the strings are, so that every error is the handler's or the       *)
(* connection's.                                                           *)
(***************************************************************************)
CompatibleServed ==
  client = "done" /\ asked.method \in Method /\ asked.field \notin Retyped =>
    \/ result.ok
    \/ result = Refused(Broken)
    \/ gave # Nothing /\ ~gave.ok

=============================================================================
