--------------------------- MODULE Subscriptions ---------------------------
(***************************************************************************)
(* What a client may think of its subscriptions: each request to change    *)
(* them takes effect at one moment, at most once, on what the account has  *)
(* at that moment.  Push.tla implements this for the accounts whose        *)
(* requests do not overlap.                                                *)
(***************************************************************************)
EXTENDS Naturals

CONSTANTS Account, Topic, Handler

VARIABLES
  subs,      \* the topics of each account
  request,   \* what each handler was asked: account, kind and topics
  applied    \* the handlers whose request took effect

Init ==
  /\ subs = [a \in Account |-> {}]
  /\ request = [h \in Handler |-> {}]
  /\ applied = {}

\* A request is kept as a set of one change; the empty set is no request.
Change == [account : Account, kind : {"replace", "remove"}, topics : SUBSET Topic]

Ask(h, r) ==
  /\ request[h] = {}
  /\ request' = [request EXCEPT ![h] = {r}]
  /\ UNCHANGED <<subs, applied>>

Apply(h, r) ==
  /\ h \notin applied
  /\ r \in request[h]
  /\ applied' = applied \cup {h}
  /\ subs' = [subs EXCEPT ![r.account] =
                IF r.kind = "replace" THEN r.topics ELSE @ \ r.topics]
  /\ UNCHANGED request

Next == \E h \in Handler, r \in Change : Ask(h, r) \/ Apply(h, r)

Spec == Init /\ [][Next]_<<subs, request, applied>>
=============================================================================
