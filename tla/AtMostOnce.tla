----------------------------- MODULE AtMostOnce -----------------------------
(***************************************************************************)
(* What the notification queue promises to the code around it: a message   *)
(* is accepted once, and the handler is called for an accepted message at  *)
(* most once.  A message is an entry of the queue: a payload whose LPUSH   *)
(* was repeated is accepted as two of them.                                *)
(* Nothing promises that the handler is called at all: a message may       *)
(* stay in pending for ever (a crash, a shutdown, a payload that does not  *)
(* decode).  Queue.tla is shown to implement this specification.           *)
(***************************************************************************)
EXTENDS Naturals, Sequences

CONSTANT Message

VARIABLES
  pending,    \* the accepted messages whose handler was not called
  delivered   \* the messages in the order the handler was called for them

Init ==
  /\ pending = {}
  /\ delivered = <<>>

Delivered(m) == \E i \in DOMAIN delivered : delivered[i] = m

Accept(m) ==
  /\ m \notin pending
  /\ ~Delivered(m)
  /\ pending' = pending \cup {m}
  /\ UNCHANGED delivered

Deliver(m) ==
  /\ m \in pending
  /\ pending' = pending \ {m}
  /\ delivered' = Append(delivered, m)

Next == \E m \in Message : Accept(m) \/ Deliver(m)

Spec == Init /\ [][Next]_<<pending, delivered>>

=============================================================================
