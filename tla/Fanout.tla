------------------------------- MODULE Fanout -------------------------------
(***************************************************************************)
(* What the sender promises about one message: its tokens are fixed once,  *)
(* each of them is offered to the push service at most once, and success   *)
(* is reported only when none of them is left.  A failure may come at any  *)
(* time and gives up the rest.                                             *)
(***************************************************************************)
EXTENDS Naturals

CONSTANTS Message, Token

VARIABLES
  remaining,  \* the tokens of each message that were not offered yet
  offered,    \* how often a message was offered for a token
  result      \* what became of each message

Init ==
  /\ remaining = [m \in Message |-> {}]
  /\ offered = [m \in Message |-> [t \in Token |-> 0]]
  /\ result = [m \in Message |-> "nothing"]

Fresh(m) == \A t \in Token : offered[m][t] = 0

\* The tokens ts are offered together.
Offered(m, ts) ==
  [offered EXCEPT ![m] = [t \in Token |-> IF t \in ts THEN @[t] + 1 ELSE @[t]]]

Choose(m, ts) ==
  /\ result[m] = "nothing"
  /\ Fresh(m)
  /\ remaining[m] = {}
  /\ remaining' = [remaining EXCEPT ![m] = ts]
  /\ UNCHANGED <<offered, result>>

Offer(m, ts) ==
  /\ result[m] = "nothing"
  /\ ts \subseteq remaining[m]
  /\ offered' = Offered(m, ts)
  /\ remaining' = [remaining EXCEPT ![m] = @ \ ts]
  /\ UNCHANGED result

Succeed(m) ==
  /\ result[m] = "nothing"
  /\ remaining[m] = {}
  /\ result' = [result EXCEPT ![m] = "ok"]
  /\ UNCHANGED <<offered, remaining>>

\* The last offer may be what fails.
Fail(m, ts) ==
  /\ result[m] = "nothing"
  /\ ts \subseteq remaining[m]
  /\ offered' = Offered(m, ts)
  /\ remaining' = [remaining EXCEPT ![m] = {}]
  /\ result' = [result EXCEPT ![m] = "err"]

\* The process that sends the messages ms ends.
Abandon(ms) ==
  /\ \A m \in ms : result[m] = "nothing"
  /\ remaining' = [m \in Message |-> IF m \in ms THEN {} ELSE remaining[m]]
  /\ result' = [m \in Message |-> IF m \in ms THEN "err" ELSE result[m]]
  /\ UNCHANGED offered

Next ==
  \/ \E ms \in SUBSET Message : Abandon(ms)
  \/ \E m \in Message :
       \/ Succeed(m)
       \/ \E ts \in SUBSET Token : Choose(m, ts) \/ Offer(m, ts) \/ Fail(m, ts)

Spec == Init /\ [][Next]_<<remaining, offered, result>>
=============================================================================
