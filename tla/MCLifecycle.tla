---------------------------- MODULE MCLifecycle ----------------------------
(***************************************************************************)
(* An instance of Lifecycle for TLC: three consumers, so that a start may  *)
(* fail between two of them while another is busy, and two requests.       *)
(***************************************************************************)
EXTENDS Lifecycle

CONSTANTS w1, w2, w3, r1, r2

Workers  == {w1, w2, w3}
Requests == {r1, r2}
=============================================================================
