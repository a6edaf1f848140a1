----------------------------- MODULE MCDelivery -----------------------------
(***************************************************************************)
(* An instance of Delivery for TLC.                                        *)
(***************************************************************************)
EXTENDS Delivery, TLC

CONSTANTS s1, s2, w1, m1, m2, t1, t2

Symmetry ==
  Permutations(Server) \cup Permutations(Message \ Undecodable) \cup Permutations(Token)
=============================================================================
