------------------------------ MODULE MCQueue ------------------------------
(***************************************************************************)
(* Instances of Queue for TLC.                                             *)
(***************************************************************************)
EXTENDS Queue, TLC

CONSTANTS s1, s2, w1, w2, m1, m2, m3

OneServer    == {s1}
TwoServers   == {s1, s2}
OneWorker    == {w1}
TwoWorkers   == {w1, w2}
TwoMessages  == {m1, m2}
ThreeMessages == {m1, m2, m3}
FirstMessage == {m1}

\* Messages are interchangeable when all of them decode.
Symmetry ==
  Permutations(Server) \cup Permutations(Worker) \cup Permutations(Message \ Undecodable)

=============================================================================
