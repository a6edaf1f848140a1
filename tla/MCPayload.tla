----------------------------- MODULE MCPayload -----------------------------
(***************************************************************************)
(* An instance of Payload for TLC: three tokens in batches of one, so that *)
(* a platform has several batches and another is served after it.          *)
(***************************************************************************)
EXTENDS Payload, TLC

CONSTANTS t1, t2, t3, payload, signature, empty, none, keyId, groupId

Tokens   == {t1, t2, t3}
Contents == {payload, signature, empty}
Texts    == {keyId, groupId, none}
Symmetry == Permutations(Tokens)
=============================================================================
