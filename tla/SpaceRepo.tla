----------------------------- MODULE SpaceRepo -----------------------------
(***************************************************************************)
(* repo/spacerepo: the author of each registered space.                    *)
(***************************************************************************)
EXTENDS Domain

VARIABLE spaceColl

SpaceCollType == [SpaceKey -> Account \cup {NoDoc}]

\* Mutant of Create: an upsert.
CreateOrTakeOver(k, a) == spaceColl' = [spaceColl EXCEPT ![k] = a]

\* An insert; on a duplicate key the collection stays as it is (ErrSpaceExists).
Create(k, a) ==
  spaceColl' = [spaceColl EXCEPT ![k] = IF @ = NoDoc THEN a ELSE @]

\* Deletes the space of its own author only (else ErrSpaceNotFound).
Remove(k, a) ==
  spaceColl' = [spaceColl EXCEPT ![k] = IF @ = a THEN NoDoc ELSE @]

\* The query is skipped: every space counts as registered.
ExistedSpaces(ks) == ks
=============================================================================
