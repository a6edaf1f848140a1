---------------------------- MODULE AccountRepo ----------------------------
(***************************************************************************)
(* repo/accountrepo: the topics of each account.  An account without a     *)
(* document and one with an empty list read the same; the order of a list  *)
(* and its repetitions are left out, as no query tells them apart.         *)
(***************************************************************************)
EXTENDS Domain

VARIABLE accountColl

AccountCollType == [Account -> SUBSET Topic]

\* An upsert that replaces the whole list.
SetAccountTopics(a, topics) == accountColl' = [accountColl EXCEPT ![a] = topics]

GetTopics(a) == accountColl[a]

AccountIdsByTopics(topics) == {a \in Account : accountColl[a] \cap topics # {}}
=============================================================================
