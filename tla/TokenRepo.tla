----------------------------- MODULE TokenRepo -----------------------------
(***************************************************************************)
(* repo/tokenrepo: the collection of push tokens.  A document is keyed by  *)
(* its token, so a token has one account, one device and one platform at a *)
(* time.  Each operation is one MongoDB command and takes effect at once.  *)
(***************************************************************************)
EXTENDS Domain

VARIABLE tokenColl

TokenCollType == [Token -> TokenDoc \cup {NoDoc}]

Registered(t) == tokenColl[t] # NoDoc

\* An upsert: the token moves to the caller, whoever had it before.
AddToken(t, a, p, platform) ==
  tokenColl' = [tokenColl EXCEPT ![t] =
    [accountId |-> a, peerId |-> p, platform |-> platform, status |-> "valid"]]

\* Mutant of DeviceTokens: the device is not asked for.
AccountTokens(a, p) == {t \in Token : Registered(t) /\ tokenColl[t].accountId = a}

\* The tokens of one device of an account.
DeviceTokens(a, p) ==
  {t \in Token : Registered(t) /\ tokenColl[t].accountId = a /\ tokenColl[t].peerId = p}

\* DeleteOne: MongoDB picks one of the documents that match.
RevokeToken(a, p) ==
  \/ /\ DeviceTokens(a, p) = {}
     /\ UNCHANGED tokenColl
  \/ \E t \in DeviceTokens(a, p) : tokenColl' = [tokenColl EXCEPT ![t] = NoDoc]

RemoveTokens(ts) ==
  tokenColl' = [t \in Token |-> IF t \in ts THEN NoDoc ELSE tokenColl[t]]

ActiveTokens(accounts) ==
  {t \in Token : /\ Registered(t)
                 /\ tokenColl[t].accountId \in accounts
                 /\ tokenColl[t].status = "valid"}
=============================================================================
