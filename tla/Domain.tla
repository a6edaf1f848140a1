------------------------------- MODULE Domain -------------------------------
(***************************************************************************)
(* The values of package domain.  Accounts, peers, tokens, space keys and  *)
(* topic names are opaque; a topic is base58(spaceKey) + "/" + name, which *)
(* splits again at its first "/", so it is a record of the two.            *)
(***************************************************************************)
EXTENDS Integers, Sequences, FiniteSets, Functions

CONSTANTS
  Account,    \* public keys, encoded by PubKey.Account
  Peer,       \* a device of an account
  Token,      \* FCM registration tokens
  SpaceKey,   \* public keys of spaces
  TopicName,  \* what follows the "/"; an account's own name may be one
  NoDoc       \* the lookup of a document that is not there

Topic == [spaceKey : SpaceKey, name : TopicName]
NewTopic(key, name) == [spaceKey |-> key, name |-> name]

\* Platform is a uint8; the enum of the wire protocol is an int32.
Platform        == 0 .. 255
PlatformIOS     == 0
PlatformAndroid == 1

\* Mutant of ToPlatform: a type as wide as the enum.
ToPlatformWide(wire) == wire

ToPlatform(wire) == wire % 256

TokenStatus == {"valid", "invalid"}
TokenDoc    == [accountId : Account, peerId : Peer, platform : Platform,
                status : TokenStatus]

ASSUME DomainAssumption == NoDoc \notin TokenDoc

\* The lists that hold each element of a set once, in any order.
Orders(S) == Bijection(1 .. Cardinality(S), S)
=============================================================================
