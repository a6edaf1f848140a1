------------------------------ MODULE MCSender ------------------------------
(***************************************************************************)
(* Instances of Sender for TLC: an author and a reader of one topic, and a *)
(* guest who may subscribe to it.                                          *)
(***************************************************************************)
EXTENDS Sender, TLC

CONSTANTS author, reader, guest, phone, t1, t2, t3, space, chat, w1, w2

Doc(a, p) == [accountId |-> a, peerId |-> phone, platform |-> p, status |-> "valid"]

ChatTopic == [spaceKey |-> space, name |-> chat]

Note(n)   == [id |-> n, topics |-> {ChatTopic}, ignoreAccountId |-> author]
Silent(n) == [id |-> n, topics |-> {ChatTopic}, ignoreAccountId |-> NoAccount]

OneNote     == {Note(1)}
NoteAndSilent == {Note(1), Silent(2)}

OneWorker  == {w1}
TwoWorkers == {w1, w2}

\* One batch of two and another of one; a platform without a provider and a
\* token of the author.  A change of a token makes it one of Android.
ThreeOnIOS == [t \in Token |-> Doc(reader, PlatformIOS)]
UnknownPlatform ==
  t1 :> Doc(reader, PlatformIOS) @@ t2 :> Doc(reader, 2) @@ t3 :> Doc(author, PlatformIOS)
MixedRegistries == {ThreeOnIOS, UnknownPlatform}

\* Two tokens in one batch.
SmallRegistry == {t1 :> Doc(reader, PlatformIOS) @@ t2 :> Doc(reader, PlatformIOS)}

Subscribed   == {[a \in Account |-> IF a = guest THEN {} ELSE {ChatTopic}]}
Providers    == {PlatformIOS, PlatformAndroid}
OddPlatforms == {2, 257}

=============================================================================
