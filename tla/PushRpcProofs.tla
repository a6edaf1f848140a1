--------------------------- MODULE PushRpcProofs ---------------------------
(***************************************************************************)
(* Proofs about PushApi and PushRpc: the size a message is given room for  *)
(* is the size of its buffer, a buffer is read as the message it was made  *)
(* of, also with a field of another release anywhere in it, and so a call  *)
(* arrives and comes back as it was meant.                                 *)
(*                                                                         *)
(* A buffer is read by a fold; each type of message has an instance of     *)
(* FoldFacts for the fold that reads it.                                   *)
(***************************************************************************)
EXTENDS PushRpc, FiniteSetTheorems, SequenceTheorems, TLAPS

AddField(n, f) == n + FieldSize(f)
AddLength(n, l) == n + 1 + l + SizeOfVarint(l)

TopicStep(read, f)          == UNION {ReadTopic(m, f) : m \in read}
TopicsStep(read, f)         == UNION {ReadTopics(m, f) : m \in read}
MessageStep(read, f)        == UNION {ReadMessage(m, f) : m \in read}
SetTokenStep(read, f)       == UNION {ReadSetTokenRequest(m, f) : m \in read}
SpaceStep(read, f)          == UNION {ReadSpaceRequest(m, f) : m \in read}
UnknownStep(read, f)        == UNION {ReadUnknown(m, f) : m \in read}
OptionalTopicsStep(read, f) == UNION {ReadOptionalTopics(m, f) : m \in read}
NotifyStep(read, f)         == UNION {ReadNotifyRequest(m, f) : m \in read}

Bytes   == INSTANCE FoldFacts WITH op <- AddField
Lengths == INSTANCE FoldFacts WITH op <- AddLength

FTopic    == INSTANCE FoldFacts WITH op <- TopicStep
FTopics   == INSTANCE FoldFacts WITH op <- TopicsStep
FMessage  == INSTANCE FoldFacts WITH op <- MessageStep
FSetToken == INSTANCE FoldFacts WITH op <- SetTokenStep
FSpace    == INSTANCE FoldFacts WITH op <- SpaceStep
FUnknown  == INSTANCE FoldFacts WITH op <- UnknownStep
FOptional == INSTANCE FoldFacts WITH op <- OptionalTopicsStep
FNotify   == INSTANCE FoldFacts WITH op <- NotifyStep

-----------------------------------------------------------------------------
\* The model's folds are those of the instances.
LEMMA WireSizeFold == \A b : WireSize(b) = Bytes!Fold(0, b)
BY DEF WireSize, AddField, FoldLeft, MapThenFoldSet, Max,
       Bytes!Fold, Bytes!LargestOf

\* The sum of SizeVT over nested messages.
LEMMA MessagesSizeFold == \A l : MessagesSize(l) = Lengths!Fold(0, l)
BY DEF MessagesSize, AddLength, FoldLeft, MapThenFoldSet, Max,
       Lengths!Fold, Lengths!LargestOf

LEMMA TopicFold ==
  /\ \A b, m : UnmarshalTopic(b, m) = FTopic!Fold({m}, b)
  /\ \A m, f : TopicStep({m}, f) = ReadTopic(m, f)
  /\ FTopic!Pointwise
<1>1. \A b, m : UnmarshalTopic(b, m) = FTopic!Fold({m}, b)
  BY DEF UnmarshalTopic, Read, TopicStep, FoldLeft, MapThenFoldSet, Max,
         FTopic!Fold, FTopic!LargestOf
<1>2. \A m, f : TopicStep({m}, f) = ReadTopic(m, f)
  BY DEF TopicStep
<1>3. FTopic!Pointwise
  BY <1>2 DEF FTopic!Pointwise, TopicStep
<1> QED
  BY <1>1, <1>2, <1>3

LEMMA TopicsFold ==
  /\ \A b, m : UnmarshalTopics(b, m) = FTopics!Fold({m}, b)
  /\ \A m, f : TopicsStep({m}, f) = ReadTopics(m, f)
  /\ FTopics!Pointwise
<1>1. \A b, m : UnmarshalTopics(b, m) = FTopics!Fold({m}, b)
  BY DEF UnmarshalTopics, Read, TopicsStep, FoldLeft, MapThenFoldSet, Max,
         FTopics!Fold, FTopics!LargestOf
<1>2. \A m, f : TopicsStep({m}, f) = ReadTopics(m, f)
  BY DEF TopicsStep
<1>3. FTopics!Pointwise
  BY <1>2 DEF FTopics!Pointwise, TopicsStep
<1> QED
  BY <1>1, <1>2, <1>3

LEMMA PushMessageFold ==
  /\ \A b, m : UnmarshalMessage(b, m) = FMessage!Fold({m}, b)
  /\ \A m, f : MessageStep({m}, f) = ReadMessage(m, f)
  /\ FMessage!Pointwise
<1>1. \A b, m : UnmarshalMessage(b, m) = FMessage!Fold({m}, b)
  BY DEF UnmarshalMessage, Read, MessageStep, FoldLeft, MapThenFoldSet, Max,
         FMessage!Fold, FMessage!LargestOf
<1>2. \A m, f : MessageStep({m}, f) = ReadMessage(m, f)
  BY DEF MessageStep
<1>3. FMessage!Pointwise
  BY <1>2 DEF FMessage!Pointwise, MessageStep
<1> QED
  BY <1>1, <1>2, <1>3

LEMMA SetTokenFold ==
  /\ \A b, m : UnmarshalSetTokenRequest(b, m) = FSetToken!Fold({m}, b)
  /\ \A m, f : SetTokenStep({m}, f) = ReadSetTokenRequest(m, f)
  /\ FSetToken!Pointwise
<1>1. \A b, m : UnmarshalSetTokenRequest(b, m) = FSetToken!Fold({m}, b)
  BY DEF UnmarshalSetTokenRequest, Read, SetTokenStep, FoldLeft, MapThenFoldSet, Max,
         FSetToken!Fold, FSetToken!LargestOf
<1>2. \A m, f : SetTokenStep({m}, f) = ReadSetTokenRequest(m, f)
  BY DEF SetTokenStep
<1>3. FSetToken!Pointwise
  BY <1>2 DEF FSetToken!Pointwise, SetTokenStep
<1> QED
  BY <1>1, <1>2, <1>3

LEMMA SpaceFold ==
  /\ \A b, m : UnmarshalCreateSpaceRequest(b, m) = FSpace!Fold({m}, b)
  /\ \A b, m : UnmarshalRemoveSpaceRequest(b, m) = FSpace!Fold({m}, b)
  /\ \A m, f : SpaceStep({m}, f) = ReadSpaceRequest(m, f)
  /\ FSpace!Pointwise
<1>1. \A b, m : UnmarshalCreateSpaceRequest(b, m) = FSpace!Fold({m}, b)
  BY DEF UnmarshalCreateSpaceRequest, Read, SpaceStep, FoldLeft, MapThenFoldSet, Max,
         FSpace!Fold, FSpace!LargestOf
<1>2. \A b, m : UnmarshalRemoveSpaceRequest(b, m) = FSpace!Fold({m}, b)
  BY DEF UnmarshalRemoveSpaceRequest, Read, SpaceStep, FoldLeft, MapThenFoldSet, Max,
         FSpace!Fold, FSpace!LargestOf
<1>3. \A m, f : SpaceStep({m}, f) = ReadSpaceRequest(m, f)
  BY DEF SpaceStep
<1>4. FSpace!Pointwise
  BY <1>3 DEF FSpace!Pointwise, SpaceStep
<1> QED
  BY <1>1, <1>2, <1>3, <1>4

LEMMA UnknownFold ==
  /\ \A b, m : UnmarshalSubscriptionsRequest(b, m) = FUnknown!Fold({m}, b)
  /\ \A b, m : UnmarshalOk(b, m) = FUnknown!Fold({m}, b)
  /\ \A m, f : UnknownStep({m}, f) = ReadUnknown(m, f)
  /\ FUnknown!Pointwise
<1>1. \A b, m : UnmarshalSubscriptionsRequest(b, m) = FUnknown!Fold({m}, b)
  BY DEF UnmarshalSubscriptionsRequest, Read, UnknownStep, FoldLeft, MapThenFoldSet, Max,
         FUnknown!Fold, FUnknown!LargestOf
<1>2. \A b, m : UnmarshalOk(b, m) = FUnknown!Fold({m}, b)
  BY DEF UnmarshalOk, Read, UnknownStep, FoldLeft, MapThenFoldSet, Max,
         FUnknown!Fold, FUnknown!LargestOf
<1>3. \A m, f : UnknownStep({m}, f) = ReadUnknown(m, f)
  BY DEF UnknownStep
<1>4. FUnknown!Pointwise
  BY <1>3 DEF FUnknown!Pointwise, UnknownStep
<1> QED
  BY <1>1, <1>2, <1>3, <1>4

LEMMA OptionalTopicsFold ==
  /\ \A b, m : UnmarshalSubscriptionsResponse(b, m) = FOptional!Fold({m}, b)
  /\ \A b, m : UnmarshalSubscribeRequest(b, m) = FOptional!Fold({m}, b)
  /\ \A b, m : UnmarshalUnsubscribeRequest(b, m) = FOptional!Fold({m}, b)
  /\ \A b, m : UnmarshalSubscribeAllRequest(b, m) = FOptional!Fold({m}, b)
  /\ \A m, f : OptionalTopicsStep({m}, f) = ReadOptionalTopics(m, f)
  /\ FOptional!Pointwise
<1>1. \A b, m : UnmarshalSubscriptionsResponse(b, m) = FOptional!Fold({m}, b)
  BY DEF UnmarshalSubscriptionsResponse, Read, OptionalTopicsStep, FoldLeft, MapThenFoldSet, Max,
         FOptional!Fold, FOptional!LargestOf
<1>2. \A b, m : UnmarshalSubscribeRequest(b, m) = FOptional!Fold({m}, b)
  BY DEF UnmarshalSubscribeRequest, Read, OptionalTopicsStep, FoldLeft, MapThenFoldSet, Max,
         FOptional!Fold, FOptional!LargestOf
<1>3. \A b, m : UnmarshalUnsubscribeRequest(b, m) = FOptional!Fold({m}, b)
  BY DEF UnmarshalUnsubscribeRequest, Read, OptionalTopicsStep, FoldLeft, MapThenFoldSet, Max,
         FOptional!Fold, FOptional!LargestOf
<1>4. \A b, m : UnmarshalSubscribeAllRequest(b, m) = FOptional!Fold({m}, b)
  BY DEF UnmarshalSubscribeAllRequest, Read, OptionalTopicsStep, FoldLeft, MapThenFoldSet, Max,
         FOptional!Fold, FOptional!LargestOf
<1>5. \A m, f : OptionalTopicsStep({m}, f) = ReadOptionalTopics(m, f)
  BY DEF OptionalTopicsStep
<1>6. FOptional!Pointwise
  BY <1>5 DEF FOptional!Pointwise, OptionalTopicsStep
<1> QED
  BY <1>1, <1>2, <1>3, <1>4, <1>5, <1>6

LEMMA NotifyFold ==
  /\ \A b, m : UnmarshalNotifyRequest(b, m) = FNotify!Fold({m}, b)
  /\ \A m, f : NotifyStep({m}, f) = ReadNotifyRequest(m, f)
  /\ FNotify!Pointwise
<1>1. \A b, m : UnmarshalNotifyRequest(b, m) = FNotify!Fold({m}, b)
  BY DEF UnmarshalNotifyRequest, Read, NotifyStep, FoldLeft, MapThenFoldSet, Max,
         FNotify!Fold, FNotify!LargestOf
<1>2. \A m, f : NotifyStep({m}, f) = ReadNotifyRequest(m, f)
  BY DEF NotifyStep
<1>3. FNotify!Pointwise
  BY <1>2 DEF FNotify!Pointwise, NotifyStep
<1> QED
  BY <1>1, <1>2, <1>3

-----------------------------------------------------------------------------
(***************************************************************************)
(* Sizes.  MarshalVT makes room for what SizeVT says; the buffer is as     *)
(* long as that.                                                           *)
(***************************************************************************)
\* The fields that the code writes, by what is in them.
BytesFields(nums) == {Delimited(num, BlobLen[b], b) : num \in nums, b \in Blob}
IntField(n) == [num |-> 1, type |-> VarintType, len |-> SizeOfVarint(n), value |-> n]
Sized(S) == \A f \in S : f.len \in Nat

\* The size of a varint is a number.
LEMMA VarintSize == \A n \in Int : SizeOfVarint(n) \in Nat
<1> SUFFICES ASSUME NEW n \in Int PROVE SizeOfVarint(n) \in Nat
  OBVIOUS
<1>1. IsFiniteSet(1 .. 4)
  <2>1. 1 \in Int /\ 4 \in Int
    OBVIOUS
  <2> QED BY <2>1, FS_Interval
<1> DEFINE K == {k \in 1 .. 4 : n >= 128 ^ k}
<1>2. K \subseteq 1 .. 4
  OBVIOUS
<1>3. Cardinality(K) \in Nat
  BY <1>1, <1>2, FS_Subset, FS_CardinalityType
<1> QED
  BY <1>3 DEF SizeOfVarint

\* The size of a field is a number.
LEMMA FieldSizes == \A f : f.len \in Nat => FieldSize(f) \in Nat
BY VarintSize DEF FieldSize

\* Sizes are numbers to add up.
LEMMA SumAdditive == \A S : Sized(S) => Bytes!Additive(S)
<1> SUFFICES ASSUME NEW S, Sized(S) PROVE Bytes!Additive(S)
  OBVIOUS
<1>1. \A f \in S : FieldSize(f) \in Nat
  BY FieldSizes DEF Sized
<1> QED
  BY <1>1 DEF Bytes!Additive, AddField

\* The bytes of two buffers add up.
LEMMA WireSizeSum ==
  \A S : Sized(S) => \A s, t \in Seq(S) :
    WireSize(s) \in Nat /\ WireSize(t) \in Nat /\ WireSize(s \o t) = WireSize(s) + WireSize(t)
BY SumAdditive, WireSizeFold, Bytes!FoldSum

\* The bytes of a buffer of one field.
LEMMA WireSizeOne ==
  /\ WireSize(<<>>) = 0
  /\ \A f : f.len \in Nat => WireSize(<<f>>) = FieldSize(f)
<1>1. WireSize(<<>>) = 0
  BY WireSizeFold, Bytes!FoldEmpty
<1>2. ASSUME NEW f, f.len \in Nat PROVE WireSize(<<f>>) = FieldSize(f)
  <2>1. WireSize(<<f>>) = AddField(0, f)
    BY WireSizeFold, Bytes!FoldOne
  <2>2. FieldSize(f) \in Nat
    BY <1>2, FieldSizes
  <2> QED BY <2>1, <2>2 DEF AddField
<1> QED
  BY <1>1, <1>2

\* A string takes as many bytes as SizeVT says.
LEMMA PutBytesSize ==
  \A b \in Blob : \A num :
    /\ PutBytes(num, b) \in Seq(BytesFields({num}))
    /\ WireSize(PutBytes(num, b)) = BytesSize(b)
    /\ BytesSize(b) \in Nat
<1> SUFFICES ASSUME NEW b \in Blob, NEW num
             PROVE  /\ PutBytes(num, b) \in Seq(BytesFields({num}))
                    /\ WireSize(PutBytes(num, b)) = BytesSize(b)
                    /\ BytesSize(b) \in Nat
  OBVIOUS
<1>1. CASE b = Empty
  BY <1>1, WireSizeOne DEF PutBytes, BytesSize
<1>2. CASE b # Empty
  <2>1. BlobLen[b] \in Nat /\ SizeOfVarint(BlobLen[b]) \in Nat
    BY ApiAssumption, VarintSize
  <2>2. PICK f : f = Delimited(num, BlobLen[b], b)
    OBVIOUS
  <2>3. f.len = BlobLen[b] /\ f.type = DelimitedType /\ f \in BytesFields({num})
    BY <2>2 DEF Delimited, BytesFields
  <2>4. PutBytes(num, b) = <<f>> /\ WireSize(<<f>>) = FieldSize(f)
    BY <1>2, <2>1, <2>2, <2>3, WireSizeOne DEF PutBytes
  <2>5. FieldSize(f) = 1 + BlobLen[b] + SizeOfVarint(BlobLen[b])
    BY <2>3 DEF FieldSize
  <2> QED BY <1>2, <2>1, <2>3, <2>4, <2>5 DEF BytesSize
<1> QED
  BY <1>1, <1>2

\* An integer takes as many bytes as SizeVT says.
LEMMA PutIntSize ==
  \A n \in Int :
    /\ PutInt(1, n) \in Seq({IntField(k) : k \in Int})
    /\ WireSize(PutInt(1, n)) = IntSize(n)
    /\ IntSize(n) \in Nat
<1> SUFFICES ASSUME NEW n \in Int
             PROVE  /\ PutInt(1, n) \in Seq({IntField(k) : k \in Int})
                    /\ WireSize(PutInt(1, n)) = IntSize(n)
                    /\ IntSize(n) \in Nat
  OBVIOUS
<1>1. CASE n = 0
  BY <1>1, WireSizeOne DEF PutInt, IntSize
<1>2. CASE n # 0
  <2>1. SizeOfVarint(n) \in Nat
    BY VarintSize
  <2>2. PICK f : f = IntField(n)
    OBVIOUS
  <2>3. f.len = SizeOfVarint(n) /\ f.type = VarintType /\ f \in {IntField(k) : k \in Int}
    BY <2>2 DEF IntField
  <2>4. PutInt(1, n) = <<f>> /\ WireSize(<<f>>) = FieldSize(f)
    BY <1>2, <2>1, <2>2, <2>3, WireSizeOne DEF PutInt, IntField
  <2>5. FieldSize(f) = 1 + SizeOfVarint(n)
    BY <2>1, <2>3 DEF FieldSize, VarintType, DelimitedType
  <2>6. IntSize(n) = 1 + SizeOfVarint(n) /\ IntSize(n) \in Nat
    BY <1>2, <2>1 DEF IntSize
  <2>7. <<f>> \in Seq({IntField(k) : k \in Int})
    BY <2>3
  <2> QED BY <2>4, <2>5, <2>6, <2>7
<1> QED
  BY <1>1, <1>2

\* The messages of a field, each with the size of its buffer.
Nested(num, B) == {Delimited(num, WireSize(b), b) : b \in B}

\* Nested messages take as many bytes as SizeVT says, if each of them does.
LEMMA PutMessagesSize ==
  \A S, num : Sized(S) => \A bs \in Seq(Seq(S)) :
    /\ PutMessages(num, bs) \in Seq(Nested(num, Seq(S)))
    /\ WireSize(PutMessages(num, bs)) = MessagesSize([i \in DOMAIN bs |-> WireSize(bs[i])])
    /\ WireSize(PutMessages(num, bs)) \in Nat
<1> SUFFICES ASSUME NEW S, NEW num, Sized(S)
             PROVE  \A bs \in Seq(Seq(S)) :
                      /\ PutMessages(num, bs) \in Seq(Nested(num, Seq(S)))
                      /\ WireSize(PutMessages(num, bs)) =
                           MessagesSize([i \in DOMAIN bs |-> WireSize(bs[i])])
                      /\ WireSize(PutMessages(num, bs)) \in Nat
  OBVIOUS
<1> DEFINE Sizes(bs) == [i \in DOMAIN bs |-> WireSize(bs[i])]
           A == {bs \in Seq(Seq(S)) : /\ PutMessages(num, bs) \in Seq(Nested(num, Seq(S)))
                                      /\ WireSize(PutMessages(num, bs)) = MessagesSize(Sizes(bs))
                                      /\ WireSize(PutMessages(num, bs)) \in Nat}
<1>1. <<>> \in A
  <2>1. PutMessages(num, <<>>) = <<>> /\ Sizes(<<>>) = <<>>
    BY DEF PutMessages
  <2>2. MessagesSize(<<>>) = 0
    BY MessagesSizeFold, Lengths!FoldEmpty
  <2>3. <<>> \in Seq(Seq(S)) /\ <<>> \in Seq(Nested(num, Seq(S)))
    OBVIOUS
  <2>4. WireSize(<<>>) = 0
    BY WireSizeOne
  <2> HIDE DEF Sizes
  <2>5. WireSize(<<>>) = MessagesSize(<<>>) /\ WireSize(<<>>) \in Nat
    BY <2>2, <2>4
  <2> QED BY <2>1, <2>3, <2>5
<1>2. ASSUME NEW bs \in Seq(Seq(S)), NEW b \in Seq(S), bs \in A PROVE Append(bs, b) \in A
  <2>1. PICK f : f = Delimited(num, WireSize(b), b)
    OBVIOUS
  <2>2. WireSize(b) \in Nat /\ SizeOfVarint(WireSize(b)) \in Nat
    BY WireSizeSum, VarintSize
  <2>3. f \in Nested(num, Seq(S)) /\ FieldSize(f) = 1 + WireSize(b) + SizeOfVarint(WireSize(b))
    BY <2>1 DEF Nested, FieldSize, Delimited
  <2>4. PutMessages(num, Append(bs, b)) = Append(PutMessages(num, bs), f)
    BY <2>1 DEF PutMessages
  <2>5. Sizes(Append(bs, b)) = Append(Sizes(bs), WireSize(b)) /\ Sizes(bs) \in Seq(Nat)
    <3>1. \A i \in DOMAIN bs : WireSize(bs[i]) \in Nat
      BY WireSizeSum
    <3>2. Sizes(bs) \in Seq(Nat)
      <4>1. Sizes(bs) \in [1 .. Len(bs) -> Nat] /\ Len(bs) \in Nat
        BY <3>1
      <4>2. \A n \in Nat : \A z \in [1 .. n -> Nat] : z \in Seq(Nat)
        BY SeqDef
      <4> HIDE DEF Sizes
      <4> QED BY <4>1, <4>2
    <3>3. PICK w, n : w = Append(bs, b) /\ n = WireSize(b)
      OBVIOUS
    <3>4. /\ DOMAIN w = 1 .. Len(bs) + 1 /\ w[Len(bs) + 1] = b
          /\ \A i \in 1 .. Len(bs) : w[i] = bs[i]
      BY <3>3
    <3>5. Sizes(w) = Append(Sizes(bs), n)
      <4>1. /\ Len(Sizes(bs)) = Len(bs)
            /\ \A i \in 1 .. Len(bs) : Sizes(bs)[i] = WireSize(bs[i])
        OBVIOUS
      <4>2. /\ DOMAIN Append(Sizes(bs), n) = 1 .. Len(bs) + 1
            /\ Append(Sizes(bs), n)[Len(bs) + 1] = n
            /\ \A i \in 1 .. Len(bs) : Append(Sizes(bs), n)[i] = WireSize(bs[i])
        BY <3>2, <4>1
      <4>3. /\ DOMAIN Sizes(w) = 1 .. Len(bs) + 1
              /\ \A i \in 1 .. Len(bs) + 1 : Sizes(w)[i] = WireSize(w[i])
        BY <3>4
      <4>4. \A i \in 1 .. Len(bs) + 1 : Sizes(w)[i] = Append(Sizes(bs), n)[i]
        BY <3>3, <3>4, <4>2, <4>3
      <4>5. Sizes(w) = [i \in DOMAIN Sizes(w) |-> Sizes(w)[i]]
        OBVIOUS
      <4>6. Append(Sizes(bs), n) = [i \in DOMAIN Append(Sizes(bs), n) |-> Append(Sizes(bs), n)[i]]
        BY <3>2, <3>3, <2>2
      <4> HIDE DEF Sizes
      <4> QED BY <4>2, <4>3, <4>4, <4>5, <4>6
    <3> QED BY <3>2, <3>3, <3>5
  <2>6. WireSize(Append(PutMessages(num, bs), f)) = WireSize(PutMessages(num, bs)) + FieldSize(f)
    <3>1. PutMessages(num, bs) \in Seq(Nested(num, Seq(S)))
      BY <1>2
    <3> HIDE DEF A
    <3> QED BY <2>3, <3>1, WireSizeFold, Bytes!FoldAppend DEF AddField
  <2>7. MessagesSize(Append(Sizes(bs), WireSize(b))) =
          MessagesSize(Sizes(bs)) + 1 + WireSize(b) + SizeOfVarint(WireSize(b))
    <3> HIDE DEF A, Sizes
    <3> QED BY <2>2, <2>5, MessagesSizeFold, Lengths!FoldAppend DEF AddLength
  <2>8. /\ PutMessages(num, bs) \in Seq(Nested(num, Seq(S)))
        /\ WireSize(PutMessages(num, bs)) = MessagesSize(Sizes(bs))
        /\ WireSize(PutMessages(num, bs)) \in Nat
    BY <1>2
  <2> HIDE DEF Sizes
  <2>9. PutMessages(num, Append(bs, b)) \in Seq(Nested(num, Seq(S)))
    BY <2>3, <2>4, <2>8
  <2>10. WireSize(PutMessages(num, Append(bs, b))) \in Nat
    <3>1. PICK x \in Nat, y \in Nat, z \in Nat :
            x = WireSize(PutMessages(num, bs)) /\ y = WireSize(b) /\ z = SizeOfVarint(WireSize(b))
      BY <2>2, <2>8
    <3> QED BY <2>3, <2>4, <2>6, <3>1
  <2>11. WireSize(PutMessages(num, Append(bs, b))) = MessagesSize(Sizes(Append(bs, b)))
    <3>1. PICK x \in Nat, y \in Nat, z \in Nat :
            x = WireSize(PutMessages(num, bs)) /\ y = WireSize(b) /\ z = SizeOfVarint(WireSize(b))
      BY <2>2, <2>8
    <3> QED BY <2>3, <2>4, <2>5, <2>6, <2>7, <2>8, <3>1
  <2>12. Append(bs, b) \in Seq(Seq(S))
    OBVIOUS
  <2> QED BY <2>9, <2>10, <2>11, <2>12
<1> HIDE DEF A
<1>3. Seq(Seq(S)) \subseteq A
  BY <1>1, <1>2, Bytes!SeqSetInduction
<1> QED
  BY <1>3 DEF A

\* Four parts of a buffer.
LEMMA FourParts ==
  \A S : Sized(S) => \A a, b, c, d \in Seq(S) :
    /\ a \o b \o c \o d \in Seq(S)
    /\ WireSize(a \o b \o c \o d) = WireSize(a) + WireSize(b) + WireSize(c) + WireSize(d)
    /\ WireSize(a \o b \o c \o d) \in Nat
<1> SUFFICES ASSUME NEW S, Sized(S), NEW a \in Seq(S), NEW b \in Seq(S),
                    NEW c \in Seq(S), NEW d \in Seq(S)
             PROVE  /\ a \o b \o c \o d \in Seq(S)
                    /\ WireSize(a \o b \o c \o d) =
                         WireSize(a) + WireSize(b) + WireSize(c) + WireSize(d)
                    /\ WireSize(a \o b \o c \o d) \in Nat
  OBVIOUS
<1>1. a \o b \in Seq(S) /\ a \o b \o c \in Seq(S) /\ a \o b \o c \o d \in Seq(S)
  OBVIOUS
<1>2. /\ WireSize(a \o b) = WireSize(a) + WireSize(b)
      /\ WireSize(a \o b \o c) = WireSize(a \o b) + WireSize(c)
      /\ WireSize(a \o b \o c \o d) = WireSize(a \o b \o c) + WireSize(d)
      /\ WireSize(a \o b \o c \o d) \in Nat
  BY <1>1, WireSizeSum
<1> QED
  BY <1>1, <1>2

\* What the buffers of each type are made of.
Kept == Seq(NewField)
BlobFields == BytesFields({1, 2, 3}) \cup NewField
TopicsFields == {Delimited(1, WireSize(MarshalTopic(t)), MarshalTopic(t)) : t \in Topic} \cup NewField
OptionalFields ==
  {Delimited(1, WireSize(MarshalTopics(t)), MarshalTopics(t)) : t \in Topics} \cup NewField
MessageFields ==
  {Delimited(2, WireSize(MarshalMessage(x)), MarshalMessage(x)) : x \in PushMessage}
NotifyFields == OptionalFields \cup MessageFields \cup BytesFields({3})
SetTokenFields == {IntField(n) : n \in Int} \cup BlobFields

\* The fields of strings and integers have lengths.
LEMMA BlobSized == Sized(BlobFields) /\ Sized(SetTokenFields)
<1>1. \A b \in Blob : BlobLen[b] \in Nat
  BY ApiAssumption
<1>2. \A f \in NewField : f.len \in Nat
  BY RpcAssumption DEF Legal
<1>3. \A f \in BytesFields({1, 2, 3}) : f.len \in Nat
  BY <1>1 DEF BytesFields, Delimited
<1>4. \A n \in Int : IntField(n).len \in Nat
  BY VarintSize DEF IntField
<1> QED
  BY <1>2, <1>3, <1>4 DEF Sized, BlobFields, SetTokenFields

\* A string is put as a field of bytes, or not at all.
LEMMA BlobParts ==
  \A b \in Blob : \A num \in {1, 2, 3} : PutBytes(num, b) \in Seq(BlobFields)
<1> SUFFICES ASSUME NEW b \in Blob, NEW num \in {1, 2, 3}
             PROVE  PutBytes(num, b) \in Seq(BlobFields)
  OBVIOUS
<1>1. BytesFields({num}) \subseteq BlobFields
  BY DEF BytesFields, BlobFields
<1>2. PutBytes(num, b) \in Seq(BytesFields({num}))
  BY PutBytesSize
<1> QED
  BY <1>1, <1>2, SeqMonotonic

\* The unknown fields are fields of each type.
LEMMA KeptParts ==
  \A u \in Kept : /\ u \in Seq(BlobFields) /\ u \in Seq(SetTokenFields)
                  /\ u \in Seq(TopicsFields) /\ u \in Seq(OptionalFields)
                  /\ u \in Seq(NotifyFields)
BY SeqMonotonic DEF Kept, BlobFields, SetTokenFields, TopicsFields, OptionalFields, NotifyFields

\* SizeVT of a Topic is the size of its buffer.
LEMMA TopicSize ==
  \A m \in Topic : /\ MarshalTopic(m) \in Seq(BlobFields)
                   /\ WireSize(MarshalTopic(m)) = SizeTopic(m)
                   /\ SizeTopic(m) \in Nat
<1> SUFFICES ASSUME NEW m \in Topic
             PROVE  /\ MarshalTopic(m) \in Seq(BlobFields)
                    /\ WireSize(MarshalTopic(m)) = SizeTopic(m)
                    /\ SizeTopic(m) \in Nat
  OBVIOUS
<1>1. /\ m.spaceKey \in Blob /\ m.topic \in Blob /\ m.signature \in Blob
      /\ m.unknownFields \in Kept
  BY DEF Topic, Kept
<1>2. /\ PutBytes(1, m.spaceKey) \in Seq(BlobFields) /\ PutBytes(2, m.topic) \in Seq(BlobFields)
      /\ PutBytes(3, m.signature) \in Seq(BlobFields) /\ m.unknownFields \in Seq(BlobFields)
  BY <1>1, BlobParts, KeptParts
<1>3. /\ WireSize(PutBytes(1, m.spaceKey)) = BytesSize(m.spaceKey)
      /\ WireSize(PutBytes(2, m.topic)) = BytesSize(m.topic)
      /\ WireSize(PutBytes(3, m.signature)) = BytesSize(m.signature)
  BY <1>1, PutBytesSize
<1>4. /\ MarshalTopic(m) \in Seq(BlobFields)
      /\ WireSize(MarshalTopic(m)) \in Nat
      /\ WireSize(MarshalTopic(m)) =
           WireSize(PutBytes(1, m.spaceKey)) + WireSize(PutBytes(2, m.topic))
             + WireSize(PutBytes(3, m.signature)) + WireSize(m.unknownFields)
  <2>1. PICK a \in Seq(BlobFields), b \in Seq(BlobFields), c \in Seq(BlobFields),
             d \in Seq(BlobFields) :
          /\ a = PutBytes(1, m.spaceKey) /\ b = PutBytes(2, m.topic)
          /\ c = PutBytes(3, m.signature) /\ d = m.unknownFields
    BY <1>2
  <2>2. MarshalTopic(m) = a \o b \o c \o d
    BY <2>1 DEF MarshalTopic
  <2>3. /\ a \o b \o c \o d \in Seq(BlobFields)
        /\ WireSize(a \o b \o c \o d) = WireSize(a) + WireSize(b) + WireSize(c) + WireSize(d)
        /\ WireSize(a \o b \o c \o d) \in Nat
    BY BlobSized, FourParts
  <2> QED BY <2>1, <2>2, <2>3
<1> QED
  BY <1>3, <1>4 DEF SizeTopic

\* SizeVT of a Message is the size of its buffer.
LEMMA PushMessageSize ==
  \A m \in PushMessage : /\ MarshalMessage(m) \in Seq(BlobFields)
                         /\ WireSize(MarshalMessage(m)) = SizeMessage(m)
                         /\ SizeMessage(m) \in Nat
<1> SUFFICES ASSUME NEW m \in PushMessage
             PROVE  /\ MarshalMessage(m) \in Seq(BlobFields)
                    /\ WireSize(MarshalMessage(m)) = SizeMessage(m)
                    /\ SizeMessage(m) \in Nat
  OBVIOUS
<1>1. /\ m.keyId \in Blob /\ m.payload \in Blob /\ m.signature \in Blob
      /\ m.unknownFields \in Kept
  BY DEF PushMessage, Kept
<1>2. /\ PutBytes(1, m.keyId) \in Seq(BlobFields) /\ PutBytes(2, m.payload) \in Seq(BlobFields)
      /\ PutBytes(3, m.signature) \in Seq(BlobFields) /\ m.unknownFields \in Seq(BlobFields)
  BY <1>1, BlobParts, KeptParts
<1>3. /\ WireSize(PutBytes(1, m.keyId)) = BytesSize(m.keyId)
      /\ WireSize(PutBytes(2, m.payload)) = BytesSize(m.payload)
      /\ WireSize(PutBytes(3, m.signature)) = BytesSize(m.signature)
  BY <1>1, PutBytesSize
<1>4. /\ MarshalMessage(m) \in Seq(BlobFields)
      /\ WireSize(MarshalMessage(m)) \in Nat
      /\ WireSize(MarshalMessage(m)) =
           WireSize(PutBytes(1, m.keyId)) + WireSize(PutBytes(2, m.payload))
             + WireSize(PutBytes(3, m.signature)) + WireSize(m.unknownFields)
  <2>1. PICK a \in Seq(BlobFields), b \in Seq(BlobFields), c \in Seq(BlobFields),
             d \in Seq(BlobFields) :
          /\ a = PutBytes(1, m.keyId) /\ b = PutBytes(2, m.payload)
          /\ c = PutBytes(3, m.signature) /\ d = m.unknownFields
    BY <1>2
  <2>2. MarshalMessage(m) = a \o b \o c \o d
    BY <2>1 DEF MarshalMessage
  <2>3. /\ a \o b \o c \o d \in Seq(BlobFields)
        /\ WireSize(a \o b \o c \o d) = WireSize(a) + WireSize(b) + WireSize(c) + WireSize(d)
        /\ WireSize(a \o b \o c \o d) \in Nat
    BY BlobSized, FourParts
  <2> QED BY <2>1, <2>2, <2>3
<1> QED
  BY <1>3, <1>4 DEF SizeMessage

\* The messages of a field that holds Topic messages, or one of Topics, or one Message.
LEMMA TopicsSize ==
  \A m \in Topics : /\ MarshalTopics(m) \in Seq(TopicsFields)
                    /\ WireSize(MarshalTopics(m)) = SizeTopics(m)
                    /\ SizeTopics(m) \in Nat
<1> SUFFICES ASSUME NEW m \in Topics
             PROVE  /\ MarshalTopics(m) \in Seq(TopicsFields)
                    /\ WireSize(MarshalTopics(m)) = SizeTopics(m)
                    /\ SizeTopics(m) \in Nat
  OBVIOUS
<1> DEFINE ts == m.topics
           bs == [i \in DOMAIN ts |-> MarshalTopic(ts[i])]
           p  == PutMessages(1, bs)
<1>1. ts \in Seq(Topic) /\ m.unknownFields \in Kept
  BY DEF Topics, Kept
<1>2. bs \in Seq(Seq(BlobFields)) /\ DOMAIN bs = DOMAIN ts
  <2>1. \A i \in DOMAIN ts : MarshalTopic(ts[i]) \in Seq(BlobFields)
    BY <1>1, TopicSize
  <2>2. DOMAIN ts = 1 .. Len(ts) /\ Len(ts) \in Nat
    BY <1>1
  <2>3. bs \in [1 .. Len(ts) -> Seq(BlobFields)]
    BY <2>1, <2>2
  <2> HIDE DEF bs
  <2> QED BY <2>2, <2>3, SeqDef
<1>3. /\ p \in Seq(Nested(1, Seq(BlobFields)))
      /\ WireSize(p) = MessagesSize([i \in DOMAIN bs |-> WireSize(bs[i])])
      /\ WireSize(p) \in Nat
  <2> HIDE DEF bs
  <2> QED BY <1>2, BlobSized, PutMessagesSize
<1>4. [i \in DOMAIN bs |-> WireSize(bs[i])] = [i \in DOMAIN ts |-> SizeTopic(ts[i])]
  <2>1. \A i \in DOMAIN ts : bs[i] = MarshalTopic(ts[i]) /\ WireSize(bs[i]) = SizeTopic(ts[i])
    BY <1>1, TopicSize
  <2> HIDE DEF bs
  <2> QED BY <1>2, <2>1
<1>5. p \in Seq(TopicsFields)
  <2>1. \A i \in DOMAIN ts : Delimited(1, WireSize(bs[i]), bs[i]) \in TopicsFields
    <3>1. \A i \in DOMAIN ts : bs[i] = MarshalTopic(ts[i]) /\ ts[i] \in Topic
      BY <1>1
    <3> HIDE DEF bs
    <3> QED BY <3>1 DEF TopicsFields
  <2>2. DOMAIN ts = 1 .. Len(ts) /\ Len(ts) \in Nat
    BY <1>1
  <2>3. p \in [1 .. Len(ts) -> TopicsFields]
    <3> HIDE DEF bs
    <3> QED BY <1>2, <2>1, <2>2 DEF PutMessages
  <2> HIDE DEF p
  <2> QED BY <2>2, <2>3, SeqDef
<1>6. m.unknownFields \in Seq(TopicsFields)
  BY <1>1, KeptParts
<1>7. Sized(TopicsFields)
  BY TopicSize, RpcAssumption DEF Sized, TopicsFields, Delimited, Legal
<1>8. MarshalTopics(m) = p \o m.unknownFields
  BY DEF MarshalTopics
<1> HIDE DEF p
<1>9. /\ p \o m.unknownFields \in Seq(TopicsFields)
      /\ WireSize(p \o m.unknownFields) = WireSize(p) + WireSize(m.unknownFields)
      /\ WireSize(p) \in Nat /\ WireSize(m.unknownFields) \in Nat
  BY <1>5, <1>6, <1>7, WireSizeSum
<1>10. SizeTopics(m) = WireSize(p) + WireSize(m.unknownFields)
  BY <1>3, <1>4 DEF SizeTopics
<1> QED
  BY <1>8, <1>9, <1>10

\* The size of one nested message.
LEMMA MessagesSizeOne ==
  /\ MessagesSize(<<>>) = 0
  /\ \A n \in Nat : MessagesSize(<<n>>) = 1 + n + SizeOfVarint(n)
<1>1. MessagesSize(<<>>) = 0
  BY MessagesSizeFold, Lengths!FoldEmpty
<1>2. ASSUME NEW n \in Nat PROVE MessagesSize(<<n>>) = 1 + n + SizeOfVarint(n)
  <2>1. MessagesSize(<<n>>) = AddLength(0, n)
    BY MessagesSizeFold, Lengths!FoldOne
  <2> QED BY <2>1, VarintSize DEF AddLength
<1> QED
  BY <1>1, <1>2

\* An optional message is absent or one.
LEMMA AtMostOneIs ==
  \A S : \A s \in AtMostOne(S) : s = <<>> \/ \E x \in S : s = <<x>>
<1> SUFFICES ASSUME NEW S, NEW s \in AtMostOne(S), s # <<>>
             PROVE  \E x \in S : s = <<x>>
  OBVIOUS
<1>1. s \in Seq(S) /\ Len(s) = 1
  <2>1. s \in Seq(S) /\ Len(s) <= 1
    BY DEF AtMostOne
  <2>2. PICK n \in Nat : n = Len(s)
    BY <2>1
  <2>3. n # 0
    BY <2>1, <2>2
  <2>4. n = 1
    BY <2>1, <2>2, <2>3
  <2> QED BY <2>1, <2>2, <2>4
<1>2. s[1] \in S /\ s = <<s[1]>>
  BY <1>1
<1> QED
  BY <1>2

\* The buffer and the size of an optional Topics.
LEMMA OptionalParts ==
  \A m : m.topics \in AtMostOne(Topics) =>
    /\ MarshalOptionalTopics(m) =
         IF m.topics = <<>> THEN <<>>
         ELSE <<Delimited(1, WireSize(MarshalTopics(m.topics[1])), MarshalTopics(m.topics[1]))>>
    /\ m.topics # <<>> => m.topics[1] \in Topics /\ m.topics = <<m.topics[1]>>
    /\ MarshalOptionalTopics(m) \in Seq(OptionalFields)
    /\ WireSize(MarshalOptionalTopics(m)) = SizeOptionalTopics(m)
    /\ SizeOptionalTopics(m) \in Nat
<1> SUFFICES ASSUME NEW m, m.topics \in AtMostOne(Topics)
             PROVE  /\ MarshalOptionalTopics(m) =
                         IF m.topics = <<>> THEN <<>>
                         ELSE <<Delimited(1, WireSize(MarshalTopics(m.topics[1])),
                                          MarshalTopics(m.topics[1]))>>
                    /\ m.topics # <<>> => m.topics[1] \in Topics /\ m.topics = <<m.topics[1]>>
                    /\ MarshalOptionalTopics(m) \in Seq(OptionalFields)
                    /\ WireSize(MarshalOptionalTopics(m)) = SizeOptionalTopics(m)
                    /\ SizeOptionalTopics(m) \in Nat
  OBVIOUS
<1>1. CASE m.topics = <<>>
  <2>1. MarshalOptionalTopics(m) = <<>>
    BY <1>1 DEF MarshalOptionalTopics, PutMessages
  <2>2. SizeOptionalTopics(m) = 0
    <3>1. [i \in DOMAIN m.topics |-> SizeTopics(m.topics[i])] = <<>>
      BY <1>1
    <3> QED BY <3>1, MessagesSizeOne DEF SizeOptionalTopics
  <2> QED BY <1>1, <2>1, <2>2, WireSizeOne
<1>2. CASE m.topics # <<>>
  <2>1. PICK t \in Topics : m.topics = <<t>>
    BY <1>2, AtMostOneIs
  <2>2. PICK b, n : b = MarshalTopics(t) /\ n = SizeTopics(t)
    OBVIOUS
  <2>3. n \in Nat /\ WireSize(b) = n /\ SizeOfVarint(n) \in Nat
    BY <2>2, TopicsSize, VarintSize
  <2>4. PICK f : f = Delimited(1, n, b)
    OBVIOUS
  <2>5. /\ f.len = n /\ f.type = DelimitedType
        /\ f = Delimited(1, WireSize(MarshalTopics(t)), MarshalTopics(t))
        /\ f \in OptionalFields
    BY <2>2, <2>3, <2>4 DEF Delimited, OptionalFields
  <2>6. MarshalOptionalTopics(m) = <<f>>
    <3>1. [i \in DOMAIN m.topics |-> MarshalTopics(m.topics[i])] = <<b>>
      BY <2>1, <2>2
    <3>2. PutMessages(1, <<b>>) = <<Delimited(1, WireSize(b), b)>>
      BY DEF PutMessages
    <3> QED BY <2>3, <2>4, <3>1, <3>2 DEF MarshalOptionalTopics
  <2>7. SizeOptionalTopics(m) = 1 + n + SizeOfVarint(n)
    <3>1. [i \in DOMAIN m.topics |-> SizeTopics(m.topics[i])] = <<n>>
      BY <2>1, <2>2
    <3> QED BY <2>3, <3>1, MessagesSizeOne DEF SizeOptionalTopics
  <2>8. WireSize(<<f>>) = 1 + n + SizeOfVarint(n)
    BY <2>3, <2>5, WireSizeOne DEF FieldSize
  <2>9. m.topics[1] = t
    BY <2>1
  <2>10. <<f>> \in Seq(OptionalFields)
    BY <2>5
  <2>11. 1 + n + SizeOfVarint(n) \in Nat
    BY <2>3
  <2> QED BY <1>2, <2>1, <2>5, <2>6, <2>7, <2>8, <2>9, <2>10, <2>11
<1> QED
  BY <1>1, <1>2

MessageBuffer(m) == PutMessages(2, [i \in DOMAIN m.message |-> MarshalMessage(m.message[i])])
MessageBufferSize(m) == MessagesSize([i \in DOMAIN m.message |-> SizeMessage(m.message[i])])

\* The buffer and the size of an optional Message.
LEMMA MessageParts ==
  \A m : m.message \in AtMostOne(PushMessage) =>
    /\ MessageBuffer(m) =
         IF m.message = <<>> THEN <<>>
         ELSE <<Delimited(2, WireSize(MarshalMessage(m.message[1])), MarshalMessage(m.message[1]))>>
    /\ m.message # <<>> => m.message[1] \in PushMessage /\ m.message = <<m.message[1]>>
    /\ MessageBuffer(m) \in Seq(MessageFields)
    /\ WireSize(MessageBuffer(m)) = MessageBufferSize(m)
    /\ MessageBufferSize(m) \in Nat
<1> SUFFICES ASSUME NEW m, m.message \in AtMostOne(PushMessage)
             PROVE  /\ MessageBuffer(m) =
                         IF m.message = <<>> THEN <<>>
                         ELSE <<Delimited(2, WireSize(MarshalMessage(m.message[1])),
                                          MarshalMessage(m.message[1]))>>
                    /\ m.message # <<>> =>
                         m.message[1] \in PushMessage /\ m.message = <<m.message[1]>>
                    /\ MessageBuffer(m) \in Seq(MessageFields)
                    /\ WireSize(MessageBuffer(m)) = MessageBufferSize(m)
                    /\ MessageBufferSize(m) \in Nat
  OBVIOUS
<1>1. CASE m.message = <<>>
  <2>1. MessageBuffer(m) = <<>>
    BY <1>1 DEF MessageBuffer, PutMessages
  <2>2. MessageBufferSize(m) = 0
    <3>1. [i \in DOMAIN m.message |-> SizeMessage(m.message[i])] = <<>>
      BY <1>1
    <3> QED BY <3>1, MessagesSizeOne DEF MessageBufferSize
  <2> QED BY <1>1, <2>1, <2>2, WireSizeOne
<1>2. CASE m.message # <<>>
  <2>1. PICK x \in PushMessage : m.message = <<x>>
    BY <1>2, AtMostOneIs
  <2>2. PICK b, n : b = MarshalMessage(x) /\ n = SizeMessage(x)
    OBVIOUS
  <2>3. n \in Nat /\ WireSize(b) = n /\ SizeOfVarint(n) \in Nat
    BY <2>2, PushMessageSize, VarintSize
  <2>4. PICK f : f = Delimited(2, n, b)
    OBVIOUS
  <2>5. /\ f.len = n /\ f.type = DelimitedType
        /\ f = Delimited(2, WireSize(MarshalMessage(x)), MarshalMessage(x))
        /\ f \in MessageFields
    BY <2>2, <2>3, <2>4 DEF Delimited, MessageFields
  <2>6. MessageBuffer(m) = <<f>>
    <3>1. [i \in DOMAIN m.message |-> MarshalMessage(m.message[i])] = <<b>>
      BY <2>1, <2>2
    <3>2. PutMessages(2, <<b>>) = <<Delimited(2, WireSize(b), b)>>
      BY DEF PutMessages
    <3> QED BY <2>3, <2>4, <3>1, <3>2 DEF MessageBuffer
  <2>7. MessageBufferSize(m) = 1 + n + SizeOfVarint(n)
    <3>1. [i \in DOMAIN m.message |-> SizeMessage(m.message[i])] = <<n>>
      BY <2>1, <2>2
    <3> QED BY <2>3, <3>1, MessagesSizeOne DEF MessageBufferSize
  <2>8. WireSize(<<f>>) = 1 + n + SizeOfVarint(n)
    BY <2>3, <2>5, WireSizeOne DEF FieldSize
  <2>9. m.message[1] = x
    BY <2>1
  <2>10. <<f>> \in Seq(MessageFields)
    BY <2>5
  <2>11. 1 + n + SizeOfVarint(n) \in Nat
    BY <2>3
  <2> QED BY <1>2, <2>1, <2>5, <2>6, <2>7, <2>8, <2>9, <2>10, <2>11
<1> QED
  BY <1>1, <1>2

\* The fields of a NotifyRequest have lengths.
LEMMA NotifySized == Sized(OptionalFields) /\ Sized(NotifyFields)
<1>1. \A f \in NewField : f.len \in Nat
  BY RpcAssumption DEF Legal
<1>2. \A t \in Topics : Delimited(1, WireSize(MarshalTopics(t)), MarshalTopics(t)).len \in Nat
  BY TopicsSize DEF Delimited
<1>3. \A x \in PushMessage :
        Delimited(2, WireSize(MarshalMessage(x)), MarshalMessage(x)).len \in Nat
  BY PushMessageSize DEF Delimited
<1>4. \A b \in Blob : Delimited(3, BlobLen[b], b).len \in Nat
  BY ApiAssumption DEF Delimited
<1>5. \A f \in OptionalFields : f.len \in Nat
  BY <1>1, <1>2 DEF OptionalFields
<1>6. \A f \in MessageFields \cup BytesFields({3}) : f.len \in Nat
  BY <1>3, <1>4 DEF MessageFields, BytesFields
<1> QED
  BY <1>5, <1>6 DEF Sized, NotifyFields
\* The buffer of each type.
Buffer(type, m) ==
  CASE type = "SetTokenRequest" -> MarshalSetTokenRequest(m)
    [] type = "CreateSpaceRequest" -> MarshalCreateSpaceRequest(m)
    [] type = "RemoveSpaceRequest" -> MarshalRemoveSpaceRequest(m)
    [] type = "SubscriptionsRequest" -> MarshalSubscriptionsRequest(m)
    [] type = "SubscriptionsResponse" -> MarshalSubscriptionsResponse(m)
    [] type = "SubscribeRequest" -> MarshalSubscribeRequest(m)
    [] type = "UnsubscribeRequest" -> MarshalUnsubscribeRequest(m)
    [] type = "SubscribeAllRequest" -> MarshalSubscribeAllRequest(m)
    [] type = "NotifyRequest" -> MarshalNotifyRequest(m)
    [] type = "Ok" -> MarshalOk(m)

\* SizeVT of a SetTokenRequest is the size of its buffer.
LEMMA SetTokenSize ==
  \A m \in Message("SetTokenRequest") :
    /\ m.platform \in Int /\ m.token \in Blob /\ m.unknownFields \in Kept
    /\ MarshalSetTokenRequest(m) \in Seq(SetTokenFields)
    /\ WireSize(MarshalSetTokenRequest(m)) = SizeSetTokenRequest(m)
<1> SUFFICES ASSUME NEW m \in Message("SetTokenRequest")
             PROVE  /\ m.platform \in Int /\ m.token \in Blob /\ m.unknownFields \in Kept
                    /\ MarshalSetTokenRequest(m) \in Seq(SetTokenFields)
                    /\ WireSize(MarshalSetTokenRequest(m)) = SizeSetTokenRequest(m)
  OBVIOUS
<1>1. m.platform \in Int /\ m.token \in Blob /\ m.unknownFields \in Kept
  BY DEF Message, Kept
<1>2. PICK a, b, c : a = PutInt(1, m.platform) /\ b = PutBytes(2, m.token) /\ c = m.unknownFields
  OBVIOUS
<1>3. a \in Seq(SetTokenFields) /\ b \in Seq(SetTokenFields) /\ c \in Seq(SetTokenFields)
  <2>1. a \in Seq({IntField(n) : n \in Int}) /\ b \in Seq(BlobFields)
    BY <1>1, <1>2, PutIntSize, BlobParts
  <2> QED BY <1>1, <1>2, <2>1, KeptParts, SeqMonotonic DEF SetTokenFields
<1>4. WireSize(a) = IntSize(m.platform) /\ WireSize(b) = BytesSize(m.token)
  BY <1>1, <1>2, PutIntSize, PutBytesSize
<1>5. a \o b \in Seq(SetTokenFields) /\ a \o b \o c \in Seq(SetTokenFields)
  BY <1>3
<1>6. WireSize(a \o b \o c) = WireSize(a) + WireSize(b) + WireSize(c)
  BY <1>3, <1>5, BlobSized, WireSizeSum
<1>7. MarshalSetTokenRequest(m) = a \o b \o c
  BY <1>2 DEF MarshalSetTokenRequest
<1> QED
  BY <1>1, <1>2, <1>4, <1>5, <1>6, <1>7 DEF SizeSetTokenRequest

\* SizeVT of a request about a space is the size of its buffer.
LEMMA SpaceSize ==
  \A m \in Message("CreateSpaceRequest") :
    /\ m.spaceKey \in Blob /\ m.accountSignature \in Blob /\ m.unknownFields \in Kept
    /\ MarshalCreateSpaceRequest(m) \in Seq(BlobFields)
    /\ WireSize(MarshalCreateSpaceRequest(m)) = SizeCreateSpaceRequest(m)
<1> SUFFICES ASSUME NEW m \in Message("CreateSpaceRequest")
             PROVE  /\ m.spaceKey \in Blob /\ m.accountSignature \in Blob
                    /\ m.unknownFields \in Kept
                    /\ MarshalCreateSpaceRequest(m) \in Seq(BlobFields)
                    /\ WireSize(MarshalCreateSpaceRequest(m)) = SizeCreateSpaceRequest(m)
  OBVIOUS
<1>1. m.spaceKey \in Blob /\ m.accountSignature \in Blob /\ m.unknownFields \in Kept
  BY DEF Message, Kept
<1>2. PICK a, b, c : /\ a = PutBytes(1, m.spaceKey) /\ b = PutBytes(2, m.accountSignature)
                     /\ c = m.unknownFields
  OBVIOUS
<1>3. a \in Seq(BlobFields) /\ b \in Seq(BlobFields) /\ c \in Seq(BlobFields)
  BY <1>1, <1>2, BlobParts, KeptParts
<1>4. WireSize(a) = BytesSize(m.spaceKey) /\ WireSize(b) = BytesSize(m.accountSignature)
  BY <1>1, <1>2, PutBytesSize
<1>5. a \o b \in Seq(BlobFields) /\ a \o b \o c \in Seq(BlobFields)
  BY <1>3
<1>6. WireSize(a \o b \o c) = WireSize(a) + WireSize(b) + WireSize(c)
  BY <1>3, <1>5, BlobSized, WireSizeSum
<1>7. MarshalCreateSpaceRequest(m) = a \o b \o c
  BY <1>2 DEF MarshalCreateSpaceRequest
<1> QED
  BY <1>1, <1>2, <1>4, <1>5, <1>6, <1>7 DEF SizeCreateSpaceRequest

\* SizeVT of a message with Topics alone is the size of its buffer.
LEMMA OptionalTopicsSize ==
  \A m \in Message("SubscribeRequest") :
    /\ m.topics \in AtMostOne(Topics) /\ m.unknownFields \in Kept
    /\ MarshalSubscribeRequest(m) \in Seq(OptionalFields)
    /\ WireSize(MarshalSubscribeRequest(m)) = SizeSubscribeRequest(m)
<1> SUFFICES ASSUME NEW m \in Message("SubscribeRequest")
             PROVE  /\ m.topics \in AtMostOne(Topics) /\ m.unknownFields \in Kept
                    /\ MarshalSubscribeRequest(m) \in Seq(OptionalFields)
                    /\ WireSize(MarshalSubscribeRequest(m)) = SizeSubscribeRequest(m)
  OBVIOUS
<1>1. m.topics \in AtMostOne(Topics) /\ m.unknownFields \in Kept
  BY DEF Message, Kept
<1>2. PICK a, b : a = MarshalOptionalTopics(m) /\ b = m.unknownFields
  OBVIOUS
<1>3. /\ a \in Seq(OptionalFields) /\ b \in Seq(OptionalFields)
      /\ WireSize(a) = SizeOptionalTopics(m)
  BY <1>1, <1>2, OptionalParts, KeptParts
<1>4. a \o b \in Seq(OptionalFields) /\ WireSize(a \o b) = WireSize(a) + WireSize(b)
  BY <1>3, NotifySized, WireSizeSum
<1> QED
  BY <1>1, <1>2, <1>3, <1>4 DEF MarshalSubscribeRequest, SizeSubscribeRequest

\* SizeVT of a NotifyRequest is the size of its buffer.
LEMMA NotifySize ==
  \A m \in Message("NotifyRequest") :
    /\ m.topics \in AtMostOne(Topics) /\ m.message \in AtMostOne(PushMessage)
    /\ m.groupId \in Blob /\ m.unknownFields \in Kept
    /\ MarshalNotifyRequest(m) \in Seq(NotifyFields)
    /\ WireSize(MarshalNotifyRequest(m)) = SizeNotifyRequest(m)
<1> SUFFICES ASSUME NEW m \in Message("NotifyRequest")
             PROVE  /\ m.topics \in AtMostOne(Topics) /\ m.message \in AtMostOne(PushMessage)
                    /\ m.groupId \in Blob /\ m.unknownFields \in Kept
                    /\ MarshalNotifyRequest(m) \in Seq(NotifyFields)
                    /\ WireSize(MarshalNotifyRequest(m)) = SizeNotifyRequest(m)
  OBVIOUS
<1>1. /\ m.topics \in AtMostOne(Topics) /\ m.message \in AtMostOne(PushMessage)
      /\ m.groupId \in Blob /\ m.unknownFields \in Kept
  BY DEF Message, Kept
<1>2. PICK a, b, c, d : /\ a = MarshalOptionalTopics(m) /\ b = MessageBuffer(m)
                        /\ c = PutBytes(3, m.groupId) /\ d = m.unknownFields
  OBVIOUS
<1>3. /\ a \in Seq(OptionalFields) /\ b \in Seq(MessageFields)
      /\ c \in Seq(BytesFields({3})) /\ d \in Seq(NotifyFields)
      /\ WireSize(a) = SizeOptionalTopics(m) /\ WireSize(b) = MessageBufferSize(m)
      /\ WireSize(c) = BytesSize(m.groupId)
  BY <1>1, <1>2, OptionalParts, MessageParts, PutBytesSize, KeptParts
<1>4. /\ a \in Seq(NotifyFields) /\ b \in Seq(NotifyFields) /\ c \in Seq(NotifyFields)
  BY <1>3, SeqMonotonic DEF NotifyFields
<1>5. /\ a \o b \o c \o d \in Seq(NotifyFields)
      /\ WireSize(a \o b \o c \o d) = WireSize(a) + WireSize(b) + WireSize(c) + WireSize(d)
  BY <1>3, <1>4, NotifySized, FourParts
<1>6. MarshalNotifyRequest(m) = a \o b \o c \o d
  BY <1>2 DEF MarshalNotifyRequest, MessageBuffer
<1>7. SizeNotifyRequest(m) = WireSize(a) + WireSize(b) + WireSize(c) + WireSize(d)
  BY <1>2, <1>3 DEF SizeNotifyRequest, MessageBufferSize
<1> QED
  BY <1>1, <1>5, <1>6, <1>7

Types == {"SetTokenRequest", "CreateSpaceRequest", "RemoveSpaceRequest", "SubscriptionsRequest",
          "SubscriptionsResponse", "SubscribeRequest", "UnsubscribeRequest",
          "SubscribeAllRequest", "NotifyRequest", "Ok"}

(***************************************************************************)
(* SizeVT is always right about MarshalToSizedBufferVT: what MarshalVT     *)
(* sends of a message is the whole buffer, whatever lengths it has.        *)
(***************************************************************************)
THEOREM SizeIsRight ==
  \A type \in Types : \A m \in Message(type) : Marshal(type, m) = Buffer(type, m)
<1> SUFFICES ASSUME NEW type \in Types, NEW m \in Message(type)
             PROVE  Marshal(type, m) = Buffer(type, m)
  OBVIOUS
<1>1. CASE type = "SetTokenRequest"
  BY <1>1, SetTokenSize DEF Marshal, Buffer, MarshalVT
<1>2. CASE type \in {"CreateSpaceRequest", "RemoveSpaceRequest"}
  <2>1. m \in Message("CreateSpaceRequest")
    BY <1>2 DEF Message
  <2>2. /\ MarshalRemoveSpaceRequest(m) = MarshalCreateSpaceRequest(m)
        /\ SizeRemoveSpaceRequest(m) = SizeCreateSpaceRequest(m)
    BY DEF MarshalRemoveSpaceRequest, MarshalCreateSpaceRequest, SizeRemoveSpaceRequest,
           SizeCreateSpaceRequest
  <2> QED BY <1>2, <2>1, <2>2, SpaceSize DEF Marshal, Buffer, MarshalVT
<1>3. CASE type \in {"SubscriptionsRequest", "Ok"}
  BY <1>3 DEF Marshal, Buffer, MarshalVT, SizeSubscriptionsRequest, SizeOk,
              MarshalSubscriptionsRequest, MarshalOk
<1>4. CASE type \in {"SubscriptionsResponse", "SubscribeRequest", "UnsubscribeRequest",
                     "SubscribeAllRequest"}
  <2>1. m \in Message("SubscribeRequest")
    BY <1>4 DEF Message
  <2>2. /\ MarshalSubscriptionsResponse(m) = MarshalSubscribeRequest(m)
        /\ MarshalUnsubscribeRequest(m) = MarshalSubscribeRequest(m)
        /\ MarshalSubscribeAllRequest(m) = MarshalSubscribeRequest(m)
        /\ SizeSubscriptionsResponse(m) = SizeSubscribeRequest(m)
        /\ SizeUnsubscribeRequest(m) = SizeSubscribeRequest(m)
        /\ SizeSubscribeAllRequest(m) = SizeSubscribeRequest(m)
    BY DEF MarshalSubscriptionsResponse, MarshalUnsubscribeRequest, MarshalSubscribeAllRequest,
           MarshalSubscribeRequest, SizeSubscriptionsResponse, SizeUnsubscribeRequest,
           SizeSubscribeAllRequest, SizeSubscribeRequest
  <2> QED BY <1>4, <2>1, <2>2, OptionalTopicsSize DEF Marshal, Buffer, MarshalVT
<1>5. CASE type = "NotifyRequest"
  BY <1>5, NotifySize DEF Marshal, Buffer, MarshalVT
<1> QED
  BY <1>1, <1>2, <1>3, <1>4, <1>5 DEF Types

-----------------------------------------------------------------------------
(***************************************************************************)
(* What a field makes of a message.  The fields of other releases, which   *)
(* may be put into a buffer, are Either.                                   *)
(***************************************************************************)
Either == NewField \cup Retyped

\* The fields that are put into a buffer have none of the numbers and types of the others.
LEMMA NewTaken ==
  \A f \in NewField : \A m, num, name, ns :
    num \in {1, 2, 3} =>
      /\ TakeInt(m, f, num, name) = {} /\ TakeBytes(m, f, num, name) = {}
      /\ TakeMessage(m, f, num, name, ns) = {} /\ TakeOptional(m, f, num, name, ns) = {}
<1> SUFFICES ASSUME NEW f \in NewField, NEW m, NEW num \in {1, 2, 3}, NEW name, NEW ns
             PROVE  /\ TakeInt(m, f, num, name) = {} /\ TakeBytes(m, f, num, name) = {}
                    /\ TakeMessage(m, f, num, name, ns) = {}
                    /\ TakeOptional(m, f, num, name, ns) = {}
  OBVIOUS
<1>1. f.num > 3 /\ f.num \in Nat
  BY RpcAssumption DEF Legal
<1>2. f.num # num
  BY <1>1
<1> QED
  BY <1>2 DEF TakeInt, TakeBytes, TakeMessage, TakeOptional

\* Fields of other releases are legal.
LEMMA EitherLegal ==
  \A f \in Either : /\ LegalTag(f)
                    /\ f.type \in {VarintType, Fixed64Type, DelimitedType, GroupType, Fixed32Type}
BY RpcAssumption DEF Either, Legal, LegalTag, VarintType, Fixed64Type, DelimitedType, GroupType,
                     Fixed32Type, EndGroupType

\* An unknown number is kept.
LEMMA UnknownTaken ==
  \A f \in Either : \A m, known : f.num \notin known =>
    TakeUnknown(m, f, known) = {[m EXCEPT !.unknownFields = Append(@, f)]}
BY EitherLegal DEF TakeUnknown

\* So is a field that a newer release added, by every type.
LEMMA NewUnknown ==
  \A f \in NewField : \A m, known : known \subseteq {1, 2, 3} =>
    TakeUnknown(m, f, known) = {[m EXCEPT !.unknownFields = Append(@, f)]}
<1> SUFFICES ASSUME NEW f \in NewField, NEW m, NEW known, known \subseteq {1, 2, 3}
             PROVE  TakeUnknown(m, f, known) = {[m EXCEPT !.unknownFields = Append(@, f)]}
  OBVIOUS
<1>1. f.num > 3 /\ f.num \in Nat
  BY RpcAssumption DEF Legal
<1>2. f.num \notin known /\ f \in Either
  BY <1>1 DEF Either
<1> QED
  BY <1>2, UnknownTaken

\* A known number is not an unknown one.
LEMMA KnownTaken == \A m, f, known : f.num \in known => TakeUnknown(m, f, known) = {}
BY DEF TakeUnknown

\* A field of bytes.
BytesField(num, b) == Delimited(num, BlobLen[b], b)
\* What the cases of a switch make of a field of bytes.
LEMMA BytesTaken ==
  \A b, num :
    /\ BytesField(num, b).num = num
    /\ BytesField(num, b).value = b
    /\ \A m, name : TakeBytes(m, BytesField(num, b), num, name) = {[m EXCEPT ![name] = b]}
    /\ \A m, name, k : k # num => TakeBytes(m, BytesField(num, b), k, name) = {}
    /\ \A m, name, k : TakeInt(m, BytesField(num, b), k, name) = {}
    /\ \A m, known : num \in known => TakeUnknown(m, BytesField(num, b), known) = {}
BY DEF TakeBytes, TakeInt, TakeUnknown, BytesField, Delimited, DelimitedType, VarintType

Appended(m, f) == [m EXCEPT !.unknownFields = Append(@, f)]

\* Appending is concatenating one field.
LEMMA AppendedIs ==
  \A S : \A m, f : m.unknownFields \in Seq(S) /\ f \in S =>
    Appended(m, f) = [m EXCEPT !.unknownFields = @ \o <<f>>]
<1> SUFFICES ASSUME NEW S, NEW m, NEW f \in S, m.unknownFields \in Seq(S)
             PROVE  Appended(m, f) = [m EXCEPT !.unknownFields = @ \o <<f>>]
  OBVIOUS
<1>1. Append(m.unknownFields, f) = m.unknownFields \o <<f>>
  BY AppendIsConcat
<1> QED
  BY <1>1 DEF Appended

-----------------------------------------------------------------------------
\* Topic.
LEMMA TopicReads ==
  \A m \in Topic :
    /\ \A b \in Blob :
         /\ ReadTopic(m, BytesField(1, b)) = {[m EXCEPT !.spaceKey = b]}
         /\ ReadTopic(m, BytesField(2, b)) = {[m EXCEPT !.topic = b]}
         /\ ReadTopic(m, BytesField(3, b)) = {[m EXCEPT !.signature = b]}
    /\ \A f \in NewField : ReadTopic(m, f) = {FTopic!Extended(m, <<f>>)}
<1> SUFFICES ASSUME NEW m \in Topic
             PROVE  /\ \A b \in Blob :
                         /\ ReadTopic(m, BytesField(1, b)) = {[m EXCEPT !.spaceKey = b]}
                         /\ ReadTopic(m, BytesField(2, b)) = {[m EXCEPT !.topic = b]}
                         /\ ReadTopic(m, BytesField(3, b)) = {[m EXCEPT !.signature = b]}
                    /\ \A f \in NewField : ReadTopic(m, f) = {FTopic!Extended(m, <<f>>)}
  OBVIOUS
<1>1. ASSUME NEW b \in Blob
      PROVE  /\ ReadTopic(m, BytesField(1, b)) = {[m EXCEPT !.spaceKey = b]}
             /\ ReadTopic(m, BytesField(2, b)) = {[m EXCEPT !.topic = b]}
             /\ ReadTopic(m, BytesField(3, b)) = {[m EXCEPT !.signature = b]}
  <2>1. ReadTopic(m, BytesField(1, b)) = {[m EXCEPT !.spaceKey = b]}
    BY BytesTaken DEF ReadTopic
  <2>2. ReadTopic(m, BytesField(2, b)) = {[m EXCEPT !.topic = b]}
    BY BytesTaken DEF ReadTopic
  <2>3. ReadTopic(m, BytesField(3, b)) = {[m EXCEPT !.signature = b]}
    BY BytesTaken DEF ReadTopic
  <2> QED BY <2>1, <2>2, <2>3
<1>2. ASSUME NEW f \in NewField PROVE ReadTopic(m, f) = {FTopic!Extended(m, <<f>>)}
  <2>1. ReadTopic(m, f) = {Appended(m, f)}
    BY NewTaken, NewUnknown DEF ReadTopic, Appended
  <2>2. m.unknownFields \in Seq(NewField)
    BY DEF Topic
  <2> QED BY <2>1, <2>2, AppendedIs DEF FTopic!Extended
<1> QED
  BY <1>1, <1>2

\* Reading what PutBytes makes sets the field, unless it is empty.
LEMMA TopicPut ==
  \A m \in Topic : \A b \in Blob :
    /\ FTopic!Fold({m}, PutBytes(1, b)) = {[m EXCEPT !.spaceKey = IF b = Empty THEN @ ELSE b]}
    /\ FTopic!Fold({m}, PutBytes(2, b)) = {[m EXCEPT !.topic = IF b = Empty THEN @ ELSE b]}
    /\ FTopic!Fold({m}, PutBytes(3, b)) = {[m EXCEPT !.signature = IF b = Empty THEN @ ELSE b]}
<1> SUFFICES ASSUME NEW m \in Topic, NEW b \in Blob
             PROVE  /\ FTopic!Fold({m}, PutBytes(1, b)) =
                         {[m EXCEPT !.spaceKey = IF b = Empty THEN @ ELSE b]}
                    /\ FTopic!Fold({m}, PutBytes(2, b)) =
                         {[m EXCEPT !.topic = IF b = Empty THEN @ ELSE b]}
                    /\ FTopic!Fold({m}, PutBytes(3, b)) =
                         {[m EXCEPT !.signature = IF b = Empty THEN @ ELSE b]}
  OBVIOUS
<1>1. CASE b = Empty
  <2>1. \A num : FTopic!Fold({m}, PutBytes(num, b)) = {m}
    BY <1>1, FTopic!FoldEmpty DEF PutBytes
  <2>2. /\ m = [m EXCEPT !.spaceKey = m.spaceKey]
        /\ m = [m EXCEPT !.topic = m.topic]
        /\ m = [m EXCEPT !.signature = m.signature]
    BY DEF Topic
  <2> QED BY <1>1, <2>1, <2>2
<1>2. CASE b # Empty
  <2>1. \A num : FTopic!Fold({m}, PutBytes(num, b)) = ReadTopic(m, BytesField(num, b))
    BY <1>2, FTopic!FoldOne, TopicFold DEF PutBytes, BytesField
  <2> QED BY <1>2, <2>1, TopicReads
<1> QED
  BY <1>1, <1>2

\* Reading unknown fields keeps them.
LEMMA TopicKept ==
  \A m \in Topic : \A u \in Seq(NewField) :
    FTopic!Fold({m}, u) = {[m EXCEPT !.unknownFields = @ \o u]}
<1>1. \A m \in Topic : /\ m = [x \in DOMAIN m |-> m[x]]
                       /\ "unknownFields" \in DOMAIN m
                       /\ m.unknownFields \in Seq(NewField)
  BY DEF Topic
<1>2. \A m \in Topic, f \in NewField : TopicStep({m}, f) = {FTopic!Extended(m, <<f>>)}
  BY TopicReads, TopicFold
<1>3. \A m \in Topic, u \in Seq(NewField) : FTopic!Extended(m, u) \in Topic
  <2> SUFFICES ASSUME NEW m \in Topic, NEW u \in Seq(NewField)
               PROVE  FTopic!Extended(m, u) \in Topic
    OBVIOUS
  <2>1. m.unknownFields \o u \in Seq(NewField)
    <3>1. m.unknownFields \in Seq(NewField)
      BY DEF Topic
    <3> QED BY <3>1
  <2> QED BY <2>1 DEF FTopic!Extended, Topic
<1>4. FTopic!Extends(Topic, NewField, NewField)
  BY <1>1, <1>2, <1>3 DEF FTopic!Extends
<1>5. \A u \in Seq(NewField) : \A m \in Topic : FTopic!Fold({m}, u) = {FTopic!Extended(m, u)}
  BY <1>4, FTopic!FoldExtended
<1> QED
  BY <1>5 DEF FTopic!Extended

\* A Topic is read back.
LEMMA TopicRead == \A t \in Topic : UnmarshalTopic(MarshalTopic(t), Topic0) = {t}
<1> SUFFICES ASSUME NEW t \in Topic PROVE UnmarshalTopic(MarshalTopic(t), Topic0) = {t}
  OBVIOUS
<1>1. /\ t.spaceKey \in Blob /\ t.topic \in Blob /\ t.signature \in Blob
      /\ t.unknownFields \in Seq(NewField)
  BY DEF Topic
<1>2. PICK a \in Seq(BlobFields), b \in Seq(BlobFields), c \in Seq(BlobFields),
           d \in Seq(BlobFields) :
        /\ a = PutBytes(1, t.spaceKey) /\ b = PutBytes(2, t.topic)
        /\ c = PutBytes(3, t.signature) /\ d = t.unknownFields
  BY <1>1, BlobParts, KeptParts DEF Kept
<1>3. PICK m1, m2, m3 :
        /\ m1 = [Topic0 EXCEPT !.spaceKey = t.spaceKey]
        /\ m2 = [m1 EXCEPT !.topic = t.topic]
        /\ m3 = [m2 EXCEPT !.signature = t.signature]
  OBVIOUS
<1>4. Topic0 \in Topic /\ m1 \in Topic /\ m2 \in Topic /\ m3 \in Topic
  <2>1. Topic0 \in Topic
    BY ApiAssumption DEF Topic0, Topic
  <2> QED BY <1>1, <1>3, <2>1 DEF Topic
<1>5. FTopic!Fold({Topic0}, a) = {m1}
  <2>1. FTopic!Fold({Topic0}, a) =
          {[Topic0 EXCEPT !.spaceKey = IF t.spaceKey = Empty THEN @ ELSE t.spaceKey]}
    BY <1>1, <1>2, <1>4, TopicPut
  <2> QED BY <1>3, <2>1 DEF Topic0
<1>6. FTopic!Fold({m1}, b) = {m2}
  <2>1. FTopic!Fold({m1}, b) = {[m1 EXCEPT !.topic = IF t.topic = Empty THEN @ ELSE t.topic]}
    BY <1>1, <1>2, <1>4, TopicPut
  <2>2. m1.topic = Empty
    BY <1>3 DEF Topic0
  <2> QED BY <1>3, <2>1, <2>2
<1>7. FTopic!Fold({m2}, c) = {m3}
  <2>1. FTopic!Fold({m2}, c) =
          {[m2 EXCEPT !.signature = IF t.signature = Empty THEN @ ELSE t.signature]}
    BY <1>1, <1>2, <1>4, TopicPut
  <2>2. m2.signature = Empty
    BY <1>3 DEF Topic0
  <2> QED BY <1>3, <2>1, <2>2
<1>8. FTopic!Fold({m3}, d) = {t}
  <2>1. FTopic!Fold({m3}, d) = {[m3 EXCEPT !.unknownFields = @ \o t.unknownFields]}
    BY <1>1, <1>2, <1>4, TopicKept
  <2>2. m3.unknownFields = <<>> /\ <<>> \o t.unknownFields = t.unknownFields
    BY <1>1, <1>3 DEF Topic0
  <2>3. [m3 EXCEPT !.unknownFields = t.unknownFields] = t
    BY <1>3 DEF Topic0, Topic
  <2> QED BY <2>1, <2>2, <2>3
<1>9. FTopic!Fold({Topic0}, a \o b \o c \o d) =
        FTopic!Fold(FTopic!Fold(FTopic!Fold(FTopic!Fold({Topic0}, a), b), c), d)
  BY FTopic!FoldFour
<1>10. MarshalTopic(t) = a \o b \o c \o d
  BY <1>2 DEF MarshalTopic
<1> QED
  BY <1>5, <1>6, <1>7, <1>8, <1>9, <1>10, TopicFold

-----------------------------------------------------------------------------
\* Topics.
TopicField(t) == Delimited(1, WireSize(MarshalTopic(t)), MarshalTopic(t))
TopicBuffers(ts) == PutMessages(1, [i \in DOMAIN ts |-> MarshalTopic(ts[i])])

\* The step of Topics: a nested Topic is appended.
LEMMA TopicsReads ==
  \A m \in Topics :
    /\ \A t \in Topic : ReadTopics(m, TopicField(t)) = {[m EXCEPT !.topics = Append(@, t)]}
    /\ \A f \in NewField : ReadTopics(m, f) = {FTopics!Extended(m, <<f>>)}
<1> SUFFICES ASSUME NEW m \in Topics
             PROVE  /\ \A t \in Topic : ReadTopics(m, TopicField(t)) =
                                          {[m EXCEPT !.topics = Append(@, t)]}
                    /\ \A f \in NewField : ReadTopics(m, f) = {FTopics!Extended(m, <<f>>)}
  OBVIOUS
<1>1. ASSUME NEW t \in Topic
      PROVE  ReadTopics(m, TopicField(t)) = {[m EXCEPT !.topics = Append(@, t)]}
  <2>1. PICK f : f = TopicField(t)
    OBVIOUS
  <2>2. f.num = 1 /\ f.type = DelimitedType /\ f.value = MarshalTopic(t)
    BY <2>1 DEF TopicField, Delimited
  <2>3. UnmarshalTopic(f.value, Topic0) = {t}
    BY <2>2, TopicRead
  <2>4. TakeUnknown(m, f, {1}) = {}
    BY <2>2, KnownTaken
  <2>5. TakeMessage(m, f, 1, "topics", {t}) = {[m EXCEPT !["topics"] = Append(@, t)]}
    BY <2>2 DEF TakeMessage
  <2> QED BY <2>1, <2>3, <2>4, <2>5 DEF ReadTopics
<1>2. ASSUME NEW f \in NewField PROVE ReadTopics(m, f) = {FTopics!Extended(m, <<f>>)}
  <2>1. ReadTopics(m, f) = {Appended(m, f)}
    BY NewTaken, NewUnknown DEF ReadTopics, Appended
  <2>2. m.unknownFields \in Seq(NewField)
    BY DEF Topics
  <2> QED BY <2>1, <2>2, AppendedIs DEF FTopics!Extended
<1> QED
  BY <1>1, <1>2

\* The buffers of one Topic more.
LEMMA TopicBuffersAppend ==
  \A ts \in Seq(Topic) : \A t \in Topic :
    /\ TopicBuffers(ts) \in Seq(TopicsFields)
    /\ TopicBuffers(Append(ts, t)) = Append(TopicBuffers(ts), TopicField(t))
    /\ TopicField(t) \in TopicsFields
<1> SUFFICES ASSUME NEW ts \in Seq(Topic), NEW t \in Topic
             PROVE  /\ TopicBuffers(ts) \in Seq(TopicsFields)
                    /\ TopicBuffers(Append(ts, t)) = Append(TopicBuffers(ts), TopicField(t))
                    /\ TopicField(t) \in TopicsFields
  OBVIOUS
<1>1. \A s \in Seq(Topic) : /\ DOMAIN TopicBuffers(s) = DOMAIN s
                            /\ TopicBuffers(s) = [i \in DOMAIN s |-> TopicField(s[i])]
  BY DEF TopicBuffers, PutMessages, TopicField
<1>2. \A x \in Topic : TopicField(x) \in TopicsFields
  BY DEF TopicField, TopicsFields
<1>3. TopicBuffers(ts) \in Seq(TopicsFields)
  <2>1. DOMAIN ts = 1 .. Len(ts) /\ Len(ts) \in Nat /\ \A i \in DOMAIN ts : ts[i] \in Topic
    OBVIOUS
  <2>2. TopicBuffers(ts) \in [1 .. Len(ts) -> TopicsFields]
    BY <1>1, <1>2, <2>1
  <2> QED BY <2>1, <2>2, SeqDef
<1>4. PICK w, f, n : w = Append(ts, t) /\ f = TopicField(t) /\ n = Len(ts)
  OBVIOUS
<1>5. /\ w \in Seq(Topic) /\ n \in Nat
      /\ DOMAIN w = 1 .. n + 1 /\ w[n + 1] = t /\ DOMAIN ts = 1 .. n
      /\ \A i \in 1 .. n : w[i] = ts[i]
  BY <1>4
<1>6. PICK p : p = TopicBuffers(ts)
  OBVIOUS
<1>7. p \in Seq(TopicsFields) /\ Len(p) = n /\ \A i \in 1 .. n : p[i] = TopicField(ts[i])
  BY <1>1, <1>3, <1>5, <1>6
<1>8. /\ DOMAIN Append(p, f) = 1 .. n + 1 /\ Append(p, f)[n + 1] = f
      /\ \A i \in 1 .. n : Append(p, f)[i] = p[i]
      /\ Append(p, f) = [i \in 1 .. n + 1 |-> Append(p, f)[i]]
  <2>1. \A S : \A x \in Seq(S), e \in S :
          /\ DOMAIN Append(x, e) = 1 .. Len(x) + 1 /\ Append(x, e)[Len(x) + 1] = e
          /\ \A i \in 1 .. Len(x) : Append(x, e)[i] = x[i]
          /\ Append(x, e) = [i \in 1 .. Len(x) + 1 |-> Append(x, e)[i]]
    <3> SUFFICES ASSUME NEW S, NEW x \in Seq(S), NEW e \in S
                 PROVE  /\ DOMAIN Append(x, e) = 1 .. Len(x) + 1 /\ Append(x, e)[Len(x) + 1] = e
                        /\ \A i \in 1 .. Len(x) : Append(x, e)[i] = x[i]
                        /\ Append(x, e) = [i \in 1 .. Len(x) + 1 |-> Append(x, e)[i]]
      OBVIOUS
    <3>1. PICK y \in Seq(S) : y = Append(x, e)
      BY AppendProperties
    <3>2. Len(y) = Len(x) + 1 /\ DOMAIN y = 1 .. Len(y) /\ y[Len(x) + 1] = e
      BY <3>1
    <3>3. y = [i \in DOMAIN y |-> y[i]]
      <4>1. PICK k \in Nat : y \in [1 .. k -> S]
        BY SeqDef
      <4> QED BY <4>1
    <3>4. \A i \in 1 .. Len(x) : y[i] = x[i]
      BY <3>1
    <3> QED BY <3>1, <3>2, <3>3, <3>4
  <2>2. f \in TopicsFields
    BY <1>2, <1>4
  <2> QED BY <1>7, <2>1, <2>2
<1>9. \A i \in 1 .. n + 1 : TopicField(w[i]) = Append(p, f)[i]
  BY <1>4, <1>5, <1>7, <1>8
<1>10. TopicBuffers(w) = [i \in 1 .. n + 1 |-> TopicField(w[i])]
  BY <1>1, <1>5
<1>11. TopicBuffers(w) = Append(p, f)
  BY <1>8, <1>9, <1>10
<1> QED
  BY <1>2, <1>3, <1>4, <1>6, <1>11

\* Reading the buffers of a list of Topic appends that list.
LEMMA TopicsPut ==
  \A ts \in Seq(Topic) : \A m \in Topics :
    FTopics!Fold({m}, TopicBuffers(ts)) = {[m EXCEPT !.topics = @ \o ts]}
<1> DEFINE A == {ts \in Seq(Topic) : \A m \in Topics :
                   FTopics!Fold({m}, TopicBuffers(ts)) = {[m EXCEPT !.topics = @ \o ts]}}
<1>1. <<>> \in A
  <2>1. TopicBuffers(<<>>) = <<>>
    BY DEF TopicBuffers, PutMessages
  <2>2. ASSUME NEW m \in Topics PROVE [m EXCEPT !.topics = @ \o <<>>] = m
    <3>1. m.topics \o <<>> = m.topics
      BY DEF Topics
    <3> QED BY <3>1 DEF Topics
  <2>3. <<>> \in Seq(Topic)
    OBVIOUS
  <2>4. ASSUME NEW m \in Topics
        PROVE  FTopics!Fold({m}, TopicBuffers(<<>>)) = {[m EXCEPT !.topics = @ \o <<>>]}
    BY <2>1, <2>2, FTopics!FoldEmpty
  <2> QED BY <2>3, <2>4
<1>2. ASSUME NEW ts \in Seq(Topic), NEW t \in Topic, ts \in A PROVE Append(ts, t) \in A
  <2>1. Append(ts, t) \in Seq(Topic)
    OBVIOUS
  <2>2. ASSUME NEW m \in Topics
        PROVE  FTopics!Fold({m}, TopicBuffers(Append(ts, t))) =
                 {[m EXCEPT !.topics = @ \o Append(ts, t)]}
    <3>1. PICK q : q = [m EXCEPT !.topics = @ \o ts]
      OBVIOUS
    <3>2. m.topics \in Seq(Topic) /\ m.topics \o ts \in Seq(Topic)
      <4>1. m.topics \in Seq(Topic)
        BY DEF Topics
      <4> QED BY <4>1
    <3>3. q \in Topics /\ q.topics = m.topics \o ts
      BY <3>1, <3>2 DEF Topics
    <3>4. FTopics!Fold({m}, TopicBuffers(ts)) = {q}
      BY <1>2, <3>1
    <3>5. FTopics!Fold({m}, TopicBuffers(Append(ts, t))) = TopicsStep({q}, TopicField(t))
      BY <3>4, TopicBuffersAppend, FTopics!FoldAppend
    <3>6. TopicsStep({q}, TopicField(t)) = {[q EXCEPT !.topics = Append(@, t)]}
      <4>1. ReadTopics(q, TopicField(t)) = {[q EXCEPT !.topics = Append(@, t)]}
        BY <3>3, TopicsReads
      <4>2. TopicsStep({q}, TopicField(t)) = ReadTopics(q, TopicField(t))
        BY TopicsFold
      <4> QED BY <4>1, <4>2
    <3>7. Append(m.topics \o ts, t) = m.topics \o Append(ts, t)
      <4>1. PICK x \in Seq(Topic) : x = m.topics
        BY <3>2
      <4>2. Append(x \o ts, t) = x \o Append(ts, t)
        OBVIOUS
      <4> QED BY <4>1, <4>2
    <3>8. [q EXCEPT !.topics = Append(@, t)] = [m EXCEPT !.topics = @ \o Append(ts, t)]
      BY <3>1, <3>3, <3>7 DEF Topics
    <3> QED BY <3>5, <3>6, <3>8
  <2> HIDE DEF A
  <2> QED BY <2>1, <2>2 DEF A
<1> HIDE DEF A
<1>3. Seq(Topic) \subseteq A
  BY <1>1, <1>2, Bytes!SeqSetInduction
<1> QED
  BY <1>3 DEF A

\* Reading unknown fields keeps them.
LEMMA TopicsKept ==
  \A m \in Topics : \A u \in Seq(NewField) :
    FTopics!Fold({m}, u) = {[m EXCEPT !.unknownFields = @ \o u]}
<1>1. \A m \in Topics : /\ m = [x \in DOMAIN m |-> m[x]]
                        /\ "unknownFields" \in DOMAIN m
                        /\ m.unknownFields \in Seq(NewField)
  BY DEF Topics
<1>2. \A m \in Topics, f \in NewField : TopicsStep({m}, f) = {FTopics!Extended(m, <<f>>)}
  BY TopicsReads, TopicsFold
<1>3. \A m \in Topics, u \in Seq(NewField) : FTopics!Extended(m, u) \in Topics
  <2> SUFFICES ASSUME NEW m \in Topics, NEW u \in Seq(NewField)
               PROVE  FTopics!Extended(m, u) \in Topics
    OBVIOUS
  <2>1. m.unknownFields \o u \in Seq(NewField)
    <3>1. m.unknownFields \in Seq(NewField)
      BY DEF Topics
    <3> QED BY <3>1
  <2> QED BY <2>1 DEF FTopics!Extended, Topics
<1>4. FTopics!Extends(Topics, NewField, NewField)
  BY <1>1, <1>2, <1>3 DEF FTopics!Extends
<1>5. \A u \in Seq(NewField) : \A m \in Topics : FTopics!Fold({m}, u) = {FTopics!Extended(m, u)}
  BY <1>4, FTopics!FoldExtended
<1> QED
  BY <1>5 DEF FTopics!Extended

\* A second Topics is read into the first.
JoinedTopics(p, t) ==
  [topics |-> p.topics \o t.topics, unknownFields |-> p.unknownFields \o t.unknownFields]

\* A Topics is read into another one: the lists are joined, so that it is read back from a new one.
LEMMA TopicsRead ==
  \A t \in Topics :
    /\ \A p \in Topics : /\ UnmarshalTopics(MarshalTopics(t), p) = {JoinedTopics(p, t)}
                         /\ JoinedTopics(p, t) \in Topics
    /\ Topics0 \in Topics
    /\ JoinedTopics(Topics0, t) = t
<1> SUFFICES ASSUME NEW t \in Topics
             PROVE  /\ \A p \in Topics :
                         /\ UnmarshalTopics(MarshalTopics(t), p) = {JoinedTopics(p, t)}
                         /\ JoinedTopics(p, t) \in Topics
                    /\ Topics0 \in Topics
                    /\ JoinedTopics(Topics0, t) = t
  OBVIOUS
<1>1. t.topics \in Seq(Topic) /\ t.unknownFields \in Seq(NewField)
  BY DEF Topics
<1>2. Topics0 \in Topics
  BY DEF Topics0, Topics
<1>3. JoinedTopics(Topics0, t) = t
  <2>1. <<>> \o t.topics = t.topics /\ <<>> \o t.unknownFields = t.unknownFields
    BY <1>1
  <2> QED BY <2>1 DEF Topics0, Topics, JoinedTopics
<1>4. ASSUME NEW p \in Topics
      PROVE  /\ UnmarshalTopics(MarshalTopics(t), p) = {JoinedTopics(p, t)}
             /\ JoinedTopics(p, t) \in Topics
  <2>1. p.topics \in Seq(Topic) /\ p.unknownFields \in Seq(NewField)
    BY DEF Topics
  <2>2. p.topics \o t.topics \in Seq(Topic) /\ p.unknownFields \o t.unknownFields \in Seq(NewField)
    BY <1>1, <2>1
  <2>3. PICK a, b, q : /\ a = TopicBuffers(t.topics) /\ b = t.unknownFields
                       /\ q = [p EXCEPT !.topics = @ \o t.topics]
    OBVIOUS
  <2>4. q \in Topics
    BY <2>2, <2>3 DEF Topics
  <2>5. a \in Seq(TopicsFields) /\ b \in Seq(TopicsFields)
    <3>1. a \in Seq(TopicsFields)
      <4>1. \A i \in DOMAIN t.topics : TopicField(t.topics[i]) \in TopicsFields
        BY <1>1 DEF TopicField, TopicsFields
      <4>2. /\ DOMAIN t.topics = 1 .. Len(t.topics) /\ Len(t.topics) \in Nat
            /\ a = [i \in DOMAIN t.topics |-> TopicField(t.topics[i])]
        BY <1>1, <2>3 DEF TopicBuffers, PutMessages, TopicField
      <4>3. a \in [1 .. Len(t.topics) -> TopicsFields]
        BY <4>1, <4>2
      <4> QED BY <4>2, <4>3, SeqDef
    <3> QED BY <1>1, <2>3, <3>1, KeptParts DEF Kept
  <2>6. FTopics!Fold({p}, a \o b) = FTopics!Fold(FTopics!Fold({p}, a), b)
    BY <2>5, FTopics!FoldConcat
  <2>7. FTopics!Fold({p}, a) = {q}
    BY <1>1, <2>3, TopicsPut
  <2>8. FTopics!Fold({q}, b) = {[q EXCEPT !.unknownFields = @ \o b]}
    BY <1>1, <2>3, <2>4, TopicsKept
  <2>9. [q EXCEPT !.unknownFields = @ \o b] = JoinedTopics(p, t)
    <3>1. PICK v, w : v = p.topics \o t.topics /\ w = p.unknownFields \o b
      OBVIOUS
    <3>2. q = [topics |-> v, unknownFields |-> p.unknownFields]
      BY <2>3, <3>1 DEF Topics
    <3>3. q.unknownFields \o b = w
      BY <3>1, <3>2
    <3>4. [q EXCEPT !.unknownFields = w] = [topics |-> v, unknownFields |-> w]
      BY <3>2
    <3> QED BY <2>3, <3>1, <3>3, <3>4 DEF JoinedTopics
  <2>10. MarshalTopics(t) = a \o b
    BY <2>3 DEF MarshalTopics, TopicBuffers
  <2>11. JoinedTopics(p, t) \in Topics
    BY <2>2 DEF JoinedTopics, Topics
  <2> QED BY <2>6, <2>7, <2>8, <2>9, <2>10, <2>11, TopicsFold
<1> QED
  BY <1>2, <1>3, <1>4

-----------------------------------------------------------------------------
\* Message.
LEMMA MessageReads ==
  \A m \in PushMessage :
    /\ \A b \in Blob :
         /\ ReadMessage(m, BytesField(1, b)) = {[m EXCEPT !.keyId = b]}
         /\ ReadMessage(m, BytesField(2, b)) = {[m EXCEPT !.payload = b]}
         /\ ReadMessage(m, BytesField(3, b)) = {[m EXCEPT !.signature = b]}
    /\ \A f \in NewField : ReadMessage(m, f) = {FMessage!Extended(m, <<f>>)}
<1> SUFFICES ASSUME NEW m \in PushMessage
             PROVE  /\ \A b \in Blob :
                         /\ ReadMessage(m, BytesField(1, b)) = {[m EXCEPT !.keyId = b]}
                         /\ ReadMessage(m, BytesField(2, b)) = {[m EXCEPT !.payload = b]}
                         /\ ReadMessage(m, BytesField(3, b)) = {[m EXCEPT !.signature = b]}
                    /\ \A f \in NewField : ReadMessage(m, f) = {FMessage!Extended(m, <<f>>)}
  OBVIOUS
<1>1. ASSUME NEW b \in Blob
      PROVE  /\ ReadMessage(m, BytesField(1, b)) = {[m EXCEPT !.keyId = b]}
             /\ ReadMessage(m, BytesField(2, b)) = {[m EXCEPT !.payload = b]}
             /\ ReadMessage(m, BytesField(3, b)) = {[m EXCEPT !.signature = b]}
  <2>1. ReadMessage(m, BytesField(1, b)) = {[m EXCEPT !.keyId = b]}
    BY BytesTaken DEF ReadMessage
  <2>2. ReadMessage(m, BytesField(2, b)) = {[m EXCEPT !.payload = b]}
    BY BytesTaken DEF ReadMessage
  <2>3. ReadMessage(m, BytesField(3, b)) = {[m EXCEPT !.signature = b]}
    BY BytesTaken DEF ReadMessage
  <2> QED BY <2>1, <2>2, <2>3
<1>2. ASSUME NEW f \in NewField PROVE ReadMessage(m, f) = {FMessage!Extended(m, <<f>>)}
  <2>1. ReadMessage(m, f) = {Appended(m, f)}
    BY NewTaken, NewUnknown DEF ReadMessage, Appended
  <2>2. m.unknownFields \in Seq(NewField)
    BY DEF PushMessage
  <2> QED BY <2>1, <2>2, AppendedIs DEF FMessage!Extended
<1> QED
  BY <1>1, <1>2

\* Reading what PutBytes makes sets the field, unless it is empty.
LEMMA MessagePut ==
  \A m \in PushMessage : \A b \in Blob :
    /\ FMessage!Fold({m}, PutBytes(1, b)) = {[m EXCEPT !.keyId = IF b = Empty THEN @ ELSE b]}
    /\ FMessage!Fold({m}, PutBytes(2, b)) = {[m EXCEPT !.payload = IF b = Empty THEN @ ELSE b]}
    /\ FMessage!Fold({m}, PutBytes(3, b)) = {[m EXCEPT !.signature = IF b = Empty THEN @ ELSE b]}
<1> SUFFICES ASSUME NEW m \in PushMessage, NEW b \in Blob
             PROVE  /\ FMessage!Fold({m}, PutBytes(1, b)) =
                         {[m EXCEPT !.keyId = IF b = Empty THEN @ ELSE b]}
                    /\ FMessage!Fold({m}, PutBytes(2, b)) =
                         {[m EXCEPT !.payload = IF b = Empty THEN @ ELSE b]}
                    /\ FMessage!Fold({m}, PutBytes(3, b)) =
                         {[m EXCEPT !.signature = IF b = Empty THEN @ ELSE b]}
  OBVIOUS
<1>1. CASE b = Empty
  <2>1. \A num : FMessage!Fold({m}, PutBytes(num, b)) = {m}
    BY <1>1, FMessage!FoldEmpty DEF PutBytes
  <2>2. /\ m = [m EXCEPT !.keyId = m.keyId]
        /\ m = [m EXCEPT !.payload = m.payload]
        /\ m = [m EXCEPT !.signature = m.signature]
    BY DEF PushMessage
  <2> QED BY <1>1, <2>1, <2>2
<1>2. CASE b # Empty
  <2>1. \A num : FMessage!Fold({m}, PutBytes(num, b)) = ReadMessage(m, BytesField(num, b))
    BY <1>2, FMessage!FoldOne, PushMessageFold DEF PutBytes, BytesField
  <2> QED BY <1>2, <2>1, MessageReads
<1> QED
  BY <1>1, <1>2

\* Reading unknown fields keeps them.
LEMMA MessageKept ==
  \A m \in PushMessage : \A u \in Seq(NewField) :
    FMessage!Fold({m}, u) = {[m EXCEPT !.unknownFields = @ \o u]}
<1>1. \A m \in PushMessage : /\ m = [x \in DOMAIN m |-> m[x]]
                       /\ "unknownFields" \in DOMAIN m
                       /\ m.unknownFields \in Seq(NewField)
  BY DEF PushMessage
<1>2. \A m \in PushMessage, f \in NewField : MessageStep({m}, f) = {FMessage!Extended(m, <<f>>)}
  BY MessageReads, PushMessageFold
<1>3. \A m \in PushMessage, u \in Seq(NewField) : FMessage!Extended(m, u) \in PushMessage
  <2> SUFFICES ASSUME NEW m \in PushMessage, NEW u \in Seq(NewField)
               PROVE  FMessage!Extended(m, u) \in PushMessage
    OBVIOUS
  <2>1. m.unknownFields \o u \in Seq(NewField)
    <3>1. m.unknownFields \in Seq(NewField)
      BY DEF PushMessage
    <3> QED BY <3>1
  <2> QED BY <2>1 DEF FMessage!Extended, PushMessage
<1>4. FMessage!Extends(PushMessage, NewField, NewField)
  BY <1>1, <1>2, <1>3 DEF FMessage!Extends
<1>5. \A u \in Seq(NewField) : \A m \in PushMessage : FMessage!Fold({m}, u) = {FMessage!Extended(m, u)}
  BY <1>4, FMessage!FoldExtended
<1> QED
  BY <1>5 DEF FMessage!Extended

\* A second Message is read into the first.
MergedMessage(p, x) ==
  [keyId |-> IF x.keyId = Empty THEN p.keyId ELSE x.keyId,
   payload |-> IF x.payload = Empty THEN p.payload ELSE x.payload,
   signature |-> IF x.signature = Empty THEN p.signature ELSE x.signature,
   unknownFields |-> p.unknownFields \o x.unknownFields]

\* A Message is read into another one: what is set replaces the other's.
LEMMA MessageRead ==
  \A x \in PushMessage :
    /\ \A p \in PushMessage : /\ UnmarshalMessage(MarshalMessage(x), p) = {MergedMessage(p, x)}
                              /\ MergedMessage(p, x) \in PushMessage
    /\ Message0 \in PushMessage
    /\ MergedMessage(Message0, x) = x
<1> SUFFICES ASSUME NEW x \in PushMessage
             PROVE  /\ \A p \in PushMessage :
                         /\ UnmarshalMessage(MarshalMessage(x), p) = {MergedMessage(p, x)}
                         /\ MergedMessage(p, x) \in PushMessage
                    /\ Message0 \in PushMessage
                    /\ MergedMessage(Message0, x) = x
  OBVIOUS
<1>1. /\ x.keyId \in Blob /\ x.payload \in Blob /\ x.signature \in Blob
      /\ x.unknownFields \in Seq(NewField)
  BY DEF PushMessage
<1>2. Message0 \in PushMessage
  BY ApiAssumption DEF Message0, PushMessage
<1>3. MergedMessage(Message0, x) = x
  <2>1. <<>> \o x.unknownFields = x.unknownFields
    BY <1>1
  <2> QED BY <2>1 DEF MergedMessage, Message0, PushMessage
<1>4. ASSUME NEW p \in PushMessage
      PROVE  /\ UnmarshalMessage(MarshalMessage(x), p) = {MergedMessage(p, x)}
             /\ MergedMessage(p, x) \in PushMessage
  <2>1. PICK a \in Seq(BlobFields), b \in Seq(BlobFields), c \in Seq(BlobFields),
             d \in Seq(BlobFields) :
          /\ a = PutBytes(1, x.keyId) /\ b = PutBytes(2, x.payload)
          /\ c = PutBytes(3, x.signature) /\ d = x.unknownFields
    BY <1>1, BlobParts, KeptParts DEF Kept
  <2>2. PICK m1, m2, m3 :
          /\ m1 = [p EXCEPT !.keyId = IF x.keyId = Empty THEN @ ELSE x.keyId]
          /\ m2 = [m1 EXCEPT !.payload = IF x.payload = Empty THEN @ ELSE x.payload]
          /\ m3 = [m2 EXCEPT !.signature = IF x.signature = Empty THEN @ ELSE x.signature]
    OBVIOUS
  <2>3. m1 \in PushMessage /\ m2 \in PushMessage /\ m3 \in PushMessage
    <3>1. m1 \in PushMessage
      BY <1>1, <2>2 DEF PushMessage
    <3>2. m2 \in PushMessage
      BY <1>1, <2>2, <3>1 DEF PushMessage
    <3>3. m3 \in PushMessage
      BY <1>1, <2>2, <3>2 DEF PushMessage
    <3> QED BY <3>1, <3>2, <3>3
  <2>4. FMessage!Fold({p}, a) = {m1}
    BY <1>1, <2>1, <2>2, MessagePut
  <2>5. FMessage!Fold({m1}, b) = {m2}
    <3>1. \A m \in PushMessage :
            FMessage!Fold({m}, b) =
              {[m EXCEPT !.payload = IF x.payload = Empty THEN @ ELSE x.payload]}
      BY <1>1, <2>1, MessagePut
    <3> QED BY <2>2, <2>3, <3>1
  <2>6. FMessage!Fold({m2}, c) = {m3}
    <3>1. \A m \in PushMessage :
            FMessage!Fold({m}, c) =
              {[m EXCEPT !.signature = IF x.signature = Empty THEN @ ELSE x.signature]}
      BY <1>1, <2>1, MessagePut
    <3> QED BY <2>2, <2>3, <3>1
  <2>7. FMessage!Fold({m3}, d) = {[m3 EXCEPT !.unknownFields = @ \o d]}
    BY <1>1, <2>1, <2>3, MessageKept
  <2>8. [m3 EXCEPT !.unknownFields = @ \o d] = MergedMessage(p, x)
    <3>1. PICK k, l, s, u : /\ k = (IF x.keyId = Empty THEN p.keyId ELSE x.keyId)
                            /\ l = (IF x.payload = Empty THEN p.payload ELSE x.payload)
                            /\ s = (IF x.signature = Empty THEN p.signature ELSE x.signature)
                            /\ u = p.unknownFields \o d
      OBVIOUS
    <3>2. p = [keyId |-> p.keyId, payload |-> p.payload, signature |-> p.signature,
               unknownFields |-> p.unknownFields]
      BY DEF PushMessage
    <3>3. m1 = [keyId |-> k, payload |-> p.payload, signature |-> p.signature,
                unknownFields |-> p.unknownFields]
      BY <2>2, <3>1, <3>2
    <3>4. m2 = [keyId |-> k, payload |-> l, signature |-> p.signature,
                unknownFields |-> p.unknownFields]
      BY <2>2, <3>1, <3>3
    <3>5. m3 = [keyId |-> k, payload |-> l, signature |-> s,
                unknownFields |-> p.unknownFields]
      BY <2>2, <3>1, <3>4
    <3>6. m3.unknownFields \o d = u
      BY <3>1, <3>5
    <3>7. [m3 EXCEPT !.unknownFields = u] =
            [keyId |-> k, payload |-> l, signature |-> s, unknownFields |-> u]
      BY <3>5
    <3> QED BY <2>1, <3>1, <3>6, <3>7 DEF MergedMessage
  <2>9. FMessage!Fold({p}, a \o b \o c \o d) =
          FMessage!Fold(FMessage!Fold(FMessage!Fold(FMessage!Fold({p}, a), b), c), d)
    BY FMessage!FoldFour
  <2>10. MarshalMessage(x) = a \o b \o c \o d
    BY <2>1 DEF MarshalMessage
  <2>11. MergedMessage(p, x) \in PushMessage
    <3>1. p.unknownFields \o x.unknownFields \in Seq(NewField)
      <4>1. p.unknownFields \in Seq(NewField)
        BY DEF PushMessage
      <4> QED BY <1>1, <4>1
    <3> QED BY <1>1, <3>1 DEF MergedMessage, PushMessage
  <2> QED BY <2>4, <2>5, <2>6, <2>7, <2>8, <2>9, <2>10, <2>11, PushMessageFold
<1> QED
  BY <1>2, <1>3, <1>4

-----------------------------------------------------------------------------
(***************************************************************************)
(* The messages that are sent on their own.  While they are read their     *)
(* unknown fields may be any of another release.                           *)
(***************************************************************************)
SetTokenMsg == [platform : Int, token : Blob, unknownFields : Seq(Either)]
SetTokenParts == {IntField(n) : n \in Int} \cup {BytesField(2, b) : b \in Blob} \cup NewField

\* Fields of a newer release are fields of another release.
LEMMA EitherSeq ==
  /\ NewField \subseteq Either
  /\ \A u \in Seq(NewField) : u \in Seq(Either)
  /\ \A u \in Seq(Either), f \in Either : u \o <<f>> \in Seq(Either)
BY SeqMonotonic DEF Either

\* The fields of another release that a message with these numbers refuses.
LEMMA RetypedRefused ==
  \A f \in Either : \A m, num, name, ns :
    f.num \in {1, 2, 3} =>
      /\ TakeInt(m, f, 1, name) = {}
      /\ TakeBytes(m, f, num, name) = {} /\ TakeOptional(m, f, num, name, ns) = {}
<1> SUFFICES ASSUME NEW f \in Either, NEW m, NEW num, NEW name, NEW ns, f.num \in {1, 2, 3}
             PROVE  /\ TakeInt(m, f, 1, name) = {}
                    /\ TakeBytes(m, f, num, name) = {}
                    /\ TakeOptional(m, f, num, name, ns) = {}
  OBVIOUS
<1>1. f \in Retyped
  BY RpcAssumption DEF Either, Legal
<1>2. f.type # DelimitedType /\ (f.num = 1 => f.type # VarintType)
  BY <1>1, RpcAssumption
<1> QED
  BY <1>2 DEF TakeInt, TakeBytes, TakeOptional

\* A case takes no field of another number.
LEMMA OtherNumber ==
  \A m, f, num, name, ns :
    f.num # num =>
      /\ TakeInt(m, f, num, name) = {} /\ TakeBytes(m, f, num, name) = {}
      /\ TakeOptional(m, f, num, name, ns) = {}
BY DEF TakeInt, TakeBytes, TakeOptional

\* What the cases of a switch make of an integer.
LEMMA IntTaken ==
  \A n :
    /\ \A m, name : TakeInt(m, IntField(n), 1, name) = {[m EXCEPT ![name] = n]}
    /\ \A m, num, name : TakeBytes(m, IntField(n), num, name) = {}
    /\ \A m, known : 1 \in known => TakeUnknown(m, IntField(n), known) = {}
BY DEF TakeInt, TakeBytes, TakeUnknown, IntField, VarintType, DelimitedType

-----------------------------------------------------------------------------
\* SetTokenRequest.
LEMMA SetTokenReads ==
  \A m \in SetTokenMsg :
    /\ \A n \in Int : SetTokenStep({m}, IntField(n)) = {[m EXCEPT !["platform"] = n]}
    /\ \A b \in Blob : SetTokenStep({m}, BytesField(2, b)) = {[m EXCEPT !["token"] = b]}
    /\ \A f \in Either :
         SetTokenStep({m}, f) = IF f.num \in {1, 2} THEN {} ELSE {FSetToken!Extended(m, <<f>>)}
<1> SUFFICES ASSUME NEW m \in SetTokenMsg
             PROVE  /\ \A n \in Int : SetTokenStep({m}, IntField(n)) = {[m EXCEPT !["platform"] = n]}
                    /\ \A b \in Blob : SetTokenStep({m}, BytesField(2, b)) = {[m EXCEPT !["token"] = b]}
                    /\ \A f \in Either :
                         SetTokenStep({m}, f) =
                           IF f.num \in {1, 2} THEN {} ELSE {FSetToken!Extended(m, <<f>>)}
  OBVIOUS
<1>1. \A f : SetTokenStep({m}, f) = ReadSetTokenRequest(m, f)
  BY SetTokenFold
<1>2. ASSUME NEW n \in Int PROVE ReadSetTokenRequest(m, IntField(n)) = {[m EXCEPT !["platform"] = n]}
  BY IntTaken DEF ReadSetTokenRequest
<1>3. ASSUME NEW b \in Blob PROVE ReadSetTokenRequest(m, BytesField(2, b)) = {[m EXCEPT !["token"] = b]}
  BY BytesTaken DEF ReadSetTokenRequest
<1>4. ASSUME NEW f \in Either, f.num \in {1, 2} PROVE ReadSetTokenRequest(m, f) = {}
  <2>1. TakeUnknown(m, f, {1, 2}) = {}
    BY <1>4, KnownTaken
  <2>2. TakeInt(m, f, 1, "platform") = {} /\ TakeBytes(m, f, 2, "token") = {}
    BY <1>4, RetypedRefused
  <2> QED BY <2>1, <2>2 DEF ReadSetTokenRequest
<1>5. ASSUME NEW f \in Either, f.num \notin {1, 2}
      PROVE  ReadSetTokenRequest(m, f) = {FSetToken!Extended(m, <<f>>)}
  <2>1. TakeUnknown(m, f, {1, 2}) = {Appended(m, f)}
    BY <1>5, UnknownTaken DEF Appended
  <2>2. TakeInt(m, f, 1, "platform") = {} /\ TakeBytes(m, f, 2, "token") = {}
    BY <1>5, OtherNumber
  <2>3. m.unknownFields \in Seq(Either)
    BY DEF SetTokenMsg
  <2>4. Appended(m, f) = FSetToken!Extended(m, <<f>>)
    BY <2>3, AppendedIs DEF FSetToken!Extended
  <2> QED BY <2>1, <2>2, <2>4 DEF ReadSetTokenRequest
<1>6. \A f \in Either :
        ReadSetTokenRequest(m, f) =
          IF f.num \in {1, 2} THEN {} ELSE {FSetToken!Extended(m, <<f>>)}
  BY <1>4, <1>5
<1> QED
  BY <1>1, <1>2, <1>3, <1>6

\* SetTokenRequest is a codec in the sense of FoldFacts.
LEMMA SetTokenCodec ==
  /\ FSetToken!Codec(SetTokenMsg, Either, SetTokenParts, NewField)
  /\ \A f \in Either : FSetToken!Takes(SetTokenMsg, f) \/ FSetToken!Refuses(SetTokenMsg, f)
<1>1. FSetToken!Known(SetTokenMsg, Either)
  BY DEF FSetToken!Known, FSetToken!Replaced, SetTokenMsg
<1>2. \A m \in SetTokenMsg, f \in NewField : SetTokenStep({m}, f) = {FSetToken!Extended(m, <<f>>)}
  <2>1. \A f \in NewField : f \in Either /\ f.num \notin {1, 2}
    BY RpcAssumption DEF Either, Legal
  <2> QED BY <2>1, SetTokenReads
<1>3. ASSUME NEW f \in SetTokenParts \ NewField PROVE FSetToken!Sets(SetTokenMsg, Either, f)
  <2>1. ASSUME NEW n \in Int, f = IntField(n)
        PROVE  FSetToken!SetsTo(SetTokenMsg, f, "platform", n)
    BY <2>1, SetTokenReads DEF FSetToken!SetsTo, SetTokenMsg
  <2>2. ASSUME NEW b \in Blob, f = BytesField(2, b)
        PROVE  FSetToken!SetsTo(SetTokenMsg, f, "token", b)
    BY <2>2, SetTokenReads DEF FSetToken!SetsTo, SetTokenMsg
  <2>3. \E name, v : FSetToken!SetsTo(SetTokenMsg, f, name, v)
    BY <2>1, <2>2 DEF SetTokenParts
  <2> QED BY <1>1, <2>3, FSetToken!SetsOf
<1>4. FSetToken!Pointwise /\ NewField \subseteq Either
  BY SetTokenFold, EitherSeq
<1>5. FSetToken!Codec(SetTokenMsg, Either, SetTokenParts, NewField)
  BY <1>1, <1>2, <1>3, <1>4, FSetToken!CodecOf
<1>6. ASSUME NEW f \in Either PROVE FSetToken!Takes(SetTokenMsg, f) \/ FSetToken!Refuses(SetTokenMsg, f)
  BY SetTokenReads DEF FSetToken!Takes, FSetToken!Refuses
<1> QED
  BY <1>5, <1>6

\* A SetTokenRequest is read back, also with a field of another release in it.
LEMMA SetTokenRead ==
  \A m \in Message("SetTokenRequest") :
    FSetToken!ReadAs(SetTokenRequest0, MarshalSetTokenRequest(m), m, Either, NewField)
<1> SUFFICES ASSUME NEW m \in Message("SetTokenRequest")
             PROVE  FSetToken!ReadAs(SetTokenRequest0, MarshalSetTokenRequest(m), m, Either, NewField)
  OBVIOUS
<1>1. m \in [platform : Int, token : Blob, unknownFields : Seq(NewField)]
  BY DEF Message
<1>2. m \in SetTokenMsg
  BY <1>1, EitherSeq DEF SetTokenMsg
<1>3. PICK a, b, c : a = PutInt(1, m.platform) /\ b = PutBytes(2, m.token) /\ c = m.unknownFields
  OBVIOUS
<1>4. PICK m0, m1, m2 : /\ m0 = SetTokenRequest0
                        /\ m1 = [m0 EXCEPT !.platform = m.platform]
                        /\ m2 = [m1 EXCEPT !.token = m.token]
  OBVIOUS
<1>5. m0 = [platform |-> 0, token |-> Empty, unknownFields |-> <<>>]
  BY <1>4 DEF SetTokenRequest0
<1>6. /\ m1 = [platform |-> m.platform, token |-> Empty, unknownFields |-> <<>>]
      /\ m2 = [platform |-> m.platform, token |-> m.token, unknownFields |-> <<>>]
  <2>1. m1 = [platform |-> m.platform, token |-> Empty, unknownFields |-> <<>>]
    BY <1>4, <1>5
  <2>2. PICK v : v = m.token
    OBVIOUS
  <2>3. m2 = [m1 EXCEPT !.token = v]
    BY <1>4, <2>2
  <2>4. m2 = [platform |-> m.platform, token |-> v, unknownFields |-> <<>>]
    BY <2>1, <2>3
  <2> QED BY <2>1, <2>2, <2>4
<1>7. m0 \in SetTokenMsg /\ m1 \in SetTokenMsg /\ m2 \in SetTokenMsg
  BY <1>1, <1>5, <1>6, ApiAssumption DEF SetTokenMsg
<1>8. /\ a \in Seq(SetTokenParts) /\ b \in Seq(SetTokenParts) /\ c \in Seq(SetTokenParts)
  <2>1. a \in Seq({IntField(n) : n \in Int})
    BY <1>1, <1>3, PutIntSize
  <2>2. b \in Seq(BytesFields({2}))
    BY <1>1, <1>3, PutBytesSize
  <2>3. BytesFields({2}) \subseteq SetTokenParts
    BY DEF BytesFields, SetTokenParts, BytesField
  <2>4. c \in Seq(NewField)
    BY <1>1, <1>3
  <2>5. {IntField(n) : n \in Int} \subseteq SetTokenParts /\ NewField \subseteq SetTokenParts
    BY DEF SetTokenParts
  <2> QED BY <2>1, <2>2, <2>3, <2>4, <2>5, SeqMonotonic
<1>9. FSetToken!Fold({m0}, a) = {m1}
  <2>1. CASE m.platform = 0
    BY <1>3, <1>5, <1>6, <2>1, FSetToken!FoldEmpty DEF PutInt
  <2>2. CASE m.platform # 0
    <3>1. a = <<IntField(m.platform)>>
      BY <1>3, <2>2 DEF PutInt, IntField
    <3>2. SetTokenStep({m0}, IntField(m.platform)) = {m1}
      BY <1>1, <1>4, <1>7, SetTokenReads
    <3> QED BY <3>1, <3>2, FSetToken!FoldOne
  <2> QED BY <2>1, <2>2
<1>10. FSetToken!Fold({m1}, b) = {m2}
  <2>1. CASE m.token = Empty
    BY <1>3, <1>6, <2>1, FSetToken!FoldEmpty DEF PutBytes
  <2>2. CASE m.token # Empty
    <3>1. b = <<BytesField(2, m.token)>>
      BY <1>3, <2>2 DEF PutBytes, BytesField
    <3>2. SetTokenStep({m1}, BytesField(2, m.token)) = {m2}
      BY <1>1, <1>4, <1>7, SetTokenReads
    <3> QED BY <3>1, <3>2, FSetToken!FoldOne
  <2> QED BY <2>1, <2>2
<1>11. FSetToken!Fold({m2}, c) = {m}
  <2>1. FSetToken!Fold({m2}, c) = {FSetToken!Extended(m2, c)}
    BY <1>1, <1>3, <1>7, SetTokenCodec, FSetToken!CodecKept
  <2>2. <<>> \o c = c
    BY <1>1, <1>3
  <2>3. [m2 EXCEPT !.unknownFields = c] = m
    BY <1>1, <1>3, <1>6
  <2> QED BY <1>6, <2>1, <2>2, <2>3 DEF FSetToken!Extended
<1>12. MarshalSetTokenRequest(m) = a \o b \o c /\ a \o b \in Seq(SetTokenParts)
       /\ a \o b \o c \in Seq(SetTokenParts)
  BY <1>3, <1>8 DEF MarshalSetTokenRequest
<1>13. FSetToken!Fold({m0}, a \o b \o c) = {m}
  <2>1. FSetToken!Fold({m0}, a \o b) = {m2}
    <3>1. FSetToken!Fold({m0}, a \o b) = FSetToken!Fold(FSetToken!Fold({m0}, a), b)
      BY <1>8, FSetToken!FoldConcat
    <3> QED BY <1>9, <1>10, <3>1
  <2>2. FSetToken!Fold({m0}, a \o b \o c) = FSetToken!Fold(FSetToken!Fold({m0}, a \o b), c)
    BY <1>8, <1>12, FSetToken!FoldConcat
  <2> QED BY <1>11, <2>1, <2>2
<1> QED
  BY <1>2, <1>4, <1>7, <1>12, <1>13, SetTokenCodec, FSetToken!ReadEither

-----------------------------------------------------------------------------
\* CreateSpaceRequest and RemoveSpaceRequest.
SpaceMsg == [spaceKey : Blob, accountSignature : Blob, unknownFields : Seq(Either)]
SpaceParts == {BytesField(1, b) : b \in Blob} \cup {BytesField(2, b) : b \in Blob} \cup NewField

\* The step of a request about a space.
LEMMA SpaceReads ==
  \A m \in SpaceMsg :
    /\ \A b \in Blob : SpaceStep({m}, BytesField(1, b)) = {[m EXCEPT !["spaceKey"] = b]}
    /\ \A b \in Blob : SpaceStep({m}, BytesField(2, b)) = {[m EXCEPT !["accountSignature"] = b]}
    /\ \A f \in Either :
         SpaceStep({m}, f) = IF f.num \in {1, 2} THEN {} ELSE {FSpace!Extended(m, <<f>>)}
<1> SUFFICES ASSUME NEW m \in SpaceMsg
             PROVE  /\ \A b \in Blob : SpaceStep({m}, BytesField(1, b)) = {[m EXCEPT !["spaceKey"] = b]}
                    /\ \A b \in Blob :
                         SpaceStep({m}, BytesField(2, b)) = {[m EXCEPT !["accountSignature"] = b]}
                    /\ \A f \in Either :
                         SpaceStep({m}, f) =
                           IF f.num \in {1, 2} THEN {} ELSE {FSpace!Extended(m, <<f>>)}
  OBVIOUS
<1>1. \A f : SpaceStep({m}, f) = ReadSpaceRequest(m, f)
  BY SpaceFold
<1>2. ASSUME NEW b \in Blob PROVE ReadSpaceRequest(m, BytesField(1, b)) = {[m EXCEPT !["spaceKey"] = b]}
  BY BytesTaken DEF ReadSpaceRequest
<1>3. ASSUME NEW b \in Blob
      PROVE  ReadSpaceRequest(m, BytesField(2, b)) = {[m EXCEPT !["accountSignature"] = b]}
  BY BytesTaken DEF ReadSpaceRequest
<1>4. ASSUME NEW f \in Either, f.num \in {1, 2} PROVE ReadSpaceRequest(m, f) = {}
  <2>1. TakeUnknown(m, f, {1, 2}) = {}
    BY <1>4, KnownTaken
  <2>2. TakeBytes(m, f, 1, "spaceKey") = {} /\ TakeBytes(m, f, 2, "accountSignature") = {}
    BY <1>4, RetypedRefused
  <2> QED BY <2>1, <2>2 DEF ReadSpaceRequest
<1>5. ASSUME NEW f \in Either, f.num \notin {1, 2}
      PROVE  ReadSpaceRequest(m, f) = {FSpace!Extended(m, <<f>>)}
  <2>1. TakeUnknown(m, f, {1, 2}) = {Appended(m, f)}
    BY <1>5, UnknownTaken DEF Appended
  <2>2. TakeBytes(m, f, 1, "spaceKey") = {} /\ TakeBytes(m, f, 2, "accountSignature") = {}
    BY <1>5, OtherNumber
  <2>3. m.unknownFields \in Seq(Either)
    BY DEF SpaceMsg
  <2>4. Appended(m, f) = FSpace!Extended(m, <<f>>)
    BY <2>3, AppendedIs DEF FSpace!Extended
  <2> QED BY <2>1, <2>2, <2>4 DEF ReadSpaceRequest
<1>6. \A f \in Either :
        ReadSpaceRequest(m, f) = IF f.num \in {1, 2} THEN {} ELSE {FSpace!Extended(m, <<f>>)}
  BY <1>4, <1>5
<1> QED
  BY <1>1, <1>2, <1>3, <1>6

\* It is a codec in the sense of FoldFacts.
LEMMA SpaceCodec ==
  /\ FSpace!Codec(SpaceMsg, Either, SpaceParts, NewField)
  /\ \A f \in Either : FSpace!Takes(SpaceMsg, f) \/ FSpace!Refuses(SpaceMsg, f)
<1>1. FSpace!Known(SpaceMsg, Either)
  BY DEF FSpace!Known, FSpace!Replaced, SpaceMsg
<1>2. \A m \in SpaceMsg, f \in NewField : SpaceStep({m}, f) = {FSpace!Extended(m, <<f>>)}
  <2>1. \A f \in NewField : f \in Either /\ f.num \notin {1, 2}
    BY RpcAssumption DEF Either, Legal
  <2> QED BY <2>1, SpaceReads
<1>3. ASSUME NEW f \in SpaceParts \ NewField PROVE FSpace!Sets(SpaceMsg, Either, f)
  <2>1. ASSUME NEW b \in Blob, f = BytesField(1, b)
        PROVE  FSpace!SetsTo(SpaceMsg, f, "spaceKey", b)
    BY <2>1, SpaceReads DEF FSpace!SetsTo, SpaceMsg
  <2>2. ASSUME NEW b \in Blob, f = BytesField(2, b)
        PROVE  FSpace!SetsTo(SpaceMsg, f, "accountSignature", b)
    BY <2>2, SpaceReads DEF FSpace!SetsTo, SpaceMsg
  <2>3. \E name, v : FSpace!SetsTo(SpaceMsg, f, name, v)
    BY <2>1, <2>2 DEF SpaceParts
  <2> QED BY <1>1, <2>3, FSpace!SetsOf
<1>4. FSpace!Pointwise /\ NewField \subseteq Either
  BY SpaceFold, EitherSeq
<1>5. FSpace!Codec(SpaceMsg, Either, SpaceParts, NewField)
  BY <1>1, <1>2, <1>3, <1>4, FSpace!CodecOf
<1>6. ASSUME NEW f \in Either PROVE FSpace!Takes(SpaceMsg, f) \/ FSpace!Refuses(SpaceMsg, f)
  BY SpaceReads DEF FSpace!Takes, FSpace!Refuses
<1> QED
  BY <1>5, <1>6

\* A request about a space is read back, also with a field of another release in it.
LEMMA SpaceRead ==
  \A m \in Message("CreateSpaceRequest") :
    /\ FSpace!ReadAs(CreateSpaceRequest0, MarshalCreateSpaceRequest(m), m, Either, NewField)
    /\ FSpace!ReadAs(RemoveSpaceRequest0, MarshalRemoveSpaceRequest(m), m, Either, NewField)
<1> SUFFICES ASSUME NEW m \in Message("CreateSpaceRequest")
             PROVE  FSpace!ReadAs(CreateSpaceRequest0, MarshalCreateSpaceRequest(m), m, Either, NewField)
  BY DEF CreateSpaceRequest0, RemoveSpaceRequest0, MarshalCreateSpaceRequest, MarshalRemoveSpaceRequest
<1>1. m \in [spaceKey : Blob, accountSignature : Blob, unknownFields : Seq(NewField)]
  BY DEF Message
<1>2. m \in SpaceMsg
  BY <1>1, EitherSeq DEF SpaceMsg
<1>3. PICK a, b, c : /\ a = PutBytes(1, m.spaceKey) /\ b = PutBytes(2, m.accountSignature)
                     /\ c = m.unknownFields
  OBVIOUS
<1>4. PICK m0, m1, m2 : /\ m0 = CreateSpaceRequest0
                        /\ m1 = [m0 EXCEPT !.spaceKey = m.spaceKey]
                        /\ m2 = [m1 EXCEPT !.accountSignature = m.accountSignature]
  OBVIOUS
<1>5. m0 = [spaceKey |-> Empty, accountSignature |-> Empty, unknownFields |-> <<>>]
  BY <1>4 DEF CreateSpaceRequest0
<1>6. /\ m1 = [spaceKey |-> m.spaceKey, accountSignature |-> Empty, unknownFields |-> <<>>]
      /\ m2 = [spaceKey |-> m.spaceKey, accountSignature |-> m.accountSignature,
               unknownFields |-> <<>>]
  <2>1. m1 = [spaceKey |-> m.spaceKey, accountSignature |-> Empty, unknownFields |-> <<>>]
    BY <1>4, <1>5
  <2>2. PICK v : v = m.accountSignature
    OBVIOUS
  <2>3. m2 = [m1 EXCEPT !.accountSignature = v]
    BY <1>4, <2>2
  <2>4. m2 = [spaceKey |-> m.spaceKey, accountSignature |-> v,
              unknownFields |-> <<>>]
    BY <2>1, <2>3
  <2> QED BY <2>1, <2>2, <2>4
<1>7. m0 \in SpaceMsg /\ m1 \in SpaceMsg /\ m2 \in SpaceMsg
  BY <1>1, <1>5, <1>6, ApiAssumption DEF SpaceMsg
<1>8. /\ a \in Seq(SpaceParts) /\ b \in Seq(SpaceParts) /\ c \in Seq(SpaceParts)
  <2>1. a \in Seq(BytesFields({1})) /\ b \in Seq(BytesFields({2}))
    BY <1>1, <1>3, PutBytesSize
  <2>2. BytesFields({1}) \subseteq SpaceParts /\ BytesFields({2}) \subseteq SpaceParts
    BY DEF BytesFields, SpaceParts, BytesField
  <2>3. c \in Seq(NewField) /\ NewField \subseteq SpaceParts
    BY <1>1, <1>3 DEF SpaceParts
  <2> QED BY <2>1, <2>2, <2>3, SeqMonotonic
<1>9. FSpace!Fold({m0}, a) = {m1}
  <2>1. CASE m.spaceKey = Empty
    BY <1>3, <1>5, <1>6, <2>1, FSpace!FoldEmpty DEF PutBytes
  <2>2. CASE m.spaceKey # Empty
    <3>1. a = <<BytesField(1, m.spaceKey)>>
      BY <1>3, <2>2 DEF PutBytes, BytesField
    <3>2. SpaceStep({m0}, BytesField(1, m.spaceKey)) = {m1}
      BY <1>1, <1>4, <1>7, SpaceReads
    <3> QED BY <3>1, <3>2, FSpace!FoldOne
  <2> QED BY <2>1, <2>2
<1>10. FSpace!Fold({m1}, b) = {m2}
  <2>1. CASE m.accountSignature = Empty
    BY <1>3, <1>6, <2>1, FSpace!FoldEmpty DEF PutBytes
  <2>2. CASE m.accountSignature # Empty
    <3>1. b = <<BytesField(2, m.accountSignature)>>
      BY <1>3, <2>2 DEF PutBytes, BytesField
    <3>2. SpaceStep({m1}, BytesField(2, m.accountSignature)) = {m2}
      BY <1>1, <1>4, <1>7, SpaceReads
    <3> QED BY <3>1, <3>2, FSpace!FoldOne
  <2> QED BY <2>1, <2>2
<1>11. FSpace!Fold({m2}, c) = {m}
  <2>1. FSpace!Fold({m2}, c) = {FSpace!Extended(m2, c)}
    BY <1>1, <1>3, <1>7, SpaceCodec, FSpace!CodecKept
  <2>2. <<>> \o c = c
    BY <1>1, <1>3
  <2>3. [m2 EXCEPT !.unknownFields = c] = m
    BY <1>1, <1>3, <1>6
  <2> QED BY <1>6, <2>1, <2>2, <2>3 DEF FSpace!Extended
<1>12. MarshalCreateSpaceRequest(m) = a \o b \o c /\ a \o b \in Seq(SpaceParts)
       /\ a \o b \o c \in Seq(SpaceParts)
  BY <1>3, <1>8 DEF MarshalCreateSpaceRequest
<1>13. FSpace!Fold({m0}, a \o b \o c) = {m}
  <2>1. FSpace!Fold({m0}, a \o b) = {m2}
    <3>1. FSpace!Fold({m0}, a \o b) = FSpace!Fold(FSpace!Fold({m0}, a), b)
      BY <1>8, FSpace!FoldConcat
    <3> QED BY <1>9, <1>10, <3>1
  <2>2. FSpace!Fold({m0}, a \o b \o c) = FSpace!Fold(FSpace!Fold({m0}, a \o b), c)
    BY <1>8, <1>12, FSpace!FoldConcat
  <2> QED BY <1>11, <2>1, <2>2
<1> QED
  BY <1>2, <1>4, <1>7, <1>12, <1>13, SpaceCodec, FSpace!ReadEither

-----------------------------------------------------------------------------
\* Ok and SubscriptionsRequest.
UnknownMsg == [unknownFields : Seq(Either)]

\* The step of a type without fields: everything is kept.
LEMMA UnknownReads ==
  \A m \in UnknownMsg : \A f \in Either : UnknownStep({m}, f) = {FUnknown!Extended(m, <<f>>)}
<1> SUFFICES ASSUME NEW m \in UnknownMsg, NEW f \in Either
             PROVE  UnknownStep({m}, f) = {FUnknown!Extended(m, <<f>>)}
  OBVIOUS
<1>1. UnknownStep({m}, f) = {Appended(m, f)}
  BY UnknownFold, UnknownTaken DEF ReadUnknown, Appended
<1>2. m.unknownFields \in Seq(Either)
  BY DEF UnknownMsg
<1>3. Appended(m, f) = FUnknown!Extended(m, <<f>>)
  BY <1>2, AppendedIs DEF FUnknown!Extended
<1> QED
  BY <1>1, <1>3

\* It is a codec in the sense of FoldFacts.
LEMMA UnknownCodec ==
  /\ FUnknown!Codec(UnknownMsg, Either, NewField, NewField)
  /\ \A f \in Either : FUnknown!Takes(UnknownMsg, f) \/ FUnknown!Refuses(UnknownMsg, f)
<1>1. FUnknown!Known(UnknownMsg, Either)
  BY DEF FUnknown!Known, FUnknown!Replaced, UnknownMsg
<1>2. \A m \in UnknownMsg, f \in NewField : UnknownStep({m}, f) = {FUnknown!Extended(m, <<f>>)}
  BY EitherSeq, UnknownReads
<1>3. FUnknown!Pointwise /\ NewField \subseteq Either
  BY UnknownFold, EitherSeq
<1>4. FUnknown!Codec(UnknownMsg, Either, NewField, NewField)
  BY <1>1, <1>2, <1>3, FUnknown!CodecOf
<1>5. ASSUME NEW f \in Either PROVE FUnknown!Takes(UnknownMsg, f)
  BY UnknownReads DEF FUnknown!Takes
<1> QED
  BY <1>4, <1>5

\* Ok is read back, also with a field of another release in it.
LEMMA UnknownRead ==
  \A m \in Message("Ok") :
    /\ FUnknown!ReadAs(Ok0, MarshalOk(m), m, Either, NewField)
    /\ FUnknown!ReadAs(SubscriptionsRequest0, MarshalSubscriptionsRequest(m), m, Either, NewField)
<1> SUFFICES ASSUME NEW m \in Message("Ok")
             PROVE  FUnknown!ReadAs(Ok0, MarshalOk(m), m, Either, NewField)
  BY DEF Ok0, SubscriptionsRequest0, MarshalOk, MarshalSubscriptionsRequest
<1>1. m \in [unknownFields : Seq(NewField)]
  BY DEF Message
<1>2. m \in UnknownMsg
  BY <1>1, EitherSeq DEF UnknownMsg
<1>3. PICK m0, c : m0 = Ok0 /\ c = m.unknownFields
  OBVIOUS
<1>4. m0 \in UnknownMsg /\ m0 = [unknownFields |-> <<>>]
  BY <1>3 DEF UnknownMsg, Ok0
<1>5. FUnknown!Fold({m0}, c) = {m}
  <2>1. FUnknown!Fold({m0}, c) = {FUnknown!Extended(m0, c)}
    BY <1>1, <1>3, <1>4, UnknownCodec, FUnknown!CodecKept
  <2>2. <<>> \o c = c
    BY <1>1, <1>3
  <2>3. [m0 EXCEPT !.unknownFields = c] = m
    BY <1>1, <1>3, <1>4
  <2> QED BY <1>4, <2>1, <2>2, <2>3 DEF FUnknown!Extended
<1>6. MarshalOk(m) = c /\ c \in Seq(NewField)
  BY <1>1, <1>3 DEF MarshalOk
<1> QED
  BY <1>2, <1>3, <1>4, <1>5, <1>6, UnknownCodec, FUnknown!ReadEither

-----------------------------------------------------------------------------
\* The messages that have an optional Topics.
TopicsOf(t) == Delimited(1, WireSize(MarshalTopics(t)), MarshalTopics(t))
NextTopics(ts, t) == JoinedTopics(IF ts = <<>> THEN Topics0 ELSE ts[1], t)

\* One message is an optional one.
LEMMA OptionalOne == \A S : \A x \in S : <<x>> \in AtMostOne(S)
BY DEF AtMostOne

\* What the cases of a switch make of a Topics.
LEMMA TopicsTaken ==
  \A t \in Topics :
    /\ \A m : m.topics \in AtMostOne(Topics) =>
         /\ TakeOptionalTopics(m, TopicsOf(t)) =
              {[m EXCEPT !["topics"] = <<NextTopics(m.topics, t)>>]}
         /\ <<NextTopics(m.topics, t)>> \in AtMostOne(Topics)
    /\ \A m, num, name, ns : num # 1 => TakeOptional(m, TopicsOf(t), num, name, ns) = {}
    /\ \A m, num, name : num # 1 => TakeBytes(m, TopicsOf(t), num, name) = {}
    /\ \A m, known : 1 \in known => TakeUnknown(m, TopicsOf(t), known) = {}
<1> SUFFICES ASSUME NEW t \in Topics
             PROVE  /\ \A m : m.topics \in AtMostOne(Topics) =>
                         /\ TakeOptionalTopics(m, TopicsOf(t)) =
                              {[m EXCEPT !["topics"] = <<NextTopics(m.topics, t)>>]}
                         /\ <<NextTopics(m.topics, t)>> \in AtMostOne(Topics)
                    /\ \A m, num, name, ns : num # 1 => TakeOptional(m, TopicsOf(t), num, name, ns) = {}
                    /\ \A m, num, name : num # 1 => TakeBytes(m, TopicsOf(t), num, name) = {}
                    /\ \A m, known : 1 \in known => TakeUnknown(m, TopicsOf(t), known) = {}
  OBVIOUS
<1>1. PICK f : f = TopicsOf(t)
  OBVIOUS
<1>2. f.num = 1 /\ f.type = DelimitedType /\ f.value = MarshalTopics(t)
  BY <1>1 DEF TopicsOf, Delimited
<1>3. ASSUME NEW m, m.topics \in AtMostOne(Topics)
      PROVE  /\ TakeOptionalTopics(m, f) = {[m EXCEPT !["topics"] = <<NextTopics(m.topics, t)>>]}
             /\ <<NextTopics(m.topics, t)>> \in AtMostOne(Topics)
  <2>1. PICK p : p = IF m.topics = <<>> THEN Topics0 ELSE m.topics[1]
    OBVIOUS
  <2>2. p \in Topics
    <3>1. CASE m.topics = <<>>
      BY <2>1, <3>1, TopicsRead
    <3>2. CASE m.topics # <<>>
      <4>1. PICK x \in Topics : m.topics = <<x>>
        BY <1>3, <3>2, AtMostOneIs
      <4> QED BY <2>1, <3>2, <4>1
    <3> QED BY <3>1, <3>2
  <2>3. UnmarshalTopics(f.value, p) = {JoinedTopics(p, t)} /\ JoinedTopics(p, t) \in Topics
    BY <1>2, <2>2, TopicsRead
  <2>4. Previous(m, "topics", Topics0) = p
    BY <2>1 DEF Previous
  <2>5. TakeOptional(m, f, 1, "topics", {JoinedTopics(p, t)}) =
          {[m EXCEPT !["topics"] = <<JoinedTopics(p, t)>>]}
    BY <1>2 DEF TakeOptional
  <2>6. JoinedTopics(p, t) = NextTopics(m.topics, t)
    BY <2>1 DEF NextTopics
  <2>7. <<JoinedTopics(p, t)>> \in AtMostOne(Topics)
    BY <2>3, OptionalOne
  <2> QED BY <2>3, <2>4, <2>5, <2>6, <2>7 DEF TakeOptionalTopics
<1>4. \A m, num, name, ns : num # 1 => TakeOptional(m, f, num, name, ns) = {}
  BY <1>2 DEF TakeOptional
<1>5. \A m, num, name : num # 1 => TakeBytes(m, f, num, name) = {}
  BY <1>2 DEF TakeBytes
<1>6. \A m, known : 1 \in known => TakeUnknown(m, f, known) = {}
  BY <1>2, KnownTaken
<1> QED
  BY <1>1, <1>3, <1>4, <1>5, <1>6

OptionalMsg == [topics : AtMostOne(Topics), unknownFields : Seq(Either)]
OptionalPartsOf == {TopicsOf(t) : t \in Topics} \cup NewField

\* The step of a type with a Topics alone.
LEMMA OptionalReads ==
  \A m \in OptionalMsg :
    /\ \A t \in Topics :
         /\ OptionalTopicsStep({m}, TopicsOf(t)) =
              {[m EXCEPT !["topics"] = <<NextTopics(m.topics, t)>>]}
         /\ [m EXCEPT !["topics"] = <<NextTopics(m.topics, t)>>] \in OptionalMsg
    /\ \A f \in Either :
         OptionalTopicsStep({m}, f) = IF f.num \in {1} THEN {} ELSE {FOptional!Extended(m, <<f>>)}
<1> SUFFICES ASSUME NEW m \in OptionalMsg
             PROVE  /\ \A t \in Topics :
                         /\ OptionalTopicsStep({m}, TopicsOf(t)) =
                              {[m EXCEPT !["topics"] = <<NextTopics(m.topics, t)>>]}
                         /\ [m EXCEPT !["topics"] = <<NextTopics(m.topics, t)>>] \in OptionalMsg
                    /\ \A f \in Either :
                         OptionalTopicsStep({m}, f) =
                           IF f.num \in {1} THEN {} ELSE {FOptional!Extended(m, <<f>>)}
  OBVIOUS
<1>1. \A f : OptionalTopicsStep({m}, f) = ReadOptionalTopics(m, f)
  BY OptionalTopicsFold
<1>2. m.topics \in AtMostOne(Topics) /\ m.unknownFields \in Seq(Either)
  BY DEF OptionalMsg
<1>3. ASSUME NEW t \in Topics
      PROVE  /\ ReadOptionalTopics(m, TopicsOf(t)) =
                  {[m EXCEPT !["topics"] = <<NextTopics(m.topics, t)>>]}
             /\ [m EXCEPT !["topics"] = <<NextTopics(m.topics, t)>>] \in OptionalMsg
  <2>1. /\ TakeOptionalTopics(m, TopicsOf(t)) =
             {[m EXCEPT !["topics"] = <<NextTopics(m.topics, t)>>]}
        /\ <<NextTopics(m.topics, t)>> \in AtMostOne(Topics)
    BY <1>2, TopicsTaken
  <2>2. TakeUnknown(m, TopicsOf(t), {1}) = {}
    BY TopicsTaken
  <2>3. ReadOptionalTopics(m, TopicsOf(t)) = {[m EXCEPT !["topics"] = <<NextTopics(m.topics, t)>>]}
    BY <2>1, <2>2 DEF ReadOptionalTopics
  <2>4. PICK v \in AtMostOne(Topics) : v = <<NextTopics(m.topics, t)>>
    BY <2>1
  <2>5. [m EXCEPT !["topics"] = v] \in OptionalMsg
    BY DEF OptionalMsg
  <2> QED BY <2>3, <2>4, <2>5
<1>4. ASSUME NEW f \in Either, f.num = 1 PROVE ReadOptionalTopics(m, f) = {}
  <2>1. TakeUnknown(m, f, {1}) = {}
    BY <1>4, KnownTaken
  <2>2. \A ns : TakeOptional(m, f, 1, "topics", ns) = {}
    BY <1>4, RetypedRefused
  <2> QED BY <2>1, <2>2 DEF ReadOptionalTopics, TakeOptionalTopics
<1>5. ASSUME NEW f \in Either, f.num # 1
      PROVE  ReadOptionalTopics(m, f) = {FOptional!Extended(m, <<f>>)}
  <2>1. TakeUnknown(m, f, {1}) = {Appended(m, f)}
    BY <1>5, UnknownTaken DEF Appended
  <2>2. \A ns : TakeOptional(m, f, 1, "topics", ns) = {}
    BY <1>5, OtherNumber
  <2>3. Appended(m, f) = FOptional!Extended(m, <<f>>)
    BY <1>2, AppendedIs DEF FOptional!Extended
  <2> QED BY <2>1, <2>2, <2>3 DEF ReadOptionalTopics, TakeOptionalTopics
<1>6. \A f \in Either :
        ReadOptionalTopics(m, f) = IF f.num \in {1} THEN {} ELSE {FOptional!Extended(m, <<f>>)}
  BY <1>4, <1>5
<1> QED
  BY <1>1, <1>3, <1>6

\* It is a codec in the sense of FoldFacts.
LEMMA OptionalCodec ==
  /\ FOptional!Codec(OptionalMsg, Either, OptionalPartsOf, NewField)
  /\ \A f \in Either : FOptional!Takes(OptionalMsg, f) \/ FOptional!Refuses(OptionalMsg, f)
<1>1. FOptional!Known(OptionalMsg, Either)
  BY DEF FOptional!Known, FOptional!Replaced, OptionalMsg
<1>2. \A m \in OptionalMsg, f \in NewField : OptionalTopicsStep({m}, f) = {FOptional!Extended(m, <<f>>)}
  <2>1. \A f \in NewField : f \in Either /\ f.num \notin {1}
    BY RpcAssumption DEF Either, Legal
  <2> QED BY <2>1, OptionalReads
<1>3. ASSUME NEW t \in Topics PROVE FOptional!Sets(OptionalMsg, Either, TopicsOf(t))
  <2> SUFFICES ASSUME NEW m \in OptionalMsg
               PROVE  \E name \in DOMAIN m \ {"unknownFields"} : \E v :
                        /\ [m EXCEPT ![name] = v] \in OptionalMsg
                        /\ \A u \in Seq(Either) :
                             OptionalTopicsStep({FOptional!Replaced(m, u)}, TopicsOf(t)) =
                               {[FOptional!Replaced(m, u) EXCEPT ![name] = v]}
    BY DEF FOptional!Sets
  <2>1. PICK v : v = <<NextTopics(m.topics, t)>>
    OBVIOUS
  <2>2. [m EXCEPT !["topics"] = v] \in OptionalMsg
    BY <2>1, OptionalReads
  <2>3. \A u \in Seq(Either) :
          OptionalTopicsStep({FOptional!Replaced(m, u)}, TopicsOf(t)) =
            {[FOptional!Replaced(m, u) EXCEPT !["topics"] = v]}
    <3> SUFFICES ASSUME NEW u \in Seq(Either)
                 PROVE  OptionalTopicsStep({FOptional!Replaced(m, u)}, TopicsOf(t)) =
                          {[FOptional!Replaced(m, u) EXCEPT !["topics"] = v]}
      OBVIOUS
    <3>1. PICK p : p = FOptional!Replaced(m, u)
      OBVIOUS
    <3>2. p \in OptionalMsg
      BY <1>1, <3>1 DEF FOptional!Known
    <3>3. p.topics = m.topics
      BY <3>1 DEF FOptional!Replaced, OptionalMsg
    <3> QED BY <2>1, <3>1, <3>2, <3>3, OptionalReads
  <2>4. "topics" \in DOMAIN m \ {"unknownFields"}
    BY DEF OptionalMsg
  <2> QED BY <2>2, <2>3, <2>4
<1>4. \A f \in OptionalPartsOf \ NewField : FOptional!Sets(OptionalMsg, Either, f)
  BY <1>3 DEF OptionalPartsOf
<1>5. FOptional!Pointwise /\ NewField \subseteq Either
  BY OptionalTopicsFold, EitherSeq
<1>6. FOptional!Codec(OptionalMsg, Either, OptionalPartsOf, NewField)
  BY <1>1, <1>2, <1>4, <1>5, FOptional!CodecOf
<1>7. ASSUME NEW f \in Either PROVE FOptional!Takes(OptionalMsg, f) \/ FOptional!Refuses(OptionalMsg, f)
  BY OptionalReads DEF FOptional!Takes, FOptional!Refuses
<1> QED
  BY <1>6, <1>7

\* An optional Topics is read as it was, from nothing.
LEMMA NextTopicsIs == \A t \in Topics : NextTopics(<<>>, t) = t
BY TopicsRead DEF NextTopics

\* A message with a Topics alone is read back, also with a field of another release in it.
LEMMA OptionalRead ==
  \A m \in Message("SubscribeRequest") :
    FOptional!ReadAs(SubscribeRequest0, MarshalSubscribeRequest(m), m, Either, NewField)
<1> SUFFICES ASSUME NEW m \in Message("SubscribeRequest")
             PROVE  FOptional!ReadAs(SubscribeRequest0, MarshalSubscribeRequest(m), m, Either, NewField)
  OBVIOUS
<1>1. m \in [topics : AtMostOne(Topics), unknownFields : Seq(NewField)]
  BY DEF Message
<1>2. m \in OptionalMsg
  BY <1>1, EitherSeq DEF OptionalMsg
<1>3. PICK a, c : a = MarshalOptionalTopics(m) /\ c = m.unknownFields
  OBVIOUS
<1>4. PICK m0, m1 : m0 = SubscribeRequest0 /\ m1 = [m0 EXCEPT !.topics = m.topics]
  OBVIOUS
<1>5. m0 = [topics |-> <<>>, unknownFields |-> <<>>]
  BY <1>4 DEF SubscribeRequest0
<1>6. m1 = [topics |-> m.topics, unknownFields |-> <<>>]
  BY <1>4, <1>5
<1>7. m0 \in OptionalMsg /\ m1 \in OptionalMsg
  <2>1. <<>> \in AtMostOne(Topics)
    BY DEF AtMostOne
  <2> QED BY <1>1, <1>5, <1>6, <2>1 DEF OptionalMsg
<1>8. a \in Seq(OptionalPartsOf) /\ c \in Seq(OptionalPartsOf)
  <2>1. OptionalFields = OptionalPartsOf
    BY DEF OptionalFields, OptionalPartsOf, TopicsOf
  <2>2. a \in Seq(OptionalFields)
    BY <1>1, <1>3, OptionalParts
  <2>3. c \in Seq(OptionalFields)
    BY <1>1, <1>3, KeptParts DEF Kept
  <2> QED BY <2>1, <2>2, <2>3
<1>9. FOptional!Fold({m0}, a) = {m1}
  <2>1. CASE m.topics = <<>>
    <3>1. a = <<>>
      BY <1>1, <1>3, <2>1, OptionalParts
    <3> QED BY <1>5, <1>6, <2>1, <3>1, FOptional!FoldEmpty
  <2>2. CASE m.topics # <<>>
    <3>1. PICK t \in Topics : m.topics = <<t>> /\ a = <<TopicsOf(t)>>
      BY <1>1, <1>3, <2>2, OptionalParts DEF TopicsOf
    <3>2. OptionalTopicsStep({m0}, TopicsOf(t)) = {[m0 EXCEPT !["topics"] = <<NextTopics(<<>>, t)>>]}
      BY <1>5, <1>7, OptionalReads
    <3>3. [m0 EXCEPT !["topics"] = <<t>>] = m1
      BY <1>4, <3>1
    <3> QED BY <3>1, <3>2, <3>3, NextTopicsIs, FOptional!FoldOne
  <2> QED BY <2>1, <2>2
<1>10. FOptional!Fold({m1}, c) = {m}
  <2>1. FOptional!Fold({m1}, c) = {FOptional!Extended(m1, c)}
    BY <1>1, <1>3, <1>7, OptionalCodec, FOptional!CodecKept
  <2>2. <<>> \o c = c
    BY <1>1, <1>3
  <2>3. [m1 EXCEPT !.unknownFields = c] = m
    BY <1>1, <1>3, <1>6
  <2> QED BY <1>6, <2>1, <2>2, <2>3 DEF FOptional!Extended
<1>11. MarshalSubscribeRequest(m) = a \o c /\ a \o c \in Seq(OptionalPartsOf)
  BY <1>3, <1>8 DEF MarshalSubscribeRequest
<1>12. FOptional!Fold({m0}, a \o c) = {m}
  <2>1. FOptional!Fold({m0}, a \o c) = FOptional!Fold(FOptional!Fold({m0}, a), c)
    BY <1>8, FOptional!FoldConcat
  <2> QED BY <1>9, <1>10, <2>1
<1> QED
  BY <1>2, <1>4, <1>7, <1>11, <1>12, OptionalCodec, FOptional!ReadEither

-----------------------------------------------------------------------------
\* NotifyRequest.
NotifyMsg == [topics : AtMostOne(Topics), message : AtMostOne(PushMessage), groupId : Blob,
              unknownFields : Seq(Either)]
MessageOf(x) == Delimited(2, WireSize(MarshalMessage(x)), MarshalMessage(x))
NextMessage(xs, x) == MergedMessage(IF xs = <<>> THEN Message0 ELSE xs[1], x)

\* What the cases of a switch make of a Message.
LEMMA MessageTaken ==
  \A x \in PushMessage :
    /\ \A m : m.message \in AtMostOne(PushMessage) =>
         /\ TakeOptional(m, MessageOf(x), 2, "message",
                UnmarshalMessage(MessageOf(x).value, Previous(m, "message", Message0))) =
              {[m EXCEPT !["message"] = <<NextMessage(m.message, x)>>]}
         /\ <<NextMessage(m.message, x)>> \in AtMostOne(PushMessage)
    /\ \A m, num, name, ns : num # 2 => TakeOptional(m, MessageOf(x), num, name, ns) = {}
    /\ \A m, num, name : num # 2 => TakeBytes(m, MessageOf(x), num, name) = {}
    /\ \A m, known : 2 \in known => TakeUnknown(m, MessageOf(x), known) = {}
<1> SUFFICES ASSUME NEW x \in PushMessage
             PROVE  /\ \A m : m.message \in AtMostOne(PushMessage) =>
                         /\ TakeOptional(m, MessageOf(x), 2, "message",
                                UnmarshalMessage(MessageOf(x).value, Previous(m, "message", Message0))) =
                              {[m EXCEPT !["message"] = <<NextMessage(m.message, x)>>]}
                         /\ <<NextMessage(m.message, x)>> \in AtMostOne(PushMessage)
                    /\ \A m, num, name, ns : num # 2 => TakeOptional(m, MessageOf(x), num, name, ns) = {}
                    /\ \A m, num, name : num # 2 => TakeBytes(m, MessageOf(x), num, name) = {}
                    /\ \A m, known : 2 \in known => TakeUnknown(m, MessageOf(x), known) = {}
  OBVIOUS
<1>1. PICK f : f = MessageOf(x)
  OBVIOUS
<1>2. f.num = 2 /\ f.type = DelimitedType /\ f.value = MarshalMessage(x)
  BY <1>1 DEF MessageOf, Delimited
<1>3. ASSUME NEW m, m.message \in AtMostOne(PushMessage)
      PROVE  /\ TakeOptional(m, f, 2, "message",
                    UnmarshalMessage(f.value, Previous(m, "message", Message0))) =
                  {[m EXCEPT !["message"] = <<NextMessage(m.message, x)>>]}
             /\ <<NextMessage(m.message, x)>> \in AtMostOne(PushMessage)
  <2>1. PICK p : p = IF m.message = <<>> THEN Message0 ELSE m.message[1]
    OBVIOUS
  <2>2. p \in PushMessage
    <3>1. CASE m.message = <<>>
      BY <2>1, <3>1, MessageRead
    <3>2. CASE m.message # <<>>
      <4>1. PICK y \in PushMessage : m.message = <<y>>
        BY <1>3, <3>2, AtMostOneIs
      <4> QED BY <2>1, <3>2, <4>1
    <3> QED BY <3>1, <3>2
  <2>3. UnmarshalMessage(f.value, p) = {MergedMessage(p, x)} /\ MergedMessage(p, x) \in PushMessage
    BY <1>2, <2>2, MessageRead
  <2>4. Previous(m, "message", Message0) = p
    BY <2>1 DEF Previous
  <2>5. TakeOptional(m, f, 2, "message", {MergedMessage(p, x)}) =
          {[m EXCEPT !["message"] = <<MergedMessage(p, x)>>]}
    BY <1>2 DEF TakeOptional
  <2>6. MergedMessage(p, x) = NextMessage(m.message, x)
    BY <2>1 DEF NextMessage
  <2>7. <<MergedMessage(p, x)>> \in AtMostOne(PushMessage)
    BY <2>3, OptionalOne
  <2> QED BY <2>3, <2>4, <2>5, <2>6, <2>7
<1>4. \A m, num, name, ns : num # 2 => TakeOptional(m, f, num, name, ns) = {}
  BY <1>2 DEF TakeOptional
<1>5. \A m, num, name : num # 2 => TakeBytes(m, f, num, name) = {}
  BY <1>2 DEF TakeBytes
<1>6. \A m, known : 2 \in known => TakeUnknown(m, f, known) = {}
  BY <1>2, KnownTaken
<1> QED
  BY <1>1, <1>3, <1>4, <1>5, <1>6

\* The step of NotifyRequest on its Topics.
LEMMA NotifyReadsTopics ==
  \A m \in NotifyMsg : \A t \in Topics :
    /\ NotifyStep({m}, TopicsOf(t)) = {[m EXCEPT !["topics"] = <<NextTopics(m.topics, t)>>]}
    /\ [m EXCEPT !["topics"] = <<NextTopics(m.topics, t)>>] \in NotifyMsg
<1> SUFFICES ASSUME NEW m \in NotifyMsg, NEW t \in Topics
             PROVE  /\ NotifyStep({m}, TopicsOf(t)) =
                         {[m EXCEPT !["topics"] = <<NextTopics(m.topics, t)>>]}
                    /\ [m EXCEPT !["topics"] = <<NextTopics(m.topics, t)>>] \in NotifyMsg
  OBVIOUS
<1>1. m.topics \in AtMostOne(Topics)
  BY DEF NotifyMsg
<1>2. PICK f, v : f = TopicsOf(t) /\ v = <<NextTopics(m.topics, t)>>
  OBVIOUS
<1>3. TakeOptionalTopics(m, f) = {[m EXCEPT !["topics"] = v]} /\ v \in AtMostOne(Topics)
  BY <1>1, <1>2, TopicsTaken
<1>4. \A ns : TakeOptional(m, f, 2, "message", ns) = {}
  BY <1>2, TopicsTaken
<1>5. TakeBytes(m, f, 3, "groupId") = {} /\ TakeUnknown(m, f, {1, 2, 3}) = {}
  BY <1>2, TopicsTaken
<1>6. ReadNotifyRequest(m, f) = {[m EXCEPT !["topics"] = v]}
  BY <1>3, <1>4, <1>5 DEF ReadNotifyRequest
<1>7. [m EXCEPT !["topics"] = v] \in NotifyMsg
  BY <1>3 DEF NotifyMsg
<1> QED
  BY <1>2, <1>6, <1>7, NotifyFold

\* The step of NotifyRequest on its Message.
LEMMA NotifyReadsMessage ==
  \A m \in NotifyMsg : \A x \in PushMessage :
    /\ NotifyStep({m}, MessageOf(x)) = {[m EXCEPT !["message"] = <<NextMessage(m.message, x)>>]}
    /\ [m EXCEPT !["message"] = <<NextMessage(m.message, x)>>] \in NotifyMsg
<1> SUFFICES ASSUME NEW m \in NotifyMsg, NEW x \in PushMessage
             PROVE  /\ NotifyStep({m}, MessageOf(x)) =
                         {[m EXCEPT !["message"] = <<NextMessage(m.message, x)>>]}
                    /\ [m EXCEPT !["message"] = <<NextMessage(m.message, x)>>] \in NotifyMsg
  OBVIOUS
<1>1. m.message \in AtMostOne(PushMessage)
  BY DEF NotifyMsg
<1>2. PICK f, v : f = MessageOf(x) /\ v = <<NextMessage(m.message, x)>>
  OBVIOUS
<1>3. /\ TakeOptional(m, f, 2, "message",
             UnmarshalMessage(f.value, Previous(m, "message", Message0))) =
           {[m EXCEPT !["message"] = v]}
      /\ v \in AtMostOne(PushMessage)
  BY <1>1, <1>2, MessageTaken
<1>4. TakeOptionalTopics(m, f) = {}
  BY <1>2, MessageTaken DEF TakeOptionalTopics
<1>5. TakeBytes(m, f, 3, "groupId") = {} /\ TakeUnknown(m, f, {1, 2, 3}) = {}
  BY <1>2, MessageTaken
<1>6. ReadNotifyRequest(m, f) = {[m EXCEPT !["message"] = v]}
  BY <1>3, <1>4, <1>5 DEF ReadNotifyRequest
<1>7. [m EXCEPT !["message"] = v] \in NotifyMsg
  BY <1>3 DEF NotifyMsg
<1> QED
  BY <1>2, <1>6, <1>7, NotifyFold

\* A field of bytes is no message of another number.
LEMMA BytesNotOptional ==
  \A m, num, b, k, name, ns : k # num => TakeOptional(m, BytesField(num, b), k, name, ns) = {}
BY DEF TakeOptional, BytesField, Delimited

\* The step of NotifyRequest on the group, and on fields of other releases.
LEMMA NotifyReads ==
  \A m \in NotifyMsg :
    /\ \A b \in Blob : NotifyStep({m}, BytesField(3, b)) = {[m EXCEPT !["groupId"] = b]}
    /\ \A f \in Either :
         NotifyStep({m}, f) = IF f.num \in {1, 2, 3} THEN {} ELSE {FNotify!Extended(m, <<f>>)}
<1> SUFFICES ASSUME NEW m \in NotifyMsg
             PROVE  /\ \A b \in Blob : NotifyStep({m}, BytesField(3, b)) = {[m EXCEPT !["groupId"] = b]}
                    /\ \A f \in Either :
                         NotifyStep({m}, f) =
                           IF f.num \in {1, 2, 3} THEN {} ELSE {FNotify!Extended(m, <<f>>)}
  OBVIOUS
<1>1. \A f : NotifyStep({m}, f) = ReadNotifyRequest(m, f)
  BY NotifyFold
<1>2. ASSUME NEW b \in Blob PROVE ReadNotifyRequest(m, BytesField(3, b)) = {[m EXCEPT !["groupId"] = b]}
  <2>1. TakeOptionalTopics(m, BytesField(3, b)) = {}
    BY BytesNotOptional DEF TakeOptionalTopics
  <2>2. \A ns : TakeOptional(m, BytesField(3, b), 2, "message", ns) = {}
    BY BytesNotOptional
  <2>3. /\ TakeBytes(m, BytesField(3, b), 3, "groupId") = {[m EXCEPT !["groupId"] = b]}
        /\ TakeUnknown(m, BytesField(3, b), {1, 2, 3}) = {}
    BY BytesTaken
  <2> QED BY <2>1, <2>2, <2>3 DEF ReadNotifyRequest
<1>3. ASSUME NEW f \in Either, f.num \in {1, 2, 3} PROVE ReadNotifyRequest(m, f) = {}
  <2>1. TakeUnknown(m, f, {1, 2, 3}) = {}
    BY <1>3, KnownTaken
  <2>2. TakeOptionalTopics(m, f) = {}
    BY <1>3, RetypedRefused DEF TakeOptionalTopics
  <2>3. \A ns : TakeOptional(m, f, 2, "message", ns) = {}
    BY <1>3, RetypedRefused
  <2>4. TakeBytes(m, f, 3, "groupId") = {}
    BY <1>3, RetypedRefused
  <2> QED BY <2>1, <2>2, <2>3, <2>4 DEF ReadNotifyRequest
<1>4. ASSUME NEW f \in Either, f.num \notin {1, 2, 3}
      PROVE  ReadNotifyRequest(m, f) = {FNotify!Extended(m, <<f>>)}
  <2>1. TakeUnknown(m, f, {1, 2, 3}) = {Appended(m, f)}
    BY <1>4, UnknownTaken DEF Appended
  <2>2. TakeOptionalTopics(m, f) = {}
    BY <1>4, OtherNumber DEF TakeOptionalTopics
  <2>3. \A ns : TakeOptional(m, f, 2, "message", ns) = {}
    BY <1>4, OtherNumber
  <2>4. TakeBytes(m, f, 3, "groupId") = {}
    BY <1>4, OtherNumber
  <2>5. m.unknownFields \in Seq(Either)
    BY DEF NotifyMsg
  <2>6. Appended(m, f) = FNotify!Extended(m, <<f>>)
    BY <2>5, AppendedIs DEF FNotify!Extended
  <2> QED BY <2>1, <2>2, <2>3, <2>4, <2>6 DEF ReadNotifyRequest
<1>5. \A f \in Either :
        ReadNotifyRequest(m, f) = IF f.num \in {1, 2, 3} THEN {} ELSE {FNotify!Extended(m, <<f>>)}
  BY <1>3, <1>4
<1> QED
  BY <1>1, <1>2, <1>5

NotifyPartsOf ==
  {TopicsOf(t) : t \in Topics} \cup {MessageOf(x) : x \in PushMessage}
    \cup {BytesField(3, b) : b \in Blob} \cup NewField

\* It is a codec in the sense of FoldFacts.
LEMMA NotifyCodec ==
  /\ FNotify!Codec(NotifyMsg, Either, NotifyPartsOf, NewField)
  /\ \A f \in Either : FNotify!Takes(NotifyMsg, f) \/ FNotify!Refuses(NotifyMsg, f)
<1>1. FNotify!Known(NotifyMsg, Either)
  BY DEF FNotify!Known, FNotify!Replaced, NotifyMsg
<1>2. \A m \in NotifyMsg, f \in NewField : NotifyStep({m}, f) = {FNotify!Extended(m, <<f>>)}
  <2>1. \A f \in NewField : f \in Either /\ f.num \notin {1, 2, 3}
    BY RpcAssumption DEF Either, Legal
  <2> QED BY <2>1, NotifyReads
<1>3. ASSUME NEW m \in NotifyMsg, NEW u \in Seq(Either)
      PROVE  /\ FNotify!Replaced(m, u) \in NotifyMsg
             /\ FNotify!Replaced(m, u).topics = m.topics
             /\ FNotify!Replaced(m, u).message = m.message
  BY DEF FNotify!Replaced, NotifyMsg
<1>4. ASSUME NEW t \in Topics PROVE FNotify!Sets(NotifyMsg, Either, TopicsOf(t))
  <2> SUFFICES ASSUME NEW m \in NotifyMsg
               PROVE  \E name \in DOMAIN m \ {"unknownFields"} : \E v :
                        /\ [m EXCEPT ![name] = v] \in NotifyMsg
                        /\ \A u \in Seq(Either) :
                             NotifyStep({FNotify!Replaced(m, u)}, TopicsOf(t)) =
                               {[FNotify!Replaced(m, u) EXCEPT ![name] = v]}
    BY DEF FNotify!Sets
  <2>1. PICK v : v = <<NextTopics(m.topics, t)>>
    OBVIOUS
  <2>2. [m EXCEPT !["topics"] = v] \in NotifyMsg
    BY <2>1, NotifyReadsTopics
  <2>3. \A u \in Seq(Either) :
          NotifyStep({FNotify!Replaced(m, u)}, TopicsOf(t)) =
            {[FNotify!Replaced(m, u) EXCEPT !["topics"] = v]}
    <3> SUFFICES ASSUME NEW u \in Seq(Either)
                 PROVE  NotifyStep({FNotify!Replaced(m, u)}, TopicsOf(t)) =
                          {[FNotify!Replaced(m, u) EXCEPT !["topics"] = v]}
      OBVIOUS
    <3>1. PICK p : p = FNotify!Replaced(m, u)
      OBVIOUS
    <3>2. p \in NotifyMsg /\ p.topics = m.topics
      BY <1>3, <3>1
    <3> QED BY <2>1, <3>1, <3>2, NotifyReadsTopics
  <2>4. "topics" \in DOMAIN m \ {"unknownFields"}
    BY DEF NotifyMsg
  <2> QED BY <2>2, <2>3, <2>4
<1>5. ASSUME NEW x \in PushMessage PROVE FNotify!Sets(NotifyMsg, Either, MessageOf(x))
  <2> SUFFICES ASSUME NEW m \in NotifyMsg
               PROVE  \E name \in DOMAIN m \ {"unknownFields"} : \E v :
                        /\ [m EXCEPT ![name] = v] \in NotifyMsg
                        /\ \A u \in Seq(Either) :
                             NotifyStep({FNotify!Replaced(m, u)}, MessageOf(x)) =
                               {[FNotify!Replaced(m, u) EXCEPT ![name] = v]}
    BY DEF FNotify!Sets
  <2>1. PICK v : v = <<NextMessage(m.message, x)>>
    OBVIOUS
  <2>2. [m EXCEPT !["message"] = v] \in NotifyMsg
    BY <2>1, NotifyReadsMessage
  <2>3. \A u \in Seq(Either) :
          NotifyStep({FNotify!Replaced(m, u)}, MessageOf(x)) =
            {[FNotify!Replaced(m, u) EXCEPT !["message"] = v]}
    <3> SUFFICES ASSUME NEW u \in Seq(Either)
                 PROVE  NotifyStep({FNotify!Replaced(m, u)}, MessageOf(x)) =
                          {[FNotify!Replaced(m, u) EXCEPT !["message"] = v]}
      OBVIOUS
    <3>1. PICK p : p = FNotify!Replaced(m, u)
      OBVIOUS
    <3>2. p \in NotifyMsg /\ p.message = m.message
      BY <1>3, <3>1
    <3> QED BY <2>1, <3>1, <3>2, NotifyReadsMessage
  <2>4. "message" \in DOMAIN m \ {"unknownFields"}
    BY DEF NotifyMsg
  <2> QED BY <2>2, <2>3, <2>4
<1>6. ASSUME NEW b \in Blob PROVE FNotify!Sets(NotifyMsg, Either, BytesField(3, b))
  <2>1. FNotify!SetsTo(NotifyMsg, BytesField(3, b), "groupId", b)
    BY NotifyReads DEF FNotify!SetsTo, NotifyMsg
  <2> QED BY <1>1, <2>1, FNotify!SetsOf
<1>7. \A f \in NotifyPartsOf \ NewField : FNotify!Sets(NotifyMsg, Either, f)
  BY <1>4, <1>5, <1>6 DEF NotifyPartsOf
<1>8. FNotify!Pointwise /\ NewField \subseteq Either
  BY NotifyFold, EitherSeq
<1>9. FNotify!Codec(NotifyMsg, Either, NotifyPartsOf, NewField)
  BY <1>1, <1>2, <1>7, <1>8, FNotify!CodecOf
<1>10. ASSUME NEW f \in Either PROVE FNotify!Takes(NotifyMsg, f) \/ FNotify!Refuses(NotifyMsg, f)
  BY NotifyReads DEF FNotify!Takes, FNotify!Refuses
<1> QED
  BY <1>9, <1>10

\* Into a new Message, a Message is read as it is.
LEMMA NextMessageIs == \A x \in PushMessage : NextMessage(<<>>, x) = x
BY MessageRead DEF NextMessage

\* A NotifyRequest is read back, also with a field of another release in it.
LEMMA NotifyRead ==
  \A m \in Message("NotifyRequest") :
    FNotify!ReadAs(NotifyRequest0, MarshalNotifyRequest(m), m, Either, NewField)
<1> SUFFICES ASSUME NEW m \in Message("NotifyRequest")
             PROVE  FNotify!ReadAs(NotifyRequest0, MarshalNotifyRequest(m), m, Either, NewField)
  OBVIOUS
<1>1. m \in [topics : AtMostOne(Topics), message : AtMostOne(PushMessage), groupId : Blob,
             unknownFields : Seq(NewField)]
  BY DEF Message
<1>2. m \in NotifyMsg
  BY <1>1, EitherSeq DEF NotifyMsg
<1>3. PICK a, b, c, d : /\ a = MarshalOptionalTopics(m) /\ b = MessageBuffer(m)
                        /\ c = PutBytes(3, m.groupId) /\ d = m.unknownFields
  OBVIOUS
<1>4. PICK ts, xs, g : ts = m.topics /\ xs = m.message /\ g = m.groupId
  OBVIOUS
<1>5. PICK m0, m1, m2, m3 : /\ m0 = NotifyRequest0
                            /\ m1 = [m0 EXCEPT !.topics = ts]
                            /\ m2 = [m1 EXCEPT !.message = xs]
                            /\ m3 = [m2 EXCEPT !.groupId = g]
  OBVIOUS
<1>6. m0 = [topics |-> <<>>, message |-> <<>>, groupId |-> Empty, unknownFields |-> <<>>]
  BY <1>5 DEF NotifyRequest0
<1>7. m1 = [topics |-> ts, message |-> <<>>, groupId |-> Empty, unknownFields |-> <<>>]
  BY <1>5, <1>6
<1>8. m2 = [topics |-> ts, message |-> xs, groupId |-> Empty, unknownFields |-> <<>>]
  <2>1. m2 = [m1 EXCEPT !.message = xs]
    BY <1>5
  <2> QED BY <1>7, <2>1
<1>9. m3 = [topics |-> ts, message |-> xs, groupId |-> g, unknownFields |-> <<>>]
  <2>1. m3 = [m2 EXCEPT !.groupId = g]
    BY <1>5
  <2> QED BY <1>8, <2>1
<1>10. m0 \in NotifyMsg /\ m1 \in NotifyMsg /\ m2 \in NotifyMsg /\ m3 \in NotifyMsg
  <2>1. <<>> \in AtMostOne(Topics) /\ <<>> \in AtMostOne(PushMessage)
    BY DEF AtMostOne
  <2>2. ts \in AtMostOne(Topics) /\ xs \in AtMostOne(PushMessage) /\ g \in Blob /\ Empty \in Blob
    BY <1>1, <1>4, ApiAssumption
  <2>3. m0 \in NotifyMsg /\ m1 \in NotifyMsg
    BY <1>6, <1>7, <2>1, <2>2 DEF NotifyMsg
  <2>4. m2 \in NotifyMsg /\ m3 \in NotifyMsg
    BY <1>8, <1>9, <2>1, <2>2 DEF NotifyMsg
  <2> QED BY <2>3, <2>4
<1>11. /\ a \in Seq(NotifyPartsOf) /\ b \in Seq(NotifyPartsOf)
       /\ c \in Seq(NotifyPartsOf) /\ d \in Seq(NotifyPartsOf)
  <2>1. a \in Seq(OptionalFields) /\ OptionalFields \subseteq NotifyPartsOf
    BY <1>1, <1>3, OptionalParts DEF OptionalFields, NotifyPartsOf, TopicsOf
  <2>2. b \in Seq(MessageFields) /\ MessageFields \subseteq NotifyPartsOf
    BY <1>1, <1>3, MessageParts DEF MessageFields, NotifyPartsOf, MessageOf
  <2>3. c \in Seq(BytesFields({3})) /\ BytesFields({3}) \subseteq NotifyPartsOf
    <3>1. c \in Seq(BytesFields({3}))
      BY <1>1, <1>3, PutBytesSize
    <3>2. BytesFields({3}) \subseteq NotifyPartsOf
      BY DEF BytesFields, NotifyPartsOf, BytesField
    <3> QED BY <3>1, <3>2
  <2>4. d \in Seq(NewField) /\ NewField \subseteq NotifyPartsOf
    BY <1>1, <1>3 DEF NotifyPartsOf
  <2> QED BY <2>1, <2>2, <2>3, <2>4, SeqMonotonic
<1>12. FNotify!Fold({m0}, a) = {m1}
  <2>1. CASE ts = <<>>
    <3>1. a = <<>>
      BY <1>1, <1>3, <1>4, <2>1, OptionalParts
    <3> QED BY <1>6, <1>7, <2>1, <3>1, FNotify!FoldEmpty
  <2>2. CASE ts # <<>>
    <3>1. PICK t \in Topics : ts = <<t>> /\ a = <<TopicsOf(t)>>
      BY <1>1, <1>3, <1>4, <2>2, OptionalParts DEF TopicsOf
    <3>2. NotifyStep({m0}, TopicsOf(t)) = {[m0 EXCEPT !["topics"] = <<NextTopics(<<>>, t)>>]}
      BY <1>6, <1>10, NotifyReadsTopics
    <3>3. [m0 EXCEPT !["topics"] = <<t>>] = m1
      BY <1>5, <3>1
    <3> QED BY <3>1, <3>2, <3>3, NextTopicsIs, FNotify!FoldOne
  <2> QED BY <2>1, <2>2
<1>13. FNotify!Fold({m1}, b) = {m2}
  <2>1. CASE xs = <<>>
    <3>1. b = <<>>
      BY <1>1, <1>3, <1>4, <2>1, MessageParts
    <3> QED BY <1>7, <1>8, <2>1, <3>1, FNotify!FoldEmpty
  <2>2. CASE xs # <<>>
    <3>1. PICK x \in PushMessage : xs = <<x>> /\ b = <<MessageOf(x)>>
      BY <1>1, <1>3, <1>4, <2>2, MessageParts DEF MessageOf
    <3>2. NotifyStep({m1}, MessageOf(x)) = {[m1 EXCEPT !["message"] = <<NextMessage(<<>>, x)>>]}
      BY <1>7, <1>10, NotifyReadsMessage
    <3>3. [m1 EXCEPT !["message"] = <<x>>] = m2
      BY <1>5, <3>1
    <3> QED BY <3>1, <3>2, <3>3, NextMessageIs, FNotify!FoldOne
  <2> QED BY <2>1, <2>2
<1>14. FNotify!Fold({m2}, c) = {m3}
  <2>1. CASE g = Empty
    <3>1. c = <<>>
      BY <1>3, <1>4, <2>1 DEF PutBytes
    <3> QED BY <1>8, <1>9, <2>1, <3>1, FNotify!FoldEmpty
  <2>2. CASE g # Empty
    <3>1. c = <<BytesField(3, g)>> /\ g \in Blob
      BY <1>1, <1>3, <1>4, <2>2 DEF PutBytes, BytesField
    <3>2. NotifyStep({m2}, BytesField(3, g)) = {[m2 EXCEPT !["groupId"] = g]}
      BY <1>10, <3>1, NotifyReads
    <3> QED BY <1>5, <3>1, <3>2, FNotify!FoldOne
  <2> QED BY <2>1, <2>2
<1>15. FNotify!Fold({m3}, d) = {m}
  <2>1. FNotify!Fold({m3}, d) = {FNotify!Extended(m3, d)}
    BY <1>1, <1>3, <1>10, NotifyCodec, FNotify!CodecKept
  <2>2. <<>> \o d = d
    BY <1>1, <1>3
  <2>3. [m3 EXCEPT !.unknownFields = d] = m
    BY <1>1, <1>3, <1>4, <1>9
  <2> QED BY <1>9, <2>1, <2>2, <2>3 DEF FNotify!Extended
<1>16. MarshalNotifyRequest(m) = a \o b \o c \o d /\ a \o b \o c \o d \in Seq(NotifyPartsOf)
  <2>1. a \o b \in Seq(NotifyPartsOf)
    BY <1>11
  <2>2. a \o b \o c \in Seq(NotifyPartsOf)
    BY <1>11, <2>1
  <2>3. a \o b \o c \o d \in Seq(NotifyPartsOf)
    BY <1>11, <2>2
  <2> QED BY <1>3, <2>3 DEF MarshalNotifyRequest, MessageBuffer
<1>17. FNotify!Fold({m0}, a \o b \o c \o d) =
         FNotify!Fold(FNotify!Fold(FNotify!Fold(FNotify!Fold({m0}, a), b), c), d)
  BY <1>11, FNotify!FoldFour
<1>18. FNotify!Fold({m0}, a \o b \o c \o d) = {m}
  BY <1>12, <1>13, <1>14, <1>15, <1>17
<1> QED
  BY <1>2, <1>5, <1>10, <1>16, <1>18, NotifyCodec, FNotify!ReadEither

-----------------------------------------------------------------------------
\* x with f in the j-th place of its unknown fields.
Gains(x, j, f) == [x EXCEPT !.unknownFields = InsertAt(@, j, f)]

(***************************************************************************)
(* What a call relies on: the buffer of a message is read as the message,  *)
(* and with a field of another release in it, wherever it is, as the       *)
(* message with that field among the unknown ones, or not at all.          *)
(***************************************************************************)
BackWith(read, x, f) ==
  /\ f \in NewField => read # {}
  /\ \A q \in read : \E j \in 1 .. Len(x.unknownFields) + 1 : q = Gains(x, j, f)
Back(type, b, x) ==
  /\ Unmarshal(type, b) = {x}
  /\ \A f \in Either, i \in 1 .. Len(b) + 1 :
       BackWith(Unmarshal(type, InsertAt(b, i, f)), x, f)

\* SetTokenRequest.
LEMMA SetTokenBack ==
  \A b, x :
    FSetToken!ReadAs(SetTokenRequest0, b, x, Either, NewField) =>
         Back("SetTokenRequest", b, x)
<1>1. \A u, i, f : FSetToken!Inserted(u, i, f) = InsertAt(u, i, f)
  BY DEF FSetToken!Inserted, InsertAt
<1>2. ASSUME NEW b, NEW x, FSetToken!ReadAs(SetTokenRequest0, b, x, Either, NewField)
      PROVE  Back("SetTokenRequest", b, x)
  <2>1. \A c : Unmarshal("SetTokenRequest", c) = FSetToken!Fold({SetTokenRequest0}, c)
    BY SetTokenFold DEF Unmarshal
  <2>2. Unmarshal("SetTokenRequest", b) = {x}
    BY <1>2, <2>1 DEF FSetToken!ReadAs
  <2>3. ASSUME NEW f \in Either, NEW i \in 1 .. Len(b) + 1
        PROVE  BackWith(Unmarshal("SetTokenRequest", InsertAt(b, i, f)), x, f)
    <3>1. FSetToken!Inserted(b, i, f) = InsertAt(b, i, f)
      BY <1>1
    <3>2. \A j : FSetToken!Gains(x, j, f) = Gains(x, j, f)
      BY <1>1 DEF FSetToken!Gains, Gains
    <3>3. f \in NewField => FSetToken!Fold({SetTokenRequest0}, FSetToken!Inserted(b, i, f)) # {}
      BY <1>2 DEF FSetToken!ReadAs
    <3>4. ASSUME NEW q \in FSetToken!Fold({SetTokenRequest0}, FSetToken!Inserted(b, i, f))
          PROVE  \E j \in 1 .. Len(x.unknownFields) + 1 :
                   q = FSetToken!Gains(x, j, f)
      BY <1>2 DEF FSetToken!ReadAs
    <3>5. Unmarshal("SetTokenRequest", InsertAt(b, i, f))
            = FSetToken!Fold({SetTokenRequest0}, FSetToken!Inserted(b, i, f))
      BY <2>1, <3>1
    <3> QED BY <3>2, <3>3, <3>4, <3>5 DEF BackWith
  <2> QED BY <2>1, <2>2, <2>3 DEF Back
<1> QED
  BY <1>2

\* The requests about a space.
LEMMA SpaceBack ==
  \A b, x :
    /\ FSpace!ReadAs(CreateSpaceRequest0, b, x, Either, NewField) =>
         Back("CreateSpaceRequest", b, x)
    /\ FSpace!ReadAs(RemoveSpaceRequest0, b, x, Either, NewField) =>
         Back("RemoveSpaceRequest", b, x)
<1>1. \A u, i, f : FSpace!Inserted(u, i, f) = InsertAt(u, i, f)
  BY DEF FSpace!Inserted, InsertAt
<1>2. ASSUME NEW b, NEW x, FSpace!ReadAs(CreateSpaceRequest0, b, x, Either, NewField)
      PROVE  Back("CreateSpaceRequest", b, x)
  <2>1. \A c : Unmarshal("CreateSpaceRequest", c) = FSpace!Fold({CreateSpaceRequest0}, c)
    BY SpaceFold DEF Unmarshal
  <2>2. Unmarshal("CreateSpaceRequest", b) = {x}
    BY <1>2, <2>1 DEF FSpace!ReadAs
  <2>3. ASSUME NEW f \in Either, NEW i \in 1 .. Len(b) + 1
        PROVE  BackWith(Unmarshal("CreateSpaceRequest", InsertAt(b, i, f)), x, f)
    <3>1. FSpace!Inserted(b, i, f) = InsertAt(b, i, f)
      BY <1>1
    <3>2. \A j : FSpace!Gains(x, j, f) = Gains(x, j, f)
      BY <1>1 DEF FSpace!Gains, Gains
    <3>3. f \in NewField => FSpace!Fold({CreateSpaceRequest0}, FSpace!Inserted(b, i, f)) # {}
      BY <1>2 DEF FSpace!ReadAs
    <3>4. ASSUME NEW q \in FSpace!Fold({CreateSpaceRequest0}, FSpace!Inserted(b, i, f))
          PROVE  \E j \in 1 .. Len(x.unknownFields) + 1 :
                   q = FSpace!Gains(x, j, f)
      BY <1>2 DEF FSpace!ReadAs
    <3>5. Unmarshal("CreateSpaceRequest", InsertAt(b, i, f))
            = FSpace!Fold({CreateSpaceRequest0}, FSpace!Inserted(b, i, f))
      BY <2>1, <3>1
    <3> QED BY <3>2, <3>3, <3>4, <3>5 DEF BackWith
  <2> QED BY <2>1, <2>2, <2>3 DEF Back
<1>3. ASSUME NEW b, NEW x, FSpace!ReadAs(RemoveSpaceRequest0, b, x, Either, NewField)
      PROVE  Back("RemoveSpaceRequest", b, x)
  <2>1. \A c : Unmarshal("RemoveSpaceRequest", c) = FSpace!Fold({RemoveSpaceRequest0}, c)
    BY SpaceFold DEF Unmarshal
  <2>2. Unmarshal("RemoveSpaceRequest", b) = {x}
    BY <1>3, <2>1 DEF FSpace!ReadAs
  <2>3. ASSUME NEW f \in Either, NEW i \in 1 .. Len(b) + 1
        PROVE  BackWith(Unmarshal("RemoveSpaceRequest", InsertAt(b, i, f)), x, f)
    <3>1. FSpace!Inserted(b, i, f) = InsertAt(b, i, f)
      BY <1>1
    <3>2. \A j : FSpace!Gains(x, j, f) = Gains(x, j, f)
      BY <1>1 DEF FSpace!Gains, Gains
    <3>3. f \in NewField => FSpace!Fold({RemoveSpaceRequest0}, FSpace!Inserted(b, i, f)) # {}
      BY <1>3 DEF FSpace!ReadAs
    <3>4. ASSUME NEW q \in FSpace!Fold({RemoveSpaceRequest0}, FSpace!Inserted(b, i, f))
          PROVE  \E j \in 1 .. Len(x.unknownFields) + 1 :
                   q = FSpace!Gains(x, j, f)
      BY <1>3 DEF FSpace!ReadAs
    <3>5. Unmarshal("RemoveSpaceRequest", InsertAt(b, i, f))
            = FSpace!Fold({RemoveSpaceRequest0}, FSpace!Inserted(b, i, f))
      BY <2>1, <3>1
    <3> QED BY <3>2, <3>3, <3>4, <3>5 DEF BackWith
  <2> QED BY <2>1, <2>2, <2>3 DEF Back
<1> QED
  BY <1>2, <1>3

\* The types without fields.
LEMMA UnknownBack ==
  \A b, x :
    /\ FUnknown!ReadAs(SubscriptionsRequest0, b, x, Either, NewField) =>
         Back("SubscriptionsRequest", b, x)
    /\ FUnknown!ReadAs(Ok0, b, x, Either, NewField) =>
         Back("Ok", b, x)
<1>1. \A u, i, f : FUnknown!Inserted(u, i, f) = InsertAt(u, i, f)
  BY DEF FUnknown!Inserted, InsertAt
<1>2. ASSUME NEW b, NEW x, FUnknown!ReadAs(SubscriptionsRequest0, b, x, Either, NewField)
      PROVE  Back("SubscriptionsRequest", b, x)
  <2>1. \A c : Unmarshal("SubscriptionsRequest", c) = FUnknown!Fold({SubscriptionsRequest0}, c)
    BY UnknownFold DEF Unmarshal
  <2>2. Unmarshal("SubscriptionsRequest", b) = {x}
    BY <1>2, <2>1 DEF FUnknown!ReadAs
  <2>3. ASSUME NEW f \in Either, NEW i \in 1 .. Len(b) + 1
        PROVE  BackWith(Unmarshal("SubscriptionsRequest", InsertAt(b, i, f)), x, f)
    <3>1. FUnknown!Inserted(b, i, f) = InsertAt(b, i, f)
      BY <1>1
    <3>2. \A j : FUnknown!Gains(x, j, f) = Gains(x, j, f)
      BY <1>1 DEF FUnknown!Gains, Gains
    <3>3. f \in NewField => FUnknown!Fold({SubscriptionsRequest0}, FUnknown!Inserted(b, i, f)) # {}
      BY <1>2 DEF FUnknown!ReadAs
    <3>4. ASSUME NEW q \in FUnknown!Fold({SubscriptionsRequest0}, FUnknown!Inserted(b, i, f))
          PROVE  \E j \in 1 .. Len(x.unknownFields) + 1 :
                   q = FUnknown!Gains(x, j, f)
      BY <1>2 DEF FUnknown!ReadAs
    <3>5. Unmarshal("SubscriptionsRequest", InsertAt(b, i, f))
            = FUnknown!Fold({SubscriptionsRequest0}, FUnknown!Inserted(b, i, f))
      BY <2>1, <3>1
    <3> QED BY <3>2, <3>3, <3>4, <3>5 DEF BackWith
  <2> QED BY <2>1, <2>2, <2>3 DEF Back
<1>3. ASSUME NEW b, NEW x, FUnknown!ReadAs(Ok0, b, x, Either, NewField)
      PROVE  Back("Ok", b, x)
  <2>1. \A c : Unmarshal("Ok", c) = FUnknown!Fold({Ok0}, c)
    BY UnknownFold DEF Unmarshal
  <2>2. Unmarshal("Ok", b) = {x}
    BY <1>3, <2>1 DEF FUnknown!ReadAs
  <2>3. ASSUME NEW f \in Either, NEW i \in 1 .. Len(b) + 1
        PROVE  BackWith(Unmarshal("Ok", InsertAt(b, i, f)), x, f)
    <3>1. FUnknown!Inserted(b, i, f) = InsertAt(b, i, f)
      BY <1>1
    <3>2. \A j : FUnknown!Gains(x, j, f) = Gains(x, j, f)
      BY <1>1 DEF FUnknown!Gains, Gains
    <3>3. f \in NewField => FUnknown!Fold({Ok0}, FUnknown!Inserted(b, i, f)) # {}
      BY <1>3 DEF FUnknown!ReadAs
    <3>4. ASSUME NEW q \in FUnknown!Fold({Ok0}, FUnknown!Inserted(b, i, f))
          PROVE  \E j \in 1 .. Len(x.unknownFields) + 1 :
                   q = FUnknown!Gains(x, j, f)
      BY <1>3 DEF FUnknown!ReadAs
    <3>5. Unmarshal("Ok", InsertAt(b, i, f))
            = FUnknown!Fold({Ok0}, FUnknown!Inserted(b, i, f))
      BY <2>1, <3>1
    <3> QED BY <3>2, <3>3, <3>4, <3>5 DEF BackWith
  <2> QED BY <2>1, <2>2, <2>3 DEF Back
<1> QED
  BY <1>2, <1>3

\* The types with a Topics alone.
LEMMA OptionalBack ==
  \A b, x :
    /\ FOptional!ReadAs(SubscriptionsResponse0, b, x, Either, NewField) =>
         Back("SubscriptionsResponse", b, x)
    /\ FOptional!ReadAs(SubscribeRequest0, b, x, Either, NewField) =>
         Back("SubscribeRequest", b, x)
    /\ FOptional!ReadAs(UnsubscribeRequest0, b, x, Either, NewField) =>
         Back("UnsubscribeRequest", b, x)
    /\ FOptional!ReadAs(SubscribeAllRequest0, b, x, Either, NewField) =>
         Back("SubscribeAllRequest", b, x)
<1>1. \A u, i, f : FOptional!Inserted(u, i, f) = InsertAt(u, i, f)
  BY DEF FOptional!Inserted, InsertAt
<1>2. ASSUME NEW b, NEW x, FOptional!ReadAs(SubscriptionsResponse0, b, x, Either, NewField)
      PROVE  Back("SubscriptionsResponse", b, x)
  <2>1. \A c : Unmarshal("SubscriptionsResponse", c) = FOptional!Fold({SubscriptionsResponse0}, c)
    BY OptionalTopicsFold DEF Unmarshal
  <2>2. Unmarshal("SubscriptionsResponse", b) = {x}
    BY <1>2, <2>1 DEF FOptional!ReadAs
  <2>3. ASSUME NEW f \in Either, NEW i \in 1 .. Len(b) + 1
        PROVE  BackWith(Unmarshal("SubscriptionsResponse", InsertAt(b, i, f)), x, f)
    <3>1. FOptional!Inserted(b, i, f) = InsertAt(b, i, f)
      BY <1>1
    <3>2. \A j : FOptional!Gains(x, j, f) = Gains(x, j, f)
      BY <1>1 DEF FOptional!Gains, Gains
    <3>3. f \in NewField => FOptional!Fold({SubscriptionsResponse0}, FOptional!Inserted(b, i, f)) # {}
      BY <1>2 DEF FOptional!ReadAs
    <3>4. ASSUME NEW q \in FOptional!Fold({SubscriptionsResponse0}, FOptional!Inserted(b, i, f))
          PROVE  \E j \in 1 .. Len(x.unknownFields) + 1 :
                   q = FOptional!Gains(x, j, f)
      BY <1>2 DEF FOptional!ReadAs
    <3>5. Unmarshal("SubscriptionsResponse", InsertAt(b, i, f))
            = FOptional!Fold({SubscriptionsResponse0}, FOptional!Inserted(b, i, f))
      BY <2>1, <3>1
    <3> QED BY <3>2, <3>3, <3>4, <3>5 DEF BackWith
  <2> QED BY <2>1, <2>2, <2>3 DEF Back
<1>3. ASSUME NEW b, NEW x, FOptional!ReadAs(SubscribeRequest0, b, x, Either, NewField)
      PROVE  Back("SubscribeRequest", b, x)
  <2>1. \A c : Unmarshal("SubscribeRequest", c) = FOptional!Fold({SubscribeRequest0}, c)
    BY OptionalTopicsFold DEF Unmarshal
  <2>2. Unmarshal("SubscribeRequest", b) = {x}
    BY <1>3, <2>1 DEF FOptional!ReadAs
  <2>3. ASSUME NEW f \in Either, NEW i \in 1 .. Len(b) + 1
        PROVE  BackWith(Unmarshal("SubscribeRequest", InsertAt(b, i, f)), x, f)
    <3>1. FOptional!Inserted(b, i, f) = InsertAt(b, i, f)
      BY <1>1
    <3>2. \A j : FOptional!Gains(x, j, f) = Gains(x, j, f)
      BY <1>1 DEF FOptional!Gains, Gains
    <3>3. f \in NewField => FOptional!Fold({SubscribeRequest0}, FOptional!Inserted(b, i, f)) # {}
      BY <1>3 DEF FOptional!ReadAs
    <3>4. ASSUME NEW q \in FOptional!Fold({SubscribeRequest0}, FOptional!Inserted(b, i, f))
          PROVE  \E j \in 1 .. Len(x.unknownFields) + 1 :
                   q = FOptional!Gains(x, j, f)
      BY <1>3 DEF FOptional!ReadAs
    <3>5. Unmarshal("SubscribeRequest", InsertAt(b, i, f))
            = FOptional!Fold({SubscribeRequest0}, FOptional!Inserted(b, i, f))
      BY <2>1, <3>1
    <3> QED BY <3>2, <3>3, <3>4, <3>5 DEF BackWith
  <2> QED BY <2>1, <2>2, <2>3 DEF Back
<1>4. ASSUME NEW b, NEW x, FOptional!ReadAs(UnsubscribeRequest0, b, x, Either, NewField)
      PROVE  Back("UnsubscribeRequest", b, x)
  <2>1. \A c : Unmarshal("UnsubscribeRequest", c) = FOptional!Fold({UnsubscribeRequest0}, c)
    BY OptionalTopicsFold DEF Unmarshal
  <2>2. Unmarshal("UnsubscribeRequest", b) = {x}
    BY <1>4, <2>1 DEF FOptional!ReadAs
  <2>3. ASSUME NEW f \in Either, NEW i \in 1 .. Len(b) + 1
        PROVE  BackWith(Unmarshal("UnsubscribeRequest", InsertAt(b, i, f)), x, f)
    <3>1. FOptional!Inserted(b, i, f) = InsertAt(b, i, f)
      BY <1>1
    <3>2. \A j : FOptional!Gains(x, j, f) = Gains(x, j, f)
      BY <1>1 DEF FOptional!Gains, Gains
    <3>3. f \in NewField => FOptional!Fold({UnsubscribeRequest0}, FOptional!Inserted(b, i, f)) # {}
      BY <1>4 DEF FOptional!ReadAs
    <3>4. ASSUME NEW q \in FOptional!Fold({UnsubscribeRequest0}, FOptional!Inserted(b, i, f))
          PROVE  \E j \in 1 .. Len(x.unknownFields) + 1 :
                   q = FOptional!Gains(x, j, f)
      BY <1>4 DEF FOptional!ReadAs
    <3>5. Unmarshal("UnsubscribeRequest", InsertAt(b, i, f))
            = FOptional!Fold({UnsubscribeRequest0}, FOptional!Inserted(b, i, f))
      BY <2>1, <3>1
    <3> QED BY <3>2, <3>3, <3>4, <3>5 DEF BackWith
  <2> QED BY <2>1, <2>2, <2>3 DEF Back
<1>5. ASSUME NEW b, NEW x, FOptional!ReadAs(SubscribeAllRequest0, b, x, Either, NewField)
      PROVE  Back("SubscribeAllRequest", b, x)
  <2>1. \A c : Unmarshal("SubscribeAllRequest", c) = FOptional!Fold({SubscribeAllRequest0}, c)
    BY OptionalTopicsFold DEF Unmarshal
  <2>2. Unmarshal("SubscribeAllRequest", b) = {x}
    BY <1>5, <2>1 DEF FOptional!ReadAs
  <2>3. ASSUME NEW f \in Either, NEW i \in 1 .. Len(b) + 1
        PROVE  BackWith(Unmarshal("SubscribeAllRequest", InsertAt(b, i, f)), x, f)
    <3>1. FOptional!Inserted(b, i, f) = InsertAt(b, i, f)
      BY <1>1
    <3>2. \A j : FOptional!Gains(x, j, f) = Gains(x, j, f)
      BY <1>1 DEF FOptional!Gains, Gains
    <3>3. f \in NewField => FOptional!Fold({SubscribeAllRequest0}, FOptional!Inserted(b, i, f)) # {}
      BY <1>5 DEF FOptional!ReadAs
    <3>4. ASSUME NEW q \in FOptional!Fold({SubscribeAllRequest0}, FOptional!Inserted(b, i, f))
          PROVE  \E j \in 1 .. Len(x.unknownFields) + 1 :
                   q = FOptional!Gains(x, j, f)
      BY <1>5 DEF FOptional!ReadAs
    <3>5. Unmarshal("SubscribeAllRequest", InsertAt(b, i, f))
            = FOptional!Fold({SubscribeAllRequest0}, FOptional!Inserted(b, i, f))
      BY <2>1, <3>1
    <3> QED BY <3>2, <3>3, <3>4, <3>5 DEF BackWith
  <2> QED BY <2>1, <2>2, <2>3 DEF Back
<1> QED
  BY <1>2, <1>3, <1>4, <1>5

\* NotifyRequest.
LEMMA NotifyBack ==
  \A b, x :
    FNotify!ReadAs(NotifyRequest0, b, x, Either, NewField) =>
         Back("NotifyRequest", b, x)
<1>1. \A u, i, f : FNotify!Inserted(u, i, f) = InsertAt(u, i, f)
  BY DEF FNotify!Inserted, InsertAt
<1>2. ASSUME NEW b, NEW x, FNotify!ReadAs(NotifyRequest0, b, x, Either, NewField)
      PROVE  Back("NotifyRequest", b, x)
  <2>1. \A c : Unmarshal("NotifyRequest", c) = FNotify!Fold({NotifyRequest0}, c)
    BY NotifyFold DEF Unmarshal
  <2>2. Unmarshal("NotifyRequest", b) = {x}
    BY <1>2, <2>1 DEF FNotify!ReadAs
  <2>3. ASSUME NEW f \in Either, NEW i \in 1 .. Len(b) + 1
        PROVE  BackWith(Unmarshal("NotifyRequest", InsertAt(b, i, f)), x, f)
    <3>1. FNotify!Inserted(b, i, f) = InsertAt(b, i, f)
      BY <1>1
    <3>2. \A j : FNotify!Gains(x, j, f) = Gains(x, j, f)
      BY <1>1 DEF FNotify!Gains, Gains
    <3>3. f \in NewField => FNotify!Fold({NotifyRequest0}, FNotify!Inserted(b, i, f)) # {}
      BY <1>2 DEF FNotify!ReadAs
    <3>4. ASSUME NEW q \in FNotify!Fold({NotifyRequest0}, FNotify!Inserted(b, i, f))
          PROVE  \E j \in 1 .. Len(x.unknownFields) + 1 :
                   q = FNotify!Gains(x, j, f)
      BY <1>2 DEF FNotify!ReadAs
    <3>5. Unmarshal("NotifyRequest", InsertAt(b, i, f))
            = FNotify!Fold({NotifyRequest0}, FNotify!Inserted(b, i, f))
      BY <2>1, <3>1
    <3> QED BY <3>2, <3>3, <3>4, <3>5 DEF BackWith
  <2> QED BY <2>1, <2>2, <2>3 DEF Back
<1> QED
  BY <1>2

(***************************************************************************)
(* Every type of message that a call carries, through MarshalVT and then   *)
(* UnmarshalVT, is the message again; a field of a newer release in the    *)
(* buffer is kept as unknown, and one of another type than this release    *)
(* has is refused, or kept where the message has no field of its number.   *)
(***************************************************************************)
THEOREM RoundTrip ==
  \A type \in Types : \A m \in Message(type) : Back(type, Buffer(type, m), m)
<1> SUFFICES ASSUME NEW type \in Types, NEW m \in Message(type)
             PROVE  Back(type, Buffer(type, m), m)
  OBVIOUS
<1>1. CASE type = "SetTokenRequest"
  BY <1>1, SetTokenRead, SetTokenBack DEF Buffer
<1>2. CASE type \in {"CreateSpaceRequest", "RemoveSpaceRequest"}
  <2>1. m \in Message("CreateSpaceRequest")
    BY <1>2 DEF Message
  <2> QED BY <1>2, <2>1, SpaceRead, SpaceBack DEF Buffer
<1>3. CASE type \in {"SubscriptionsRequest", "Ok"}
  <2>1. m \in Message("Ok")
    BY <1>3 DEF Message
  <2> QED BY <1>3, <2>1, UnknownRead, UnknownBack DEF Buffer
<1>4. CASE type \in {"SubscriptionsResponse", "SubscribeRequest", "UnsubscribeRequest",
                     "SubscribeAllRequest"}
  <2>1. m \in Message("SubscribeRequest")
    BY <1>4 DEF Message
  <2>2. FOptional!ReadAs(SubscribeRequest0, MarshalSubscribeRequest(m), m, Either, NewField)
    BY <2>1, OptionalRead
  <2>3. /\ SubscriptionsResponse0 = SubscribeRequest0
        /\ UnsubscribeRequest0 = SubscribeRequest0
        /\ SubscribeAllRequest0 = SubscribeRequest0
    BY DEF SubscriptionsResponse0, SubscribeRequest0, UnsubscribeRequest0, SubscribeAllRequest0
  <2>4. Buffer(type, m) = MarshalSubscribeRequest(m)
    BY <1>4 DEF Buffer, MarshalSubscriptionsResponse, MarshalSubscribeRequest,
                MarshalUnsubscribeRequest, MarshalSubscribeAllRequest
  <2> QED BY <1>4, <2>2, <2>3, <2>4, OptionalBack
<1>5. CASE type = "NotifyRequest"
  BY <1>5, NotifyRead, NotifyBack DEF Buffer
<1> QED
  BY <1>1, <1>2, <1>3, <1>4, <1>5 DEF Types

-----------------------------------------------------------------------------
(***************************************************************************)
(* The inductive invariant of a call: what is known of each of the values  *)
(* that the call has produced so far.                                      *)
(***************************************************************************)
Askable(a) ==
  /\ a.method \in Method \cup {"Newer"}
  /\ a.method \in Method => /\ a.in \in Message(Stub[a.method].in)
                            /\ a.field \in Either \cup {Nothing}
  /\ a.method = "Newer" => a.field = Nothing

\* The buffer of request a.
Carries(b, a) ==
  LET buffer == Buffer(Stub[a.method].in, a.in)
  IN  IF a.field = Nothing THEN b = buffer
      ELSE \E i \in 1 .. Len(buffer) + 1 : b = InsertAt(buffer, i, a.field)

\* The message that the handler of request a gets.
Receives(m, a) ==
  IF a.field = Nothing THEN m = a.in
  ELSE \E i \in 1 .. Len(a.in.unknownFields) + 1 : m = Gains(a.in, i, a.field)

\* Handler's outcome g to request a, and what is sent back for it.
Gives(g, type, s) ==
  \/ \E m \in Response[type] : g = Answered(m) /\ s = Answered(Buffer(type, m))
  \/ \E e \in DOMAIN ErrCode \cup {"other"} : g = Refused(e) /\ s = Refused(CodeOf(e))

\* The mux answers by itself.
MuxAnswers(s, a) ==
  \/ s = Refused(Unimplemented) /\ a.method \notin Method
  \/ s = Refused(NoCode) /\ a.field \in Retyped

\* The stub returns r after outcome g.
Tells(r, g, type) ==
  \/ \E m \in Response[type] : g = Answered(m) /\ r = Answered(m)
  \/ \E e \in DOMAIN ErrCode \cup {"other"} : g = Refused(e) /\ r = Refused(CodeOf(e))

AskedInv  == client # "ready" => Askable(asked)
ReadyInv  == client = "ready" => server = "ready" /\ wire = Nothing
ServerInv ==
  /\ server \in {"ready", "handling", "done"}
  /\ server = "ready" => got = Nothing /\ gave = Nothing /\ answer = Nothing
  /\ server = "handling" => got # Nothing /\ gave = Nothing /\ answer = Nothing
WireInv ==
  wire # Nothing =>
    /\ wire.name = asked.method
    /\ asked.method \in Method => Carries(wire.buffer, asked)
GotInv ==
  got # Nothing =>
    /\ asked.method \in Method
    /\ got.handler = asked.method
    /\ got.out = Stub[asked.method].out
    /\ Receives(got.in, asked)
AnswerInv ==
  server = "done" => \/ got # Nothing /\ Gives(gave, got.out, answer)
                     \/ gave = Nothing /\ MuxAnswers(answer, asked)
Returned ==
  \/ result = Refused(Broken)
  \/ /\ server = "done" /\ got # Nothing
     /\ Tells(result, gave, got.out)
  \/ /\ server = "done" /\ gave = Nothing
     /\ MuxAnswers(result, asked)
ResultInv == client = "done" => Returned

CallInv ==
  /\ client \in {"ready", "waiting", "done"}
  /\ AskedInv /\ ReadyInv /\ ServerInv /\ WireInv /\ GotInv /\ AnswerInv /\ ResultInv
-----------------------------------------------------------------------------
\* A refusal is not an answer, and neither is nothing.
LEMMA Outcomes ==
  /\ \A c : Refused(c) # Nothing /\ Refused(c).ok = FALSE /\ Refused(c).code = c
  /\ \A v : Answered(v) # Nothing /\ Answered(v).ok = TRUE /\ Answered(v).value = v
<1>1. \A c : DOMAIN Refused(c) = {"ok", "code"} /\ Refused(c).ok = FALSE /\ Refused(c).code = c
  BY DEF Refused
<1>2. \A v : DOMAIN Answered(v) = {"ok", "value"} /\ Answered(v).ok = TRUE /\ Answered(v).value = v
  BY DEF Answered
<1>3. "ok" \notin DOMAIN Nothing
  BY DEF Nothing
<1> QED
  BY <1>1, <1>2, <1>3

\* What is on the way, or has arrived, is not nothing.
LEMMA Records ==
  /\ \A n, b : [name |-> n, buffer |-> b] # Nothing
  /\ \A h, o, m : [handler |-> h, out |-> o, in |-> m] # Nothing
<1>1. \A n, b : "name" \in DOMAIN [name |-> n, buffer |-> b]
  OBVIOUS
<1>2. \A h, o, m : "out" \in DOMAIN [handler |-> h, out |-> o, in |-> m]
  OBVIOUS
<1>3. "name" \notin DOMAIN Nothing /\ "out" \notin DOMAIN Nothing
  BY DEF Nothing
<1> QED
  BY <1>1, <1>2, <1>3

\* The code of an error of the API is its own, and none of drpc's.
LEMMA Codes ==
  /\ \A e \in DOMAIN ErrCode : ErrCode[e] \notin {Broken, Unimplemented, NoCode}
  /\ \A e \in DOMAIN ErrCode : \A d \in DOMAIN ErrCode \cup {"other"} :
       CodeOf(d) = ErrCode[e] => d = e
  /\ \A d \in DOMAIN ErrCode \cup {"other"} : CodeOf(d) # Broken
<1>1. DOMAIN ErrCode = {"Unexpected", "InvalidSignature", "InvalidTopicSignature",
                        "SpaceExists", "NoValidTopics"}
  BY DEF ErrCode
<1>2. /\ ErrCode.Unexpected = 1200 /\ ErrCode.InvalidSignature = 1201
      /\ ErrCode.InvalidTopicSignature = 1202 /\ ErrCode.SpaceExists = 1203
      /\ ErrCode.NoValidTopics = 1204
  BY DEF ErrCode
<1>3. "other" \notin DOMAIN ErrCode
  BY <1>1
<1>4. \A e \in DOMAIN ErrCode : CodeOf(e) = ErrCode[e]
  BY DEF CodeOf
<1>5. CodeOf("other") = 0
  BY <1>3 DEF CodeOf, NoCode
<1>6. \A e \in DOMAIN ErrCode : ErrCode[e] \notin {Broken, Unimplemented, NoCode}
  BY <1>1, <1>2 DEF Broken, Unimplemented, NoCode
<1>7. \A e, d \in DOMAIN ErrCode : ErrCode[d] = ErrCode[e] => d = e
  BY <1>1, <1>2
<1> QED
  BY <1>4, <1>5, <1>6, <1>7 DEF Broken, NoCode

\* The description and the stub agree on every method.
LEMMA Methods ==
  /\ \A r \in Description : /\ r.name \in Method
                            /\ r.handler = r.name
                            /\ r.in = Stub[r.name].in
                            /\ r.out = Stub[r.name].out
  /\ \A a \in Method : \E r \in Description : r.name = a
  /\ \A a \in Method : /\ Stub[a].name = a
                       /\ Stub[a].in \in Types
                       /\ Stub[a].out \in {"Ok", "SubscriptionsResponse"}
  /\ "Newer" \notin Method
<1>1. "Newer" \notin Method
  BY DEF Method
<1>2. \A a \in Method : /\ Stub[a].name = a
                        /\ Stub[a].in \in Types
                        /\ Stub[a].out \in {"Ok", "SubscriptionsResponse"}
  BY DEF Method, Stub, Invoked, Types
<1>3. \A r \in Description : /\ r.name \in Method
                             /\ r.handler = r.name
                             /\ r.in = Stub[r.name].in
                             /\ r.out = Stub[r.name].out
  BY DEF Method, Stub, Invoked, Description, Receiver
<1>4. \A a \in Method : \E r \in Description : r.name = a
  BY DEF Method, Description, Receiver
<1> QED
  BY <1>1, <1>2, <1>3, <1>4

\* A call begins with a request that the wire carries.
LEMMA SendInv ==
  ASSUME NEW r, NEW name, NEW buffer, NEW field, CallInv, Send(r, name, buffer, field),
         Askable([method |-> r.method, in |-> r.in, field |-> field]),
         name = r.method,
         r.method \in Method =>
           Carries(buffer, [method |-> r.method, in |-> r.in, field |-> field])
  PROVE  CallInv'
<1>1. /\ client = "ready" /\ client' = "waiting"
      /\ asked' = [method |-> r.method, in |-> r.in, field |-> field]
      /\ wire' = [name |-> name, buffer |-> buffer]
      /\ server' = server /\ got' = got /\ gave' = gave /\ answer' = answer
  BY DEF Send
<1>2. server = "ready" /\ got = Nothing /\ gave = Nothing /\ answer = Nothing
  BY <1>1 DEF CallInv, ReadyInv, ServerInv
<1>3. wire'.name = name /\ wire'.buffer = buffer /\ asked'.method = r.method
  BY <1>1
<1>4. AskedInv' /\ ReadyInv' /\ ResultInv'
  BY <1>1 DEF AskedInv, ReadyInv, ResultInv
<1>5. ServerInv' /\ GotInv' /\ AnswerInv'
  BY <1>1, <1>2 DEF ServerInv, GotInv, AnswerInv
<1>6. WireInv'
  BY <1>1, <1>3 DEF WireInv
<1> QED
  BY <1>1, <1>4, <1>5, <1>6 DEF CallInv

\* A stub of this release, or of one that adds a field.
LEMMA InvokeInv == ASSUME CallInv, NEW r \in Request, Invoke(r) PROVE CallInv'
<1>1. r.method \in Method /\ r.in \in Message(Stub[r.method].in)
  BY RpcAssumption
<1>2. PICK b : b = Buffer(Stub[r.method].in, r.in)
  OBVIOUS
<1>3. Marshal(Stub[r.method].in, r.in) = b
  BY <1>1, <1>2, SizeIsRight, Methods
<1>4. Stub[r.method].name = r.method
  BY <1>1, Methods
<1>5. \/ Send(r, r.method, b, Nothing)
      \/ \E f \in Either, i \in 1 .. Len(b) + 1 : Send(r, r.method, InsertAt(b, i, f), f)
  BY <1>3, <1>4 DEF Invoke, Either
<1>6. \A f \in Either : f # Nothing
  BY RpcAssumption DEF Either
<1>7. r.method # "Newer"
  BY <1>1, Methods
<1>8. CASE Send(r, r.method, b, Nothing)
  <2>1. PICK a : a = [method |-> r.method, in |-> r.in, field |-> Nothing]
    OBVIOUS
  <2>2. a.method = r.method /\ a.in = r.in /\ a.field = Nothing
    BY <2>1
  <2>3. Askable(a) /\ Carries(b, a)
    BY <1>1, <1>2, <1>7, <2>2 DEF Askable, Carries
  <2> QED BY <1>8, <2>1, <2>3, SendInv
<1>9. ASSUME NEW f \in Either, NEW i \in 1 .. Len(b) + 1,
             Send(r, r.method, InsertAt(b, i, f), f)
      PROVE  CallInv'
  <2>1. PICK a : a = [method |-> r.method, in |-> r.in, field |-> f]
    OBVIOUS
  <2>2. a.method = r.method /\ a.in = r.in /\ a.field = f
    BY <2>1
  <2>3. Askable(a)
    BY <1>1, <1>7, <2>2 DEF Askable
  <2>4. Carries(InsertAt(b, i, f), a)
    BY <1>2, <1>6, <2>2 DEF Carries
  <2> QED BY <1>9, <2>1, <2>3, <2>4, SendInv
<1> QED
  BY <1>5, <1>8, <1>9

\* A stub of a newer release.
LEMMA InvokeNewerInv == ASSUME CallInv, InvokeNewer PROVE CallInv'
<1>1. PICK r : r = [method |-> "Newer", in |-> Ok0]
  OBVIOUS
<1>2. r.method = "Newer" /\ r.in = Ok0 /\ r.method \notin Method
  BY <1>1, Methods
<1>3. Send(r, "Newer", <<>>, Nothing)
  BY <1>1 DEF InvokeNewer
<1>4. PICK a : a = [method |-> r.method, in |-> r.in, field |-> Nothing]
  OBVIOUS
<1>5. a.method = "Newer" /\ a.field = Nothing
  BY <1>2, <1>4
<1>6. Askable(a)
  BY <1>2, <1>5 DEF Askable
<1> QED
  BY <1>2, <1>3, <1>4, <1>6, SendInv

\* The mux finds the method of a request that was asked.
LEMMA Asking == CallInv /\ wire # Nothing => client # "ready" /\ Askable(asked)
BY DEF CallInv, ReadyInv, AskedInv

\* The mux answers by itself.
LEMMA MuxInv ==
  ASSUME CallInv, server = "ready", wire # Nothing, NEW s, MuxAnswers(s, asked), Answer(s),
         UNCHANGED <<client, asked, wire, got, gave, result>>
  PROVE  CallInv'
<1>1. /\ server' = "done" /\ answer' = s
      /\ client' = client /\ asked' = asked /\ wire' = wire /\ got' = got /\ gave' = gave
      /\ result' = result
  BY DEF Answer
<1>2. client # "ready" /\ got = Nothing /\ gave = Nothing
  BY Asking DEF CallInv, ServerInv
<1>3. AskedInv' /\ ReadyInv' /\ WireInv' /\ GotInv'
  BY <1>1, <1>2 DEF CallInv, AskedInv, ReadyInv, WireInv, GotInv
<1>4. ServerInv'
  BY <1>1 DEF ServerInv
<1>5. AnswerInv'
  BY <1>1, <1>2 DEF AnswerInv
<1>6. ResultInv'
  BY <1>1 DEF CallInv, ResultInv, Returned
<1> QED
  BY <1>1, <1>3, <1>4, <1>5, <1>6 DEF CallInv

\* An unknown name is refused: it was none of the methods.
LEMMA RefuseNameInv == ASSUME CallInv, RefuseName PROVE CallInv'
<1>1. /\ server = "ready" /\ wire # Nothing
      /\ \A r \in Description : r.name # wire.name
      /\ Answer(Refused(Unimplemented))
      /\ UNCHANGED <<client, asked, wire, got, gave, result>>
  BY DEF RefuseName
<1>2. wire.name = asked.method
  BY <1>1 DEF CallInv, WireInv
<1>3. asked.method \notin Method
  BY <1>1, <1>2, Methods
<1>4. MuxAnswers(Refused(Unimplemented), asked)
  BY <1>3 DEF MuxAnswers
<1> QED
  BY <1>1, <1>4, MuxInv

\* How the buffer on the wire is read.
LEMMA WireRead ==
  ASSUME CallInv, wire # Nothing, asked.method \in Method
  PROVE  /\ Unmarshal(Stub[asked.method].in, wire.buffer) = {} => asked.field \in Retyped
         /\ \A m \in Unmarshal(Stub[asked.method].in, wire.buffer) : Receives(m, asked)
<1>1. Askable(asked) /\ Carries(wire.buffer, asked)
  BY Asking DEF CallInv, WireInv
<1>2. PICK type, x, f, w : type = Stub[asked.method].in /\ x = asked.in /\ f = asked.field
                           /\ w = wire.buffer
  OBVIOUS
<1>3. type \in Types /\ x \in Message(type) /\ f \in Either \cup {Nothing}
  BY <1>1, <1>2, Methods DEF Askable
<1>4. PICK b : b = Buffer(type, x)
  OBVIOUS
<1>5. Back(type, b, x)
  BY <1>3, <1>4, RoundTrip
<1>6. CASE f = Nothing
  <2>1. w = b
    BY <1>1, <1>2, <1>4, <1>6 DEF Carries
  <2>2. Unmarshal(type, w) = {x}
    BY <1>5, <2>1 DEF Back
  <2>3. \A m : m = x => Receives(m, asked)
    BY <1>2, <1>6 DEF Receives
  <2>4. Unmarshal(type, w) # {} /\ \A m \in Unmarshal(type, w) : m = x
    BY <2>2
  <2> QED BY <1>2, <2>3, <2>4
<1>7. CASE f # Nothing
  <2>1. f \in Either
    BY <1>3, <1>7
  <2>2. PICK i \in 1 .. Len(b) + 1 : w = InsertAt(b, i, f)
    BY <1>1, <1>2, <1>4, <1>7 DEF Carries
  <2>3. BackWith(Unmarshal(type, w), x, f)
    BY <1>5, <2>1, <2>2 DEF Back
  <2>4. f \in NewField => Unmarshal(type, w) # {}
    BY <2>3 DEF BackWith
  <2>5. \A m \in Unmarshal(type, w) : \E j \in 1 .. Len(x.unknownFields) + 1 : m = Gains(x, j, f)
    BY <2>3 DEF BackWith
  <2>6. \A m \in Unmarshal(type, w) : Receives(m, asked)
    BY <1>2, <1>7, <2>5 DEF Receives
  <2> QED BY <1>2, <2>1, <2>4, <2>6 DEF Either
<1> QED
  BY <1>6, <1>7

\* A buffer is refused: its field had changed its type.
LEMMA RefuseBufferInv == ASSUME CallInv, RefuseBuffer PROVE CallInv'
<1>1. /\ server = "ready" /\ wire # Nothing
      /\ Answer(Refused(NoCode))
      /\ UNCHANGED <<client, asked, wire, got, gave, result>>
  BY DEF RefuseBuffer
<1>2. PICK r \in Description : r.name = wire.name /\ Unmarshal(r.in, wire.buffer) = {}
  BY DEF RefuseBuffer
<1>3. wire.name = asked.method
  BY <1>1 DEF CallInv, WireInv
<1>4. asked.method \in Method /\ r.in = Stub[asked.method].in
  BY <1>2, <1>3, Methods
<1>5. asked.field \in Retyped
  BY <1>1, <1>2, <1>4, WireRead
<1>6. MuxAnswers(Refused(NoCode), asked)
  BY <1>5 DEF MuxAnswers
<1> QED
  BY <1>1, <1>6, MuxInv

\* The handler gets what the buffer was made of.
LEMMA CallHandlerInv == ASSUME CallInv, CallHandler PROVE CallInv'
<1>1. /\ server = "ready" /\ wire # Nothing /\ server' = "handling"
      /\ client' = client /\ asked' = asked /\ wire' = wire /\ gave' = gave
      /\ answer' = answer /\ result' = result
  BY DEF CallHandler
<1>2. PICK r \in Description :
        /\ r.name = wire.name
        /\ \E m \in Unmarshal(r.in, wire.buffer) :
             got' = [handler |-> r.handler, out |-> r.out, in |-> m]
  BY DEF CallHandler
<1>3. PICK m \in Unmarshal(r.in, wire.buffer) :
        got' = [handler |-> r.handler, out |-> r.out, in |-> m]
  BY <1>2
<1>4. wire.name = asked.method
  BY <1>1 DEF CallInv, WireInv
<1>5. /\ asked.method \in Method /\ r.in = Stub[asked.method].in
      /\ r.handler = asked.method /\ r.out = Stub[asked.method].out
  BY <1>2, <1>4, Methods
<1>6. Receives(m, asked)
  BY <1>1, <1>3, <1>5, WireRead
<1>7. got' # Nothing
  BY <1>3, Records
<1>8. got'.handler = asked.method /\ got'.out = Stub[asked.method].out /\ got'.in = m
  BY <1>3, <1>5
<1>9. GotInv'
  BY <1>1, <1>5, <1>6, <1>8 DEF GotInv
<1>10. client # "ready" /\ gave = Nothing /\ answer = Nothing
  BY <1>1, Asking DEF CallInv, ServerInv
<1>11. AskedInv' /\ ReadyInv' /\ WireInv'
  BY <1>1, <1>10 DEF CallInv, AskedInv, ReadyInv, WireInv
<1>12. ServerInv' /\ AnswerInv'
  BY <1>1, <1>7, <1>10 DEF ServerInv, AnswerInv
<1>13. ResultInv'
  BY <1>1 DEF CallInv, ResultInv, Returned
<1> QED
  BY <1>1, <1>9, <1>11, <1>12, <1>13 DEF CallInv

\* What the handler says is put into a buffer or a code.
LEMMA HandlerReturnsInv == ASSUME CallInv, HandlerReturns PROVE CallInv'
<1>1. /\ server = "handling" /\ server' = "done"
      /\ client' = client /\ asked' = asked /\ wire' = wire /\ got' = got /\ result' = result
  BY DEF HandlerReturns, Answer
<1>2. got # Nothing /\ asked.method \in Method /\ got.out = Stub[asked.method].out
  BY <1>1 DEF CallInv, ServerInv, GotInv
<1>3. \/ \E m \in Response[got.out] :
           gave' = Answered(m) /\ answer' = Answered(Marshal(got.out, m))
      \/ \E e \in DOMAIN ErrCode \cup {"other"} :
           gave' = Refused(e) /\ answer' = Refused(CodeOf(e))
  BY DEF HandlerReturns, Answer
<1>4. got.out \in Types /\ Response[got.out] \subseteq Message(got.out)
  BY <1>2, Methods, RpcAssumption DEF Types
<1>5. \A m \in Response[got.out] : Marshal(got.out, m) = Buffer(got.out, m)
  BY <1>4, SizeIsRight
<1>6. Gives(gave', got.out, answer')
  BY <1>3, <1>5 DEF Gives
<1>7. AnswerInv'
  BY <1>1, <1>2, <1>6 DEF AnswerInv
<1>8. client # "ready"
  BY <1>1 DEF CallInv, ReadyInv
<1>9. AskedInv' /\ ReadyInv' /\ WireInv' /\ GotInv'
  BY <1>1, <1>8 DEF CallInv, AskedInv, ReadyInv, WireInv, GotInv
<1>10. ServerInv'
  BY <1>1 DEF ServerInv
<1>11. ResultInv'
  BY <1>1 DEF CallInv, ResultInv, Returned
<1> QED
  BY <1>1, <1>7, <1>9, <1>10, <1>11 DEF CallInv

\* The stub reads the buffer of the answer back.
LEMMA ReturnInv == ASSUME CallInv, Return PROVE CallInv'
<1>1. /\ client = "waiting" /\ client' = "done" /\ answer # Nothing
      /\ server' = server /\ asked' = asked /\ wire' = wire /\ got' = got
      /\ gave' = gave /\ answer' = answer
  BY DEF Return
<1>2. server = "done"
  BY <1>1 DEF CallInv, ServerInv
<1>3. Returned'
  <2>1. CASE got # Nothing /\ Gives(gave, got.out, answer)
    <3>1. PICK type : type = got.out
      OBVIOUS
    <3>2. asked.method \in Method /\ type = Stub[asked.method].out
      BY <2>1, <3>1 DEF CallInv, GotInv
    <3>3. type \in Types /\ Response[type] \subseteq Message(type)
      BY <3>2, Methods, RpcAssumption DEF Types
    <3>4. ASSUME NEW m \in Response[type], gave = Answered(m), answer = Answered(Buffer(type, m))
          PROVE  result' = Answered(m)
      <4>1. answer.ok = TRUE /\ answer.value = Buffer(type, m)
        BY <3>4, Outcomes
      <4>2. Unmarshal(type, answer.value) = {m}
        BY <3>3, <4>1, RoundTrip DEF Back
      <4>3. result' \in LET out == Unmarshal(type, answer.value)
                        IN  IF out = {} THEN {Refused(NoCode)} ELSE {Answered(n) : n \in out}
        BY <3>2, <4>1 DEF Return
      <4> QED BY <4>2, <4>3
    <3>5. ASSUME NEW e \in DOMAIN ErrCode \cup {"other"}, gave = Refused(e),
                 answer = Refused(CodeOf(e))
          PROVE  result' = Refused(CodeOf(e))
      <4>1. answer.ok = FALSE
        BY <3>5, Outcomes
      <4> QED BY <3>5, <4>1 DEF Return
    <3>6. Tells(result', gave, type)
      BY <2>1, <3>1, <3>4, <3>5 DEF Gives, Tells
    <3> QED BY <1>1, <1>2, <2>1, <3>1, <3>6 DEF Returned
  <2>2. CASE gave = Nothing /\ MuxAnswers(answer, asked)
    <3>1. answer.ok = FALSE
      BY <2>2, Outcomes DEF MuxAnswers
    <3>2. result' = answer
      BY <3>1 DEF Return
    <3> QED BY <1>1, <1>2, <2>2, <3>2 DEF Returned
  <2> QED BY <1>2, <2>1, <2>2 DEF CallInv, AnswerInv
<1>4. AskedInv' /\ ReadyInv' /\ WireInv' /\ GotInv' /\ ServerInv' /\ AnswerInv'
  BY <1>1 DEF CallInv, AskedInv, ReadyInv, WireInv, GotInv, ServerInv, AnswerInv
<1>5. ResultInv'
  BY <1>3 DEF ResultInv
<1> QED
  BY <1>1, <1>4, <1>5 DEF CallInv

\* A call that breaks tells nothing of the handler.
LEMMA BreakInv == ASSUME CallInv, Break PROVE CallInv'
<1>1. /\ client = "waiting" /\ client' = "done" /\ result' = Refused(Broken)
      /\ wire' = wire \/ wire' = Nothing
      /\ server' = server /\ asked' = asked /\ got' = got /\ gave' = gave /\ answer' = answer
  BY DEF Break
<1>2. AskedInv' /\ ReadyInv' /\ WireInv' /\ GotInv' /\ ServerInv' /\ AnswerInv'
  BY <1>1 DEF CallInv, AskedInv, ReadyInv, WireInv, GotInv, ServerInv, AnswerInv
<1>3. ResultInv'
  BY <1>1 DEF ResultInv, Returned
<1> QED
  BY <1>1, <1>2, <1>3 DEF CallInv

\* Every step keeps the invariant.
LEMMA CallInvInductive == CallInv /\ [Next]_vars => CallInv'
<1> SUFFICES ASSUME CallInv, [Next]_vars PROVE CallInv'
  OBVIOUS
<1>1. ASSUME NEW r \in Request, Invoke(r) PROVE CallInv'
  BY <1>1, InvokeInv
<1>2. CASE InvokeNewer
  BY <1>2, InvokeNewerInv
<1>3. CASE RefuseName
  BY <1>3, RefuseNameInv
<1>4. CASE RefuseBuffer
  BY <1>4, RefuseBufferInv
<1>5. CASE CallHandler
  BY <1>5, CallHandlerInv
<1>6. CASE HandlerReturns
  BY <1>6, HandlerReturnsInv
<1>7. CASE Return
  BY <1>7, ReturnInv
<1>8. CASE Break
  BY <1>8, BreakInv
<1>9. CASE UNCHANGED vars
  BY <1>9 DEF vars, CallInv, AskedInv, ReadyInv, ServerInv, WireInv, GotInv, AnswerInv, ResultInv,
              Returned
<1> QED
  BY <1>1, <1>2, <1>3, <1>4, <1>5, <1>6, <1>7, <1>8, <1>9 DEF Next

(***************************************************************************)
(* The invariant of a call, push_drpc.pb.go with the codec of              *)
(* push_vtproto.pb.go: each value on the way is made from the one before.  *)
(***************************************************************************)
THEOREM CallInvariant == Spec => []CallInv
<1>1. Init => CallInv
  BY DEF Init, CallInv, AskedInv, ReadyInv, ServerInv, WireInv, GotInv, AnswerInv, ResultInv
<1> QED
  BY <1>1, CallInvInductive, PTL DEF Spec

(***************************************************************************)
(* The handler that the mux calls gets the request that the stub was given *)
(* (drpcEncoding, MarshalVT and UnmarshalVT of every type): whole, or with *)
(* the field that a newer release added among its unknown fields.          *)
(***************************************************************************)
THEOREM RequestsArriveIntact == Spec => []RequestIntact
<1>1. CallInv => RequestIntact
  BY DEF CallInv, GotInv, Receives, Gains, RequestIntact
<1> QED
  BY <1>1, CallInvariant, PTL

(***************************************************************************)
(* What the stub returns is what the handler returned: its message, or the *)
(* error of errGroup that its code stands for.                             *)
(***************************************************************************)
THEOREM AnswersArriveIntact == Spec => []AnswerIntact
<1>1. ASSUME CallInv PROVE AnswerIntact
  <2> SUFFICES ASSUME client = "done"
               PROVE  /\ result.ok => gave = Answered(result.value)
                      /\ \A e \in DOMAIN ErrCode : result = Refused(ErrCode[e]) => gave = Refused(e)
    BY DEF AnswerIntact
  <2>1. \A c, d : Refused(c) = Refused(d) => c = d
    BY Outcomes
  <2>2. \A v, c : Answered(v) # Refused(c)
    BY Outcomes
  <2>3. CASE result = Refused(Broken)
    <3>1. result.ok = FALSE
      BY <2>3, Outcomes
    <3>2. \A e \in DOMAIN ErrCode : result # Refused(ErrCode[e])
      BY <2>1, <2>3, Codes
    <3> QED BY <3>1, <3>2
  <2>4. ASSUME NEW m, gave = Answered(m), result = Answered(m)
        PROVE  /\ result.ok => gave = Answered(result.value)
               /\ \A e \in DOMAIN ErrCode : result = Refused(ErrCode[e]) => gave = Refused(e)
    <3>1. result.value = m
      BY <2>4, Outcomes
    <3>2. \A c : result # Refused(c)
      BY <2>2, <2>4
    <3> QED BY <2>4, <3>1, <3>2
  <2>5. ASSUME NEW d \in DOMAIN ErrCode \cup {"other"}, gave = Refused(d),
               result = Refused(CodeOf(d))
        PROVE  /\ result.ok => gave = Answered(result.value)
               /\ \A e \in DOMAIN ErrCode : result = Refused(ErrCode[e]) => gave = Refused(e)
    <3>1. result.ok = FALSE
      BY <2>5, Outcomes
    <3>2. \A e \in DOMAIN ErrCode : result = Refused(ErrCode[e]) => gave = Refused(e)
      BY <2>1, <2>5, Codes
    <3> QED BY <3>1, <3>2
  <2>6. ASSUME NEW c \in {Unimplemented, NoCode}, result = Refused(c)
        PROVE  /\ result.ok => gave = Answered(result.value)
               /\ \A e \in DOMAIN ErrCode : result = Refused(ErrCode[e]) => gave = Refused(e)
    <3>1. result.ok = FALSE
      BY <2>6, Outcomes
    <3>2. \A e \in DOMAIN ErrCode : result # Refused(ErrCode[e])
      BY <2>1, <2>6, Codes
    <3> QED BY <3>1, <3>2
  <2> QED
    BY <1>1, <2>3, <2>4, <2>5, <2>6 DEF CallInv, ResultInv, Returned, Tells, MuxAnswers
<1> QED
  BY <1>1, CallInvariant, PTL

(***************************************************************************)
(* A client whose release has only added fields is served: neither the     *)
(* mux nor the codec refuses its request, however long its strings are.    *)
(***************************************************************************)
THEOREM CompatibleClientsAreServed == Spec => []CompatibleServed
<1>1. ASSUME CallInv PROVE CompatibleServed
  <2> SUFFICES ASSUME client = "done", asked.method \in Method, asked.field \notin Retyped
               PROVE  \/ result.ok
                      \/ result = Refused(Broken)
                      \/ gave # Nothing /\ ~gave.ok
    BY DEF CompatibleServed
  <2>1. \/ result = Refused(Broken)
        \/ \E m : result = Answered(m)
        \/ \E e : gave = Refused(e)
    BY <1>1 DEF CallInv, ResultInv, Returned, Tells, MuxAnswers
  <2> QED BY <2>1, Outcomes
<1> QED
  BY <1>1, CallInvariant, PTL
=============================================================================
