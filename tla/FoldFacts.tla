----------------------------- MODULE FoldFacts ------------------------------
(***************************************************************************)
(* FoldLeft of SequencesExt, for any operator.  A fold is defined by a     *)
(* recursive function on sets of indices; here it gets the two equations   *)
(* one reasons with, and induction over numbers and sequences in the form  *)
(* of sets.  An INSTANCE gives op a value.                                 *)
(***************************************************************************)
EXTENDS Integers, Sequences, WellFoundedInduction, TLAPS

CONSTANT op(_, _)

LargestOf(t) == CHOOSE x \in t : \A y \in t : x >= y
Fold(b, s) ==
  LET iter[t \in SUBSET DOMAIN s] ==
        IF t = {} THEN b ELSE op(iter[t \ {LargestOf(t)}], s[LargestOf(t)])
  IN  iter[DOMAIN s]

-----------------------------------------------------------------------------
\* Induction over the natural numbers: the least number outside A is not 0,
\* and has a predecessor in A.
LEMMA NatSetInduction ==
  ASSUME NEW A, 0 \in A, \A n \in Nat : n \in A => n + 1 \in A
  PROVE  Nat \subseteq A
<1> SUFFICES ASSUME Nat \ A # {} PROVE FALSE
  OBVIOUS
<1>1. PICK n \in Nat \ A : \A m \in Nat \ A : ~(m < n)
  <2>1. PICK n \in Nat \ A : \A m \in Nat \ A : <<m, n>> \notin OpToRel(<, Nat)
    BY NatLessThanWellFounded, WFMin
  <2> QED
    BY <2>1 DEF OpToRel
<1>2. n # 0 /\ n - 1 \in Nat /\ n - 1 < n
  BY <1>1
<1>3. n - 1 \in A
  BY <1>1, <1>2
<1> QED
  BY <1>1, <1>2, <1>3

\* Induction over sequences, from the empty one by Append.
LEMMA SeqSetInduction ==
  ASSUME NEW S, NEW A, <<>> \in A,
         \A s \in Seq(S), e \in S : s \in A => Append(s, e) \in A
  PROVE  Seq(S) \subseteq A
<1> DEFINE B == {n \in Nat : \A s \in Seq(S) : Len(s) = n => s \in A}
<1>1. 0 \in B
  OBVIOUS
<1>2. ASSUME NEW n \in Nat, n \in B PROVE n + 1 \in B
  <2> SUFFICES ASSUME NEW s \in Seq(S), Len(s) = n + 1 PROVE s \in A
    OBVIOUS
  <2>1. s # <<>>
    OBVIOUS
  <2>2. PICK f \in Seq(S), e \in S : s = Append(f, e)
    <3>1. /\ SubSeq(s, 1, Len(s) - 1) \in Seq(S) /\ s[Len(s)] \in S
          /\ s = Append(SubSeq(s, 1, Len(s) - 1), s[Len(s)])
      BY <2>1
    <3> QED BY <3>1
  <2>3. Len(f) = n
    BY <2>2
  <2> QED
    BY <1>2, <2>2, <2>3
<1> HIDE DEF B
<1>3. Nat \subseteq B
  BY <1>1, <1>2, NatSetInduction
<1> QED
  BY <1>3 DEF B

-----------------------------------------------------------------------------
\* The function behind a fold over the indices 1 .. n of s.
Iter(g, n, b, s) ==
  g = [t \in SUBSET (1 .. n) |->
         IF t = {} THEN b ELSE op(g[t \ {LargestOf(t)}], s[LargestOf(t)])]

\* A fold is the value of that function at all indices.
LEMMA FoldIter ==
  ASSUME NEW b, NEW s, NEW n, DOMAIN s = 1 .. n
  PROVE  Fold(b, s) = (CHOOSE g : Iter(g, n, b, s))[1 .. n]
BY DEF Fold, Iter

\* The largest number of a set, when one is known to be.
LEMMA MaxIs ==
  ASSUME NEW t \in SUBSET Int, NEW m \in t, \A x \in t : x <= m
  PROVE  LargestOf(t) = m
<1>1. \E x \in t : \A y \in t : x >= y
  OBVIOUS
<1>2. LargestOf(t) \in t /\ \A y \in t : LargestOf(t) >= y
  BY <1>1 DEF LargestOf
<1>3. LargestOf(t) \in Int /\ m \in Int /\ LargestOf(t) >= m /\ LargestOf(t) <= m
  BY <1>2
<1> QED
  BY <1>3

\* There is such a function, for any length.
LEMMA IterExists ==
  ASSUME NEW b, NEW s, NEW n \in Nat
  PROVE  \E g : Iter(g, n, b, s)
<1> DEFINE A == {k \in Nat : \E g : Iter(g, k, b, s)}
<1>1. 0 \in A
  <2>1. Iter([t \in SUBSET (1 .. 0) |-> b], 0, b, s)
    BY DEF Iter
  <2> QED BY <2>1
<1>2. ASSUME NEW k \in Nat, k \in A PROVE k + 1 \in A
  <2>1. PICK g : Iter(g, k, b, s)
    BY <1>2
  <2> DEFINE h == [t \in SUBSET (1 .. k + 1) |->
                     IF k + 1 \in t THEN op(g[t \ {k + 1}], s[k + 1]) ELSE g[t]]
  <2>2. ASSUME NEW t \in SUBSET (1 .. k + 1)
        PROVE  h[t] = IF t = {} THEN b ELSE op(h[t \ {LargestOf(t)}], s[LargestOf(t)])
    <3>1. CASE k + 1 \in t
      <4>1. LargestOf(t) = k + 1
        BY <3>1, MaxIs
      <4>2. t \ {k + 1} \in SUBSET (1 .. k + 1) /\ k + 1 \notin t \ {k + 1}
        OBVIOUS
      <4>3. h[t \ {k + 1}] = g[t \ {k + 1}]
        BY <4>2
      <4>4. h[t] = op(g[t \ {k + 1}], s[k + 1])
        BY <3>1
      <4> HIDE DEF h
      <4> QED BY <3>1, <4>1, <4>3, <4>4
    <3>2. CASE k + 1 \notin t
      <4>1. t \in SUBSET (1 .. k)
        BY <3>2
      <4>2. /\ t \ {LargestOf(t)} \in SUBSET (1 .. k + 1)
            /\ k + 1 \notin t \ {LargestOf(t)}
        BY <3>2
      <4>4. h[t] = g[t] /\ h[t \ {LargestOf(t)}] = g[t \ {LargestOf(t)}]
        BY <3>2, <4>2
      <4>5. g[t] = IF t = {} THEN b ELSE op(g[t \ {LargestOf(t)}], s[LargestOf(t)])
        BY <2>1, <4>1 DEF Iter
      <4> HIDE DEF h
      <4> QED BY <4>4, <4>5
    <3> QED BY <3>1, <3>2
  <2>3. Iter(h, k + 1, b, s)
    <3>1. h = [t \in SUBSET (1 .. k + 1) |-> h[t]]
      OBVIOUS
    <3> HIDE DEF h
    <3> QED BY <2>2, <3>1 DEF Iter
  <2> HIDE DEF h
  <2> QED BY <2>3
<1> HIDE DEF A
<1>3. Nat \subseteq A
  BY <1>1, <1>2, NatSetInduction
<1> QED
  BY <1>3 DEF A

\* What a fold goes through.
Steps(g, n, b, s) ==
  /\ g[1 .. 0] = b
  /\ \A k \in Nat : k + 1 <= n => g[1 .. k + 1] = op(g[1 .. k], s[k + 1])

\* It goes through the elements in their order.
LEMMA IterStep ==
  ASSUME NEW b, NEW s, NEW n \in Nat, NEW g, Iter(g, n, b, s)
  PROVE  Steps(g, n, b, s)
<1>1. g[1 .. 0] = b
  BY DEF Iter
<1>2. ASSUME NEW k \in Nat, k + 1 <= n
      PROVE  g[1 .. k + 1] = op(g[1 .. k], s[k + 1])
  <2>1. LargestOf(1 .. k + 1) = k + 1
    <3>1. /\ 1 .. k + 1 \in SUBSET Int /\ k + 1 \in 1 .. k + 1
          /\ \A x \in 1 .. k + 1 : x <= k + 1
      OBVIOUS
    <3> QED BY <3>1, MaxIs
  <2>2. (1 .. k + 1) \ {k + 1} = 1 .. k
    OBVIOUS
  <2>3. 1 .. k + 1 \in SUBSET (1 .. n) /\ 1 .. k + 1 # {}
    BY <1>2
  <2> QED
    BY <2>1, <2>2, <2>3 DEF Iter
<1> QED
  BY <1>1, <1>2 DEF Steps

\* A fold goes through the elements in their order.
LEMMA FoldSteps ==
  \A b, s : \A n \in Nat :
    DOMAIN s = 1 .. n => \E g : Fold(b, s) = g[1 .. n] /\ Steps(g, n, b, s)
<1> SUFFICES ASSUME NEW b, NEW s, NEW n \in Nat, DOMAIN s = 1 .. n
             PROVE  \E g : Fold(b, s) = g[1 .. n] /\ Steps(g, n, b, s)
  OBVIOUS
<1>1. PICK g : g = CHOOSE h : Iter(h, n, b, s)
  OBVIOUS
<1>2. Iter(g, n, b, s)
  BY <1>1, IterExists
<1>3. Steps(g, n, b, s)
  BY <1>2, IterStep
<1> QED
  BY <1>1, <1>3, FoldIter

-----------------------------------------------------------------------------
\* A fold over nothing.
LEMMA FoldEmpty == \A b : Fold(b, <<>>) = b
<1> SUFFICES ASSUME NEW b PROVE Fold(b, <<>>) = b
  OBVIOUS
<1>1. PICK s, n : s = <<>> /\ n = 0
  OBVIOUS
<1>2. n \in Nat /\ DOMAIN s = 1 .. n
  BY <1>1
<1>3. PICK g : Fold(b, s) = g[1 .. n] /\ Steps(g, n, b, s)
  BY <1>2, FoldSteps
<1> QED
  BY <1>1, <1>3 DEF Steps

\* A fold takes the last element last.
LEMMA FoldAppend ==
  \A S : \A s \in Seq(S), e \in S : \A b : Fold(b, Append(s, e)) = op(Fold(b, s), e)
<1> SUFFICES ASSUME NEW S, NEW s \in Seq(S), NEW e \in S, NEW b
             PROVE  Fold(b, Append(s, e)) = op(Fold(b, s), e)
  OBVIOUS
<1>1. PICK n, w, p : n = Len(s) /\ w = Append(s, e) /\ p = n + 1
  OBVIOUS
<1>2. /\ n \in Nat /\ DOMAIN s = 1 .. n
      /\ p \in Nat /\ DOMAIN w = 1 .. p
      /\ \A i \in 1 .. n : w[i] = s[i]
      /\ w[p] = e
  BY <1>1
<1>3. PICK g : Fold(b, s) = g[1 .. n] /\ Steps(g, n, b, s)
  BY <1>2, FoldSteps
<1>4. PICK l : Fold(b, w) = l[1 .. p] /\ Steps(l, p, b, w)
  BY <1>2, FoldSteps
<1> DEFINE A == {k \in Nat : k <= n => g[1 .. k] = l[1 .. k]}
<1>5. 0 \in A
  BY <1>3, <1>4 DEF Steps
<1>6. ASSUME NEW k \in Nat, k \in A PROVE k + 1 \in A
  <2> SUFFICES ASSUME k + 1 <= n PROVE g[1 .. k + 1] = l[1 .. k + 1]
    OBVIOUS
  <2>1. g[1 .. k] = l[1 .. k] /\ k + 1 <= p /\ k + 1 \in 1 .. n
    BY <1>1, <1>2, <1>6
  <2> QED
    BY <1>2, <1>3, <1>4, <2>1 DEF Steps
<1> HIDE DEF A
<1>7. Nat \subseteq A
  BY <1>5, <1>6, NatSetInduction
<1>8. g[1 .. n] = l[1 .. n]
  BY <1>2, <1>7 DEF A
<1>9. l[1 .. p] = op(l[1 .. n], e)
  BY <1>1, <1>2, <1>4 DEF Steps
<1> QED
  BY <1>1, <1>3, <1>4, <1>8, <1>9

\* A fold over two sequences is the fold over the second from the first's result.
LEMMA FoldConcat ==
  \A S : \A s, t \in Seq(S) : \A b : Fold(b, s \o t) = Fold(Fold(b, s), t)
<1> SUFFICES ASSUME NEW S, NEW s \in Seq(S), NEW b
             PROVE  \A t \in Seq(S) : Fold(b, s \o t) = Fold(Fold(b, s), t)
  OBVIOUS
<1> DEFINE A == {t \in Seq(S) : Fold(b, s \o t) = Fold(Fold(b, s), t)}
<1>1. <<>> \in A
  <2>1. s \o <<>> = s /\ <<>> \in Seq(S)
    OBVIOUS
  <2> QED BY <2>1, FoldEmpty
<1>2. ASSUME NEW t \in Seq(S), NEW e \in S, t \in A PROVE Append(t, e) \in A
  <2>1. s \o Append(t, e) = Append(s \o t, e) /\ s \o t \in Seq(S) /\ Append(t, e) \in Seq(S)
    OBVIOUS
  <2>2. /\ Fold(b, Append(s \o t, e)) = op(Fold(b, s \o t), e)
        /\ Fold(Fold(b, s), Append(t, e)) = op(Fold(Fold(b, s), t), e)
    BY <2>1, FoldAppend
  <2> QED BY <1>2, <2>1, <2>2
<1> HIDE DEF A
<1>3. Seq(S) \subseteq A
  BY <1>1, <1>2, SeqSetInduction
<1> QED
  BY <1>3 DEF A

\* A fold over four sequences, one after the other.
LEMMA FoldFour ==
  \A S : \A s, t, u, v \in Seq(S) : \A b :
    Fold(b, s \o t \o u \o v) = Fold(Fold(Fold(Fold(b, s), t), u), v)
<1> SUFFICES ASSUME NEW S, NEW s \in Seq(S), NEW t \in Seq(S), NEW u \in Seq(S),
                    NEW v \in Seq(S), NEW b
             PROVE  Fold(b, s \o t \o u \o v) = Fold(Fold(Fold(Fold(b, s), t), u), v)
  OBVIOUS
<1>1. s \o t \in Seq(S) /\ s \o t \o u \in Seq(S)
  OBVIOUS
<1>2. /\ Fold(b, s \o t) = Fold(Fold(b, s), t)
      /\ Fold(b, s \o t \o u) = Fold(Fold(b, s \o t), u)
      /\ Fold(b, s \o t \o u \o v) = Fold(Fold(b, s \o t \o u), v)
  BY <1>1, FoldConcat
<1> QED
  BY <1>2

-----------------------------------------------------------------------------
(***************************************************************************)
(* Folds whose value is a set that op maps element by element: a buffer is *)
(* read by such a fold, field by field, into the messages it may become.   *)
(***************************************************************************)
Pointwise == \A R, f, x : x \in op(R, f) <=> \E m \in R : x \in op({m}, f)

\* So does the fold as a whole.
LEMMA FoldPointwise ==
  Pointwise => \A S : \A s \in Seq(S) : \A R, x :
    x \in Fold(R, s) <=> \E m \in R : x \in Fold({m}, s)
<1> SUFFICES ASSUME Pointwise, NEW S
             PROVE  \A s \in Seq(S) : \A R, x :
                      x \in Fold(R, s) <=> \E m \in R : x \in Fold({m}, s)
  OBVIOUS
<1> DEFINE A == {s \in Seq(S) : \A R, x :
                   x \in Fold(R, s) <=> \E m \in R : x \in Fold({m}, s)}
<1>1. <<>> \in A
  <2>1. <<>> \in Seq(S)
    OBVIOUS
  <2>2. \A R, x : x \in Fold(R, <<>>) <=> \E m \in R : x \in Fold({m}, <<>>)
    <3>1. \A R, x : x \in R <=> \E m \in R : x \in {m}
      OBVIOUS
    <3> QED BY <3>1, FoldEmpty
  <2> QED BY <2>1, <2>2
<1>2. ASSUME NEW s \in Seq(S), NEW f \in S, s \in A PROVE Append(s, f) \in A
  <2>1. Append(s, f) \in Seq(S)
    OBVIOUS
  <2> SUFFICES ASSUME NEW R, NEW x
               PROVE  x \in Fold(R, Append(s, f)) <=>
                        \E m \in R : x \in Fold({m}, Append(s, f))
    BY <2>1
  <2>2. \A b : Fold(b, Append(s, f)) = op(Fold(b, s), f)
    BY FoldAppend
  <2>3. \A y : y \in Fold(R, s) <=> \E m \in R : y \in Fold({m}, s)
    BY <1>2
  <2>4. \A Q : x \in op(Q, f) <=> \E m \in Q : x \in op({m}, f)
    BY DEF Pointwise
  <2>5. x \in op(Fold(R, s), f) <=> \E n \in Fold(R, s) : x \in op({n}, f)
    BY <2>4
  <2>6. \A m : x \in op(Fold({m}, s), f) <=> \E n \in Fold({m}, s) : x \in op({n}, f)
    BY <2>4
  <2>7. x \in op(Fold(R, s), f) <=> \E m \in R : x \in op(Fold({m}, s), f)
    BY <2>3, <2>5, <2>6
  <2> QED
    BY <2>2, <2>7
<1> HIDE DEF A
<1>3. Seq(S) \subseteq A
  BY <1>1, <1>2, SeqSetInduction
<1> QED
  BY <1>3 DEF A

\* Reading on from each of the messages that were read.
LEMMA FoldOn ==
  Pointwise => \A S : \A s, t \in Seq(S) : \A b, x :
    x \in Fold(b, s \o t) <=> \E n \in Fold(b, s) : x \in Fold({n}, t)
<1> SUFFICES ASSUME Pointwise, NEW S, NEW s \in Seq(S), NEW t \in Seq(S), NEW b, NEW x
             PROVE  x \in Fold(b, s \o t) <=> \E n \in Fold(b, s) : x \in Fold({n}, t)
  OBVIOUS
<1>1. Fold(b, s \o t) = Fold(Fold(b, s), t)
  BY FoldConcat
<1>2. x \in Fold(Fold(b, s), t) <=> \E n \in Fold(b, s) : x \in Fold({n}, t)
  BY FoldPointwise
<1> QED
  BY <1>1, <1>2

\* One field.
LEMMA FoldOne == \A f, b : Fold(b, <<f>>) = op(b, f)
<1> SUFFICES ASSUME NEW f, NEW b PROVE Fold(b, <<f>>) = op(b, f)
  OBVIOUS
<1>1. <<>> \in Seq({f}) /\ f \in {f} /\ <<f>> = Append(<<>>, f)
  OBVIOUS
<1>2. Fold(b, Append(<<>>, f)) = op(Fold(b, <<>>), f)
  BY <1>1, FoldAppend
<1> QED
  BY <1>1, <1>2, FoldEmpty

\* A set of messages that op stays in.
Closed(M, S) == \A m \in M, f \in S : op({m}, f) \subseteq M

\* Then a whole buffer stays in it.
LEMMA FoldClosed ==
  Pointwise => \A S, M : Closed(M, S) =>
    \A s \in Seq(S) : \A m \in M : Fold({m}, s) \subseteq M
<1> SUFFICES ASSUME Pointwise, NEW S, NEW M, Closed(M, S)
             PROVE  \A s \in Seq(S) : \A m \in M : Fold({m}, s) \subseteq M
  OBVIOUS
<1> DEFINE A == {s \in Seq(S) : \A m \in M : Fold({m}, s) \subseteq M}
<1>1. <<>> \in A
  BY FoldEmpty
<1>2. ASSUME NEW s \in Seq(S), NEW f \in S, s \in A PROVE Append(s, f) \in A
  <2>1. Append(s, f) \in Seq(S)
    OBVIOUS
  <2>2. ASSUME NEW m \in M, NEW x \in Fold({m}, Append(s, f)) PROVE x \in M
    <3>1. Fold({m}, Append(s, f)) = op(Fold({m}, s), f)
      BY FoldAppend
    <3>2. PICK n \in Fold({m}, s) : x \in op({n}, f)
      <4>1. x \in op(Fold({m}, s), f)
        BY <2>2, <3>1
      <4> QED BY <4>1 DEF Pointwise
    <3>3. n \in M
      BY <1>2
    <3> QED BY <3>2, <3>3 DEF Closed
  <2> QED BY <2>1, <2>2
<1> HIDE DEF A
<1>3. Seq(S) \subseteq A
  BY <1>1, <1>2, SeqSetInduction
<1> QED
  BY <1>3 DEF A

(***************************************************************************)
(* If whatever a field makes of the second of two related messages is      *)
(* related to something that it makes of the first, so it is with a whole  *)
(* buffer.                                                                 *)
(***************************************************************************)
Follows(Rel, S) ==
  \A r \in Rel, f \in S : \A q \in op({r[2]}, f) : \E n \in op({r[1]}, f) : <<n, q>> \in Rel

\* From related messages, a buffer is read into related ones.
LEMMA FoldFollows ==
  Pointwise => \A S, Rel : Follows(Rel, S) =>
    \A s \in Seq(S) : \A m, p : <<m, p>> \in Rel =>
      \A q \in Fold({p}, s) : \E n \in Fold({m}, s) : <<n, q>> \in Rel
<1> SUFFICES ASSUME Pointwise, NEW S, NEW Rel, Follows(Rel, S)
             PROVE  \A s \in Seq(S) : \A m, p : <<m, p>> \in Rel =>
                      \A q \in Fold({p}, s) : \E n \in Fold({m}, s) : <<n, q>> \in Rel
  OBVIOUS
<1> DEFINE A == {s \in Seq(S) : \A m, p : <<m, p>> \in Rel =>
                   \A q \in Fold({p}, s) : \E n \in Fold({m}, s) : <<n, q>> \in Rel}
<1>1. <<>> \in A
  <2>1. <<>> \in Seq(S)
    OBVIOUS
  <2>2. \A m : Fold({m}, <<>>) = {m}
    BY FoldEmpty
  <2>3. ASSUME NEW m, NEW p, <<m, p>> \in Rel, NEW q \in Fold({p}, <<>>)
        PROVE  \E n \in Fold({m}, <<>>) : <<n, q>> \in Rel
    <3>1. q = p /\ m \in Fold({m}, <<>>)
      BY <2>2
    <3> QED BY <2>3, <3>1
  <2> QED BY <2>1, <2>2, <2>3
<1>2. ASSUME NEW s \in Seq(S), NEW f \in S, s \in A PROVE Append(s, f) \in A
  <2>1. Append(s, f) \in Seq(S)
    OBVIOUS
  <2>2. ASSUME NEW m, NEW p, <<m, p>> \in Rel, NEW q \in Fold({p}, Append(s, f))
        PROVE  \E n \in Fold({m}, Append(s, f)) : <<n, q>> \in Rel
    <3>1. /\ Fold({m}, Append(s, f)) = op(Fold({m}, s), f)
          /\ Fold({p}, Append(s, f)) = op(Fold({p}, s), f)
      BY FoldAppend
    <3>2. PICK q1 \in Fold({p}, s) : q \in op({q1}, f)
      <4>1. q \in op(Fold({p}, s), f)
        BY <2>2, <3>1
      <4> QED BY <4>1 DEF Pointwise
    <3>3. PICK n1 \in Fold({m}, s) : <<n1, q1>> \in Rel
      BY <1>2, <2>2
    <3>4. PICK n \in op({n1}, f) : <<n, q>> \in Rel
      <4>1. PICK r : r = <<n1, q1>>
        OBVIOUS
      <4> QED BY <3>2, <3>3, <4>1 DEF Follows
    <3>5. n \in op(Fold({m}, s), f)
      BY <3>3, <3>4 DEF Pointwise
    <3> QED BY <3>1, <3>4, <3>5
  <2> QED BY <2>1, <2>2
<1> HIDE DEF A
<1>3. Seq(S) \subseteq A
  BY <1>1, <1>2, SeqSetInduction
<1> QED
  BY <1>3 DEF A

(***************************************************************************)
(* A field that is put into a buffer, when op makes of it a message that   *)
(* is related to the one before: so is what the whole buffer is read as.   *)
(***************************************************************************)
LEMMA FoldInserted ==
  ASSUME Pointwise, NEW S, NEW M, NEW Rel, NEW f, Closed(M, S), Follows(Rel, S),
         \A m \in M : \A p \in op({m}, f) : <<m, p>> \in Rel,
         NEW s \in Seq(S), NEW t \in Seq(S), NEW m \in M,
         NEW q \in Fold({m}, (s \o <<f>>) \o t)
  PROVE  \E n \in Fold({m}, s \o t) : <<n, q>> \in Rel
<1>1. PICK T : T = S \cup {f}
  OBVIOUS
<1>2. s \in Seq(T) /\ t \in Seq(T) /\ <<f>> \in Seq(T) /\ s \o <<f>> \in Seq(T)
  BY <1>1
<1>3. PICK p \in Fold({m}, s \o <<f>>) : q \in Fold({p}, t)
  BY <1>2, FoldOn
<1>4. PICK n \in Fold({m}, s) : p \in Fold({n}, <<f>>)
  BY <1>2, <1>3, FoldOn
<1>5. n \in M /\ p \in op({n}, f)
  BY <1>4, FoldOne, FoldClosed
<1>6. PICK x \in Fold({n}, t) : <<x, q>> \in Rel
  BY <1>3, <1>5, FoldFollows
<1> QED
  BY <1>4, <1>6, FoldOn

\* The other way round: a buffer that is not refused is not refused with it.
LEMMA FoldAccepted ==
  ASSUME Pointwise, NEW S, NEW M, NEW Rel, NEW f, Closed(M, S), Follows(Rel, S),
         \A m \in M : \E p \in op({m}, f) : <<p, m>> \in Rel,
         NEW s \in Seq(S), NEW t \in Seq(S), NEW m \in M, NEW x \in Fold({m}, s \o t)
  PROVE  \E q : q \in Fold({m}, (s \o <<f>>) \o t)
<1>1. PICK T : T = S \cup {f}
  OBVIOUS
<1>2. s \in Seq(T) /\ t \in Seq(T) /\ <<f>> \in Seq(T) /\ s \o <<f>> \in Seq(T)
  BY <1>1
<1>3. PICK n \in Fold({m}, s) : x \in Fold({n}, t)
  BY FoldOn
<1>4. PICK p \in op({n}, f) : <<p, n>> \in Rel
  BY <1>3, FoldClosed
<1>5. p \in Fold({m}, s \o <<f>>)
  <2>1. p \in Fold({n}, <<f>>)
    BY <1>4, FoldOne
  <2> QED BY <1>2, <1>3, <2>1, FoldOn
<1>6. PICK q \in Fold({p}, t) : <<q, x>> \in Rel
  BY <1>3, <1>4, FoldFollows
<1> QED
  BY <1>2, <1>5, <1>6, FoldOn

\* A buffer with a field that op refuses is refused.
LEMMA FoldRefused ==
  ASSUME Pointwise, NEW S, NEW M, NEW f, Closed(M, S), \A m \in M : op({m}, f) = {},
         NEW s \in Seq(S), NEW t \in Seq(S), NEW m \in M
  PROVE  Fold({m}, (s \o <<f>>) \o t) = {}
<1> SUFFICES ASSUME NEW q \in Fold({m}, (s \o <<f>>) \o t)
             PROVE  FALSE
  OBVIOUS
<1>1. PICK T : T = S \cup {f}
  OBVIOUS
<1>2. s \in Seq(T) /\ t \in Seq(T) /\ <<f>> \in Seq(T) /\ s \o <<f>> \in Seq(T)
  BY <1>1
<1>3. PICK p \in Fold({m}, s \o <<f>>) : q \in Fold({p}, t)
  BY <1>2, FoldOn
<1>4. PICK n \in Fold({m}, s) : p \in Fold({n}, <<f>>)
  BY <1>2, <1>3, FoldOn
<1> QED
  BY <1>4, FoldOne, FoldClosed

\* Concatenation is associative.
LEMMA Associative == \A S : \A s, t, u \in Seq(S) : (s \o t) \o u = s \o (t \o u)
OBVIOUS

\* Fields that op adds to a record, one by one.
Extended(m, u) == [m EXCEPT !.unknownFields = @ \o u]

\* Two extensions are one.
LEMMA ExtendedTwice ==
  ASSUME NEW S, NEW m, m.unknownFields \in Seq(S), "unknownFields" \in DOMAIN m,
         NEW u \in Seq(S), NEW f \in S
  PROVE  Extended(Extended(m, u), <<f>>) = Extended(m, Append(u, f))
<1>1. (m.unknownFields \o u) \o <<f>> = m.unknownFields \o Append(u, f)
  <2>1. PICK w \in Seq(S), v \in Seq(S) : w = m.unknownFields /\ v = <<f>>
    <3>1. <<f>> \in Seq(S)
      OBVIOUS
    <3> QED BY <3>1
  <2>2. Append(u, f) = u \o v
    BY <2>1
  <2>3. (w \o u) \o v = w \o (u \o v)
    BY Associative
  <2> QED BY <2>1, <2>2, <2>3
<1> QED
  BY <1>1 DEF Extended

Extends(M, U, S) ==
  /\ S \subseteq U
  /\ \A m \in M : /\ m = [x \in DOMAIN m |-> m[x]]
                  /\ "unknownFields" \in DOMAIN m
                  /\ m.unknownFields \in Seq(U)
  /\ \A m \in M, f \in S : op({m}, f) = {Extended(m, <<f>>)}
  /\ \A m \in M, u \in Seq(S) : Extended(m, u) \in M

\* A buffer of such fields is added as it is.
LEMMA FoldExtended ==
  \A M, U, S : Extends(M, U, S) =>
    \A u \in Seq(S) : \A m \in M : Fold({m}, u) = {Extended(m, u)}
<1> SUFFICES ASSUME NEW M, NEW U, NEW S, S \subseteq U,
                    \A m \in M : /\ m = [x \in DOMAIN m |-> m[x]]
                                 /\ "unknownFields" \in DOMAIN m
                                 /\ m.unknownFields \in Seq(U),
                    \A m \in M, f \in S : op({m}, f) = {Extended(m, <<f>>)},
                    \A m \in M, u \in Seq(S) : Extended(m, u) \in M
             PROVE  \A u \in Seq(S) : \A m \in M : Fold({m}, u) = {Extended(m, u)}
  BY DEF Extends
<1> DEFINE A == {u \in Seq(S) : \A m \in M : Fold({m}, u) = {Extended(m, u)}}
<1>1. <<>> \in A
  <2>1. ASSUME NEW m \in M PROVE Extended(m, <<>>) = m
    <3>1. m.unknownFields \o <<>> = m.unknownFields
      OBVIOUS
    <3> QED BY <3>1 DEF Extended
  <2>2. <<>> \in Seq(S)
    OBVIOUS
  <2>3. ASSUME NEW m \in M PROVE Fold({m}, <<>>) = {Extended(m, <<>>)}
    BY <2>1, FoldEmpty
  <2> QED BY <2>2, <2>3
<1>2. ASSUME NEW u \in Seq(S), NEW f \in S, u \in A PROVE Append(u, f) \in A
  <2>1. Append(u, f) \in Seq(S)
    OBVIOUS
  <2> SUFFICES ASSUME NEW m \in M PROVE Fold({m}, Append(u, f)) = {Extended(m, Append(u, f))}
    BY <2>1
  <2>2. Fold({m}, Append(u, f)) = op({Extended(m, u)}, f)
    <3>1. Fold({m}, u) = {Extended(m, u)}
      BY <1>2
    <3>2. Fold({m}, Append(u, f)) = op(Fold({m}, u), f)
      BY FoldAppend
    <3> QED BY <3>1, <3>2
  <2>3. op({Extended(m, u)}, f) = {Extended(Extended(m, u), <<f>>)}
    OBVIOUS
  <2>4. Extended(Extended(m, u), <<f>>) = Extended(m, Append(u, f))
    <3>1. m.unknownFields \in Seq(U) /\ "unknownFields" \in DOMAIN m /\ f \in U
      OBVIOUS
    <3>2. u \in Seq(U)
      OBVIOUS
    <3> QED BY <3>1, <3>2, ExtendedTwice
  <2> QED
    BY <2>2, <2>3, <2>4
<1> HIDE DEF A
<1>3. Seq(S) \subseteq A
  BY <1>1, <1>2, SeqSetInduction
<1> QED
  BY <1>3 DEF A

-----------------------------------------------------------------------------
\* Folds that sum up numbers.
Additive(S) == \A e \in S : op(0, e) \in Nat /\ \A n \in Nat : op(n, e) = n + op(0, e)

\* Such a fold adds its sum to what it begins with.
LEMMA FoldAdds ==
  \A S : Additive(S) => \A s \in Seq(S) :
    Fold(0, s) \in Nat /\ \A n \in Nat : Fold(n, s) = n + Fold(0, s)
<1> SUFFICES ASSUME NEW S, Additive(S)
             PROVE  \A s \in Seq(S) :
                      Fold(0, s) \in Nat /\ \A n \in Nat : Fold(n, s) = n + Fold(0, s)
  OBVIOUS
<1> DEFINE A == {s \in Seq(S) : Fold(0, s) \in Nat /\ \A n \in Nat : Fold(n, s) = n + Fold(0, s)}
<1>1. <<>> \in A
  <2>1. <<>> \in Seq(S) /\ \A n : Fold(n, <<>>) = n
    BY FoldEmpty
  <2> QED BY <2>1
<1>2. ASSUME NEW s \in Seq(S), NEW e \in S, s \in A PROVE Append(s, e) \in A
  <2>1. Append(s, e) \in Seq(S) /\ \A n : Fold(n, Append(s, e)) = op(Fold(n, s), e)
    BY FoldAppend
  <2>2. Fold(0, s) \in Nat /\ \A n \in Nat : Fold(n, s) = n + Fold(0, s)
    BY <1>2
  <2>3. op(0, e) \in Nat /\ \A n \in Nat : op(n, e) = n + op(0, e)
    BY DEF Additive
  <2>4. Fold(0, Append(s, e)) = Fold(0, s) + op(0, e)
    BY <2>1, <2>2, <2>3
  <2>5. ASSUME NEW n \in Nat PROVE Fold(n, Append(s, e)) = n + (Fold(0, s) + op(0, e))
    <3>1. Fold(n, s) = n + Fold(0, s) /\ n + Fold(0, s) \in Nat
      BY <2>2
    <3>2. op(n + Fold(0, s), e) = (n + Fold(0, s)) + op(0, e)
      BY <2>3, <3>1
    <3> QED BY <2>1, <2>2, <2>3, <3>1, <3>2
  <2>6. Fold(0, s) + op(0, e) \in Nat
    <3>1. PICK x \in Nat, y \in Nat : x = Fold(0, s) /\ y = op(0, e)
      BY <2>2, <2>3
    <3> QED BY <3>1
  <2> QED BY <2>1, <2>4, <2>5, <2>6
<1> HIDE DEF A
<1>3. Seq(S) \subseteq A
  BY <1>1, <1>2, SeqSetInduction
<1> QED
  BY <1>3 DEF A

\* The sum over two sequences is the sum of their sums.
LEMMA FoldSum ==
  \A S : Additive(S) => \A s, t \in Seq(S) :
    Fold(0, s) \in Nat /\ Fold(0, t) \in Nat /\ Fold(0, s \o t) = Fold(0, s) + Fold(0, t)
<1> SUFFICES ASSUME NEW S, Additive(S), NEW s \in Seq(S), NEW t \in Seq(S)
             PROVE  /\ Fold(0, s) \in Nat /\ Fold(0, t) \in Nat
                    /\ Fold(0, s \o t) = Fold(0, s) + Fold(0, t)
  OBVIOUS
<1>1. Fold(0, s \o t) = Fold(Fold(0, s), t)
  BY FoldConcat
<1>2. /\ Fold(0, s) \in Nat /\ Fold(0, t) \in Nat
      /\ \A n \in Nat : Fold(n, t) = n + Fold(0, t)
  BY FoldAdds
<1> QED
  BY <1>1, <1>2

-----------------------------------------------------------------------------
(***************************************************************************)
(* Messages M whose unknown fields are of U, and the fields S of their     *)
(* buffers, of which op adds those of N to the unknown ones and reads the  *)
(* others into the rest of the message, which does not depend on the       *)
(* unknown ones.                                                           *)
(***************************************************************************)
Replaced(m, u) == [m EXCEPT !.unknownFields = u]

Codec(M, U, S, N) ==
  /\ Pointwise
  /\ N \subseteq U
  /\ \A m \in M : /\ m = [x \in DOMAIN m |-> m[x]]
                  /\ "unknownFields" \in DOMAIN m
                  /\ m.unknownFields \in Seq(U)
                  /\ \A u \in Seq(U) : Replaced(m, u) \in M
                  /\ \A f \in N : op({m}, f) = {Extended(m, <<f>>)}
                  /\ \A f \in S \ N :
                       /\ op({m}, f) \subseteq M
                       /\ \A n \in op({m}, f) : n.unknownFields = m.unknownFields
                       /\ \A u \in Seq(U) : \A q :
                            q \in op({Replaced(m, u)}, f) <=>
                              \E n \in op({m}, f) : q = Replaced(n, u)

\* Other unknown fields make another message.
LEMMA CodecReplaced ==
  ASSUME NEW M, NEW U, NEW S, NEW N, Codec(M, U, S, N), NEW m \in M, NEW u \in Seq(U)
  PROVE  Replaced(m, u) \in M
BY DEF Codec

\* What a known field does is blind to the unknown ones.
LEMMA CodecBlind ==
  ASSUME NEW M, NEW U, NEW S, NEW N, Codec(M, U, S, N), NEW m \in M, NEW f \in S \ N,
         NEW u \in Seq(U)
  PROVE  \A q : q \in op({Replaced(m, u)}, f) <=> \E n \in op({m}, f) : q = Replaced(n, u)
BY DEF Codec

\* u with f in the i-th place.
Inserted(u, i, f) == SubSeq(u, 1, i - 1) \o <<f>> \o SubSeq(u, i, Len(u))

\* An insertion, and an Append after it.
LEMMA InsertedSeq ==
  ASSUME NEW U, NEW u \in Seq(U), NEW f \in U, NEW g \in U, NEW i \in 1 .. Len(u) + 1
  PROVE  /\ Inserted(u, i, f) \in Seq(U)
         /\ i \in 1 .. Len(Append(u, g)) + 1
         /\ Append(Inserted(u, i, f), g) = Inserted(Append(u, g), i, f)
<1> DEFINE a == SubSeq(u, 1, i - 1)
           b == SubSeq(u, i, Len(u))
           c == SubSeq(Append(u, g), i, Len(u) + 1)
<1>1. a \in Seq(U) /\ b \in Seq(U) /\ <<f>> \in Seq(U) /\ Len(u) \in Nat
  OBVIOUS
<1>2. Inserted(u, i, f) \in Seq(U)
  BY <1>1 DEF Inserted
<1>3. Append(u, g) \in Seq(U) /\ Len(Append(u, g)) = Len(u) + 1
  OBVIOUS
<1>4. SubSeq(Append(u, g), 1, i - 1) = a
  OBVIOUS
<1>5. c = Append(b, g)
  OBVIOUS
<1>6. (a \o <<f>>) \o Append(b, g) = Append((a \o <<f>>) \o b, g)
  <2>1. PICK x \in Seq(U), y \in Seq(U) : x = a \o <<f>> /\ y = b
    <3>1. a \o <<f>> \in Seq(U)
      <4> HIDE DEF a
      <4> QED BY <1>1
    <3> QED BY <1>1, <3>1
  <2>2. x \o Append(y, g) = Append(x \o y, g)
    OBVIOUS
  <2> QED BY <2>1, <2>2
<1>7. i \in 1 .. Len(Append(u, g)) + 1
  BY <1>3
<1>8. Inserted(Append(u, g), i, f) = (a \o <<f>>) \o c
  BY <1>3, <1>4 DEF Inserted
<1>9. Inserted(u, i, f) = (a \o <<f>>) \o b
  BY DEF Inserted
<1> HIDE DEF a, b, c
<1> QED
  BY <1>2, <1>5, <1>6, <1>7, <1>8, <1>9

\* Two messages of which the second has f among its unknown fields.
Wider(M, f) ==
  {r \in M \X M : \E i \in 1 .. Len(r[1].unknownFields) + 1 :
                    r[2] = Replaced(r[1], Inserted(r[1].unknownFields, i, f))}
Narrower(M, f) == {r \in M \X M : <<r[2], r[1]>> \in Wider(M, f)}

\* What a field makes of either of them has a counterpart in what it makes of the other.
Alike(m, p, g, M, f) ==
  /\ \A q \in op({p}, g) : \E n \in op({m}, g) : <<n, q>> \in Wider(M, f)
  /\ \A n \in op({m}, g) : \E q \in op({p}, g) : <<n, q>> \in Wider(M, f)

\* A field that is read into both of two messages that differ by f keeps them so.
LEMMA WiderStep ==
  ASSUME NEW M, NEW U, NEW S, NEW N, Codec(M, U, S, N), NEW f \in U,
         NEW m, NEW p, <<m, p>> \in Wider(M, f), NEW g \in S \cup N
  PROVE  Alike(m, p, g, M, f)
<1>1. m \in M /\ p \in M
  BY DEF Wider
<1>2. PICK u \in Seq(U) : u = m.unknownFields
  BY <1>1 DEF Codec
<1>3. PICK i \in 1 .. Len(u) + 1 : p = Replaced(m, Inserted(u, i, f))
  BY <1>2 DEF Wider
<1>4. Inserted(u, i, f) \in Seq(U)
  BY InsertedSeq
<1>5. "unknownFields" \in DOMAIN m
  BY <1>1 DEF Codec
<1>6. CASE g \in N
  <2>1. op({m}, g) = {Extended(m, <<g>>)} /\ op({p}, g) = {Extended(p, <<g>>)}
    BY <1>1, <1>6 DEF Codec
  <2>2. PICK n, q : n = Replaced(m, Append(u, g)) /\ q = Replaced(m, Append(Inserted(u, i, f), g))
    OBVIOUS
  <2>3. Extended(m, <<g>>) = n
    <3>1. u \o <<g>> = Append(u, g)
      OBVIOUS
    <3> QED BY <1>2, <2>2, <3>1 DEF Extended, Replaced
  <2>4. Extended(p, <<g>>) = q
    <3>1. PICK v \in Seq(U) : v = Inserted(u, i, f)
      BY <1>4
    <3>2. v \o <<g>> = Append(v, g)
      OBVIOUS
    <3>3. p.unknownFields = v
      BY <1>3, <1>5, <3>1 DEF Replaced
    <3>4. Extended(p, <<g>>) = Replaced(p, Append(v, g))
      BY <3>2, <3>3 DEF Extended, Replaced
    <3>5. Replaced(p, Append(v, g)) = Replaced(m, Append(v, g))
      BY <1>3 DEF Replaced
    <3> QED BY <2>2, <3>1, <3>4, <3>5
  <2>5. g \in U
    BY <1>6 DEF Codec
  <2>6. /\ Append(u, g) \in Seq(U)
        /\ i \in 1 .. Len(Append(u, g)) + 1
        /\ Append(Inserted(u, i, f), g) = Inserted(Append(u, g), i, f)
        /\ Inserted(Append(u, g), i, f) \in Seq(U)
    <3>1. Append(u, g) \in Seq(U)
      BY <2>5
    <3>2. /\ i \in 1 .. Len(Append(u, g)) + 1
          /\ Append(Inserted(u, i, f), g) = Inserted(Append(u, g), i, f)
      BY <2>5, InsertedSeq
    <3>3. Append(Inserted(u, i, f), g) \in Seq(U)
      BY <1>4, <2>5
    <3> QED BY <3>1, <3>2, <3>3
  <2>7. n \in M /\ q \in M
    BY <1>1, <2>2, <2>6 DEF Codec
  <2>8. n.unknownFields = Append(u, g) /\ q = Replaced(n, Inserted(Append(u, g), i, f))
    BY <1>5, <2>2, <2>6 DEF Replaced
  <2>9. <<n, q>> \in Wider(M, f)
    BY <2>6, <2>7, <2>8 DEF Wider
  <2> QED BY <2>1, <2>3, <2>4, <2>9 DEF Alike
<1>7. CASE g \in S \ N
  <2>1. PICK v \in Seq(U) : v = Inserted(u, i, f)
    BY <1>4
  <2>2. \A q : q \in op({p}, g) <=> \E n \in op({m}, g) : q = Replaced(n, v)
    <3>1. p = Replaced(m, v)
      BY <1>3, <2>1
    <3>2. \A q : q \in op({Replaced(m, v)}, g) <=> \E n \in op({m}, g) : q = Replaced(n, v)
      BY <1>1, <1>7, CodecBlind
    <3> QED BY <3>1, <3>2
  <2>3. ASSUME NEW n \in op({m}, g) PROVE <<n, Replaced(n, v)>> \in Wider(M, f)
    <3>1. n \in M /\ n.unknownFields = u
      BY <1>1, <1>2, <1>7 DEF Codec
    <3>2. Replaced(n, v) \in M
      BY <3>1 DEF Codec
    <3> QED BY <2>1, <3>1, <3>2 DEF Wider
  <2> QED BY <2>2, <2>3 DEF Alike
<1> QED
  BY <1>6, <1>7

\* Messages that differ by f do so to the end of the buffer.
LEMMA WiderFollows ==
  ASSUME NEW M, NEW U, NEW S, NEW N, Codec(M, U, S, N), NEW f \in U
  PROVE  Follows(Wider(M, f), S) /\ Follows(Narrower(M, f), S) /\ Closed(M, S)
<1>1. \A m, p : <<m, p>> \in Wider(M, f) => \A g \in S : Alike(m, p, g, M, f)
  <2> SUFFICES ASSUME NEW m, NEW p, <<m, p>> \in Wider(M, f), NEW g \in S
               PROVE  Alike(m, p, g, M, f)
    OBVIOUS
  <2>1. g \in S \cup N
    OBVIOUS
  <2> QED BY <2>1, WiderStep
<1>2. Follows(Wider(M, f), S)
  <2> SUFFICES ASSUME NEW r \in Wider(M, f), NEW g \in S, NEW q \in op({r[2]}, g)
               PROVE  \E n \in op({r[1]}, g) : <<n, q>> \in Wider(M, f)
    BY DEF Follows
  <2>1. PICK m, p : r = <<m, p>>
    BY DEF Wider
  <2>2. r[1] = m /\ r[2] = p /\ <<m, p>> \in Wider(M, f) /\ g \in S \cup N
    BY <2>1
  <2>3. \A y \in op({p}, g) : \E n \in op({m}, g) : <<n, y>> \in Wider(M, f)
    BY <1>1, <2>2 DEF Alike
  <2> QED BY <2>2, <2>3
<1>3. Follows(Narrower(M, f), S)
  <2> SUFFICES ASSUME NEW r \in Narrower(M, f), NEW g \in S, NEW q \in op({r[2]}, g)
               PROVE  \E n \in op({r[1]}, g) : <<n, q>> \in Narrower(M, f)
    BY DEF Follows
  <2>1. <<r[2], r[1]>> \in Wider(M, f)
    BY DEF Narrower
  <2>2. PICK n \in op({r[1]}, g) : <<q, n>> \in Wider(M, f)
    <3>1. PICK m, p : m = r[2] /\ p = r[1] /\ <<m, p>> \in Wider(M, f)
      BY <2>1
    <3>2. \A y \in op({m}, g) : \E n \in op({p}, g) : <<y, n>> \in Wider(M, f)
      BY <1>1, <3>1 DEF Alike
    <3> QED BY <3>1, <3>2
  <2>3. <<n, q>> \in Narrower(M, f)
    BY <2>2 DEF Narrower, Wider
  <2> QED BY <2>2, <2>3
<1>4. Closed(M, S)
  <2> SUFFICES ASSUME NEW m \in M, NEW g \in S PROVE op({m}, g) \subseteq M
    BY DEF Closed
  <2>1. CASE g \in N
    <3>1. op({m}, g) = {Extended(m, <<g>>)}
      BY <2>1 DEF Codec
    <3>2. m.unknownFields \o <<g>> \in Seq(U)
      <4>1. m.unknownFields \in Seq(U) /\ g \in U
        BY <2>1 DEF Codec
      <4> QED BY <4>1
    <3>3. Extended(m, <<g>>) \in M
      <4>1. Extended(m, <<g>>) = Replaced(m, m.unknownFields \o <<g>>)
        BY DEF Extended, Replaced
      <4> QED BY <3>2, <4>1, CodecReplaced
    <3> QED BY <3>1, <3>3
  <2>2. CASE g \notin N
    BY <2>2 DEF Codec
  <2> QED BY <2>1, <2>2
<1> QED
  BY <1>2, <1>3, <1>4

(***************************************************************************)
(* A buffer that is read as x is read, with an unknown field f anywhere in *)
(* it, as x with f among its unknown fields.                               *)
(***************************************************************************)
Gains(x, i, f) == [x EXCEPT !.unknownFields = Inserted(@, i, f)]
ReadWith(read, x, f) ==
  /\ read # {}
  /\ \A q \in read : \E i \in 1 .. Len(x.unknownFields) + 1 :
                      q = Gains(x, i, f)

\* With an unknown field in it, a buffer is read as before, but for this field.
LEMMA ReadWithUnknown ==
  \A M, U, S, N : Codec(M, U, S, N) => \A f \in U :
    (\A m \in M : op({m}, f) = {Extended(m, <<f>>)}) =>
      \A s, t \in Seq(S) : \A m, x \in M : Fold({m}, s \o t) = {x} =>
        ReadWith(Fold({m}, (s \o <<f>>) \o t), x, f)
<1> SUFFICES ASSUME NEW M, NEW U, NEW S, NEW N, Codec(M, U, S, N), NEW f \in U,
                    \A m \in M : op({m}, f) = {Extended(m, <<f>>)},
                    NEW s \in Seq(S), NEW t \in Seq(S), NEW m \in M, NEW x \in M,
                    Fold({m}, s \o t) = {x}
             PROVE  ReadWith(Fold({m}, (s \o <<f>>) \o t), x, f)
  OBVIOUS
<1>1. \A n \in M : \A p \in op({n}, f) : <<n, p>> \in Wider(M, f) /\ <<p, n>> \in Narrower(M, f)
  <2> SUFFICES ASSUME NEW n \in M, NEW p \in op({n}, f)
               PROVE  <<n, p>> \in Wider(M, f) /\ <<p, n>> \in Narrower(M, f)
    OBVIOUS
  <2>1. p = Extended(n, <<f>>)
    OBVIOUS
  <2>2. PICK u \in Seq(U) : u = n.unknownFields
    BY DEF Codec
  <2>3. Inserted(u, Len(u) + 1, f) = u \o <<f>> /\ u \o <<f>> \in Seq(U)
    <3>1. SubSeq(u, 1, (Len(u) + 1) - 1) = u /\ SubSeq(u, Len(u) + 1, Len(u)) = <<>>
      OBVIOUS
    <3>2. u \o <<f>> \in Seq(U)
      OBVIOUS
    <3>3. (u \o <<f>>) \o <<>> = u \o <<f>>
      BY <3>2
    <3> QED BY <3>1, <3>2, <3>3 DEF Inserted
  <2>4. p = Replaced(n, Inserted(u, Len(u) + 1, f))
    BY <2>1, <2>2, <2>3 DEF Extended, Replaced
  <2>5. p \in M
    BY <2>3, <2>4 DEF Codec
  <2>6. Len(u) + 1 \in 1 .. Len(u) + 1
    OBVIOUS
  <2>7. <<n, p>> \in Wider(M, f)
    BY <2>2, <2>4, <2>5, <2>6 DEF Wider
  <2> QED BY <2>5, <2>7 DEF Narrower
<1>2. Pointwise /\ Follows(Wider(M, f), S) /\ Follows(Narrower(M, f), S) /\ Closed(M, S)
  <2>1. Pointwise
    BY DEF Codec
  <2>2. Follows(Wider(M, f), S) /\ Follows(Narrower(M, f), S) /\ Closed(M, S)
    BY WiderFollows
  <2> QED BY <2>1, <2>2
<1>3. \A n \in M : \E p \in op({n}, f) : <<p, n>> \in Narrower(M, f)
  BY <1>1
<1>4. Fold({m}, (s \o <<f>>) \o t) # {}
  <2>1. PICK R : R = Narrower(M, f)
    OBVIOUS
  <2>2. /\ Pointwise /\ Closed(M, S) /\ Follows(R, S)
        /\ \A n \in M : \E p \in op({n}, f) : <<p, n>> \in R
    BY <1>2, <1>3, <2>1
  <2>3. x \in Fold({m}, s \o t)
    OBVIOUS
  <2>4. \E q : q \in Fold({m}, (s \o <<f>>) \o t)
    BY <2>2, <2>3, FoldAccepted
  <2> QED BY <2>4
<1>5. ASSUME NEW q \in Fold({m}, (s \o <<f>>) \o t)
      PROVE  \E i \in 1 .. Len(x.unknownFields) + 1 :
               q = Gains(x, i, f)
  <2>1. \A n \in M : \A p \in op({n}, f) : <<n, p>> \in Wider(M, f)
    BY <1>1
  <2>2. PICK n \in Fold({m}, s \o t) : <<n, q>> \in Wider(M, f)
    BY <1>2, <2>1, FoldInserted
  <2>3. n = x
    OBVIOUS
  <2> QED BY <2>2, <2>3 DEF Wider, Replaced, Gains
<1> QED
  BY <1>4, <1>5 DEF ReadWith

\* With a field that op refuses, it is refused.
LEMMA ReadWithRefused ==
  \A M, U, S, N : Codec(M, U, S, N) => \A f \in U :
    (\A m \in M : op({m}, f) = {}) =>
      \A s, t \in Seq(S) : \A m \in M : Fold({m}, (s \o <<f>>) \o t) = {}
<1> SUFFICES ASSUME NEW M, NEW U, NEW S, NEW N, Codec(M, U, S, N), NEW f \in U,
                    \A m \in M : op({m}, f) = {},
                    NEW s \in Seq(S), NEW t \in Seq(S), NEW m \in M
             PROVE  Fold({m}, (s \o <<f>>) \o t) = {}
  OBVIOUS
<1>1. Pointwise /\ Closed(M, S)
  <2>1. Pointwise
    BY DEF Codec
  <2> QED BY <2>1, WiderFollows
<1> QED
  BY <1>1, FoldRefused

-----------------------------------------------------------------------------
(***************************************************************************)
(* A field that sets one of the known fields of a message, to a value that *)
(* does not depend on the unknown ones.                                    *)
(***************************************************************************)
Sets(M, U, f) ==
  \A m \in M : \E name \in DOMAIN m \ {"unknownFields"} : \E v :
    /\ [m EXCEPT ![name] = v] \in M
    /\ \A u \in Seq(U) : op({Replaced(m, u)}, f) = {[Replaced(m, u) EXCEPT ![name] = v]}

Known(M, U) ==
  \A m \in M : /\ m = [x \in DOMAIN m |-> m[x]]
               /\ "unknownFields" \in DOMAIN m
               /\ m.unknownFields \in Seq(U)
               /\ \A u \in Seq(U) : Replaced(m, u) \in M

\* Known fields that set something and unknown ones that are kept make a codec.
LEMMA CodecOf ==
  \A M, U, S, N :
    /\ Pointwise /\ N \subseteq U /\ Known(M, U)
    /\ \A m \in M, f \in N : op({m}, f) = {Extended(m, <<f>>)}
    /\ \A f \in S \ N : Sets(M, U, f)
    => Codec(M, U, S, N)
<1> SUFFICES ASSUME NEW M, NEW U, NEW S, NEW N, Pointwise, N \subseteq U, Known(M, U),
                    \A m \in M, f \in N : op({m}, f) = {Extended(m, <<f>>)},
                    \A f \in S \ N : Sets(M, U, f)
             PROVE  Codec(M, U, S, N)
  OBVIOUS
<1>1. ASSUME NEW m \in M, NEW f \in S \ N
      PROVE  /\ op({m}, f) \subseteq M
             /\ \A n \in op({m}, f) : n.unknownFields = m.unknownFields
             /\ \A u \in Seq(U) : \A q :
                  q \in op({Replaced(m, u)}, f) <=> \E n \in op({m}, f) : q = Replaced(n, u)
  <2>1. /\ m = [x \in DOMAIN m |-> m[x]] /\ "unknownFields" \in DOMAIN m
        /\ m.unknownFields \in Seq(U)
    BY DEF Known
  <2>. PICK name \in DOMAIN m \ {"unknownFields"} : \E v :
         /\ [m EXCEPT ![name] = v] \in M
         /\ \A u \in Seq(U) : op({Replaced(m, u)}, f) = {[Replaced(m, u) EXCEPT ![name] = v]}
    BY DEF Sets
  <2>2. PICK v :
          /\ [m EXCEPT ![name] = v] \in M
          /\ \A u \in Seq(U) : op({Replaced(m, u)}, f) = {[Replaced(m, u) EXCEPT ![name] = v]}
    OBVIOUS
  <2>3. PICK n : n = [m EXCEPT ![name] = v]
    OBVIOUS
  <2>4. Replaced(m, m.unknownFields) = m
    BY <2>1 DEF Replaced
  <2>5. op({m}, f) = {n}
    BY <2>1, <2>2, <2>3, <2>4
  <2>6. n.unknownFields = m.unknownFields
    BY <2>1, <2>3
  <2>7. \A u : [Replaced(m, u) EXCEPT ![name] = v] = Replaced(n, u)
    BY <2>1, <2>2, <2>3 DEF Replaced
  <2>8. \A u \in Seq(U) : op({Replaced(m, u)}, f) = {Replaced(n, u)}
    BY <2>2, <2>7
  <2>9. op({m}, f) \subseteq M
    BY <2>2, <2>3, <2>5
  <2>10. \A u \in Seq(U) : \A q :
           q \in op({Replaced(m, u)}, f) <=> \E k \in op({m}, f) : q = Replaced(k, u)
    <3> SUFFICES ASSUME NEW u \in Seq(U), NEW q
                 PROVE  q \in op({Replaced(m, u)}, f) <=> \E k \in op({m}, f) : q = Replaced(k, u)
      OBVIOUS
    <3>1. op({Replaced(m, u)}, f) = {Replaced(n, u)}
      BY <2>8
    <3>2. (\E k \in op({m}, f) : q = Replaced(k, u)) <=> q = Replaced(n, u)
      BY <2>5
    <3>3. q \in op({Replaced(m, u)}, f) <=> q = Replaced(n, u)
      BY <3>1
    <3> QED BY <3>2, <3>3
  <2>11. \A k \in op({m}, f) : k.unknownFields = m.unknownFields
    BY <2>5, <2>6
  <2> QED BY <2>9, <2>10, <2>11
<1> QED
  BY <1>1 DEF Codec, Known

\* The unknown fields of a buffer are read as they are.
LEMMA CodecKept ==
  \A M, U, S, N : Codec(M, U, S, N) =>
    \A m \in M : \A u \in Seq(N) : Fold({m}, u) = {Extended(m, u)}
<1> SUFFICES ASSUME NEW M, NEW U, NEW S, NEW N, Codec(M, U, S, N)
             PROVE  \A m \in M : \A u \in Seq(N) : Fold({m}, u) = {Extended(m, u)}
  OBVIOUS
<1>1. /\ N \subseteq U
      /\ \A m \in M : /\ m = [x \in DOMAIN m |-> m[x]]
                      /\ "unknownFields" \in DOMAIN m
                      /\ m.unknownFields \in Seq(U)
      /\ \A m \in M, f \in N : op({m}, f) = {Extended(m, <<f>>)}
  BY DEF Codec
<1>2. ASSUME NEW m \in M, NEW u \in Seq(N) PROVE Extended(m, u) \in M
  <2>1. u \in Seq(U) /\ m.unknownFields \in Seq(U)
    BY <1>1
  <2>2. m.unknownFields \o u \in Seq(U)
    BY <2>1
  <2>3. Extended(m, u) = Replaced(m, m.unknownFields \o u)
    BY DEF Extended, Replaced
  <2> QED BY <2>2, <2>3, CodecReplaced
<1>3. Extends(M, U, N)
  BY <1>1, <1>2 DEF Extends
<1> QED
  BY <1>3, FoldExtended

(***************************************************************************)
(* A buffer with one more field, anywhere in it: what it is read as when   *)
(* the field is an unknown one, or is refused.                             *)
(***************************************************************************)
Halves(b, i) == /\ SubSeq(b, 1, i - 1) \o SubSeq(b, i, Len(b)) = b
                /\ \A S : b \in Seq(S) => /\ SubSeq(b, 1, i - 1) \in Seq(S)
                                          /\ SubSeq(b, i, Len(b)) \in Seq(S)

\* A buffer is its two parts.
LEMMA HalvesOf == \A S : \A b \in Seq(S) : \A i \in 1 .. Len(b) + 1 : Halves(b, i)
<1> SUFFICES ASSUME NEW S, NEW b \in Seq(S), NEW i \in 1 .. Len(b) + 1 PROVE Halves(b, i)
  OBVIOUS
<1>1. \A T : b \in Seq(T) => SubSeq(b, 1, i - 1) \in Seq(T) /\ SubSeq(b, i, Len(b)) \in Seq(T)
  OBVIOUS
<1>2. SubSeq(b, 1, i - 1) \o SubSeq(b, i, Len(b)) = b
  <2>1. PICK a, c, n : a = SubSeq(b, 1, i - 1) /\ c = SubSeq(b, i, Len(b)) /\ n = Len(b)
    OBVIOUS
  <2>2. /\ a \in Seq(S) /\ c \in Seq(S) /\ n \in Nat /\ i \in 1 .. n + 1
        /\ Len(a) = i - 1 /\ Len(c) = n - (i - 1)
        /\ \A k \in 1 .. i - 1 : a[k] = b[k]
        /\ \A k \in 1 .. n - (i - 1) : c[k] = b[k + (i - 1)]
    <3>1. a \in Seq(S) /\ c \in Seq(S)
      BY <1>1, <2>1
    <3>2. n \in Nat /\ i \in 1 .. n + 1
      BY <2>1
    <3>3. Len(a) = i - 1 /\ \A k \in 1 .. i - 1 : a[k] = b[k]
      BY <2>1, <3>2
    <3>4. Len(c) = n - (i - 1)
      BY <2>1, <3>2
    <3>5. \A k \in 1 .. n - (i - 1) : c[k] = b[k + (i - 1)]
      BY <2>1, <3>2
    <3> QED BY <3>1, <3>2, <3>3, <3>4, <3>5
  <2>3. PICK w : w = a \o c
    OBVIOUS
  <2>4. w \in Seq(S) /\ Len(w) = n
    <3>1. a \o c \in Seq(S) /\ Len(a \o c) = Len(a) + Len(c)
      <4>1. a \in Seq(S) /\ c \in Seq(S)
        BY <2>2
      <4> QED BY <4>1
    <3> QED BY <2>2, <2>3, <3>1
  <2>5. \A k \in 1 .. n : w[k] = b[k]
    <3> SUFFICES ASSUME NEW k \in 1 .. n PROVE w[k] = b[k]
      OBVIOUS
    <3>1. CASE k <= i - 1
      BY <2>2, <2>3, <3>1
    <3>2. CASE k > i - 1
      <4>1. PICK l \in Int : l = k - (i - 1)
        OBVIOUS
      <4>2. w[k] = c[l] /\ l \in 1 .. n - (i - 1) /\ l + (i - 1) = k
        BY <2>2, <2>3, <3>2, <4>1
      <4> QED BY <2>2, <4>2
    <3> QED BY <3>1, <3>2
  <2>6. w = b
    BY <2>1, <2>4, <2>5
  <2> QED BY <2>1, <2>3, <2>6
<1> QED
  BY <1>1, <1>2 DEF Halves

\* An unknown field inserted anywhere.
LEMMA ReadInserted ==
  \A M, U, S, N : Codec(M, U, S, N) => \A f \in U :
    (\A m \in M : op({m}, f) = {Extended(m, <<f>>)}) =>
      \A b \in Seq(S) : \A m, x \in M : Fold({m}, b) = {x} => \A i \in 1 .. Len(b) + 1 :
        ReadWith(Fold({m}, Inserted(b, i, f)), x, f)
<1> SUFFICES ASSUME NEW M, NEW U, NEW S, NEW N, Codec(M, U, S, N), NEW f \in U,
                    \A m \in M : op({m}, f) = {Extended(m, <<f>>)},
                    NEW b \in Seq(S), NEW m \in M, NEW x \in M, Fold({m}, b) = {x},
                    NEW i \in 1 .. Len(b) + 1
             PROVE  ReadWith(Fold({m}, Inserted(b, i, f)), x, f)
  OBVIOUS
<1>1. PICK s \in Seq(S), t \in Seq(S) : /\ s = SubSeq(b, 1, i - 1) /\ t = SubSeq(b, i, Len(b))
                                        /\ s \o t = b
  <2>1. Halves(b, i)
    BY HalvesOf
  <2> QED BY <2>1 DEF Halves
<1>2. Inserted(b, i, f) = (s \o <<f>>) \o t
  BY <1>1 DEF Inserted
<1>3. Fold({m}, s \o t) = {x}
  BY <1>1
<1>4. ReadWith(Fold({m}, (s \o <<f>>) \o t), x, f)
  BY <1>3, ReadWithUnknown
<1> QED
  BY <1>2, <1>4

\* A field that is refused, inserted anywhere.
LEMMA RefusedInserted ==
  \A M, U, S, N : Codec(M, U, S, N) => \A f \in U :
    (\A m \in M : op({m}, f) = {}) =>
      \A b \in Seq(S) : \A m \in M : \A i \in 1 .. Len(b) + 1 : Fold({m}, Inserted(b, i, f)) = {}
<1> SUFFICES ASSUME NEW M, NEW U, NEW S, NEW N, Codec(M, U, S, N), NEW f \in U,
                    \A m \in M : op({m}, f) = {},
                    NEW b \in Seq(S), NEW m \in M, NEW i \in 1 .. Len(b) + 1
             PROVE  Fold({m}, Inserted(b, i, f)) = {}
  OBVIOUS
<1>1. PICK s \in Seq(S), t \in Seq(S) : s = SubSeq(b, 1, i - 1) /\ t = SubSeq(b, i, Len(b))
  <2>1. Halves(b, i)
    BY HalvesOf
  <2> QED BY <2>1 DEF Halves
<1>2. Inserted(b, i, f) = (s \o <<f>>) \o t
  BY <1>1 DEF Inserted
<1> QED
  <2>1. \A y, z \in Seq(S) : Fold({m}, (y \o <<f>>) \o z) = {}
    BY ReadWithRefused
  <2> QED BY <1>2, <2>1

(***************************************************************************)
(* A buffer that is read as x alone, and with a field of U in it as x with *)
(* that field among the unknown ones, or not at all.                       *)
(***************************************************************************)
Takes(M, f)   == \A m \in M : op({m}, f) = {Extended(m, <<f>>)}
Refuses(M, f) == \A m \in M : op({m}, f) = {}

ReadAs(m, b, x, U, N) ==
  /\ Fold({m}, b) = {x}
  /\ \A f \in U, i \in 1 .. Len(b) + 1 :
       /\ f \in N => Fold({m}, Inserted(b, i, f)) # {}
       /\ \A q \in Fold({m}, Inserted(b, i, f)) : \E j \in 1 .. Len(x.unknownFields) + 1 :
            q = Gains(x, j, f)

\* A field of either kind, inserted anywhere.
LEMMA ReadEither ==
  \A M, U, S, N : Codec(M, U, S, N) /\ (\A f \in U : Takes(M, f) \/ Refuses(M, f)) =>
    \A b \in Seq(S) : \A m, x \in M : Fold({m}, b) = {x} => ReadAs(m, b, x, U, N)
<1> SUFFICES ASSUME NEW M, NEW U, NEW S, NEW N, Codec(M, U, S, N),
                    \A f \in U : Takes(M, f) \/ Refuses(M, f),
                    NEW b \in Seq(S), NEW m \in M, NEW x \in M, Fold({m}, b) = {x}
             PROVE  ReadAs(m, b, x, U, N)
  OBVIOUS
<1>1. ASSUME NEW f \in U, Takes(M, f), NEW i \in 1 .. Len(b) + 1
      PROVE  ReadWith(Fold({m}, Inserted(b, i, f)), x, f)
  BY <1>1, ReadInserted DEF Takes
<1>2. ASSUME NEW f \in U, Refuses(M, f), NEW i \in 1 .. Len(b) + 1
      PROVE  Fold({m}, Inserted(b, i, f)) = {}
  BY <1>2, RefusedInserted DEF Refuses
<1>3. ASSUME NEW f \in N PROVE Takes(M, f)
  BY DEF Codec, Takes
<1>4. N \subseteq U
  BY DEF Codec
<1>5. ASSUME NEW f \in U, NEW i \in 1 .. Len(b) + 1
      PROVE  /\ f \in N => Fold({m}, Inserted(b, i, f)) # {}
             /\ \A q \in Fold({m}, Inserted(b, i, f)) : \E j \in 1 .. Len(x.unknownFields) + 1 :
                  q = Gains(x, j, f)
  BY <1>1, <1>2, <1>3 DEF ReadWith
<1> QED
  BY <1>5 DEF ReadAs

\* A field whose value is that of f, whatever was read before.
SetsTo(M, f, name, v) ==
  \A m \in M : /\ name \in DOMAIN m \ {"unknownFields"}
               /\ [m EXCEPT ![name] = v] \in M
               /\ op({m}, f) = {[m EXCEPT ![name] = v]}

\* Such a field sets the same with any unknown ones.
LEMMA SetsOf == \A M, U, f, name, v : Known(M, U) /\ SetsTo(M, f, name, v) => Sets(M, U, f)
<1> SUFFICES ASSUME NEW M, NEW U, NEW f, NEW name, NEW v, Known(M, U), SetsTo(M, f, name, v)
             PROVE  Sets(M, U, f)
  OBVIOUS
<1>1. ASSUME NEW m \in M
      PROVE  /\ name \in DOMAIN m \ {"unknownFields"}
             /\ [m EXCEPT ![name] = v] \in M
             /\ \A u \in Seq(U) : op({Replaced(m, u)}, f) = {[Replaced(m, u) EXCEPT ![name] = v]}
  <2>1. \A u \in Seq(U) : Replaced(m, u) \in M
    BY DEF Known
  <2> QED BY <2>1 DEF SetsTo
<1> QED
  BY <1>1 DEF Sets
=============================================================================
