---------------------------- MODULE SequenceLemmas ----------------------------
(***************************************************************************)
(* Lemmas about sequences that the other proofs share: parts that are      *)
(* moved, an element taken out, and what Retained selects.  Induction over *)
(* the length of a sequence is stated with sets of sequences: the theorems *)
(* of NaturalsInduction take an operator, which the provers cannot         *)
(* instantiate.                                                            *)
(***************************************************************************)
EXTENDS Retain, SequencesExt, SequenceTheorems, NaturalsInduction, WellFoundedInduction, TLAPS

(* A non-empty set of natural numbers has a least element.                 *)
LEMMA LeastNat ==
  ASSUME NEW T \in SUBSET Nat, T # {}
  PROVE  \E m \in T : \A k \in T : m <= k
<1>1. PICK R : IsWellFoundedOn(R, Nat) /\ R = {ss \in Nat \X Nat : ss[1] < ss[2]}
      BY NatLessThanWellFounded DEF OpToRel
<1>2. PICK m \in T : \A k \in T : ~(<<k, m>> \in R)
      BY <1>1, WFMin
<1>3. ASSUME NEW k \in T PROVE ~(k < m)
  <2>1. k \in Nat /\ m \in Nat
        OBVIOUS
  <2>2. k < m => <<k, m>> \in R
        BY <1>1, <2>1
  <2> QED BY <1>2, <2>2
<1>4. \A k \in T : m <= k
      BY <1>3
<1> QED BY <1>4

(* Induction over the natural numbers, for a set of them.                  *)
LEMMA Induction ==
  ASSUME NEW T, 0 \in T, \A n \in Nat : n \in T => n + 1 \in T
  PROVE  Nat \subseteq T
<1> SUFFICES ASSUME Nat \ T # {} PROVE FALSE
    OBVIOUS
<1>1. PICK m \in Nat \ T : \A k \in Nat \ T : m <= k
      BY LeastNat
<1>2. m # 0 /\ m - 1 \in Nat
      OBVIOUS
<1>3. m - 1 \in T
      BY <1>1, <1>2
<1> QED BY <1>2, <1>3

LEMMA StrongInduction ==
  ASSUME NEW T, \A n \in Nat : (\A m \in Nat : m < n => m \in T) => n \in T
  PROVE  Nat \subseteq T
<1> SUFFICES ASSUME Nat \ T # {} PROVE FALSE
    OBVIOUS
<1>1. PICK m \in Nat \ T : \A k \in Nat \ T : m <= k
      BY LeastNat
<1>2. \A k \in Nat : k < m => k \in T
      BY <1>1
<1> QED BY <1>1, <1>2

-------------------------------------------------------------------------------
(* A sequence is its front and the rest.                                   *)
LEMMA FrontAndRest ==
  ASSUME NEW T, NEW s \in Seq(T), NEW n \in 0..Len(s)
  PROVE  /\ SubSeq(s, 1, n) \in Seq(T) /\ Len(SubSeq(s, 1, n)) = n
         /\ \A i \in 1..n : SubSeq(s, 1, n)[i] = s[i]
         /\ SubSeq(s, n + 1, Len(s)) \in Seq(T)
         /\ Len(SubSeq(s, n + 1, Len(s))) = Len(s) - n
         /\ \A i \in 1..(Len(s) - n) : SubSeq(s, n + 1, Len(s))[i] = s[n + i]
         /\ SubSeq(s, 1, n) \o SubSeq(s, n + 1, Len(s)) = s
<1>1. SubSeq(s, 1, n) \in Seq(T) /\ SubSeq(s, n + 1, Len(s)) \in Seq(T)
      OBVIOUS
<1>2. Len(SubSeq(s, 1, n)) = n /\ \A i \in 1..n : SubSeq(s, 1, n)[i] = s[i]
      OBVIOUS
<1>3. /\ Len(SubSeq(s, n + 1, Len(s))) = Len(s) - n
      /\ \A i \in 1..(Len(s) - n) : SubSeq(s, n + 1, Len(s))[i] = s[n + i]
      OBVIOUS
<1>4. SubSeq(s, 1, n) \o SubSeq(s, n + 1, Len(s)) = s
  <2>1. /\ Len(s) \in Nat /\ 1 \in 1..(Len(s) + 1)
        /\ n \in (1 - 1)..Len(s) /\ Len(s) \in n..Len(s)
        OBVIOUS
  <2>2. SubSeq(s, 1, n) \o SubSeq(s, n + 1, Len(s)) = SubSeq(s, 1, Len(s))
        BY <2>1, ConcatAdjacentSubSeq, Zenon
  <2> QED BY <2>2, SubSeqFull, Zenon
<1> QED BY <1>1, <1>2, <1>3, <1>4

-------------------------------------------------------------------------------
(* Three sequences may be put together from either end: as a predicate,    *)
(* which the provers match where they would not the equation.              *)
Together(s, t, u) == (s \o t) \o u = s \o (t \o u)

LEMMA Associative ==
  ASSUME NEW T, NEW s \in Seq(T), NEW t \in Seq(T), NEW u \in Seq(T)
  PROVE  Together(s, t, u)
BY DEF Together

(* Moving the front of what follows does not change the whole.             *)
LEMMA Moved ==
  ASSUME NEW T, NEW s \in Seq(T), NEW t \in Seq(T), NEW n \in 0..Len(t)
  PROVE  (s \o SubSeq(t, 1, n)) \o SubSeq(t, n + 1, Len(t)) = s \o t
<1> DEFINE front == SubSeq(t, 1, n)
           rest == SubSeq(t, n + 1, Len(t))
<1>1. front \in Seq(T) /\ rest \in Seq(T)
      BY FrontAndRest
<1>2. front \o rest = t
      BY FrontAndRest
<1> HIDE DEF front, rest
<1>3. (s \o front) \o rest = s \o (front \o rest)
  <2>1. Together(s, front, rest)
        BY <1>1, Associative, Zenon
  <2> QED BY <2>1, Zenon DEF Together
<1>4. (s \o front) \o rest = s \o t
      BY <1>2, <1>3, Zenon
<1> QED BY <1>4, Zenon DEF front, rest

(* The elements of a list that one element was taken out of, by index.     *)
LEMMA RemoveAtElements ==
  ASSUME NEW S, NEW s \in Seq(S), NEW i \in DOMAIN s
  PROVE  /\ RemoveAt(s, i) \in Seq(S)
         /\ Len(RemoveAt(s, i)) = Len(s) - 1
         /\ \A n \in 1..(Len(s) - 1) :
              RemoveAt(s, i)[n] = IF n < i THEN s[n] ELSE s[n + 1]
<1> DEFINE front == SubSeq(s, 1, i - 1)
           back == SubSeq(s, i + 1, Len(s))
<1>1. i \in 1..Len(s) /\ Len(s) \in Nat
      OBVIOUS
<1>2. front \in Seq(S) /\ Len(front) = i - 1 /\ \A n \in 1..(i - 1) : front[n] = s[n]
      BY <1>1
<1>3. /\ back \in Seq(S) /\ Len(back) = Len(s) - i
      /\ \A n \in 1..(Len(s) - i) : back[n] = s[n + i]
      BY <1>1
<1>4. RemoveAt(s, i) = front \o back
      BY DEF RemoveAt
<1> HIDE DEF front, back
<1>5. front \o back \in Seq(S) /\ Len(front \o back) = Len(s) - 1
      BY <1>1, <1>2, <1>3
<1>6. ASSUME NEW n \in 1..(Len(s) - 1)
      PROVE  (front \o back)[n] = IF n < i THEN s[n] ELSE s[n + 1]
  <2>1. CASE n < i
        BY <1>1, <1>2, <1>3, <2>1
  <2>2. CASE ~(n < i)
    <3>1. (front \o back)[n] = back[n - (i - 1)]
      <4>1. /\ front \in Seq(S) /\ back \in Seq(S)
            /\ n \in 1..(Len(front) + Len(back)) /\ ~(n <= Len(front))
            BY <1>1, <1>2, <1>3, <2>2
      <4>2. (front \o back)[n] = back[n - Len(front)]
            BY <4>1, ConcatProperties
      <4> QED BY <1>2, <4>2
    <3>2. n - (i - 1) \in 1..(Len(s) - i) /\ (n - (i - 1)) + i = n + 1
          BY <1>1, <2>2
    <3> QED BY <1>3, <2>2, <3>1, <3>2
  <2> QED BY <2>1, <2>2
<1> QED BY <1>4, <1>5, <1>6

-------------------------------------------------------------------------------
(* Retained.  The function it is defined by exists: one for each length.   *)
OneMore(s, S, i, before) == IF s[i] \in S THEN Append(before, s[i]) ELSE before

IsUpTo(s, S, n, g) ==
  g = [i \in 0..n |-> IF i = 0 THEN <<>> ELSE OneMore(s, S, i, g[i - 1])]

LEMMA Recursion ==
  ASSUME NEW s, NEW S, NEW n \in Nat
  PROVE  \E g : IsUpTo(s, S, n, g)
<1> DEFINE T == {k \in Nat : \E g : IsUpTo(s, S, k, g)}
<1>1. 0 \in T
  <2> DEFINE g == [i \in 0..0 |-> <<>>]
  <2>1. IsUpTo(s, S, 0, g)
        BY DEF IsUpTo
  <2> QED BY <2>1
<1>2. ASSUME NEW k \in Nat, k \in T PROVE k + 1 \in T
  <2>1. PICK g : IsUpTo(s, S, k, g)
        BY <1>2
  <2> DEFINE h == [i \in 0..(k + 1) |-> IF i <= k THEN g[i] ELSE OneMore(s, S, k + 1, g[k])]
  <2>2. ASSUME NEW i \in 0..(k + 1)
        PROVE  h[i] = IF i = 0 THEN <<>> ELSE OneMore(s, S, i, h[i - 1])
    <3>1. CASE i = 0
          BY <2>1, <3>1 DEF IsUpTo
    <3>2. CASE i # 0 /\ i <= k
          BY <2>1, <3>2 DEF IsUpTo
    <3>3. CASE i = k + 1
          BY <3>3
    <3> QED BY <3>1, <3>2, <3>3
  <2>3. IsUpTo(s, S, k + 1, h)
        BY <2>2 DEF IsUpTo
  <2> QED BY <2>3
<1> HIDE DEF T
<1>3. Nat \subseteq T
      BY <1>1, <1>2, Induction
<1> QED BY <1>3 DEF T

(* Retained is what such a function gives for the whole sequence.          *)
LEMMA RetainedIs ==
  ASSUME NEW s, NEW S, Len(s) \in Nat
  PROVE  \E g : IsUpTo(s, S, Len(s), g) /\ Retained(s, S) = g[Len(s)]
<1> DEFINE P(g) == g = [n \in 0..Len(s) |->
                          IF n = 0 THEN <<>>
                          ELSE IF s[n] \in S THEN Append(g[n - 1], s[n]) ELSE g[n - 1]]
<1>1. \A g : P(g) <=> IsUpTo(s, S, Len(s), g)
      BY DEF IsUpTo, OneMore
<1>2. \E g : P(g)
      BY <1>1, Recursion
<1>3. P(CHOOSE g : P(g))
      BY <1>2
<1>4. Retained(s, S) = (CHOOSE g : P(g))[Len(s)]
      BY DEF Retained
<1> QED BY <1>1, <1>3, <1>4

(* Two such functions agree as far as their sequences do.                  *)
LEMMA Agreement ==
  ASSUME NEW s, NEW t, NEW S, NEW n \in Nat, NEW m \in Nat, n <= m, NEW g, NEW h,
         IsUpTo(s, S, n, g), IsUpTo(t, S, m, h), \A i \in 1..n : s[i] = t[i]
  PROVE  g[n] = h[n]
<1> DEFINE T == {k \in Nat : k <= n => g[k] = h[k]}
<1>1. 0 \in T
      BY DEF IsUpTo
<1>2. ASSUME NEW k \in Nat, k \in T PROVE k + 1 \in T
  <2> SUFFICES ASSUME k + 1 <= n PROVE g[k + 1] = h[k + 1]
      OBVIOUS
  <2>1. g[k] = h[k] /\ s[k + 1] = t[k + 1]
        BY <1>2
  <2>2. g[k + 1] = OneMore(s, S, k + 1, g[k])
        BY DEF IsUpTo
  <2>3. h[k + 1] = OneMore(t, S, k + 1, h[k])
        BY DEF IsUpTo
  <2> QED BY <2>1, <2>2, <2>3 DEF OneMore
<1> HIDE DEF T
<1>3. Nat \subseteq T
      BY <1>1, <1>2, Induction
<1> QED BY <1>3 DEF T

(* The empty sequence and one more element.                                *)
LEMMA RetainedEmpty ==
  ASSUME NEW S
  PROVE  Retained(<<>>, S) = <<>>
<1>1. Len(<<>>) = 0
      OBVIOUS
<1> QED BY <1>1, RetainedIs DEF IsUpTo

LEMMA RetainedAppend ==
  ASSUME NEW T, NEW s \in Seq(T), NEW x \in T, NEW S
  PROVE  Retained(Append(s, x), S)
           = IF x \in S THEN Append(Retained(s, S), x) ELSE Retained(s, S)
<1> DEFINE t == Append(s, x)
<1>1. /\ Len(s) \in Nat /\ Len(t) = Len(s) + 1 /\ t[Len(s) + 1] = x
      /\ \A i \in 1..Len(s) : s[i] = t[i]
      BY AppendProperties
<1> HIDE DEF t
<1>2. PICK g : IsUpTo(s, S, Len(s), g) /\ Retained(s, S) = g[Len(s)]
      BY <1>1, RetainedIs
<1>3. PICK h : IsUpTo(t, S, Len(t), h) /\ Retained(t, S) = h[Len(t)]
      BY <1>1, RetainedIs
<1>4. g[Len(s)] = h[Len(s)]
      BY <1>1, <1>2, <1>3, Agreement
<1>5. h[Len(t)] = OneMore(t, S, Len(t), h[Len(s)])
      BY <1>1, <1>3 DEF IsUpTo
<1> QED BY <1>1, <1>2, <1>3, <1>4, <1>5 DEF OneMore, t

(* What holds of the empty sequence and is kept by Append holds of every   *)
(* sequence.                                                               *)
LEMMA SeqInduction ==
  ASSUME NEW T, NEW P, <<>> \in P,
         \A s \in Seq(T), x \in T : s \in P => Append(s, x) \in P
  PROVE  Seq(T) \subseteq P
<1> DEFINE N == {n \in Nat : \A s \in Seq(T) : Len(s) = n => s \in P}
<1>1. 0 \in N
      BY EmptySeq
<1>2. ASSUME NEW n \in Nat, n \in N PROVE n + 1 \in N
  <2> SUFFICES ASSUME NEW s \in Seq(T), Len(s) = n + 1 PROVE s \in P
      OBVIOUS
  <2>1. s # <<>>
        BY EmptySeq
  <2>2. PICK r \in Seq(T), x \in T : s = Append(r, x)
        BY <2>1, SequenceEmptyOrAppend
  <2>3. Len(r) = n
        BY <2>2, AppendProperties
  <2> QED BY <1>2, <2>2, <2>3
<1> HIDE DEF N
<1>3. Nat \subseteq N
      BY <1>1, <1>2, Induction
<1> QED BY <1>3 DEF N

(* What is retained is a sequence of elements of the set, no longer than   *)
(* the whole.                                                              *)
LEMMA RetainedType ==
  ASSUME NEW T, NEW S, NEW s \in Seq(T)
  PROVE  /\ Retained(s, S) \in Seq(T \cap S)
         /\ Retained(s, S) \in Seq(T)
         /\ Len(Retained(s, S)) <= Len(s)
<1> DEFINE P == {r \in Seq(T) : Retained(r, S) \in Seq(T \cap S) /\ Len(Retained(r, S)) <= Len(r)}
<1>1. <<>> \in P
  <2>1. Retained(<<>>, S) = <<>> /\ <<>> \in Seq(T) /\ <<>> \in Seq(T \cap S) /\ Len(<<>>) = 0
        BY RetainedEmpty, EmptySeq
  <2>2. Len(Retained(<<>>, S)) <= Len(<<>>)
        BY <2>1
  <2> HIDE DEF P
  <2> DEFINE e == <<>>
  <2> HIDE DEF e
  <2>3. Retained(e, S) \in Seq(T \cap S) /\ e \in Seq(T) /\ Len(Retained(e, S)) <= Len(e)
        BY <2>1, <2>2 DEF e
  <2>4. e \in P
        BY <2>3 DEF P
  <2> QED BY <2>4 DEF e
<1>2. ASSUME NEW r \in Seq(T), NEW x \in T, r \in P PROVE Append(r, x) \in P
  <2> DEFINE k == Retained(r, S)
  <2>1. k \in Seq(T \cap S) /\ Len(k) <= Len(r)
        BY <1>2
  <2>2. Retained(Append(r, x), S) = IF x \in S THEN Append(k, x) ELSE k
        BY RetainedAppend
  <2>3. Append(r, x) \in Seq(T) /\ Len(Append(r, x)) = Len(r) + 1
        BY AppendProperties
  <2> HIDE DEF k
  <2>4. x \in S => Append(k, x) \in Seq(T \cap S) /\ Len(Append(k, x)) = Len(k) + 1
        BY <2>1, AppendProperties
  <2>5. Len(k) \in Nat /\ Len(r) \in Nat
        BY <2>1, LenProperties
  <2>6. CASE x \in S
    <3>1. Len(Append(k, x)) <= Len(Append(r, x))
          BY <2>1, <2>3, <2>4, <2>5, <2>6
    <3>2. Retained(Append(r, x), S) = Append(k, x)
          BY <2>2, <2>6
    <3> QED BY <2>3, <2>4, <2>6, <3>1, <3>2
  <2>7. CASE x \notin S
    <3>1. Len(k) <= Len(Append(r, x))
          BY <2>1, <2>3, <2>5
    <3>2. Retained(Append(r, x), S) = k
          BY <2>2, <2>7
    <3> QED BY <2>1, <2>3, <3>1, <3>2
  <2> QED BY <2>6, <2>7
<1> HIDE DEF P
<1>3. s \in P
      BY <1>1, <1>2, SeqInduction
<1>4. Retained(s, S) \in Seq(T \cap S)
      BY <1>3 DEF P
<1>5. Retained(s, S) \in Seq(T)
      BY <1>4, SeqMonotonic
<1> QED BY <1>3, <1>4, <1>5 DEF P

(* Appending to the second part is appending to the whole.                 *)
LEMMA AppendConcat ==
  ASSUME NEW T, NEW s \in Seq(T), NEW t \in Seq(T), NEW x \in T
  PROVE  s \o Append(t, x) = Append(s \o t, x)
OBVIOUS

(* Retaining respects concatenation.                                       *)
LEMMA RetainedConcat ==
  ASSUME NEW T, NEW S, NEW s \in Seq(T), NEW t \in Seq(T)
  PROVE  Retained(s \o t, S) = Retained(s, S) \o Retained(t, S)
<1> DEFINE P == {r \in Seq(T) : Retained(s \o r, S) = Retained(s, S) \o Retained(r, S)}
<1>1. <<>> \in P
  <2>1. s \o <<>> = s /\ Retained(s, S) \o <<>> = Retained(s, S)
        BY ConcatEmptySeq, RetainedType
  <2> QED BY <2>1, RetainedEmpty, EmptySeq
<1>2. ASSUME NEW r \in Seq(T), NEW x \in T, r \in P PROVE Append(r, x) \in P
  <2> DEFINE k == Retained(s, S)
             l == Retained(r, S)
             m == Retained(s \o r, S)
  <2>1. k \in Seq(T) /\ l \in Seq(T)
        BY RetainedType
  <2>2. s \o Append(r, x) = Append(s \o r, x) /\ s \o r \in Seq(T)
        BY AppendConcat, ConcatProperties
  <2>3. Retained(Append(s \o r, x), S) = IF x \in S THEN Append(m, x) ELSE m
        BY <2>2, RetainedAppend
  <2>4. Retained(Append(r, x), S) = IF x \in S THEN Append(l, x) ELSE l
        BY RetainedAppend
  <2>5. m = k \o l
        BY <1>2
  <2>6. Append(r, x) \in Seq(T)
        BY AppendProperties
  <2> HIDE DEF k, l, m
  <2>7. k \o Append(l, x) = Append(k \o l, x)
        BY <2>1, AppendConcat
  <2>8. Retained(s \o Append(r, x), S) = k \o Retained(Append(r, x), S)
        BY <2>2, <2>3, <2>4, <2>5, <2>7
  <2> QED BY <2>6, <2>8 DEF k
<1> HIDE DEF P
<1>3. t \in P
      BY <1>1, <1>2, SeqInduction
<1> QED BY <1>3 DEF P

(* Nothing of the set, nothing retained; nothing else, all retained.       *)
LEMMA RetainedNone ==
  ASSUME NEW T, NEW S, NEW s \in Seq(T), T \cap S = {}
  PROVE  Retained(s, S) = <<>>
<1>1. Retained(s, S) \in Seq(T \cap S)
      BY RetainedType
<1> QED BY <1>1, EmptySeq

LEMMA RetainedAll ==
  ASSUME NEW T, NEW S, NEW s \in Seq(T), T \subseteq S
  PROVE  Retained(s, S) = s
<1> DEFINE P == {r \in Seq(T) : Retained(r, S) = r}
<1>1. <<>> \in P
      BY RetainedEmpty, EmptySeq
<1>2. ASSUME NEW r \in Seq(T), NEW x \in T, r \in P PROVE Append(r, x) \in P
      BY <1>2, RetainedAppend, AppendProperties
<1> HIDE DEF P
<1>3. s \in P
      BY <1>1, <1>2, SeqInduction
<1> QED BY <1>3 DEF P

(* Retaining twice is retaining once, when the second set is the smaller.  *)
LEMMA RetainedTwice ==
  ASSUME NEW T, NEW K, NEW L, L \subseteq K, NEW s \in Seq(T)
  PROVE  Retained(Retained(s, K), L) = Retained(s, L)
<1> DEFINE P == {r \in Seq(T) : Retained(Retained(r, K), L) = Retained(r, L)}
<1>1. <<>> \in P
      BY RetainedEmpty, EmptySeq
<1>2. ASSUME NEW r \in Seq(T), NEW x \in T, r \in P PROVE Append(r, x) \in P
  <2> DEFINE k == Retained(r, K)
  <2>1. k \in Seq(T)
        BY RetainedType
  <2>2. Retained(Append(r, x), K) = IF x \in K THEN Append(k, x) ELSE k
        BY RetainedAppend
  <2>3. Retained(Append(r, x), L) = IF x \in L THEN Append(Retained(r, L), x) ELSE Retained(r, L)
        BY RetainedAppend
  <2>4. Retained(k, L) = Retained(r, L)
        BY <1>2
  <2>5. Append(r, x) \in Seq(T)
        BY AppendProperties
  <2> HIDE DEF k
  <2>6. Retained(Append(k, x), L) = IF x \in L THEN Append(Retained(k, L), x) ELSE Retained(k, L)
        BY <2>1, RetainedAppend
  <2> QED BY <2>2, <2>3, <2>4, <2>5, <2>6
<1> HIDE DEF P
<1>3. s \in P
      BY <1>1, <1>2, SeqInduction
<1> QED BY <1>3 DEF P

LEMMA RetainedSplit ==
  ASSUME NEW T, NEW s \in Seq(T), NEW n \in 0..Len(s), NEW S
  PROVE  Retained(s, S)
           = Retained(SubSeq(s, 1, n), S) \o Retained(SubSeq(s, n + 1, Len(s)), S)
<1> DEFINE front == SubSeq(s, 1, n)
           rest == SubSeq(s, n + 1, Len(s))
<1>1. front \in Seq(T) /\ rest \in Seq(T) /\ front \o rest = s
      BY FrontAndRest
<1> HIDE DEF front, rest
<1>2. Retained(front \o rest, S) = Retained(front, S) \o Retained(rest, S)
      BY <1>1, RetainedConcat, ZenonT(60)
<1> QED BY <1>1, <1>2 DEF front, rest

-------------------------------------------------------------------------------
(* A sequence is its first element and the others.                         *)
LEMMA HeadAndTail ==
  ASSUME NEW T, NEW s \in Seq(T), s # <<>>
  PROVE  Head(s) \in T /\ Tail(s) \in Seq(T) /\ s = <<Head(s)>> \o Tail(s)
<1> DEFINE x == Head(s)
           u == Tail(s)
           f == <<x>>
<1>1. /\ x \in T /\ u \in Seq(T) /\ x = s[1] /\ Len(u) = Len(s) - 1
      /\ \A i \in 1..Len(u) : u[i] = s[i + 1]
      BY HeadTailProperties
<1>2. Len(s) \in Nat /\ Len(s) # 0
      BY EmptySeq
<1> HIDE DEF x, u
<1>3. f \in Seq(T) /\ Len(f) = 1 /\ f[1] = x
      BY <1>1
<1> HIDE DEF f
<1>4. /\ f \o u \in Seq(T) /\ Len(f \o u) = Len(f) + Len(u)
      /\ \A i \in 1..(Len(f) + Len(u)) :
           (f \o u)[i] = IF i <= Len(f) THEN f[i] ELSE u[i - Len(f)]
  <2>1. f \in Seq(T) /\ u \in Seq(T)
        BY <1>1, <1>3
  <2> QED BY <2>1, ConcatProperties
<1> DEFINE w == f \o u
<1>5. /\ w \in Seq(T) /\ Len(w) = 1 + Len(u)
      /\ \A i \in 1..(1 + Len(u)) : w[i] = IF i <= 1 THEN f[i] ELSE u[i - 1]
      BY <1>3, <1>4
<1> HIDE DEF w
<1>6. Len(w) = Len(s)
      BY <1>1, <1>2, <1>5
<1>7. ASSUME NEW i \in 1..Len(s) PROVE s[i] = w[i]
  <2>1. CASE i = 1
        BY <1>1, <1>2, <1>3, <1>5, <1>6, <2>1
  <2>2. CASE i # 1
    <3>1. i - 1 \in 1..Len(u) /\ (i - 1) + 1 = i /\ ~(i <= 1) /\ i \in 1..(1 + Len(u))
          BY <1>1, <1>2, <2>2
    <3> QED BY <1>1, <1>5, <3>1
  <2> QED BY <2>1, <2>2
<1>8. s = w
      BY <1>5, <1>6, <1>7, SeqEqual
<1> QED BY <1>1, <1>8 DEF w, f, x, u

-------------------------------------------------------------------------------
(* Taking as many elements from the front of w as f has, where w and what  *)
(* follows it begin with f.                                                *)
LEMMA FirstPart ==
  ASSUME NEW T, NEW w \in Seq(T), NEW u \in Seq(T), NEW f \in Seq(T), NEW r \in Seq(T),
         w \o u = f \o r, Len(f) <= Len(w)
  PROVE  /\ SubSeq(w, 1, Len(f)) = f
         /\ SubSeq(w, Len(f) + 1, Len(w)) \o u = r
<1> DEFINE n == Len(f)
           whole == w \o u
           front == SubSeq(w, 1, n)
           rest == SubSeq(w, n + 1, Len(w))
           new == rest \o u
<1>1. n \in Nat /\ Len(w) \in Nat /\ Len(u) \in Nat /\ Len(r) \in Nat /\ n <= Len(w)
      OBVIOUS
<1>2. /\ front \in Seq(T) /\ Len(front) = n /\ \A i \in 1..n : front[i] = w[i]
      /\ rest \in Seq(T) /\ Len(rest) = Len(w) - n
      /\ \A i \in 1..(Len(w) - n) : rest[i] = w[n + i]
  <2>1. n \in 0..Len(w)
        BY <1>1
  <2> HIDE DEF n
  <2> QED BY <2>1, FrontAndRest
<1>3. /\ Len(whole) = Len(w) + Len(u)
      /\ \A i \in 1..(Len(w) + Len(u)) :
           whole[i] = IF i <= Len(w) THEN w[i] ELSE u[i - Len(w)]
      BY ConcatProperties
<1>4. /\ Len(whole) = n + Len(r)
      /\ \A i \in 1..(n + Len(r)) : whole[i] = IF i <= n THEN f[i] ELSE r[i - n]
  <2>1. whole = f \o r
        OBVIOUS
  <2>2. /\ Len(f \o r) = Len(f) + Len(r)
        /\ \A i \in 1..(Len(f) + Len(r)) :
             (f \o r)[i] = IF i <= Len(f) THEN f[i] ELSE r[i - Len(f)]
        BY ConcatProperties
  <2> HIDE DEF whole
  <2> QED BY <2>1, <2>2
<1>5. /\ new \in Seq(T) /\ Len(new) = Len(rest) + Len(u)
      /\ \A i \in 1..(Len(rest) + Len(u)) :
           new[i] = IF i <= Len(rest) THEN rest[i] ELSE u[i - Len(rest)]
  <2> HIDE DEF rest
  <2>1. rest \in Seq(T)
        BY <1>2
  <2> QED BY <2>1, ConcatProperties
<1> HIDE DEF n, whole, front, rest, new
<1>6. front = f
  <2>1. ASSUME NEW i \in 1..n PROVE front[i] = f[i]
    <3>1. /\ i <= n /\ i \in 1..(n + Len(r))
          /\ i <= Len(w) /\ i \in 1..(Len(w) + Len(u))
          BY <1>1
    <3>2. whole[i] = f[i]
          BY <1>4, <3>1
    <3>3. whole[i] = w[i]
          BY <1>3, <3>1
    <3> QED BY <1>2, <3>2, <3>3
  <2>2. f \in Seq(T) /\ Len(f) = n
        BY DEF n
  <2> QED BY <1>2, <2>1, <2>2, SeqEqual
<1>7. new = r
  <2>1. Len(new) = Len(r)
    <3>1. Len(new) = Len(rest) + Len(u)
          BY <1>5, Zenon
    <3>2. Len(rest) = Len(w) - n
          BY <1>2, Zenon
    <3>3. Len(whole) = Len(w) + Len(u)
          BY <1>3, Zenon
    <3>4. Len(whole) = n + Len(r)
          BY <1>4, Zenon
    <3>5. n \in Nat /\ Len(w) \in Nat /\ Len(u) \in Nat /\ Len(r) \in Nat
          BY DEF n
    <3> QED BY <3>1, <3>2, <3>3, <3>4, <3>5
  <2>2. ASSUME NEW i \in 1..Len(r) PROVE new[i] = r[i]
    <3>1. n + i \in 1..(n + Len(r)) /\ ~(n + i <= n) /\ (n + i) - n = i /\ i \in Nat
          BY <1>1
    <3>2. whole[n + i] = r[i]
          BY <1>4, <3>1
    <3>3. CASE i <= Len(w) - n
      <4>1. n + i <= Len(w) /\ n + i \in 1..(Len(w) + Len(u)) /\ i \in 1..(Len(w) - n)
            BY <1>1, <3>1, <3>3
      <4>2. new[i] = w[n + i]
            BY <1>1, <1>2, <1>5, <3>3, <4>1
      <4> QED BY <1>3, <3>2, <4>1, <4>2
    <3>4. CASE ~(i <= Len(w) - n)
      <4>1. /\ ~(n + i <= Len(w)) /\ n + i \in 1..(Len(w) + Len(u))
            /\ (n + i) - Len(w) = i - (Len(w) - n)
            /\ i \in 1..((Len(w) - n) + Len(u))
            BY <1>1, <1>3, <1>4, <3>1, <3>4
      <4>2. new[i] = u[i - (Len(w) - n)]
            BY <1>2, <1>5, <3>4, <4>1
      <4>3. whole[n + i] = u[(n + i) - Len(w)]
            BY <1>3, <4>1
      <4> QED BY <3>2, <4>1, <4>2, <4>3
    <3> QED BY <3>3, <3>4
  <2> QED BY <1>5, <2>1, <2>2, SeqEqual
<1> QED BY <1>6, <1>7 DEF n, front, rest, new

-------------------------------------------------------------------------------
(* A sequence of sequences put together: behind each of them, what was     *)
(* before and what comes after.                                            *)
FlatUpTo(ss, n, g) ==
  g = [i \in 1..n |-> IF i = 1 THEN ss[i] ELSE g[i - 1] \o ss[i]]

LEMMA FlatRecursion ==
  ASSUME NEW ss, NEW n \in Nat
  PROVE  \E g : FlatUpTo(ss, n, g)
<1> DEFINE A == {k \in Nat : \E g : FlatUpTo(ss, k, g)}
<1>1. 0 \in A
  <2> DEFINE g == [i \in 1..0 |-> <<>>]
  <2>1. FlatUpTo(ss, 0, g)
        BY DEF FlatUpTo
  <2> QED BY <2>1
<1>2. ASSUME NEW k \in Nat, k \in A PROVE k + 1 \in A
  <2>1. PICK g : FlatUpTo(ss, k, g)
        BY <1>2
  <2> DEFINE h == [i \in 1..(k + 1) |->
                     IF i <= k THEN g[i] ELSE IF i = 1 THEN ss[i] ELSE g[k] \o ss[i]]
  <2>2. ASSUME NEW i \in 1..(k + 1)
        PROVE  h[i] = IF i = 1 THEN ss[i] ELSE h[i - 1] \o ss[i]
    <3>1. CASE i <= k
      <4>1. g[i] = IF i = 1 THEN ss[i] ELSE g[i - 1] \o ss[i]
        <5>1. i \in 1..k
              BY <3>1
        <5> QED BY <2>1, <5>1 DEF FlatUpTo
      <4>2. h[i] = g[i] /\ (i # 1 => h[i - 1] = g[i - 1])
            BY <3>1
      <4> HIDE DEF h
      <4> QED BY <4>1, <4>2
    <3>2. CASE i = k + 1
      <4>1. h[i] = IF i = 1 THEN ss[i] ELSE g[k] \o ss[i]
            BY <3>2
      <4>2. i # 1 => i - 1 = k /\ h[i - 1] = g[k]
            BY <3>2
      <4> HIDE DEF h
      <4> QED BY <4>1, <4>2
    <3> QED BY <3>1, <3>2
  <2>3. FlatUpTo(ss, k + 1, h)
        BY <2>2 DEF FlatUpTo
  <2> QED BY <2>3
<1> HIDE DEF A
<1>3. Nat \subseteq A
      BY <1>1, <1>2, Induction
<1> QED BY <1>3 DEF A

(* p: what the first elements are together; r: what the others are, with   *)
(* the tail.                                                               *)
IsCut(ss, tail, p, r) ==
  /\ p[0] = <<>> /\ \A i \in 1..Len(ss) : p[i] = p[i - 1] \o ss[i]
  /\ r[Len(ss)] = tail /\ \A i \in 1..Len(ss) : r[i - 1] = ss[i] \o r[i]
  /\ p[Len(ss)] = FlattenSeq(ss)
  /\ \A i \in 0..Len(ss) : p[i] \o r[i] = FlattenSeq(ss) \o tail

LEMMA FrontsExist ==
  ASSUME NEW T, NEW ss \in Seq(Seq(T))
  PROVE  \E p \in [0..Len(ss) -> Seq(T)] :
           /\ p[0] = <<>> /\ \A i \in 1..Len(ss) : p[i] = p[i - 1] \o ss[i]
           /\ p[Len(ss)] = FlattenSeq(ss)
<1> DEFINE n == Len(ss)
           P(g) == g = [i \in 1..n |-> IF i = 1 THEN ss[i] ELSE g[i - 1] \o ss[i]]
           g == CHOOSE x : P(x)
           p == [i \in 0..n |-> IF i = 0 THEN <<>> ELSE g[i]]
<1>1. n \in Nat /\ \A i \in 1..n : ss[i] \in Seq(T)
      OBVIOUS
<1>2. P(g)
  <2>1. \E x : P(x)
        BY <1>1, FlatRecursion DEF FlatUpTo
  <2> HIDE DEF P
  <2> QED BY <2>1
<1>3. n # 0 => FlattenSeq(ss) = g[n]
      BY DEF FlattenSeq
<1>4. n = 0 => FlattenSeq(ss) = <<>>
  <2>1. n = 0 => FlattenSeq(ss) = ss
        BY DEF FlattenSeq
  <2> QED BY <2>1
<1>5. \A i \in 1..n : g[i] = IF i = 1 THEN ss[i] ELSE g[i - 1] \o ss[i]
  <2> HIDE DEF g
  <2> QED BY <1>2
<1> HIDE DEF g, n
<1>6. p[0] = <<>> /\ \A i \in 1..n : p[i] = g[i] /\ (i # 1 => p[i - 1] = g[i - 1])
      BY <1>1
<1>7. \A i \in 0..n : p[i] = IF i = 0 THEN <<>> ELSE g[i]
      OBVIOUS
<1>8. DOMAIN p = 0..n /\ p = [i \in 0..n |-> p[i]]
      OBVIOUS
<1> HIDE DEF p
<1>9. ASSUME NEW i \in 1..n PROVE p[i] = p[i - 1] \o ss[i]
  <2>1. CASE i = 1
    <3>1. <<>> \o ss[i] = ss[i]
          BY <1>1, ConcatEmptySeq
    <3>2. i - 1 = 0 /\ p[i] = g[i] /\ g[i] = ss[i]
          BY <1>5, <1>6, <2>1
    <3> QED BY <1>6, <3>1, <3>2, Zenon
  <2>2. CASE i # 1
        BY <1>5, <1>6, <2>2
  <2> QED BY <2>1, <2>2
<1>10. \A i \in 0..n : p[i] \in Seq(T)
  <2> DEFINE A == {k \in Nat : k <= n => p[k] \in Seq(T)}
  <2>1. 0 \in A
        BY <1>6, EmptySeq
  <2>2. ASSUME NEW k \in Nat, k \in A PROVE k + 1 \in A
    <3> SUFFICES ASSUME k + 1 <= n PROVE p[k + 1] \in Seq(T)
        OBVIOUS
    <3>1. p[k] \in Seq(T) /\ k + 1 \in 1..n /\ (k + 1) - 1 = k
          BY <1>1, <2>2
    <3>2. p[k + 1] = p[k] \o ss[k + 1]
          BY <1>9, <3>1
    <3> QED BY <1>1, <3>1, <3>2, ConcatProperties
  <2> HIDE DEF A
  <2>3. Nat \subseteq A
        BY <2>1, <2>2, Induction
  <2> QED BY <1>1, <2>3 DEF A
<1>11. p[n] = FlattenSeq(ss)
       BY <1>1, <1>3, <1>4, <1>7
<1>12. p \in [0..n -> Seq(T)]
       BY <1>8, <1>10
<1> QED BY <1>6, <1>9, <1>11, <1>12 DEF n

(* h: what the last k of them and the tail are together.                   *)
IsBack(ss, tail, T, k, h) ==
  /\ h \in [0..k -> Seq(T)] /\ h[0] = tail
  /\ \A j \in 1..k : h[j] = ss[(Len(ss) - j) + 1] \o h[j - 1]

(* r: what is left of them, and the tail, behind each of them.             *)
IsRests(ss, tail, T, r) ==
  /\ r \in [0..Len(ss) -> Seq(T)] /\ r[Len(ss)] = tail
  /\ \A i \in 1..Len(ss) : r[i - 1] = ss[i] \o r[i]

LEMMA RestsExist ==
  ASSUME NEW T, NEW ss \in Seq(Seq(T)), NEW tail \in Seq(T)
  PROVE  \E r : IsRests(ss, tail, T, r)
<1> DEFINE n == Len(ss)
           A == {k \in Nat : k <= n => \E h : IsBack(ss, tail, T, k, h)}
<1>1. n \in Nat /\ \A i \in 1..n : ss[i] \in Seq(T)
      OBVIOUS
<1> HIDE DEF n
<1>2. 0 \in A
  <2>1. IsBack(ss, tail, T, 0, [i \in 0..0 |-> tail])
        BY DEF IsBack
  <2> QED BY <2>1
<1>3. ASSUME NEW k \in Nat, k \in A PROVE k + 1 \in A
  <2> SUFFICES ASSUME k + 1 <= n PROVE \E h : IsBack(ss, tail, T, k + 1, h)
      OBVIOUS
  <2>0. PICK g : IsBack(ss, tail, T, k, g)
        BY <1>1, <1>3
  <2>1. /\ g \in [0..k -> Seq(T)] /\ g[0] = tail
        /\ \A j \in 1..k : g[j] = ss[(n - j) + 1] \o g[j - 1]
        BY <2>0 DEF IsBack, n
  <2> DEFINE next == ss[(n - (k + 1)) + 1] \o g[k]
             h == [i \in 0..(k + 1) |-> IF i <= k THEN g[i] ELSE next]
  <2>2. next \in Seq(T)
    <3>1. (n - (k + 1)) + 1 \in 1..n /\ g[k] \in Seq(T)
          BY <1>1, <2>1
    <3> QED BY <1>1, <3>1, ConcatProperties
  <2>3. h \in [0..(k + 1) -> Seq(T)]
    <3> HIDE DEF next
    <3> QED BY <2>1, <2>2
  <2>4. /\ \A i \in 0..k : h[i] = g[i]
        /\ h[k + 1] = next
    <3> HIDE DEF next
    <3> QED OBVIOUS
  <2> HIDE DEF h
  <2>5. ASSUME NEW j \in 1..(k + 1) PROVE h[j] = ss[(n - j) + 1] \o h[j - 1]
    <3>1. CASE j <= k
      <4>1. j \in 1..k /\ j \in 0..k /\ j - 1 \in 0..k
            BY <3>1
      <4>2. h[j] = g[j] /\ h[j - 1] = g[j - 1]
            BY <2>4, <4>1
      <4>3. g[j] = ss[(n - j) + 1] \o g[j - 1]
            BY <2>1, <4>1
      <4> QED BY <4>2, <4>3, Zenon
    <3>2. CASE j = k + 1
      <4>1. j - 1 = k /\ h[k] = g[k] /\ h[k + 1] = next
            BY <2>4, <3>2
      <4>2. h[j] = next
            BY <3>2, <4>1, Zenon
      <4>3. next = ss[(n - j) + 1] \o h[j - 1]
            BY <3>2, <4>1, Zenon DEF next
      <4> QED BY <4>2, <4>3, Zenon
    <3>3. j <= k \/ j = k + 1
          OBVIOUS
    <3> QED BY <3>1, <3>2, <3>3, Zenon
  <2>6. h[0] = tail
        BY <2>1, <2>4
  <2>7. IsBack(ss, tail, T, k + 1, h)
        BY <2>3, <2>5, <2>6 DEF IsBack, n
  <2> QED BY <2>7
<1> HIDE DEF A
<1>4. n \in A
      BY <1>1, <1>2, <1>3, Induction
<1>0. PICK h : IsBack(ss, tail, T, n, h)
      BY <1>1, <1>4 DEF A
<1>5. /\ h \in [0..n -> Seq(T)] /\ h[0] = tail
      /\ \A j \in 1..n : h[j] = ss[(n - j) + 1] \o h[j - 1]
      BY <1>0 DEF IsBack, n
<1> DEFINE r == [i \in 0..n |-> h[n - i]]
<1>6. \A i \in 0..n : n - i \in 0..n /\ r[i] = h[n - i]
      BY <1>1
<1>7. r \in [0..n -> Seq(T)]
  <2>1. \A i \in 0..n : h[n - i] \in Seq(T)
        BY <1>5, <1>6
  <2> QED BY <2>1
<1> HIDE DEF r
<1>8. r[n] = tail
      BY <1>1, <1>5, <1>6
<1>9. ASSUME NEW i \in 1..n PROVE r[i - 1] = ss[i] \o r[i]
  <2> DEFINE j == n - (i - 1)
  <2>1. /\ j \in 1..n /\ (n - j) + 1 = i /\ j - 1 = n - i
        /\ i \in 0..n /\ i - 1 \in 0..n
        BY <1>1
  <2>2. r[i - 1] = h[j] /\ r[i] = h[j - 1]
        BY <1>6, <2>1
  <2> HIDE DEF j
  <2>3. h[j] = ss[(n - j) + 1] \o h[j - 1]
        BY <1>5, <2>1
  <2> QED BY <2>1, <2>2, <2>3
<1>10. IsRests(ss, tail, T, r)
       BY <1>7, <1>8, <1>9 DEF n, IsRests
<1> QED BY <1>10, Zenon

LEMMA FlattenCut ==
  ASSUME NEW T, NEW ss \in Seq(Seq(T)), NEW tail \in Seq(T)
  PROVE  \E p, r : /\ p \in [0..Len(ss) -> Seq(T)] /\ r \in [0..Len(ss) -> Seq(T)]
                   /\ IsCut(ss, tail, p, r)
<1> DEFINE n == Len(ss)
<1>1. n \in Nat /\ \A i \in 1..n : ss[i] \in Seq(T)
      OBVIOUS
<1>2. PICK p \in [0..n -> Seq(T)] :
        /\ p[0] = <<>> /\ \A i \in 1..n : p[i] = p[i - 1] \o ss[i]
        /\ p[n] = FlattenSeq(ss)
      BY FrontsExist
<1>3. PICK r \in [0..n -> Seq(T)] :
        r[n] = tail /\ \A i \in 1..n : r[i - 1] = ss[i] \o r[i]
  <2>1. \E r : IsRests(ss, tail, T, r)
        BY RestsExist, Zenon
  <2> QED BY <2>1, Zenon DEF IsRests
<1> DEFINE A == {k \in Nat : k <= n => p[k] \o r[k] = r[0]}
<1> HIDE DEF n
<1>4. 0 \in A
  <2>1. r[0] \in Seq(T)
        BY <1>1, <1>3
  <2> QED BY <1>2, <2>1, ConcatEmptySeq
<1>5. ASSUME NEW k \in Nat, k \in A PROVE k + 1 \in A
  <2> SUFFICES ASSUME k + 1 <= n PROVE p[k + 1] \o r[k + 1] = r[0]
      OBVIOUS
  <2>1. p[k] \o r[k] = r[0] /\ k + 1 \in 1..n /\ k \in 0..n /\ (k + 1) - 1 = k
        BY <1>1, <1>5
  <2>2. p[k + 1] = p[k] \o ss[k + 1] /\ r[k] = ss[k + 1] \o r[k + 1]
        BY <1>2, <1>3, <2>1
  <2>3. p[k] \in Seq(T) /\ r[k + 1] \in Seq(T) /\ ss[k + 1] \in Seq(T)
        BY <1>1, <2>1
  <2> DEFINE a == p[k]
             b == ss[k + 1]
             c == r[k + 1]
  <2>4. (a \o b) \o c = a \o (b \o c)
    <3> HIDE DEF a, b, c
    <3>1. a \in Seq(T) /\ b \in Seq(T) /\ c \in Seq(T)
          BY <2>3 DEF a, b, c
    <3>2. Together(a, b, c)
          BY <3>1, Associative, Zenon
    <3> QED BY <3>2, Zenon DEF Together
  <2> QED BY <2>1, <2>2, <2>4, Zenon
<1> HIDE DEF A
<1>6. Nat \subseteq A
      BY <1>4, <1>5, Induction
<1>7. ASSUME NEW i \in 0..n PROVE p[i] \o r[i] = r[0]
  <2>1. i \in A /\ i <= n
        BY <1>1, <1>6
  <2> QED BY <2>1 DEF A
<1>8. \A i \in 0..n : p[i] \o r[i] = p[n] \o r[n]
  <2>0. n \in 0..n
        BY <1>1
  <2>1. p[n] \o r[n] = r[0]
        BY <1>7, <2>0, Zenon
  <2> QED BY <1>7, <2>1, Zenon
<1>9. IsCut(ss, tail, p, r)
      BY <1>2, <1>3, <1>8 DEF IsCut, n
<1> QED BY <1>2, <1>3, <1>9 DEF n

-------------------------------------------------------------------------------
(* A function that is defined by recursion on the numbers up to n: g[i] is *)
(* what F makes of g[i - 1].                                               *)
Iterates(b, F, n, g) == g[0] = b /\ \A i \in 1..n : g[i] = F[<<g[i - 1], i>>]

LEMMA RecursionExists ==
  ASSUME NEW D, NEW b \in D, NEW F \in [D \X Nat -> D], NEW n \in Nat
  PROVE  \E g \in [0..n -> D] : Iterates(b, F, n, g)
<1> DEFINE T == {k \in Nat : \E g \in [0..k -> D] : Iterates(b, F, k, g)}
<1>1. 0 \in T
  <2> DEFINE g == [i \in 0..0 |-> b]
  <2>1. g \in [0..0 -> D] /\ Iterates(b, F, 0, g)
        BY DEF Iterates
  <2> QED BY <2>1
<1>2. ASSUME NEW k \in Nat, k \in T PROVE k + 1 \in T
  <2>1. PICK g \in [0..k -> D] : Iterates(b, F, k, g)
        BY <1>2
  <2> DEFINE h == [i \in 0..(k + 1) |-> IF i <= k THEN g[i] ELSE F[<<g[k], i>>]]
  <2>2. h \in [0..(k + 1) -> D]
    <3>1. ASSUME NEW i \in 0..(k + 1) PROVE (IF i <= k THEN g[i] ELSE F[<<g[k], i>>]) \in D
      <4>1. g[k] \in D /\ <<g[k], i>> \in D \X Nat
            OBVIOUS
      <4> QED BY <4>1
    <3> QED BY <3>1
  <2>3. ASSUME NEW i \in 1..(k + 1) PROVE h[i] = F[<<h[i - 1], i>>]
    <3>1. h[i - 1] = g[i - 1] /\ (i <= k => h[i] = g[i])
          OBVIOUS
    <3>2. CASE i <= k
          BY <2>1, <3>1, <3>2 DEF Iterates
    <3>3. CASE i = k + 1
          BY <3>1, <3>3
    <3> QED BY <3>2, <3>3
  <2>4. h[0] = b
        BY <2>1 DEF Iterates
  <2>5. Iterates(b, F, k + 1, h)
        BY <2>3, <2>4 DEF Iterates
  <2> HIDE DEF h
  <2> QED BY <2>2, <2>5
<1> HIDE DEF T
<1>3. Nat \subseteq T
      BY <1>1, <1>2, Induction
<1> QED BY <1>3 DEF T

===============================================================================
