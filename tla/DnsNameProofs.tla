----------------------------- MODULE DnsNameProofs -----------------------------
(***************************************************************************)
(* Theorems about DnsName, for a buffer of any size, labels and names of   *)
(* any length and any number of questions.                                 *)
(***************************************************************************)
EXTENDS DnsName, SequenceLemmas

-------------------------------------------------------------------------------
(* Names and labels.                                                       *)
Text == Seq(Character)

LEMMA JoinedWithType ==
  ASSUME NEW s \in Text, NEW label \in Text
  PROVE  JoinedWith(s, label) \in Text
<1>1. <<Dot>> \in Text
      BY DEF Text, Character, Dot
<1> HIDE DEF Text
<1>2. s \o <<Dot>> \in Text
      BY <1>1, ConcatProperties DEF Text
<1>3. (s \o <<Dot>>) \o label \in Text
      BY <1>2, ConcatProperties DEF Text
<1> QED BY <1>3 DEF JoinedWith

(* J: what the first labels are together.                                  *)
IsJoin(labels, J) ==
  /\ J \in [0..Len(labels) -> Text] /\ J[0] = <<>>
  /\ \A i \in 1..Len(labels) : J[i] = JoinedWith(J[i - 1], labels[i])

LEMMA JoinExists ==
  ASSUME NEW labels \in Seq(Text)
  PROVE  \E J : IsJoin(labels, J)
<1> DEFINE n == Len(labels)
           F == [z \in Text \X Nat |-> IF z[2] \in 1..n THEN JoinedWith(z[1], labels[z[2]])
                                                         ELSE <<>>]
<1>1. n \in Nat /\ \A i \in 1..n : labels[i] \in Text
      OBVIOUS
<1>2. <<>> \in Text
      BY DEF Text
<1>3. F \in [Text \X Nat -> Text]
  <2>1. ASSUME NEW z \in Text \X Nat
        PROVE  (IF z[2] \in 1..n THEN JoinedWith(z[1], labels[z[2]]) ELSE <<>>) \in Text
    <3>1. CASE z[2] \in 1..n
      <4>1. z[1] \in Text /\ labels[z[2]] \in Text
            BY <1>1, <3>1
      <4> QED BY <3>1, <4>1, JoinedWithType
    <3> QED BY <1>2, <3>1
  <2> QED BY <2>1
<1>4. PICK J \in [0..n -> Text] : Iterates(<<>>, F, n, J)
  <2> HIDE DEF n, F
  <2> QED BY <1>1, <1>2, <1>3, RecursionExists
<1>5. ASSUME NEW i \in 1..n PROVE J[i] = JoinedWith(J[i - 1], labels[i])
  <2>1. J[i] = F[<<J[i - 1], i>>]
        BY <1>4 DEF Iterates
  <2>2. i - 1 \in 0..n /\ i \in Nat
        BY <1>1
  <2>3. J[i - 1] \in Text
        BY <2>2
  <2>4. <<J[i - 1], i>> \in Text \X Nat
        BY <2>2, <2>3
  <2> QED BY <2>1, <2>4
<1>6. IsJoin(labels, J)
      BY <1>4, <1>5 DEF IsJoin, Iterates
<1> QED BY <1>6

LEMMA JoinedIs ==
  ASSUME NEW labels, Len(labels) \in Nat, NEW J, IsJoin(labels, J)
  PROVE  Joined(labels) = J[Len(labels)]
<1> DEFINE n == Len(labels)
           P(g) == g = [i \in 0..n |-> IF i = 0 THEN <<>> ELSE JoinedWith(g[i - 1], labels[i])]
           c == CHOOSE g : P(g)
           A == {k \in Nat : k <= n => c[k] = J[k]}
<1>1. P(J)
      BY DEF IsJoin
<1>2. P(c)
      BY <1>1
<1> HIDE DEF c
<1>3. 0 \in A
      BY <1>1, <1>2
<1>4. ASSUME NEW k \in Nat, k \in A PROVE k + 1 \in A
  <2> SUFFICES ASSUME k + 1 <= n PROVE c[k + 1] = J[k + 1]
      OBVIOUS
  <2>1. c[k + 1] = JoinedWith(c[k], labels[k + 1])
        BY <1>2
  <2>2. J[k + 1] = JoinedWith(J[k], labels[k + 1])
        BY DEF IsJoin
  <2> QED BY <1>4, <2>1, <2>2
<1> HIDE DEF A
<1>5. Nat \subseteq A
      BY <1>3, <1>4, Induction
<1>6. c[n] = J[n]
      BY <1>5 DEF A
<1>7. Joined(labels) = c[n]
      BY DEF Joined, c
<1> QED BY <1>6, <1>7

Splits == Seq(Text) \ {<<>>}

(* What one more character makes of the labels.                            *)
LEMMA LabelsWithIs ==
  ASSUME NEW L \in Splits, NEW c \in Character
  PROVE  LET M == LabelsWith(L, c)
             n == Len(L)
         IN  /\ M \in Splits /\ n \in Nat \ {0} /\ L[n] \in Text
             /\ \A i \in 1..(n - 1) : M[i] = L[i]
             /\ c = Dot => Len(M) = n + 1 /\ M[n] = L[n] /\ M[n + 1] = <<>>
             /\ c # Dot => Len(M) = n /\ M[n] = Append(L[n], c)
<1> DEFINE n == Len(L)
<1>1. n \in Nat \ {0} /\ L \in Seq(Text) /\ \A i \in 1..n : L[i] \in Text
      BY DEF Splits
<1>2. CASE c = Dot
  <2>1. <<>> \in Text
        BY DEF Text
  <2>2. LabelsWith(L, c) = Append(L, <<>>)
        BY <1>2 DEF LabelsWith
  <2>3. /\ Append(L, <<>>) \in Seq(Text) /\ Len(Append(L, <<>>)) = n + 1
        /\ \A i \in 1..n : Append(L, <<>>)[i] = L[i]
        /\ Append(L, <<>>)[n + 1] = <<>>
        BY <1>1, <2>1, AppendProperties
  <2>4. Append(L, <<>>) # <<>>
        BY <1>1, <2>3
  <2> QED BY <1>1, <1>2, <2>2, <2>3, <2>4 DEF Splits
<1>3. CASE c # Dot
  <2>1. Append(L[n], c) \in Text
        BY <1>1, AppendProperties DEF Text
  <2>2. LabelsWith(L, c) = [L EXCEPT ![n] = Append(L[n], c)]
        BY <1>3 DEF LabelsWith
  <2>3. /\ [L EXCEPT ![n] = Append(L[n], c)] \in Seq(Text)
        /\ Len([L EXCEPT ![n] = Append(L[n], c)]) = n
        /\ \A j \in 1..n : [L EXCEPT ![n] = Append(L[n], c)][j]
                             = IF j = n THEN Append(L[n], c) ELSE L[j]
        BY <1>1, <2>1, ExceptSeq
  <2>4. [L EXCEPT ![n] = Append(L[n], c)] # <<>>
        BY <1>1, <2>3
  <2> DEFINE M == LabelsWith(L, c)
  <2>5. M \in Splits /\ Len(M) = n /\ M[n] = Append(L[n], c)
        BY <1>1, <2>2, <2>3, <2>4 DEF Splits
  <2>6. ASSUME NEW i \in 1..(n - 1) PROVE M[i] = L[i]
    <3>1. i \in 1..n /\ i # n
          BY <1>1
    <3> QED BY <2>2, <2>3, <3>1
  <2> HIDE DEF M, n
  <2> QED BY <1>1, <1>3, <2>5, <2>6 DEF M, n
<1> QED BY <1>2, <1>3

(* g: the labels of the first characters.                                  *)
IsSplitting(name, g) ==
  /\ g \in [0..Len(name) -> Splits] /\ g[0] = <<<<>>>>
  /\ \A i \in 1..Len(name) : g[i] = LabelsWith(g[i - 1], name[i])

LEMMA SplittingExists ==
  ASSUME NEW name \in Text
  PROVE  \E g : IsSplitting(name, g)
<1> DEFINE n == Len(name)
           F == [z \in Splits \X Nat |-> IF z[2] \in 1..n THEN LabelsWith(z[1], name[z[2]])
                                                           ELSE <<<<>>>>]
<1>1. n \in Nat /\ \A i \in 1..n : name[i] \in Character
      BY DEF Text
<1>2. <<<<>>>> \in Splits
      BY DEF Text, Splits
<1>3. F \in [Splits \X Nat -> Splits]
  <2>1. ASSUME NEW z \in Splits \X Nat
        PROVE  (IF z[2] \in 1..n THEN LabelsWith(z[1], name[z[2]]) ELSE <<<<>>>>) \in Splits
    <3>1. CASE z[2] \in 1..n
      <4>1. z[1] \in Splits /\ name[z[2]] \in Character
            BY <1>1, <3>1
      <4> QED BY <3>1, <4>1, LabelsWithIs
    <3> QED BY <1>2, <3>1
  <2> QED BY <2>1
<1>4. PICK g \in [0..n -> Splits] : Iterates(<<<<>>>>, F, n, g)
  <2> HIDE DEF n, F
  <2> QED BY <1>1, <1>2, <1>3, RecursionExists
<1>5. ASSUME NEW i \in 1..n PROVE g[i] = LabelsWith(g[i - 1], name[i])
  <2>1. g[i] = F[<<g[i - 1], i>>]
        BY <1>4 DEF Iterates
  <2>2. i - 1 \in 0..n /\ i \in Nat
        BY <1>1
  <2>3. g[i - 1] \in Splits
        BY <2>2
  <2>4. <<g[i - 1], i>> \in Splits \X Nat
        BY <2>2, <2>3
  <2> QED BY <2>1, <2>4
<1>6. IsSplitting(name, g)
      BY <1>4, <1>5 DEF IsSplitting, Iterates
<1> QED BY <1>6

LEMMA LabelsAre ==
  ASSUME NEW name, Len(name) \in Nat, NEW h, IsSplitting(name, h)
  PROVE  Labels(name) = h[Len(name)]
<1> DEFINE n == Len(name)
           P(g) == g = [i \in 0..n |-> IF i = 0 THEN <<<<>>>> ELSE LabelsWith(g[i - 1], name[i])]
           c == CHOOSE g : P(g)
           A == {k \in Nat : k <= n => c[k] = h[k]}
<1>1. P(h)
  <2>1. ASSUME NEW i \in 0..n
        PROVE  h[i] = IF i = 0 THEN <<<<>>>> ELSE LabelsWith(h[i - 1], name[i])
    <3>1. i # 0 => h[i] = LabelsWith(h[i - 1], name[i])
          BY DEF IsSplitting
    <3>2. i = 0 => h[i] = <<<<>>>>
          BY Zenon DEF IsSplitting
    <3> QED BY <3>1, <3>2, Zenon
  <2>2. h \in [0..n -> Splits]
        BY DEF IsSplitting
  <2> QED BY <2>1, <2>2
<1>2. P(c)
      BY <1>1
<1> HIDE DEF c
<1>3. 0 \in A
      BY <1>1, <1>2
<1>4. ASSUME NEW k \in Nat, k \in A PROVE k + 1 \in A
  <2> SUFFICES ASSUME k + 1 <= n PROVE c[k + 1] = h[k + 1]
      OBVIOUS
  <2>1. c[k + 1] = LabelsWith(c[k], name[k + 1])
        BY <1>2
  <2>2. h[k + 1] = LabelsWith(h[k], name[k + 1])
        BY DEF IsSplitting
  <2> QED BY <1>4, <2>1, <2>2
<1> HIDE DEF A
<1>5. Nat \subseteq A
      BY <1>3, <1>4, Induction
<1>6. c[n] = h[n]
      BY <1>5 DEF A
<1>7. Labels(name) = c[n]
      BY DEF Labels, c
<1> QED BY <1>6, <1>7

(* One more character, of the labels and of what they are together.        *)
LEMMA JoinOneMore ==
  ASSUME NEW L \in Splits, NEW c \in Character, NEW J, IsJoin(L, J),
         c = Dot => J[Len(L)] # <<>>
  PROVE  \E K : /\ IsJoin(LabelsWith(L, c), K)
                /\ K[Len(LabelsWith(L, c))] = Append(J[Len(L)], c)
<1> DEFINE n == Len(L)
           M == LabelsWith(L, c)
           last == Append(J[n], c)
<1>1. /\ M \in Splits /\ n \in Nat \ {0} /\ L[n] \in Text
      /\ \A i \in 1..(n - 1) : M[i] = L[i]
      /\ c = Dot => Len(M) = n + 1 /\ M[n] = L[n] /\ M[n + 1] = <<>>
      /\ c # Dot => Len(M) = n /\ M[n] = Append(L[n], c)
      BY LabelsWithIs
<1> HIDE DEF M, n
<1>2. /\ J \in [0..n -> Text] /\ J[0] = <<>>
      /\ \A i \in 1..n : J[i] = JoinedWith(J[i - 1], L[i])
      BY DEF IsJoin, n
<1>3. J[n] \in Text /\ J[n - 1] \in Text /\ last \in Text
  <2>1. J[n] \in Text /\ J[n - 1] \in Text
        BY <1>1, <1>2
  <2> QED BY <2>1, AppendProperties DEF Text
<1>4. CASE c = Dot
  <2> DEFINE K == [i \in 0..(n + 1) |-> IF i = n + 1 THEN last ELSE J[i]]
  <2>1. K \in [0..(n + 1) -> Text] /\ K[0] = <<>> /\ K[n + 1] = last
        BY <1>1, <1>2, <1>3
  <2>2. JoinedWith(J[n], <<>>) = last
    <3>1. (J[n] \o <<Dot>>) \in Seq(Character) /\ J[n] \o <<Dot>> = Append(J[n], c)
          BY <1>3, <1>4 DEF Text
    <3>2. (J[n] \o <<Dot>>) \o <<>> = J[n] \o <<Dot>>
          BY <3>1, ConcatEmptySeq
    <3> QED BY <1>4, <3>1, <3>2 DEF JoinedWith, n
  <2>3. ASSUME NEW i \in 1..(n + 1) PROVE K[i] = JoinedWith(K[i - 1], M[i])
    <3>1. CASE i = n + 1
      <4>1. K[i - 1] = J[n] /\ K[i] = last
        <5>1. i \in 0..(n + 1) /\ i - 1 \in 0..(n + 1) /\ i - 1 # n + 1 /\ i - 1 = n
              BY <1>1, <3>1
        <5> HIDE DEF last
        <5> QED BY <3>1, <5>1
      <4> QED BY <1>1, <1>4, <2>2, <3>1, <4>1
    <3>2. CASE i # n + 1
      <4>1. i \in 1..n /\ K[i] = J[i] /\ K[i - 1] = J[i - 1]
            BY <1>1, <3>2
      <4>2. M[i] = L[i]
            BY <1>1, <1>4, <4>1
      <4> QED BY <1>2, <4>1, <4>2
    <3> QED BY <3>1, <3>2
  <2> HIDE DEF K, last
  <2>4. IsJoin(M, K)
        BY <1>1, <1>4, <2>1, <2>3 DEF IsJoin
  <2>5. K[Len(M)] = last
        BY <1>1, <1>4, <2>1
  <2> QED BY <2>4, <2>5, Zenon DEF M, last, n
<1>5. CASE c # Dot
  <2> DEFINE K == [i \in 0..n |-> IF i = n THEN last ELSE J[i]]
  <2>1. K \in [0..n -> Text] /\ K[0] = <<>> /\ K[n] = last
        BY <1>1, <1>2, <1>3
  <2>2. JoinedWith(J[n - 1], Append(L[n], c)) = last
    <3>1. J[n] = JoinedWith(J[n - 1], L[n])
          BY <1>1, <1>2
    <3>2. CASE J[n - 1] = <<>>
          BY <3>1, <3>2 DEF JoinedWith
    <3>3. CASE J[n - 1] # <<>>
      <4> DEFINE s == J[n - 1] \o <<Dot>>
      <4>1. s \in Seq(Character)
            BY <1>3 DEF Text, Dot, Character
      <4>2. J[n] = s \o L[n] /\ JoinedWith(J[n - 1], Append(L[n], c)) = s \o Append(L[n], c)
            BY <3>1, <3>3 DEF JoinedWith
      <4> HIDE DEF s
      <4>3. s \o Append(L[n], c) = Append(s \o L[n], c)
        <5>1. L[n] \in Seq(Character)
              BY <1>1 DEF Text
        <5> QED BY <4>1, <5>1, AppendConcat
      <4> QED BY <4>2, <4>3
    <3> QED BY <3>2, <3>3
  <2>3. ASSUME NEW i \in 1..n PROVE K[i] = JoinedWith(K[i - 1], M[i])
    <3>1. CASE i = n
      <4>1. K[i - 1] = J[n - 1] /\ K[i] = last
        <5>1. i \in 0..n /\ i - 1 \in 0..n /\ i - 1 # n
              BY <1>1, <3>1
        <5> HIDE DEF last
        <5> QED BY <3>1, <5>1
      <4> QED BY <1>1, <1>5, <2>2, <3>1, <4>1
    <3>2. CASE i # n
      <4>1. i \in 1..(n - 1) /\ K[i] = J[i] /\ K[i - 1] = J[i - 1]
            BY <1>1, <3>2
      <4>2. M[i] = L[i]
            BY <1>1, <4>1
      <4> QED BY <1>2, <4>1, <4>2
    <3> QED BY <3>1, <3>2
  <2> HIDE DEF K, last
  <2>4. IsJoin(M, K)
        BY <1>1, <1>5, <2>1, <2>3 DEF IsJoin
  <2>5. K[Len(M)] = last
        BY <1>1, <1>5, <2>1
  <2> QED BY <2>4, <2>5, Zenon DEF M, last, n
<1> QED BY <1>4, <1>5

(* The labels of a name without empty ones are the name, when they are     *)
(* joined again.                                                           *)
LEMMA JoinOfLabels ==
  ASSUME NEW name \in Text, \A j \in DOMAIN Labels(name) : Labels(name)[j] # <<>>
  PROVE  /\ Labels(name) \in Splits
         /\ \E J : IsJoin(Labels(name), J) /\ J[Len(Labels(name))] = name
<1> DEFINE n == Len(name)
<1>1. n \in Nat /\ \A i \in 1..n : name[i] \in Character
      BY DEF Text
<1>2. PICK g : IsSplitting(name, g)
      BY SplittingExists
<1>3. /\ g \in [0..n -> Splits] /\ g[0] = <<<<>>>>
      /\ \A i \in 1..n : g[i] = LabelsWith(g[i - 1], name[i])
      BY <1>2, Zenon DEF IsSplitting
<1>4. Labels(name) = g[n]
      BY <1>1, <1>2, LabelsAre
<1>5. \A k \in 0..n : g[k] \in Splits /\ Len(g[k]) \in Nat \ {0}
      BY <1>3 DEF Splits
<1> HIDE DEF n
<1> DEFINE Q == {k \in Nat : k <= n => \A i \in 1..(Len(g[n - k]) - 1) : g[n - k][i] # <<>>}
<1>6. 0 \in Q
  <2>1. \A j \in 1..Len(g[n]) : g[n][j] # <<>>
    <3>1. g[n] \in Seq(Text)
          BY <1>1, <1>5 DEF Splits
    <3> QED BY <1>4, <3>1
  <2>2. n - 0 = n /\ Len(g[n]) \in Nat
        BY <1>1, <1>5
  <2> QED BY <2>1, <2>2
<1>7. ASSUME NEW k \in Nat, k \in Q PROVE k + 1 \in Q
  <2> SUFFICES ASSUME k + 1 <= n, NEW i \in 1..(Len(g[n - (k + 1)]) - 1)
               PROVE  g[n - (k + 1)][i] # <<>>
      OBVIOUS
  <2> DEFINE m == n - (k + 1)
  <2>1. m \in 0..n /\ m + 1 \in 1..n /\ m + 1 = n - k /\ (m + 1) - 1 = m /\ k <= n
        BY <1>1
  <2>2. g[m] \in Splits /\ Len(g[m]) \in Nat \ {0} /\ g[m + 1] = LabelsWith(g[m], name[m + 1])
        BY <1>3, <1>5, <2>1
  <2> HIDE DEF m
  <2>3. name[m + 1] \in Character
        BY <1>1, <2>1
  <2>4. /\ \A j \in 1..(Len(g[m]) - 1) : g[m + 1][j] = g[m][j]
        /\ Len(g[m + 1]) \in {Len(g[m]), Len(g[m]) + 1}
    <3>1. PICK M : M = LabelsWith(g[m], name[m + 1])
          OBVIOUS
    <3>2. /\ \A j \in 1..(Len(g[m]) - 1) : M[j] = g[m][j]
          /\ Len(M) \in {Len(g[m]), Len(g[m]) + 1}
      <4>1. /\ \A j \in 1..(Len(g[m]) - 1) : M[j] = g[m][j]
            /\ name[m + 1] = Dot => Len(M) = Len(g[m]) + 1
            /\ name[m + 1] # Dot => Len(M) = Len(g[m])
            BY <2>2, <2>3, <3>1, LabelsWithIs, Zenon
      <4> QED BY <4>1, Zenon
    <3> QED BY <2>2, <3>1, <3>2, Zenon
  <2>5. \A j \in 1..(Len(g[m + 1]) - 1) : g[m + 1][j] # <<>>
        BY <1>7, <2>1
  <2>6. i \in 1..(Len(g[m]) - 1)
        BY DEF m
  <2>7. i \in 1..(Len(g[m + 1]) - 1)
        BY <2>2, <2>4, <2>6
  <2> QED BY <2>4, <2>5, <2>6, <2>7 DEF m
<1> HIDE DEF Q
<1>8. Nat \subseteq Q
      BY <1>6, <1>7, Induction
<1>9. ASSUME NEW k \in 0..n, NEW i \in 1..(Len(g[k]) - 1) PROVE g[k][i] # <<>>
  <2>1. n - k \in Nat /\ n - k <= n /\ n - (n - k) = k
        BY <1>1
  <2>2. n - k \in Q
        BY <1>8, <2>1
  <2> QED BY <2>1, <2>2 DEF Q
<1> DEFINE B == {k \in Nat : k <= n => \E J : IsJoin(g[k], J)
                                              /\ J[Len(g[k])] = SubSeq(name, 1, k)}
<1>10. 0 \in B
  <2> DEFINE J == [i \in 0..1 |-> <<>>]
  <2>1. Len(g[0]) = 1 /\ g[0][1] = <<>>
        BY <1>3
  <2>2. <<>> \in Text
        BY DEF Text
  <2>3. J \in [0..1 -> Text] /\ J[0] = <<>> /\ J[1] = JoinedWith(J[0], <<>>) /\ J[1] = <<>>
        BY <2>2 DEF JoinedWith
  <2> HIDE DEF J
  <2>4. IsJoin(g[0], J)
        BY <2>1, <2>3 DEF IsJoin
  <2>5. SubSeq(name, 1, 0) = <<>>
        BY SubSeqEmpty
  <2> QED BY <2>1, <2>3, <2>4, <2>5
<1>11. ASSUME NEW k \in Nat, k \in B PROVE k + 1 \in B
  <2> SUFFICES ASSUME k + 1 <= n
               PROVE  \E J : IsJoin(g[k + 1], J) /\ J[Len(g[k + 1])] = SubSeq(name, 1, k + 1)
      OBVIOUS
  <2>1. k \in 0..n /\ k + 1 \in 1..n /\ k + 1 \in 0..n /\ (k + 1) - 1 = k
        BY <1>1
  <2> DEFINE c == name[k + 1]
  <2>2. /\ c \in Character /\ g[k] \in Splits /\ g[k + 1] = LabelsWith(g[k], c)
        BY <1>1, <1>3, <1>5, <2>1
  <2>3. PICK J : IsJoin(g[k], J) /\ J[Len(g[k])] = SubSeq(name, 1, k)
        BY <1>11, <2>1
  <2>4. SubSeq(name, 1, k + 1) = Append(SubSeq(name, 1, k), c)
    <3>1. name \in Seq(Character)
          BY DEF Text
    <3> QED BY <2>1, <3>1 DEF n
  <2>5. c = Dot => J[Len(g[k])] # <<>>
    <3> SUFFICES ASSUME c = Dot, SubSeq(name, 1, k) = <<>> PROVE FALSE
        BY <2>3
    <3>1. k = 0
      <4>1. name \in Seq(Character)
            BY DEF Text
      <4>2. Len(SubSeq(name, 1, k)) = k
            BY <2>1, <4>1, FrontAndRest DEF n
      <4> QED BY <4>2
    <3> HIDE DEF c
    <3>2. Len(g[1]) = 2 /\ g[1][1] = <<>>
      <4>1. Len(g[0]) = 1 /\ g[0][1] = <<>>
            BY <1>3
      <4>2. Len(LabelsWith(g[k], c)) = Len(g[k]) + 1 /\ LabelsWith(g[k], c)[Len(g[k])] = g[k][Len(g[k])]
            BY <2>2, LabelsWithIs
      <4> QED BY <2>2, <3>1, <4>1, <4>2
    <3>3. g[1][1] # <<>>
      <4>1. 1 \in 0..n /\ 1 \in 1..(Len(g[1]) - 1)
            BY <2>1, <3>1, <3>2
      <4> QED BY <1>9, <4>1
    <3> QED BY <3>2, <3>3
  <2> HIDE DEF c
  <2>6. \E K : IsJoin(LabelsWith(g[k], c), K)
               /\ K[Len(LabelsWith(g[k], c))] = Append(J[Len(g[k])], c)
        BY <2>2, <2>3, <2>5, JoinOneMore
  <2> QED BY <2>2, <2>3, <2>4, <2>6
<1> HIDE DEF B
<1>12. Nat \subseteq B
       BY <1>10, <1>11, Induction
<1>13. \E J : IsJoin(g[n], J) /\ J[Len(g[n])] = SubSeq(name, 1, n)
       BY <1>1, <1>12 DEF B
<1>14. SubSeq(name, 1, n) = name
       BY SubSeqFull DEF Text, n
<1>15. g[n] \in Splits
       BY <1>1, <1>5
<1> QED BY <1>4, <1>13, <1>14, <1>15

-------------------------------------------------------------------------------
(* Small letters.                                                          *)
LEMMA LowerCaseIs ==
  ASSUME NEW s \in Text
  PROVE  /\ LowerCase(s) \in Text /\ Len(LowerCase(s)) = Len(s)
         /\ \A i \in 1..Len(s) : LowerCase(s)[i] = Lower(s[i])
<1>1. Len(s) \in Nat /\ DOMAIN s = 1..Len(s) /\ \A i \in 1..Len(s) : s[i] \in Character
      BY DEF Text
<1>2. ASSUME NEW i \in 1..Len(s) PROVE Lower(s[i]) \in Character
  <2>1. \A c \in Character : Lower(c) \in Character
        BY DEF Lower, Character
  <2> QED BY <1>1, <2>1, Zenon
<1>3. LowerCase(s) = [i \in 1..Len(s) |-> Lower(s[i])]
      BY <1>1 DEF LowerCase
<1> QED BY <1>1, <1>2, <1>3 DEF Text

LEMMA LowerCaseConcat ==
  ASSUME NEW s \in Text, NEW t \in Text
  PROVE  LowerCase(s \o t) = LowerCase(s) \o LowerCase(t)
<1>1. /\ s \o t \in Text /\ Len(s \o t) = Len(s) + Len(t)
      /\ \A i \in 1..(Len(s) + Len(t)) : (s \o t)[i] = IF i <= Len(s) THEN s[i] ELSE t[i - Len(s)]
      BY ConcatProperties DEF Text
<1> DEFINE a == LowerCase(s)
           b == LowerCase(t)
           c == LowerCase(s \o t)
<1>2. /\ a \in Text /\ Len(a) = Len(s) /\ \A i \in 1..Len(s) : a[i] = Lower(s[i])
      /\ b \in Text /\ Len(b) = Len(t) /\ \A i \in 1..Len(t) : b[i] = Lower(t[i])
      BY LowerCaseIs
<1>3. /\ c \in Text /\ Len(c) = Len(s) + Len(t)
      /\ \A i \in 1..(Len(s) + Len(t)) : c[i] = Lower((s \o t)[i])
      BY <1>1, LowerCaseIs
<1> HIDE DEF a, b, c
<1>4. /\ a \o b \in Text /\ Len(a \o b) = Len(s) + Len(t)
      /\ \A i \in 1..(Len(s) + Len(t)) : (a \o b)[i] = IF i <= Len(s) THEN a[i] ELSE b[i - Len(s)]
  <2>1. a \in Seq(Character) /\ b \in Seq(Character) /\ Len(a) = Len(s) /\ Len(b) = Len(t)
        BY <1>2 DEF Text
  <2>2. /\ a \o b \in Seq(Character) /\ Len(a \o b) = Len(a) + Len(b)
        /\ \A i \in 1..(Len(a) + Len(b)) : (a \o b)[i] = IF i <= Len(a) THEN a[i] ELSE b[i - Len(a)]
        BY <2>1, ConcatProperties
  <2> QED BY <2>1, <2>2, Zenon DEF Text
<1>5. ASSUME NEW i \in 1..Len(c) PROVE c[i] = (a \o b)[i]
  <2>1. Len(s) \in Nat /\ Len(t) \in Nat
        BY DEF Text
  <2>2. CASE i <= Len(s)
        BY <1>1, <1>2, <1>3, <1>4, <2>1, <2>2
  <2>3. CASE ~(i <= Len(s))
    <3>1. i - Len(s) \in 1..Len(t) /\ i \in 1..(Len(s) + Len(t))
          BY <1>3, <2>1, <2>3
    <3>2. c[i] = Lower(t[i - Len(s)])
          BY <1>1, <1>3, <2>3, <3>1
    <3>3. (a \o b)[i] = b[i - Len(s)]
          BY <1>4, <2>3, <3>1
    <3> QED BY <1>2, <3>1, <3>2, <3>3
  <2> QED BY <2>2, <2>3
<1>6. c = a \o b
      BY <1>3, <1>4, <1>5, SeqEqual DEF Text
<1> QED BY <1>6 DEF a, b, c

LEMMA LowerCaseJoined ==
  ASSUME NEW s \in Text, NEW label \in Text
  PROVE  LowerCase(JoinedWith(s, label)) = JoinedWith(LowerCase(s), LowerCase(label))
<1>1. LowerCase(s) = <<>> <=> s = <<>>
  <2>1. Len(LowerCase(s)) = Len(s) /\ LowerCase(s) \in Text
        BY LowerCaseIs
  <2> QED BY <2>1 DEF Text
<1>2. CASE s = <<>>
      BY <1>1, <1>2 DEF JoinedWith
<1>3. CASE s # <<>>
  <2>1. <<Dot>> \in Text
        BY DEF Text, Dot, Character
  <2>2. LowerCase(<<Dot>>) = <<Dot>>
    <3>1. /\ LowerCase(<<Dot>>) \in Text /\ Len(LowerCase(<<Dot>>)) = 1
          /\ LowerCase(<<Dot>>)[1] = Lower(Dot)
          BY <2>1, LowerCaseIs
    <3>2. Lower(Dot) = Dot
          BY DEF Lower, Dot
    <3> QED BY <3>1, <3>2 DEF Text
  <2>3. s \o <<Dot>> \in Text
        BY <2>1, ConcatProperties DEF Text
  <2>4. LowerCase((s \o <<Dot>>) \o label) = LowerCase(s \o <<Dot>>) \o LowerCase(label)
        BY <2>3, LowerCaseConcat
  <2>5. LowerCase(s \o <<Dot>>) = LowerCase(s) \o <<Dot>>
    <3>1. LowerCase(s \o <<Dot>>) = LowerCase(s) \o LowerCase(<<Dot>>)
          BY <2>1, LowerCaseConcat, Zenon
    <3> QED BY <2>2, <3>1, Zenon
  <2> QED BY <1>1, <1>3, <2>4, <2>5 DEF JoinedWith
<1> QED BY <1>2, <1>3

-------------------------------------------------------------------------------
(* Bytes in a buffer, as far as it reaches.                                *)
Holds(b, bytes, start) ==
  \A j \in 1..Len(bytes) : start + j - 1 < Size => b[start + j - 1] = bytes[j]

Buffer == [0..(Size - 1) -> Byte]

LEMMA PutIs ==
  ASSUME NEW b \in Buffer, NEW bytes \in Seq(Byte), NEW start \in Nat
  PROVE  /\ Put(bytes, start, b) \in Buffer
         /\ Holds(Put(bytes, start, b), bytes, start)
         /\ \A i \in 0..(Size - 1) : i < start => Put(bytes, start, b)[i] = b[i]
<1>1. Len(bytes) \in Nat /\ \A j \in 1..Len(bytes) : bytes[j] \in Byte
      OBVIOUS
<1>2. Size \in Nat
      BY SizesAssumption
<1> DEFINE new == Put(bytes, start, b)
<1>3. new = [i \in 0..(Size - 1) |->
               IF i \in start..(start + Len(bytes) - 1) THEN bytes[i - start + 1] ELSE b[i]]
      BY DEF Put
<1> HIDE DEF new
<1>4. new \in Buffer
  <2>1. ASSUME NEW i \in 0..(Size - 1), i \in start..(start + Len(bytes) - 1)
        PROVE  bytes[i - start + 1] \in Byte
    <3>1. i - start + 1 \in 1..Len(bytes)
          BY <1>1, <1>2, <2>1
    <3> QED BY <1>1, <3>1
  <2>2. \A i \in 0..(Size - 1) : b[i] \in Byte
        BY DEF Buffer
  <2> QED BY <1>3, <2>1, <2>2 DEF Buffer
<1>5. ASSUME NEW j \in 1..Len(bytes), start + j - 1 < Size
      PROVE  new[start + j - 1] = bytes[j]
  <2> DEFINE i == start + j - 1
  <2>1. i \in 0..(Size - 1) /\ i \in start..(start + Len(bytes) - 1) /\ i - start + 1 = j
        BY <1>1, <1>2, <1>5
  <2> HIDE DEF i
  <2>2. new[i] = bytes[i - start + 1]
        BY <1>3, <2>1
  <2> QED BY <2>1, <2>2 DEF i
<1>6. ASSUME NEW i \in 0..(Size - 1), i < start PROVE new[i] = b[i]
  <2>1. ~(i \in start..(start + Len(bytes) - 1))
        BY <1>1, <1>2, <1>6
  <2> QED BY <1>3, <2>1
<1> QED BY <1>4, <1>5, <1>6 DEF Holds, new

(* What was written before stays.                                          *)
LEMMA HoldsKept ==
  ASSUME NEW b \in Buffer, NEW more \in Seq(Byte), NEW start \in Nat,
         NEW bytes, Len(bytes) \in Nat, NEW p \in Nat, p + Len(bytes) <= start,
         Holds(b, bytes, p)
  PROVE  Holds(Put(more, start, b), bytes, p)
<1> SUFFICES ASSUME NEW j \in 1..Len(bytes), p + j - 1 < Size
             PROVE  Put(more, start, b)[p + j - 1] = bytes[j]
    BY DEF Holds
<1>1. Size \in Nat
      BY SizesAssumption
<1> DEFINE i == p + j - 1
<1>2. i \in 0..(Size - 1) /\ i < start
      BY <1>1
<1>3. b[i] = bytes[j]
      BY DEF Holds
<1> HIDE DEF i
<1>4. Put(more, start, b)[i] = b[i]
      BY <1>2, PutIs
<1> QED BY <1>3, <1>4 DEF i

(* A part of what a buffer holds.                                          *)
LEMMA HoldsPart ==
  ASSUME NEW b, NEW whole, NEW part, NEW start \in Nat, NEW o \in Nat,
         Len(whole) \in Nat, Len(part) \in Nat, o + Len(part) <= Len(whole),
         \A j \in 1..Len(part) : part[j] = whole[o + j],
         Holds(b, whole, start)
  PROVE  Holds(b, part, start + o)
<1> SUFFICES ASSUME NEW j \in 1..Len(part), (start + o) + j - 1 < Size
             PROVE  b[(start + o) + j - 1] = part[j]
    BY DEF Holds
<1>1. /\ o + j \in 1..Len(whole) /\ start + (o + j) - 1 = (start + o) + j - 1
      OBVIOUS
<1>2. b[start + (o + j) - 1] = whole[o + j]
      BY <1>1 DEF Holds
<1> QED BY <1>1, <1>2

-------------------------------------------------------------------------------
(* Labels that stand one behind the other: their places, and behind them.  *)
IsPlaces(L, start, s) ==
  /\ s \in [1..(Len(L) + 1) -> Nat] /\ s[1] = start
  /\ \A i \in 1..Len(L) : s[i + 1] = s[i] + 1 + Len(L[i])

LEMMA PlacesExist ==
  ASSUME NEW L \in Seq(Text), NEW start \in Nat
  PROVE  \E s : IsPlaces(L, start, s)
<1> DEFINE n == Len(L)
           F == [z \in Nat \X Nat |-> IF z[2] \in 1..n THEN z[1] + 1 + Len(L[z[2]]) ELSE 0]
<1>1. n \in Nat /\ \A i \in 1..n : L[i] \in Text /\ Len(L[i]) \in Nat
      BY DEF Text
<1>2. F \in [Nat \X Nat -> Nat]
  <2>1. ASSUME NEW z \in Nat \X Nat
        PROVE  (IF z[2] \in 1..n THEN z[1] + 1 + Len(L[z[2]]) ELSE 0) \in Nat
        BY <1>1
  <2> QED BY <2>1
<1>3. PICK g \in [0..n -> Nat] : Iterates(start, F, n, g)
  <2> HIDE DEF n, F
  <2> QED BY <1>1, <1>2, RecursionExists
<1>4. ASSUME NEW i \in 1..n PROVE g[i] = g[i - 1] + 1 + Len(L[i])
  <2>1. g[i] = F[<<g[i - 1], i>>]
        BY <1>3 DEF Iterates
  <2>2. i - 1 \in 0..n /\ i \in Nat
        BY <1>1
  <2>3. g[i - 1] \in Nat
        BY <2>2
  <2>4. <<g[i - 1], i>> \in Nat \X Nat
        BY <2>2, <2>3
  <2> QED BY <2>1, <2>4
<1> DEFINE s == [i \in 1..(n + 1) |-> g[i - 1]]
<1>5. s \in [1..(n + 1) -> Nat] /\ s[1] = start
  <2>1. ASSUME NEW i \in 1..(n + 1) PROVE g[i - 1] \in Nat
    <3>1. i - 1 \in 0..n
          BY <1>1
    <3> QED BY <3>1
  <2>2. g[0] = start
        BY <1>3 DEF Iterates
  <2> QED BY <1>1, <2>1, <2>2
<1>6. ASSUME NEW i \in 1..n PROVE s[i + 1] = s[i] + 1 + Len(L[i])
  <2>1. s[i + 1] = g[i] /\ s[i] = g[i - 1]
        BY <1>1
  <2> QED BY <1>4, <2>1
<1> HIDE DEF s
<1>7. IsPlaces(L, start, s)
      BY <1>5, <1>6 DEF IsPlaces
<1> QED BY <1>7

LEMMA PlacesGrow ==
  ASSUME NEW L \in Seq(Text), NEW start \in Nat, NEW s, IsPlaces(L, start, s),
         NEW i \in 1..(Len(L) + 1)
  PROVE  start <= s[i] /\ s[i] <= s[Len(L) + 1] /\ s[i] \in Nat
<1> DEFINE n == Len(L)
           A == {k \in Nat : k <= n => start <= s[k + 1]}
           B == {k \in Nat : k <= n => s[(n + 1) - k] <= s[n + 1]}
<1>1. n \in Nat /\ \A j \in 1..n : Len(L[j]) \in Nat
      BY DEF Text
<1>2. /\ s \in [1..(n + 1) -> Nat] /\ s[1] = start
      /\ \A j \in 1..n : s[j + 1] = s[j] + 1 + Len(L[j])
      BY DEF IsPlaces
<1> HIDE DEF n
<1>3. 0 \in A /\ 0 \in B
      BY <1>1, <1>2
<1>4. ASSUME NEW k \in Nat, k \in A PROVE k + 1 \in A
  <2> SUFFICES ASSUME k + 1 <= n PROVE start <= s[(k + 1) + 1]
      OBVIOUS
  <2>1. k + 1 \in 1..n /\ k + 1 \in 1..(n + 1)
        BY <1>1
  <2>2. s[(k + 1) + 1] = s[k + 1] + 1 + Len(L[k + 1])
        BY <1>2, <2>1
  <2>3. start <= s[k + 1] /\ s[k + 1] \in Nat /\ Len(L[k + 1]) \in Nat
        BY <1>1, <1>2, <1>4, <2>1
  <2> QED BY <2>2, <2>3
<1>5. ASSUME NEW k \in Nat, k \in B PROVE k + 1 \in B
  <2> SUFFICES ASSUME k + 1 <= n PROVE s[(n + 1) - (k + 1)] <= s[n + 1]
      OBVIOUS
  <2> DEFINE j == (n + 1) - (k + 1)
  <2>1. j \in 1..n /\ j \in 1..(n + 1) /\ j + 1 = (n + 1) - k /\ n + 1 \in 1..(n + 1)
        /\ j + 1 \in 1..(n + 1)
        BY <1>1
  <2> HIDE DEF j
  <2>2. s[j + 1] = s[j] + 1 + Len(L[j]) /\ s[j] \in Nat /\ Len(L[j]) \in Nat
        BY <1>1, <1>2, <2>1
  <2>3. s[j + 1] <= s[n + 1] /\ s[n + 1] \in Nat
    <3>1. k <= n
          BY <1>1
    <3>2. s[(n + 1) - k] <= s[n + 1]
          BY <1>5, <3>1
    <3> QED BY <1>2, <2>1, <3>2
  <2>4. s[j] <= s[n + 1]
        BY <2>2, <2>3
  <2> QED BY <2>4 DEF j
<1> HIDE DEF A, B
<1>6. Nat \subseteq A /\ Nat \subseteq B
      BY <1>3, <1>4, <1>5, Induction
<1>7. i - 1 \in Nat /\ i - 1 <= n /\ (i - 1) + 1 = i /\ i \in 1..(n + 1)
      BY <1>1 DEF n
<1>8. start <= s[i]
      BY <1>6, <1>7 DEF A
<1>9. (n + 1) - i \in Nat /\ (n + 1) - i <= n /\ (n + 1) - ((n + 1) - i) = i
      BY <1>1, <1>7
<1>10. s[i] <= s[n + 1]
       BY <1>6, <1>9 DEF B
<1> QED BY <1>2, <1>7, <1>8, <1>10 DEF n

(* Sums of lengths.                                                        *)
LEMMA NextPlace ==
  ASSUME NEW start \in Nat, NEW front \in Nat, NEW len \in Nat
  PROVE  start + (front + (len + 1)) = (start + front) + 1 + len
OBVIOUS

LEMMA LengthBetween ==
  ASSUME NEW start \in Nat, NEW len \in Nat, NEW here, start + len = here
  PROVE  here - start = len
OBVIOUS

LEMMA WithinPlace ==
  ASSUME NEW start \in Nat, NEW here \in Nat, start <= here, NEW len \in Nat,
         NEW j \in 1..(len + 1), NEW next, next = here + 1 + len
  PROVE  /\ (here - start) + j \in Nat /\ (here - start) + j # 0
         /\ (here - start) + j <= next - start
OBVIOUS

LEMMA UpToPlace ==
  ASSUME NEW here \in Nat, NEW len \in Nat \ {0}, NEW next, next = here + 1 + len,
         NEW last, next <= last
  PROVE  here + (len + 1) <= last
OBVIOUS

LEMMA EarlierPlace ==
  ASSUME NEW here \in Nat, NEW last \in Nat, NEW end \in Nat, here <= last, last + 5 <= end
  PROVE  here + 5 <= end + 6
OBVIOUS

LEMMA EarlierOwnPlace ==
  ASSUME NEW here \in Nat, NEW last \in Nat, here <= last
  PROVE  here + 5 <= last + 6
OBVIOUS

LEMMA BehindBoth ==
  ASSUME NEW n \in Nat, NEW f \in Nat, NEW q \in Nat
  PROVE  /\ n + (f + (q + 6)) = ((n + f) + q) + 6
         /\ ((n + f) + q) + 6 \in Nat /\ n + f <= ((n + f) + q) + 6
OBVIOUS

LEMMA BeforeBegin ==
  ASSUME NEW here \in Nat, NEW begin \in Nat, NEW own \in Nat, here + 5 <= begin, begin <= own
  PROVE  here + 5 <= own
OBVIOUS

LEMMA PlaceWithin ==
  ASSUME NEW start \in Nat, NEW here \in Nat, start <= here, NEW len \in Nat,
         NEW last, NEW whole \in Nat, here + 1 + len <= last, start + whole = last
  PROVE  here - start \in Nat /\ (here - start) + (len + 1) <= whole
OBVIOUS

LEMMA BehindFirst ==
  ASSUME NEW n \in Nat, NEW j \in 1..n
  PROVE  1 + j \in 1..(1 + n) /\ ~(1 + j <= 1) /\ (1 + j) - 1 = j
OBVIOUS

LEMMA FirstOfMore ==
  ASSUME NEW n \in Nat
  PROVE  1 \in 1..(1 + n) /\ 1 <= 1 /\ 1 + n = n + 1
OBVIOUS

Short(L) == \A i \in 1..Len(L) : Len(L[i]) \in Byte

(* The lengths that a label can have in a packet.                          *)
LabelLen == 1..63

LEMMA LabelLenIs ==
  ASSUME NEW len \in LabelLen
  PROVE  len \in Nat /\ len # 0 /\ len \in Byte /\ ~(len >= Pointer)
BY DEF LabelLen, Byte, Pointer

LEMMA LabelLenFrom ==
  ASSUME NEW len \in Nat, len # 0, len <= 63
  PROVE  len \in LabelLen /\ len \in Byte
BY DEF LabelLen, Byte

LEMMA CharactersAreBytes == Character \subseteq Byte
<1>1. ASSUME NEW c \in Character PROVE c \in Byte
      BY DEF Character, Byte
<1> QED BY <1>1, Zenon

(* What a client writes of them is each of them at its place.              *)
LEMMA LabelBytesIs ==
  ASSUME NEW label \in Text, Len(label) \in Byte
  PROVE  /\ LabelBytes(label) \in Seq(Byte) /\ Len(LabelBytes(label)) = Len(label) + 1
         /\ LabelBytes(label)[1] = Len(label)
         /\ \A j \in 1..Len(label) : LabelBytes(label)[1 + j] = label[j]
<1> DEFINE f == <<Len(label)>>
<1>1. f \in Seq(Byte) /\ Len(f) = 1 /\ f[1] = Len(label)
      OBVIOUS
<1>2. label \in Seq(Byte)
      BY CharactersAreBytes, SeqMonotonic, Zenon DEF Text
<1> HIDE DEF f
<1>3. /\ f \o label \in Seq(Byte) /\ Len(f \o label) = Len(f) + Len(label)
      /\ \A i \in 1..(Len(f) + Len(label)) :
           (f \o label)[i] = IF i <= Len(f) THEN f[i] ELSE label[i - Len(f)]
      BY <1>1, <1>2, ConcatProperties
<1>4. ASSUME NEW j \in 1..Len(label) PROVE (f \o label)[1 + j] = label[j]
  <2>1. 1 + j \in 1..(1 + Len(label)) /\ ~(1 + j <= 1) /\ (1 + j) - 1 = j
    <3>1. Len(label) \in Nat
          BY DEF Text
    <3> QED BY <3>1, BehindFirst, Zenon
  <2>2. Len(f) = 1
        BY <1>1
  <2> QED BY <1>3, <2>1, <2>2, Zenon
<1>5. Len(f \o label) = Len(label) + 1 /\ (f \o label)[1] = Len(label)
  <2>1. Len(f) = 1 /\ f[1] = Len(label)
        BY <1>1
  <2>2. Len(label) \in Nat
        BY DEF Text
  <2>3. 1 \in 1..(1 + Len(label)) /\ 1 <= 1 /\ 1 + Len(label) = Len(label) + 1
        BY <2>2, FirstOfMore, Zenon
  <2> QED BY <1>3, <2>1, <2>3, Zenon
<1>7. LabelBytes(label) = f \o label
      BY DEF LabelBytes, f
<1> QED BY <1>3, <1>4, <1>5, <1>7, Zenon

LEMMA PlacesFront ==
  ASSUME NEW L \in Seq(Text), NEW start \in Nat, NEW s, IsPlaces(L, start, s),
         NEW k \in 0..Len(L)
  PROVE  /\ IsPlaces(SubSeq(L, 1, k), start, [a \in 1..(k + 1) |-> s[a]])
         /\ \A i \in 1..(k + 1) : s[i] <= s[k + 1] /\ s[i] \in Nat
<1> DEFINE n == Len(L)
           F == SubSeq(L, 1, k)
           g == [a \in 1..(k + 1) |-> s[a]]
<1>1. n \in Nat /\ k \in Nat /\ k <= n
      OBVIOUS
<1>2. F \in Seq(Text) /\ Len(F) = k /\ \A a \in 1..k : F[a] = L[a]
      BY FrontAndRest
<1>3. /\ s \in [1..(n + 1) -> Nat] /\ s[1] = start
      /\ \A i \in 1..n : s[i + 1] = s[i] + 1 + Len(L[i])
      BY DEF IsPlaces
<1> HIDE DEF n, F
<1>4. g \in [1..(k + 1) -> Nat] /\ g[1] = start
  <2>1. \A a \in 1..(k + 1) : a \in 1..(n + 1)
        BY <1>1
  <2>2. 1 \in 1..(k + 1)
        BY <1>1
  <2> QED BY <1>3, <2>1, <2>2
<1>5. ASSUME NEW a \in 1..k PROVE g[a + 1] = g[a] + 1 + Len(F[a])
  <2>1. a \in 1..(k + 1) /\ a + 1 \in 1..(k + 1) /\ a \in 1..n
        BY <1>1
  <2>2. F[a] = L[a]
        BY <1>2
  <2>3. g[a + 1] = s[a + 1] /\ g[a] = s[a]
        BY <2>1
  <2>4. s[a + 1] = s[a] + 1 + Len(L[a])
        BY <1>3, <2>1
  <2> QED BY <2>2, <2>3, <2>4
<1>6. \A i \in 1..(k + 1) : g[i] = s[i]
      OBVIOUS
<1> HIDE DEF g
<1>7. IsPlaces(F, start, g)
      BY <1>2, <1>4, <1>5 DEF IsPlaces
<1>8. \A i \in 1..(k + 1) : g[i] <= g[k + 1] /\ g[i] \in Nat
      BY <1>2, <1>7, PlacesGrow
<1>9. k + 1 \in 1..(k + 1)
      BY <1>1
<1> QED BY <1>6, <1>7, <1>8, <1>9 DEF F, g

LEMMA PlainIs ==
  ASSUME NEW L \in Seq(Text), Short(L),
         NEW start \in Nat, NEW s, IsPlaces(L, start, s)
  PROVE  /\ PlainBytes(L) \in Seq(Byte) /\ start + Len(PlainBytes(L)) = s[Len(L) + 1]
         /\ \A i \in 1..Len(L) :
              /\ s[i] - start \in Nat
              /\ (s[i] - start) + Len(LabelBytes(L[i])) <= Len(PlainBytes(L))
              /\ \A j \in 1..Len(LabelBytes(L[i])) :
                   LabelBytes(L[i])[j] = PlainBytes(L)[(s[i] - start) + j]
<1> DEFINE n == Len(L)
           ss == [i \in DOMAIN L |-> LabelBytes(L[i])]
<1>1. n \in Nat /\ DOMAIN L = 1..n /\ \A i \in 1..n : L[i] \in Text
      OBVIOUS
<1>2. \A i \in 1..n : LabelBytes(L[i]) \in Seq(Byte) /\ Len(LabelBytes(L[i])) = Len(L[i]) + 1
      BY <1>1, LabelBytesIs DEF Short
<1>3. ss \in Seq(Seq(Byte)) /\ Len(ss) = n /\ \A i \in 1..n : ss[i] = LabelBytes(L[i])
      BY <1>1, <1>2
<1> HIDE DEF ss
<1> HIDE DEF n
<1>4. PICK p \in [0..n -> Seq(Byte)] :
        /\ p[0] = <<>> /\ \A i \in 1..n : p[i] = p[i - 1] \o ss[i]
        /\ p[n] = FlattenSeq(ss)
  <2>1. \E q \in [0..Len(ss) -> Seq(Byte)] :
          /\ q[0] = <<>> /\ \A i \in 1..Len(ss) : q[i] = q[i - 1] \o ss[i]
          /\ q[Len(ss)] = FlattenSeq(ss)
        BY <1>3, FrontsExist
  <2> QED BY <1>3, <2>1
<1>5. /\ s \in [1..(n + 1) -> Nat] /\ s[1] = start
      /\ \A i \in 1..n : s[i + 1] = s[i] + 1 + Len(L[i])
      BY DEF IsPlaces, n
<1>6. \A i \in 1..(n + 1) : start <= s[i] /\ s[i] \in Nat
      BY PlacesGrow DEF n
<1> DEFINE A == {k \in Nat : k <= n =>
                   /\ start + Len(p[k]) = s[k + 1]
                   /\ \A i \in 1..k : \A j \in 1..Len(ss[i]) : ss[i][j] = p[k][(s[i] - start) + j]}
<1>7. 0 \in A
      BY <1>4, <1>5
<1>8. ASSUME NEW k \in Nat, k \in A PROVE k + 1 \in A
  <2> SUFFICES ASSUME k + 1 <= n
               PROVE  /\ start + Len(p[k + 1]) = s[(k + 1) + 1]
                      /\ \A i \in 1..(k + 1) : \A j \in 1..Len(ss[i]) :
                           ss[i][j] = p[k + 1][(s[i] - start) + j]
      OBVIOUS
  <2> DEFINE m == k + 1
             x == ss[m]
  <2>1. m \in 1..n /\ m - 1 = k /\ k <= n /\ k \in 0..n /\ m \in 1..(n + 1) /\ m \in 0..n
        BY <1>1
  <2>2. /\ start + Len(p[k]) = s[m]
        /\ \A i \in 1..k : \A j \in 1..Len(ss[i]) : ss[i][j] = p[k][(s[i] - start) + j]
        BY <1>8, <2>1
  <2>3. p[k] \in Seq(Byte) /\ x \in Seq(Byte) /\ p[m] = p[k] \o x /\ Len(x) = Len(L[m]) + 1
    <3>1. p[m] = p[m - 1] \o ss[m] /\ p[k] \in Seq(Byte)
          BY <1>4, <2>1
    <3> QED BY <1>2, <1>3, <2>1, <3>1
  <2>4. s[m + 1] = s[m] + 1 + Len(L[m]) /\ start <= s[m] /\ s[m] \in Nat
        BY <1>5, <1>6, <2>1
  <2> HIDE DEF x
  <2>5. /\ Len(p[m]) = Len(p[k]) + Len(x)
        /\ \A i \in 1..(Len(p[k]) + Len(x)) :
             p[m][i] = IF i <= Len(p[k]) THEN p[k][i] ELSE x[i - Len(p[k])]
    <3>1. /\ Len(p[k] \o x) = Len(p[k]) + Len(x)
          /\ \A i \in 1..(Len(p[k]) + Len(x)) :
               (p[k] \o x)[i] = IF i <= Len(p[k]) THEN p[k][i] ELSE x[i - Len(p[k])]
          BY <2>3, ConcatProperties
    <3> QED BY <2>3, <3>1, Zenon
  <2>6. Len(p[k]) \in Nat /\ Len(x) \in Nat
        BY <2>3
  <2>7. Len(L[m]) \in Nat
        BY <1>1, <2>1 DEF Text
  <2>8. start + Len(p[m]) = s[m + 1]
    <3>1. Len(p[m]) = Len(p[k]) + Len(x) /\ Len(x) = Len(L[m]) + 1 /\ start + Len(p[k]) = s[m]
          BY <2>2, <2>3, <2>5
    <3>2. s[m + 1] = s[m] + 1 + Len(L[m])
          BY <2>4
    <3> HIDE DEF m
    <3>3. start + (Len(p[k]) + (Len(L[m]) + 1)) = (start + Len(p[k])) + 1 + Len(L[m])
          BY <2>6, <2>7, NextPlace, ZenonT(60)
    <3> QED BY <3>1, <3>2, <3>3, Zenon
  <2>9. ASSUME NEW i \in 1..m, NEW j \in 1..Len(ss[i]) PROVE ss[i][j] = p[m][(s[i] - start) + j]
    <3>1. CASE i = m
      <4>1. s[i] - start = Len(p[k])
        <5>1. start + Len(p[k]) = s[i]
              BY <2>2, <3>1
        <5> QED BY <2>6, <5>1, LengthBetween, Zenon
      <4>2. j \in 1..Len(x)
            BY <3>1 DEF x
      <4>3. /\ Len(p[k]) + j \in 1..(Len(p[k]) + Len(x)) /\ ~(Len(p[k]) + j <= Len(p[k]))
            /\ (Len(p[k]) + j) - Len(p[k]) = j
            BY <2>6, <4>2
      <4>4. p[m][Len(p[k]) + j] = x[j]
            BY <2>5, <4>3
      <4> QED BY <3>1, <4>1, <4>4 DEF x
    <3>2. CASE i # m
      <4>1. i \in 1..k /\ i \in 1..n /\ i \in 1..(n + 1) /\ i + 1 \in 1..(k + 1)
            BY <1>1, <2>1, <3>2
      <4> DEFINE o == (s[i] - start) + j
      <4>2. ss[i][j] = p[k][o]
            BY <2>2, <4>1
      <4>3. o \in Nat /\ o # 0 /\ o <= s[i + 1] - start
        <5>1. /\ s[i] \in Nat /\ start <= s[i] /\ s[i + 1] = s[i] + 1 + Len(L[i])
              /\ Len(ss[i]) = Len(L[i]) + 1
              BY <1>2, <1>3, <1>5, <1>6, <4>1
        <5>2. Len(L[i]) \in Nat
              BY <1>1, <4>1 DEF Text
        <5>3. j \in 1..(Len(L[i]) + 1)
              BY <5>1
        <5> QED BY <5>1, <5>2, <5>3, WithinPlace, Zenon
      <4>4. s[i + 1] <= s[m] /\ s[i + 1] \in Nat
        <5>1. k \in 0..Len(L)
              BY <2>1 DEF n
        <5>2. i + 1 \in 1..(k + 1)
              BY <4>1
        <5> QED BY <5>1, <5>2, PlacesFront
      <4> HIDE DEF o
      <4>5. o \in 1..Len(p[k])
            BY <2>2, <2>4, <2>6, <4>3, <4>4
      <4>6. p[m][o] = p[k][o]
        <5>1. o \in 1..(Len(p[k]) + Len(x)) /\ o <= Len(p[k])
              BY <2>6, <4>5
        <5> QED BY <2>5, <5>1
      <4> QED BY <4>2, <4>6 DEF o
    <3> QED BY <3>1, <3>2
  <2> QED BY <2>8, <2>9
<1> HIDE DEF A
<1>9. Nat \subseteq A
      BY <1>7, <1>8, Induction
<1>10. /\ start + Len(p[n]) = s[n + 1]
       /\ \A i \in 1..n : \A j \in 1..Len(ss[i]) : ss[i][j] = p[n][(s[i] - start) + j]
       BY <1>1, <1>9 DEF A
<1>11. PlainBytes(L) = p[n] /\ p[n] \in Seq(Byte)
       BY <1>1, <1>4 DEF PlainBytes, ss
<1>12. ASSUME NEW i \in 1..n
       PROVE  s[i] - start \in Nat /\ (s[i] - start) + Len(ss[i]) <= Len(p[n])
  <2>1. i \in 1..(n + 1) /\ i + 1 \in 1..(n + 1) /\ Len(L[i]) \in Nat
        BY <1>1 DEF Text
  <2>2. s[i + 1] <= s[n + 1]
    <3>1. i + 1 \in 1..(Len(L) + 1)
          BY <2>1 DEF n
    <3> QED BY <3>1, PlacesGrow DEF n
  <2>3. s[i + 1] = s[i] + 1 + Len(L[i]) /\ Len(ss[i]) = Len(L[i]) + 1
        BY <1>2, <1>3, <1>5
  <2>4. s[i] \in Nat /\ start <= s[i]
        BY <1>6, <2>1
  <2>5. Len(p[n]) \in Nat
        BY <1>11
  <2>6. start + Len(p[n]) = s[n + 1]
        BY <1>10
  <2>7. s[i] + 1 + Len(L[i]) <= s[n + 1] /\ Len(ss[i]) = Len(L[i]) + 1
        BY <2>2, <2>3, Zenon
  <2>8. s[i] - start \in Nat /\ (s[i] - start) + (Len(L[i]) + 1) <= Len(p[n])
        BY <2>1, <2>4, <2>5, <2>6, <2>7, PlaceWithin, Zenon
  <2> QED BY <2>7, <2>8, Zenon
<1>13. \A i \in 1..n : ss[i] = LabelBytes(L[i])
       BY <1>3
<1> HIDE DEF A
<1> QED BY <1>10, <1>11, <1>12, <1>13 DEF n

(* Of the first labels alone.                                              *)
LEMMA PlaceOf ==
  ASSUME NEW L \in Seq(Text), Short(L),
         NEW start \in Nat, NEW s, IsPlaces(L, start, s), NEW m \in 1..(Len(L) + 1)
  PROVE  start + Len(PlainBytes(SubSeq(L, 1, m - 1))) = s[m]
<1>1. m - 1 \in 0..Len(L) /\ (m - 1) + 1 = m
      OBVIOUS
<1> DEFINE k == m - 1
           F == SubSeq(L, 1, k)
           g == [a \in 1..(k + 1) |-> s[a]]
<1>2. F \in Seq(Text) /\ Len(F) = k /\ (\A a \in 1..k : F[a] = L[a]) /\ IsPlaces(F, start, g)
      BY <1>1, FrontAndRest, PlacesFront
<1>3. g[k + 1] = s[m]
      BY <1>1
<1>4. k \in Nat /\ \A i \in 1..k : i \in 1..Len(L)
      BY <1>1
<1> HIDE DEF k, F, g
<1>5. Short(F)
      BY <1>2, <1>4 DEF Short
<1>6. start + Len(PlainBytes(F)) = g[Len(F) + 1]
      BY <1>2, <1>5, PlainIs
<1> QED BY <1>2, <1>3, <1>6 DEF F, k

-------------------------------------------------------------------------------
(* A question in a buffer, from begin to end: a reader that has read i - 1 *)
(* labels of its name stands at t[i], and the next label stands at s[i],   *)
(* which is another place when a pointer is there, and that is where i = h.*)
Names(L, J, name) ==
  /\ L \in Seq(Text) /\ \A i \in 1..Len(L) : Len(L[i]) \in LabelLen
  /\ IsJoin(L, J) /\ J[Len(L)] = name

Route(L, s, t, h, begin, end) ==
  /\ s \in [1..(Len(L) + 1) -> Nat] /\ t \in [1..(Len(L) + 1) -> Nat]
  /\ h \in 0..(Len(L) + 1)
  /\ t[1] = begin
  /\ \A i \in 1..Len(L) : t[i + 1] = s[i] + 1 + Len(L[i])
  /\ \A i \in 1..(Len(L) + 1) :
       (i # h => s[i] = t[i]) /\ s[i] + 5 <= end /\ t[i] + 5 <= end
  /\ h # 0 => s[h] \in Offset /\ end = t[h] + 6
  /\ h = 0 => end = s[Len(L) + 1] + 5

Contents(b, L, s, t, h) ==
  /\ \A i \in 1..Len(L) : Holds(b, LabelBytes(L[i]), s[i])
  /\ Holds(b, << 0 >>, s[Len(L) + 1])
  /\ h # 0 => Holds(b, PointerTo(s[h]), t[h])

Laid(b, name, begin, end) ==
  \E L, J, s, t, h :
    Names(L, J, name) /\ Route(L, s, t, h, begin, end) /\ Contents(b, L, s, t, h)

LEMMA LabelEndsBefore ==
  ASSUME NEW here \in Nat, NEW len \in Nat, NEW next, next = here + 1 + len,
         NEW end \in Nat, next + 5 <= end, NEW start \in Nat, end <= start
  PROVE  here + (len + 1) <= start
OBVIOUS

(* A question stays when something is written behind it.                   *)
LEMMA LaidKept ==
  ASSUME NEW b \in Buffer, NEW more \in Seq(Byte), NEW start \in Nat,
         NEW name, NEW begin, NEW end, end <= start, end \in Nat, Laid(b, name, begin, end)
  PROVE  Laid(Put(more, start, b), name, begin, end)
<1> DEFINE new == Put(more, start, b)
<1>1. PICK L, J, s, t, h :
        Names(L, J, name) /\ Route(L, s, t, h, begin, end) /\ Contents(b, L, s, t, h)
      BY DEF Laid
<1> DEFINE n == Len(L)
<1>2. L \in Seq(Text) /\ n \in Nat /\ \A i \in 1..n : Len(L[i]) \in LabelLen /\ L[i] \in Text
      BY <1>1 DEF Names
<1>3. /\ \A i \in 1..(n + 1) : s[i] \in Nat /\ t[i] \in Nat /\ s[i] + 5 <= end
      /\ \A i \in 1..n : i + 1 \in 1..(n + 1) /\ t[i + 1] = s[i] + 1 + Len(L[i]) /\ t[i + 1] + 5 <= end
      /\ h \in 0..(n + 1) /\ (h # 0 => end = t[h] + 6)
  <2>1. Route(L, s, t, h, begin, end)
        BY <1>1
  <2>2. /\ s \in [1..(n + 1) -> Nat] /\ t \in [1..(n + 1) -> Nat] /\ h \in 0..(n + 1)
        /\ h # 0 => end = t[h] + 6
        BY <2>1 DEF Route
  <2>3. \A i \in 1..(n + 1) : s[i] + 5 <= end /\ t[i] + 5 <= end
        BY <2>1 DEF Route
  <2>4. \A i \in 1..n : t[i + 1] = s[i] + 1 + Len(L[i])
        BY <2>1 DEF Route
  <2>5. \A i \in 1..n : i + 1 \in 1..(n + 1)
        BY <1>2
  <2> QED BY <2>2, <2>3, <2>4, <2>5
<1> HIDE DEF new, n
<1>4. ASSUME NEW i \in 1..n PROVE Holds(new, LabelBytes(L[i]), s[i])
  <2>1. Len(LabelBytes(L[i])) = Len(L[i]) + 1 /\ Len(L[i]) \in Nat
    <3>1. Len(L[i]) \in Byte /\ Len(L[i]) \in Nat /\ L[i] \in Text
          BY <1>2, LabelLenIs
    <3>2. Len(LabelBytes(L[i])) = Len(L[i]) + 1
          BY <3>1, LabelBytesIs, Zenon
    <3> QED BY <3>1, <3>2
  <2>2. s[i] \in Nat /\ s[i] + (Len(L[i]) + 1) <= start
    <3>1. t[i + 1] = s[i] + 1 + Len(L[i]) /\ t[i + 1] + 5 <= end
          BY <1>3
    <3>2. i \in 1..(n + 1)
          BY <1>2
    <3>3. s[i] \in Nat
          BY <1>3, <3>2
    <3> QED BY <2>1, <3>1, <3>3, LabelEndsBefore, Zenon
  <2>3. Holds(b, LabelBytes(L[i]), s[i])
        BY <1>1 DEF Contents, n
  <2>4. Len(LabelBytes(L[i])) \in Nat /\ s[i] + Len(LabelBytes(L[i])) <= start
        BY <2>1, <2>2
  <2> QED BY <2>2, <2>3, <2>4, HoldsKept DEF new
<1>5. Holds(new, << 0 >>, s[n + 1])
  <2>1. s[n + 1] \in Nat /\ s[n + 1] + Len(<< 0 >>) <= start
    <3>1. n + 1 \in 1..(n + 1)
          BY <1>2
    <3>2. s[n + 1] \in Nat /\ s[n + 1] + 5 <= end /\ Len(<< 0 >>) = 1
          BY <1>3, <3>1
    <3> QED BY <3>2
  <2>2. Holds(b, << 0 >>, s[n + 1]) /\ Len(<< 0 >>) \in Nat
        BY <1>1 DEF Contents, n
  <2> QED BY <2>1, <2>2, HoldsKept DEF new
<1>6. ASSUME h # 0 PROVE Holds(new, PointerTo(s[h]), t[h])
  <2>1. h \in 1..(n + 1) /\ Len(PointerTo(s[h])) = 2
        BY <1>2, <1>3, <1>6 DEF PointerTo
  <2>2. t[h] \in Nat /\ t[h] + Len(PointerTo(s[h])) <= start /\ Len(PointerTo(s[h])) \in Nat
        BY <1>3, <1>6, <2>1
  <2>3. Holds(b, PointerTo(s[h]), t[h])
        BY <1>1, <1>6 DEF Contents
  <2> QED BY <2>2, <2>3, HoldsKept DEF new
<1>7. Contents(new, L, s, t, h)
      BY <1>4, <1>5, <1>6 DEF Contents, n
<1>8. Laid(new, name, begin, end)
      BY <1>1, <1>7 DEF Laid
<1> QED BY <1>8 DEF new

(* What the names that are written are.                                    *)
LEMMA WrittenNames ==
  ASSUME NEW names \in Written
  PROVE  /\ names \in Seq(Text) /\ names # <<>>
         /\ \A k \in 1..Len(names) :
              /\ Labels(names[k]) \in Seq(Text)
              /\ \A i \in 1..Len(Labels(names[k])) : Len(Labels(names[k])[i]) \in Nat \ {0}
              /\ \E J : IsJoin(Labels(names[k]), J) /\ J[Len(Labels(names[k]))] = names[k]
<1>1. names \in Seq(Text) /\ names # <<>>
      BY WrittenAssumption DEF Text
<1>2. ASSUME NEW k \in 1..Len(names)
      PROVE  /\ Labels(names[k]) \in Seq(Text)
             /\ \A i \in 1..Len(Labels(names[k])) : Len(Labels(names[k])[i]) \in Nat \ {0}
             /\ \E J : IsJoin(Labels(names[k]), J) /\ J[Len(Labels(names[k]))] = names[k]
  <2> DEFINE L == Labels(names[k])
  <2>1. names[k] \in Text /\ k \in DOMAIN names
        BY <1>1
  <2>2. \A j \in DOMAIN L : IsLabel(L[j])
        BY <2>1, WrittenAssumption
  <2>3. \A j \in DOMAIN L : L[j] \in Text /\ L[j] # <<>>
        BY <2>2 DEF IsLabel, Text
  <2>4. L \in Splits /\ \E J : IsJoin(L, J) /\ J[Len(L)] = names[k]
        BY <2>1, <2>3, JoinOfLabels
  <2> HIDE DEF L
  <2>5. L \in Seq(Text)
        BY <2>4 DEF Splits
  <2>6. ASSUME NEW i \in 1..Len(L) PROVE Len(L[i]) \in Nat \ {0}
    <3>1. i \in DOMAIN L
          BY <2>5
    <3>2. L[i] \in Seq(Character) /\ L[i] # <<>>
          BY <2>3, <3>1 DEF Text
    <3> QED BY <3>2
  <2> QED BY <2>4, <2>5, <2>6 DEF L
<1> QED BY <1>1, <1>2

(* A name that was written to its end, and the four bytes behind it.       *)
LEMMA WrittenLaid ==
  ASSUME NEW b, NEW L \in Seq(Text), \A i \in 1..Len(L) : Len(L[i]) \in LabelLen,
         NEW J, IsJoin(L, J), NEW begin \in Nat, NEW s, IsPlaces(L, begin, s),
         \A i \in 1..Len(L) : Holds(b, LabelBytes(L[i]), s[i]),
         Holds(b, << 0 >>, s[Len(L) + 1])
  PROVE  Laid(b, J[Len(L)], begin, s[Len(L) + 1] + 5)
<1> DEFINE n == Len(L)
<1>1. Names(L, J, J[n])
      BY DEF Names
<1>2. Contents(b, L, s, s, 0)
      BY DEF Contents
<1>3. \A i \in 1..(n + 1) : s[i] <= s[n + 1] /\ s[i] \in Nat
      BY PlacesGrow
<1>4. /\ s \in [1..(n + 1) -> Nat] /\ s[1] = begin
      /\ \A i \in 1..n : s[i + 1] = s[i] + 1 + Len(L[i])
      BY DEF IsPlaces
<1>5. n \in Nat /\ n + 1 \in 1..(n + 1)
      OBVIOUS
<1>6. ASSUME NEW i \in 1..(n + 1) PROVE s[i] + 5 <= s[n + 1] + 5
  <2>1. s[i] <= s[n + 1] /\ s[i] \in Nat /\ s[n + 1] \in Nat
        BY <1>3, <1>5
  <2> QED BY <2>1
<1>7. 0 \in 0..(n + 1)
      BY <1>5
<1>8. Route(L, s, s, 0, begin, s[n + 1] + 5)
      BY <1>4, <1>6, <1>7 DEF Route
<1> QED BY <1>1, <1>2, <1>8 DEF Laid

-------------------------------------------------------------------------------
(* What a client wrote.                                                    *)
LEMMA HoldsBoth ==
  ASSUME NEW b, NEW T, NEW x \in Seq(T), NEW y \in Seq(T), NEW start \in Nat,
         Holds(b, x \o y, start)
  PROVE  Holds(b, x, start) /\ Holds(b, y, start + Len(x))
<1>1. /\ x \o y \in Seq(T) /\ Len(x \o y) = Len(x) + Len(y)
      /\ \A i \in 1..(Len(x) + Len(y)) : (x \o y)[i] = IF i <= Len(x) THEN x[i] ELSE y[i - Len(x)]
      BY ConcatProperties
<1>2. Len(x) \in Nat /\ Len(y) \in Nat /\ Len(x \o y) \in Nat
      BY <1>1
<1>3. \A j \in 1..Len(x) : x[j] = (x \o y)[0 + j]
  <2>1. ASSUME NEW j \in 1..Len(x) PROVE x[j] = (x \o y)[0 + j]
    <3>1. j \in 1..(Len(x) + Len(y)) /\ j <= Len(x) /\ 0 + j = j
          BY <1>2
    <3> QED BY <1>1, <3>1
  <2> QED BY <2>1
<1>4. ASSUME NEW j \in 1..Len(y) PROVE y[j] = (x \o y)[Len(x) + j]
  <2>1. /\ Len(x) + j \in 1..(Len(x) + Len(y)) /\ ~(Len(x) + j <= Len(x))
        /\ (Len(x) + j) - Len(x) = j
        BY <1>2
  <2> QED BY <1>1, <2>1
<1>5. 0 + Len(x) <= Len(x \o y) /\ Len(x) + Len(y) <= Len(x \o y) /\ start + 0 = start
      BY <1>1, <1>2
<1>6. Holds(b, x, start + 0)
      BY <1>2, <1>3, <1>5, HoldsPart
<1>7. Holds(b, y, start + Len(x))
      BY <1>2, <1>4, <1>5, HoldsPart
<1> QED BY <1>5, <1>6, <1>7

LEMMA HoldsLabels ==
  ASSUME NEW b, NEW L \in Seq(Text), Short(L), NEW start \in Nat, NEW s, IsPlaces(L, start, s),
         Holds(b, PlainBytes(L), start), NEW i \in 1..Len(L)
  PROVE  Holds(b, LabelBytes(L[i]), s[i])
<1> DEFINE o == s[i] - start
<1>1. /\ PlainBytes(L) \in Seq(Byte) /\ o \in Nat
      /\ o + Len(LabelBytes(L[i])) <= Len(PlainBytes(L))
      /\ \A j \in 1..Len(LabelBytes(L[i])) : LabelBytes(L[i])[j] = PlainBytes(L)[o + j]
      BY PlainIs
<1>2. Len(LabelBytes(L[i])) \in Nat /\ Len(PlainBytes(L)) \in Nat
  <2>1. L[i] \in Text /\ Len(L[i]) \in Byte
        BY DEF Short
  <2> QED BY <1>1, <2>1, LabelBytesIs
<1>3. s[i] \in Nat
  <2>1. i \in 1..(Len(L) + 1)
        OBVIOUS
  <2> QED BY <2>1, PlacesGrow
<1>4. start + o = s[i]
      BY <1>3
<1> HIDE DEF o
<1>5. Holds(b, LabelBytes(L[i]), start + o)
      BY <1>1, <1>2, HoldsPart
<1> QED BY <1>4, <1>5

(* A name of some labels and a pointer to others.                          *)
LEMMA ContinuedLaid ==
  ASSUME NEW b, NEW first \in Seq(Text), \A i \in 1..Len(first) : Len(first[i]) \in LabelLen,
         NEW own \in Seq(Text), \A i \in 1..Len(own) : Len(own[i]) \in LabelLen,
         NEW start \in Nat, NEW s, IsPlaces(first, start, s),
         NEW begin \in Nat, NEW u, IsPlaces(own, begin, u),
         NEW from \in 1..(Len(first) + 1),
         s[Len(first) + 1] + 5 <= begin, s[from] \in Offset,
         \A i \in 1..Len(first) : Holds(b, LabelBytes(first[i]), s[i]),
         \A i \in 1..Len(own) : Holds(b, LabelBytes(own[i]), u[i]),
         Holds(b, << 0 >>, s[Len(first) + 1]),
         Holds(b, PointerTo(s[from]), u[Len(own) + 1])
  PROVE  LET L == own \o SubSeq(first, from, Len(first))
         IN  /\ Joined(L) \in Text
             /\ Laid(b, Joined(L), begin, u[Len(own) + 1] + 6)
<1> DEFINE n == Len(first)
           m == Len(own)
           k == from - 1
           R == SubSeq(first, from, n)
           L == own \o R
           w == m + (n - k)
<1>1. n \in Nat /\ m \in Nat /\ k \in 0..n /\ k + 1 = from
      OBVIOUS
<1>2. R \in Seq(Text) /\ Len(R) = n - k /\ \A i \in 1..(n - k) : R[i] = first[k + i]
  <2>1. /\ SubSeq(first, k + 1, n) \in Seq(Text) /\ Len(SubSeq(first, k + 1, n)) = n - k
        /\ \A i \in 1..(n - k) : SubSeq(first, k + 1, n)[i] = first[k + i]
        BY <1>1, FrontAndRest
  <2> QED BY <1>1, <2>1
<1> HIDE DEF R, k
<1>3. /\ L \in Seq(Text) /\ Len(L) = w
      /\ \A i \in 1..w : L[i] = IF i <= m THEN own[i] ELSE R[i - m]
  <2>1. /\ own \o R \in Seq(Text) /\ Len(own \o R) = Len(own) + Len(R)
        /\ \A i \in 1..(Len(own) + Len(R)) :
             (own \o R)[i] = IF i <= Len(own) THEN own[i] ELSE R[i - Len(own)]
        BY <1>2, ConcatProperties
  <2> QED BY <1>2, <2>1
<1> HIDE DEF L
<1>4. ASSUME NEW i \in 1..w, i <= m PROVE i \in 1..m /\ L[i] = own[i]
      BY <1>1, <1>3, <1>4
<1>5. ASSUME NEW i \in 1..w, ~(i <= m)
      PROVE  k + (i - m) \in 1..n /\ L[i] = first[k + (i - m)]
  <2>1. i - m \in 1..(n - k) /\ k + (i - m) \in 1..n
        BY <1>1, <1>5
  <2>2. L[i] = R[i - m]
        BY <1>3, <1>5
  <2> QED BY <1>2, <2>1, <2>2
<1>6. PICK J : IsJoin(L, J)
      BY <1>3, JoinExists
<1>7. Joined(L) = J[w] /\ J[w] \in Text
  <2>1. w \in Nat /\ w \in 0..w
        BY <1>1
  <2>2. Joined(L) = J[Len(L)]
        BY <1>3, <1>6, <2>1, JoinedIs
  <2>3. J \in [0..w -> Text]
        BY <1>3, <1>6 DEF IsJoin
  <2> QED BY <1>3, <2>1, <2>2, <2>3
<1>8. Names(L, J, Joined(L))
  <2>1. ASSUME NEW i \in 1..w PROVE Len(L[i]) \in LabelLen
    <3>1. CASE i <= m
          BY <1>4, <3>1
    <3>2. CASE ~(i <= m)
      <4>1. k + (i - m) \in 1..n /\ L[i] = first[k + (i - m)]
            BY <1>5, <3>2
      <4> QED BY <4>1
    <3> QED BY <3>1, <3>2
  <2> QED BY <1>3, <1>6, <1>7, <2>1 DEF Names
<1>9. /\ s \in [1..(n + 1) -> Nat]
      /\ \A i \in 1..n : s[i + 1] = s[i] + 1 + Len(first[i])
      BY DEF IsPlaces
<1>10. /\ u \in [1..(m + 1) -> Nat] /\ u[1] = begin
       /\ \A i \in 1..m : u[i + 1] = u[i] + 1 + Len(own[i])
       BY DEF IsPlaces
<1>11. \A i \in 1..(n + 1) : s[i] \in Nat /\ s[i] <= s[n + 1]
       BY PlacesGrow
<1>12. \A i \in 1..(m + 1) : u[i] \in Nat /\ u[i] <= u[m + 1] /\ begin <= u[i]
       BY PlacesGrow
<1> HIDE DEF n, m, w
<1> DEFINE h == m + 1
           end == u[h] + 6
           x == [i \in 1..(w + 1) |-> IF i <= m THEN u[i] ELSE s[k + (i - m)]]
           y == [i \in 1..(w + 1) |-> IF i <= h THEN u[i] ELSE s[k + (i - m)]]
<1>13. w \in Nat /\ h \in 1..(w + 1) /\ h \in 1..(m + 1) /\ w + 1 \in 1..(w + 1) /\ ~(h <= m)
       BY <1>1 DEF w
<1>14. \A i \in 1..(w + 1) : (i <= m => i \in 1..(m + 1)) /\ (~(i <= m) => k + (i - m) \in 1..(n + 1))
       BY <1>1 DEF w
<1>15. x \in [1..(w + 1) -> Nat] /\ y \in [1..(w + 1) -> Nat]
  <2>1. \A i \in 1..(w + 1) : (IF i <= m THEN u[i] ELSE s[k + (i - m)]) \in Nat
        BY <1>11, <1>12, <1>14
  <2>2. ASSUME NEW i \in 1..(w + 1) PROVE (IF i <= h THEN u[i] ELSE s[k + (i - m)]) \in Nat
    <3>1. i <= h => i \in 1..(m + 1)
          BY <1>1
    <3>2. ~(i <= h) => ~(i <= m)
          BY <1>1
    <3> QED BY <1>11, <1>12, <1>14, <3>1, <3>2
  <2> QED BY <2>1, <2>2
<1>16. ASSUME NEW i \in 1..(w + 1) PROVE x[i] + 5 <= end /\ y[i] + 5 <= end /\ (i # h => x[i] = y[i])
  <2>1. u[h] \in Nat /\ begin <= u[h] /\ s[n + 1] + 5 <= begin /\ s[n + 1] \in Nat
    <3>1. n + 1 \in 1..(n + 1)
          BY <1>1
    <3> QED BY <1>11, <1>12, <1>13, <3>1 DEF n
  <2>2. \A j \in 1..(m + 1) : u[j] + 5 <= end
    <3>1. ASSUME NEW j \in 1..(m + 1) PROVE u[j] + 5 <= end
      <4>1. u[j] \in Nat /\ u[j] <= u[h]
            BY <1>12
      <4> QED BY <2>1, <4>1, EarlierOwnPlace, Zenon
    <3> QED BY <3>1
  <2>3. \A j \in 1..(n + 1) : s[j] + 5 <= end
    <3>1. ASSUME NEW j \in 1..(n + 1) PROVE s[j] + 5 <= end
      <4>1. s[j] \in Nat /\ s[j] <= s[n + 1]
            BY <1>11
      <4>2. s[n + 1] + 5 <= u[h]
            BY <2>1, BeforeBegin, Zenon
      <4> QED BY <2>1, <4>1, <4>2, EarlierPlace, Zenon
    <3> QED BY <3>1
  <2>4. CASE i <= m
    <3>1. i \in 1..(m + 1) /\ i <= h
          BY <1>1, <2>4
    <3>2. x[i] = u[i] /\ y[i] = u[i]
          BY <2>4, <3>1
    <3> HIDE DEF x, y, end
    <3> QED BY <2>2, <3>1, <3>2
  <2>5. CASE i = h
    <3>1. ~(i <= m) /\ i <= h /\ i \in 1..(m + 1) /\ k + (i - m) \in 1..(n + 1)
          BY <1>1, <1>14, <2>5
    <3>2. x[i] = s[k + (i - m)] /\ y[i] = u[i]
          BY <3>1
    <3> HIDE DEF x, y, end, h
    <3> QED BY <2>2, <2>3, <2>5, <3>1, <3>2
  <2>6. CASE ~(i <= m) /\ i # h
    <3>1. ~(i <= h) /\ k + (i - m) \in 1..(n + 1)
          BY <1>1, <1>14, <2>6
    <3>2. x[i] = s[k + (i - m)] /\ y[i] = s[k + (i - m)]
          BY <2>6, <3>1
    <3> HIDE DEF x, y, end
    <3> QED BY <2>3, <3>1, <3>2
  <2> QED BY <2>4, <2>5, <2>6
<1>17. ASSUME NEW i \in 1..w
       PROVE  y[i + 1] = x[i] + 1 + Len(L[i]) /\ Holds(b, LabelBytes(L[i]), x[i])
  <2>1. i \in 1..(w + 1) /\ i + 1 \in 1..(w + 1)
        BY <1>13
  <2>2. CASE i <= m
    <3>1. i + 1 <= h /\ i \in 1..m /\ L[i] = own[i]
          BY <1>1, <1>4, <2>2
    <3>2. x[i] = u[i] /\ y[i + 1] = u[i + 1]
          BY <2>1, <2>2, <3>1
    <3>3. u[i + 1] = u[i] + 1 + Len(own[i]) /\ Holds(b, LabelBytes(own[i]), u[i])
          BY <1>10, <3>1 DEF m
    <3> HIDE DEF x, y
    <3> QED BY <3>1, <3>2, <3>3
  <2>3. CASE ~(i <= m)
    <3> DEFINE j == k + (i - m)
    <3>1. j \in 1..n /\ L[i] = first[j]
          BY <1>5, <2>3
    <3>2. ~(i + 1 <= h) /\ k + ((i + 1) - m) = j + 1
          BY <1>1, <2>3
    <3>3. x[i] = s[j] /\ y[i + 1] = s[k + ((i + 1) - m)]
          BY <2>1, <2>3, <3>2
    <3> HIDE DEF j, x, y
    <3>4. s[j + 1] = s[j] + 1 + Len(first[j]) /\ Holds(b, LabelBytes(first[j]), s[j])
          BY <1>9, <3>1 DEF n
    <3> QED BY <3>1, <3>2, <3>3, <3>4
  <2> QED BY <2>2, <2>3
<1>18. x[h] = s[from] /\ y[h] = u[h] /\ y[1] = begin /\ x[w + 1] = s[n + 1]
  <2>1. k + (h - m) = from /\ k + ((w + 1) - m) = n + 1 /\ ~(w + 1 <= m)
        BY <1>1 DEF w
  <2>2. 1 \in 1..(w + 1) /\ 1 <= h
        BY <1>1, <1>13
  <2> QED BY <1>10, <1>13, <2>1, <2>2
<1> HIDE DEF x, y
<1>19. Contents(b, L, x, y, h)
  <2>1. Holds(b, << 0 >>, x[Len(L) + 1])
        BY <1>3, <1>18 DEF n
  <2>2. Holds(b, PointerTo(x[h]), y[h])
        BY <1>18 DEF m
  <2> QED BY <1>3, <1>17, <2>1, <2>2 DEF Contents
<1>20. Route(L, x, y, h, begin, end)
  <2>1. h \in 0..(w + 1) /\ h # 0
        BY <1>13
  <2>2. x[h] \in Offset /\ end = y[h] + 6
        BY <1>18
  <2> HIDE DEF end, h
  <2> QED BY <1>3, <1>15, <1>16, <1>17, <1>18, <2>1, <2>2 DEF Route
<1>21. Laid(b, Joined(L), begin, end)
  <2> HIDE DEF end, h
  <2> QED BY <1>8, <1>19, <1>20 DEF Laid
<1> QED BY <1>7, <1>21 DEF L, R, n, m

LEMMA BlankIs == Blank \in Buffer
  BY SizesAssumption DEF Blank, Buffer, Byte

LEMMA ShortLength ==
  ASSUME NEW label \in Seq(Character), label # <<>>, Len(label) <= 63
  PROVE  Len(label) \in LabelLen /\ Len(label) \in Byte
<1>1. Len(label) \in Nat /\ Len(label) # 0
      BY EmptySeq
<1> QED BY <1>1, LabelLenFrom, Zenon

High(p) == p \div 256
Low(p)  == p % 256

LEMMA PointerBytes ==
  ASSUME NEW p \in Offset
  PROVE  /\ PointerTo(p) = <<Pointer + High(p), Low(p)>>
         /\ Pointer + High(p) \in Byte /\ Low(p) \in Byte /\ Pointer <= Pointer + High(p)
         /\ ((Pointer + High(p)) - Pointer) * 256 + Low(p) = p
<1>1. p \in Nat /\ High(p) \in 0..63 /\ Low(p) \in 0..255
  <2>1. p \in Nat /\ p <= 16383
        BY SMT DEF Offset
  <2>2. p \div 256 \in 0..63
        BY <2>1, SMT
  <2>3. p % 256 \in 0..255
        BY <2>1, SMT
  <2>4. High(p) = p \div 256 /\ Low(p) = p % 256
        BY Zenon DEF High, Low
  <2> QED BY <2>1, <2>2, <2>3, <2>4, SMT
<1>2. Low(p) = p - 256 * High(p)
      BY <1>1, SMT DEF High, Low
<1>3. /\ Pointer + High(p) \in Byte /\ Low(p) \in Byte /\ Pointer <= Pointer + High(p)
      /\ ((Pointer + High(p)) - Pointer) * 256 + Low(p) = p
      BY <1>1, <1>2 DEF Pointer, Byte
<1>4. PointerTo(p) = <<Pointer + High(p), Low(p)>>
      BY DEF PointerTo, High, Low
<1> QED BY <1>3, <1>4

LEMMA CompressedLaid ==
  ASSUME NEW c \in Compressed, NEW e1, NEW e2, NEW b,
         e1 = HeaderLen + Len(FirstQuestion(c)),
         e2 = HeaderLen + Len(FirstQuestion(c) \o SecondQuestion(c)),
         b = Put(FirstQuestion(c) \o SecondQuestion(c), HeaderLen, Blank)
  PROVE  /\ b \in Buffer /\ c.first \in Text /\ SecondName(c) \in Text
         /\ e1 \in Nat /\ e2 \in Nat /\ e1 <= e2
         /\ Laid(b, c.first, HeaderLen, e1) /\ Laid(b, SecondName(c), e1, e2)
<1> DEFINE first == Labels(c.first)
           own == c.own
           from == c.from
           p == PlainBytes(first)
           q == PlainBytes(own)
           ptr == PointerTo(Place(c))
           zero == << 0 >>
<1>1. /\ c.first \in Text /\ own \in Seq(Text) /\ from \in 1..(Len(first) + 1)
      /\ Place(c) \in Offset
      /\ \A i \in DOMAIN first : IsLabel(first[i]) /\ Len(first[i]) <= 63
      /\ \A i \in DOMAIN own : IsLabel(own[i]) /\ Len(own[i]) <= 63
      BY CompressedAssumption, Zenon DEF Text
<1>2. HeaderLen \in Nat
      BY SizesAssumption
<1>3. first \in Seq(Text) /\ \E J : IsJoin(first, J) /\ J[Len(first)] = c.first
  <2>1. \A i \in DOMAIN first : first[i] # <<>>
        BY <1>1 DEF IsLabel
  <2>2. first \in Splits /\ \E J : IsJoin(first, J) /\ J[Len(first)] = c.first
        BY <1>1, <2>1, JoinOfLabels, Zenon
  <2> QED BY <2>2 DEF Splits
<1> HIDE DEF first
<1>4. ASSUME NEW L \in Seq(Text), \A i \in DOMAIN L : IsLabel(L[i]) /\ Len(L[i]) <= 63
      PROVE  Short(L) /\ \A i \in 1..Len(L) : Len(L[i]) \in LabelLen
  <2>1. ASSUME NEW i \in 1..Len(L) PROVE Len(L[i]) \in LabelLen /\ Len(L[i]) \in Byte
    <3>1. i \in DOMAIN L
          OBVIOUS
    <3>2. L[i] \in Seq(Character) /\ L[i] # <<>> /\ Len(L[i]) <= 63
          BY <1>4, <3>1 DEF IsLabel
    <3> QED BY <3>2, ShortLength, Zenon
  <2> QED BY <2>1 DEF Short
<1>5. /\ Short(first) /\ \A i \in 1..Len(first) : Len(first[i]) \in LabelLen
      /\ Short(own) /\ \A i \in 1..Len(own) : Len(own[i]) \in LabelLen
      BY <1>1, <1>3, <1>4
<1>6. PICK s : IsPlaces(first, HeaderLen, s)
      BY <1>2, <1>3, PlacesExist
<1>7. p \in Seq(Byte) /\ HeaderLen + Len(p) = s[Len(first) + 1] /\ Len(p) \in Nat
      BY <1>2, <1>3, <1>5, <1>6, PlainIs
<1>8. Place(c) = s[from] /\ Place(c) \in Nat
  <2>1. Place(c) = s[from]
        BY <1>1, <1>2, <1>3, <1>5, <1>6, PlaceOf DEF Place, first
  <2>2. s[from] \in Nat
        BY <1>1, <1>2, <1>3, <1>6, PlacesGrow
  <2> QED BY <2>1, <2>2
<1>9. ptr \in Seq(Byte) /\ Len(ptr) = 2
  <2>1. /\ PointerTo(Place(c)) = <<Pointer + High(Place(c)), Low(Place(c))>>
        /\ Pointer + High(Place(c)) \in Byte /\ Low(Place(c)) \in Byte
        BY <1>1, PointerBytes
  <2> QED BY <2>1
<1>10. /\ zero \in Seq(Byte) /\ Len(zero) = 1
       /\ TypeAndClass \in Seq(Byte) /\ Len(TypeAndClass) = 4
       BY DEF Byte, TypeAndClass
<1> DEFINE f == p \o zero
           F == f \o TypeAndClass
<1> HIDE DEF p, q, ptr, zero
<1>11. f \in Seq(Byte) /\ Len(f) = Len(p) + 1 /\ F \in Seq(Byte) /\ Len(F) = Len(p) + 5
  <2>1. f \in Seq(Byte) /\ Len(f) = Len(p) + Len(zero)
        BY <1>7, <1>10, ConcatProperties
  <2> HIDE DEF f
  <2>2. F \in Seq(Byte) /\ Len(F) = Len(f) + Len(TypeAndClass)
        BY <1>10, <2>1, ConcatProperties
  <2> QED BY <1>7, <1>10, <2>1, <2>2
<1>12. F = FirstQuestion(c)
       BY DEF FirstQuestion, p, zero, first
<1>13. e1 = s[Len(first) + 1] + 5 /\ e1 \in Nat
       BY <1>2, <1>7, <1>11, <1>12
<1>14. PICK u : IsPlaces(own, e1, u)
       BY <1>1, <1>13, PlacesExist
<1>15. q \in Seq(Byte) /\ e1 + Len(q) = u[Len(own) + 1] /\ Len(q) \in Nat
  <2>1. q \in Seq(Byte) /\ e1 + Len(q) = u[Len(own) + 1]
        BY <1>1, <1>5, <1>13, <1>14, PlainIs, Zenon DEF q
  <2> QED BY <2>1
<1> DEFINE g == q \o ptr
           G == g \o TypeAndClass
<1>16. g \in Seq(Byte) /\ Len(g) = Len(q) + 2 /\ G \in Seq(Byte) /\ Len(G) = Len(q) + 6
  <2>1. g \in Seq(Byte) /\ Len(g) = Len(q) + Len(ptr)
        BY <1>9, <1>15, ConcatProperties
  <2> HIDE DEF g
  <2>2. G \in Seq(Byte) /\ Len(G) = Len(g) + Len(TypeAndClass)
        BY <1>10, <2>1, ConcatProperties
  <2> QED BY <1>9, <1>10, <1>15, <2>1, <2>2
<1>17. G = SecondQuestion(c)
       BY DEF SecondQuestion, q, ptr
<1> HIDE DEF f, F, g, G
<1>18. F \o G \in Seq(Byte) /\ Len(F \o G) = Len(F) + Len(G)
       BY <1>11, <1>16, ConcatProperties
<1>19. e2 = u[Len(own) + 1] + 6 /\ e2 \in Nat /\ e1 <= e2
  <2>1. e2 = HeaderLen + (Len(F) + Len(G)) /\ e1 = HeaderLen + Len(F)
        BY <1>12, <1>17, <1>18
  <2>2. Len(F) \in Nat /\ Len(G) = Len(q) + 6
        BY <1>11, <1>16
  <2>3. (HeaderLen + Len(F)) + Len(q) = u[Len(own) + 1]
        BY <1>15, <2>1, Zenon
  <2>4. e2 = HeaderLen + (Len(F) + (Len(q) + 6))
        BY <2>1, <2>2, Zenon
  <2>5. /\ HeaderLen + (Len(F) + (Len(q) + 6)) = u[Len(own) + 1] + 6
        /\ u[Len(own) + 1] + 6 \in Nat /\ HeaderLen + Len(F) <= u[Len(own) + 1] + 6
    <3>1. HeaderLen \in Nat /\ Len(F) \in Nat /\ Len(q) \in Nat
          BY <1>2, <1>15, <2>2
    <3> HIDE DEF F, G, q
    <3>2. /\ HeaderLen + (Len(F) + (Len(q) + 6)) = ((HeaderLen + Len(F)) + Len(q)) + 6
          /\ ((HeaderLen + Len(F)) + Len(q)) + 6 \in Nat
          /\ HeaderLen + Len(F) <= ((HeaderLen + Len(F)) + Len(q)) + 6
          BY <3>1, BehindBoth, Zenon
    <3> QED BY <2>3, <3>2, Zenon
  <2>6. e1 = HeaderLen + Len(F)
        BY <2>1
  <2> HIDE DEF F, G, q
  <2> QED BY <2>4, <2>5, <2>6, Zenon
<1>20. b \in Buffer /\ Holds(b, F \o G, HeaderLen)
  <2>1. b = Put(F \o G, HeaderLen, Blank)
        BY <1>12, <1>17
  <2> QED BY <1>2, <1>18, <2>1, PutIs, BlankIs
<1>21. Holds(b, F, HeaderLen) /\ Holds(b, G, e1)
  <2>1. Holds(b, F, HeaderLen) /\ Holds(b, G, HeaderLen + Len(F))
        BY <1>2, <1>11, <1>16, <1>20, HoldsBoth
  <2> QED BY <1>12, <2>1
<1>22. Holds(b, p, HeaderLen) /\ Holds(b, zero, s[Len(first) + 1])
  <2>1. Holds(b, f, HeaderLen)
        BY <1>2, <1>10, <1>11, <1>21, HoldsBoth DEF F
  <2>2. Holds(b, p, HeaderLen) /\ Holds(b, zero, HeaderLen + Len(p))
        BY <1>2, <1>7, <1>10, <2>1, HoldsBoth DEF f
  <2> QED BY <1>7, <2>2
<1>23. Holds(b, q, e1) /\ Holds(b, ptr, u[Len(own) + 1])
  <2>1. Holds(b, g, e1)
        BY <1>10, <1>13, <1>16, <1>21, HoldsBoth DEF G
  <2>2. Holds(b, q, e1) /\ Holds(b, ptr, e1 + Len(q))
        BY <1>9, <1>13, <1>15, <2>1, HoldsBoth DEF g
  <2> QED BY <1>15, <2>2
<1>24. /\ \A i \in 1..Len(first) : Holds(b, LabelBytes(first[i]), s[i])
       /\ \A i \in 1..Len(own) : Holds(b, LabelBytes(own[i]), u[i])
  <2>1. Holds(b, PlainBytes(first), HeaderLen) /\ Holds(b, PlainBytes(own), e1)
        BY <1>22, <1>23 DEF p, q
  <2>2. \A i \in 1..Len(first) : Holds(b, LabelBytes(first[i]), s[i])
        BY <1>2, <1>3, <1>5, <1>6, <2>1, HoldsLabels
  <2>3. \A i \in 1..Len(own) : Holds(b, LabelBytes(own[i]), u[i])
        BY <1>1, <1>5, <1>13, <1>14, <2>1, HoldsLabels
  <2> QED BY <2>2, <2>3
<1>25. Laid(b, c.first, HeaderLen, e1)
  <2>1. PICK J : IsJoin(first, J) /\ J[Len(first)] = c.first
        BY <1>3
  <2>2. Laid(b, J[Len(first)], HeaderLen, s[Len(first) + 1] + 5)
        BY <1>2, <1>3, <1>5, <1>6, <1>22, <1>24, <2>1, WrittenLaid DEF zero
  <2> QED BY <1>13, <2>1, <2>2
<1>26. SecondName(c) \in Text /\ Laid(b, SecondName(c), e1, e2)
  <2> DEFINE L == own \o SubSeq(first, from, Len(first))
  <2>1. s[Len(first) + 1] + 5 <= e1 /\ s[from] \in Offset
        BY <1>1, <1>8, <1>13
  <2>2. Holds(b, PointerTo(s[from]), u[Len(own) + 1])
        BY <1>8, <1>23 DEF ptr
  <2>3. Holds(b, << 0 >>, s[Len(first) + 1])
        BY <1>22 DEF zero
  <2> HIDE DEF own, from
  <2>4. Joined(L) \in Text /\ Laid(b, Joined(L), e1, u[Len(own) + 1] + 6)
        BY <1>1, <1>2, <1>3, <1>5, <1>6, <1>13, <1>14, <1>24, <2>1, <2>2, <2>3, ContinuedLaid
  <2>5. Joined(L) = SecondName(c)
        BY DEF SecondName, first, own, from
  <2> QED BY <1>19, <2>4, <2>5
<1> QED BY <1>1, <1>13, <1>19, <1>20, <1>25, <1>26

-------------------------------------------------------------------------------
(* The inductive invariant.  What is complete in the packet is laid out;   *)
(* the writer is between two labels of its name, and the reader between    *)
(* two labels of the name it is about to have read.                        *)
Begins(e, k) == IF k = 1 THEN HeaderLen ELSE e[k - 1]

Stages == {"writing", "label too long", "buffer full", "sending", "out of range",
           "reading", "unreadable", "done"}

Shapes ==
  /\ buf \in Buffer /\ pos \in Nat /\ at \in Nat /\ jumped \in BOOLEAN /\ stage \in Stages
  /\ questions \in Seq(Text) /\ questions # <<>> /\ ends \in Seq(Nat)
  /\ Len(ends) <= Len(questions)
  /\ outstr \in Text /\ got \in Seq(Text) /\ count = Len(got) /\ count <= Len(questions)

AtRest == at = HeaderLen /\ ~jumped /\ outstr = <<>> /\ got = <<>> /\ count = 0

PacketLaid ==
  \A k \in 1..Len(ends) :
    ends[k] <= ends[Len(ends)] /\ Laid(buf, questions[k], Begins(ends, k), ends[k])

AtLabel(L, s, i) ==
  /\ L = Labels(questions[Len(ends) + 1]) /\ IsPlaces(L, Begins(ends, Len(ends) + 1), s)
  /\ i \in 1..(Len(L) + 1) /\ todo = SubSeq(L, i, Len(L)) /\ pos = s[i]
  /\ \A m \in 1..(i - 1) : Len(L[m]) <= MaxLabel /\ Holds(buf, LabelBytes(L[m]), s[m])

WhileWriting ==
  stage = "writing" =>
    /\ AtRest /\ questions \in Written /\ Len(ends) < Len(questions) /\ pos <= Size
    /\ \E L, s, i : AtLabel(L, s, i)

WhileSending ==
  stage = "sending" => AtRest /\ Len(ends) = Len(questions) /\ pos <= Size

AtPlace(J, s, t, h, i) ==
  /\ outstr = LowerCase(J[i - 1])
  /\ jumped => h # 0 /\ h <= i /\ at = s[i] /\ pos = t[h] + 2
  /\ ~jumped => (h = 0 \/ i <= h) /\ at = t[i] /\ pos = Begins(ends, count + 1)

Reading(L, J, s, t, h, i) ==
  /\ Names(L, J, questions[count + 1])
  /\ Route(L, s, t, h, Begins(ends, count + 1), ends[count + 1])
  /\ Contents(buf, L, s, t, h)
  /\ i \in 1..(Len(L) + 1) /\ AtPlace(J, s, t, h, i)

WhileReading ==
  stage = "reading" =>
    /\ Len(ends) = Len(questions) /\ count < Len(questions)
    /\ \E L, J, s, t, h, i : Reading(L, J, s, t, h, i)

GotSoFar == \A i \in 1..Len(got) : got[i] = LowerCase(questions[i])

AtTheEnd ==
  /\ stage = "done" => Len(ends) = Len(questions) /\ count = Len(questions) /\ pos = ends[count]
  /\ stage = "unreadable" => Len(ends) = Len(questions) /\ ends[Len(ends)] > Size

IInv ==
  /\ Shapes /\ PacketLaid /\ WhileWriting /\ WhileSending /\ WhileReading
  /\ GotSoFar /\ AtTheEnd

(* Where a question begins, and where the next one does.                   *)
LEMMA BeginsIs ==
  ASSUME NEW e \in Seq(Nat), NEW k \in 1..(Len(e) + 1)
  PROVE  Begins(e, k) \in Nat /\ (k # 1 => k - 1 \in 1..Len(e) /\ Begins(e, k) = e[k - 1])
<1>1. HeaderLen \in Nat
      BY SizesAssumption
<1>2. k # 1 => k - 1 \in 1..Len(e)
      OBVIOUS
<1> QED BY <1>1, <1>2 DEF Begins

(* The reader in front of a question.                                      *)
LEMMA StartsReading ==
  ASSUME NEW b, NEW name, NEW begin, NEW end, Laid(b, name, begin, end)
  PROVE  \E L, J, s, t, h :
           /\ Names(L, J, name) /\ Route(L, s, t, h, begin, end) /\ Contents(b, L, s, t, h)
           /\ 1 \in 1..(Len(L) + 1) /\ LowerCase(J[1 - 1]) = <<>>
           /\ (h = 0 \/ 1 <= h) /\ t[1] = begin
<1>1. PICK L, J, s, t, h :
        Names(L, J, name) /\ Route(L, s, t, h, begin, end) /\ Contents(b, L, s, t, h)
      BY DEF Laid
<1>2. 1 \in 1..(Len(L) + 1) /\ 1 - 1 = 0 /\ J[0] = <<>>
      BY <1>1 DEF Names, IsJoin
<1>3. LowerCase(J[1 - 1]) = <<>>
  <2>1. <<>> \in Text
        BY DEF Text
  <2>2. LowerCase(<<>>) \in Text /\ Len(LowerCase(<<>>)) = 0
        BY <2>1, LowerCaseIs
  <2> QED BY <1>2, <2>2 DEF Text
<1>4. (h = 0 \/ 1 <= h) /\ t[1] = begin
      BY <1>1, <1>2 DEF Route
<1> QED BY <1>1, <1>2, <1>3, <1>4

(* The writer in front of a name.                                          *)
LEMMA StartsWriting ==
  ASSUME NEW names \in Written, NEW e \in Seq(Nat), Len(e) < Len(names)
  PROVE  LET L == Labels(names[Len(e) + 1])
         IN  /\ L = SubSeq(L, 1, Len(L)) /\ 1 \in 1..(Len(L) + 1)
             /\ \E s : IsPlaces(L, Begins(e, Len(e) + 1), s) /\ s[1] = Begins(e, Len(e) + 1)
<1> DEFINE k == Len(e) + 1
           L == Labels(names[k])
<1>1. k \in 1..Len(names) /\ k \in 1..(Len(e) + 1)
  <2>1. Len(e) \in Nat /\ Len(names) \in Nat
        BY WrittenNames
  <2> QED BY <2>1
<1>2. L \in Seq(Text)
      BY <1>1, WrittenNames
<1>3. Begins(e, k) \in Nat
      BY <1>1, BeginsIs
<1> HIDE DEF L, k
<1>4. PICK s : IsPlaces(L, Begins(e, k), s)
      BY <1>2, <1>3, PlacesExist
<1>5. s[1] = Begins(e, k)
      BY <1>4 DEF IsPlaces
<1>6. L = SubSeq(L, 1, Len(L)) /\ 1 \in 1..(Len(L) + 1)
      BY <1>2, SubSeqFull
<1> QED BY <1>4, <1>5, <1>6 DEF L, k

LEMMA Starts == Init => IInv
<1> SUFFICES ASSUME Init PROVE IInv
    OBVIOUS
<1>1. HeaderLen \in Nat /\ Size \in Nat /\ HeaderLen <= Size
      BY SizesAssumption
<1>2. AtRest /\ pos = HeaderLen /\ jumped \in BOOLEAN
      BY DEF Init, AtRest
<1>3. <<>> \in Text /\ <<>> \in Seq(Text) /\ <<>> \in Seq(Nat) /\ Len(<<>>) = 0
      BY DEF Text
<1>4. CASE stage = "writing"
  <2>1. /\ questions \in Written /\ buf = Blank /\ ends = <<>> /\ todo = Labels(Head(questions))
    <3>1. stage # "reading"
          BY <1>4
    <3> QED BY <3>1 DEF Init
  <2>2. questions \in Seq(Text) /\ questions # <<>> /\ Len(questions) \in Nat /\ Len(questions) # 0
    <3>1. questions \in Seq(Text) /\ questions # <<>>
          BY <2>1, WrittenNames
    <3> QED BY <3>1, EmptySeq
  <2>3. Shapes
    <3>1. stage \in Stages
          BY <1>4 DEF Stages
    <3> QED BY <1>1, <1>2, <1>3, <2>1, <2>2, <3>1, BlankIs DEF Shapes, AtRest
  <2>4. Len(ends) = 0 /\ Len(ends) + 1 = 1 /\ Begins(ends, 1) = HeaderLen
        BY <1>3, <2>1 DEF Begins
  <2>5. questions[1] = Head(questions)
        BY <2>2
  <2>6. PICK L : L = Labels(questions[1])
        OBVIOUS
  <2>7. /\ L = SubSeq(L, 1, Len(L)) /\ 1 \in 1..(Len(L) + 1)
        /\ \E s : IsPlaces(L, HeaderLen, s) /\ s[1] = HeaderLen
    <3>1. Len(ends) < Len(questions) /\ ends \in Seq(Nat)
          BY <1>3, <2>1, <2>2
    <3> QED BY <2>1, <2>4, <2>6, <3>1, StartsWriting
  <2>8. PICK s : IsPlaces(L, HeaderLen, s) /\ s[1] = HeaderLen
        BY <2>7
  <2>9. AtLabel(L, s, 1)
    <3>1. \A m \in 1..(1 - 1) : Len(L[m]) <= MaxLabel /\ Holds(buf, LabelBytes(L[m]), s[m])
          OBVIOUS
    <3> QED BY <1>2, <2>1, <2>4, <2>5, <2>6, <2>7, <2>8, <3>1 DEF AtLabel
  <2>10. WhileWriting
    <3>1. Len(ends) < Len(questions) /\ pos <= Size
          BY <1>1, <1>2, <2>2, <2>4
    <3> QED BY <1>2, <2>1, <2>9, <3>1 DEF WhileWriting
  <2>11. PacketLaid /\ GotSoFar
        BY <1>2, <1>3, <2>4 DEF PacketLaid, GotSoFar, AtRest
  <2>12. WhileSending /\ WhileReading /\ AtTheEnd
        BY <1>4 DEF WhileSending, WhileReading, AtTheEnd
  <2> QED BY <2>3, <2>10, <2>11, <2>12 DEF IInv
<1>5. CASE stage # "writing"
  <2>1. PICK c \in Compressed :
          /\ questions = <<c.first, SecondName(c)>>
          /\ buf = Put(FirstQuestion(c) \o SecondQuestion(c), HeaderLen, Blank)
          /\ ends = <<HeaderLen + Len(FirstQuestion(c)),
                      HeaderLen + Len(FirstQuestion(c) \o SecondQuestion(c))>>
          /\ stage = "reading"
        BY <1>5 DEF Init
  <2>2. PICK e1 : e1 = HeaderLen + Len(FirstQuestion(c))
        OBVIOUS
  <2>3. PICK e2 : e2 = HeaderLen + Len(FirstQuestion(c) \o SecondQuestion(c))
        OBVIOUS
  <2>4. /\ buf \in Buffer /\ c.first \in Text /\ SecondName(c) \in Text
        /\ e1 \in Nat /\ e2 \in Nat /\ e1 <= e2
        /\ Laid(buf, c.first, HeaderLen, e1) /\ Laid(buf, SecondName(c), e1, e2)
        BY <2>1, <2>2, <2>3, CompressedLaid
  <2>5. ends = <<e1, e2>>
        BY <2>1, <2>2, <2>3
  <2>6. /\ ends \in Seq(Nat) /\ Len(ends) = 2 /\ ends[1] = e1 /\ ends[2] = e2
        /\ questions \in Seq(Text) /\ Len(questions) = 2 /\ questions # <<>>
        /\ questions[1] = c.first /\ questions[2] = SecondName(c)
    <3>1. ends \in Seq(Nat) /\ Len(ends) = 2 /\ ends[1] = e1 /\ ends[2] = e2
          BY <2>4, <2>5
    <3>2. PICK second : second = SecondName(c)
          OBVIOUS
    <3>3. PICK first : first = c.first
          OBVIOUS
    <3>4. questions = <<first, second>> /\ first \in Text /\ second \in Text
          BY <2>1, <2>4, <3>2, <3>3
    <3>5. /\ questions \in Seq(Text) /\ Len(questions) = 2 /\ questions # <<>>
          /\ questions[1] = first /\ questions[2] = second
          BY <3>4
    <3> QED BY <3>1, <3>2, <3>3, <3>5
  <2>7. Shapes
    <3>1. stage \in Stages
          BY <2>1 DEF Stages
    <3> QED BY <1>1, <1>2, <1>3, <2>4, <2>6, <3>1 DEF Shapes, AtRest
  <2>8. PacketLaid
    <3>1. Begins(ends, 1) = HeaderLen /\ Begins(ends, 2) = e1
          BY <2>6 DEF Begins
    <3>2. ASSUME NEW k \in 1..Len(ends)
          PROVE  ends[k] <= ends[Len(ends)] /\ Laid(buf, questions[k], Begins(ends, k), ends[k])
      <4>1. k = 1 \/ k = 2
            BY <2>6
      <4>2. CASE k = 1
            BY <2>4, <2>6, <3>1, <4>2
      <4>3. CASE k = 2
            BY <2>4, <2>6, <3>1, <4>3
      <4> QED BY <4>1, <4>2, <4>3
    <3> QED BY <3>2 DEF PacketLaid
  <2>9. WhileReading
    <3>1. count < Len(ends) /\ at = Begins(ends, count + 1) /\ pos = at /\ ~jumped /\ outstr = <<>>
      <4>1. count = 0 /\ at = HeaderLen /\ ~jumped /\ outstr = <<>>
            BY <1>2 DEF AtRest
      <4>2. count + 1 = 1 /\ Begins(ends, 1) = HeaderLen
            BY <4>1 DEF Begins
      <4> QED BY <1>2, <2>6, <4>1, <4>2
    <3>2. Laid(buf, questions[count + 1], Begins(ends, count + 1), ends[count + 1])
      <4>1. count + 1 \in 1..Len(ends)
            BY <1>2, <2>6 DEF AtRest
      <4> QED BY <2>8, <4>1 DEF PacketLaid
    <3>3. PICK L, J, s, t, h :
            /\ Names(L, J, questions[count + 1])
            /\ Route(L, s, t, h, Begins(ends, count + 1), ends[count + 1])
            /\ Contents(buf, L, s, t, h)
            /\ 1 \in 1..(Len(L) + 1) /\ LowerCase(J[1 - 1]) = <<>>
            /\ (h = 0 \/ 1 <= h) /\ t[1] = Begins(ends, count + 1)
          BY <3>2, StartsReading
    <3>4. Reading(L, J, s, t, h, 1)
          BY <3>1, <3>3 DEF Reading, AtPlace
    <3> QED BY <2>6, <3>1, <3>4 DEF WhileReading
  <2>10. GotSoFar
        BY <1>2, <1>3 DEF GotSoFar, AtRest
  <2>11. WhileWriting /\ WhileSending /\ AtTheEnd
        BY <2>1 DEF WhileWriting, WhileSending, AtTheEnd
  <2> QED BY <2>7, <2>8, <2>9, <2>10, <2>11 DEF IInv
<1> QED BY <1>4, <1>5

-------------------------------------------------------------------------------
(* The writer.                                                             *)
LEMMA AtLabelIs ==
  ASSUME Shapes, PacketLaid, WhileWriting, stage = "writing",
         NEW L, NEW s, NEW i, AtLabel(L, s, i)
  PROVE  /\ L \in Seq(Text) /\ \A m \in 1..Len(L) : Len(L[m]) \in Nat \ {0}
         /\ \E J : IsJoin(L, J) /\ J[Len(L)] = questions[Len(ends) + 1]
         /\ Begins(ends, Len(ends) + 1) \in Nat
         /\ i \in 1..(Len(L) + 1) /\ (todo = <<>> => i = Len(L) + 1)
         /\ todo # <<>> =>
              i \in 1..Len(L) /\ Head(todo) = L[i] /\ Tail(todo) = SubSeq(L, i + 1, Len(L))
         /\ \A k \in 1..Len(ends) : ends[k] <= pos
<1> DEFINE n == Len(L)
           c == Len(ends) + 1
<1>1. ends \in Seq(Nat) /\ questions \in Written /\ Len(ends) < Len(questions) /\ pos \in Nat
      BY DEF Shapes, WhileWriting
<1>2. c \in 1..Len(questions) /\ c \in 1..(Len(ends) + 1)
  <2>1. Len(ends) \in Nat /\ Len(questions) \in Nat
        BY <1>1, WrittenNames
  <2> QED BY <1>1, <2>1
<1>3. L = Labels(questions[c]) /\ IsPlaces(L, Begins(ends, c), s) /\ i \in 1..(n + 1)
      /\ todo = SubSeq(L, i, n) /\ pos = s[i]
      BY DEF AtLabel
<1>4. /\ L \in Seq(Text) /\ \A m \in 1..n : Len(L[m]) \in Nat \ {0}
      /\ \E J : IsJoin(L, J) /\ J[n] = questions[c]
      BY <1>1, <1>2, <1>3, WrittenNames
<1>5. Begins(ends, c) \in Nat /\ (c # 1 => Begins(ends, c) = ends[c - 1])
      BY <1>1, <1>2, BeginsIs
<1>6. Begins(ends, c) <= pos
      BY <1>3, <1>4, <1>5, PlacesGrow
<1>7. ASSUME NEW k \in 1..Len(ends) PROVE ends[k] <= pos
  <2>1. Len(ends) \in Nat /\ c # 1 /\ c - 1 = Len(ends) /\ Len(ends) \in 1..Len(ends)
        BY <1>1
  <2>2. ends[k] <= ends[Len(ends)] /\ ends[Len(ends)] <= pos
        BY <1>5, <1>6, <2>1 DEF PacketLaid
  <2>3. ends[k] \in Nat /\ ends[Len(ends)] \in Nat
        BY <1>1, <2>1
  <2> QED BY <1>1, <2>2, <2>3
<1>8. /\ n \in Nat /\ i - 1 \in 0..n /\ (i - 1) + 1 = i
      BY <1>3, <1>4
<1>9. /\ todo \in Seq(Text) /\ Len(todo) = n - (i - 1)
      /\ \A j \in 1..(n - (i - 1)) : todo[j] = L[(i - 1) + j]
      BY <1>3, <1>4, <1>8, FrontAndRest
<1>10. todo = <<>> => i = n + 1
  <2> SUFFICES ASSUME todo = <<>> PROVE i = n + 1
      OBVIOUS
  <2>1. n - (i - 1) = 0
        BY <1>9
  <2> QED BY <1>3, <1>8, <2>1
<1>11. ASSUME todo # <<>>
       PROVE  i \in 1..n /\ Head(todo) = L[i] /\ Tail(todo) = SubSeq(L, i + 1, n)
  <2>1. i \in 1..n
    <3>1. Len(todo) # 0
          BY <1>9, <1>11, EmptySeq
    <3> QED BY <1>3, <1>8, <1>9, <3>1
  <2>2. Head(todo) = L[i]
    <3>1. Head(todo) = todo[1]
          BY <1>9, <1>11
    <3>2. 1 \in 1..(n - (i - 1)) /\ (i - 1) + 1 = i
          BY <1>8, <2>1
    <3> QED BY <1>9, <3>1, <3>2
  <2>3. Tail(todo) = SubSeq(L, i + 1, n)
    <3> DEFINE rest == SubSeq(L, i + 1, n)
    <3>1. /\ rest \in Seq(Text) /\ Len(rest) = n - i
          /\ \A j \in 1..(n - i) : rest[j] = L[i + j]
      <4>1. i \in 0..n
            BY <2>1
      <4> QED BY <1>4, <4>1, FrontAndRest
    <3>2. /\ Tail(todo) \in Seq(Text) /\ Len(Tail(todo)) = Len(todo) - 1
          /\ \A j \in 1..(Len(todo) - 1) : Tail(todo)[j] = todo[j + 1]
          BY <1>9, <1>11
    <3> HIDE DEF rest, n
    <3>3. Len(todo) - 1 = n - i
          BY <1>8, <1>9, <2>1
    <3>4. ASSUME NEW j \in 1..(n - i) PROVE Tail(todo)[j] = rest[j]
      <4>1. j + 1 \in 1..(n - (i - 1)) /\ (i - 1) + (j + 1) = i + j
            BY <1>8, <2>1
      <4>2. Tail(todo)[j] = todo[j + 1]
            BY <3>2, <3>3
      <4> QED BY <1>9, <3>1, <4>1, <4>2
    <3>5. Tail(todo) = rest
          BY <3>1, <3>2, <3>3, <3>4, SeqEqual
    <3> QED BY <3>5 DEF rest
  <2> QED BY <2>1, <2>2, <2>3
<1> QED BY <1>3, <1>4, <1>5, <1>7, <1>10, <1>11

(* What is complete stays when something is written behind it.             *)
LEMMA PacketKept ==
  ASSUME Shapes, PacketLaid, \A k \in 1..Len(ends) : ends[k] <= pos,
         NEW bytes \in Seq(Byte), buf' = Put(bytes, pos, buf)
  PROVE  /\ buf' \in Buffer /\ Holds(buf', bytes, pos)
         /\ \A k \in 1..Len(ends) : Laid(buf', questions[k], Begins(ends, k), ends[k])
<1>1. buf \in Buffer /\ pos \in Nat /\ ends \in Seq(Nat)
      BY DEF Shapes
<1>2. ASSUME NEW k \in 1..Len(ends)
      PROVE  Laid(buf', questions[k], Begins(ends, k), ends[k])
  <2>1. Laid(buf, questions[k], Begins(ends, k), ends[k]) /\ ends[k] <= pos
        BY DEF PacketLaid
  <2>2. ends[k] \in Nat
        BY <1>1
  <2> QED BY <1>1, <2>1, <2>2, LaidKept
<1> QED BY <1>1, <1>2, PutIs

LEMMA WritableLabel ==
  ASSUME NEW len \in Nat \ {0}, len <= MaxLabel
  PROVE  len \in LabelLen /\ len \in Byte
BY SizesAssumption DEF LabelLen, Byte

LEMMA WriteLabelKeeps == IInv /\ WriteLabel => IInv'
<1> SUFFICES ASSUME IInv, WriteLabel PROVE IInv'
    OBVIOUS
<1>1. Shapes /\ PacketLaid /\ WhileWriting /\ GotSoFar
      BY DEF IInv
<1>2. /\ stage = "writing" /\ todo # <<>> /\ Len(Head(todo)) <= MaxLabel
      /\ Fits(LabelBytes(Head(todo)))
      /\ buf' = Put(LabelBytes(Head(todo)), pos, buf)
      /\ pos' = pos + Len(LabelBytes(Head(todo))) /\ todo' = Tail(todo)
      /\ UNCHANGED <<questions, stage, count, ends>>
      BY DEF WriteLabel, WriteBytes
<1>3. UNCHANGED <<at, jumped, outstr, got>>
      BY DEF WriteLabel, reader
<1>4. /\ AtRest /\ questions \in Written /\ Len(ends) < Len(questions)
      BY <1>1, <1>2 DEF WhileWriting
<1>5. PICK L, s, i : AtLabel(L, s, i)
      BY <1>1, <1>2 DEF WhileWriting
<1> DEFINE n == Len(L)
           x == LabelBytes(L[i])
<1>6. /\ L \in Seq(Text) /\ \A m \in 1..n : Len(L[m]) \in Nat \ {0}
      /\ i \in 1..n /\ Head(todo) = L[i] /\ Tail(todo) = SubSeq(L, i + 1, n)
      /\ \A k \in 1..Len(ends) : ends[k] <= pos
      BY <1>1, <1>2, <1>5, AtLabelIs
<1>7. /\ L = Labels(questions[Len(ends) + 1]) /\ IsPlaces(L, Begins(ends, Len(ends) + 1), s)
      /\ pos = s[i]
      /\ \A m \in 1..(i - 1) : Len(L[m]) <= MaxLabel /\ Holds(buf, LabelBytes(L[m]), s[m])
      BY <1>5 DEF AtLabel
<1>8. Len(L[i]) \in LabelLen /\ Len(L[i]) <= MaxLabel /\ L[i] \in Text
  <2>1. Len(L[i]) \in Nat \ {0} /\ Len(L[i]) <= MaxLabel /\ L[i] \in Text
        BY <1>2, <1>6
  <2> QED BY <2>1, WritableLabel, Zenon
<1>9. x \in Seq(Byte) /\ Len(x) = Len(L[i]) + 1
  <2>1. Len(L[i]) \in Byte
        BY <1>8, LabelLenIs, Zenon
  <2> QED BY <1>8, <2>1, LabelBytesIs, Zenon
<1>10. /\ buf' \in Buffer /\ Holds(buf', x, pos)
       /\ \A k \in 1..Len(ends) : Laid(buf', questions[k], Begins(ends, k), ends[k])
       BY <1>1, <1>2, <1>6, <1>9, PacketKept
<1>11. s \in [1..(n + 1) -> Nat] /\ \A m \in 1..n : s[m + 1] = s[m] + 1 + Len(L[m])
       BY <1>7 DEF IsPlaces
<1>12. /\ i + 1 \in 1..(n + 1) /\ i \in 1..(n + 1)
       /\ n \in Nat /\ i \in 1..n
       BY <1>6
<1> HIDE DEF x, n
<1>13. pos' = s[i + 1] /\ pos' \in Nat
  <2>1. s[i + 1] = s[i] + 1 + Len(L[i]) /\ s[i] \in Nat /\ s[i + 1] \in Nat
        BY <1>6, <1>11, <1>12
  <2>2. pos' = s[i] + (Len(L[i]) + 1)
        BY <1>2, <1>6, <1>7, <1>9 DEF x
  <2> QED BY <1>8, <2>1, <2>2
<1>14. ASSUME NEW m \in 1..i PROVE Len(L[m]) <= MaxLabel /\ Holds(buf', LabelBytes(L[m]), s[m])
  <2>1. CASE m = i
        BY <1>7, <1>8, <1>10, <2>1 DEF x
  <2>2. CASE m # i
    <3>1. m \in 1..(i - 1) /\ m \in 1..n /\ m \in 1..(n + 1)
          BY <1>12, <2>2
    <3>2. Len(L[m]) <= MaxLabel /\ Holds(buf, LabelBytes(L[m]), s[m])
          BY <1>7, <3>1
    <3>3. Len(LabelBytes(L[m])) = Len(L[m]) + 1
      <4>1. L[m] \in Text /\ Len(L[m]) \in Nat \ {0}
            BY <1>6, <3>1 DEF n
      <4>2. Len(L[m]) \in Byte
            BY <3>2, <4>1, WritableLabel, Zenon
      <4> QED BY <4>1, <4>2, LabelBytesIs
    <3>4. s[m] + (Len(L[m]) + 1) <= pos
      <4>1. s[m + 1] = s[m] + 1 + Len(L[m]) /\ s[m] \in Nat
            BY <1>11, <3>1
      <4>2. s[m + 1] <= s[i]
        <5> DEFINE k == i - 1
        <5>1. k \in 0..n /\ m + 1 \in 1..(k + 1) /\ k + 1 = i
              BY <1>12, <3>1
        <5>2. Begins(ends, Len(ends) + 1) \in Nat
              BY <1>1, <1>2, <1>5, AtLabelIs
        <5> HIDE DEF k
        <5>3. s[m + 1] <= s[k + 1]
              BY <1>6, <1>7, <5>1, <5>2, PlacesFront DEF n
        <5> QED BY <5>1, <5>3
      <4>3. Len(L[m]) \in Nat \ {0}
            BY <1>6, <3>1
      <4> QED BY <1>7, <4>1, <4>2, <4>3, UpToPlace, Zenon
    <3>5. s[m] \in Nat /\ Len(LabelBytes(L[m])) \in Nat /\ s[m] + Len(LabelBytes(L[m])) <= pos
      <4>1. Len(L[m]) \in Nat /\ s[m] \in Nat
            BY <1>6, <1>11, <3>1
      <4> QED BY <3>3, <3>4, <4>1
    <3>6. Holds(buf', LabelBytes(L[m]), s[m])
      <4>1. buf \in Buffer /\ pos \in Nat /\ buf' = Put(x, pos, buf)
            BY <1>1, <1>2, <1>6 DEF Shapes, x
      <4> QED BY <1>9, <3>2, <3>5, <4>1, HoldsKept
    <3> QED BY <3>2, <3>6
  <2> QED BY <2>1, <2>2
<1>15. Shapes'
       BY <1>1, <1>2, <1>3, <1>10, <1>13 DEF Shapes
<1>16. PacketLaid'
       BY <1>1, <1>2, <1>10 DEF PacketLaid
<1>17. WhileWriting'
  <2>1. AtLabel(L, s, i + 1)'
    <3>1. (i + 1) - 1 = i
          BY <1>6
    <3> QED BY <1>2, <1>6, <1>7, <1>12, <1>13, <1>14, <3>1 DEF AtLabel, n
  <2>2. pos' <= Size
        BY <1>2 DEF Fits
  <2>3. AtRest'
        BY <1>2, <1>3, <1>4 DEF AtRest
  <2> QED BY <1>2, <1>4, <2>1, <2>2, <2>3 DEF WhileWriting
<1>18. WhileSending' /\ WhileReading' /\ AtTheEnd'
       BY <1>2 DEF WhileSending, WhileReading, AtTheEnd
<1>19. GotSoFar'
       BY <1>1, <1>2, <1>3 DEF GotSoFar
<1> QED BY <1>15, <1>16, <1>17, <1>18, <1>19 DEF IInv

LEMMA WriteEndKeeps == IInv /\ WriteEnd => IInv'
<1> SUFFICES ASSUME IInv, WriteEnd PROVE IInv'
    OBVIOUS
<1> DEFINE x == << 0 >> \o TypeAndClass
           k == Len(ends) + 1
<1>1. Shapes /\ PacketLaid /\ WhileWriting /\ GotSoFar
      BY DEF IInv
<1>2. /\ stage = "writing" /\ todo = <<>> /\ Fits(x)
      /\ buf' = Put(x, pos, buf) /\ pos' = pos + Len(x) /\ ends' = Append(ends, pos')
      /\ UNCHANGED <<questions, count>> /\ UNCHANGED <<at, jumped, outstr, got>>
      BY DEF WriteEnd, WriteBytes, reader
<1>3. IF k = Len(questions)
        THEN stage' = "sending" /\ UNCHANGED todo
        ELSE stage' = "writing" /\ todo' = Labels(questions[Len(ends) + 2])
      BY DEF WriteEnd
<1>4. AtRest /\ questions \in Written /\ Len(ends) < Len(questions)
      BY <1>1, <1>2 DEF WhileWriting
<1>5. PICK L, s, i : AtLabel(L, s, i)
      BY <1>1, <1>2 DEF WhileWriting
<1> DEFINE n == Len(L)
<1>6. /\ L \in Seq(Text) /\ \A m \in 1..n : Len(L[m]) \in Nat \ {0}
      /\ \E J : IsJoin(L, J) /\ J[n] = questions[k]
      /\ Begins(ends, k) \in Nat /\ i = n + 1
      /\ \A m \in 1..Len(ends) : ends[m] <= pos
      BY <1>1, <1>2, <1>5, AtLabelIs
<1>7. /\ IsPlaces(L, Begins(ends, k), s) /\ pos = s[n + 1]
      /\ \A m \in 1..n : Len(L[m]) <= MaxLabel /\ Holds(buf, LabelBytes(L[m]), s[m])
  <2>1. (n + 1) - 1 = n
        BY <1>6
  <2> QED BY <1>5, <1>6, <2>1 DEF AtLabel
<1>8. x \in Seq(Byte) /\ Len(x) = 5 /\ x[1] = 0
      BY DEF TypeAndClass, Byte
<1>9. /\ buf \in Buffer /\ pos \in Nat /\ ends \in Seq(Nat) /\ k \in Nat /\ Len(questions) \in Nat
      /\ k <= Len(questions)
  <2>1. buf \in Buffer /\ pos \in Nat /\ ends \in Seq(Nat) /\ questions \in Seq(Text)
        BY <1>1 DEF Shapes
  <2>2. Len(ends) \in Nat /\ Len(questions) \in Nat
        BY <2>1
  <2> QED BY <1>4, <2>1, <2>2
<1> HIDE DEF x
<1>10. /\ buf' \in Buffer /\ Holds(buf', x, pos)
       /\ \A m \in 1..Len(ends) : Laid(buf', questions[m], Begins(ends, m), ends[m])
       BY <1>1, <1>2, <1>6, <1>8, PacketKept
<1>11. pos' \in Nat /\ pos' = pos + 5 /\ pos' <= Size
  <2>1. pos' = pos + 5
        BY <1>2, <1>8
  <2>2. pos + 5 <= Size
        BY <1>2, <1>8 DEF Fits
  <2> QED BY <1>9, <2>1, <2>2
<1>12. /\ ends' \in Seq(Nat) /\ Len(ends') = k /\ ends'[k] = pos'
       /\ \A m \in 1..Len(ends) : ends'[m] = ends[m]
       BY <1>2, <1>9, <1>11, AppendProperties
<1>13. ASSUME NEW m \in 1..n
       PROVE  Len(L[m]) \in LabelLen /\ Holds(buf', LabelBytes(L[m]), s[m])
  <2>1. L[m] \in Text /\ Len(L[m]) \in Nat \ {0} /\ Len(L[m]) <= MaxLabel
        BY <1>6, <1>7
  <2>2. Len(L[m]) \in LabelLen /\ Len(L[m]) \in Byte
        BY <2>1, WritableLabel, Zenon
  <2>3. Len(LabelBytes(L[m])) = Len(L[m]) + 1
        BY <2>1, <2>2, LabelBytesIs
  <2>4. s[m] \in Nat /\ s[m] + (Len(L[m]) + 1) <= pos
    <3>1. s[m + 1] = s[m] + 1 + Len(L[m])
          BY <1>7 DEF IsPlaces
    <3>2. m \in 1..(n + 1) /\ m + 1 \in 1..(n + 1)
          BY <1>6
    <3>3. s[m] \in Nat /\ s[m + 1] <= s[n + 1]
          BY <1>6, <1>7, <3>2, PlacesGrow
    <3> QED BY <1>7, <2>1, <3>1, <3>3, UpToPlace, Zenon
  <2>5. s[m] + Len(LabelBytes(L[m])) <= pos /\ Len(LabelBytes(L[m])) \in Nat
        BY <2>1, <2>3, <2>4
  <2>6. Holds(buf, LabelBytes(L[m]), s[m])
        BY <1>7
  <2> QED BY <1>2, <1>8, <1>9, <2>2, <2>4, <2>5, <2>6, HoldsKept
<1>14. Holds(buf', << 0 >>, s[n + 1])
  <2>1. << 0 >> \in Seq(Byte) /\ TypeAndClass \in Seq(Byte)
        BY DEF Byte, TypeAndClass
  <2>2. Holds(buf', << 0 >>, pos)
        BY <1>9, <1>10, <2>1, HoldsBoth DEF x
  <2> QED BY <1>7, <2>2
<1>15. Laid(buf', questions[k], Begins(ends, k), pos')
  <2>1. PICK J : IsJoin(L, J) /\ J[n] = questions[k]
        BY <1>6
  <2>2. Laid(buf', J[n], Begins(ends, k), s[n + 1] + 5)
        BY <1>6, <1>7, <1>13, <1>14, <2>1, WrittenLaid
  <2> QED BY <1>7, <1>11, <2>1, <2>2
<1>16. \A m \in 1..k : Begins(ends', m) = Begins(ends, m)
  <2>1. ASSUME NEW m \in 1..k PROVE Begins(ends', m) = Begins(ends, m)
    <3>1. m # 1 => m - 1 \in 1..Len(ends)
          BY <1>9
    <3> QED BY <1>12, <3>1 DEF Begins
  <2> QED BY <2>1
<1> HIDE DEF k, n
<1>17. PacketLaid'
  <2>1. ASSUME NEW m \in 1..k
        PROVE  ends'[m] <= ends'[k] /\ Laid(buf', questions[m], Begins(ends', m), ends'[m])
    <3>1. CASE m = k
          BY <1>11, <1>12, <1>15, <1>16, <3>1
    <3>2. CASE m # k
      <4>1. m \in 1..Len(ends)
            BY <1>9, <3>2 DEF k
      <4>2. ends'[m] = ends[m] /\ ends[m] <= pos
            BY <1>6, <1>12, <4>1, Zenon
      <4>0. ends[m] \in Nat
            BY <1>9, <4>1
      <4>3. ends'[m] <= ends'[k]
            BY <1>9, <1>11, <1>12, <4>0, <4>2
      <4> QED BY <1>10, <1>16, <4>1, <4>2, <4>3
    <3> QED BY <3>1, <3>2
  <2> QED BY <1>2, <1>12, <2>1 DEF PacketLaid
<1>18. Shapes'
  <2>1. stage' \in Stages
        BY <1>3 DEF Stages
  <2> QED BY <1>1, <1>2, <1>9, <1>10, <1>11, <1>12, <2>1 DEF Shapes
<1>19. WhileWriting'
  <2> SUFFICES ASSUME stage' = "writing" PROVE WhileWriting'
      BY DEF WhileWriting
  <2>1. k # Len(questions) /\ todo' = Labels(questions[Len(ends) + 2])
        BY <1>3
  <2>2. Len(ends') < Len(questions) /\ Len(ends) + 2 = Len(ends') + 1
        BY <1>9, <1>12, <2>1 DEF k
  <2>0. PICK M : M = Labels(questions[Len(ends') + 1])
        OBVIOUS
  <2>3. /\ M = SubSeq(M, 1, Len(M)) /\ 1 \in 1..(Len(M) + 1)
        /\ \E u : IsPlaces(M, Begins(ends', Len(ends') + 1), u) /\ u[1] = Begins(ends', Len(ends') + 1)
        BY <1>4, <1>12, <2>2, <2>0, StartsWriting
  <2>4. PICK u : IsPlaces(M, Begins(ends', Len(ends') + 1), u) /\ u[1] = Begins(ends', Len(ends') + 1)
        BY <2>3
  <2>5. Begins(ends', Len(ends') + 1) = pos'
    <3>1. Len(ends') + 1 # 1 /\ (Len(ends') + 1) - 1 = k
          BY <1>9, <1>12 DEF k
    <3> QED BY <1>12, <3>1 DEF Begins
  <2>6. todo' = M
        BY <2>1, <2>2, <2>0
  <2>7. \A m \in 1..(1 - 1) : Len(M[m]) <= MaxLabel /\ Holds(buf', LabelBytes(M[m]), u[m])
        OBVIOUS
  <2>8. AtLabel(M, u, 1)'
        BY <1>2, <2>3, <2>4, <2>5, <2>6, <2>7, <2>0 DEF AtLabel
  <2>9. AtRest'
        BY <1>2, <1>4 DEF AtRest
  <2> QED BY <1>2, <1>4, <1>11, <2>2, <2>8, <2>9 DEF WhileWriting
<1>20. WhileSending'
  <2> SUFFICES ASSUME stage' = "sending" PROVE WhileSending'
      BY DEF WhileSending
  <2>1. Len(ends') = Len(questions')
        BY <1>2, <1>3, <1>12
  <2> QED BY <1>2, <1>4, <1>11, <2>1 DEF WhileSending, AtRest
<1>21. WhileReading' /\ AtTheEnd'
       BY <1>3 DEF WhileReading, AtTheEnd
<1>22. GotSoFar'
       BY <1>1, <1>2 DEF GotSoFar
<1> QED BY <1>17, <1>18, <1>19, <1>20, <1>21, <1>22 DEF IInv

(* A write that fails, and the sending.                                    *)
LEMMA LabelTooLongKeeps == IInv /\ LabelTooLong => IInv'
<1> SUFFICES ASSUME IInv, LabelTooLong PROVE IInv'
    OBVIOUS
<1>1. Shapes /\ PacketLaid /\ GotSoFar
      BY DEF IInv
<1>2. /\ stage' = "label too long"
      /\ UNCHANGED <<buf, pos, questions, todo, count, ends, at, jumped, outstr, got>>
      BY DEF LabelTooLong, reader
<1>3. Shapes'
      BY <1>1, <1>2 DEF Shapes, Stages
<1>4. PacketLaid' /\ GotSoFar'
      BY <1>1, <1>2 DEF PacketLaid, GotSoFar
<1>5. WhileWriting' /\ WhileSending' /\ WhileReading' /\ AtTheEnd'
      BY <1>2 DEF WhileWriting, WhileSending, WhileReading, AtTheEnd
<1> QED BY <1>3, <1>4, <1>5 DEF IInv

LEMMA BufferFullKeeps == IInv /\ BufferFull => IInv'
<1> SUFFICES ASSUME IInv, BufferFull PROVE IInv'
    OBVIOUS
<1>1. Shapes /\ PacketLaid /\ GotSoFar
      BY DEF IInv
<1>2. /\ stage' = "buffer full"
      /\ UNCHANGED <<buf, pos, questions, todo, count, ends, at, jumped, outstr, got>>
      BY DEF BufferFull, reader
<1>3. Shapes'
      BY <1>1, <1>2 DEF Shapes, Stages
<1>4. PacketLaid' /\ GotSoFar'
      BY <1>1, <1>2 DEF PacketLaid, GotSoFar
<1>5. WhileWriting' /\ WhileSending' /\ WhileReading' /\ AtTheEnd'
      BY <1>2 DEF WhileWriting, WhileSending, WhileReading, AtTheEnd
<1> QED BY <1>3, <1>4, <1>5 DEF IInv

LEMMA SendPacketKeeps == IInv /\ SendPacket => IInv'
<1> SUFFICES ASSUME IInv, SendPacket PROVE IInv'
    OBVIOUS
<1>1. Shapes /\ PacketLaid /\ GotSoFar /\ WhileSending
      BY DEF IInv
<1>2. /\ stage = "sending" /\ stage' \in {"reading", "out of range"}
      /\ stage' = "reading" => pos' = HeaderLen
      /\ stage' = "out of range" => pos' = pos
      /\ UNCHANGED <<buf, questions, todo, count, ends, at, jumped, outstr, got>>
      BY DEF SendPacket, reader, writer
<1>3. AtRest /\ Len(ends) = Len(questions)
      BY <1>1, <1>2 DEF WhileSending
<1>4. Shapes'
  <2>1. pos' \in Nat
    <3>1. pos \in Nat /\ HeaderLen \in Nat
          BY <1>1, SizesAssumption DEF Shapes
    <3> QED BY <1>2, <3>1
  <2> QED BY <1>1, <1>2, <2>1 DEF Shapes, Stages
<1>5. PacketLaid' /\ GotSoFar'
      BY <1>1, <1>2 DEF PacketLaid, GotSoFar
<1>6. WhileReading'
  <2> SUFFICES ASSUME stage' = "reading" PROVE WhileReading'
      BY DEF WhileReading
  <2>1. count' = 0 /\ at' = HeaderLen /\ ~jumped' /\ outstr' = <<>> /\ pos' = HeaderLen
        BY <1>2, <1>3 DEF AtRest
  <2>2. count' < Len(questions')
    <3>1. questions \in Seq(Text) /\ questions # <<>>
          BY <1>1 DEF Shapes
    <3>2. Len(questions) \in Nat /\ Len(questions) # 0
          BY <3>1, EmptySeq
    <3> QED BY <1>2, <2>1, <3>2
  <2>3. Len(ends') = Len(questions')
        BY <1>2, <1>3
  <2>4. count' < Len(ends') /\ at' = Begins(ends', count' + 1)
    <3>1. count' + 1 = 1
          BY <2>1
    <3> QED BY <2>1, <2>2, <2>3, <3>1 DEF Begins
  <2>5. Laid(buf', questions'[count' + 1], Begins(ends', count' + 1), ends'[count' + 1])
    <3>1. count' + 1 \in 1..Len(ends')
          BY <2>1, <2>2, <2>3, <1>4 DEF Shapes
    <3> QED BY <1>5, <3>1 DEF PacketLaid
  <2>6. PICK L, J, s, t, h :
          /\ Names(L, J, questions'[count' + 1])
          /\ Route(L, s, t, h, Begins(ends', count' + 1), ends'[count' + 1])
          /\ Contents(buf', L, s, t, h)
          /\ 1 \in 1..(Len(L) + 1) /\ LowerCase(J[1 - 1]) = <<>>
          /\ (h = 0 \/ 1 <= h) /\ t[1] = Begins(ends', count' + 1)
        BY <2>5, StartsReading
  <2>7. Reading(L, J, s, t, h, 1)'
        BY <2>1, <2>4, <2>6 DEF Reading, AtPlace
  <2> QED BY <2>2, <2>3, <2>7 DEF WhileReading
<1>7. WhileWriting' /\ WhileSending' /\ AtTheEnd'
      BY <1>2 DEF WhileWriting, WhileSending, AtTheEnd
<1> QED BY <1>4, <1>5, <1>6, <1>7 DEF IInv

-------------------------------------------------------------------------------
(* The reader: in front of the pointer of its name, of a label, or of the  *)
(* end of the name.                                                        *)
AtPointer(s, t, h, i) ==
  /\ i = h /\ h # 0 /\ ~jumped /\ at = t[h] /\ s[h] \in Offset
  /\ at < Size => buf[at] = Pointer + High(s[h])
  /\ at + 1 < Size => buf[at + 1] = Low(s[h])

AtText(L, s, h, i) ==
  /\ (i # h \/ jumped) /\ at = s[i] /\ i \in 1..Len(L) /\ Len(L[i]) \in LabelLen
  /\ at < Size => buf[at] = Len(L[i])

AtZero(L, s, h, i) ==
  /\ (i # h \/ jumped) /\ at = s[i] /\ i = Len(L) + 1
  /\ at < Size => buf[at] = 0

LEMMA ReadingIs ==
  ASSUME Shapes, PacketLaid, WhileReading, stage = "reading",
         NEW L, NEW J, NEW s, NEW t, NEW h, NEW i, Reading(L, J, s, t, h, i)
  PROVE  /\ L \in Seq(Text) /\ Len(L) \in Nat /\ i \in 1..(Len(L) + 1)
         /\ h \in 0..(Len(L) + 1)
         /\ \A m \in 1..(Len(L) + 1) : s[m] \in Nat /\ t[m] \in Nat
         /\ ends[count + 1] \in Nat /\ ends[Len(ends)] \in Nat
         /\ ends[count + 1] <= ends[Len(ends)] /\ at + 5 <= ends[count + 1]
         /\ AtPointer(s, t, h, i) \/ AtText(L, s, h, i) \/ AtZero(L, s, h, i)
<1> DEFINE n == Len(L)
           k == count + 1
<1>1. /\ Names(L, J, questions[k]) /\ Route(L, s, t, h, Begins(ends, k), ends[k])
      /\ Contents(buf, L, s, t, h) /\ i \in 1..(n + 1) /\ AtPlace(J, s, t, h, i)
      BY DEF Reading
<1>2. L \in Seq(Text) /\ n \in Nat /\ \A m \in 1..n : L[m] \in Text /\ Len(L[m]) \in LabelLen
      BY <1>1 DEF Names
<1>3. /\ \A m \in 1..(n + 1) : s[m] \in Nat /\ t[m] \in Nat
      /\ h \in 0..(n + 1) /\ (h # 0 => s[h] \in Offset)
      /\ \A m \in 1..(n + 1) : (m # h => s[m] = t[m]) /\ s[m] + 5 <= ends[k] /\ t[m] + 5 <= ends[k]
  <2>1. Route(L, s, t, h, Begins(ends, k), ends[k])
        BY <1>1
  <2>2. s \in [1..(n + 1) -> Nat] /\ t \in [1..(n + 1) -> Nat] /\ h \in 0..(n + 1)
        BY <2>1 DEF Route
  <2>3. \A m \in 1..(n + 1) : (m # h => s[m] = t[m]) /\ s[m] + 5 <= ends[k] /\ t[m] + 5 <= ends[k]
        BY <2>1, Zenon DEF Route
  <2>4. h # 0 => s[h] \in Offset
        BY <2>1 DEF Route
  <2> QED BY <2>2, <2>3, <2>4
<1>4. k \in 1..Len(ends) /\ Len(ends) \in 1..Len(ends) /\ ends \in Seq(Nat)
  <2>1. ends \in Seq(Nat) /\ count \in Nat /\ Len(ends) \in Nat
        BY DEF Shapes
  <2>2. count < Len(ends)
        BY DEF WhileReading
  <2> QED BY <2>1, <2>2
<1>5. ends[k] \in Nat /\ ends[Len(ends)] \in Nat /\ ends[k] <= ends[Len(ends)]
      BY <1>4 DEF PacketLaid
<1>6. jumped \in BOOLEAN /\ (jumped => at = s[i]) /\ (~jumped => at = t[i])
      BY <1>1 DEF AtPlace, Shapes
<1> HIDE DEF n, k
<1>7. at = s[i] \/ at = t[i]
      BY <1>6
<1>8. at + 5 <= ends[k] /\ at \in Nat
      BY <1>1, <1>3, <1>7
<1>9. CASE i = h /\ ~jumped
  <2>1. h # 0 /\ at = t[h] /\ s[h] \in Offset
        BY <1>1, <1>3, <1>6, <1>9, <1>2
  <2>2. Holds(buf, PointerTo(s[h]), at)
        BY <1>1, <2>1 DEF Contents
  <2>3. PointerTo(s[h]) = <<Pointer + High(s[h]), Low(s[h])>>
        BY <2>1, PointerBytes
  <2>4. PICK a, c : a = Pointer + High(s[h]) /\ c = Low(s[h])
        OBVIOUS
  <2>5. Holds(buf, <<a, c>>, at)
        BY <2>2, <2>3, <2>4
  <2>6. \A j \in 1..2 : at + j - 1 < Size => buf[at + j - 1] = <<a, c>>[j]
        BY <2>5 DEF Holds
  <2>7. at + 1 - 1 = at /\ at + 2 - 1 = at + 1
        BY <1>8
  <2>8. (at < Size => buf[at] = a) /\ (at + 1 < Size => buf[at + 1] = c)
        BY <2>6, <2>7
  <2>9. AtPointer(s, t, h, i)
        BY <1>9, <2>1, <2>4, <2>8 DEF AtPointer
  <2> QED BY <1>1, <1>2, <1>3, <1>5, <1>8, <2>9 DEF n, k
<1>10. CASE i # h \/ jumped
  <2>1. at = s[i]
        BY <1>1, <1>3, <1>6, <1>10
  <2>2. CASE i = n + 1
    <3>1. Holds(buf, << 0 >>, at)
          BY <1>1, <2>1, <2>2 DEF Contents, n
    <3>2. \A j \in 1..1 : at + j - 1 < Size => buf[at + j - 1] = << 0 >>[j]
          BY <3>1 DEF Holds
    <3>3. at + 1 - 1 = at
          BY <1>8
    <3>4. at < Size => buf[at] = 0
          BY <3>2, <3>3
    <3>5. AtZero(L, s, h, i)
          BY <1>10, <2>1, <2>2, <3>4 DEF AtZero, n
    <3> QED BY <1>1, <1>2, <1>3, <1>5, <1>8, <3>5 DEF n, k
  <2>3. CASE i # n + 1
    <3>1. i \in 1..n
          BY <1>1, <1>2, <2>3
    <3>2. Len(L[i]) \in LabelLen /\ L[i] \in Text
          BY <1>2, <3>1
    <3>3. Holds(buf, LabelBytes(L[i]), at)
          BY <1>1, <2>1, <3>1 DEF Contents, n
    <3>4. LabelBytes(L[i])[1] = Len(L[i]) /\ 1 \in 1..Len(LabelBytes(L[i]))
      <4>1. Len(L[i]) \in Byte
            BY <3>2, LabelLenIs, Zenon
      <4>2. LabelBytes(L[i])[1] = Len(L[i]) /\ Len(LabelBytes(L[i])) = Len(L[i]) + 1
            BY <3>2, <4>1, LabelBytesIs
      <4> QED BY <4>1, <4>2
    <3>5. at + 1 - 1 = at
          BY <1>8
    <3>6. at < Size => buf[at] = Len(L[i])
          BY <3>3, <3>4, <3>5 DEF Holds
    <3>7. AtText(L, s, h, i)
          BY <1>10, <2>1, <3>1, <3>2, <3>6 DEF AtText, n
    <3> QED BY <1>1, <1>2, <1>3, <1>5, <1>8, <3>7 DEF n, k
  <2> QED BY <2>2, <2>3
<1> QED BY <1>6, <1>9, <1>10

(* What the first byte tells.                                              *)
LEMMA FirstByte ==
  ASSUME NEW L, NEW s, NEW t, NEW h, NEW i, at < Size
  PROVE  /\ AtPointer(s, t, h, i) => buf[at] >= Pointer /\ buf[at] \notin 1..(Pointer - 1) /\ buf[at] # 0
         /\ AtText(L, s, h, i) => ~(buf[at] >= Pointer) /\ buf[at] # 0
         /\ AtZero(L, s, h, i) => ~(buf[at] >= Pointer) /\ buf[at] \notin 1..(Pointer - 1)
<1>1. ASSUME AtPointer(s, t, h, i)
      PROVE  buf[at] >= Pointer /\ buf[at] \notin 1..(Pointer - 1) /\ buf[at] # 0
  <2>1. buf[at] = Pointer + High(s[h]) /\ Pointer <= Pointer + High(s[h])
        /\ Pointer + High(s[h]) \in Byte
        BY <1>1, PointerBytes DEF AtPointer
  <2> QED BY <2>1 DEF Pointer, Byte
<1>2. ASSUME AtText(L, s, h, i) PROVE ~(buf[at] >= Pointer) /\ buf[at] # 0
  <2>1. buf[at] = Len(L[i]) /\ Len(L[i]) \in LabelLen
        BY <1>2 DEF AtText
  <2>2. \A x \in LabelLen : ~(x >= Pointer) /\ x # 0
        BY LabelLenIs
  <2> QED BY <2>1, <2>2, Zenon
<1>3. ASSUME AtZero(L, s, h, i) PROVE ~(buf[at] >= Pointer) /\ buf[at] \notin 1..(Pointer - 1)
  <2>1. buf[at] = 0
        BY <1>3 DEF AtZero
  <2>2. ~(0 >= Pointer) /\ 0 \notin 1..(Pointer - 1)
        BY DEF Pointer
  <2> QED BY <2>1, <2>2, Zenon
<1> QED BY <1>1, <1>2, <1>3

(* At the end of a name, its question ends four bytes behind it.           *)
LEMMA BehindIs ==
  ASSUME Shapes, PacketLaid, WhileReading, stage = "reading",
         NEW L, NEW J, NEW s, NEW t, NEW h, NEW i, Reading(L, J, s, t, h, i),
         AtZero(L, s, h, i)
  PROVE  Behind + Len(TypeAndClass) = ends[count + 1]
<1> DEFINE k == count + 1
<1>1. /\ Route(L, s, t, h, Begins(ends, k), ends[k]) /\ AtPlace(J, s, t, h, i)
      BY DEF Reading
<1>2. /\ Len(L) \in Nat /\ i \in 1..(Len(L) + 1) /\ h \in 0..(Len(L) + 1)
      /\ \A m \in 1..(Len(L) + 1) : s[m] \in Nat /\ t[m] \in Nat
      BY ReadingIs
<1>3. (h # 0 => ends[k] = t[h] + 6) /\ (h = 0 => ends[k] = s[Len(L) + 1] + 5)
      BY <1>1, Zenon DEF Route
<1>4. Len(TypeAndClass) = 4 /\ jumped \in BOOLEAN
      BY DEF TypeAndClass, Shapes
<1> HIDE DEF k
<1>5. CASE jumped
  <2>1. h # 0 /\ pos = t[h] + 2 /\ Behind = pos
        BY <1>1, <1>5 DEF AtPlace, Behind
  <2>2. t[h] \in Nat
    <3>1. h \in 1..(Len(L) + 1)
          BY <1>2, <2>1
    <3> QED BY <1>2, <3>1
  <2>3. ends[k] = t[h] + 6
        BY <1>3, <2>1
  <2> QED BY <1>4, <2>1, <2>2, <2>3 DEF k
<1>6. CASE ~jumped
  <2>1. (h = 0 \/ i <= h) /\ Behind = at + 1 /\ at = s[i] /\ i = Len(L) + 1 /\ i # h
        BY <1>1, <1>6 DEF AtPlace, Behind, AtZero
  <2>2. h = 0
        BY <1>2, <2>1
  <2>3. ends[k] = s[i] + 5 /\ s[i] \in Nat
        BY <1>2, <1>3, <2>1, <2>2
  <2> QED BY <1>4, <2>1, <2>3 DEF k
<1> QED BY <1>4, <1>5, <1>6

LEMMA CutOff ==
  ASSUME NEW here \in Nat, NEW size \in Nat, ~(here < size),
         NEW end \in Nat, NEW last \in Nat, here + 5 <= end, end <= last
  PROVE  last > size
OBVIOUS

LEMMA ReadFailsKeeps == IInv /\ ReadFails => IInv'
<1> SUFFICES ASSUME IInv, ReadFails PROVE IInv'
    OBVIOUS
<1>1. Shapes /\ PacketLaid /\ GotSoFar /\ WhileReading
      BY DEF IInv
<1>2. /\ stage = "reading" /\ stage' = "unreadable"
      /\ UNCHANGED <<buf, pos, questions, todo, count, ends, at, jumped, outstr, got>>
      BY DEF ReadFails, reader, writer
<1>3. Len(ends) = Len(questions)
      BY <1>1, <1>2 DEF WhileReading
<1>4. PICK L, J, s, t, h, i : Reading(L, J, s, t, h, i)
      BY <1>1, <1>2 DEF WhileReading
<1> DEFINE end == ends[count + 1]
           last == ends[Len(ends)]
<1>5. /\ L \in Seq(Text) /\ Len(L) \in Nat /\ i \in 1..(Len(L) + 1)
      /\ end \in Nat /\ last \in Nat /\ end <= last /\ at + 5 <= end
      /\ AtPointer(s, t, h, i) \/ AtText(L, s, h, i) \/ AtZero(L, s, h, i)
      BY <1>1, <1>2, <1>4, ReadingIs
<1>6. at \in Nat /\ Size \in Nat
      BY <1>1, SizesAssumption DEF Shapes
<1> HIDE DEF end, last
<1>7. last > Size
  <2>1. CASE at >= Size
        BY <1>5, <1>6, <2>1
  <2>2. CASE at + 1 >= Size
        BY <1>5, <1>6, <2>2
  <2>3. CASE at < Size /\ buf[at] \in 1..(Pointer - 1) /\ ~InRange(at + 1 + buf[at])
    <3>1. AtText(L, s, h, i)
          BY <1>5, <2>3, FirstByte
    <3>2. buf[at] = Len(L[i]) /\ at = s[i] /\ i \in 1..Len(L) /\ Len(L[i]) \in LabelLen
          BY <2>3, <3>1 DEF AtText
    <3>3. s[i] + 1 + Len(L[i]) + 5 <= end
      <4>1. Route(L, s, t, h, Begins(ends, count + 1), end)
            BY <1>4 DEF Reading, end
      <4>2. t[i + 1] = s[i] + 1 + Len(L[i])
            BY <3>2, <4>1, Zenon DEF Route
      <4>3. i + 1 \in 1..(Len(L) + 1)
            BY <1>5, <3>2
      <4>4. t[i + 1] + 5 <= end
            BY <4>1, <4>3, Zenon DEF Route
      <4> QED BY <4>2, <4>4
    <3>4. ~(at + 1 + Len(L[i]) < Size)
          BY <2>3, <3>2 DEF InRange
    <3>5. at + 1 + Len(L[i]) + 5 <= end
          BY <3>2, <3>3
    <3>6. at + 1 + Len(L[i]) \in Nat
          BY <1>6, <3>2
    <3> QED BY <1>5, <1>6, <3>4, <3>5, <3>6, CutOff, Zenon
  <2>4. CASE at < Size /\ buf[at] = 0 /\ Behind + Len(TypeAndClass) > Size
    <3>1. AtZero(L, s, h, i)
          BY <1>5, <2>4, FirstByte
    <3>2. Behind + Len(TypeAndClass) = end
          BY <1>1, <1>2, <1>4, <3>1, BehindIs DEF end
    <3>3. end > Size
          BY <2>4, <3>2
    <3> QED BY <1>5, <1>6, <3>3
  <2> QED BY <2>1, <2>2, <2>3, <2>4 DEF ReadFails
<1>8. Shapes'
      BY <1>1, <1>2 DEF Shapes, Stages
<1>9. PacketLaid' /\ GotSoFar'
      BY <1>1, <1>2 DEF PacketLaid, GotSoFar
<1>10. AtTheEnd'
       BY <1>2, <1>3, <1>7 DEF AtTheEnd, last
<1>11. WhileWriting' /\ WhileSending' /\ WhileReading'
       BY <1>2 DEF WhileWriting, WhileSending, WhileReading
<1> QED BY <1>8, <1>9, <1>10, <1>11 DEF IInv

LEMMA JumpKeeps == IInv /\ Jump => IInv'
<1> SUFFICES ASSUME IInv, Jump PROVE IInv'
    OBVIOUS
<1>1. Shapes /\ PacketLaid /\ GotSoFar /\ WhileReading
      BY DEF IInv
<1>2. /\ stage = "reading" /\ at + 1 < Size /\ buf[at] >= Pointer
      /\ pos' = (IF jumped THEN pos ELSE at + 2)
      /\ at' = (buf[at] - Pointer) * 256 + buf[at + 1] /\ jumped' = TRUE
      /\ UNCHANGED <<buf, stage, questions, todo, count, ends, outstr, got>>
      BY DEF Jump, writer
<1>3. Len(ends) = Len(questions) /\ count < Len(questions)
      BY <1>1, <1>2 DEF WhileReading
<1>4. PICK L, J, s, t, h, i : Reading(L, J, s, t, h, i)
      BY <1>1, <1>2 DEF WhileReading
<1>5. /\ i \in 1..(Len(L) + 1)
      /\ \A m \in 1..(Len(L) + 1) : s[m] \in Nat /\ t[m] \in Nat
      /\ AtPointer(s, t, h, i) \/ AtText(L, s, h, i) \/ AtZero(L, s, h, i)
      BY <1>1, <1>2, <1>4, ReadingIs
<1>6. at \in Nat /\ Size \in Nat
      BY <1>1, SizesAssumption DEF Shapes
<1>7. at < Size
      BY <1>2, <1>6
<1>8. AtPointer(s, t, h, i)
      BY <1>2, <1>5, <1>7, FirstByte
<1>9. /\ i = h /\ h # 0 /\ ~jumped /\ at = t[h] /\ s[h] \in Offset
      /\ buf[at] = Pointer + High(s[h]) /\ buf[at + 1] = Low(s[h])
      BY <1>2, <1>7, <1>8 DEF AtPointer
<1>10. at' = s[h] /\ pos' = t[h] + 2 /\ s[h] \in Nat /\ t[h] \in Nat
  <2>1. ((Pointer + High(s[h])) - Pointer) * 256 + Low(s[h]) = s[h]
        BY <1>9, PointerBytes
  <2>2. at' = s[h]
        BY <1>2, <1>9, <2>1, Zenon
  <2>3. pos' = t[h] + 2
        BY <1>2, <1>9, Zenon
  <2> QED BY <1>5, <1>9, <2>2, <2>3
<1>11. Shapes'
  <2>1. pos' \in Nat /\ at' \in Nat /\ jumped' \in BOOLEAN
        BY <1>2, <1>10
  <2> QED BY <1>1, <1>2, <2>1 DEF Shapes
<1>12. WhileReading'
  <2>1. /\ Names(L, J, questions[count + 1])
        /\ Route(L, s, t, h, Begins(ends, count + 1), ends[count + 1])
        /\ Contents(buf, L, s, t, h) /\ AtPlace(J, s, t, h, i)
        BY <1>4 DEF Reading
  <2>2. h <= i
        BY <1>5, <1>9
  <2>3. AtPlace(J, s, t, h, i)'
        BY <1>2, <1>9, <1>10, <2>1, <2>2 DEF AtPlace
  <2>4. Reading(L, J, s, t, h, i)'
        BY <1>2, <1>5, <2>1, <2>3 DEF Reading
  <2> QED BY <1>2, <1>3, <2>4 DEF WhileReading
<1>13. PacketLaid' /\ GotSoFar'
       BY <1>1, <1>2 DEF PacketLaid, GotSoFar
<1>14. WhileWriting' /\ WhileSending' /\ AtTheEnd'
       BY <1>2 DEF WhileWriting, WhileSending, AtTheEnd
<1> QED BY <1>11, <1>12, <1>13, <1>14 DEF IInv

(* The bytes of a label that is read are the label.                        *)
LEMMA WithinLabel ==
  ASSUME NEW p \in Nat, NEW len \in Nat, NEW j \in 1..len, NEW size \in Nat, p + 1 + len < size
  PROVE  1 + j \in 1..(len + 1) /\ p + (1 + j) - 1 = p + j /\ p + j < size
OBVIOUS

LEMMA LabelIsRead ==
  ASSUME Shapes, NEW L \in Seq(Text), NEW i \in 1..Len(L), Len(L[i]) \in LabelLen,
         NEW p \in Nat, Holds(buf, LabelBytes(L[i]), p), p + 1 + Len(L[i]) < Size
  PROVE  [j \in 1..Len(L[i]) |-> buf[p + j]] = L[i]
<1> DEFINE len == Len(L[i])
<1>1. L[i] \in Seq(Character) /\ L[i] \in Text /\ len \in Nat /\ Size \in Nat
      BY SizesAssumption DEF Text
<1>2. /\ Len(LabelBytes(L[i])) = len + 1
      /\ \A j \in 1..len : LabelBytes(L[i])[1 + j] = L[i][j]
  <2>1. len \in Byte
        BY LabelLenIs, Zenon
  <2> QED BY <1>1, <2>1, LabelBytesIs
<1>3. ASSUME NEW j \in 1..len PROVE buf[p + j] = L[i][j]
  <2>1. 1 + j \in 1..(len + 1) /\ p + (1 + j) - 1 = p + j /\ p + j < Size
        BY <1>1, WithinLabel, Zenon
  <2>2. buf[p + j] = LabelBytes(L[i])[1 + j]
        BY <1>2, <2>1 DEF Holds
  <2> QED BY <1>2, <2>2
<1>4. L[i] = [j \in 1..len |-> L[i][j]]
      BY <1>1
<1> QED BY <1>3, <1>4

LEMMA ReadLabelKeeps == IInv /\ ReadLabel => IInv'
<1> SUFFICES ASSUME IInv, ReadLabel PROVE IInv'
    OBVIOUS
<1>1. Shapes /\ PacketLaid /\ GotSoFar /\ WhileReading
      BY DEF IInv
<1>2. /\ stage = "reading" /\ at < Size /\ buf[at] \in 1..(Pointer - 1)
      /\ at + 1 + buf[at] < Size
      /\ outstr' = JoinedWith(outstr, LowerCase([j \in 1..buf[at] |-> buf[at + j]]))
      /\ at' = at + 1 + buf[at]
      /\ UNCHANGED <<buf, pos, stage, questions, todo, count, ends, jumped, got>>
      BY DEF ReadLabel, writer, InRange
<1>3. Len(ends) = Len(questions) /\ count < Len(questions)
      BY <1>1, <1>2 DEF WhileReading
<1>4. PICK L, J, s, t, h, i : Reading(L, J, s, t, h, i)
      BY <1>1, <1>2 DEF WhileReading
<1> DEFINE n == Len(L)
<1>5. /\ L \in Seq(Text) /\ n \in Nat /\ i \in 1..(n + 1) /\ h \in 0..(n + 1)
      /\ \A m \in 1..(n + 1) : s[m] \in Nat /\ t[m] \in Nat
      /\ AtPointer(s, t, h, i) \/ AtText(L, s, h, i) \/ AtZero(L, s, h, i)
      BY <1>1, <1>2, <1>4, ReadingIs
<1>6. AtText(L, s, h, i)
      BY <1>2, <1>5, FirstByte
<1>7. /\ (i # h \/ jumped) /\ at = s[i] /\ i \in 1..n /\ Len(L[i]) \in LabelLen
      /\ buf[at] = Len(L[i])
      BY <1>2, <1>6 DEF AtText
<1>8. /\ Names(L, J, questions[count + 1])
      /\ Route(L, s, t, h, Begins(ends, count + 1), ends[count + 1])
      /\ Contents(buf, L, s, t, h) /\ AtPlace(J, s, t, h, i)
      BY <1>4 DEF Reading
<1>9. L[i] \in Text
      BY <1>5, <1>7
<1>10. [j \in 1..Len(L[i]) |-> buf[at + j]] = L[i]
  <2>1. Holds(buf, LabelBytes(L[i]), at)
        BY <1>7, <1>8 DEF Contents
  <2>2. at + 1 + Len(L[i]) < Size /\ at \in Nat
        BY <1>1, <1>2, <1>7 DEF Shapes
  <2> QED BY <1>1, <1>5, <1>7, <2>1, <2>2, LabelIsRead
<1>11. J[i - 1] \in Text /\ J[i] = JoinedWith(J[i - 1], L[i])
  <2>1. J \in [0..n -> Text] /\ \A m \in 1..n : J[m] = JoinedWith(J[m - 1], L[m])
        BY <1>8 DEF Names, IsJoin
  <2>2. i - 1 \in 0..n
        BY <1>5, <1>7
  <2> QED BY <1>7, <2>1, <2>2
<1>12. outstr' = LowerCase(J[i]) /\ outstr' \in Text
  <2>1. outstr = LowerCase(J[i - 1])
        BY <1>8 DEF AtPlace
  <2>2. outstr' = JoinedWith(LowerCase(J[i - 1]), LowerCase(L[i]))
        BY <1>2, <1>7, <1>10, <2>1, Zenon
  <2>3. outstr' = LowerCase(J[i])
        BY <1>9, <1>11, <2>2, LowerCaseJoined
  <2>4. JoinedWith(J[i - 1], L[i]) \in Text
        BY <1>9, <1>11, JoinedWithType
  <2> QED BY <1>11, <2>3, <2>4, LowerCaseIs
<1>13. i + 1 \in 1..(n + 1) /\ (i + 1) - 1 = i /\ at' = t[i + 1] /\ at' \in Nat
  <2>1. i + 1 \in 1..(n + 1) /\ (i + 1) - 1 = i
        BY <1>5, <1>7
  <2>2. t[i + 1] = s[i] + 1 + Len(L[i])
        BY <1>7, <1>8, Zenon DEF Route
  <2>3. at' = t[i + 1]
        BY <1>2, <1>7, <2>2, Zenon
  <2> QED BY <1>5, <2>1, <2>3
<1>14. i + 1 # h => s[i + 1] = t[i + 1]
  <2>1. \A m \in 1..(n + 1) : m # h => s[m] = t[m]
        BY <1>8, Zenon DEF Route
  <2> QED BY <1>13, <2>1
<1>15. AtPlace(J, s, t, h, i + 1)'
  <2>1. CASE jumped
    <3>1. h # 0 /\ h <= i /\ pos = t[h] + 2
          BY <1>8, <2>1 DEF AtPlace
    <3>2. h <= i + 1 /\ i + 1 # h
          BY <1>5, <1>7, <3>1
    <3> QED BY <1>2, <1>12, <1>13, <1>14, <2>1, <3>1, <3>2 DEF AtPlace
  <2>2. CASE ~jumped
    <3>1. (h = 0 \/ i <= h) /\ pos = Begins(ends, count + 1) /\ i # h
          BY <1>7, <1>8, <2>2 DEF AtPlace
    <3>2. h = 0 \/ i + 1 <= h
          BY <1>5, <1>7, <3>1
    <3> QED BY <1>2, <1>12, <1>13, <2>2, <3>1, <3>2 DEF AtPlace
  <2>3. jumped \in BOOLEAN
        BY <1>1 DEF Shapes
  <2> QED BY <2>1, <2>2, <2>3
<1>16. WhileReading'
  <2>1. Reading(L, J, s, t, h, i + 1)'
        BY <1>2, <1>8, <1>13, <1>15 DEF Reading
  <2> QED BY <1>2, <1>3, <2>1 DEF WhileReading
<1>17. Shapes'
       BY <1>1, <1>2, <1>12, <1>13 DEF Shapes
<1>18. PacketLaid' /\ GotSoFar'
       BY <1>1, <1>2 DEF PacketLaid, GotSoFar
<1>19. WhileWriting' /\ WhileSending' /\ AtTheEnd'
       BY <1>2 DEF WhileWriting, WhileSending, AtTheEnd
<1> QED BY <1>16, <1>17, <1>18, <1>19 DEF IInv

LEMMA ReadEndKeeps == IInv /\ ReadEnd => IInv'
<1> SUFFICES ASSUME IInv, ReadEnd PROVE IInv'
    OBVIOUS
<1> DEFINE k == count + 1
<1>1. Shapes /\ PacketLaid /\ GotSoFar /\ WhileReading
      BY DEF IInv
<1>2. /\ stage = "reading" /\ at < Size /\ buf[at] = 0
      /\ pos' = Behind + Len(TypeAndClass)
      /\ got' = Append(got, outstr) /\ count' = k
      /\ stage' = (IF k = Len(questions) THEN "done" ELSE "reading")
      /\ at' = pos' /\ jumped' = FALSE /\ outstr' = <<>>
      /\ UNCHANGED <<buf, questions, todo, ends>>
      BY DEF ReadEnd, writer
<1>3. Len(ends) = Len(questions) /\ count < Len(questions)
      BY <1>1, <1>2 DEF WhileReading
<1>4. PICK L, J, s, t, h, i : Reading(L, J, s, t, h, i)
      BY <1>1, <1>2 DEF WhileReading
<1>5. /\ ends[k] \in Nat
      /\ AtPointer(s, t, h, i) \/ AtText(L, s, h, i) \/ AtZero(L, s, h, i)
      BY <1>1, <1>2, <1>4, ReadingIs
<1>6. AtZero(L, s, h, i)
      BY <1>2, <1>5, FirstByte
<1>7. pos' = ends[k]
      BY <1>1, <1>2, <1>4, <1>6, BehindIs
<1>8. outstr = LowerCase(questions[k])
  <2>1. i = Len(L) + 1 /\ Len(L) \in Nat
        BY <1>1, <1>2, <1>4, <1>6, ReadingIs DEF AtZero
  <2>2. outstr = LowerCase(J[i - 1]) /\ J[Len(L)] = questions[k]
        BY <1>4 DEF Reading, AtPlace, Names
  <2>3. i - 1 = Len(L)
        BY <2>1
  <2> QED BY <2>2, <2>3
<1>9. /\ got \in Seq(Text) /\ count = Len(got) /\ outstr \in Text /\ count \in Nat
      /\ Len(questions) \in Nat /\ k \in Nat /\ k <= Len(questions) /\ k # 0
  <2>1. got \in Seq(Text) /\ count = Len(got) /\ outstr \in Text /\ questions \in Seq(Text)
        BY <1>1 DEF Shapes
  <2>2. count \in Nat /\ Len(questions) \in Nat
        BY <2>1
  <2> QED BY <1>3, <2>1, <2>2
<1>10. /\ got' \in Seq(Text) /\ Len(got') = k /\ got'[k] = outstr
       /\ \A m \in 1..count : got'[m] = got[m]
  <2>1. /\ Append(got, outstr) \in Seq(Text) /\ Len(Append(got, outstr)) = Len(got) + 1
        /\ \A m \in 1..Len(got) : Append(got, outstr)[m] = got[m]
        /\ Append(got, outstr)[Len(got) + 1] = outstr
        BY <1>9, AppendProperties
  <2> QED BY <1>2, <1>9, <2>1
<1> HIDE DEF k
<1>11. Shapes'
  <2>1. <<>> \in Text
        BY DEF Text
  <2>2. stage' \in Stages
        BY <1>2 DEF Stages
  <2>3. pos' \in Nat /\ at' \in Nat /\ jumped' \in BOOLEAN
        BY <1>2, <1>5, <1>7
  <2> QED BY <1>1, <1>2, <1>9, <1>10, <2>1, <2>2, <2>3 DEF Shapes
<1>12. PacketLaid'
       BY <1>1, <1>2 DEF PacketLaid
<1>13. GotSoFar'
  <2>1. ASSUME NEW m \in 1..k PROVE got'[m] = LowerCase(questions[m])
    <3>1. CASE m = k
          BY <1>8, <1>10, <3>1
    <3>2. CASE m # k
      <4>1. m \in 1..count
            BY <1>9, <3>2 DEF k
      <4>2. got[m] = LowerCase(questions[m])
            BY <1>1, <1>9, <4>1 DEF GotSoFar
      <4> QED BY <1>10, <4>1, <4>2
    <3> QED BY <3>1, <3>2
  <2> QED BY <1>2, <1>10, <2>1 DEF GotSoFar
<1>14. WhileReading'
  <2> SUFFICES ASSUME stage' = "reading" PROVE WhileReading'
      BY DEF WhileReading
  <2>1. count' < Len(questions') /\ Len(ends') = Len(questions')
        BY <1>2, <1>3, <1>9
  <2>2. k + 1 \in 1..Len(ends)
        BY <1>2, <1>3, <1>9, <2>1
  <2>3. Begins(ends, k + 1) = ends[k]
    <3>1. k + 1 # 1 /\ (k + 1) - 1 = k
          BY <1>9
    <3> QED BY <3>1 DEF Begins
  <2>4. Laid(buf, questions[k + 1], Begins(ends, k + 1), ends[k + 1])
        BY <1>1, <2>2 DEF PacketLaid
  <2>5. PICK M, K, u, v, g :
          /\ Names(M, K, questions[k + 1])
          /\ Route(M, u, v, g, Begins(ends, k + 1), ends[k + 1])
          /\ Contents(buf, M, u, v, g)
          /\ 1 \in 1..(Len(M) + 1) /\ LowerCase(K[1 - 1]) = <<>>
          /\ (g = 0 \/ 1 <= g) /\ v[1] = Begins(ends, k + 1)
        BY <2>4, StartsReading
  <2>6. AtPlace(K, u, v, g, 1)'
        BY <1>2, <1>7, <2>3, <2>5 DEF AtPlace
  <2>7. Reading(M, K, u, v, g, 1)'
        BY <1>2, <2>5, <2>6 DEF Reading
  <2> QED BY <2>1, <2>7 DEF WhileReading
<1>15. AtTheEnd'
  <2>1. stage' = "done" => k = Len(questions)
        BY <1>2
  <2> QED BY <1>2, <1>3, <1>7, <2>1 DEF AtTheEnd
<1>16. WhileWriting' /\ WhileSending'
       BY <1>2 DEF WhileWriting, WhileSending
<1> QED BY <1>11, <1>12, <1>13, <1>14, <1>15, <1>16 DEF IInv

-------------------------------------------------------------------------------
LEMMA StutterKeeps == IInv /\ UNCHANGED vars => IInv'
<1> SUFFICES ASSUME IInv, UNCHANGED vars PROVE IInv'
    OBVIOUS
<1>1. UNCHANGED <<buf, pos, questions, stage, todo, count, ends, at, jumped, outstr, got>>
      BY DEF vars
<1>2. Shapes' /\ PacketLaid' /\ GotSoFar' /\ AtTheEnd'
      BY <1>1 DEF IInv, Shapes, PacketLaid, GotSoFar, AtTheEnd
<1>3. WhileWriting' /\ WhileSending'
      BY <1>1 DEF IInv, WhileWriting, WhileSending, AtRest, AtLabel
<1>4. WhileReading'
  <2> SUFFICES ASSUME stage' = "reading" PROVE WhileReading'
      BY DEF WhileReading
  <2>1. WhileReading /\ stage = "reading"
        BY <1>1 DEF IInv
  <2>2. PICK L, J, s, t, h, i : Reading(L, J, s, t, h, i)
        BY <2>1 DEF WhileReading
  <2>3. Reading(L, J, s, t, h, i)'
        BY <1>1, <2>2 DEF Reading, AtPlace
  <2> QED BY <1>1, <2>1, <2>3 DEF WhileReading
<1> QED BY <1>2, <1>3, <1>4 DEF IInv

LEMMA Inductive == Spec => []IInv
<1>1. IInv /\ [Next]_vars => IInv'
  <2> SUFFICES ASSUME IInv, [Next]_vars PROVE IInv'
      OBVIOUS
  <2>1. CASE WriteLabel
        BY <2>1, WriteLabelKeeps
  <2>2. CASE LabelTooLong
        BY <2>2, LabelTooLongKeeps
  <2>3. CASE WriteEnd
        BY <2>3, WriteEndKeeps
  <2>4. CASE BufferFull
        BY <2>4, BufferFullKeeps
  <2>5. CASE SendPacket
        BY <2>5, SendPacketKeeps
  <2>6. CASE ReadFails
        BY <2>6, ReadFailsKeeps
  <2>7. CASE Jump
        BY <2>7, JumpKeeps
  <2>8. CASE ReadLabel
        BY <2>8, ReadLabelKeeps
  <2>9. CASE ReadEnd
        BY <2>9, ReadEndKeeps
  <2>10. CASE UNCHANGED vars
        BY <2>10, StutterKeeps
  <2> QED BY <2>1, <2>2, <2>3, <2>4, <2>5, <2>6, <2>7, <2>8, <2>9, <2>10 DEF Next
<1> QED BY <1>1, Starts, PTL DEF Spec

(* The buffer holds bytes, and write_qname and write never go past its     *)
(* end: what does not fit is an error (write, write_u8).                   *)
THEOREM Typing == Spec => []TypeOK
<1>1. IInv => TypeOK
  <2> SUFFICES ASSUME IInv PROVE TypeOK
      OBVIOUS
  <2>1. /\ buf \in [0..(Size - 1) -> Byte] /\ pos \in Nat /\ at \in Nat /\ jumped \in BOOLEAN
        /\ stage \in Stages
        /\ outstr \in Text /\ got \in Seq(Text) /\ count = Len(got) /\ count <= Len(questions)
        /\ questions \in Seq(Text)
        BY DEF IInv, Shapes, Buffer
  <2>2. count \in 0..Len(questions)
    <3>1. count \in Nat /\ Len(questions) \in Nat
          BY <2>1
    <3> QED BY <2>1, <3>1
  <2>3. ASSUME NEW s \in {outstr} \cup ToSet(got) PROVE \A i \in DOMAIN s : s[i] \in Byte
    <3>1. s \in Text
      <4>1. \A x \in ToSet(got) : x \in Text
            BY <2>1 DEF ToSet
      <4> QED BY <2>1, <4>1
    <3>2. \A i \in DOMAIN s : s[i] \in Character
          BY <3>1 DEF Text
    <3>3. \A c \in Character : c \in Byte
          BY DEF Character, Byte
    <3> QED BY <3>2, <3>3
  <2>4. stage \in {"writing", "sending"} => pos <= Size
        BY DEF IInv, WhileWriting, WhileSending
  <2> QED BY <2>1, <2>2, <2>3, <2>4 DEF TypeOK, Stages
<1> QED BY <1>1, Inductive, PTL

(* read_qname gives back every name in small letters, whether its labels   *)
(* stand together or behind a pointer to an earlier name, and leaves the   *)
(* buffer where the question ends, for any names, lengths and buffer.      *)
THEOREM ReadBack == Spec => []ReadsWhatWasWritten
<1>1. IInv => ReadsWhatWasWritten
  <2> SUFFICES ASSUME IInv PROVE ReadsWhatWasWritten
      OBVIOUS
  <2>1. got \in Seq(Text) /\ count = Len(got) /\ count \in Nat
    <3>1. got \in Seq(Text) /\ count = Len(got)
          BY DEF IInv, Shapes
    <3> QED BY <3>1
  <2>2. \A i \in DOMAIN got : got[i] = LowerCase(questions[i])
    <3>1. DOMAIN got = 1..Len(got)
          BY <2>1
    <3> QED BY <3>1 DEF IInv, GotSoFar
  <2>3. ASSUME stage \in {"reading", "done"}, count > 0, ~jumped PROVE pos = ends[count]
    <3>1. CASE stage = "done"
          BY <3>1 DEF IInv, AtTheEnd
    <3>2. CASE stage = "reading"
      <4>1. PICK L, J, s, t, h, i : Reading(L, J, s, t, h, i)
            BY <3>2 DEF IInv, WhileReading
      <4>2. pos = Begins(ends, count + 1)
            BY <2>3, <4>1 DEF Reading, AtPlace
      <4>3. count + 1 # 1 /\ (count + 1) - 1 = count
            BY <2>1, <2>3
      <4> QED BY <4>2, <4>3 DEF Begins
    <3> QED BY <2>3, <3>1, <3>2
  <2> QED BY <2>2, <2>3 DEF ReadsWhatWasWritten
<1> QED BY <1>1, Inductive, PTL

(* No packet that is whole in the buffer is refused: the limits of get,    *)
(* get_range and read are no tighter than those of write.                  *)
THEOREM WholeReadable == Spec => []WholeIsReadable
<1>1. IInv => WholeIsReadable
      BY DEF IInv, AtTheEnd, WholeIsReadable
<1> QED BY <1>1, Inductive, PTL

===============================================================================
