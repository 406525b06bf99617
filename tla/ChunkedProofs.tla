----------------------------- MODULE ChunkedProofs -----------------------------
(***************************************************************************)
(* Theorems about Chunked: what is decoded is what was encoded.            *)
(*                                                                         *)
(* The encoded body is split at its chunks, and the decoder is always at   *)
(* one of the splits: what it returned is the payload up to there, and     *)
(* what it has not read is known, byte for byte.  That a size is read back *)
(* as the number that was written is proved by induction on the number.    *)
(***************************************************************************)
EXTENDS Chunked, SequenceLemmas

(* NumberOf.  The function it is defined by exists: one for each length.   *)
OneDigitMore(s, i, before) == before * Hexadecimal + s[i].value

IsSum(s, n, g) ==
  g = [i \in 0..n |-> IF i = 0 THEN 0 ELSE OneDigitMore(s, i, g[i - 1])]

LEMMA SumRecursion ==
  ASSUME NEW s, NEW n \in Nat
  PROVE  \E g : IsSum(s, n, g)
<1> DEFINE T == {k \in Nat : \E g : IsSum(s, k, g)}
<1>1. 0 \in T
  <2> DEFINE g == [i \in 0..0 |-> 0]
  <2>1. IsSum(s, 0, g)
        BY DEF IsSum
  <2> QED BY <2>1
<1>2. ASSUME NEW k \in Nat, k \in T PROVE k + 1 \in T
  <2>1. PICK g : IsSum(s, k, g)
        BY <1>2
  <2> DEFINE h == [i \in 0..(k + 1) |-> IF i <= k THEN g[i] ELSE OneDigitMore(s, k + 1, g[k])]
  <2>2. ASSUME NEW i \in 0..(k + 1)
        PROVE  h[i] = IF i = 0 THEN 0 ELSE OneDigitMore(s, i, h[i - 1])
    <3>1. CASE i = 0
          BY <2>1, <3>1 DEF IsSum
    <3>2. CASE i # 0 /\ i <= k
          BY <2>1, <3>2 DEF IsSum
    <3>3. CASE i = k + 1
          BY <3>3
    <3> QED BY <3>1, <3>2, <3>3
  <2>3. IsSum(s, k + 1, h)
        BY <2>2 DEF IsSum
  <2> QED BY <2>3
<1> HIDE DEF T
<1>3. Nat \subseteq T
      BY <1>1, <1>2, Induction
<1> QED BY <1>3 DEF T

LEMMA NumberIs ==
  ASSUME NEW s, Len(s) \in Nat
  PROVE  \E g : IsSum(s, Len(s), g) /\ NumberOf(s) = g[Len(s)]
<1> DEFINE P(g) == g = [i \in 0..Len(s) |->
                          IF i = 0 THEN 0 ELSE g[i - 1] * Hexadecimal + s[i].value]
<1>1. \A g : P(g) <=> IsSum(s, Len(s), g)
      BY DEF IsSum, OneDigitMore
<1>2. \E g : P(g)
      BY <1>1, SumRecursion
<1>3. P(CHOOSE g : P(g))
      BY <1>2
<1>4. NumberOf(s) = (CHOOSE g : P(g))[Len(s)]
      BY DEF NumberOf
<1> QED BY <1>1, <1>3, <1>4

LEMMA SumAgreement ==
  ASSUME NEW s, NEW t, NEW n \in Nat, NEW m \in Nat, n <= m, NEW g, NEW h,
         IsSum(s, n, g), IsSum(t, m, h), \A i \in 1..n : s[i] = t[i]
  PROVE  g[n] = h[n]
<1> DEFINE T == {k \in Nat : k <= n => g[k] = h[k]}
<1>1. 0 \in T
      BY DEF IsSum
<1>2. ASSUME NEW k \in Nat, k \in T PROVE k + 1 \in T
  <2> SUFFICES ASSUME k + 1 <= n PROVE g[k + 1] = h[k + 1]
      OBVIOUS
  <2>1. g[k] = h[k] /\ s[k + 1] = t[k + 1]
        BY <1>2
  <2>2. g[k + 1] = OneDigitMore(s, k + 1, g[k])
        BY DEF IsSum
  <2>3. h[k + 1] = OneDigitMore(t, k + 1, h[k])
        BY DEF IsSum
  <2> QED BY <2>1, <2>2, <2>3 DEF OneDigitMore
<1> HIDE DEF T
<1>3. Nat \subseteq T
      BY <1>1, <1>2, Induction
<1> QED BY <1>3 DEF T

(* A number with one more digit.                                           *)
LEMMA NumberAppend ==
  ASSUME NEW T, NEW s \in Seq(T), NEW x \in T
  PROVE  NumberOf(Append(s, x)) = NumberOf(s) * Hexadecimal + x.value
<1> DEFINE t == Append(s, x)
<1>1. /\ Len(s) \in Nat /\ Len(t) = Len(s) + 1 /\ t[Len(s) + 1] = x
      /\ \A i \in 1..Len(s) : s[i] = t[i]
      BY AppendProperties
<1> HIDE DEF t
<1>2. PICK g : IsSum(s, Len(s), g) /\ NumberOf(s) = g[Len(s)]
      BY <1>1, NumberIs
<1>3. PICK h : IsSum(t, Len(t), h) /\ NumberOf(t) = h[Len(t)]
      BY <1>1, NumberIs
<1>4. g[Len(s)] = h[Len(s)]
  <2>1. Len(s) \in Nat /\ Len(t) \in Nat /\ Len(s) <= Len(t)
        BY <1>1
  <2>2. /\ IsSum(s, Len(s), g) /\ IsSum(t, Len(t), h)
        /\ \A i \in 1..Len(s) : s[i] = t[i]
        BY <1>1, <1>2, <1>3, Zenon
  <2> QED BY <2>1, <2>2, SumAgreement
<1>5. h[Len(t)] = OneDigitMore(t, Len(t), h[Len(s)])
      BY <1>1, <1>3 DEF IsSum
<1> QED BY <1>1, <1>2, <1>3, <1>4, <1>5 DEF OneDigitMore, t

LEMMA NumberOfOneDigit ==
  ASSUME NEW d \in Nat
  PROVE  NumberOf(<<Digit(d)>>) = d
<1> DEFINE s == <<Digit(d)>>
<1>1. Len(s) = 1 /\ s[1].value = d
      BY DEF Digit
<1> HIDE DEF s
<1>2. PICK g : IsSum(s, Len(s), g) /\ NumberOf(s) = g[Len(s)]
  <2>1. Len(s) \in Nat
        BY <1>1
  <2> QED BY <2>1, NumberIs
<1>3. g[0] = 0 /\ g[1] = OneDigitMore(s, 1, g[0])
      BY <1>1, <1>2 DEF IsSum
<1>4. g[1] = d
      BY <1>1, <1>3, BasesAssumption DEF OneDigitMore
<1> QED BY <1>1, <1>2, <1>4 DEF s

-------------------------------------------------------------------------------
(* Written.  What is left of a number without its last digit is a smaller  *)
(* number.                                                                 *)
LEMMA WithoutLastDigit ==
  ASSUME NEW n \in Nat, NEW base \in Nat, 1 < base
  PROVE  /\ n \div base \in Nat /\ n % base \in 0..(base - 1)
         /\ n = ((n \div base) * base) + (n % base)
         /\ base <= n => n \div base < n
<1> DEFINE d == n \div base
           m == n % base
<1>1. d \in Nat /\ m \in 0..(base - 1) /\ n = base * d + m
      OBVIOUS
<1> HIDE DEF d, m
<1>2. base * d = d * base
      BY <1>1
<1>3. ASSUME base <= n PROVE d < n
  <2>1. CASE d = 0
        BY <1>3, <2>1
  <2>2. CASE d # 0
    <3>1. d < base * d
          BY <1>1, <2>2
    <3> QED BY <1>1, <3>1
  <2> QED BY <2>1, <2>2
<1>4. d \in Nat /\ m \in 0..(base - 1) /\ n = (d * base) + m /\ (base <= n => d < n)
      BY <1>1, <1>2, <1>3
<1> QED BY <1>4, Zenon DEF d, m

IsDigits(n, base, g) ==
  g = [k \in 0..n |-> IF k < base THEN <<Digit(k)>>
                      ELSE Append(g[k \div base], Digit(k % base))]

(* The function Written is defined by exists, and one for a larger number  *)
(* agrees with it.                                                         *)
LEMMA DigitsRecursion ==
  ASSUME NEW n \in Nat, NEW base \in Nat, 1 < base
  PROVE  \E g : IsDigits(n, base, g)
<1> DEFINE T == {m \in Nat : \E g : IsDigits(m, base, g)}
           Value(k, g) == IF k < base THEN <<Digit(k)>>
                          ELSE Append(g[k \div base], Digit(k % base))
<1>1. 0 \in T
  <2> DEFINE g == [k \in 0..0 |-> <<Digit(0)>>]
  <2>1. IsDigits(0, base, g)
        BY DEF IsDigits
  <2> QED BY <2>1
<1>2. ASSUME NEW m \in Nat, m \in T PROVE m + 1 \in T
  <2>1. PICK g : IsDigits(m, base, g)
        BY <1>2
  <2>2. \A k \in 0..m : g[k] = Value(k, g)
        BY <2>1 DEF IsDigits
  <2> DEFINE h == [k \in 0..(m + 1) |-> IF k <= m THEN g[k] ELSE Value(k, g)]
  <2>3. \A k \in 0..m : h[k] = g[k]
        OBVIOUS
  <2>4. ASSUME NEW k \in 0..(m + 1) PROVE h[k] = Value(k, h)
    <3>1. h[k] = Value(k, g)
      <4> HIDE DEF Value
      <4> QED BY <2>2
    <3>2. ~(k < base) => k \div base \in 0..m
      <4>1. k \div base \in Nat /\ (base <= k => k \div base < k)
            BY WithoutLastDigit
      <4> DEFINE d == k \div base
      <4> HIDE DEF d
      <4>2. d \in Nat /\ (base <= k => d < k)
            BY <4>1 DEF d
      <4>3. ~(k < base) => d \in 0..m
            BY <4>2
      <4> QED BY <4>3 DEF d
    <3>3. ~(k < base) => h[k \div base] = g[k \div base]
          BY <2>3, <3>2
    <3> HIDE DEF h
    <3> QED BY <3>1, <3>3
  <2>5. IsDigits(m + 1, base, h)
        BY <2>4 DEF IsDigits
  <2> QED BY <2>5
<1> HIDE DEF T
<1>3. Nat \subseteq T
      BY <1>1, <1>2, Induction
<1> QED BY <1>3 DEF T

LEMMA DigitsAgree ==
  ASSUME NEW n \in Nat, NEW m \in Nat, n <= m, NEW base \in Nat, 1 < base, NEW g, NEW h,
         IsDigits(n, base, g), IsDigits(m, base, h)
  PROVE  g[n] = h[n]
<1> DEFINE T == {j \in Nat : \A k \in 0..j : k <= n => g[k] = h[k]}
           Value(k, f) == IF k < base THEN <<Digit(k)>>
                          ELSE Append(f[k \div base], Digit(k % base))
<1>1. \A k \in 0..n : g[k] = Value(k, g) /\ h[k] = Value(k, h)
  <2>1. g = [k \in 0..n |-> Value(k, g)] /\ h = [k \in 0..m |-> Value(k, h)]
        BY DEF IsDigits
  <2>2. \A k \in 0..n : k \in 0..m
        OBVIOUS
  <2> HIDE DEF Value
  <2> QED BY <2>1, <2>2
<1>2. ASSUME NEW k \in 0..n, \A j \in 0..n : j < k => g[j] = h[j] PROVE g[k] = h[k]
  <2>1. ~(k < base) => k \div base \in 0..n /\ k \div base < k
    <3>1. k \div base \in Nat /\ (base <= k => k \div base < k)
      <4>1. k \in Nat
            OBVIOUS
      <4> QED BY <4>1, WithoutLastDigit
    <3> DEFINE d == k \div base
    <3> HIDE DEF d
    <3>2. d \in Nat /\ (base <= k => d < k)
          BY <3>1 DEF d
    <3>3. ~(k < base) => d \in 0..n /\ d < k
          BY <3>2
    <3> QED BY <3>3 DEF d
  <2>2. ~(k < base) => g[k \div base] = h[k \div base]
        BY <1>2, <2>1
  <2>3. Value(k, g) = Value(k, h)
        BY <2>2
  <2> HIDE DEF Value
  <2> QED BY <1>1, <2>3
<1> HIDE DEF Value
<1>3. 0 \in T
  <2>1. g[0] = h[0]
        BY <1>2
  <2> QED BY <2>1
<1>4. ASSUME NEW j \in Nat, j \in T PROVE j + 1 \in T
  <2>1. j + 1 <= n => g[j + 1] = h[j + 1]
        BY <1>2, <1>4
  <2> QED BY <1>4, <2>1
<1> HIDE DEF T
<1>5. Nat \subseteq T
      BY <1>3, <1>4, Induction
<1>6. n \in T /\ n \in 0..n
      BY <1>5
<1> QED BY <1>6 DEF T

LEMMA WrittenIs ==
  ASSUME NEW n \in Nat, NEW base \in Nat, 1 < base
  PROVE  \E g : IsDigits(n, base, g) /\ Written(n, base) = g[n]
<1> DEFINE P(g) == g = [k \in 0..n |-> IF k < base THEN <<Digit(k)>>
                                       ELSE Append(g[k \div base], Digit(k % base))]
<1>1. \A g : P(g) <=> IsDigits(n, base, g)
      BY DEF IsDigits
<1>2. \E g : P(g)
      BY <1>1, DigitsRecursion
<1>3. P(CHOOSE g : P(g))
      BY <1>2
<1>4. Written(n, base) = (CHOOSE g : P(g))[n]
      BY DEF Written
<1> HIDE DEF P
<1> QED BY <1>1, <1>3, <1>4

(* A number of one digit, and one of more.                                 *)
LEMMA WrittenStep ==
  ASSUME NEW n \in Nat, NEW base \in Nat, 1 < base
  PROVE  Written(n, base) = IF n < base THEN <<Digit(n)>>
                            ELSE Append(Written(n \div base, base), Digit(n % base))
<1>1. PICK g : IsDigits(n, base, g) /\ Written(n, base) = g[n]
      BY WrittenIs
<1> DEFINE Value(k) == IF k < base THEN <<Digit(k)>>
                       ELSE Append(g[k \div base], Digit(k % base))
<1>2. g[n] = Value(n)
  <2>1. g = [k \in 0..n |-> Value(k)]
        BY <1>1, Zenon DEF IsDigits
  <2>2. n \in 0..n
        OBVIOUS
  <2> HIDE DEF Value
  <2> QED BY <2>1, <2>2
<1>3. CASE n < base
      BY <1>1, <1>2, <1>3
<1>4. CASE ~(n < base)
  <2> DEFINE d == n \div base
  <2>1. d \in Nat /\ d <= n
    <3>1. n \div base \in Nat /\ (base <= n => n \div base < n)
          BY WithoutLastDigit
    <3> HIDE DEF d
    <3>2. d \in Nat /\ (base <= n => d < n)
          BY <3>1 DEF d
    <3> QED BY <1>4, <3>2
  <2> HIDE DEF d
  <2>2. PICK f : IsDigits(d, base, f) /\ Written(d, base) = f[d]
        BY <2>1, WrittenIs
  <2>3. f[d] = g[d]
        BY <1>1, <2>1, <2>2, DigitsAgree
  <2>4. g[n] = Append(g[d], Digit(n % base))
        BY <1>2, <1>4 DEF d
  <2>5. Written(n, base) = Append(Written(d, base), Digit(n % base))
        BY <1>1, <2>2, <2>3, <2>4, Zenon
  <2> QED BY <1>4, <2>5 DEF d
<1> QED BY <1>3, <1>4

(* Digits only, at least one.                                              *)
Digits == [is : {"digit"}, value : Nat]

LEMMA WrittenType ==
  ASSUME NEW base \in Nat, 1 < base, NEW n \in Nat
  PROVE  Written(n, base) \in Seq(Digits) /\ Written(n, base) # <<>>
<1> DEFINE T == {k \in Nat : Written(k, base) \in Seq(Digits) /\ Written(k, base) # <<>>}
<1>1. ASSUME NEW k \in Nat, \A j \in Nat : j < k => j \in T PROVE k \in T
  <2>1. CASE k < base
    <3>1. Written(k, base) = <<Digit(k)>>
          BY <2>1, WrittenStep
    <3>2. Digit(k) \in Digits
          BY DEF Digit, Digits
    <3>3. <<Digit(k)>> \in Seq(Digits) /\ <<Digit(k)>> # <<>>
          BY <3>2
    <3> QED BY <3>1, <3>3
  <2>2. CASE ~(k < base)
    <3> DEFINE d == k \div base
               m == k % base
               w == Written(d, base)
    <3>1. d \in Nat /\ m \in Nat /\ d < k
      <4>1. /\ k \div base \in Nat /\ k % base \in 0..(base - 1)
            /\ base <= k => k \div base < k
            BY WithoutLastDigit
      <4> QED BY <2>2, <4>1
    <3>2. Written(k, base) = Append(w, Digit(m))
          BY <2>2, WrittenStep
    <3> HIDE DEF d, m
    <3>3. w \in Seq(Digits)
          BY <1>1, <3>1
    <3> HIDE DEF w
    <3>4. Digit(m) \in Digits
          BY <3>1 DEF Digit, Digits
    <3>5. Append(w, Digit(m)) \in Seq(Digits) /\ Append(w, Digit(m)) # <<>>
          BY <3>3, <3>4, AppendProperties
    <3> QED BY <3>2, <3>5
  <2> QED BY <2>1, <2>2
<1> HIDE DEF T
<1>2. Nat \subseteq T
      BY <1>1, StrongInduction
<1> QED BY <1>2 DEF T

(* A number is read back as it was written.                                *)
LEMMA ReadsBack ==
  ASSUME NEW n \in Nat
  PROVE  NumberOf(Written(n, Hexadecimal)) = n
<1> DEFINE T == {k \in Nat : NumberOf(Written(k, Hexadecimal)) = k}
<1>0. Hexadecimal \in Nat /\ 1 < Hexadecimal
      BY BasesAssumption
<1>1. ASSUME NEW k \in Nat, \A j \in Nat : j < k => j \in T PROVE k \in T
  <2>1. CASE k < Hexadecimal
    <3>1. Written(k, Hexadecimal) = <<Digit(k)>>
          BY <1>0, <2>1, WrittenStep
    <3> QED BY <3>1, NumberOfOneDigit
  <2>2. CASE ~(k < Hexadecimal)
    <3> DEFINE d == k \div Hexadecimal
               m == k % Hexadecimal
               w == Written(d, Hexadecimal)
    <3>1. d \in Nat /\ m \in Nat /\ k = (d * Hexadecimal) + m /\ d < k
      <4>1. /\ k \div Hexadecimal \in Nat /\ k % Hexadecimal \in 0..(Hexadecimal - 1)
            /\ k = ((k \div Hexadecimal) * Hexadecimal) + (k % Hexadecimal)
            /\ Hexadecimal <= k => k \div Hexadecimal < k
            BY <1>0, WithoutLastDigit
      <4>2. Hexadecimal <= k
            BY <1>0, <2>2
      <4> QED BY <1>0, <4>1, <4>2
    <3>2. Written(k, Hexadecimal) = Append(w, Digit(m))
          BY <1>0, <2>2, WrittenStep
    <3> HIDE DEF d, m
    <3>3. w \in Seq(Digits) /\ NumberOf(w) = d
          BY <1>0, <1>1, <3>1, WrittenType
    <3> HIDE DEF w
    <3>4. Digit(m) \in Digits /\ Digit(m).value = m
          BY <3>1 DEF Digit, Digits
    <3>5. NumberOf(Append(w, Digit(m))) = NumberOf(w) * Hexadecimal + Digit(m).value
          BY <3>3, <3>4, NumberAppend
    <3>6. NumberOf(Append(w, Digit(m))) = k
          BY <3>1, <3>3, <3>4, <3>5
    <3> QED BY <3>2, <3>6
  <2> QED BY <2>1, <2>2
<1> HIDE DEF T
<1>2. Nat \subseteq T
      BY <1>1, StrongInduction
<1> QED BY <1>2 DEF T

-------------------------------------------------------------------------------
(* The bytes of an encoded body.                                           *)
LEMMA Pair ==
  ASSUME NEW T, NEW x \in T, NEW y \in T
  PROVE  <<x, y>> = <<x>> \o <<y>>
<1> DEFINE s == <<x>>
           t == <<y>>
           u == <<x, y>>
<1>1. /\ s \in Seq(T) /\ Len(s) = 1 /\ s[1] = x
      /\ t \in Seq(T) /\ Len(t) = 1 /\ t[1] = y
      OBVIOUS
<1>2. u \in Seq(T) /\ Len(u) = 2 /\ u[1] = x /\ u[2] = y
      OBVIOUS
<1> HIDE DEF s, t, u
<1>3. /\ s \o t \in Seq(T) /\ Len(s \o t) = 2
      /\ \A i \in 1..2 : (s \o t)[i] = IF i <= 1 THEN s[i] ELSE t[i - 1]
  <2>1. /\ s \o t \in Seq(T) /\ Len(s \o t) = Len(s) + Len(t)
        /\ \A i \in 1..(Len(s) + Len(t)) :
             (s \o t)[i] = IF i <= Len(s) THEN s[i] ELSE t[i - Len(s)]
        BY <1>1, ConcatProperties
  <2> QED BY <1>1, <2>1
<1>4. (s \o t)[1] = x /\ (s \o t)[2] = y
      BY <1>1, <1>3
<1>5. \A i \in 1..2 : u[i] = (s \o t)[i]
  <2>1. \A i \in 1..2 : i = 1 \/ i = 2
        OBVIOUS
  <2> QED BY <1>2, <1>4, <2>1, Zenon
<1>6. u = s \o t
      BY <1>2, <1>3, <1>5, SeqEqual
<1> QED BY <1>6 DEF s, t, u

LEMMA Kinds ==
  /\ CR \in Bytes /\ LF \in Bytes /\ CR # LF
  /\ Digits \subseteq Bytes
  /\ CRLF \in Seq(Bytes) /\ <<CR>> \in Seq(Bytes) /\ <<LF>> \in Seq(Bytes)
  /\ CRLF = <<CR>> \o <<LF>>
  /\ ~Numeric(CR) /\ ~Numeric(LF)
<1>1. CR \in Bytes /\ LF \in Bytes /\ CR # LF
      BY DEF CR, LF, Bytes
<1>2. Digits \subseteq Bytes
      BY DEF Digits, Bytes
<1>3. ~Numeric(CR) /\ ~Numeric(LF)
      BY DEF CR, LF, Numeric
<1>4. CRLF = <<CR>> \o <<LF>>
      BY <1>1, Pair DEF CRLF
<1>5. CRLF \in Seq(Bytes) /\ <<CR>> \in Seq(Bytes) /\ <<LF>> \in Seq(Bytes)
      BY <1>1 DEF CRLF
<1> QED BY <1>1, <1>2, <1>3, <1>4, <1>5

LEMMA CRThenLF ==
  ASSUME NEW s \in Seq(Bytes)
  PROVE  /\ CRLF \o s = <<CR>> \o (<<LF>> \o s)
         /\ CRLF \o s \in Seq(Bytes) /\ <<LF>> \o s \in Seq(Bytes)
<1> DEFINE c == <<CR>>
           l == <<LF>>
<1>1. c \in Seq(Bytes) /\ l \in Seq(Bytes) /\ CRLF = c \o l /\ CRLF \in Seq(Bytes)
      BY Kinds
<1> HIDE DEF c, l
<1>2. (c \o l) \o s = c \o (l \o s)
  <2>1. c \in Seq(Bytes) /\ l \in Seq(Bytes)
        BY <1>1
  <2> QED BY <2>1
<1>3. CRLF \o s \in Seq(Bytes) /\ l \o s \in Seq(Bytes)
      BY <1>1, ConcatProperties
<1>4. CRLF \o s = c \o (l \o s)
      BY <1>1, <1>2, Zenon
<1> QED BY <1>3, <1>4, Zenon DEF c, l

LEMMA NumbersAreBytes ==
  ASSUME NEW base \in {Decimal, Hexadecimal}, NEW n \in Nat
  PROVE  Written(n, base) \in Seq(Bytes)
<1>1. Written(n, base) \in Seq(Digits)
      BY BasesAssumption, WrittenType
<1> QED BY <1>1, Kinds, SeqMonotonic

(* Below ten, the bases agree.                                             *)
LEMMA SameInBothBases ==
  ASSUME NEW n \in Nat, n < Decimal
  PROVE  Written(n, Decimal) = Written(n, Hexadecimal)
<1>1. /\ Decimal \in Nat /\ Hexadecimal \in Nat
      /\ 1 < Decimal /\ 1 < Hexadecimal /\ n < Hexadecimal
      BY BasesAssumption
<1>2. Written(n, Decimal) = <<Digit(n)>>
      BY <1>1, WrittenStep
<1>3. Written(n, Hexadecimal) = <<Digit(n)>>
      BY <1>1, WrittenStep
<1> QED BY <1>2, <1>3

(* What is sent are frames, and none of them is empty.                     *)
LEMMA SentAreFrames ==
  ASSUME NEW T, NEW frames \in Seq(Seq(T))
  PROVE  /\ FramesSent(frames) \in Seq(Seq(T))
         /\ \A i \in 1..Len(FramesSent(frames)) : FramesSent(frames)[i] # <<>>
<1> DEFINE empty == {i \in DOMAIN frames : frames[i] = <<>>}
           m == Min(empty)
           front == SubSeq(frames, 1, m - 1)
<1>1. FramesSent(frames) = IF empty = {} THEN frames ELSE front
      BY DEF FramesSent
<1>2. DOMAIN frames = 1..Len(frames) /\ Len(frames) \in Nat
      OBVIOUS
<1>3. CASE empty = {}
  <2>1. \A i \in 1..Len(frames) : frames[i] # <<>>
        BY <1>2, <1>3
  <2>2. FramesSent(frames) = frames
        BY <1>1, <1>3
  <2> QED BY <2>1, <2>2
<1>4. CASE empty # {}
  <2>1. empty \in SUBSET Nat
        BY <1>2
  <2>2. \E k \in empty : \A j \in empty : k <= j
    <3> HIDE DEF empty
    <3> QED BY <1>4, <2>1, LeastNat
  <2>3. m \in empty /\ \A j \in empty : m <= j
    <3> HIDE DEF empty
    <3> QED BY <2>2 DEF Min
  <2>4. m \in 1..Len(frames)
        BY <1>2, <2>3
  <2>5. \A j \in 1..Len(frames) : j < m => frames[j] # <<>>
    <3> SUFFICES ASSUME NEW j \in 1..Len(frames), j < m, frames[j] = <<>> PROVE FALSE
        OBVIOUS
    <3>1. j \in empty
          BY <1>2
    <3>2. m <= j /\ m \in Nat
          BY <2>3, <2>4, <3>1
    <3> QED BY <3>2
  <2> HIDE DEF m, empty
  <2>6. m - 1 \in 0..Len(frames)
        BY <2>4
  <2>7. /\ front \in Seq(Seq(T)) /\ Len(front) = m - 1
        /\ \A i \in 1..(m - 1) : front[i] = frames[i]
        BY <2>6, FrontAndRest
  <2> HIDE DEF front
  <2>8. \A i \in 1..Len(front) : front[i] # <<>>
        BY <1>2, <2>4, <2>5, <2>7
  <2>9. FramesSent(frames) = front
        BY <1>1, <1>4
  <2> QED BY <2>7, <2>8, <2>9
<1> QED BY <1>3, <1>4

LEMMA BeginsWith ==
  ASSUME NEW T, NEW s \in Seq(T), NEW t \in Seq(T)
  PROVE  IsPrefix(s, s \o t)
<1>1. Len(s) \in Nat /\ Len(t) \in Nat /\ Len(s \o t) = Len(s) + Len(t)
      BY ConcatProperties
<1>2. SubSeq(s \o t, 1, Len(s)) = SubSeq(s, 1, Len(s))
  <2>1. 1 \in 1..(Len(s) + 1) /\ Len(s) \in (1 - 1)..Len(s)
        BY <1>1
  <2> QED BY <2>1, SubSeqOfConcat1
<1>3. Len(s) <= Len(s \o t)
      BY <1>1
<1> QED BY <1>2, <1>3 DEF IsPrefix

-------------------------------------------------------------------------------
(* A body split at its chunks.  Before its chunk i + 1, or the last one    *)
(* when i is the number of frames: q[i] is the payload up to there, r[i]   *)
(* are the bytes from there on, and a[i] those behind the line of its      *)
(* size.                                                                   *)
Sent(b) == FramesSent(b.frames)

Size(b, i) == IF i = Len(Sent(b)) THEN 0 ELSE Len(Sent(b)[i + 1])

SizeLine(b, i) == Written(Size(b, i), Hexadecimal)

Onward(b, q, r, a, i) ==
  /\ Size(b, i) # 0
  /\ a[i] = Sent(b)[i + 1] \o (CRLF \o r[i + 1])
  /\ q[i + 1] = q[i] \o Sent(b)[i + 1]

IsSplit(b, q, r, a) ==
  /\ {q, r, a} \subseteq [0..Len(Sent(b)) -> Seq(Bytes)]
  /\ \A i \in 0..Len(Sent(b)) : IsPrefix(q[i], FlattenSeq(Sent(b)))
  /\ \A i \in 0..Len(Sent(b)) : r[i] = SizeLine(b, i) \o (CRLF \o a[i])
  /\ \A i \in 0..Len(Sent(b)) : i # Len(Sent(b)) => Onward(b, q, r, a, i)
  /\ q[0] = <<>> /\ r[0] = Encoded(b)
  /\ q[Len(Sent(b))] = FlattenSeq(Sent(b)) /\ a[Len(Sent(b))] = CRLF

LEMMA SentOf ==
  ASSUME NEW b \in Bodies
  PROVE  /\ Sent(b) \in Seq(Seq(Bytes)) /\ Len(Sent(b)) \in Nat
         /\ \A i \in 1..Len(Sent(b)) : Sent(b)[i] \in Seq(Bytes) /\ Len(Sent(b)[i]) \in Nat \ {0}
<1>1. b.frames \in Seq(Seq(Bytes))
      BY BodiesAssumption
<1>2. Sent(b) \in Seq(Seq(Bytes)) /\ \A i \in 1..Len(Sent(b)) : Sent(b)[i] # <<>>
      BY <1>1, SentAreFrames DEF Sent
<1> DEFINE s == Sent(b)
<1> HIDE DEF s
<1>3. s \in Seq(Seq(Bytes)) /\ \A i \in 1..Len(s) : s[i] # <<>>
      BY <1>2 DEF s
<1>4. Len(s) \in Nat /\ \A i \in 1..Len(s) : s[i] \in Seq(Bytes)
      BY <1>3
<1>5. ASSUME NEW i \in 1..Len(s) PROVE Len(s[i]) \in Nat \ {0}
  <2> DEFINE f == s[i]
  <2>1. f \in Seq(Bytes) /\ f # <<>>
        BY <1>3, <1>4
  <2> HIDE DEF f
  <2>2. Len(f) \in Nat /\ Len(f) # 0
        BY <2>1, EmptySeq
  <2> QED BY <2>2 DEF f
<1> QED BY <1>3, <1>4, <1>5 DEF s

LEMMA Sizes ==
  ASSUME NEW b \in Bodies, NEW i \in 0..Len(Sent(b))
  PROVE  Size(b, i) \in Nat /\ SizeLine(b, i) \in Seq(Bytes)
<1>1. Size(b, i) \in Nat
  <2>1. CASE i = Len(Sent(b))
        BY <2>1 DEF Size
  <2>2. CASE i # Len(Sent(b))
    <3>1. i + 1 \in 1..Len(Sent(b))
          BY <2>2, SentOf
    <3> QED BY <2>2, <3>1, SentOf DEF Size
  <2> QED BY <2>1, <2>2
<1> QED BY <1>1, NumbersAreBytes DEF SizeLine

LEMMA Regroup ==
  ASSUME NEW s \in Seq(Bytes), NEW f \in Seq(Bytes), NEW z \in Seq(Bytes)
  PROVE  (((s \o CRLF) \o f) \o CRLF) \o z = s \o (CRLF \o (f \o (CRLF \o z)))
<1> DEFINE c == CRLF
           sc == s \o c
           scf == sc \o f
           cz == c \o z
           fcz == f \o cz
<1>1. c \in Seq(Bytes)
      BY Kinds
<1> HIDE DEF c
<1>2. sc \in Seq(Bytes) /\ cz \in Seq(Bytes)
      BY <1>1, ConcatProperties
<1>3. scf \in Seq(Bytes) /\ fcz \in Seq(Bytes)
  <2> HIDE DEF sc, cz
  <2> QED BY <1>2, ConcatProperties
<1> HIDE DEF scf, fcz
<1>4. (scf \o c) \o z = scf \o (c \o z)
      BY <1>1, <1>3
<1> HIDE DEF sc, cz
<1>5. (sc \o f) \o cz = sc \o (f \o cz)
      BY <1>2
<1>6. (s \o c) \o fcz = s \o (c \o fcz)
      BY <1>1, <1>3
<1> QED BY <1>4, <1>5, <1>6, Zenon DEF c, sc, scf, cz, fcz

(* The chunks of a body, and all that is sent of it.                       *)
ChunkSeq(b) == [i \in DOMAIN Sent(b) |-> Chunk(b, Sent(b)[i])]

LEMMA ChunksOf ==
  ASSUME NEW b \in Bodies
  PROVE  ChunkSeq(b) \in Seq(Seq(Bytes)) /\ Len(ChunkSeq(b)) = Len(Sent(b))
<1> DEFINE sent == Sent(b)
           n == Len(sent)
<1>1. /\ n \in Nat /\ sent \in Seq(Seq(Bytes))
      /\ \A i \in 1..n : sent[i] \in Seq(Bytes) /\ Len(sent[i]) \in Nat \ {0}
      BY SentOf, Zenon
<1>2. ASSUME NEW i \in 1..n PROVE Chunk(b, sent[i]) \in Seq(Bytes)
  <2> DEFINE w == Written(Len(sent[i]), BaseOf(b.by))
             f == sent[i]
             c == CRLF
  <2>1. w \in Seq(Bytes)
    <3>1. BaseOf(b.by) \in {Decimal, Hexadecimal} /\ Len(sent[i]) \in Nat
          BY <1>1 DEF BaseOf
    <3> QED BY <3>1, NumbersAreBytes, Zenon
  <2>2. f \in Seq(Bytes) /\ c \in Seq(Bytes)
        BY <1>1, Kinds
  <2>3. Chunk(b, sent[i]) = ((w \o c) \o f) \o c
        BY DEF Chunk
  <2> HIDE DEF w, f, c
  <2>4. w \o c \in Seq(Bytes)
        BY <2>1, <2>2, ConcatProperties
  <2>5. (w \o c) \o f \in Seq(Bytes)
        BY <2>2, <2>4, ConcatProperties
  <2>6. ((w \o c) \o f) \o c \in Seq(Bytes)
        BY <2>2, <2>5, ConcatProperties
  <2> QED BY <2>3, <2>6
<1> HIDE DEF sent
<1>3. ChunkSeq(b) = [i \in 1..n |-> Chunk(b, sent[i])]
  <2>1. DOMAIN sent = 1..n
        BY <1>1
  <2> QED BY <2>1, Zenon DEF ChunkSeq, sent
<1> HIDE DEF n
<1>4. ChunkSeq(b) \in Seq(Seq(Bytes)) /\ Len(ChunkSeq(b)) = n
      BY <1>1, <1>2, <1>3
<1> QED BY <1>4 DEF n, sent

LEMMA EncodedType ==
  ASSUME NEW b \in Bodies
  PROVE  Finish \in Seq(Bytes) /\ Encoded(b) \in Seq(Bytes)
<1> DEFINE d == <<Digit(0)>>
           c == CRLF
           cs == ChunkSeq(b)
<1>1. Finish \in Seq(Bytes)
  <2>1. d \in Seq(Bytes) /\ c \in Seq(Bytes)
        BY Kinds DEF Digit, Bytes
  <2> HIDE DEF d, c
  <2>2. d \o c \in Seq(Bytes)
        BY <2>1, ConcatProperties
  <2>3. (d \o c) \o c \in Seq(Bytes)
        BY <2>1, <2>2, ConcatProperties
  <2> QED BY <2>3 DEF Finish, c, d
<1>2. cs \in Seq(Seq(Bytes))
      BY ChunksOf
<1>3. Encoded(b) = FlattenSeq(cs) \o Finish
      BY DEF Encoded, ChunkSeq, Sent
<1> HIDE DEF cs
<1>4. FlattenSeq(cs) \in Seq(Bytes)
  <2>1. PICK p \in [0..Len(cs) -> Seq(Bytes)] : p[Len(cs)] = FlattenSeq(cs)
        BY <1>2, FrontsExist
  <2>2. Len(cs) \in 0..Len(cs)
        BY <1>2
  <2> QED BY <2>1, <2>2
<1>5. FlattenSeq(cs) \o Finish \in Seq(Bytes)
      BY <1>1, <1>4, ConcatProperties
<1> QED BY <1>1, <1>3, <1>5

(* What comes from an encoder is split so.                                 *)
LEMMA SplitExists ==
  ASSUME NEW b \in Bodies, Decodable(b)
  PROVE  \E q, r, a : IsSplit(b, q, r, a)
<1> DEFINE sent == Sent(b)
           n == Len(sent)
           chunks == [i \in DOMAIN sent |-> Chunk(b, sent[i])]
<1>1. /\ sent \in Seq(Seq(Bytes)) /\ n \in Nat /\ DOMAIN sent = 1..n
      /\ \A i \in 1..n : sent[i] \in Seq(Bytes) /\ Len(sent[i]) \in Nat \ {0}
  <2>1. /\ sent \in Seq(Seq(Bytes)) /\ n \in Nat
        /\ \A i \in 1..n : sent[i] \in Seq(Bytes) /\ Len(sent[i]) \in Nat \ {0}
        BY SentOf, Zenon
  <2> HIDE DEF sent
  <2>2. DOMAIN sent = 1..Len(sent)
        BY <2>1
  <2> QED BY <2>1, <2>2
<1>2. Encoded(b) = FlattenSeq(chunks) \o Finish
      BY DEF Encoded, Sent
<1>3. ASSUME NEW i \in 1..n
      PROVE  Chunk(b, sent[i])
               = ((Written(Len(sent[i]), Hexadecimal) \o CRLF) \o sent[i]) \o CRLF
  <2>1. BaseOf(b.by) = Hexadecimal \/ (b.by = "lolb" /\ BaseOf(b.by) = Decimal)
        BY DEF BaseOf
  <2>2. b.by = "lolb" => Len(sent[i]) < Decimal
        BY <1>1 DEF Decodable, Sent
  <2>3. Written(Len(sent[i]), BaseOf(b.by)) = Written(Len(sent[i]), Hexadecimal)
    <3>1. Len(sent[i]) \in Nat
          BY <1>1
    <3> QED BY <2>1, <2>2, <3>1, SameInBothBases
  <2> QED BY <2>3, Zenon DEF Chunk
<1>4. \A i \in 1..n : chunks[i] = Chunk(b, sent[i])
      BY <1>1
<1>5. chunks \in Seq(Seq(Bytes)) /\ Len(chunks) = n
      BY ChunksOf, Zenon DEF ChunkSeq
<1> HIDE DEF sent, chunks
<1>6. PICK q, x : /\ q \in [0..Len(sent) -> Seq(Bytes)] /\ x \in [0..Len(sent) -> Seq(Bytes)]
                  /\ IsCut(sent, <<>>, q, x)
  <2>1. <<>> \in Seq(Bytes)
        BY EmptySeq
  <2> QED BY <1>1, <2>1, FlattenCut
<1>7. Finish \in Seq(Bytes)
      BY EncodedType
<1>8. PICK p, r : /\ p \in [0..Len(chunks) -> Seq(Bytes)] /\ r \in [0..Len(chunks) -> Seq(Bytes)]
                  /\ IsCut(chunks, Finish, p, r)
      BY <1>5, <1>7, FlattenCut
<1> HIDE DEF n
<1>9. /\ q \in [0..n -> Seq(Bytes)] /\ q[0] = <<>> /\ q[n] = FlattenSeq(sent)
      /\ \A i \in 1..n : q[i] = q[i - 1] \o sent[i]
      BY <1>6 DEF IsCut, n
<1>10. \A i \in 0..n : IsPrefix(q[i], FlattenSeq(sent))
  <2> SUFFICES ASSUME NEW i \in 0..n PROVE IsPrefix(q[i], FlattenSeq(sent))
      OBVIOUS
  <2>1. q[i] \in Seq(Bytes) /\ x[i] \in Seq(Bytes)
        BY <1>6 DEF n
  <2>2. q[i] \o x[i] = FlattenSeq(sent) \o <<>>
        BY <1>6 DEF IsCut, n
  <2>3. FlattenSeq(sent) \in Seq(Bytes)
        BY <1>1, <1>9
  <2>4. FlattenSeq(sent) \o <<>> = FlattenSeq(sent)
        BY <2>3, ConcatEmptySeq
  <2>5. IsPrefix(q[i], q[i] \o x[i])
        BY <2>1, BeginsWith
  <2> QED BY <2>2, <2>4, <2>5, Zenon
<1>11. /\ r \in [0..n -> Seq(Bytes)] /\ r[n] = Finish
       /\ \A i \in 1..n : r[i - 1] = chunks[i] \o r[i]
       BY <1>5, <1>8 DEF IsCut
<1>12. r[0] = Encoded(b)
  <2>1. p[0] = <<>> /\ p[0] \o r[0] = FlattenSeq(chunks) \o Finish
    <3>1. 0 \in 0..Len(chunks)
          BY <1>1, <1>5
    <3> QED BY <1>8, <3>1, Zenon DEF IsCut
  <2>2. r[0] \in Seq(Bytes)
        BY <1>1, <1>11
  <2>3. <<>> \o r[0] = r[0]
        BY <2>2, ConcatEmptySeq
  <2> QED BY <1>2, <2>1, <2>3, Zenon
<1> DEFINE Behind(i) == sent[i + 1] \o (CRLF \o r[i + 1])
           a == [i \in 0..n |-> IF i = n THEN CRLF ELSE Behind(i)]
<1>13. a[n] = CRLF /\ \A i \in 0..n : i # n => a[i] = sent[i + 1] \o (CRLF \o r[i + 1])
  <2>1. n \in 0..n
        BY <1>1
  <2>2. a[n] = CRLF /\ \A i \in 0..n : i # n => a[i] = Behind(i)
    <3> HIDE DEF Next
    <3> QED BY <2>1
  <2> QED BY <2>2, Zenon
<1>14. a \in [0..n -> Seq(Bytes)]
  <2>1. ASSUME NEW i \in 0..n, i # n PROVE sent[i + 1] \o (CRLF \o r[i + 1]) \in Seq(Bytes)
    <3>1. i + 1 \in 1..n /\ i + 1 \in 0..n
          BY <1>1, <2>1
    <3>2. sent[i + 1] \in Seq(Bytes) /\ r[i + 1] \in Seq(Bytes)
          BY <1>1, <1>11, <3>1
    <3>3. CRLF \o r[i + 1] \in Seq(Bytes)
          BY <3>2, CRThenLF
    <3> QED BY <3>2, <3>3, ConcatProperties
  <2>2. \A i \in 0..n : a[i] \in Seq(Bytes)
        BY <2>1, Kinds
  <2> QED BY <2>2
<1> HIDE DEF a
<1>15. ASSUME NEW i \in 0..n, i # n PROVE Onward(b, q, r, a, i)
  <2>1. i + 1 \in 1..n /\ (i + 1) - 1 = i
        BY <1>1, <1>15
  <2>2. Size(b, i) # 0
        BY <1>1, <1>15, <2>1 DEF Size, sent, n
  <2>3. q[i + 1] = q[i] \o sent[i + 1]
        BY <1>9, <2>1
  <2> QED BY <1>13, <1>15, <2>2, <2>3 DEF Onward, sent
<1>16. ASSUME NEW i \in 0..n PROVE r[i] = SizeLine(b, i) \o (CRLF \o a[i])
  <2>1. CASE i = n
    <3>1. SizeLine(b, i) = <<Digit(0)>>
      <4>1. Size(b, i) = 0
            BY <2>1 DEF Size, n, sent
      <4> QED BY <4>1, BasesAssumption, WrittenStep DEF SizeLine
    <3> DEFINE d == <<Digit(0)>>
               c == CRLF
    <3>2. d \in Seq(Bytes) /\ c \in Seq(Bytes)
          BY Kinds DEF Digit, Bytes
    <3>3. (d \o c) \o c = d \o (c \o c)
      <4> HIDE DEF d, c
      <4> QED BY <3>2
    <3>4. Finish = (d \o c) \o c
          BY DEF Finish
    <3>5. r[i] = d \o (c \o c)
          BY <1>11, <2>1, <3>3, <3>4, Zenon
    <3> HIDE DEF d
    <3>6. SizeLine(b, i) = d /\ a[i] = c
          BY <1>13, <2>1, <3>1 DEF d
    <3> QED BY <3>5, <3>6, Zenon
  <2>2. CASE i # n
    <3> DEFINE w == Written(Len(sent[i + 1]), Hexadecimal)
               f == sent[i + 1]
               c == CRLF
               z == r[i + 1]
    <3>1. i + 1 \in 1..n /\ (i + 1) - 1 = i /\ i + 1 \in 0..n
          BY <1>1, <2>2
    <3>2. Len(f) \in Nat /\ f \in Seq(Bytes) /\ z \in Seq(Bytes)
          BY <1>1, <1>11, <3>1
    <3>3. w \in Seq(Bytes) /\ c \in Seq(Bytes)
          BY <3>2, NumbersAreBytes, Kinds
    <3>4. SizeLine(b, i) = w
          BY <2>2 DEF SizeLine, Size, sent, n
    <3>5. r[i] = chunks[i + 1] \o r[i + 1]
          BY <1>11, <3>1
    <3>6. chunks[i + 1] = ((w \o c) \o f) \o c
          BY <1>3, <1>4, <3>1
    <3>7. a[i] = f \o (c \o z)
          BY <1>13, <2>2
    <3> HIDE DEF w, f
    <3>8. (((w \o c) \o f) \o c) \o z = w \o (c \o (f \o (c \o z)))
      <4> HIDE DEF z
      <4> QED BY <3>2, <3>3, Regroup, Zenon
    <3> HIDE DEF c
    <3> QED BY <3>4, <3>5, <3>6, <3>7, <3>8, Zenon DEF c, z
  <2> QED BY <2>1, <2>2
<1>17. IsSplit(b, q, r, a)
       BY <1>9, <1>10, <1>11, <1>12, <1>13, <1>14, <1>15, <1>16 DEF IsSplit, n, sent
<1> QED BY <1>17

-------------------------------------------------------------------------------
(* The decoder at a split: in the size, where t is what is left of it; up  *)
(* to the LF of a line; in the data; at the end.                           *)
InSize(h, after) ==
  \E t \in Seq(Bytes) :
    /\ line \o t = h
    /\ wire \o unsent = t \o (CRLF \o after)
    /\ \A k \in 1..Len(line) : Numeric(line[k])

BeforeLF(rest) ==
  wire \o unsent = CRLF \o rest \/ wire \o unsent = <<LF>> \o rest

At(b, q, r, a, i) ==
  /\ i \in 0..Len(Sent(b)) /\ decoded = q[i]
  /\ stage = "size" => InSize(SizeLine(b, i), a[i])
  /\ stage = "line" => Trimmed(line) = SizeLine(b, i) /\ BeforeLF(a[i])
  /\ stage \in {"data", "tail"} => line = <<>>
  /\ stage = "data" =>
       i # Len(Sent(b)) /\ amountLeft = Size(b, i) /\ wire \o unsent = a[i]
  /\ stage = "tail" => amountLeft = 0 /\ BeforeLF(r[i])
  /\ stage = "end" => i = Len(Sent(b)) /\ wire \o unsent = CRLF

Position == \E q, r, a, i : IsSplit(body, q, r, a) /\ At(body, q, r, a, i)

IInv == TypeOK /\ (Decodable(body) => Position)

-------------------------------------------------------------------------------
(* Helpers of the actions.                                                 *)
LEMMA MinOfTwo ==
  ASSUME NEW x \in Nat, NEW y \in Nat
  PROVE  Min({x, y}) = IF x <= y THEN x ELSE y
<1> DEFINE P(m) == m \in {x, y} /\ \A k \in {x, y} : m <= k
<1>1. Min({x, y}) = CHOOSE m \in {x, y} : \A k \in {x, y} : m <= k
      BY DEF Min
<1>2. \E m \in {x, y} : \A k \in {x, y} : m <= k
      OBVIOUS
<1>3. Min({x, y}) \in {x, y} /\ \A k \in {x, y} : Min({x, y}) <= k
      BY <1>1, <1>2
<1> DEFINE m == Min({x, y})
<1> HIDE DEF m
<1>4. m \in {x, y} /\ m <= x /\ m <= y
      BY <1>3 DEF m
<1>5. m = IF x <= y THEN x ELSE y
      BY <1>4
<1> QED BY <1>5 DEF m

LEMMA NumberType ==
  ASSUME NEW T, \A x \in T : x.value \in Nat, NEW s \in Seq(T)
  PROVE  NumberOf(s) \in Nat
<1> DEFINE P == {r \in Seq(T) : NumberOf(r) \in Nat}
<1>1. <<>> \in P
  <2> DEFINE e == <<>>
  <2>1. Len(e) = 0 /\ Len(e) \in Nat /\ e \in Seq(T)
        BY EmptySeq
  <2> HIDE DEF e
  <2>2. PICK g : IsSum(e, Len(e), g) /\ NumberOf(e) = g[Len(e)]
        BY <2>1, NumberIs
  <2>3. g[0] = 0
        BY <2>1, <2>2 DEF IsSum
  <2>4. e \in P
        BY <2>1, <2>2, <2>3
  <2> QED BY <2>4 DEF e
<1>2. ASSUME NEW r \in Seq(T), NEW x \in T, r \in P PROVE Append(r, x) \in P
  <2>1. NumberOf(Append(r, x)) = NumberOf(r) * Hexadecimal + x.value
        BY NumberAppend
  <2>2. NumberOf(r) \in Nat /\ x.value \in Nat /\ Hexadecimal \in Nat
        BY <1>2, BasesAssumption
  <2>3. NumberOf(Append(r, x)) \in Nat
        BY <2>1, <2>2, SMTT(30)
  <2> QED BY <2>3, AppendProperties
<1> HIDE DEF P
<1>3. s \in P
      BY <1>1, <1>2, SeqInduction
<1> QED BY <1>3 DEF P

(* What is parsed of a line is a number; digits are kept when it is        *)
(* trimmed, and the CR behind them is not.                                 *)
Legible == [is : {"digit", "data"}, value : Nat]

LEMMA TrimmedNumber ==
  ASSUME NEW s \in Seq(Bytes)
  PROVE  NumberOf(Trimmed(s)) \in Nat
<1>1. Trimmed(s) \in Seq(Bytes)
      BY RetainedType DEF Trimmed
<1>2. \A x \in Bytes : x.value \in Nat
      BY DEF Bytes
<1> QED BY <1>1, <1>2, NumberType

LEMMA TrimmedDigits ==
  ASSUME NEW h \in Seq(Digits)
  PROVE  Trimmed(h) = h /\ Trimmed(h \o <<CR>>) = h
<1> DEFINE c == <<CR>>
<1>1. Digits \subseteq Legible /\ CR \notin Legible
      BY DEF Digits, Legible, CR
<1>2. Retained(h, Legible) = h
      BY <1>1, RetainedAll
<1>3. c \in Seq({CR}) /\ {CR} \cap Legible = {}
      BY <1>1
<1>4. Retained(c, Legible) = <<>>
  <2> HIDE DEF c
  <2> QED BY <1>3, RetainedNone
<1>5. h \in Seq(Bytes) /\ c \in Seq(Bytes)
      BY Kinds, SeqMonotonic
<1> HIDE DEF c
<1>6. Retained(h \o c, Legible) = Retained(h, Legible) \o Retained(c, Legible)
      BY <1>5, RetainedConcat
<1>7. h \o <<>> = h
      BY ConcatEmptySeq
<1>8. Retained(h \o c, Legible) = h
      BY <1>2, <1>4, <1>6, <1>7, Zenon
<1> QED BY <1>2, <1>8 DEF Trimmed, Legible, c

(* Taking the next byte, when it is known.                                 *)
LEMMA TakeOne ==
  ASSUME NEW x \in Bytes, NEW rest \in Seq(Bytes),
         wire \in Seq(Bytes), unsent \in Seq(Bytes), wire \o unsent = <<x>> \o rest,
         Take(1), unsent' = unsent
  PROVE  Taken(1) = <<x>> /\ Head(wire) = x /\ wire' \o unsent' = rest
<1> DEFINE f == <<x>>
<1>1. f \in Seq(Bytes) /\ Len(f) = 1 /\ f[1] = x
      OBVIOUS
<1>2. 1 <= Len(wire) /\ wire' = SubSeq(wire, 2, Len(wire)) /\ Len(wire) \in Nat
      BY DEF Take
<1> HIDE DEF f
<1>3. /\ SubSeq(wire, 1, Len(f)) = f
      /\ SubSeq(wire, Len(f) + 1, Len(wire)) \o unsent = rest
  <2>1. wire \o unsent = f \o rest
        BY DEF f
  <2>2. Len(f) <= Len(wire)
        BY <1>1, <1>2
  <2> QED BY <1>1, <2>1, <2>2, FirstPart
<1>4. SubSeq(wire, 1, 1) = f /\ SubSeq(wire, 2, Len(wire)) \o unsent = rest
      BY <1>1, <1>3
<1>5. Head(wire) = x
  <2>1. 1 \in 0..Len(wire)
        BY <1>2
  <2>2. SubSeq(wire, 1, 1)[1] = wire[1]
        BY <2>1, FrontAndRest
  <2>3. wire # <<>>
        BY <1>2
  <2>4. Head(wire) = wire[1]
        BY <2>3
  <2> QED BY <1>1, <1>4, <2>2, <2>4
<1>6. wire' \o unsent' = rest
      BY <1>2, <1>4
<1> QED BY <1>4, <1>5, <1>6 DEF f, Taken

LEMMA TakeType ==
  ASSUME NEW n \in Nat, wire \in Seq(Bytes), Take(n)
  PROVE  wire' \in Seq(Bytes) /\ Taken(n) \in Seq(Bytes)
<1>1. n \in 0..Len(wire) /\ wire' = SubSeq(wire, n + 1, Len(wire))
      BY DEF Take
<1> QED BY <1>1, FrontAndRest DEF Taken

LEMMA WantedIs ==
  ASSUME TypeOK
  PROVE  /\ stage # "data" => Wanted = 1
         /\ stage = "data" => Wanted \in 1..amountLeft
         /\ stage = "data" /\ amountLeft <= MaxReadSize => Wanted = amountLeft
<1>1. amountLeft \in Nat /\ MaxReadSize \in Nat /\ 0 < MaxReadSize
      /\ (stage = "data" => 0 < amountLeft)
      BY BasesAssumption DEF TypeOK
<1>2. Min({amountLeft, MaxReadSize})
        = IF amountLeft <= MaxReadSize THEN amountLeft ELSE MaxReadSize
      BY <1>1, MinOfTwo
<1> DEFINE m == Min({amountLeft, MaxReadSize})
<1>3. Wanted = IF stage = "data" THEN m ELSE 1
      BY DEF Wanted
<1> HIDE DEF m
<1>4. m = IF amountLeft <= MaxReadSize THEN amountLeft ELSE MaxReadSize
      BY <1>2 DEF m
<1> QED BY <1>1, <1>3, <1>4

-------------------------------------------------------------------------------
(* The shape of the state is kept.                                         *)
LEMMA InitType == Init => TypeOK
<1> SUFFICES ASSUME Init PROVE TypeOK
    OBVIOUS
<1>1. body \in Bodies /\ unsent = Encoded(body)
      BY DEF Init
<1>2. Encoded(body) \in Seq(Bytes)
      BY <1>1, EncodedType
<1>3. wire = <<>> /\ line = <<>> /\ decoded = <<>> /\ <<>> \in Seq(Bytes)
      BY EmptySeq DEF Init
<1> QED BY <1>1, <1>2, <1>3 DEF Init, TypeOK

LEMMA NextType == TypeOK /\ [Next]_vars => TypeOK'
<1> SUFFICES ASSUME TypeOK, [Next]_vars PROVE TypeOK'
    OBVIOUS
<1>0. /\ body \in Bodies /\ closed \in BOOLEAN /\ amountLeft \in Nat
      /\ unsent \in Seq(Bytes) /\ wire \in Seq(Bytes) /\ line \in Seq(Bytes)
      /\ decoded \in Seq(Bytes)
      BY DEF TypeOK
<1>1. ASSUME Arrive PROVE TypeOK'
  <2>1. PICK n \in 1..Len(unsent) :
          /\ wire' = wire \o SubSeq(unsent, 1, n)
          /\ unsent' = SubSeq(unsent, n + 1, Len(unsent))
        BY <1>1 DEF Arrive
  <2> DEFINE front == SubSeq(unsent, 1, n)
             rest == SubSeq(unsent, n + 1, Len(unsent))
  <2>2. front \in Seq(Bytes) /\ rest \in Seq(Bytes)
    <3>1. n \in 0..Len(unsent)
          OBVIOUS
    <3> QED BY <1>0, <3>1, FrontAndRest
  <2>3. wire' = wire \o front /\ unsent' = rest
        BY <2>1
  <2> HIDE DEF front, rest
  <2>4. wire' \in Seq(Bytes) /\ unsent' \in Seq(Bytes)
        BY <1>0, <2>2, <2>3, ConcatProperties
  <2> QED BY <1>1, <2>4 DEF Arrive, TypeOK
<1>2. ASSUME Close PROVE TypeOK'
      BY <1>2 DEF Close, TypeOK
<1>3. ASSUME CutShort PROVE TypeOK'
      BY <1>3 DEF CutShort, TypeOK
<1>4. ASSUME ReadSize PROVE TypeOK'
  <2>1. wire' \in Seq(Bytes) /\ Taken(1) \in Seq(Bytes)
        BY <1>0, <1>4, TakeType DEF ReadSize
  <2>2. line' \in Seq(Bytes)
        BY <1>0, <1>4, <2>1, ConcatProperties DEF ReadSize
  <2>3. stage' \in {"size", "line"} /\ amountLeft = 0
        BY <1>4 DEF ReadSize, TypeOK
  <2> QED BY <1>4, <2>1, <2>2, <2>3 DEF ReadSize, TypeOK
<1>5. ASSUME SkipLine PROVE TypeOK'
  <2>1. wire' \in Seq(Bytes)
        BY <1>0, <1>5, TakeType DEF SkipLine
  <2>2. line' \in Seq(Bytes)
        BY <1>0, <1>5, EmptySeq DEF SkipLine
  <2>3. NumberOf(Trimmed(line)) \in Nat
        BY <1>0, TrimmedNumber
  <2>4. stage = "line" /\ amountLeft = 0
        BY <1>5 DEF SkipLine, TypeOK
  <2>5. \/ stage' = "line" /\ amountLeft' = 0
        \/ stage' = "error" /\ amountLeft' = 0
        \/ stage' = "end" /\ amountLeft' = 0
        \/ stage' = "data" /\ amountLeft' \in Nat /\ amountLeft' > 0
        BY <1>5, <2>3, <2>4 DEF SkipLine
  <2> QED BY <1>5, <2>1, <2>2, <2>5 DEF SkipLine, TypeOK
<1>6. ASSUME ReadData PROVE TypeOK'
  <2>1. stage = "data" /\ Take(Wanted) /\ decoded' = decoded \o Taken(Wanted)
        /\ amountLeft' = amountLeft - Wanted /\ stage' = "tail"
        /\ UNCHANGED <<body, unsent, closed, line>>
        BY <1>6 DEF ReadData
  <2>2. Wanted \in 1..amountLeft
        BY <2>1, WantedIs
  <2>3. wire' \in Seq(Bytes) /\ Taken(Wanted) \in Seq(Bytes)
    <3>1. Wanted \in Nat
          BY <2>2
    <3> QED BY <1>0, <2>1, <3>1, TakeType
  <2>4. decoded' \in Seq(Bytes)
        BY <1>0, <2>1, <2>3, ConcatProperties
  <2>5. amountLeft' \in Nat
        BY <1>0, <2>1, <2>2
  <2> QED BY <2>1, <2>3, <2>4, <2>5 DEF TypeOK
<1>7. ASSUME SkipTail PROVE TypeOK'
  <2>1. wire' \in Seq(Bytes)
        BY <1>0, <1>7, TakeType DEF SkipTail
  <2>2. \/ stage' = "tail"
        \/ stage' = "size" /\ amountLeft = 0
        \/ stage' = "data" /\ amountLeft # 0
        BY <1>7 DEF SkipTail
  <2> QED BY <1>7, <2>1, <2>2 DEF SkipTail, TypeOK
<1>8. CASE UNCHANGED vars
      BY <1>8 DEF vars, TypeOK
<1> QED BY <1>1, <1>2, <1>3, <1>4, <1>5, <1>6, <1>7, <1>8 DEF Next, Decoder

-------------------------------------------------------------------------------
(* The decoder goes on from where it is, one lemma per action.             *)
Pieces(b, q, r, a, i) ==
  /\ q[i] \in Seq(Bytes) /\ r[i] \in Seq(Bytes) /\ a[i] \in Seq(Bytes)
  /\ r[i] = SizeLine(b, i) \o (CRLF \o a[i])
  /\ SizeLine(b, i) \in Seq(Bytes) /\ Size(b, i) \in Nat
  /\ Size(b, Len(Sent(b))) = 0

LEMMA SplitTypes ==
  ASSUME NEW b \in Bodies, NEW q, NEW r, NEW a, IsSplit(b, q, r, a), NEW i \in 0..Len(Sent(b))
  PROVE  Pieces(b, q, r, a, i)
BY Sizes DEF IsSplit, Size, Pieces

(* What is neither read nor lost on the way is still ahead.                *)
LEMMA StillAhead ==
  ASSUME NEW b, NEW q, NEW r, NEW a, NEW i, At(b, q, r, a, i),
         wire' \o unsent' = wire \o unsent, UNCHANGED <<stage, line, amountLeft, decoded>>
  PROVE  At(b, q, r, a, i)'
<1>1. stage = "size" => InSize(SizeLine(b, i), a[i])'
  <2>1. ASSUME InSize(SizeLine(b, i), a[i]) PROVE InSize(SizeLine(b, i), a[i])'
        BY <2>1 DEF InSize
  <2> QED BY <2>1 DEF At
<1>2. /\ stage = "line" => BeforeLF(a[i])'
      /\ stage = "tail" => BeforeLF(r[i])'
      BY DEF At, BeforeLF
<1> QED BY <1>1, <1>2 DEF At

LEMMA ArriveStep ==
  ASSUME TypeOK, Arrive
  PROVE  wire' \o unsent' = wire \o unsent
<1>1. wire \in Seq(Bytes) /\ unsent \in Seq(Bytes)
      BY DEF TypeOK
<1>2. PICK n \in 1..Len(unsent) :
        /\ wire' = wire \o SubSeq(unsent, 1, n)
        /\ unsent' = SubSeq(unsent, n + 1, Len(unsent))
      BY DEF Arrive
<1>3. n \in 0..Len(unsent)
      OBVIOUS
<1>4. (wire \o SubSeq(unsent, 1, n)) \o SubSeq(unsent, n + 1, Len(unsent)) = wire \o unsent
      BY <1>1, <1>3, Moved
<1> QED BY <1>2, <1>4, Zenon

(* A byte of the size.                                                     *)
LEMMA SizeByte ==
  ASSUME TypeOK, ReadSize, NEW h \in Seq(Digits), NEW after \in Seq(Bytes),
         \A k \in 1..(Len(h) - 1) : Numeric(h[k]), InSize(h, after)
  PROVE  /\ stage' = "size" => InSize(h, after)'
         /\ stage' = "line" => Trimmed(line') = h /\ BeforeLF(after)'
<1>1. /\ Take(1) /\ line' = line \o Taken(1) /\ unsent' = unsent
      /\ stage' = IF Numeric(Head(wire)) THEN "size" ELSE "line"
      BY DEF ReadSize
<1>2. line \in Seq(Bytes) /\ wire \in Seq(Bytes) /\ unsent \in Seq(Bytes)
      BY DEF TypeOK
<1>3. PICK t \in Seq(Bytes) :
        /\ line \o t = h
        /\ wire \o unsent = t \o (CRLF \o after)
        /\ \A k \in 1..Len(line) : Numeric(line[k])
      BY DEF InSize
<1>4. CRLF \o after \in Seq(Bytes) /\ <<LF>> \o after \in Seq(Bytes)
      /\ CRLF \o after = <<CR>> \o (<<LF>> \o after)
      BY CRThenLF
<1>5. CASE t = <<>>
  <2>1. line = h
        BY <1>2, <1>3, <1>5, ConcatEmptySeq
  <2>2. wire \o unsent = <<CR>> \o (<<LF>> \o after)
    <3>1. <<>> \o (CRLF \o after) = CRLF \o after
          BY <1>4, ConcatEmptySeq
    <3> QED BY <1>3, <1>4, <1>5, <3>1, Zenon
  <2>3. Taken(1) = <<CR>> /\ Head(wire) = CR /\ wire' \o unsent' = <<LF>> \o after
    <3>1. CR \in Bytes
          BY Kinds
    <3> QED BY <1>1, <1>2, <1>4, <2>2, <3>1, TakeOne
  <2>4. stage' = "line"
        BY <1>1, <2>3, Kinds
  <2>5. line' = h \o <<CR>>
        BY <1>1, <2>1, <2>3
  <2>6. Trimmed(line') = h
        BY <2>5, TrimmedDigits
  <2> QED BY <2>3, <2>4, <2>6 DEF BeforeLF
<1>6. CASE t # <<>>
  <2> DEFINE x == Head(t)
             u == Tail(t)
             c == CRLF \o after
  <2>1. x \in Bytes /\ u \in Seq(Bytes) /\ t = <<x>> \o u
        BY <1>6, HeadAndTail
  <2> HIDE DEF x, u, c
  <2> DEFINE f == <<x>>
  <2>2. f \in Seq(Bytes) /\ Len(f) = 1 /\ f[1] = x
        BY <2>1
  <2> HIDE DEF f
  <2>3. wire \o unsent = f \o (u \o c)
    <3>1. c \in Seq(Bytes)
          BY <1>4 DEF c
    <3>2. (f \o u) \o c = f \o (u \o c)
      <4>1. f \in Seq(Bytes) /\ u \in Seq(Bytes) /\ c \in Seq(Bytes)
            BY <2>1, <2>2, <3>1
      <4>2. Together(f, u, c)
            BY <4>1, Associative, Zenon
      <4> QED BY <4>2, Zenon DEF Together
    <3> QED BY <1>3, <2>1, <3>2, Zenon DEF f, c
  <2>4. Taken(1) = f /\ Head(wire) = x /\ wire' \o unsent' = u \o c
    <3>1. u \o c \in Seq(Bytes)
          BY <1>4, <2>1, ConcatProperties DEF c
    <3>2. wire \o unsent = <<x>> \o (u \o c)
          BY <2>3 DEF f
    <3>3. Taken(1) = <<x>> /\ Head(wire) = x /\ wire' \o unsent' = u \o c
          BY <1>1, <1>2, <2>1, <3>1, <3>2, TakeOne
    <3> QED BY <3>3 DEF f
  <2>5. line' = line \o f
        BY <1>1, <2>4
  <2>6. line' \o u = h
    <3>1. (line \o f) \o u = line \o (f \o u)
      <4>1. line \in Seq(Bytes) /\ f \in Seq(Bytes) /\ u \in Seq(Bytes)
            BY <1>2, <2>1, <2>2
      <4>2. Together(line, f, u)
            BY <4>1, Associative, Zenon
      <4> QED BY <4>2, Zenon DEF Together
    <3> QED BY <1>3, <2>1, <2>5, <3>1, Zenon DEF f
  <2>7. /\ line' \in Seq(Bytes) /\ Len(line') = Len(line) + 1
        /\ line'[Len(line) + 1] = x
        /\ \A k \in 1..Len(line) : line'[k] = line[k]
    <3>1. /\ line \o f \in Seq(Bytes) /\ Len(line \o f) = Len(line) + Len(f)
          /\ \A k \in 1..(Len(line) + Len(f)) :
               (line \o f)[k] = IF k <= Len(line) THEN line[k] ELSE f[k - Len(line)]
          BY <1>2, <2>2, ConcatProperties
    <3>2. Len(line) \in Nat
          BY <1>2
    <3> DEFINE l == line \o f
    <3>3. l \in Seq(Bytes) /\ Len(l) = Len(line) + 1
          /\ \A k \in 1..(Len(line) + 1) :
               l[k] = IF k <= Len(line) THEN line[k] ELSE f[k - Len(line)]
          BY <2>2, <3>1
    <3> HIDE DEF l
    <3>4. l[Len(line) + 1] = x
      <4>1. Len(line) + 1 \in 1..(Len(line) + 1) /\ ~(Len(line) + 1 <= Len(line))
            /\ (Len(line) + 1) - Len(line) = 1
            BY <3>2
      <4> QED BY <2>2, <3>3, <4>1
    <3>5. \A k \in 1..Len(line) : l[k] = line[k]
      <4>1. \A k \in 1..Len(line) : k \in 1..(Len(line) + 1) /\ k <= Len(line)
            BY <3>2
      <4> QED BY <3>3, <4>1
    <3> QED BY <2>5, <3>3, <3>4, <3>5 DEF l
  <2>8. CASE Numeric(x)
    <3>1. stage' = "size"
          BY <1>1, <2>4, <2>8
    <3>2. \A k \in 1..Len(line') : Numeric(line'[k])
      <4>1. Len(line) \in Nat
            BY <1>2
      <4>2. \A k \in 1..(Len(line) + 1) : k \in 1..Len(line) \/ k = Len(line) + 1
            BY <4>1
      <4> QED BY <1>3, <2>7, <2>8, <4>2
    <3>3. InSize(h, after)'
          BY <2>1, <2>4, <2>6, <3>2 DEF InSize, c
    <3> QED BY <3>1, <3>3
  <2>9. CASE ~Numeric(x)
    <3>1. stage' = "line"
          BY <1>1, <2>4, <2>9
    <3>2. /\ Len(h) = Len(line') + Len(u)
          /\ h[Len(line')] = line'[Len(line')]
          /\ Len(line') \in Nat \ {0} /\ Len(u) \in Nat
      <4> DEFINE l == line'
      <4>1. l \in Seq(Bytes) /\ Len(l) = Len(line) + 1 /\ Len(line) \in Nat /\ l \o u = h
            BY <1>2, <2>6, <2>7
      <4> HIDE DEF l
      <4>2. /\ Len(l \o u) = Len(l) + Len(u)
            /\ \A k \in 1..(Len(l) + Len(u)) :
                 (l \o u)[k] = IF k <= Len(l) THEN l[k] ELSE u[k - Len(l)]
            BY <2>1, <4>1, ConcatProperties
      <4>3. Len(l) \in Nat \ {0} /\ Len(u) \in Nat
            BY <2>1, <4>1
      <4>4. Len(l) \in 1..(Len(l) + Len(u)) /\ Len(l) <= Len(l)
            BY <4>3
      <4>5. Len(h) = Len(l) + Len(u) /\ h[Len(l)] = l[Len(l)]
            BY <4>1, <4>2, <4>4
      <4> QED BY <4>3, <4>5 DEF l
    <3>3. Len(u) = 0
      <4>1. ~Numeric(h[Len(line')])
            BY <2>7, <2>9, <3>2
      <4>2. Len(line') \notin 1..(Len(h) - 1)
            BY <4>1
      <4> DEFINE ll == Len(line')
                 lu == Len(u)
                 lh == Len(h)
      <4>3. ll \notin 1..(lh - 1) /\ lh = ll + lu /\ ll \in Nat \ {0} /\ lu \in Nat
            BY <3>2, <4>2
      <4> HIDE DEF ll, lu, lh
      <4>4. lu = 0
            BY <4>3
      <4> QED BY <4>4 DEF lu
    <3>4. u = <<>>
          BY <2>1, <3>3, EmptySeq
    <3>5. line' = h
      <4>1. line' \o <<>> = line'
            BY <2>7, ConcatEmptySeq
      <4> QED BY <2>6, <3>4, <4>1, Zenon
    <3>6. wire' \o unsent' = CRLF \o after
      <4>1. <<>> \o c = c
            BY <1>4, ConcatEmptySeq DEF c
      <4> QED BY <2>4, <3>4, <4>1, Zenon DEF c
    <3>7. Trimmed(line') = h
          BY <3>5, TrimmedDigits
    <3> QED BY <3>1, <3>6, <3>7 DEF BeforeLF
  <2> QED BY <2>8, <2>9
<1> QED BY <1>5, <1>6

(* A byte up to the LF of a line: the LF, or the CR before it.             *)
LEMMA LineByte ==
  ASSUME TypeOK, Take(1), unsent' = unsent, NEW rest \in Seq(Bytes), BeforeLF(rest)
  PROVE  \/ Head(wire) # LF /\ BeforeLF(rest)'
         \/ Head(wire) = LF /\ wire' \o unsent' = rest
<1>1. wire \in Seq(Bytes) /\ unsent \in Seq(Bytes)
      BY DEF TypeOK
<1>2. CR \in Bytes /\ LF \in Bytes /\ CR # LF
      BY Kinds
<1>3. <<LF>> \o rest \in Seq(Bytes) /\ CRLF \o rest = <<CR>> \o (<<LF>> \o rest)
      BY CRThenLF
<1>4. CASE wire \o unsent = CRLF \o rest
  <2>1. wire \o unsent = <<CR>> \o (<<LF>> \o rest)
        BY <1>3, <1>4, Zenon
  <2>2. Head(wire) = CR /\ wire' \o unsent' = <<LF>> \o rest
        BY <1>1, <1>2, <1>3, <2>1, TakeOne
  <2> QED BY <1>2, <2>2 DEF BeforeLF
<1>5. CASE wire \o unsent = <<LF>> \o rest
  <2>1. Head(wire) = LF /\ wire' \o unsent' = rest
        BY <1>1, <1>2, <1>5, TakeOne
  <2> QED BY <2>1
<1> QED BY <1>4, <1>5 DEF BeforeLF

LEMMA ReadSizeStep ==
  ASSUME TypeOK, ReadSize, NEW b \in Bodies, Decodable(b),
         NEW q, NEW r, NEW a, IsSplit(b, q, r, a), NEW i, At(b, q, r, a, i)
  PROVE  At(b, q, r, a, i)'
<1> DEFINE h == SizeLine(b, i)
           n == Len(Sent(b))
<1>1. /\ stage = "size" /\ stage' \in {"size", "line"}
      /\ UNCHANGED decoded
      BY DEF ReadSize
<1>2. i \in 0..n /\ decoded = q[i] /\ InSize(h, a[i])
      BY <1>1 DEF At
<1>3. Size(b, i) \in Nat /\ a[i] \in Seq(Bytes)
  <2>1. Pieces(b, q, r, a, i)
        BY <1>2, SplitTypes, Zenon
  <2> QED BY <2>1, Zenon DEF Pieces
<1>4. h \in Seq(Digits)
      BY <1>3, BasesAssumption, WrittenType DEF SizeLine
<1>5. \A k \in 1..(Len(h) - 1) : Numeric(h[k])
  <2>1. CASE i = n
    <3>1. h = <<Digit(0)>>
      <4>1. Size(b, i) = 0
            BY <2>1 DEF Size
      <4> QED BY <4>1, BasesAssumption, WrittenStep DEF SizeLine
    <3>2. Len(h) = 1
          BY <3>1
    <3> HIDE DEF h
    <3> QED BY <3>2
  <2>2. CASE i # n
    <3>1. i + 1 \in 1..n
          BY <1>2, <2>2, SentOf
    <3>2. DOMAIN Sent(b) = 1..n
      <4>1. Sent(b) \in Seq(Seq(Bytes))
            BY SentOf
      <4> QED BY <4>1
    <3>3. ReadAsWritten(Len(Sent(b)[i + 1]))
          BY <3>1, <3>2 DEF Decodable, Sent
    <3>4. Size(b, i) = Len(Sent(b)[i + 1])
          BY <2>2 DEF Size
    <3> QED BY <3>3, <3>4, Zenon DEF ReadAsWritten, SizeLine
  <2> QED BY <2>1, <2>2
<1> HIDE DEF h, n
<1>6. /\ stage' = "size" => InSize(h, a[i])'
      /\ stage' = "line" => Trimmed(line') = h /\ BeforeLF(a[i])'
      BY <1>2, <1>3, <1>4, <1>5, SizeByte
<1> QED BY <1>1, <1>2, <1>6 DEF At, h, n

LEMMA SkipLineStep ==
  ASSUME TypeOK, SkipLine, NEW b \in Bodies,
         NEW q, NEW r, NEW a, IsSplit(b, q, r, a), NEW i, At(b, q, r, a, i)
  PROVE  At(b, q, r, a, i)'
<1> DEFINE h == SizeLine(b, i)
           n == Len(Sent(b))
<1>1. /\ stage = "line" /\ Take(1) /\ unsent' = unsent /\ decoded' = decoded
      /\ line' = IF Head(wire) = LF THEN <<>> ELSE line
      BY DEF SkipLine
<1>2. i \in 0..n /\ decoded = q[i] /\ Trimmed(line) = h /\ BeforeLF(a[i])
      BY <1>1 DEF At
<1>3. Size(b, i) \in Nat /\ a[i] \in Seq(Bytes)
  <2>1. Pieces(b, q, r, a, i)
        BY <1>2, SplitTypes, Zenon
  <2> QED BY <2>1, Zenon DEF Pieces
<1>4. h \in Seq(Digits) /\ h # <<>>
  <2>1. Hexadecimal \in Nat /\ 1 < Hexadecimal
        BY BasesAssumption
  <2> QED BY <1>3, <2>1, WrittenType, Zenon DEF SizeLine
<1>5. NumberOf(h) = Size(b, i)
      BY <1>3, ReadsBack DEF SizeLine
<1>6. IsNumber(h)
  <2> HIDE DEF h
  <2>1. \A k \in DOMAIN h : h[k] \in Digits
        BY <1>4
  <2> QED BY <1>4, <2>1 DEF IsNumber, Digits
<1> HIDE DEF h
<1>7. CASE Head(wire) # LF /\ BeforeLF(a[i])'
  <2>1. stage' = stage /\ line' = line
        BY <1>1, <1>7 DEF SkipLine
  <2> QED BY <1>1, <1>2, <1>7, <2>1 DEF At, h, n
<1>8. CASE Head(wire) = LF /\ wire' \o unsent' = a[i]
  <2>1. /\ line' = <<>> /\ amountLeft' = Size(b, i)
        /\ stage' = IF Size(b, i) = 0 THEN "end" ELSE "data"
        BY <1>1, <1>2, <1>5, <1>6, <1>8 DEF SkipLine
  <2>2. CASE Size(b, i) = 0
    <3>1. i = n
          BY <1>2, <2>2 DEF IsSplit, Onward, n
    <3>2. a[i] = CRLF
          BY <3>1 DEF IsSplit, n
    <3> QED BY <1>1, <1>2, <1>8, <2>1, <2>2, <3>1, <3>2 DEF At, n
  <2>3. CASE Size(b, i) # 0
    <3>1. i # n
          BY <2>3 DEF Size, n
    <3> QED BY <1>1, <1>2, <1>8, <2>1, <2>3, <3>1 DEF At, n
  <2> QED BY <2>2, <2>3
<1> QED BY <1>1, <1>2, <1>3, <1>7, <1>8, LineByte

LEMMA ReadDataStep ==
  ASSUME TypeOK, ReadData, NEW b \in Bodies, Decodable(b),
         NEW q, NEW r, NEW a, IsSplit(b, q, r, a), NEW i, At(b, q, r, a, i)
  PROVE  At(b, q, r, a, i + 1)'
<1> DEFINE n == Len(Sent(b))
           f == Sent(b)[i + 1]
           rest == CRLF \o r[i + 1]
<1>1. /\ stage = "data" /\ Take(Wanted) /\ decoded' = decoded \o Taken(Wanted)
      /\ amountLeft' = amountLeft - Wanted /\ stage' = "tail"
      /\ unsent' = unsent /\ line' = line
      BY DEF ReadData
<1>2. /\ i \in 0..n /\ i # n /\ decoded = q[i] /\ line = <<>>
      /\ amountLeft = Size(b, i) /\ wire \o unsent = a[i]
      BY <1>1 DEF At
<1>3. i + 1 \in 1..n /\ i + 1 \in 0..n
      BY <1>2, SentOf
<1>4. f \in Seq(Bytes) /\ Len(f) \in Nat
      BY <1>3, SentOf
<1>5. r[i + 1] \in Seq(Bytes) /\ rest \in Seq(Bytes)
  <2>1. r[i + 1] \in Seq(Bytes)
    <3>1. Pieces(b, q, r, a, i + 1)
          BY <1>3, SplitTypes, Zenon
    <3> QED BY <3>1, Zenon DEF Pieces
  <2> QED BY <2>1, CRThenLF
<1>6. a[i] = f \o rest /\ q[i + 1] = q[i] \o f
      BY <1>2 DEF IsSplit, Onward
<1>7. amountLeft = Len(f)
      BY <1>2 DEF Size
<1>8. Len(f) <= MaxReadSize
  <2>1. Sent(b) \in Seq(Seq(Bytes))
        BY SentOf
  <2>2. DOMAIN Sent(b) = 1..n
        BY <2>1
  <2> QED BY <1>3, <2>2 DEF Decodable, Sent
<1> HIDE DEF f, rest
<1>9. Wanted = Len(f)
      BY <1>1, <1>7, <1>8, WantedIs
<1>10. wire \in Seq(Bytes) /\ unsent \in Seq(Bytes)
       BY DEF TypeOK
<1>11. Taken(Wanted) = f /\ wire' \o unsent' = rest
  <2>1. wire \o unsent = f \o rest /\ Len(f) <= Len(wire)
        /\ wire' = SubSeq(wire, Len(f) + 1, Len(wire))
        BY <1>1, <1>2, <1>6, <1>9 DEF Take
  <2>2. /\ SubSeq(wire, 1, Len(f)) = f
        /\ SubSeq(wire, Len(f) + 1, Len(wire)) \o unsent = rest
        BY <1>4, <1>5, <1>10, <2>1, FirstPart
  <2> QED BY <1>1, <1>9, <2>1, <2>2 DEF Taken
<1>12. amountLeft' = 0 /\ decoded' = q[i + 1]
       BY <1>1, <1>2, <1>4, <1>6, <1>7, <1>9, <1>11
<1>13. BeforeLF(r[i + 1])'
       BY <1>11 DEF BeforeLF, rest
<1> QED BY <1>1, <1>2, <1>3, <1>12, <1>13 DEF At, n

LEMMA SkipTailStep ==
  ASSUME TypeOK, SkipTail, NEW b \in Bodies,
         NEW q, NEW r, NEW a, IsSplit(b, q, r, a), NEW i, At(b, q, r, a, i)
  PROVE  At(b, q, r, a, i)'
<1> DEFINE h == SizeLine(b, i)
           n == Len(Sent(b))
<1>1. /\ stage = "tail" /\ Take(1) /\ unsent' = unsent
      /\ UNCHANGED <<line, amountLeft, decoded>>
      BY DEF SkipTail
<1>2. i \in 0..n /\ decoded = q[i] /\ line = <<>> /\ amountLeft = 0 /\ BeforeLF(r[i])
      BY <1>1 DEF At
<1>3. r[i] \in Seq(Bytes) /\ h \in Seq(Bytes) /\ r[i] = h \o (CRLF \o a[i])
  <2>1. Pieces(b, q, r, a, i)
        BY <1>2, SplitTypes, Zenon
  <2> QED BY <2>1, Zenon DEF Pieces
<1> HIDE DEF h
<1>4. CASE Head(wire) # LF /\ BeforeLF(r[i])'
  <2>1. stage' = "tail"
        BY <1>4 DEF SkipTail
  <2> QED BY <1>1, <1>2, <1>4, <2>1 DEF At, n
<1>5. CASE Head(wire) = LF /\ wire' \o unsent' = r[i]
  <2>1. stage' = "size"
        BY <1>2, <1>5 DEF SkipTail
  <2>2. InSize(h, a[i])'
    <3>1. line' \o h = h
          BY <1>1, <1>2, <1>3, ConcatEmptySeq
    <3>2. wire' \o unsent' = h \o (CRLF \o a[i])
          BY <1>3, <1>5
    <3>3. \A k \in 1..Len(line') : Numeric(line'[k])
      <4>1. Len(line') = 0
            BY <1>1, <1>2
      <4> QED BY <4>1
    <3> QED BY <1>3, <3>1, <3>2, <3>3 DEF InSize
  <2> QED BY <1>1, <1>2, <2>1, <2>2 DEF At, h, n
<1> QED BY <1>1, <1>2, <1>3, <1>4, <1>5, LineByte

-------------------------------------------------------------------------------
(* The inductive invariant.                                                *)
LEMMA InitPosition == Init => (Decodable(body) => Position)
<1> SUFFICES ASSUME Init, Decodable(body) PROVE Position
    OBVIOUS
<1>1. /\ body \in Bodies /\ unsent = Encoded(body) /\ wire = <<>> /\ stage = "size"
      /\ line = <<>> /\ decoded = <<>>
      BY DEF Init
<1>2. PICK q, r, a : IsSplit(body, q, r, a)
      BY <1>1, SplitExists
<1> DEFINE h == SizeLine(body, 0)
<1>3. 0 \in 0..Len(Sent(body))
      BY <1>1, SentOf
<1>4. /\ r[0] \in Seq(Bytes) /\ h \in Seq(Bytes) /\ r[0] = h \o (CRLF \o a[0])
  <2>1. Pieces(body, q, r, a, 0)
        BY <1>1, <1>2, <1>3, SplitTypes, Zenon
  <2> QED BY <2>1, Zenon DEF Pieces
<1>5. q[0] = <<>> /\ r[0] = Encoded(body)
      BY <1>2 DEF IsSplit
<1> HIDE DEF h
<1>6. InSize(h, a[0])
  <2>1. line \o h = h
        BY <1>1, <1>4, ConcatEmptySeq
  <2>2. wire \o unsent = h \o (CRLF \o a[0])
    <3>1. <<>> \o r[0] = r[0]
          BY <1>4, ConcatEmptySeq
    <3> QED BY <1>1, <1>4, <1>5, <3>1, Zenon
  <2>3. \A k \in 1..Len(line) : Numeric(line[k])
    <3>1. Len(line) = 0
          BY <1>1
    <3> QED BY <3>1
  <2> QED BY <1>4, <2>1, <2>2, <2>3 DEF InSize
<1>7. At(body, q, r, a, 0)
      BY <1>1, <1>3, <1>5, <1>6 DEF At, h
<1> QED BY <1>2, <1>7 DEF Position

LEMMA StepPosition ==
  ASSUME TypeOK, [Next]_vars, NEW b \in Bodies, Decodable(b),
         NEW q, NEW r, NEW a, IsSplit(b, q, r, a), NEW i, At(b, q, r, a, i)
  PROVE  \E j : At(b, q, r, a, j)'
<1>1. ASSUME Arrive PROVE At(b, q, r, a, i)'
  <2>1. wire' \o unsent' = wire \o unsent
        BY <1>1, ArriveStep
  <2> QED BY <1>1, <2>1, StillAhead DEF Arrive
<1>2. ASSUME Close PROVE At(b, q, r, a, i)'
      BY <1>2, StillAhead DEF Close
<1>3. ASSUME CutShort PROVE At(b, q, r, a, i)'
      BY <1>3 DEF CutShort, At
<1>4. ASSUME ReadSize PROVE At(b, q, r, a, i)'
      BY <1>4, ReadSizeStep
<1>5. ASSUME SkipLine PROVE At(b, q, r, a, i)'
      BY <1>5, SkipLineStep
<1>6. ASSUME ReadData PROVE At(b, q, r, a, i + 1)'
      BY <1>6, ReadDataStep
<1>7. ASSUME SkipTail PROVE At(b, q, r, a, i)'
      BY <1>7, SkipTailStep
<1>8. CASE UNCHANGED vars
      BY <1>8, StillAhead DEF vars
<1> QED BY <1>1, <1>2, <1>3, <1>4, <1>5, <1>6, <1>7, <1>8 DEF Next, Decoder

LEMMA NextInvariant == IInv /\ [Next]_vars => IInv'
<1> SUFFICES ASSUME IInv, [Next]_vars PROVE IInv'
    OBVIOUS
<1>1. TypeOK /\ body \in Bodies /\ TypeOK'
      BY NextType DEF IInv, TypeOK
<1>2. body' = body
      BY DEF Next, Decoder, Arrive, Close, CutShort, ReadSize, SkipLine, ReadData, SkipTail, vars
<1>3. ASSUME Decodable(body)' PROVE Position'
  <2>1. Decodable(body) /\ Position
        BY <1>2, <1>3 DEF IInv
  <2>2. PICK b \in Bodies : b = body
        BY <1>1
  <2>3. PICK q, r, a, i : IsSplit(b, q, r, a) /\ At(b, q, r, a, i)
        BY <2>1, <2>2 DEF Position
  <2>4. Decodable(b)
        BY <2>1, <2>2
  <2>5. PICK j : At(b, q, r, a, j)'
        BY <1>1, <2>3, <2>4, StepPosition
  <2>6. body' = b
        BY <1>2, <2>2
  <2> QED BY <2>3, <2>5, <2>6 DEF Position
<1> QED BY <1>1, <1>3 DEF IInv

-------------------------------------------------------------------------------
(* The state of the decoder always has its shape (data_res): amount_left   *)
(* is nothing while a size is read, and something while data is.           *)
THEOREM Typing == Spec => []TypeOK
<1> QED BY InitType, NextType, PTL DEF Spec

LEMMA Invariant == Spec => []IInv
<1>1. Init => IInv
      BY InitType, InitPosition DEF IInv
<1> QED BY <1>1, NextInvariant, PTL DEF Spec

(* Of every body whose sizes read_chunk_size can read, what data() has     *)
(* returned is the payload up to some chunk, in order and with no byte     *)
(* added, however the bytes arrive and wherever they are cut short.        *)
THEOREM DecodedInOrder == Spec => [](Decodable(body) => DecodedIsPrefix)
<1>1. IInv => (Decodable(body) => DecodedIsPrefix)
  <2> SUFFICES ASSUME IInv, Decodable(body) PROVE DecodedIsPrefix
      OBVIOUS
  <2>1. PICK q, r, a, i : IsSplit(body, q, r, a) /\ At(body, q, r, a, i)
        BY DEF IInv, Position
  <2> QED BY <2>1 DEF IsSplit, At, Sent, DecodedIsPrefix, Payload
<1> QED BY <1>1, Invariant, PTL

(* Such a body is reported as ended only when all of it was decoded: a     *)
(* connection that closes early is an error and never a shorter body.      *)
THEOREM WholeAtEnd == Spec => [](Decodable(body) => EndMeansWhole)
<1>1. IInv => (Decodable(body) => EndMeansWhole)
  <2> SUFFICES ASSUME IInv, Decodable(body), stage = "end" PROVE decoded = Payload
      BY DEF EndMeansWhole
  <2>1. PICK q, r, a, i : IsSplit(body, q, r, a) /\ At(body, q, r, a, i)
        BY DEF IInv, Position
  <2> QED BY <2>1 DEF IsSplit, At, Sent, Payload
<1> QED BY <1>1, Invariant, PTL

(* Then exactly one CRLF of it was left to be read: the decoder never      *)
(* reads into the bytes of the next request.                               *)
THEOREM NextRequestKept == Spec => [](Decodable(body) => StopsBehindLastChunk)
<1>1. IInv => (Decodable(body) => StopsBehindLastChunk)
  <2> SUFFICES ASSUME IInv, Decodable(body), stage = "end" PROVE wire \o unsent = CRLF
      BY DEF StopsBehindLastChunk
  <2>1. PICK q, r, a, i : IsSplit(body, q, r, a) /\ At(body, q, r, a, i)
        BY DEF IInv, Position
  <2> QED BY <2>1 DEF At
<1> QED BY <1>1, Invariant, PTL

===============================================================================
