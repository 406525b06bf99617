---------------------------- MODULE Http11Proofs ----------------------------
(***************************************************************************)
(* Theorems about Http11Connection, for any streams of bytes and any sizes *)
(* of the peeks: what the client sends in any segments and the server      *)
(* reads in any portions.                                                  *)
(***************************************************************************)
EXTENDS Http11Connection, SequenceLemmas

-------------------------------------------------------------------------------
(* While the connection peeks, the buffer has the size of the peek and the *)
(* bytes behind the counted ones are zeros, which a read may overwrite;    *)
(* when the head is discarded, `total` is where it ends.                   *)
Positions ==
  /\ Peeking =>
       /\ Len(buffered) = PeekLen(stage)
       /\ total <= Len(buffered)
       /\ \A i \in (total + 1)..Len(buffered) : buffered[i] = Pad
  /\ stage = "discard" => total \in HeadEnds(buffered)

(* Nothing is left to be read, ever.                                       *)
Drained == closed /\ incoming = <<>>

(* The heads that were read are those of the requests that were served.  A *)
(* body with a length may take further heads with it, but then there is    *)
(* nothing left that could be parsed.                                      *)
HeadsRead == Len(Retained(consumed, Ends))

HeadsCounted ==
  /\ stage \in {"preauth", "version"} => HeadsRead = served
  /\ stage = "header" => HeadsRead = served \/ (Drained /\ total = 0)
  /\ stage = "discard" => HeadsRead + 1 = served
  /\ stage \in {"body", "respond"} /\ limit = 0 => HeadsRead = served
  /\ stage = "respond" /\ limit > 0 => Drained /\ buffered = <<>>

IInv ==
  /\ TypeOK
  /\ Positions
  /\ NothingLostOrReordered
  /\ HeadsCounted
  /\ RequestsInOrder

-------------------------------------------------------------------------------
(* Bytes and their kinds.                                                  *)
LEMMA Kinds ==
  /\ Ends \subseteq Sent /\ Sent \subseteq Bytes /\ Ends \subseteq Bytes
  /\ Pad \in Bytes /\ Pad \notin Sent /\ Pad \notin Ends
  /\ HeadByte \in Bytes /\ HeadByte \notin Ends
BY DEF Ends, Sent, Bytes, Pad, HeadByte

LEMMA SentAreBytes ==
  ASSUME NEW s \in Seq(Sent)
  PROVE  s \in Seq(Bytes)
BY Kinds, SeqMonotonic

(* Zeros at the end leave no trace.                                        *)
LEMMA PadsVanish ==
  ASSUME NEW s \in Seq(Bytes), NEW n \in 0..Len(s), NEW S, Pad \notin S,
         \A i \in (n + 1)..Len(s) : s[i] = Pad
  PROVE  Retained(s, S) = Retained(SubSeq(s, 1, n), S)
<1> DEFINE front == SubSeq(s, 1, n)
           rest == SubSeq(s, n + 1, Len(s))
<1>1. /\ front \in Seq(Bytes) /\ rest \in Seq(Bytes)
      /\ Len(rest) = Len(s) - n /\ \A i \in 1..(Len(s) - n) : rest[i] = s[n + i]
      BY FrontAndRest
<1>2. Retained(s, S) = Retained(front, S) \o Retained(rest, S)
      BY RetainedSplit
<1> HIDE DEF front, rest
<1>3. \A i \in 1..Len(rest) : rest[i] = Pad
  <2>1. Len(s) \in Nat
        OBVIOUS
  <2> QED BY <1>1, <2>1, SMTT(30)
<1>4. rest \in Seq({Pad})
      BY <1>1, <1>3
<1>5. Retained(rest, S) = <<>>
      BY <1>4, RetainedNone
<1>6. Retained(front, S) \in Seq(Bytes)
      BY <1>1, RetainedType
<1> QED BY <1>2, <1>5, <1>6, ConcatEmptySeq DEF front

(* The bytes of a head end with the only one that says so.                 *)
LEMMA OneHead ==
  ASSUME NEW s \in Seq(Bytes), NEW h \in HeadEnds(s)
  PROVE  /\ h \in 1..Len(s) /\ s[h] \in Ends
         /\ Retained(SubSeq(s, 1, h), Ends) = <<s[h]>>
<1>1. h \in 1..Len(s) /\ s[h].is = "end" /\ \A j \in 1..(h - 1) : s[j] = HeadByte
      BY DEF HeadEnds
<1>2. s[h] \in Bytes /\ s[h] \in Ends
      BY <1>1 DEF Ends
<1> DEFINE front == SubSeq(s, 1, h - 1)
<1>3. /\ front \in Seq(Bytes) /\ Len(front) = h - 1
      /\ \A i \in 1..(h - 1) : front[i] = s[i]
  <2>1. h - 1 \in 0..Len(s)
        BY <1>1
  <2> QED BY <2>1, FrontAndRest
<1>4. SubSeq(s, 1, h) = Append(front, s[h])
      BY <1>1
<1> HIDE DEF front
<1>5. front \in Seq({HeadByte})
      BY <1>1, <1>3
<1>6. Retained(front, Ends) = <<>>
      BY <1>5, Kinds, RetainedNone
<1>7. Retained(Append(front, s[h]), Ends) = Append(Retained(front, Ends), s[h])
      BY <1>2, <1>3, RetainedAppend
<1>8. Append(<<>>, s[h]) = <<s[h]>>
      OBVIOUS
<1>9. Retained(SubSeq(s, 1, h), Ends) = <<s[h]>>
      BY <1>4, <1>6, <1>7, <1>8
<1> QED BY <1>1, <1>2, <1>9

(* A head that ends in the counted bytes ends there in the whole buffer.   *)
LEMMA HeadInFront ==
  ASSUME NEW s \in Seq(Bytes), NEW n \in 0..Len(s), NEW h \in HeadEnds(SubSeq(s, 1, n))
  PROVE  h \in HeadEnds(s) /\ h <= n /\ SubSeq(s, 1, n)[h] = s[h]
<1>1. /\ Len(SubSeq(s, 1, n)) = n /\ SubSeq(s, 1, n) \in Seq(Bytes)
      /\ \A i \in 1..n : SubSeq(s, 1, n)[i] = s[i]
      BY FrontAndRest
<1>2. Len(s) \in Nat /\ n <= Len(s) /\ n \in Nat
      OBVIOUS
<1> DEFINE front == SubSeq(s, 1, n)
<1>3. h \in 1..n /\ front[h].is = "end" /\ \A j \in 1..(h - 1) : front[j] = HeadByte
      BY <1>1 DEF HeadEnds
<1> HIDE DEF front
<1>4. h \in 1..Len(s) /\ \A j \in 1..(h - 1) : j \in 1..n
      BY <1>2, <1>3
<1>5. s[h].is = "end" /\ \A j \in 1..(h - 1) : s[j] = HeadByte
      BY <1>1, <1>3, <1>4 DEF front
<1>6. h \in HeadEnds(s)
      BY <1>4, <1>5 DEF HeadEnds
<1> QED BY <1>1, <1>3, <1>6

(* Peekable::peek enlarges its buffer with zeros and never cuts it.        *)
LEMMA ResizedIs ==
  ASSUME NEW s \in Seq(Bytes), NEW size \in Nat
  PROVE  /\ Resized(s, size) \in Seq(Bytes)
         /\ Len(Resized(s, size)) = (IF Len(s) < size THEN size ELSE Len(s))
         /\ \A i \in (Len(s) + 1)..Len(Resized(s, size)) : Resized(s, size)[i] = Pad
         /\ \A S : Pad \notin S => Retained(Resized(s, size), S) = Retained(s, S)
<1> DEFINE n == IF Len(s) < size THEN size - Len(s) ELSE 0
           zeros == Times(n, Pad)
<1>1. Len(s) \in Nat /\ n \in Nat
      OBVIOUS
<1>2. Resized(s, size) = s \o zeros
      BY DEF Resized
<1> HIDE DEF n
<1>3. zeros \in Seq({Pad}) /\ Len(zeros) = n /\ \A i \in 1..n : zeros[i] = Pad
      BY <1>1 DEF Times
<1>4. zeros \in Seq(Bytes)
      BY <1>3, Kinds, SeqMonotonic
<1> HIDE DEF zeros
<1>5. s \o zeros \in Seq(Bytes) /\ Len(s \o zeros) = Len(s) + n
      BY <1>1, <1>3, <1>4
<1>6. \A i \in (Len(s) + 1)..Len(s \o zeros) : (s \o zeros)[i] = Pad
      BY <1>1, <1>3, <1>4
<1>7. Len(s) + n = IF Len(s) < size THEN size ELSE Len(s)
      BY <1>1 DEF n
<1>8. ASSUME NEW S, Pad \notin S PROVE Retained(s \o zeros, S) = Retained(s, S)
  <2>1. Retained(zeros, S) = <<>>
        BY <1>3, <1>8, RetainedNone
  <2>2. Retained(s, S) \in Seq(Bytes)
        BY RetainedType
  <2>3. Retained(s \o zeros, S) = Retained(s, S) \o Retained(zeros, S)
        BY <1>4, RetainedConcat
  <2> QED BY <2>1, <2>2, <2>3, ConcatEmptySeq
<1> QED BY <1>2, <1>5, <1>6, <1>7, <1>8

(* What the heads of the stream are, by where they are now.                *)
LEMMA HeadsAre ==
  ASSUME TypeOK, NothingLostOrReordered
  PROVE  /\ Retained(consumed, Ends) \in Seq(Bytes)
         /\ Retained(buffered, Ends) \in Seq(Bytes)
         /\ \E rest \in Seq(Bytes) :
              Heads = (Retained(consumed, Ends) \o Retained(buffered, Ends)) \o rest
<1>1. /\ consumed \in Seq(Bytes) /\ buffered \in Seq(Bytes)
      /\ incoming \in Seq(Sent) /\ unsent \in Seq(Sent)
      BY DEF TypeOK
<1> DEFINE k == consumed \o buffered
           r == Retained(k, Sent)
           rest == Retained(incoming, Ends) \o Retained(unsent, Ends)
<1>2. k \in Seq(Bytes)
      BY <1>1, ConcatProperties
<1>3. r \in Seq(Bytes) /\ incoming \in Seq(Bytes) /\ unsent \in Seq(Bytes)
      BY <1>1, <1>2, RetainedType, SentAreBytes
<1>4. Retained(r, Ends) = Retained(k, Ends)
  <2> HIDE DEF k
  <2>1. Ends \subseteq Sent
        BY Kinds
  <2>2. Retained(Retained(k, Sent), Ends) = Retained(k, Ends)
        BY <1>2, <2>1, RetainedTwice
  <2> QED BY <2>2
<1>5. Retained(k, Ends) = Retained(consumed, Ends) \o Retained(buffered, Ends)
      BY <1>1, RetainedConcat
<1>6. stream = (r \o incoming) \o unsent
      BY DEF NothingLostOrReordered
<1> HIDE DEF k, r
<1>7. Heads = (Retained(r, Ends) \o Retained(incoming, Ends)) \o Retained(unsent, Ends)
  <2>1. r \o incoming \in Seq(Bytes)
        BY <1>3, ConcatProperties
  <2>2. Retained((r \o incoming) \o unsent, Ends)
          = Retained(r \o incoming, Ends) \o Retained(unsent, Ends)
        BY <1>3, <2>1, RetainedConcat, ZenonT(60)
  <2>3. Retained(r \o incoming, Ends) = Retained(r, Ends) \o Retained(incoming, Ends)
        BY <1>3, RetainedConcat, SMTT(30)
  <2> QED BY <1>6, <2>2, <2>3 DEF Heads
<1>8. /\ Retained(consumed, Ends) \in Seq(Bytes) /\ Retained(buffered, Ends) \in Seq(Bytes)
      /\ Retained(r, Ends) \in Seq(Bytes)
      /\ Retained(incoming, Ends) \in Seq(Bytes) /\ Retained(unsent, Ends) \in Seq(Bytes)
      BY <1>1, <1>3, RetainedType
<1>9. Heads = Retained(r, Ends) \o rest /\ rest \in Seq(Bytes)
      BY <1>7, <1>8, ConcatAssociative, ConcatProperties, SMTT(30)
<1> QED BY <1>4, <1>5, <1>8, <1>9


(* Peekable::poll_read: what it hands out comes off the front of what the  *)
(* client sent and nothing else changes; an empty result for a buffer that *)
(* is not empty says that there is nothing left.                           *)
LEMMA ReadStep ==
  ASSUME TypeOK, NothingLostOrReordered, NEW size \in Nat, ReadFirst(size),
         UNCHANGED <<stream, unsent>>
  PROVE  /\ consumed' \in Seq(Bytes) /\ buffered' \in Seq(Bytes) /\ incoming' \in Seq(Sent)
         /\ Len(buffered') <= Len(buffered)
         /\ Got \in Seq(Bytes) /\ consumed' = consumed \o Got
         /\ NothingLostOrReordered'
         /\ size = 0 => Got = <<>>
         /\ size > 0 /\ Got = <<>> =>
              /\ closed /\ incoming = <<>> /\ buffered = <<>>
              /\ incoming' = <<>> /\ buffered' = <<>>
<1>1. /\ consumed \in Seq(Bytes) /\ buffered \in Seq(Bytes)
      /\ incoming \in Seq(Sent) /\ unsent \in Seq(Sent)
      BY DEF TypeOK
<1>2. ASSUME NEW got \in Seq(Bytes), consumed' = consumed \o got
      PROVE  Got = got
  <2>1. /\ Len(consumed) \in Nat /\ Len(got) \in Nat
        /\ Len(consumed') = Len(consumed) + Len(got)
        BY <1>1, <1>2, ConcatProperties
  <2>2. Got = SubSeq(consumed \o got, Len(consumed) + 1, Len(consumed) + Len(got))
        BY <1>2, <2>1 DEF Got
  <2> QED BY <1>1, <2>1, <2>2
<1>3. CASE buffered # <<>> /\ FromBuffer(size)
  <2> DEFINE n == Smaller(Len(buffered), size)
             got == SubSeq(buffered, 1, n)
             rest == SubSeq(buffered, n + 1, Len(buffered))
  <2>1. n \in 0..Len(buffered) /\ (size > 0 => n > 0) /\ (size = 0 => n = 0)
        BY <1>1, <1>3 DEF Smaller
  <2>2. consumed' = consumed \o got /\ buffered' = rest /\ incoming' = incoming
        BY <1>3 DEF FromBuffer
  <2> HIDE DEF n
  <2>3. /\ got \in Seq(Bytes) /\ rest \in Seq(Bytes) /\ Len(got) = n
        /\ Len(rest) = Len(buffered) - n
        BY <1>1, <2>1, FrontAndRest
  <2>4. consumed' \o buffered' = consumed \o buffered
        BY <1>1, <2>1, <2>2, Moved
  <2>5. NothingLostOrReordered'
        BY <2>2, <2>4 DEF NothingLostOrReordered
  <2> HIDE DEF got, rest
  <2>6. Got = got
        BY <1>2, <2>2, <2>3
  <2>7. size = 0 => got = <<>>
        BY <2>1, <2>3
  <2>8. size > 0 => got # <<>>
        BY <2>1, <2>3
  <2>9. Len(buffered') <= Len(buffered)
        BY <1>1, <2>1, <2>2, <2>3
  <2>10. consumed' \in Seq(Bytes)
        BY <1>1, <2>2, <2>3
  <2> QED BY <1>1, <2>2, <2>3, <2>5, <2>6, <2>7, <2>8, <2>9, <2>10
<1>4. CASE buffered = <<>> /\ FromSocket(size)
  <2>1. PICK n \in 1..Smaller(Len(incoming), size) :
          /\ consumed' = consumed \o SubSeq(incoming, 1, n)
          /\ incoming' = SubSeq(incoming, n + 1, Len(incoming))
        BY <1>4 DEF FromSocket
  <2> DEFINE got == SubSeq(incoming, 1, n)
             rest == SubSeq(incoming, n + 1, Len(incoming))
  <2>2. n \in 0..Len(incoming) /\ n > 0 /\ size > 0
        BY <1>1 DEF Smaller
  <2>3. got \in Seq(Sent) /\ rest \in Seq(Sent) /\ Len(got) = n /\ got \o rest = incoming
        BY <1>1, <2>2, FrontAndRest
  <2>4. consumed' = consumed \o got /\ incoming' = rest /\ buffered' = buffered
        BY <1>4, <2>1 DEF FromSocket
  <2> HIDE DEF got, rest
  <2>5. got \in Seq(Bytes)
        BY <2>3, SentAreBytes
  <2>6. Got = got /\ got # <<>>
    <3>1. Got = got
          BY <1>2, <2>4, <2>5, Zenon
    <3> QED BY <2>2, <2>3, <3>1
  <2>7. consumed' \in Seq(Bytes)
        BY <1>1, <2>4, <2>5
  <2>8. NothingLostOrReordered'
    <3> DEFINE r == Retained(consumed, Sent)
    <3>1. consumed' \o buffered' = consumed' /\ consumed \o buffered = consumed
          BY <1>1, <1>4, <2>4, <2>7, ConcatEmptySeq
    <3>2. Retained(consumed', Sent) = r \o Retained(got, Sent)
          BY <1>1, <2>4, <2>5, RetainedConcat
    <3>3. Retained(got, Sent) = got
          BY <2>3, RetainedAll
    <3>4. r \in Seq(Sent)
      <4>1. r \in Seq(Bytes \cap Sent)
            BY <1>1, RetainedType
      <4> QED BY <4>1, SeqMonotonic
    <3> HIDE DEF r
    <3>5. (r \o got) \o rest = r \o incoming
      <4>1. got \in Seq(Sent) /\ rest \in Seq(Sent)
            BY <2>3
      <4>2. (r \o got) \o rest = r \o (got \o rest)
            BY <3>4, <4>1, SMTT(30)
      <4> QED BY <2>3, <4>2, Zenon
    <3>6. stream = (r \o incoming) \o unsent
          BY <3>1 DEF NothingLostOrReordered, r
    <3>7. Retained(consumed' \o buffered', Sent) = r \o got
          BY <3>1, <3>2, <3>3
    <3>8. stream' = (Retained(consumed' \o buffered', Sent) \o incoming') \o unsent'
          BY <2>4, <3>5, <3>6, <3>7
    <3> QED BY <3>8 DEF NothingLostOrReordered
  <2> QED BY <1>1, <2>2, <2>3, <2>4, <2>5, <2>6, <2>7, <2>8
<1>5. CASE buffered = <<>> /\ FromEnd(size)
  <2>1. UNCHANGED <<buffered, incoming, consumed>> /\ (size = 0 \/ (closed /\ incoming = <<>>))
        BY <1>5 DEF FromEnd
  <2>2. consumed' = consumed \o <<>> /\ <<>> \in Seq(Bytes)
        BY <1>1, <2>1, ConcatEmptySeq, EmptySeq
  <2>3. Got = <<>>
        BY <1>2, <2>2
  <2>4. NothingLostOrReordered'
        BY <2>1 DEF NothingLostOrReordered
  <2> QED BY <1>1, <1>5, <2>1, <2>2, <2>3, <2>4
<1> QED BY <1>3, <1>4, <1>5 DEF ReadFirst

-------------------------------------------------------------------------------
(* The first state.                                                        *)
LEMMA Starts == Init => IInv
<1> SUFFICES ASSUME Init PROVE IInv
    OBVIOUS
<1> DEFINE zeros == Times(PreauthLen, Pad)
<1>1. zeros \in Seq({Pad}) /\ Len(zeros) = PreauthLen /\ \A i \in 1..PreauthLen : zeros[i] = Pad
      BY SizesAssumption DEF Times
<1>2. zeros \in Seq(Bytes)
      BY <1>1, Kinds, SeqMonotonic
<1>3. stream \in Seq(Sent) /\ <<>> \in Seq(Sent) /\ <<>> \in Seq(Bytes)
      BY StreamsAssumption, EmptySeq DEF Init
<1> HIDE DEF zeros
<1>4. /\ buffered = zeros /\ unsent = stream /\ incoming = <<>> /\ consumed = <<>>
      /\ delivered = <<>> /\ stage = "preauth" /\ total = 0 /\ limit = 0 /\ served = 0
      BY DEF Init, zeros
<1>5. closed = FALSE /\ enough = FALSE /\ knownH11 \in BOOLEAN
      BY DEF Init
<1>6. TypeOK
  <2>1. PreauthLen \in Nat /\ ParseBufSize \in Nat /\ PreauthLen <= ParseBufSize /\ 0 <= PreauthLen
        BY SizesAssumption
  <2>2. {stream, unsent, incoming} \subseteq Seq(Sent)
        BY <1>3, <1>4
  <2>3. {buffered, delivered, consumed} \subseteq Seq(Bytes)
        BY <1>2, <1>3, <1>4
  <2>4. Len(buffered) <= ParseBufSize /\ (Peeking => total <= Len(buffered))
        BY <1>1, <1>4, <2>1
  <2>5. {closed, enough, knownH11} \subseteq BOOLEAN
        BY <1>5
  <2>6. {total, limit, served} \subseteq Nat
        BY <1>4
  <2>7. stage \in {"preauth", "version", "header", "discard", "body", "respond", "done"}
        BY <1>4
  <2> QED BY <2>2, <2>3, <2>4, <2>5, <2>6, <2>7, Zenon DEF TypeOK
<1>7. Positions
  <2>1. PreauthLen \in Nat /\ 0 <= PreauthLen
        BY SizesAssumption
  <2> QED BY <1>1, <1>4, <2>1 DEF Positions, PeekLen
<1>8. NothingLostOrReordered
  <2>1. Retained(zeros, Sent) = <<>>
        BY <1>1, Kinds, RetainedNone
  <2>2. <<>> \o zeros = zeros /\ <<>> \o <<>> = <<>> /\ <<>> \o stream = stream
        BY <1>2, <1>3, ConcatEmptySeq
  <2> QED BY <1>4, <2>1, <2>2 DEF NothingLostOrReordered
<1>9. HeadsCounted
  <2>1. HeadsRead = 0
        BY <1>4, RetainedEmpty DEF HeadsRead
  <2> QED BY <1>4, <2>1 DEF HeadsCounted
<1>10. RequestsInOrder
       BY <1>4 DEF RequestsInOrder
<1> QED BY <1>6, <1>7, <1>8, <1>9, <1>10 DEF IInv

(* The client's bytes move on.                                             *)
LEMMA SendStep == IInv /\ Send => IInv'
<1> SUFFICES ASSUME IInv, Send PROVE IInv'
    OBVIOUS
<1>1. PICK n \in 1..Len(unsent) :
        /\ incoming' = incoming \o SubSeq(unsent, 1, n)
        /\ unsent' = SubSeq(unsent, n + 1, Len(unsent))
      BY DEF Send
<1>2. UNCHANGED <<stream, closed, buffered, total, enough, stage, knownH11, limit,
                  delivered, consumed, served>> /\ ~closed
      BY DEF Send
<1>3. /\ consumed \in Seq(Bytes) /\ buffered \in Seq(Bytes)
      /\ incoming \in Seq(Sent) /\ unsent \in Seq(Sent)
      BY DEF IInv, TypeOK
<1>4. n \in 0..Len(unsent)
      BY <1>3
<1> DEFINE front == SubSeq(unsent, 1, n)
<1>5. front \in Seq(Sent) /\ unsent' \in Seq(Sent)
      BY <1>1, <1>3, <1>4, FrontAndRest
<1>6. incoming' \in Seq(Sent)
      BY <1>1, <1>3, <1>5
<1>7. TypeOK'
      BY <1>2, <1>5, <1>6 DEF IInv, TypeOK, Peeking
<1>8. Positions'
      BY <1>2 DEF IInv, Positions, Peeking
<1>9. NothingLostOrReordered'
  <2> DEFINE r == Retained(consumed \o buffered, Sent)
  <2>1. r \in Seq(Sent)
    <3>1. r \in Seq(Bytes \cap Sent)
      <4>1. consumed \o buffered \in Seq(Bytes)
            BY <1>3
      <4> QED BY <4>1, RetainedType
    <3> QED BY <3>1, SeqMonotonic
  <2>2. stream = (r \o incoming) \o unsent
        BY DEF IInv, NothingLostOrReordered
  <2>3. r' = r
        BY <1>2
  <2> HIDE DEF r
  <2>4. r \o incoming \in Seq(Sent)
        BY <1>3, <2>1
  <2>5. ((r \o incoming) \o front) \o unsent' = (r \o incoming) \o unsent
        BY <1>1, <1>3, <1>4, <2>4, Moved
  <2>6. (r \o incoming) \o front = r \o incoming'
    <3> HIDE DEF front
    <3>1. (r \o incoming) \o front = r \o (incoming \o front)
      <4>1. Together(r, incoming, front)
            BY <1>3, <1>5, <2>1, Associative, Zenon
      <4> QED BY <4>1, Zenon DEF Together
    <3> QED BY <1>1, <3>1, Zenon DEF front
  <2>7. stream' = (r \o incoming') \o unsent'
        BY <1>2, <2>2, <2>5, <2>6
  <2> QED BY <2>3, <2>7 DEF NothingLostOrReordered, r
<1>10. HeadsCounted'
       BY <1>2 DEF IInv, HeadsCounted, HeadsRead, Drained
<1>11. RequestsInOrder'
       BY <1>2 DEF IInv, RequestsInOrder, Heads
<1> QED BY <1>7, <1>8, <1>9, <1>10, <1>11 DEF IInv

LEMMA CloseStep == IInv /\ Close => IInv'
<1> SUFFICES ASSUME IInv, Close PROVE IInv'
    OBVIOUS
<1>1. UNCHANGED <<stream, unsent, incoming, buffered, total, enough, stage, knownH11,
                  limit, delivered, consumed, served>>
      BY DEF Close
<1>2. closed' = TRUE /\ ~closed
      BY DEF Close
<1>3. TypeOK'
      BY <1>1, <1>2 DEF IInv, TypeOK, Peeking
<1>4. Positions'
      BY <1>1 DEF IInv, Positions, Peeking
<1>5. NothingLostOrReordered'
      BY <1>1 DEF IInv, NothingLostOrReordered
<1>6. HeadsCounted'
      BY <1>1, <1>2 DEF IInv, HeadsCounted, HeadsRead, Drained
<1>7. RequestsInOrder'
      BY <1>1 DEF IInv, RequestsInOrder, Heads
<1> QED BY <1>3, <1>4, <1>5, <1>6, <1>7 DEF IInv

(* A connection that is done keeps what was said of its bytes.             *)
LEMMA StopStep ==
  ASSUME IInv, Stop,
         UNCHANGED <<stream, unsent, incoming, closed, knownH11, limit, delivered,
                     consumed, served>>
  PROVE  IInv'
<1>1. UNCHANGED <<stream, unsent, incoming, closed, knownH11, limit, delivered,
                  consumed, served, buffered, total, enough>> /\ stage' = "done"
      BY DEF Stop
<1>2. TypeOK'
      BY <1>1 DEF IInv, TypeOK, Peeking
<1>3. Positions' /\ HeadsCounted' /\ RequestsInOrder'
      BY <1>1 DEF Positions, HeadsCounted, RequestsInOrder, Peeking
<1>4. NothingLostOrReordered'
      BY <1>1 DEF IInv, NothingLostOrReordered
<1> QED BY <1>2, <1>3, <1>4 DEF IInv

(* A look begins when every head that was read has been served, or when    *)
(* nothing is left.                                                        *)
LEMMA LookStep ==
  ASSUME IInv, NEW s \in {"version", "header"}, StartPeek(s),
         UNCHANGED <<stream, unsent, incoming, closed, knownH11, limit, delivered,
                     consumed, served>>,
         Len(buffered) <= PeekLen(s),
         HeadsRead = served \/ (s = "header" /\ Drained /\ buffered = <<>>)
  PROVE  IInv'
<1>1. /\ stage' = s /\ total' = Len(buffered)
      /\ buffered' = Resized(buffered, PeekLen(s)) /\ enough' = FALSE
      BY DEF StartPeek
<1>2. /\ consumed \in Seq(Bytes) /\ buffered \in Seq(Bytes)
      /\ Len(buffered) \in Nat
      BY DEF IInv, TypeOK
<1>3. PeekLen(s) \in Nat /\ PeekLen(s) <= ParseBufSize
      BY SizesAssumption DEF PeekLen
<1>4. /\ buffered' \in Seq(Bytes) /\ Len(buffered') = PeekLen(s)
      /\ \A i \in (Len(buffered) + 1)..Len(buffered') : buffered'[i] = Pad
      /\ Retained(buffered', Sent) = Retained(buffered, Sent)
  <2>1. /\ buffered' \in Seq(Bytes)
        /\ Len(buffered') = (IF Len(buffered) < PeekLen(s) THEN PeekLen(s) ELSE Len(buffered))
        /\ \A i \in (Len(buffered) + 1)..Len(buffered') : buffered'[i] = Pad
        /\ \A S : Pad \notin S => Retained(buffered', S) = Retained(buffered, S)
        BY <1>1, <1>2, <1>3, ResizedIs
  <2>2. Len(buffered') = PeekLen(s)
        BY <1>2, <1>3, <2>1
  <2> QED BY <2>1, <2>2, Kinds
<1>5. TypeOK'
  <2>1. total' <= Len(buffered') /\ total' \in Nat /\ Len(buffered') <= ParseBufSize
        BY <1>1, <1>2, <1>3, <1>4
  <2> QED BY <1>1, <1>4, <2>1 DEF IInv, TypeOK, Peeking
<1>6. Positions'
  <2>1. stage' # "discard" /\ PeekLen(stage') = PeekLen(s)
        BY <1>1
  <2>2. PeekLen(stage)' = PeekLen(s)
        BY <1>1 DEF PeekLen
  <2> QED BY <1>1, <1>2, <1>4, <2>1, <2>2 DEF Positions
<1>7. NothingLostOrReordered'
  <2>1. Retained(consumed \o buffered, Sent)
          = Retained(consumed, Sent) \o Retained(buffered, Sent)
        BY <1>2, RetainedConcat, ZenonT(60)
  <2>2. Retained(consumed \o buffered', Sent)
          = Retained(consumed, Sent) \o Retained(buffered', Sent)
        BY <1>2, <1>4, RetainedConcat, ZenonT(60)
  <2>3. Retained(consumed \o buffered', Sent) = Retained(consumed \o buffered, Sent)
        BY <1>4, <2>1, <2>2, Zenon
  <2> QED BY <2>3 DEF IInv, NothingLostOrReordered
<1>8. HeadsCounted'
  <2>1. HeadsRead' = HeadsRead
        BY DEF HeadsRead
  <2>2. buffered = <<>> => total' = 0
        BY <1>1
  <2> QED BY <1>1, <2>1, <2>2 DEF HeadsCounted, Drained
<1>9. RequestsInOrder'
      BY <1>1 DEF RequestsInOrder
<1> QED BY <1>5, <1>6, <1>7, <1>8, <1>9 DEF IInv

(* A read into the rest of the buffer overwrites only zeros.               *)
LEMMA PeekReadStep == IInv /\ PeekRead => IInv'
<1> SUFFICES ASSUME IInv, PeekRead PROVE IInv'
    OBVIOUS
<1>1. /\ UNCHANGED <<stream, unsent, closed, stage, knownH11, limit, delivered, consumed,
                     served>>
      /\ Peeking
      BY DEF PeekRead
<1>2. /\ consumed \in Seq(Bytes) /\ buffered \in Seq(Bytes)
      /\ incoming \in Seq(Sent) /\ total \in Nat /\ Len(buffered) \in Nat
      BY DEF IInv, TypeOK
<1>3. /\ Len(buffered) = PeekLen(stage) /\ total <= Len(buffered)
      /\ \A i \in (total + 1)..Len(buffered) : buffered[i] = Pad
      BY <1>1 DEF IInv, Positions
<1>4. RequestsInOrder' /\ PeekLen(stage)' = PeekLen(stage)
      BY <1>1 DEF RequestsInOrder, Peeking, PeekLen
<1>5. enough' \in BOOLEAN
      BY DEF PeekRead, IsEnough
<1>6. CASE /\ closed /\ incoming = <<>>
           /\ UNCHANGED <<buffered, incoming, total>>
  <2>1. TypeOK'
        BY <1>1, <1>5, <1>6 DEF IInv, TypeOK, Peeking
  <2>2. Positions'
        BY <1>1, <1>6 DEF IInv, Positions, Peeking, PeekLen
  <2>3. NothingLostOrReordered'
        BY <1>1, <1>6 DEF IInv, NothingLostOrReordered
  <2>4. HeadsCounted'
        BY <1>1, <1>6 DEF IInv, HeadsCounted, HeadsRead, Drained
  <2> QED BY <1>4, <2>1, <2>2, <2>3, <2>4 DEF IInv
<1>7. ASSUME NEW n \in 1..Len(incoming),
             total + n <= Len(buffered),
             buffered' = SubSeq(buffered, 1, total) \o SubSeq(incoming, 1, n)
                           \o SubSeq(buffered, total + n + 1, Len(buffered)),
             incoming' = SubSeq(incoming, n + 1, Len(incoming)),
             total' = total + n
      PROVE  IInv'
  <2> DEFINE front == SubSeq(buffered, 1, total)
             got   == SubSeq(incoming, 1, n)
             zeros == SubSeq(buffered, total + n + 1, Len(buffered))
             left  == SubSeq(incoming, n + 1, Len(incoming))
  <2>1. n \in Nat /\ n > 0 /\ n \in 0..Len(incoming) /\ total \in 0..Len(buffered)
        /\ total + n \in 0..Len(buffered)
        BY <1>2, <1>3, <1>7
  <2>2. front \in Seq(Bytes) /\ Len(front) = total
        BY <1>2, <2>1, FrontAndRest
  <2>3. got \in Seq(Sent) /\ Len(got) = n /\ left \in Seq(Sent)
        BY <1>2, <2>1, FrontAndRest
  <2>4. /\ zeros \in Seq(Bytes) /\ Len(zeros) = Len(buffered) - (total + n)
        /\ \A i \in 1..(Len(buffered) - (total + n)) : zeros[i] = buffered[(total + n) + i]
        BY <1>2, <2>1, FrontAndRest
  <2>5. zeros \in Seq({Pad})
    <3>1. ASSUME NEW i \in 1..(Len(buffered) - (total + n)) PROVE zeros[i] = Pad
      <4>1. zeros[i] = buffered[(total + n) + i]
            BY <2>4
      <4>2. (total + n) + i \in (total + 1)..Len(buffered)
        <5>1. \A t, l, j \in Nat : j \in 1..(l - (t + n)) => (t + n) + j \in (t + 1)..l
              BY <2>1
        <5> QED BY <1>2, <2>1, <5>1
      <4> QED BY <1>3, <4>1, <4>2
    <3> HIDE DEF zeros
    <3> QED BY <2>4, <3>1
  <2>6. buffered' = (front \o got) \o zeros /\ incoming' = left
        BY <1>7
  <2>7. /\ Retained(buffered, Sent) = Retained(front, Sent)
        BY <1>2, <1>3, <2>1, Kinds, PadsVanish
  <2> HIDE DEF front, got, zeros, left
  <2>8. got \in Seq(Bytes)
        BY <2>3, SentAreBytes
  <2>9. front \o got \in Seq(Bytes) /\ Len(front \o got) = total + n
        BY <1>2, <2>1, <2>2, <2>3, <2>8, ConcatProperties
  <2>10. /\ buffered' \in Seq(Bytes) /\ Len(buffered') = Len(buffered)
         /\ \A i \in (total' + 1)..Len(buffered') : buffered'[i] = Pad
    <3> DEFINE fg == front \o got
               m  == total + n
    <3>1. fg \in Seq(Bytes) /\ Len(fg) = m /\ m \in Nat /\ buffered' = fg \o zeros
          BY <1>2, <2>1, <2>6, <2>9
    <3>2. Len(zeros) = Len(buffered) - m /\ Len(zeros) \in Nat
          BY <2>4
    <3> HIDE DEF fg, m
    <3>3. /\ buffered' \in Seq(Bytes) /\ Len(buffered') = m + Len(zeros)
          /\ \A i \in 1..(m + Len(zeros)) :
               buffered'[i] = IF i <= m THEN fg[i] ELSE zeros[i - m]
          BY <2>4, <3>1, ConcatProperties
    <3>4. Len(buffered') = Len(buffered)
          BY <1>2, <3>1, <3>2, <3>3
    <3>5. \A i \in 1..Len(zeros) : zeros[i] = Pad
          BY <2>5
    <3>6. ASSUME NEW i \in (m + 1)..(m + Len(zeros)) PROVE buffered'[i] = Pad
      <4>1. i - m \in 1..Len(zeros) /\ ~(i <= m) /\ i \in 1..(m + Len(zeros))
            BY <3>1, <3>2
      <4> QED BY <3>3, <3>5, <4>1
    <3> QED BY <1>7, <3>3, <3>4, <3>6 DEF m
  <2>11. TypeOK'
    <3>1. total' <= Len(buffered') /\ total' \in Nat
      <4>1. total + n \in Nat
            BY <1>2, <2>1
      <4> QED BY <1>7, <2>10, <4>1
    <3>2. Len(buffered') <= ParseBufSize
          BY <2>10 DEF IInv, TypeOK
    <3> QED BY <1>1, <1>5, <2>3, <2>6, <2>10, <3>1, <3>2 DEF IInv, TypeOK
  <2>12. Positions'
    <3>1. stage # "discard" /\ stage' = stage
          BY <1>1 DEF Peeking
    <3>2. total' <= Len(buffered')
          BY <1>7, <2>10
    <3> QED BY <1>3, <1>4, <2>10, <3>1, <3>2 DEF Positions
  <2>13. NothingLostOrReordered'
    <3> DEFINE c == Retained(consumed, Sent)
               f == Retained(front, Sent)
    <3>1. c \in Seq(Sent) /\ f \in Seq(Sent)
      <4>1. c \in Seq(Bytes \cap Sent) /\ f \in Seq(Bytes \cap Sent)
            BY <1>2, <2>2, RetainedType
      <4> QED BY <4>1, SeqMonotonic
    <3>2. Retained(consumed \o buffered, Sent) = c \o f
          BY <1>2, <2>7, RetainedConcat
    <3>3. Retained(consumed \o buffered', Sent) = c \o Retained(buffered', Sent)
          BY <1>2, <2>10, RetainedConcat
    <3>4. Retained(buffered', Sent) = f \o got
      <4>1. Retained(zeros, Sent) = <<>>
            BY <2>5, Kinds, RetainedNone
      <4>2. Retained(got, Sent) = got
            BY <2>3, RetainedAll
      <4>3. Retained(buffered', Sent) = Retained(front \o got, Sent) \o Retained(zeros, Sent)
            BY <2>4, <2>6, <2>9, RetainedConcat
      <4>4. Retained(front \o got, Sent) = f \o got
        <5>1. front \in Seq(Bytes)
              BY <2>2
        <5>2. Retained(front \o got, Sent) = Retained(front, Sent) \o Retained(got, Sent)
              BY <5>1, <2>8, RetainedConcat
        <5> QED BY <4>2, <5>2, Zenon
      <4> HIDE DEF f
      <4>5. (f \o got) \o <<>> = f \o got
        <5>1. f \o got \in Seq(Sent)
              BY <2>3, <3>1
        <5> QED BY <5>1, ConcatEmptySeq
      <4> QED BY <4>1, <4>3, <4>4, <4>5
    <3> HIDE DEF c, f
    <3>5. got \o left = incoming
          BY <1>2, <2>1, FrontAndRest DEF got, left
    <3>6. (c \o (f \o got)) \o left = (c \o f) \o incoming
      <4>1. (c \o (f \o got)) \o left = (c \o f) \o (got \o left)
            BY <2>3, <3>1, SMTT(30)
      <4> QED BY <3>5, <4>1, Zenon
    <3>7. stream = ((c \o f) \o incoming) \o unsent
          BY <3>2 DEF IInv, NothingLostOrReordered
    <3>8. stream' = ((c \o (f \o got)) \o incoming') \o unsent'
          BY <1>1, <2>6, <3>6, <3>7
    <3>9. Retained(consumed' \o buffered', Sent) = c \o (f \o got)
          BY <1>1, <3>3, <3>4
    <3> QED BY <3>8, <3>9 DEF NothingLostOrReordered
  <2>14. HeadsCounted'
    <3>1. ~Drained
          BY <1>2, <2>1 DEF Drained
    <3>2. HeadsRead = served
          BY <1>1, <3>1 DEF IInv, HeadsCounted, Peeking
    <3>3. HeadsRead' = served' /\ stage' \in {"preauth", "version", "header"}
          BY <1>1, <3>2 DEF HeadsRead, Peeking
    <3> QED BY <3>3 DEF HeadsCounted
  <2> QED BY <1>4, <2>11, <2>12, <2>13, <2>14 DEF IInv
<1> QED BY <1>6, <1>7 DEF PeekRead

LEMMA AfterPreauthStep == IInv /\ AfterPreauth => IInv'
<1> SUFFICES ASSUME IInv, AfterPreauth PROVE IInv'
    OBVIOUS
<1>1. /\ stage = "preauth"
      /\ Stop \/ StartPeek("header") \/ StartPeek("version")
      /\ UNCHANGED <<stream, unsent, incoming, closed, knownH11, limit, delivered, consumed,
                     served>>
      BY DEF AfterPreauth
<1>2. Len(buffered) = PreauthLen /\ HeadsRead = served
      BY <1>1 DEF IInv, Positions, HeadsCounted, Peeking, PeekLen
<1>3. Len(buffered) <= PeekLen("header") /\ Len(buffered) <= PeekLen("version")
      BY <1>2, SizesAssumption DEF PeekLen
<1> QED BY <1>1, <1>2, <1>3, StopStep, LookStep

LEMMA AfterVersionStep == IInv /\ AfterVersion => IInv'
<1> SUFFICES ASSUME IInv, AfterVersion PROVE IInv'
    OBVIOUS
<1>1. /\ stage = "version"
      /\ Stop \/ StartPeek("header")
      /\ UNCHANGED <<stream, unsent, incoming, closed, knownH11, limit, delivered, consumed,
                     served>>
      BY DEF AfterVersion
<1>2. Len(buffered) = PrefaceLen /\ HeadsRead = served
      BY <1>1 DEF IInv, Positions, HeadsCounted, Peeking, PeekLen
<1>3. Len(buffered) <= PeekLen("header")
      BY <1>2, SizesAssumption DEF PeekLen
<1> QED BY <1>1, <1>2, <1>3, StopStep, LookStep

LEMMA RespondStep == IInv /\ Respond => IInv'
<1> SUFFICES ASSUME IInv, Respond PROVE IInv'
    OBVIOUS
<1>1. /\ stage = "respond" /\ StartPeek("header")
      /\ UNCHANGED <<stream, unsent, incoming, closed, knownH11, limit, delivered, consumed,
                     served>>
      BY DEF Respond
<1>2. limit \in Nat /\ Len(buffered) <= PeekLen("header")
      BY DEF IInv, TypeOK, PeekLen
<1>3. HeadsRead = served \/ (Drained /\ buffered = <<>>)
      BY <1>1, <1>2 DEF IInv, HeadsCounted
<1> QED BY <1>1, <1>2, <1>3, LookStep

LEMMA FailStep == IInv /\ Fail => IInv'
BY StopStep DEF Fail

LEMMA PeekFailsStep == IInv /\ PeekFails => IInv'
BY StopStep DEF PeekFails

(* A head that is complete is the next one of the client's, since all      *)
(* those before it were read.                                              *)
LEMMA AfterHeaderStep == IInv /\ AfterHeader => IInv'
<1> SUFFICES ASSUME IInv, AfterHeader PROVE IInv'
    OBVIOUS
<1> DEFINE peeked == SubSeq(buffered, 1, total)
           h == HeadLength(peeked)
<1>1. UNCHANGED <<stream, unsent, incoming, closed, knownH11, delivered, consumed>>
      /\ stage = "header"
      BY DEF AfterHeader
<1>2. CASE Parsed(peeked) # Complete
  <2>1. Stop /\ UNCHANGED <<limit, served>>
        BY <1>2 DEF AfterHeader
  <2> QED BY <1>1, <2>1, StopStep
<1>3. CASE Parsed(peeked) = Complete
  <2>1. /\ stage' = "discard" /\ total' = h /\ limit' = peeked[h].length
        /\ served' = served + 1 /\ UNCHANGED <<buffered, enough>>
        BY <1>3 DEF AfterHeader
  <2>2. /\ buffered \in Seq(Bytes) /\ consumed \in Seq(Bytes)
        /\ served \in Nat /\ total \in 0..Len(buffered)
        BY <1>1 DEF IInv, TypeOK, Peeking
  <2>3. HeadEnds(peeked) # {}
        BY <1>3 DEF Parsed, Complete, Partial, ParseError
  <2>4. h \in HeadEnds(peeked)
        BY <2>3 DEF HeadLength
  <2> HIDE DEF h
  <2>5. h \in HeadEnds(buffered) /\ h <= total /\ peeked[h] = buffered[h]
        BY <2>2, <2>4, HeadInFront
  <2>6. /\ h \in 1..Len(buffered) /\ buffered[h] \in Ends
        /\ Retained(SubSeq(buffered, 1, h), Ends) = <<buffered[h]>>
        BY <2>2, <2>5, OneHead
  <2> HIDE DEF peeked
  <2>7. limit' = buffered[h].length /\ limit' \in Nat
        BY <2>1, <2>5, <2>6 DEF Ends, Bytes
  <2>8. h \in Nat /\ h <= Len(buffered)
        BY <2>2, <2>6
  <2>9. HeadsRead = served
    <3>1. total # 0
          BY <2>2, <2>5, <2>6
    <3> QED BY <1>1, <3>1 DEF IInv, HeadsCounted
  <2>10. TypeOK'
        BY <1>1, <2>1, <2>2, <2>7, <2>8 DEF IInv, TypeOK, Peeking
  <2>11. Positions'
        BY <2>1, <2>5 DEF Positions, Peeking
  <2>12. NothingLostOrReordered'
        BY <1>1, <2>1 DEF IInv, NothingLostOrReordered
  <2>13. HeadsCounted'
    <3>1. HeadsRead' = HeadsRead
          BY <1>1 DEF HeadsRead
    <3> QED BY <2>1, <2>9, <3>1 DEF HeadsCounted
  <2>14. served' <= Len(Heads) /\ Heads[served'] = buffered[h]
    <3> DEFINE c == Retained(consumed, Ends)
               b == Retained(buffered, Ends)
               later == Retained(SubSeq(buffered, h + 1, Len(buffered)), Ends)
    <3>1. PICK rest \in Seq(Bytes) : Heads = (c \o b) \o rest
          BY HeadsAre DEF IInv
    <3>2. h \in 0..Len(buffered)
          BY <2>6
    <3>3. b = <<buffered[h]>> \o later
          BY <2>2, <2>6, <3>2, RetainedSplit
    <3>4. c \in Seq(Bytes) /\ later \in Seq(Bytes) /\ buffered[h] \in Bytes
      <4>1. SubSeq(buffered, h + 1, Len(buffered)) \in Seq(Bytes)
            BY <2>2, <3>2, FrontAndRest
      <4> QED BY <2>2, <2>6, <4>1, Kinds, RetainedType
    <3>5. Len(c) = served
          BY <2>9 DEF HeadsRead
    <3> HIDE DEF c, b, later
    <3>6. b \in Seq(Bytes) /\ Len(b) = Len(later) + 1 /\ b[1] = buffered[h]
          BY <3>3, <3>4
    <3>7. /\ c \o b \in Seq(Bytes) /\ Len(c \o b) = (served + Len(later)) + 1
          /\ (c \o b)[served + 1] = buffered[h]
      <4>1. /\ c \o b \in Seq(Bytes) /\ Len(c \o b) = Len(c) + Len(b)
            /\ \A i \in 1..(Len(c) + Len(b)) :
                 (c \o b)[i] = IF i <= Len(c) THEN c[i] ELSE b[i - Len(c)]
            BY <3>4, <3>6, ConcatProperties
      <4>2. Len(later) \in Nat
            BY <3>4
      <4>3. served + 1 \in 1..(Len(c) + Len(b)) /\ ~(served + 1 <= Len(c))
            /\ (served + 1) - Len(c) = 1
            BY <2>2, <3>5, <3>6, <4>2
      <4>4. (c \o b)[served + 1] = b[1]
            BY <4>1, <4>3
      <4> QED BY <2>2, <3>5, <3>6, <4>1, <4>2, <4>4
    <3> DEFINE cb == c \o b
    <3> HIDE DEF cb
    <3>8. Len(later) \in Nat /\ served + 1 <= Len(cb) /\ cb \in Seq(Bytes) /\ cb[served + 1] = buffered[h]
          BY <2>2, <3>4, <3>7 DEF cb
    <3>9. served + 1 <= Len(cb \o rest) /\ (cb \o rest)[served + 1] = buffered[h]
          BY <2>2, <3>8
    <3> QED BY <2>1, <3>1, <3>9 DEF cb
  <2>15. RequestsInOrder'
    <3>1. Heads' = Heads
          BY <1>1 DEF Heads
    <3> QED BY <2>1, <2>7, <2>14, <3>1 DEF RequestsInOrder
  <2> QED BY <2>10, <2>11, <2>12, <2>13, <2>15 DEF IInv
<1> QED BY <1>2, <1>3

(* The one read that discards the head takes all of it and no more: the    *)
(* head is in the buffer, and the read is as long.                         *)
LEMMA DiscardStep == IInv /\ Discard => IInv'
<1> SUFFICES ASSUME IInv, Discard PROVE IInv'
    OBVIOUS
<1>1. /\ stage = "discard" /\ ReadFirst(total) /\ stage' = "body" /\ delivered' = <<>>
      /\ UNCHANGED <<stream, unsent, closed, total, enough, knownH11, limit, served>>
      BY DEF Discard
<1>2. /\ buffered \in Seq(Bytes) /\ consumed \in Seq(Bytes) /\ total \in Nat
      /\ Len(buffered) <= ParseBufSize
      /\ total \in HeadEnds(buffered)
      BY <1>1 DEF IInv, TypeOK, Positions
<1>3. /\ total \in 1..Len(buffered) /\ buffered[total] \in Ends
      /\ Retained(SubSeq(buffered, 1, total), Ends) = <<buffered[total]>>
      BY <1>2, OneHead
<1>4. /\ consumed' \in Seq(Bytes) /\ buffered' \in Seq(Bytes) /\ incoming' \in Seq(Sent)
      /\ Len(buffered') <= Len(buffered) /\ NothingLostOrReordered'
      BY <1>1, <1>2, ReadStep DEF IInv
<1> DEFINE head == SubSeq(buffered, 1, total)
<1>5. consumed' = consumed \o head
  <2>1. buffered # <<>>
        BY <1>3
  <2>2. Smaller(Len(buffered), total) = total
        BY <1>2, <1>3 DEF Smaller
  <2> QED BY <1>1, <2>1, <2>2 DEF ReadFirst, FromBuffer
<1>6. head \in Seq(Bytes) /\ Len(head) = total /\ head[total] = buffered[total]
      BY <1>2, <1>3, FrontAndRest
<1> HIDE DEF head
<1>7. HeadsRead' = HeadsRead + 1
  <2>1. Retained(consumed \o head, Ends) = Retained(consumed, Ends) \o <<buffered[total]>>
    <3>1. Retained(consumed \o head, Ends) = Retained(consumed, Ends) \o Retained(head, Ends)
          BY <1>2, <1>6, RetainedConcat
    <3>2. Retained(head, Ends) = <<buffered[total]>>
          BY <1>3 DEF head
    <3> QED BY <3>1, <3>2
  <2>2. Retained(consumed, Ends) \in Seq(Bytes) /\ buffered[total] \in Bytes
        BY <1>2, <1>3, Kinds, RetainedType
  <2>3. Len(Retained(consumed \o head, Ends)) = Len(Retained(consumed, Ends)) + 1
        BY <2>1, <2>2
  <2> QED BY <1>5, <2>3 DEF HeadsRead
<1>8. TypeOK'
  <2>1. Len(buffered') <= ParseBufSize
        BY <1>2, <1>4, SizesAssumption
  <2>2. <<>> \in Seq(Bytes)
        BY EmptySeq
  <2> QED BY <1>1, <1>4, <2>1, <2>2 DEF IInv, TypeOK, Peeking
<1>9. Positions'
      BY <1>1 DEF Positions, Peeking
<1>10. HeadsCounted'
  <2>1. HeadsRead + 1 = served
        BY <1>1 DEF IInv, HeadsCounted
  <2> QED BY <1>1, <1>7, <2>1 DEF HeadsCounted
<1>11. RequestsInOrder'
  <2>1. served <= Len(Heads) /\ limit = Heads[served].length /\ Heads' = Heads
        BY <1>1 DEF IInv, RequestsInOrder, Heads
  <2>2. consumed' # <<>> /\ Last(consumed').is = "end"
    <3>1. Len(consumed') = Len(consumed) + total /\ consumed'[Len(consumed) + total] = head[total]
      <4>1. /\ Len(consumed \o head) = Len(consumed) + Len(head)
            /\ \A i \in 1..(Len(consumed) + Len(head)) :
                 (consumed \o head)[i]
                   = IF i <= Len(consumed) THEN consumed[i] ELSE head[i - Len(consumed)]
            BY <1>2, <1>6, ConcatProperties
      <4>2. Len(consumed) \in Nat /\ total \in Nat /\ total > 0
            BY <1>2, <1>3
      <4>3. /\ Len(consumed) + total \in 1..(Len(consumed) + total)
            /\ ~(Len(consumed) + total <= Len(consumed))
            /\ (Len(consumed) + total) - Len(consumed) = total
            BY <4>2
      <4> QED BY <1>5, <1>6, <4>1, <4>3
    <3>2. head[total].is = "end"
          BY <1>3, <1>6 DEF Ends
    <3>3. Last(consumed') = head[total]
          BY <3>1 DEF Last
    <3>4. consumed' # <<>>
          BY <1>2, <1>3, <3>1
    <3> QED BY <3>2, <3>3, <3>4
  <2> QED BY <1>1, <2>1, <2>2 DEF RequestsInOrder
<1> QED BY <1>4, <1>8, <1>9, <1>10, <1>11 DEF IInv

(* A read of the body; the first empty one ends it.                        *)
LEMMA ReadBodyStep == IInv /\ ReadBody => IInv'
<1> SUFFICES ASSUME IInv, ReadBody PROVE IInv'
    OBVIOUS
<1> DEFINE size == Smaller(limit, ParseBufSize)
<1>1. /\ stage = "body" /\ ReadFirst(size) /\ delivered' = delivered \o Got
      /\ stage' = IF Got = <<>> THEN "respond" ELSE "body"
      /\ UNCHANGED <<stream, unsent, closed, total, enough, knownH11, limit, served>>
      BY DEF ReadBody
<1>2. limit \in Nat /\ size \in Nat /\ (limit > 0 => size > 0) /\ (limit = 0 => size = 0)
      BY SizesAssumption DEF IInv, TypeOK, Smaller
<1> HIDE DEF size
<1>3. /\ consumed' \in Seq(Bytes) /\ buffered' \in Seq(Bytes) /\ incoming' \in Seq(Sent)
      /\ Len(buffered') <= Len(buffered)
      /\ Got \in Seq(Bytes) /\ consumed' = consumed \o Got
      /\ NothingLostOrReordered'
      /\ size = 0 => Got = <<>>
      /\ size > 0 /\ Got = <<>> =>
              /\ closed /\ incoming = <<>> /\ buffered = <<>>
              /\ incoming' = <<>> /\ buffered' = <<>>
      BY <1>1, <1>2, ReadStep DEF IInv
<1>4. consumed \in Seq(Bytes) /\ delivered \in Seq(Bytes) /\ buffered \in Seq(Bytes)
      /\ Len(buffered) <= ParseBufSize
      BY DEF IInv, TypeOK
<1> DEFINE got == Got
<1> HIDE DEF got
<1>5. got \in Seq(Bytes) /\ delivered' = delivered \o got /\ consumed' = consumed \o got
      BY <1>1, <1>3 DEF got
<1>6. TypeOK'
  <2>1. Len(buffered') <= ParseBufSize
        BY <1>3, <1>4, SizesAssumption
  <2>2. delivered' \in Seq(Bytes)
        BY <1>4, <1>5, ConcatProperties
  <2>3. stage' \in {"body", "respond"}
        BY <1>1
  <2> QED BY <1>1, <1>3, <2>1, <2>2, <2>3 DEF IInv, TypeOK, Peeking
<1>7. Positions'
  <2>1. stage' \in {"body", "respond"}
        BY <1>1
  <2> QED BY <2>1 DEF Positions, Peeking
<1>8. HeadsCounted'
  <2>1. stage' \in {"body", "respond"} /\ limit' = limit /\ served' = served
        BY <1>1
  <2>2. limit = 0 => HeadsRead' = served
    <3>1. SUFFICES ASSUME limit = 0 PROVE HeadsRead' = served
          OBVIOUS
    <3>2. got = <<>>
          BY <1>2, <1>3, <3>1 DEF got
    <3>3. consumed' = consumed
          BY <1>4, <1>5, <3>2, ConcatEmptySeq
    <3> QED BY <1>1, <3>1, <3>3 DEF IInv, HeadsCounted, HeadsRead
  <2>3. stage' = "respond" /\ limit > 0 => Drained' /\ buffered' = <<>>
        BY <1>1, <1>2, <1>3 DEF Drained
  <2> QED BY <2>1, <2>2, <2>3 DEF HeadsCounted
<1>9. RequestsInOrder'
  <2>1. served' <= Len(Heads') /\ limit' = Heads'[served'].length
        BY <1>1 DEF IInv, RequestsInOrder, Heads
  <2>2. stage' = "body" => delivered' # <<>>
    <3>1. stage' = "body" => got # <<>>
          BY <1>1 DEF got
    <3> QED BY <1>4, <1>5, <3>1, ConcatEqualIffEmpty
  <2>3. stage' # "discard"
        BY <1>1
  <2> QED BY <2>1, <2>2, <2>3 DEF RequestsInOrder
<1> QED BY <1>3, <1>6, <1>7, <1>8, <1>9 DEF IInv

-------------------------------------------------------------------------------
(* Every step keeps the invariant.                                         *)
LEMMA Inductive == IInv /\ [Next]_vars => IInv'
<1> SUFFICES ASSUME IInv, [Next]_vars PROVE IInv'
    OBVIOUS
<1>1. CASE UNCHANGED vars
  <2>1. TypeOK'
        BY <1>1 DEF IInv, TypeOK, Peeking, vars
  <2>2. Positions'
        BY <1>1 DEF IInv, Positions, Peeking, PeekLen, vars
  <2>3. NothingLostOrReordered' /\ RequestsInOrder'
        BY <1>1 DEF IInv, NothingLostOrReordered, RequestsInOrder, Heads, vars
  <2>4. HeadsCounted'
        BY <1>1 DEF IInv, HeadsCounted, HeadsRead, Drained, vars
  <2> QED BY <2>1, <2>2, <2>3, <2>4 DEF IInv
<1>2. CASE Server
      BY <1>2, PeekReadStep, AfterPreauthStep, AfterVersionStep, AfterHeaderStep,
         DiscardStep, ReadBodyStep, RespondStep DEF Server
<1>3. CASE Send \/ Close \/ PeekFails \/ Fail
      BY <1>3, SendStep, CloseStep, PeekFailsStep, FailStep
<1> QED BY <1>1, <1>2, <1>3 DEF Next

LEMMA Always == Spec => []IInv
BY Starts, Inductive, PTL DEF Spec

(* The state has its shape, and the buffer of a connection never grows     *)
(* beyond the longest peek (src/peek.rs).                                  *)
THEOREM Typing == Spec => []TypeOK
<1>1. IInv => TypeOK
      BY DEF IInv
<1> QED BY <1>1, Always, PTL

(* Peekable neither loses nor doubles nor swaps a byte of the client, for  *)
(* any segments, any reads and any requests on one connection.             *)
THEOREM StreamKept == Spec => []NothingLostOrReordered
<1>1. IInv => NothingLostOrReordered
      BY DEF IInv
<1> QED BY <1>1, Always, PTL

(* The slice of the peeked bytes fits the caller's buffer whenever a peek  *)
(* ends, whatever an earlier peek left behind.                             *)
THEOREM SliceFits == Spec => []PeekFits
<1>1. IInv => PeekFits
      BY DEF IInv, Positions, PeekFits, PeekEnded
<1> QED BY <1>1, Always, PTL

(* Requests are served one by one in the client's order, each with its own *)
(* content-length, and each body starts right behind its head.             *)
THEOREM ServedInOrder == Spec => []RequestsInOrder
<1>1. IInv => RequestsInOrder
      BY DEF IInv
<1> QED BY <1>1, Always, PTL

===============================================================================
