----------------------------- MODULE ForwardProofs -----------------------------
(***************************************************************************)
(* Theorems about Forward, for any exchange, any window and any buffer for *)
(* the head: bodies of any number of frames of any size, peers that read   *)
(* in any portions, that are polled or not and that go away at any time.   *)
(***************************************************************************)
EXTENDS Forward, SequenceLemmas

(* The bytes up to m and those behind them up to k are the bytes up to k.  *)
LEMMA Continue ==
  ASSUME NEW m \in Nat, NEW k \in Nat, m <= k
  PROVE  [i \in 1..m |-> i] \o [i \in 1..(k - m) |-> m + i] = [i \in 1..k |-> i]
OBVIOUS

LEMMA DirectionsAre ==
  /\ "request" \in Directions /\ "response" \in Directions
  /\ \A d \in Directions : d = "request" \/ d = "response"
BY DEF Directions

(* The frames of a body end at or behind the end of the one before.        *)
LEMMA EndsGrow ==
  ASSUME exchange \in Exchanges, NEW d \in Directions
  PROVE  /\ Len(Frames(d)) \in Nat
         /\ \A k \in 0..Len(Frames(d)) : EndOf(d, k) \in Nat
         /\ \A j, k \in 0..Len(Frames(d)) : j <= k => EndOf(d, j) <= EndOf(d, k)
<1>1. IsBody(Frames(d))
      BY ExchangesAssumption DEF Frames, Directions
<1>2. Frames(d) \in Seq(Nat) /\ DOMAIN Frames(d) = 1..Len(Frames(d))
      BY <1>1 DEF IsBody
<1>3. \A k \in 0..Len(Frames(d)) : EndOf(d, k) \in Nat
      BY <1>2 DEF EndOf
<1>4. \A j, k \in 0..Len(Frames(d)) : j <= k => EndOf(d, j) <= EndOf(d, k)
      BY <1>1, <1>2, <1>3, SMTT(30) DEF EndOf, IsBody
<1> QED BY <1>2, <1>3, <1>4

-------------------------------------------------------------------------------
(* What TypeOK says of one direction, with the ends of its frames.         *)
LEMMA Facts ==
  ASSUME TypeOK, NEW d \in Directions
  PROVE  /\ Len(Frames(d)) \in Nat /\ arrived[d] \in Nat /\ read[d] \in Nat
         /\ read[d] <= arrived[d] /\ arrived[d] <= Len(Frames(d))
         /\ EndOf(d, read[d]) \in Nat /\ EndOf(d, arrived[d]) \in Nat
         /\ EndOf(d, Len(Frames(d))) \in Nat
         /\ EndOf(d, read[d]) <= EndOf(d, arrived[d])
         /\ EndOf(d, arrived[d]) <= EndOf(d, Len(Frames(d)))
         /\ out[d] \in Seq(Nat) /\ Len(out[d]) \in Nat
         /\ chunk[d] \in Seq(Nat) /\ Len(chunk[d]) \in Nat
         /\ released[d] \in Nat /\ taken[d] \in Nat /\ taken[d] <= Len(out[d])
         /\ released[d] + Len(chunk[d]) <= EndOf(d, read[d])
<1>1. /\ exchange \in Exchanges /\ arrived[d] \in Nat /\ read[d] \in Nat
      /\ read[d] <= arrived[d] /\ arrived[d] <= Len(Frames(d))
      /\ out[d] \in Seq(Nat) /\ chunk[d] \in Seq(Nat)
      /\ released[d] \in Nat /\ taken[d] \in Nat /\ taken[d] <= Len(out[d])
      /\ released[d] + Len(chunk[d]) <= EndOf(d, read[d])
      BY DEF TypeOK
<1>2. Len(out[d]) \in Nat /\ Len(chunk[d]) \in Nat
      BY <1>1
<1>3. /\ Len(Frames(d)) \in Nat
      /\ \A k \in 0..Len(Frames(d)) : EndOf(d, k) \in Nat
      /\ \A j, k \in 0..Len(Frames(d)) : j <= k => EndOf(d, j) <= EndOf(d, k)
      BY <1>1, EndsGrow
<1>4. /\ read[d] \in 0..Len(Frames(d)) /\ arrived[d] \in 0..Len(Frames(d))
      /\ Len(Frames(d)) \in 0..Len(Frames(d))
      BY <1>1, <1>3
<1> QED BY <1>1, <1>2, <1>3, <1>4

LEMMA TypeInit == Init => TypeOK
<1> SUFFICES ASSUME Init
             PROVE  TypeOK
    OBVIOUS
<1>1. exchange \in Exchanges /\ IsBody(exchange.request)
      BY ExchangesAssumption DEF Init
<1>2. Len(exchange.request) \in Nat /\ Len(exchange.response) \in Nat
      BY <1>1, ExchangesAssumption DEF IsBody
<1>3. \A d \in Directions : arrived[d] \in Nat /\ arrived[d] <= Len(Frames(d))
      BY <1>2 DEF Init, Directions, Frames
<1>4. \A d \in Directions :
        /\ chunk[d] \in Seq(Nat) /\ Len(chunk[d]) = 0 /\ out[d] \in Seq(Nat) /\ Len(out[d]) = 0
        /\ read[d] = 0 /\ released[d] = 0 /\ taken[d] = 0 /\ EndOf(d, read[d]) = 0
      BY DEF Init, EndOf
<1>5. /\ chunk \in [Directions -> Seq(Nat)] /\ out \in [Directions -> Seq(Nat)]
      /\ released \in [Directions -> Nat] /\ taken \in [Directions -> Nat]
      /\ read \in [Directions -> Nat] /\ finished \in [Directions -> BOOLEAN]
      BY DEF Init
<1>6. arrived \in [Directions -> Nat] /\ eos \in [Directions -> BOOLEAN]
  <2>1. PICK k \in 0..Len(exchange.request) :
          /\ arrived = [request |-> k, response |-> 0]
          /\ \E end \in BOOLEAN : eos = [d \in Directions |-> end /\ d = "request"]
        BY DEF Init
  <2>2. PICK end \in BOOLEAN : eos = [d \in Directions |-> end /\ d = "request"]
        BY <2>1
  <2>3. k \in Nat
        BY <1>2
  <2>4. arrived = [d \in Directions |-> IF d = "request" THEN k ELSE 0]
        BY <2>1 DEF Directions
  <2>5. eos \in [Directions -> BOOLEAN]
        BY <2>2
  <2> QED BY <2>3, <2>4, <2>5
<1>7. /\ exchange \in Exchanges /\ driven \subseteq Peers /\ reset \subseteq Peers
      /\ stage = "ready" /\ way \in Directions /\ headed \in BOOLEAN /\ pad \in Nat
      BY DirectionsAre DEF Init
<1>8. \A d \in Directions :
        /\ read[d] <= arrived[d] /\ arrived[d] <= Len(Frames(d))
        /\ released[d] + Len(chunk[d]) <= EndOf(d, read[d])
        /\ taken[d] <= Len(out[d])
      BY <1>3, <1>4
<1> QED BY <1>5, <1>6, <1>7, <1>8 DEF TypeOK

(* What send_data takes from the chunk at hand.                            *)
LEMMA PartSent ==
  ASSUME TypeOK, NEW n \in Capacity,
         out' = [out EXCEPT ![way] = @ \o SubSeq(chunk[way], 1, n)],
         chunk' = [chunk EXCEPT ![way] = Left(n)]
  PROVE  /\ out'[way] \in Seq(Nat) /\ chunk'[way] \in Seq(Nat)
         /\ Len(out'[way]) = Len(out[way]) + n
         /\ Len(chunk'[way]) = Len(chunk[way]) - n
<1>1. n \in 0..Len(chunk[way])
      BY DEF Capacity
<1>2. out[way] \in Seq(Nat) /\ chunk[way] \in Seq(Nat)
      BY DEF TypeOK
<1>3. /\ out'[way] = out[way] \o SubSeq(chunk[way], 1, n)
      /\ chunk'[way] = SubSeq(chunk[way], n + 1, Len(chunk[way]))
      BY DEF TypeOK, Left
<1> DEFINE s     == out[way]
           t     == chunk[way]
           front == SubSeq(t, 1, n)
           rest  == SubSeq(t, n + 1, Len(t))
<1>4. s \in Seq(Nat) /\ t \in Seq(Nat) /\ n \in 0..Len(t)
      BY <1>1, <1>2
<1> HIDE DEF s, t
<1>5. front \in Seq(Nat) /\ Len(front) = n /\ rest \in Seq(Nat) /\ Len(rest) = Len(t) - n
      BY <1>4
<1> HIDE DEF front, rest
<1>6. s \o front \in Seq(Nat) /\ Len(s \o front) = Len(s) + n
      BY <1>4, <1>5, ConcatProperties
<1>7. out'[way] = s \o front /\ chunk'[way] = rest
      BY <1>3 DEF s, t, front, rest
<1> QED BY <1>5, <1>6, <1>7 DEF s, t

(* A part that was sent, whether capacity is then released or not.         *)
LEMMA TypePart ==
  ASSUME TypeOK, NEW n \in Capacity,
         out' = [out EXCEPT ![way] = @ \o SubSeq(chunk[way], 1, n)],
         chunk' = [chunk EXCEPT ![way] = Left(n)],
         released' = released \/ released' = [released EXCEPT ![way] = @ + n],
         UNCHANGED <<exchange, read, taken>>
  PROVE  /\ out' \in [Directions -> Seq(Nat)] /\ chunk' \in [Directions -> Seq(Nat)]
         /\ released' \in [Directions -> Nat]
         /\ \A d \in Directions :
              released'[d] + Len(chunk'[d]) <= EndOf(d, read[d]) /\ taken[d] <= Len(out'[d])
<1>2. n \in 1..Len(chunk[way]) /\ n \in 0..Len(chunk[way])
      BY DEF Capacity
<1>3. /\ out'[way] \in Seq(Nat) /\ chunk'[way] \in Seq(Nat)
      /\ Len(out'[way]) = Len(out[way]) + n
      /\ Len(chunk'[way]) = Len(chunk[way]) - n
      BY PartSent
<1>4. \A d \in Directions :
        /\ out'[d] \in Seq(Nat) /\ chunk'[d] \in Seq(Nat) /\ released'[d] \in Nat
        /\ Len(out[d]) <= Len(out'[d])
        /\ released'[d] + Len(chunk'[d]) <= EndOf(d, read[d])
  <2> SUFFICES ASSUME NEW d \in Directions
               PROVE  /\ out'[d] \in Seq(Nat) /\ chunk'[d] \in Seq(Nat)
                      /\ released'[d] \in Nat /\ Len(out[d]) <= Len(out'[d])
                      /\ released'[d] + Len(chunk'[d]) <= EndOf(d, read[d])
      OBVIOUS
  <2>1. /\ released[d] \in Nat /\ Len(chunk[d]) \in Nat /\ Len(out[d]) \in Nat
        /\ released[d] + Len(chunk[d]) <= EndOf(d, read[d])
        /\ out[d] \in Seq(Nat) /\ chunk[d] \in Seq(Nat)
        BY Facts
  <2>2. EndOf(d, read[d]) \in Nat
        BY Facts
  <2>3. CASE d = way
    <3>1. released'[d] = released[d] \/ released'[d] = released[d] + n
          BY <2>3 DEF TypeOK
    <3>2. n \in Nat /\ n <= Len(chunk[d])
          BY <1>2, <2>1, <2>3
    <3>3. /\ out'[d] \in Seq(Nat) /\ chunk'[d] \in Seq(Nat)
          /\ Len(out'[d]) = Len(out[d]) + n
          /\ Len(chunk'[d]) = Len(chunk[d]) - n
          BY <1>3, <2>3
    <3>4. released'[d] \in Nat /\ released'[d] <= released[d] + n
          BY <2>1, <3>1, <3>2
    <3>5. Len(out[d]) <= Len(out'[d])
          BY <2>1, <3>2, <3>3
    <3>6. released'[d] + Len(chunk'[d]) <= EndOf(d, read[d])
          BY <2>1, <2>2, <3>2, <3>3, <3>4
    <3> QED BY <3>3, <3>4, <3>5, <3>6
  <2>4. CASE d # way
    <3>1. released'[d] = released[d] /\ out'[d] = out[d] /\ chunk'[d] = chunk[d]
          BY <2>4 DEF TypeOK
    <3>2. Len(out[d]) <= Len(out'[d])
      <4>1. Len(out'[d]) = Len(out[d])
            BY <3>1
      <4>2. Len(out[d]) \in Nat
            BY <2>1
      <4>3. \A i \in Nat : i <= i
            OBVIOUS
      <4> QED BY <4>1, <4>2, <4>3, Zenon
    <3>3. released'[d] + Len(chunk'[d]) <= EndOf(d, read[d])
          BY <2>1, <2>2, <3>1
    <3> QED BY <2>1, <3>1, <3>2, <3>3
  <2> QED BY <2>3, <2>4
<1>5. /\ out' \in [Directions -> Seq(Nat)] /\ chunk' \in [Directions -> Seq(Nat)]
      /\ released' \in [Directions -> Nat]
      BY <1>4 DEF TypeOK
<1>6. \A d \in Directions : taken[d] <= Len(out'[d])
      BY <1>4, SMTT(30) DEF TypeOK
<1> QED BY <1>4, <1>5, <1>6

LEMMA TypeStep == TypeOK /\ [Next]_vars => TypeOK'
<1> SUFFICES ASSUME TypeOK, [Next]_vars
             PROVE  TypeOK'
    OBVIOUS
<1>0. exchange \in Exchanges /\ way \in Directions
      BY DEF TypeOK
<1>1. \A d \in Directions :
        /\ Len(Frames(d)) \in Nat
        /\ \A k \in 0..Len(Frames(d)) : EndOf(d, k) \in Nat
        /\ \A j, k \in 0..Len(Frames(d)) : j <= k => EndOf(d, j) <= EndOf(d, k)
      BY <1>0, EndsGrow
<1>2. CASE Ready
  <2>1. stage' \in {"failed", "panicked", "data"}
        BY <1>2 DEF Ready, Becomes
  <2> QED BY <1>2, <2>1 DEF Ready, Becomes, streams, TypeOK, EndOf, Frames
<1>3. CASE ReadChunk
  <2> DEFINE k == read[way] + 1
  <2>1. /\ k \in 1..Len(Frames(way)) /\ k <= arrived[way]
        /\ read' = [read EXCEPT ![way] = k]
        BY <1>0, <1>3, Facts DEF ReadChunk
  <2>2. /\ k - 1 \in 0..Len(Frames(way)) /\ k - 1 = read[way] /\ k \in 0..Len(Frames(way))
        /\ k - 1 <= k
        BY <1>0, <2>1, Facts
  <2>3. EndOf(way, k - 1) <= EndOf(way, k) /\ EndOf(way, k - 1) = EndOf(way, read[way])
        /\ EndOf(way, k) \in Nat /\ EndOf(way, k - 1) \in Nat
        BY <1>0, <1>1, <2>2
  <2>4. Bytes(way, k) \in Seq(Nat)
        /\ Len(Bytes(way, k)) = EndOf(way, k) - EndOf(way, k - 1)
        BY <2>3 DEF Bytes
  <2>5. /\ chunk' = [chunk EXCEPT ![way] = Bytes(way, k)]
        /\ stage' \in {"capacity", "write", "data", "end"}
    <3>1. read'[way] = k
          BY <1>0, <2>1 DEF TypeOK
    <3> HIDE DEF k
    <3> QED BY <1>3, <3>1 DEF ReadChunk, Becomes, Full, Empty
  <2> HIDE DEF k
  <2>6. \A d \in Directions :
          /\ read'[d] \in Nat /\ read'[d] <= arrived[d] /\ chunk'[d] \in Seq(Nat)
          /\ released[d] + Len(chunk'[d]) <= EndOf(d, read'[d])
    <3> SUFFICES ASSUME NEW d \in Directions
                 PROVE  /\ read'[d] \in Nat /\ read'[d] <= arrived[d] /\ chunk'[d] \in Seq(Nat)
                        /\ released[d] + Len(chunk'[d]) <= EndOf(d, read'[d])
        OBVIOUS
    <3>1. CASE d = way
      <4>1. read'[d] = k /\ chunk'[d] = Bytes(way, k) /\ k \in Nat
            BY <3>1, <2>1, <2>5 DEF TypeOK
      <4>2. released[d] \in Nat /\ Len(chunk[d]) \in Nat
            /\ released[d] + Len(chunk[d]) <= EndOf(way, k - 1)
            BY <3>1, <2>3 DEF TypeOK
      <4> QED BY <3>1, <4>1, <4>2, <2>1, <2>3, <2>4
    <3>2. CASE d # way
      <4>1. read'[d] = read[d] /\ chunk'[d] = chunk[d]
            BY <3>2, <2>1, <2>5 DEF TypeOK
      <4> QED BY <4>1 DEF TypeOK
    <3> QED BY <3>1, <3>2
  <2>7. read' \in [Directions -> Nat] /\ chunk' \in [Directions -> Seq(Nat)]
        BY <2>1, <2>5, <2>6 DEF TypeOK
  <2> QED BY <1>3, <2>5, <2>6, <2>7 DEF ReadChunk, Becomes, TypeOK, EndOf, Frames
<1>4. CASE ReadError
      BY <1>4 DEF ReadError, Becomes, streams, TypeOK, EndOf, Frames
<1>5. CASE SendPart
  <2>1. PICK n \in Capacity :
          /\ out' = [out EXCEPT ![way] = @ \o SubSeq(chunk[way], 1, n)]
          /\ chunk' = [chunk EXCEPT ![way] = Left(n)]
          /\ released' = [released EXCEPT ![way] = IF IsH2(Source(way)) THEN @ + n ELSE @]
        BY <1>5 DEF SendPart
  <2>2. released' = released \/ released' = [released EXCEPT ![way] = @ + n]
        BY <2>1 DEF TypeOK
  <2>3. UNCHANGED <<exchange, read, taken>>
        BY <1>5 DEF SendPart, Becomes
  <2>4. stage' \in {"data", "capacity"}
        BY <1>5 DEF SendPart, Becomes
  <2> QED BY <1>5, <2>1, <2>2, <2>3, <2>4, TypePart DEF SendPart, Becomes, TypeOK, EndOf, Frames
<1>18. CASE ReleaseFails
  <2>1. PICK n \in Capacity :
          /\ out' = [out EXCEPT ![way] = @ \o SubSeq(chunk[way], 1, n)]
          /\ chunk' = [chunk EXCEPT ![way] = Left(n)]
        BY <1>18 DEF ReleaseFails
  <2>2. UNCHANGED <<exchange, read, taken, released>> /\ stage' = "failed"
        BY <1>18 DEF ReleaseFails, Becomes
  <2> QED BY <1>18, <2>1, <2>2, TypePart DEF ReleaseFails, Becomes, TypeOK, EndOf, Frames
<1>19. CASE SendDataFails
  <2>1. Sink(way) \in Peers
        BY DEF Sink, Peers
  <2> QED BY <1>19, <2>1 DEF SendDataFails, streams, TypeOK, EndOf, Frames
<1>6. CASE EndRequest
      BY <1>6 DEF EndRequest, SendEnd, Becomes, TypeOK, EndOf, Frames
<1>7. CASE AwaitError
      BY <1>7 DEF AwaitError, Becomes, streams, TypeOK, EndOf, Frames
<1>8. CASE RespondHead
      BY <1>8, DirectionsAre DEF RespondHead, Becomes, TypeOK, EndOf, Frames
<1>20. CASE RespondHead11
  <2>1. pad' \in Nat
    <3>1. Padding \in Nat
          BY ExchangesAssumption, SizesAssumption DEF Padding, TypeOK
    <3>2. pad' \in {pad, Padding}
          BY <1>20 DEF RespondHead11
    <3> QED BY <3>1, <3>2 DEF TypeOK
  <2> QED BY <1>20, <2>1, DirectionsAre DEF RespondHead11, Becomes, TypeOK, EndOf, Frames
<1>21. CASE ClosePlain
       BY <1>21 DEF ClosePlain, peers, TypeOK, EndOf, Frames
<1>9. CASE WriteChunk
  <2>1. /\ out'["response"] \in Seq(Nat) /\ chunk'["response"] \in Seq(Nat)
        /\ Len(out["response"]) <= Len(out'["response"])
        /\ Len(chunk'["response"]) <= Len(chunk["response"])
    <3>1. out["response"] \in Seq(Nat) /\ chunk["response"] \in Seq(Nat)
          BY DirectionsAre DEF TypeOK
    <3>2. /\ out'["response"] = out["response"] \o chunk["response"]
          /\ chunk'["response"] = <<>>
          BY <1>9, DirectionsAre DEF WriteChunk, TypeOK
    <3>3. \A s, t \in Seq(Nat) :
            /\ s \o t \in Seq(Nat) /\ Len(s) <= Len(s \o t)
            /\ <<>> \in Seq(Nat) /\ Len(<<>>) <= Len(t)
          OBVIOUS
    <3> QED BY <3>1, <3>2, <3>3, Zenon
  <2>2. \A d \in Directions :
          /\ out'[d] \in Seq(Nat) /\ chunk'[d] \in Seq(Nat)
          /\ Len(chunk'[d]) <= Len(chunk[d]) /\ Len(out[d]) <= Len(out'[d])
    <3> SUFFICES ASSUME NEW d \in Directions
                 PROVE  /\ out'[d] \in Seq(Nat) /\ chunk'[d] \in Seq(Nat)
                        /\ Len(chunk'[d]) <= Len(chunk[d]) /\ Len(out[d]) <= Len(out'[d])
        OBVIOUS
    <3>1. out[d] \in Seq(Nat) /\ chunk[d] \in Seq(Nat) /\ chunk["response"] \in Seq(Nat)
          BY DirectionsAre DEF TypeOK
    <3>2. d # "response" => out'[d] = out[d] /\ chunk'[d] = chunk[d]
          BY <1>9 DEF WriteChunk, TypeOK
    <3>3. CASE d = "response"
          BY <2>1, <3>3, Zenon
    <3>4. CASE d # "response"
          BY <3>1, <3>2, <3>4
    <3> QED BY <3>3, <3>4
  <2>3. \A d \in Directions :
          /\ released[d] + Len(chunk'[d]) <= EndOf(d, read[d])
          /\ taken[d] <= Len(out'[d])
    <3> SUFFICES ASSUME NEW d \in Directions
                 PROVE  /\ released[d] + Len(chunk'[d]) <= EndOf(d, read[d])
                        /\ taken[d] <= Len(out'[d])
        OBVIOUS
    <3>1. /\ released[d] \in Nat /\ taken[d] \in Nat
          /\ Len(chunk[d]) \in Nat /\ Len(out[d]) \in Nat
          /\ Len(chunk'[d]) \in Nat /\ Len(out'[d]) \in Nat
          /\ released[d] + Len(chunk[d]) <= EndOf(d, read[d])
          /\ taken[d] <= Len(out[d])
          BY <2>2, Facts
    <3>2. EndOf(d, read[d]) \in Nat
          BY Facts
    <3> QED BY <2>2, <3>1, <3>2, SMTT(30)
  <2>4. out' \in [Directions -> Seq(Nat)] /\ chunk' \in [Directions -> Seq(Nat)]
        BY <1>9, <2>2 DEF WriteChunk, TypeOK
  <2> QED BY <1>9, <2>3, <2>4 DEF WriteChunk, Becomes, TypeOK, EndOf, Frames
<1>10. CASE WriteError
       BY <1>10 DEF WriteError, Becomes, streams, TypeOK, EndOf, Frames
<1>11. CASE EndResponse
       BY <1>11 DEF EndResponse, SendEnd, Becomes, TypeOK, EndOf, Frames
<1>12. CASE ArriveHead
       BY <1>12, DirectionsAre DEF ArriveHead, peers, TypeOK, EndOf, Frames
<1>13. ASSUME NEW d \in Directions, Arrive(d)
       PROVE  TypeOK'
  <2>1. /\ arrived' = [arrived EXCEPT ![d] = @ + 1] /\ arrived[d] < Len(Frames(d))
        BY <1>13 DEF Arrive
  <2>2. arrived' \in [Directions -> Nat]
        BY <2>1, SMTT(30) DEF TypeOK
  <2>3. \A e \in Directions : read[e] <= arrived'[e] /\ arrived'[e] <= Len(Frames(e))
    <3> SUFFICES ASSUME NEW e \in Directions
                 PROVE  read[e] <= arrived'[e] /\ arrived'[e] <= Len(Frames(e))
        OBVIOUS
    <3>1. arrived'[e] = IF e = d THEN arrived[e] + 1 ELSE arrived[e]
          BY <2>1 DEF TypeOK
    <3> QED BY <2>1, <3>1, Facts
  <2> QED BY <1>13, <2>2, <2>3 DEF Arrive, peers, TypeOK, EndOf, Frames
<1>14. ASSUME NEW d \in Directions, ArriveEnd(d)
       PROVE  TypeOK'
       BY <1>14 DEF ArriveEnd, peers, TypeOK, EndOf, Frames
<1>15. ASSUME NEW d \in Directions, Take(d)
       PROVE  TypeOK'
  <2>1. PICK n \in 1..(Len(out[d]) - taken[d]) : taken' = [taken EXCEPT ![d] = @ + n]
        BY <1>15 DEF Take
  <2>2. n \in Nat /\ taken[d] + n <= Len(out[d])
        BY <2>1, Facts
  <2>3. \A e \in Directions : taken'[e] \in Nat /\ taken'[e] <= Len(out[e])
    <3> SUFFICES ASSUME NEW e \in Directions
                 PROVE  taken'[e] \in Nat /\ taken'[e] <= Len(out[e])
        OBVIOUS
    <3>1. taken'[e] = IF e = d THEN taken[e] + n ELSE taken[e]
          BY <2>1 DEF TypeOK
    <3>2. taken[e] \in Nat /\ taken[e] <= Len(out[e])
          BY DEF TypeOK
    <3> QED BY <2>2, <3>1, <3>2
  <2>4. taken' \in [Directions -> Nat]
        BY <2>1, <2>3 DEF TypeOK
  <2> QED BY <1>15, <2>3, <2>4 DEF Take, peers, TypeOK, EndOf, Frames
<1>16. ASSUME NEW peer \in Peers, Reset(peer)
       PROVE  TypeOK'
       BY <1>16 DEF Reset, streams, TypeOK, EndOf, Frames
<1>17. CASE UNCHANGED vars
       BY <1>17 DEF vars, TypeOK, EndOf, Frames
<1> QED BY <1>2, <1>3, <1>4, <1>5, <1>6, <1>7, <1>8, <1>9, <1>10, <1>11, <1>12, <1>13,
           <1>14, <1>15, <1>16, <1>17, <1>18, <1>19, <1>20, <1>21 DEF Next, Relay

(* No capacity is released for a byte that data() did not return, which h2 *)
(* would refuse, and no byte is read that was not sent (src/serv_conn.rs). *)
THEOREM Typing == Spec => []TypeOK
BY TypeInit, TypeStep, PTL DEF Spec

-------------------------------------------------------------------------------
(* Which loop the relay is in, and how far it has come.                    *)
Placed ==
  /\ stage \in {"ready", "await"} => way = "request"
  /\ stage \in {"write", "end"} => way = "response" /\ exchange.client # "h2"
  /\ stage = "capacity" => way = "request" \/ exchange.client = "h2"
  /\ stage = "await" => finished["request"]
  /\ way = "response" => headed /\ finished["request"]
  /\ finished["request"] /\ way = "request" => stage \in {"await", "failed"}
  /\ finished["response"] => stage = "done" /\ way = "response"

LEMMA ClientIs == TypeOK => exchange.client \in {"h2", "plain", "chunked"}
BY ExchangesAssumption DEF TypeOK

LEMMA PlacedStep == TypeOK /\ Placed /\ [Next]_vars => Placed'
<1> SUFFICES ASSUME TypeOK, Placed, [Next]_vars
             PROVE  Placed'
    OBVIOUS
<1> USE DEF Placed
<1>0. way \in {"request", "response"} /\ finished \in [{"request", "response"} -> BOOLEAN]
      /\ headed \in BOOLEAN /\ exchange.client \in {"h2", "plain", "chunked"}
      BY ClientIs DEF TypeOK, Directions
<1>1. CASE Ready
      BY <1>1 DEF Ready, Becomes, streams
<1>2. CASE ReadChunk
  <2>1. stage' \in {Empty, Full}
        BY <1>2 DEF ReadChunk, Becomes
  <2>2. stage' \in {"capacity", "data", "write", "end"}
        /\ (stage' = "capacity" => way = "request" \/ exchange.client = "h2")
        /\ (stage' \in {"write", "end"} => way = "response" /\ exchange.client # "h2")
        BY <1>0, <2>1 DEF Empty, Full, IsH2, Sink
  <2> QED BY <1>0, <1>2, <2>2 DEF ReadChunk, Becomes
<1>3. CASE ReadError
      BY <1>3 DEF ReadError, Becomes, streams
<1>4. CASE SendPart
  <2>1. stage = "capacity" /\ stage' \in {"data", "capacity"}
        /\ UNCHANGED <<exchange, way, headed, finished>>
        BY <1>4 DEF SendPart, Becomes
  <2> QED BY <1>0, <2>1
<1>15. CASE SendDataFails \/ ReleaseFails
  <2>1. stage = "capacity" /\ stage' = "failed"
        /\ UNCHANGED <<exchange, way, headed, finished>>
        BY <1>15 DEF SendDataFails, ReleaseFails, Becomes, streams
  <2> QED BY <1>0, <2>1
<1>5. CASE EndRequest
      BY <1>0, <1>5 DEF EndRequest, SendEnd, Becomes
<1>6. CASE AwaitError
      BY <1>6 DEF AwaitError, Becomes, streams
<1>7. CASE RespondHead \/ RespondHead11
      BY <1>0, <1>7 DEF RespondHead, RespondHead11, Becomes
<1>8. CASE WriteChunk
  <2>1. stage = "write" /\ stage' = "data" /\ UNCHANGED <<exchange, way, headed, finished>>
        BY <1>8 DEF WriteChunk, Becomes
  <2> QED BY <1>0, <2>1
<1>9. CASE WriteError
      BY <1>9 DEF WriteError, Becomes, streams
<1>10. CASE EndResponse
  <2>1. /\ way = "response" /\ stage \in {"end", "data"} /\ UNCHANGED <<exchange, way, headed>>
        /\ \/ stage' = "failed" /\ UNCHANGED finished
           \/ stage' = "done" /\ finished' = [finished EXCEPT ![way] = TRUE]
        BY <1>10 DEF EndResponse, NoMore, SendEnd, Becomes
  <2>2. finished'["request"] = finished["request"]
        BY <1>0, <2>1
  <2>3. finished'["response"] => stage' = "done"
        BY <2>1
  <2> QED BY <2>1, <2>2, <2>3
<1>11. CASE ArriveHead \/ ClosePlain
       BY <1>11 DEF ArriveHead, ClosePlain, peers
<1>12. ASSUME NEW d \in Directions, Arrive(d) \/ ArriveEnd(d) \/ Take(d)
       PROVE  Placed'
       BY <1>12 DEF Arrive, ArriveEnd, Take, peers
<1>13. ASSUME NEW peer \in Peers, Reset(peer)
       PROVE  Placed'
       BY <1>13 DEF Reset, streams
<1>14. CASE UNCHANGED vars
       BY <1>14 DEF vars
<1> QED BY <1>1, <1>2, <1>3, <1>4, <1>5, <1>6, <1>7, <1>8, <1>9, <1>10, <1>11, <1>12,
           <1>13, <1>14, <1>15 DEF Next, Relay

(* A chunk is held in the stages that send it, and of one direction only.  *)
Held ==
  /\ stage \in {"ready", "data", "end", "await", "done"} => chunk[way] = <<>>
  /\ \A d \in Directions : d # way => chunk[d] = <<>>

LEMMA HeldStep == TypeOK /\ Placed /\ Held /\ [Next]_vars => Held'
<1> SUFFICES ASSUME TypeOK, Placed, Held, [Next]_vars
             PROVE  Held'
    OBVIOUS
<1> USE DEF Held
<1>0. way \in Directions /\ chunk \in [Directions -> Seq(Nat)]
      BY DEF TypeOK
<1>1. CASE Ready
      BY <1>1 DEF Ready, Becomes, streams
<1>2. CASE ReadChunk
  <2>1. /\ chunk' = [chunk EXCEPT ![way] = Bytes(way, read'[way])]
        /\ way' = way
        /\ stage' = IF chunk'[way] = <<>> THEN Empty ELSE Full
        BY <1>2 DEF ReadChunk, Becomes
  <2>2. Full \in {"capacity", "write"}
        BY DEF Full
  <2>3. stage' \in {"ready", "data", "end", "await", "done"} => chunk'[way] = <<>>
        BY <2>1, <2>2
  <2>4. \A d \in Directions : d # way => chunk'[d] = chunk[d]
        BY <1>0, <2>1
  <2> QED BY <2>1, <2>3, <2>4
<1>3. CASE ReadError
      BY <1>3 DEF ReadError, Becomes, streams
<1>4. CASE SendPart
  <2>1. PICK n \in Capacity : chunk' = [chunk EXCEPT ![way] = Left(n)]
        BY <1>4 DEF SendPart
  <2>2. way' = way /\ stage' = IF chunk'[way] = <<>> THEN "data" ELSE "capacity"
        BY <1>4 DEF SendPart, Becomes
  <2>3. \A d \in Directions : d # way => chunk'[d] = chunk[d]
        BY <1>0, <2>1
  <2> QED BY <2>2, <2>3
<1>15. CASE SendDataFails \/ ReleaseFails
  <2>1. stage' = "failed" /\ way' = way
        BY <1>15 DEF SendDataFails, ReleaseFails, Becomes
  <2>2. chunk' = chunk \/ \E n \in Capacity : chunk' = [chunk EXCEPT ![way] = Left(n)]
        BY <1>15 DEF SendDataFails, ReleaseFails, streams
  <2>3. \A d \in Directions : d # way => chunk'[d] = chunk[d]
        BY <1>0, <2>2
  <2> QED BY <2>1, <2>3
<1>5. CASE EndRequest
      BY <1>5 DEF EndRequest, NoMore, SendEnd, Becomes
<1>6. CASE AwaitError
      BY <1>6 DEF AwaitError, Becomes, streams
<1>7. CASE RespondHead \/ RespondHead11
  <2>1. way = "request" /\ way' = "response" /\ stage = "await" /\ chunk' = chunk
        BY <1>7 DEF RespondHead, RespondHead11, Placed
  <2>2. chunk["request"] = <<>> /\ chunk["response"] = <<>>
        BY <2>1, DirectionsAre
  <2> QED BY <2>1, <2>2, DirectionsAre
<1>8. CASE WriteChunk
  <2>1. way' = way /\ way = "response" /\ chunk' = [chunk EXCEPT !["response"] = <<>>]
        BY <1>8 DEF WriteChunk, Placed, Becomes
  <2> QED BY <1>0, <2>1
<1>9. CASE WriteError
      BY <1>9 DEF WriteError, Becomes, streams
<1>10. CASE EndResponse
       BY <1>10 DEF EndResponse, NoMore, SendEnd, Becomes
<1>11. CASE ArriveHead \/ ClosePlain
       BY <1>11 DEF ArriveHead, ClosePlain
<1>12. ASSUME NEW d \in Directions, Arrive(d) \/ ArriveEnd(d) \/ Take(d)
       PROVE  Held'
       BY <1>12 DEF Arrive, ArriveEnd, Take
<1>13. ASSUME NEW peer \in Peers, Reset(peer)
       PROVE  Held'
       BY <1>13 DEF Reset, streams
<1>14. CASE UNCHANGED vars
       BY <1>14 DEF vars
<1> QED BY <1>1, <1>2, <1>3, <1>4, <1>5, <1>6, <1>7, <1>8, <1>9, <1>10, <1>11, <1>12,
           <1>13, <1>14, <1>15 DEF Next, Relay

LEMMA OrderStep == TypeOK /\ Placed /\ Held /\ BytesInOrder /\ [Next]_vars => BytesInOrder'
<1> SUFFICES ASSUME TypeOK, Placed, Held, BytesInOrder, [Next]_vars
             PROVE  BytesInOrder'
    OBVIOUS
<1>0. way \in Directions /\ chunk \in [Directions -> Seq(Nat)]
      /\ out \in [Directions -> Seq(Nat)] /\ read \in [Directions -> Nat]
      BY DEF TypeOK
<1>1. ASSUME UNCHANGED <<exchange, chunk, out, read>>
      PROVE  BytesInOrder'
      BY <1>1 DEF BytesInOrder, EndOf, Frames
<1>2. CASE ReadChunk
  <2>1. /\ read' = [read EXCEPT ![way] = @ + 1]
        /\ chunk' = [chunk EXCEPT ![way] = Bytes(way, read'[way])]
        /\ UNCHANGED <<exchange, out>>
        /\ stage = "data" /\ read[way] < arrived[way]
        BY <1>2 DEF ReadChunk, Becomes
  <2> DEFINE k == read[way] + 1
  <2>2. /\ read'[way] = k /\ k - 1 = read[way] /\ chunk[way] = <<>>
        /\ chunk'[way] = Bytes(way, k)
        BY <1>0, <2>1 DEF Held
  <2>3. EndOf(way, k - 1) \in Nat /\ EndOf(way, k) \in Nat /\ EndOf(way, k - 1) <= EndOf(way, k)
    <3>1. /\ k - 1 \in 0..Len(Frames(way)) /\ k \in 0..Len(Frames(way)) /\ k - 1 <= k
          BY <1>0, <2>1, Facts
    <3> QED BY <1>0, <3>1, EndsGrow DEF TypeOK
  <2>4. out[way] = [i \in 1..EndOf(way, k - 1) |-> i]
    <3>1. out[way] \o <<>> = [i \in 1..EndOf(way, k - 1) |-> i]
          BY <1>0, <2>2 DEF BytesInOrder
    <3>2. out[way] \in Seq(Nat)
          BY <1>0
    <3> QED BY <3>1, <3>2, ConcatEmptySeq
  <2> HIDE DEF k
  <2>5. out[way] \o chunk'[way] = [i \in 1..EndOf(way, k) |-> i]
        BY <2>2, <2>3, <2>4, Continue, SMTT(30) DEF Bytes
  <2>6. \A d \in Directions : d # way => chunk'[d] = chunk[d] /\ read'[d] = read[d]
        BY <1>0, <2>1
  <2>7. \A d \in Directions : out[d] \o chunk'[d] = [i \in 1..EndOf(d, read'[d]) |-> i]
        BY <2>2, <2>5, <2>6 DEF BytesInOrder
  <2> QED BY <2>1, <2>7, ZenonT(60) DEF BytesInOrder, EndOf, Frames
<1>3. CASE SendPart \/ ReleaseFails
  <2>1. PICK n \in Capacity :
          /\ out' = [out EXCEPT ![way] = @ \o SubSeq(chunk[way], 1, n)]
          /\ chunk' = [chunk EXCEPT ![way] = Left(n)]
        BY <1>3 DEF SendPart, ReleaseFails
  <2>2. n \in 0..Len(chunk[way]) /\ UNCHANGED <<exchange, read>>
        BY <1>3, <2>1 DEF Capacity, SendPart, ReleaseFails, Becomes
  <2>3. /\ out'[way] = out[way] \o SubSeq(chunk[way], 1, n)
        /\ chunk'[way] = SubSeq(chunk[way], n + 1, Len(chunk[way]))
        BY <1>0, <2>1 DEF Left
  <2>5. out'[way] \o chunk'[way] = out[way] \o chunk[way]
    <3>1. out[way] \in Seq(Nat) /\ chunk[way] \in Seq(Nat)
          BY <1>0
    <3>2. (out[way] \o SubSeq(chunk[way], 1, n)) \o SubSeq(chunk[way], n + 1, Len(chunk[way]))
            = out[way] \o chunk[way]
          BY <2>2, <3>1, Moved, Zenon
    <3> QED BY <2>3, <3>2, Zenon
  <2>6. \A d \in Directions : d # way => chunk'[d] = chunk[d] /\ out'[d] = out[d]
        BY <1>0, <2>1
  <2>7. \A d \in Directions : out'[d] \o chunk'[d] = out[d] \o chunk[d]
        BY <2>5, <2>6, Zenon
  <2>8. \A d \in Directions : out'[d] \o chunk'[d] = [i \in 1..EndOf(d, read[d]) |-> i]
        BY <2>7, Zenon DEF BytesInOrder
  <2> QED BY <2>2, <2>8 DEF BytesInOrder, EndOf, Frames
<1>4. CASE WriteChunk
  <2>1. /\ out' = [out EXCEPT !["response"] = @ \o chunk["response"]]
        /\ chunk' = [chunk EXCEPT !["response"] = <<>>]
        /\ UNCHANGED <<exchange, read>>
        BY <1>4 DEF WriteChunk, Becomes
  <2>2. out'["response"] = out["response"] \o chunk["response"] /\ chunk'["response"] = <<>>
        BY <1>0, <2>1, DirectionsAre
  <2>3. \A s, t \in Seq(Nat) : (s \o t) \o <<>> = s \o t
        OBVIOUS
  <2>4. out'["response"] \o chunk'["response"] = out["response"] \o chunk["response"]
    <3>1. out["response"] \in Seq(Nat) /\ chunk["response"] \in Seq(Nat)
          BY <1>0, DirectionsAre
    <3> QED BY <2>2, <2>3, <3>1, Zenon
  <2>5. \A d \in Directions : d # "response" => chunk'[d] = chunk[d] /\ out'[d] = out[d]
        BY <1>0, <2>1
  <2>6. \A d \in Directions : out'[d] \o chunk'[d] = out[d] \o chunk[d]
        BY <2>4, <2>5, Zenon
  <2>7. \A d \in Directions : out'[d] \o chunk'[d] = [i \in 1..EndOf(d, read[d]) |-> i]
        BY <2>6, Zenon DEF BytesInOrder
  <2> QED BY <2>1, <2>7 DEF BytesInOrder, EndOf, Frames
<1>5. ASSUME \/ Ready \/ ReadError \/ SendDataFails \/ EndRequest \/ AwaitError
             \/ RespondHead \/ RespondHead11 \/ WriteError \/ EndResponse \/ ArriveHead
             \/ ClosePlain
      PROVE  UNCHANGED <<exchange, chunk, out, read>>
      BY <1>5 DEF Ready, ReadError, SendDataFails, EndRequest, AwaitError, RespondHead,
                  RespondHead11, WriteError, EndResponse, ArriveHead, ClosePlain, SendEnd,
                  Becomes, streams, peers
<1>6. ASSUME NEW d \in Directions, Arrive(d) \/ ArriveEnd(d) \/ Take(d)
      PROVE  UNCHANGED <<exchange, chunk, out, read>>
      BY <1>6 DEF Arrive, ArriveEnd, Take, peers
<1>7. ASSUME NEW peer \in Peers, Reset(peer)
      PROVE  UNCHANGED <<exchange, chunk, out, read>>
      BY <1>7 DEF Reset, streams
<1>8. CASE UNCHANGED vars
      BY <1>1, <1>8 DEF vars
<1> QED BY <1>1, <1>2, <1>3, <1>4, <1>5, <1>6, <1>7, <1>8 DEF Next, Relay

(* The loops, the chunk and the bytes of each direction.                   *)
Ordered == TypeOK /\ Placed /\ Held /\ BytesInOrder

LEMMA OrderedInit == Init => Ordered
<1> SUFFICES ASSUME Init
             PROVE  Ordered
    OBVIOUS
<1>1. TypeOK
      BY TypeInit
<1>2. Placed /\ Held
      BY DirectionsAre DEF Init, Placed, Held
<1>3. \A d \in Directions : out[d] \o chunk[d] = [i \in 1..EndOf(d, read[d]) |-> i]
  <2> SUFFICES ASSUME NEW d \in Directions
               PROVE  out[d] \o chunk[d] = [i \in 1..EndOf(d, read[d]) |-> i]
      OBVIOUS
  <2>1. out[d] = <<>> /\ chunk[d] = <<>> /\ EndOf(d, read[d]) = 0
        BY DEF Init, EndOf
  <2>2. <<>> \o <<>> = [i \in 1..0 |-> i]
        OBVIOUS
  <2> QED BY <2>1, <2>2
<1> QED BY <1>1, <1>2, <1>3 DEF Ordered, BytesInOrder

LEMMA OrderedStep == Ordered /\ [Next]_vars => Ordered'
BY TypeStep, PlacedStep, HeldStep, OrderStep DEF Ordered

(* The bytes that were sent on, with those that are held, are the bytes    *)
(* that data() has returned, each once and in its place, for bodies of any *)
(* length in frames of any size (src/serv_conn.rs, src/respond.rs).        *)
THEOREM InOrder == Spec => []BytesInOrder
<1>1. Ordered => BytesInOrder
      BY DEF Ordered
<1> QED BY <1>1, OrderedInit, OrderedStep, PTL DEF Spec

-------------------------------------------------------------------------------
(* What each window lets through, and a service that never opens its own.  *)
Windows ==
  /\ \A d \in Directions :
       /\ IsH2(Source(d)) => EndOf(d, arrived[d]) <= released[d] + Window
       /\ IsH2(Sink(d)) => Len(out[d]) <= taken[d] + Window
  /\ exchange.service = "early" => taken["request"] = 0

LEMMA WindowsInit == Init => Windows
<1> SUFFICES ASSUME Init
             PROVE  Windows
    OBVIOUS
<1>1. /\ exchange \in Exchanges /\ Window \in Nat
      /\ IsBody(exchange.request) /\ IsBody(exchange.response)
      BY ExchangesAssumption, SizesAssumption DEF Init
<1>2. \A d \in Directions : released[d] = 0 /\ taken[d] = 0 /\ Len(out[d]) = 0
      BY DEF Init
<1>3. PICK k \in 0..Len(exchange.request) :
        /\ k > 0 => exchange.request[k] <= Window
        /\ arrived = [request |-> k, response |-> 0]
      BY DEF Init
<1>4. \A d \in Directions : EndOf(d, arrived[d]) <= Window
  <2>1. EndOf("request", arrived["request"]) <= Window
        BY <1>1, <1>3 DEF EndOf, Frames
  <2>2. EndOf("response", arrived["response"]) <= Window
        BY <1>1, <1>3 DEF EndOf
  <2> QED BY <2>1, <2>2, DirectionsAre
<1> QED BY <1>1, <1>2, <1>4, DirectionsAre DEF Windows

LEMMA WindowsStep == Ordered /\ Windows /\ [Next]_vars => Windows'
<1> SUFFICES ASSUME Ordered, Windows, [Next]_vars
             PROVE  Windows'
    OBVIOUS
<1> USE DEF Windows
<1>0. /\ TypeOK /\ Placed /\ way \in Directions /\ Window \in Nat
      /\ out \in [Directions -> Seq(Nat)] /\ released \in [Directions -> Nat]
      /\ taken \in [Directions -> Nat] /\ arrived \in [Directions -> Nat]
      BY SizesAssumption DEF Ordered, TypeOK
<1>1. ASSUME UNCHANGED <<exchange, arrived, out, released, taken>>
      PROVE  Windows'
      BY <1>1 DEF EndOf, Frames, IsH2
<1>2. CASE SendPart \/ ReleaseFails
  <2>1. PICK n \in Capacity :
          /\ out' = [out EXCEPT ![way] = @ \o SubSeq(chunk[way], 1, n)]
          /\ chunk' = [chunk EXCEPT ![way] = Left(n)]
          /\ \/ released' = [released EXCEPT ![way] = IF IsH2(Source(way)) THEN @ + n ELSE @]
             \/ released' = released
        BY <1>2 DEF SendPart, ReleaseFails
  <2>2. UNCHANGED <<exchange, arrived, taken>> /\ stage = "capacity"
        BY <1>2 DEF SendPart, ReleaseFails, Becomes
  <2>3. n \in Nat /\ Len(out[way]) + n <= taken[way] + Window
        BY <2>1 DEF Capacity
  <2>4. Len(out'[way]) <= taken[way] + Window
        BY <1>0, <2>1, <2>3, PartSent
  <2>5. \A d \in Directions : IsH2(Sink(d)) => Len(out'[d]) <= taken[d] + Window
    <3> SUFFICES ASSUME NEW d \in Directions, IsH2(Sink(d))
                 PROVE  Len(out'[d]) <= taken[d] + Window
        OBVIOUS
    <3>1. d # way => out'[d] = out[d]
          BY <1>0, <2>1
    <3> QED BY <2>4, <3>1
  <2>6. \A d \in Directions : released'[d] \in Nat /\ released[d] <= released'[d]
    <3> SUFFICES ASSUME NEW d \in Directions
                 PROVE  released'[d] \in Nat /\ released[d] <= released'[d]
        OBVIOUS
    <3>1. released'[d] = released[d] \/ released'[d] = released[d] + n
          BY <1>0, <2>1
    <3>2. released[d] \in Nat
          BY <1>0
    <3> QED BY <2>3, <3>1, <3>2
  <2>7. \A d \in Directions :
          IsH2(Source(d)) => EndOf(d, arrived[d]) <= released'[d] + Window
    <3> SUFFICES ASSUME NEW d \in Directions, IsH2(Source(d))
                 PROVE  EndOf(d, arrived[d]) <= released'[d] + Window
        OBVIOUS
    <3>1. /\ released[d] \in Nat /\ EndOf(d, arrived[d]) \in Nat
          /\ EndOf(d, arrived[d]) <= released[d] + Window
          BY <1>0, Facts
    <3> QED BY <1>0, <2>6, <3>1, SMTT(30)
  <2> QED BY <2>2, <2>5, <2>7 DEF EndOf, Frames, IsH2
<1>3. CASE WriteChunk
  <2>1. /\ out' = [out EXCEPT !["response"] = @ \o chunk["response"]]
        /\ UNCHANGED <<exchange, arrived, released, taken>>
        /\ exchange.client # "h2"
        BY <1>0, <1>3 DEF WriteChunk, Becomes, Placed
  <2>2. \A d \in Directions : IsH2(Sink(d)) => out'[d] = out[d]
        BY <1>0, <2>1, DirectionsAre DEF IsH2, Sink
  <2>3. \A d \in Directions : IsH2(Sink(d)) => Len(out'[d]) <= taken[d] + Window
        BY <2>2
  <2> QED BY <2>1, <2>3 DEF EndOf, Frames, IsH2
<1>4. ASSUME NEW d \in Directions, Arrive(d)
      PROVE  Windows'
  <2>1. /\ arrived' = [arrived EXCEPT ![d] = @ + 1] /\ FitsWindow(d, arrived[d] + 1)
        /\ UNCHANGED <<exchange, out, released, taken>>
        BY <1>4 DEF Arrive, peers
  <2>2. \A e \in Directions :
          IsH2(Source(e)) => EndOf(e, arrived'[e]) <= released[e] + Window
    <3> SUFFICES ASSUME NEW e \in Directions, IsH2(Source(e))
                 PROVE  EndOf(e, arrived'[e]) <= released[e] + Window
        OBVIOUS
    <3>1. CASE e = d
      <4>1. arrived'[e] = arrived[d] + 1
            BY <1>0, <2>1, <3>1
      <4> QED BY <2>1, <3>1, <4>1 DEF FitsWindow
    <3>2. CASE e # d
          BY <1>0, <2>1, <3>2
    <3> QED BY <3>1, <3>2
  <2> QED BY <2>1, <2>2 DEF EndOf, Frames, IsH2
<1>5. ASSUME NEW d \in Directions, Take(d)
      PROVE  Windows'
  <2>1. PICK n \in 1..(Len(out[d]) - taken[d]) :
          MayTake(d, n) /\ taken' = [taken EXCEPT ![d] = @ + n]
        BY <1>5 DEF Take
  <2>2. UNCHANGED <<exchange, arrived, out, released>>
        BY <1>5 DEF Take, peers
  <2>3. n \in Nat
        BY <1>0, <2>1, Facts
  <2>4. \A e \in Directions : IsH2(Sink(e)) => Len(out[e]) <= taken'[e] + Window
    <3> SUFFICES ASSUME NEW e \in Directions, IsH2(Sink(e))
                 PROVE  Len(out[e]) <= taken'[e] + Window
        OBVIOUS
    <3>1. /\ taken[e] \in Nat /\ Len(out[e]) \in Nat
          /\ Len(out[e]) <= taken[e] + Window
          BY <1>0, Facts
    <3>2. taken'[e] = IF e = d THEN taken[e] + n ELSE taken[e]
          BY <1>0, <2>1
    <3> QED BY <1>0, <2>3, <3>1, <3>2
  <2>6. exchange.service = "early" => taken'["request"] = 0
    <3>1. exchange.service = "early" => d # "request"
          BY <2>1 DEF MayTake
    <3> QED BY <1>0, <2>1, <3>1, DirectionsAre
  <2> QED BY <2>2, <2>4, <2>6 DEF EndOf, Frames, IsH2
<1>6. ASSUME \/ Ready \/ ReadChunk \/ ReadError \/ SendDataFails \/ EndRequest
             \/ AwaitError \/ RespondHead \/ RespondHead11 \/ WriteError \/ EndResponse
             \/ ArriveHead \/ ClosePlain
      PROVE  UNCHANGED <<exchange, arrived, out, released, taken>>
      BY <1>6 DEF Ready, ReadChunk, ReadError, SendDataFails, EndRequest, AwaitError,
                  RespondHead, RespondHead11, WriteError, EndResponse, ArriveHead,
                  ClosePlain, SendEnd, Becomes, streams, peers
<1>7. ASSUME NEW d \in Directions, ArriveEnd(d)
      PROVE  UNCHANGED <<exchange, arrived, out, released, taken>>
      BY <1>7 DEF ArriveEnd, peers
<1>8. ASSUME NEW peer \in Peers, Reset(peer)
      PROVE  UNCHANGED <<exchange, arrived, out, released, taken>>
      BY <1>8 DEF Reset, streams
<1>9. CASE UNCHANGED vars
      BY <1>1, <1>9 DEF vars
<1> QED BY <1>1, <1>2, <1>3, <1>4, <1>5, <1>6, <1>7, <1>8, <1>9 DEF Next, Relay

(* How much was sent on is what was read, less what is held.               *)
LEMMA Counted ==
  ASSUME TypeOK, BytesInOrder, NEW d \in Directions
  PROVE  Len(out[d]) + Len(chunk[d]) = EndOf(d, read[d])
<1>1. /\ out[d] \in Seq(Nat) /\ chunk[d] \in Seq(Nat) /\ EndOf(d, read[d]) \in Nat
      BY Facts
<1>2. out[d] \o chunk[d] = [i \in 1..EndOf(d, read[d]) |-> i]
      BY DEF BytesInOrder
<1>3. \A s, t \in Seq(Nat) : Len(s \o t) = Len(s) + Len(t)
      OBVIOUS
<1>4. \A k \in Nat : Len([i \in 1..k |-> i]) = k
      OBVIOUS
<1>5. Len(out[d] \o chunk[d]) = EndOf(d, read[d])
      BY <1>1, <1>2, <1>4, Zenon
<1>6. Len(out[d] \o chunk[d]) = Len(out[d]) + Len(chunk[d])
      BY <1>1, <1>3, Zenon
<1> QED BY <1>5, <1>6, Zenon

Flowing == Ordered /\ Windows

LEMMA FlowingAlways == Spec => []Flowing
<1>1. Init => Flowing
      BY OrderedInit, WindowsInit DEF Flowing
<1>2. Flowing /\ [Next]_vars => Flowing'
      BY OrderedStep, WindowsStep DEF Flowing
<1> QED BY <1>1, <1>2, PTL DEF Spec

(* What is held of a stream of h2, before and after the relay, fits its    *)
(* window: capacity is released only for bytes that were sent on, so a     *)
(* receiver that is slow slows the sender down (src/serv_conn.rs,          *)
(* src/respond.rs).                                                        *)
THEOREM Backpressure == Spec => []HeldFitsWindow
<1>1. Flowing => HeldFitsWindow
  <2> SUFFICES ASSUME Flowing, NEW d \in Directions
               PROVE  /\ IsH2(Source(d)) => EndOf(d, arrived[d]) <= Len(out[d]) + Window
                      /\ IsH2(Sink(d)) => Len(out[d]) <= taken[d] + Window
      BY DEF HeldFitsWindow
  <2>1. TypeOK /\ BytesInOrder /\ Window \in Nat
        BY SizesAssumption DEF Flowing, Ordered
  <2>2. released[d] <= Len(out[d])
    <3>1. /\ released[d] \in Nat /\ Len(chunk[d]) \in Nat /\ Len(out[d]) \in Nat
          /\ EndOf(d, read[d]) \in Nat /\ released[d] + Len(chunk[d]) <= EndOf(d, read[d])
          BY <2>1, Facts
    <3>2. Len(out[d]) + Len(chunk[d]) = EndOf(d, read[d])
          BY <2>1, Counted
    <3>3. \A r, c, o, e \in Nat : r + c <= e /\ o + c = e => r <= o
          OBVIOUS
    <3> QED BY <3>1, <3>2, <3>3, Zenon
  <2>3. /\ IsH2(Source(d)) => EndOf(d, arrived[d]) <= released[d] + Window
        /\ IsH2(Sink(d)) => Len(out[d]) <= taken[d] + Window
        BY DEF Flowing, Windows
  <2>4. /\ released[d] \in Nat /\ Len(out[d]) \in Nat /\ EndOf(d, arrived[d]) \in Nat
        BY <2>1, Facts
  <2> QED BY <2>1, <2>2, <2>3, <2>4
<1> QED BY <1>1, FlowingAlways, PTL

-------------------------------------------------------------------------------
(* Where a stream, and the loop of send_response_http1, can end.           *)
Ends ==
  /\ \A d \in Directions : eos[d] /\ ~Plain(d) => arrived[d] = Len(Frames(d))
  /\ stage = "end" => read["response"] > 0 /\ IsEmpty("response", read["response"])

LEMMA EndsInit == Init => Ends
<1> SUFFICES ASSUME Init
             PROVE  Ends
    OBVIOUS
<1>1. PICK k \in 0..Len(exchange.request) :
        /\ arrived = [request |-> k, response |-> 0]
        /\ \E end \in BOOLEAN :
             /\ end => k = Len(exchange.request)
             /\ eos = [d \in Directions |-> end /\ d = "request"]
      BY DEF Init
<1>2. PICK end \in BOOLEAN :
        /\ end => k = Len(exchange.request)
        /\ eos = [d \in Directions |-> end /\ d = "request"]
      BY <1>1
<1>3. \A d \in Directions : eos[d] => arrived[d] = Len(Frames(d))
  <2>1. eos["request"] => arrived["request"] = Len(exchange.request)
        BY <1>1, <1>2, DirectionsAre
  <2>2. ~eos["response"]
        BY <1>2, DirectionsAre
  <2>3. Frames("request") = exchange.request
        BY DEF Frames
  <2> QED BY <2>1, <2>2, <2>3, DirectionsAre
<1> QED BY <1>3 DEF Ends, Init

LEMMA EndsStep == Ordered /\ Ends /\ [Next]_vars => Ends'
<1> SUFFICES ASSUME Ordered, Ends, [Next]_vars
             PROVE  Ends'
    OBVIOUS
<1> USE DEF Ends
<1>0. /\ TypeOK /\ Placed /\ way \in Directions /\ read \in [Directions -> Nat]
      /\ eos \in [Directions -> BOOLEAN] /\ arrived \in [Directions -> Nat]
      BY DEF Ordered, TypeOK
<1>1. ASSUME UNCHANGED <<exchange, arrived, eos, read>>, stage' = stage \/ stage' # "end"
      PROVE  Ends'
      BY <1>1 DEF EndOf, Frames, IsEmpty, Plain
<1>2. CASE ReadChunk
  <2>1. /\ read' = [read EXCEPT ![way] = @ + 1] /\ read[way] < arrived[way]
        /\ chunk' = [chunk EXCEPT ![way] = Bytes(way, read'[way])]
        /\ stage' = IF chunk'[way] = <<>> THEN Empty ELSE Full
        /\ UNCHANGED <<exchange, arrived, eos>>
        BY <1>2 DEF ReadChunk, Becomes
  <2>2. ASSUME stage' = "end"
        PROVE  read'["response"] > 0 /\ EndOf("response", read'["response"])
                                          = EndOf("response", read'["response"] - 1)
    <3>1. way = "response" /\ chunk'[way] = <<>>
          BY <1>0, <2>1, <2>2 DEF Empty, Full, IsH2, Sink, Directions
    <3> DEFINE k == read["response"] + 1
    <3>2. read'["response"] = k /\ chunk'["response"] = Bytes("response", k)
          BY <1>0, <2>1, <3>1 DEF TypeOK
    <3>3. /\ k - 1 \in 0..Len(Frames("response")) /\ k \in 0..Len(Frames("response"))
          /\ k - 1 <= k /\ k > 0
          BY <1>0, <2>1, <3>1, Facts
    <3>4. /\ EndOf("response", k) \in Nat /\ EndOf("response", k - 1) \in Nat
          /\ EndOf("response", k - 1) <= EndOf("response", k)
          BY <1>0, <3>1, <3>3, EndsGrow DEF TypeOK
    <3> HIDE DEF k
    <3>5. Len(Bytes("response", k)) = EndOf("response", k) - EndOf("response", k - 1)
          BY <3>4 DEF Bytes
    <3>6. Len(Bytes("response", k)) = 0
          BY <3>1, <3>2
    <3> QED BY <3>2, <3>3, <3>4, <3>5, <3>6
  <2> QED BY <2>1, <2>2 DEF EndOf, Frames, IsEmpty, Plain
<1>3. CASE ArriveHead
  <2>1. PICK end \in BOOLEAN :
          /\ end => Frames("response") = <<>>
          /\ eos' = [eos EXCEPT !["response"] = end]
        BY <1>3 DEF ArriveHead
  <2>2. \A d \in Directions : eos'[d] /\ ~Plain(d) => arrived[d] = Len(Frames(d))
    <3> SUFFICES ASSUME NEW d \in Directions, eos'[d], ~Plain(d)
                 PROVE  arrived[d] = Len(Frames(d))
        OBVIOUS
    <3>1. CASE d = "response"
      <4>1. Frames(d) = <<>>
            BY <1>0, <2>1, <3>1
      <4>2. arrived[d] \in Nat /\ arrived[d] <= Len(Frames(d))
            BY <1>0, Facts
      <4> QED BY <4>1, <4>2
    <3>2. CASE d # "response"
          BY <1>0, <2>1, <3>2
    <3> QED BY <3>1, <3>2
  <2> QED BY <1>3, <2>2 DEF ArriveHead, peers, EndOf, Frames, IsEmpty, Plain
<1>4. ASSUME NEW d \in Directions, Arrive(d)
      PROVE  Ends'
  <2>1. /\ arrived' = [arrived EXCEPT ![d] = @ + 1] /\ ~eos[d]
        /\ UNCHANGED <<exchange, eos, read, stage>>
        BY <1>4 DEF Arrive, peers
  <2>2. \A e \in Directions : eos[e] /\ ~Plain(e) => arrived'[e] = Len(Frames(e))
        BY <1>0, <2>1
  <2> QED BY <2>1, <2>2 DEF EndOf, Frames, IsEmpty, Plain
<1>5. ASSUME NEW d \in Directions, ArriveEnd(d)
      PROVE  Ends'
  <2>1. /\ eos' = [eos EXCEPT ![d] = TRUE] /\ arrived[d] = Len(Frames(d))
        /\ UNCHANGED <<exchange, arrived, read, stage>>
        BY <1>5 DEF ArriveEnd, peers
  <2>2. \A e \in Directions : eos'[e] /\ ~Plain(e) => arrived[e] = Len(Frames(e))
        BY <1>0, <2>1
  <2> QED BY <2>1, <2>2 DEF EndOf, Frames, IsEmpty, Plain
<1>10. CASE ClosePlain
  <2>1. /\ eos' = [eos EXCEPT !["request"] = TRUE] /\ Plain("request")
        /\ UNCHANGED <<exchange, arrived, read, stage>>
        BY <1>10 DEF ClosePlain, peers
  <2>2. \A e \in Directions : eos'[e] /\ ~Plain(e) => arrived[e] = Len(Frames(e))
        BY <1>0, <2>1
  <2> QED BY <2>1, <2>2 DEF EndOf, Frames, IsEmpty, Plain
<1>6. ASSUME \/ Ready \/ ReadError \/ SendPart \/ SendDataFails \/ ReleaseFails
             \/ EndRequest \/ AwaitError \/ RespondHead \/ RespondHead11 \/ WriteChunk
             \/ WriteError \/ EndResponse
      PROVE  UNCHANGED <<exchange, arrived, eos, read>> /\ (stage' = stage \/ stage' # "end")
      BY <1>6 DEF Ready, ReadError, SendPart, SendDataFails, ReleaseFails, EndRequest,
                  AwaitError, RespondHead, RespondHead11, WriteChunk, WriteError,
                  EndResponse, SendEnd, Becomes, streams
<1>7. ASSUME NEW d \in Directions, Take(d)
      PROVE  UNCHANGED <<exchange, arrived, eos, read, stage>>
      BY <1>7 DEF Take, peers
<1>8. ASSUME NEW peer \in Peers, Reset(peer)
      PROVE  UNCHANGED <<exchange, arrived, eos, read, stage>>
      BY <1>8 DEF Reset, streams
<1>9. CASE UNCHANGED vars
      BY <1>1, <1>9 DEF vars
<1> QED BY <1>1, <1>2, <1>3, <1>4, <1>5, <1>6, <1>7, <1>8, <1>9, <1>10 DEF Next, Relay

(* Where the loop of send_response_http1 stops there is an empty frame.    *)
LEMMA EndIsEmpty ==
  ASSUME Ordered, Ends, stage = "end"
  PROVE  ~NoEmptyFrame(Frames("response"))
<1> DEFINE k == read["response"]
<1>1. k \in 1..Len(Frames("response"))
  <2>1. TypeOK /\ "response" \in Directions
        BY DirectionsAre DEF Ordered
  <2>2. /\ Len(Frames("response")) \in Nat /\ arrived["response"] \in Nat /\ k \in Nat
        /\ k <= arrived["response"] /\ arrived["response"] <= Len(Frames("response"))
        BY <2>1, Facts
  <2>3. k > 0
        BY DEF Ends
  <2> HIDE DEF k
  <2> QED BY <2>2, <2>3
<1>2. IsBody(Frames("response"))
      BY ExchangesAssumption DEF Ordered, TypeOK, Frames
<1>3. DOMAIN Frames("response") = 1..Len(Frames("response"))
      BY <1>2 DEF IsBody
<1>4. EndOf("response", k) = EndOf("response", k - 1)
      BY DEF Ends, IsEmpty
<1> HIDE DEF k
<1>5. CASE k = 1
      BY <1>1, <1>3, <1>4, <1>5 DEF EndOf, NoEmptyFrame
<1>6. CASE k # 1
  <2>1. k - 1 \in 1..(k - 1) /\ k # 0 /\ k - 1 # 0
        BY <1>1, <1>6
  <2>2. Frames("response")[k] = Frames("response")[k - 1]
        BY <1>4, <2>1 DEF EndOf
  <2>3. Frames("response")[k] \in Nat
        BY <1>1, <1>2, <1>3 DEF IsBody
  <2> QED BY <1>1, <1>3, <2>1, <2>2, <2>3 DEF NoEmptyFrame
<1> QED BY <1>5, <1>6

(* When there is nothing more to read, all that has arrived was sent on.   *)
LEMMA EndIsWhole ==
  ASSUME Ordered, Ends, NEW d \in Directions, chunk[d] = <<>>, read[d] = arrived[d], eos[d]
  PROVE  /\ Len(out[d]) = EndOf(d, arrived[d])
         /\ ~Plain(d) => arrived[d] = Len(Frames(d))
<1>1. TypeOK /\ BytesInOrder
      BY DEF Ordered
<1>2. Len(out[d]) + Len(chunk[d]) = EndOf(d, read[d])
      BY <1>1, Counted
<1>3. Len(chunk[d]) = 0 /\ Len(out[d]) \in Nat
      BY <1>1, Facts
<1>4. Len(out[d]) = EndOf(d, read[d])
      BY <1>2, <1>3
<1> QED BY <1>4 DEF Ends

LEMMA WholeStep == Ordered /\ Ends /\ EndMeansWhole /\ [Next]_vars => EndMeansWhole'
<1> SUFFICES ASSUME Ordered, Ends, EndMeansWhole, [Next]_vars
             PROVE  EndMeansWhole'
    OBVIOUS
<1>0. /\ TypeOK /\ Placed /\ Held /\ way \in Directions
      /\ finished \in [Directions -> BOOLEAN] /\ eos \in [Directions -> BOOLEAN]
      /\ out \in [Directions -> Seq(Nat)] /\ arrived \in [Directions -> Nat]
      BY DEF Ordered, TypeOK
<1> DEFINE Counts(d) == IsH2(Sink(d)) \/ NoEmptyFrame(Frames(d))
           Whole(d)  == /\ eos[d] /\ Len(out[d]) = EndOf(d, arrived[d])
                        /\ ~Plain(d) => arrived[d] = Len(Frames(d))
<1>1. \A d \in Directions : finished[d] /\ Counts(d) => Whole(d)
      BY DEF EndMeansWhole
<1>2. ASSUME UNCHANGED exchange,
             \A d \in Directions : finished'[d] /\ Counts(d) =>
               Whole(d) /\ eos'[d] /\ out'[d] = out[d] /\ arrived'[d] = arrived[d]
      PROVE  EndMeansWhole'
  <2>1. \A d \in Directions :
          /\ Counts(d)' = Counts(d) /\ Plain(d)' = Plain(d) /\ Frames(d)' = Frames(d)
          /\ arrived'[d] = arrived[d] => EndOf(d, arrived[d])' = EndOf(d, arrived[d])
        BY <1>2 DEF IsH2, Frames, Plain, EndOf
  <2> QED BY <1>2, <2>1 DEF EndMeansWhole
<1>3. ASSUME UNCHANGED <<exchange, out, arrived, finished>>,
             \A d \in Directions : finished[d] /\ eos[d] => eos'[d]
      PROVE  EndMeansWhole'
      BY <1>1, <1>2, <1>3
<1>4. stage \in {"data", "capacity", "write", "end"} => ~finished[way]
      BY <1>0, DirectionsAre DEF Placed
<1>5. ASSUME SendPart \/ ReleaseFails \/ WriteChunk
      PROVE  EndMeansWhole'
  <2>1. /\ stage \in {"capacity", "write"} /\ UNCHANGED <<exchange, eos, arrived, finished>>
        BY <1>5 DEF SendPart, ReleaseFails, WriteChunk, Becomes
  <2>2. \A d \in Directions : d # way => out'[d] = out[d]
    <3>1. CASE SendPart \/ ReleaseFails
      <4>1. PICK n \in Capacity : out' = [out EXCEPT ![way] = @ \o SubSeq(chunk[way], 1, n)]
            BY <3>1 DEF SendPart, ReleaseFails
      <4> QED BY <1>0, <4>1
    <3>2. CASE WriteChunk
      <4>1. /\ out' = [out EXCEPT !["response"] = @ \o chunk["response"]]
            /\ way = "response"
            BY <1>0, <3>2 DEF WriteChunk, Placed
      <4> QED BY <1>0, <4>1
    <3> QED BY <1>5, <3>1, <3>2
  <2>3. \A d \in Directions : finished'[d] => d # way
        BY <1>4, <2>1
  <2> QED BY <1>1, <1>2, <2>1, <2>2, <2>3
<1>6. ASSUME EndRequest \/ EndResponse
      PROVE  EndMeansWhole'
  <2>1. /\ NoMore /\ UNCHANGED <<exchange, eos, out, arrived>>
        /\ finished' = finished \/ finished' = [finished EXCEPT ![way] = TRUE]
        BY <1>6 DEF EndRequest, EndResponse, SendEnd, Becomes
  <2>2. chunk[way] = <<>>
        BY <2>1 DEF NoMore, Ordered, Held
  <2>3. Counts(way) => Whole(way)
    <3>1. CASE stage = "end"
      <4>1. way = "response" /\ ~IsH2(Sink(way))
            BY <1>0, <3>1 DEF Placed, IsH2, Sink
      <4>2. ~NoEmptyFrame(Frames(way))
            BY <3>1, <4>1, EndIsEmpty
      <4> QED BY <4>1, <4>2
    <3>2. CASE read[way] = arrived[way] /\ eos[way]
          BY <1>0, <2>2, <3>2, EndIsWhole
    <3> QED BY <2>1, <3>1, <3>2 DEF NoMore
  <2>4. \A d \in Directions : finished'[d] /\ Counts(d) => Whole(d)
        BY <1>0, <1>1, <2>1, <2>3
  <2> QED BY <1>2, <2>1, <2>4
<1>7. CASE RespondHead \/ RespondHead11
  <2>1. /\ UNCHANGED <<exchange, eos, out, arrived>> /\ way = "request"
        /\ \/ finished' = finished
           \/ IsEndStream /\ finished' = [finished EXCEPT !["response"] = TRUE]
        BY <1>0, <1>7 DEF RespondHead, RespondHead11, NoBody, Becomes, Placed
  <2>2. CASE finished' = finished
        BY <1>3, <2>1, <2>2
  <2>3. CASE IsEndStream /\ finished' = [finished EXCEPT !["response"] = TRUE]
    <3>1. chunk["response"] = <<>>
          BY <1>0, <2>1, DirectionsAre DEF Held
    <3>2. Whole("response")
          BY <2>3, <3>1, DirectionsAre, EndIsWhole DEF IsEndStream
    <3>3. \A d \in Directions : finished'[d] /\ Counts(d) => Whole(d)
          BY <1>0, <1>1, <2>3, <3>2
    <3> QED BY <1>2, <2>1, <3>3
  <2> QED BY <2>1, <2>2, <2>3
<1>8. CASE ArriveHead
  <2>1. /\ UNCHANGED <<exchange, out, arrived, finished>> /\ ~headed
        /\ \E end \in BOOLEAN : eos' = [eos EXCEPT !["response"] = end]
        BY <1>8 DEF ArriveHead, peers
  <2>2. ~finished["response"]
        BY <1>0, <2>1 DEF Placed
  <2>3. \A d \in Directions : d # "response" => eos'[d] = eos[d]
        BY <1>0, <2>1
  <2> QED BY <1>3, <2>1, <2>2, <2>3
<1>9. ASSUME NEW d \in Directions, ArriveEnd(d) \/ ClosePlain
      PROVE  EndMeansWhole'
  <2>1. /\ UNCHANGED <<exchange, out, arrived, finished>>
        /\ eos' = [eos EXCEPT ![d] = TRUE] \/ eos' = [eos EXCEPT !["request"] = TRUE]
        BY <1>9 DEF ArriveEnd, ClosePlain, peers
  <2>2. \A e \in Directions : eos[e] => eos'[e]
        BY <1>0, <2>1
  <2> QED BY <1>3, <2>1, <2>2
<1>10. ASSUME NEW d \in Directions, Arrive(d)
       PROVE  EndMeansWhole'
  <2>1. /\ UNCHANGED <<exchange, out, eos, finished>> /\ ~eos[d]
        /\ arrived' = [arrived EXCEPT ![d] = @ + 1]
        BY <1>10 DEF Arrive, peers
  <2>2. \A e \in Directions : eos[e] => arrived'[e] = arrived[e]
        BY <1>0, <2>1
  <2> QED BY <1>1, <1>2, <2>1, <2>2
<1>11. ASSUME \/ Ready \/ ReadChunk \/ ReadError \/ SendDataFails \/ AwaitError \/ WriteError
       PROVE  UNCHANGED <<exchange, out, arrived, eos, finished>>
       BY <1>11 DEF Ready, ReadChunk, ReadError, SendDataFails, AwaitError, WriteError,
                    Becomes, streams
<1>12. ASSUME NEW d \in Directions, Take(d)
       PROVE  UNCHANGED <<exchange, out, arrived, eos, finished>>
       BY <1>12 DEF Take, peers
<1>13. ASSUME NEW peer \in Peers, Reset(peer)
       PROVE  UNCHANGED <<exchange, out, arrived, eos, finished>>
       BY <1>13 DEF Reset, streams
<1>14. CASE UNCHANGED vars
       BY <1>3, <1>14 DEF vars
<1>15. UNCHANGED <<exchange, out, arrived, eos, finished>> => EndMeansWhole'
       BY <1>3
<1>16. ClosePlain => EndMeansWhole'
       BY <1>9, DirectionsAre
<1> QED BY <1>5, <1>6, <1>7, <1>8, <1>9, <1>10, <1>11, <1>12, <1>13, <1>14, <1>15, <1>16
        DEF Next, Relay

(* LimitWrite forwards no byte that its amount does not cover, and nothing *)
(* but the zeros of the head's buffer goes around it.                      *)
Limited ==
  /\ pad <= Padding
  /\ \A limit \in exchange.stated : ~IsH2("client") => Len(out["response"]) <= limit

LEMMA PaddingIs == TypeOK => Padding \in Nat /\ \A limit \in exchange.stated : limit \in Nat
BY ExchangesAssumption, SizesAssumption DEF Padding, TypeOK

LEMMA LimitedStep == Ordered /\ Limited /\ [Next]_vars => Limited'
<1> SUFFICES ASSUME Ordered, Limited, [Next]_vars
             PROVE  Limited'
    OBVIOUS
<1>0. /\ TypeOK /\ Placed /\ way \in Directions /\ out \in [Directions -> Seq(Nat)]
      BY DEF Ordered, TypeOK
<1>1. ASSUME UNCHANGED <<exchange, pad>>, out'["response"] = out["response"]
      PROVE  Limited'
      BY <1>1 DEF Limited, Padding, IsH2
<1>2. CASE SendPart \/ ReleaseFails
  <2>1. UNCHANGED <<exchange, pad>> /\ stage = "capacity"
        BY <1>2 DEF SendPart, ReleaseFails, Becomes
  <2>2. CASE exchange.client = "h2"
        BY <2>1, <2>2 DEF Limited, Padding, IsH2
  <2>3. CASE way = "request"
    <3>1. PICK n \in Capacity : out' = [out EXCEPT ![way] = @ \o SubSeq(chunk[way], 1, n)]
          BY <1>2 DEF SendPart, ReleaseFails
    <3>2. out'["response"] = out["response"]
          BY <1>0, <2>3, <3>1
    <3> QED BY <1>1, <2>1, <3>2
  <2> QED BY <1>0, <2>1, <2>2, <2>3 DEF Placed
<1>3. CASE WriteChunk
  <2>1. /\ Allowed(Len(out["response"]) + Len(chunk["response"])) /\ UNCHANGED <<exchange, pad>>
        /\ out' = [out EXCEPT !["response"] = @ \o chunk["response"]]
        BY <1>3 DEF WriteChunk, Becomes
  <2>2. Len(out'["response"]) = Len(out["response"]) + Len(chunk["response"])
    <3>1. out["response"] \in Seq(Nat) /\ chunk["response"] \in Seq(Nat)
          BY <1>0, DirectionsAre, Facts
    <3>2. out'["response"] = out["response"] \o chunk["response"]
          BY <1>0, <2>1, DirectionsAre
    <3>3. \A s, t \in Seq(Nat) : Len(s \o t) = Len(s) + Len(t)
          OBVIOUS
    <3> QED BY <3>1, <3>2, <3>3, Zenon
  <2>3. \A limit \in exchange.stated : Len(out'["response"]) <= limit
        BY <2>1, <2>2 DEF Allowed
  <2> QED BY <2>1, <2>3 DEF Limited, Padding
<1>4. CASE RespondHead11
  <2>1. UNCHANGED <<exchange, out>> /\ pad' \in {pad, Padding}
        BY <1>4 DEF RespondHead11, Becomes
  <2>2. pad' <= Padding
        BY <1>0, <2>1, PaddingIs DEF Limited
  <2> QED BY <2>1, <2>2 DEF Limited, Padding, IsH2
<1>5. ASSUME \/ Ready \/ ReadChunk \/ ReadError \/ SendDataFails \/ EndRequest \/ AwaitError
             \/ RespondHead \/ WriteError \/ EndResponse \/ ArriveHead \/ ClosePlain
      PROVE  UNCHANGED <<exchange, pad, out>>
      BY <1>5 DEF Ready, ReadChunk, ReadError, SendDataFails, EndRequest, AwaitError,
                  RespondHead, WriteError, EndResponse, ArriveHead, ClosePlain, SendEnd,
                  Becomes, streams, peers
<1>6. ASSUME NEW d \in Directions, Arrive(d) \/ ArriveEnd(d) \/ Take(d)
      PROVE  UNCHANGED <<exchange, pad, out>>
      BY <1>6 DEF Arrive, ArriveEnd, Take, peers
<1>7. ASSUME NEW peer \in Peers, Reset(peer)
      PROVE  UNCHANGED <<exchange, pad, out>>
      BY <1>7 DEF Reset, streams
<1>8. CASE UNCHANGED vars
      BY <1>1, <1>8 DEF vars
<1> QED BY <1>1, <1>2, <1>3, <1>4, <1>5, <1>6, <1>7, <1>8 DEF Next, Relay

Complete == Flowing /\ Ends /\ EndMeansWhole /\ Limited

LEMMA CompleteAlways == Spec => []Complete
<1>1. Init => Complete
  <2> SUFFICES ASSUME Init
               PROVE  Complete
      OBVIOUS
  <2>1. Flowing /\ Ends
        BY OrderedInit, WindowsInit, EndsInit DEF Flowing
  <2>2. EndMeansWhole
        BY DEF Init, EndMeansWhole
  <2>3. Limited
    <3>1. Len(out["response"]) = 0 /\ pad = 0
          BY DirectionsAre DEF Init
    <3> QED BY <3>1, TypeInit, PaddingIs DEF Limited
  <2> QED BY <2>1, <2>2, <2>3 DEF Complete
<1>2. Complete /\ [Next]_vars => Complete'
      BY OrderedStep, WindowsStep, EndsStep, WholeStep, LimitedStep DEF Complete, Flowing
<1> QED BY <1>1, <1>2, PTL DEF Spec

(* A body that breaks off is never ended for its receiver: what is ended   *)
(* was ended by its sender, and is all that the sender sent; only the end  *)
(* of a plain HTTP/1.1 body is wherever its client closes its side.  A     *)
(* response over HTTP/1.1 must have no empty frame (src/serv_conn.rs,      *)
(* src/respond.rs).                                                        *)
THEOREM NeverCutShort == Spec => []EndMeansWhole
<1>1. Complete => EndMeansWhole
      BY DEF Complete
<1> QED BY <1>1, CompleteAlways, PTL

(* Behind the head a client of HTTP/1.1 gets the zeros that fill up the    *)
(* buffer of the head and no more of the response than the content-length, *)
(* whatever the service sends (src/limit.rs, src/respond.rs).              *)
THEOREM WithinLimit == Spec => []LimitKept
<1>1. Complete => LimitKept
  <2> SUFFICES ASSUME Complete, NEW limit \in exchange.stated, ~IsH2("client")
               PROVE  BehindHead <= Padding + limit
      BY DEF LimitKept
  <2>1. TypeOK /\ pad <= Padding /\ Len(out["response"]) <= limit
        BY DEF Complete, Flowing, Ordered, Limited
  <2>2. pad \in Nat /\ Padding \in Nat /\ limit \in Nat /\ Len(out["response"]) \in Nat
        BY <2>1, PaddingIs, DirectionsAre, Facts DEF TypeOK
  <2> QED BY <2>1, <2>2 DEF BehindHead
<1> QED BY <1>1, CompleteAlways, PTL

(* A response is passed on after the end of the request was sent, so a     *)
(* service that reads nothing is never heard if the request exceeds its    *)
(* window, of any size (src/serv_conn.rs).                                 *)
THEOREM AnswerIsLast == Spec => []AnswerWaitsForRequest
<1>1. Complete => AnswerWaitsForRequest
  <2> SUFFICES ASSUME Complete, way = "response"
               PROVE  /\ eos["request"] /\ finished["request"]
                      /\ exchange.service = "early" =>
                           EndOf("request", arrived["request"]) <= Window
      BY DEF AnswerWaitsForRequest
  <2>1. TypeOK /\ Placed /\ Windows /\ EndMeansWhole /\ "request" \in Directions
        BY DirectionsAre DEF Complete, Flowing, Ordered
  <2>2. finished["request"] /\ IsH2(Sink("request"))
        BY <2>1 DEF Placed, IsH2, Sink
  <2>3. eos["request"] /\ Len(out["request"]) = EndOf("request", arrived["request"])
        BY <2>1, <2>2 DEF EndMeansWhole
  <2>4. Len(out["request"]) <= taken["request"] + Window
        BY <2>1, <2>2 DEF Windows
  <2>5. exchange.service = "early" => taken["request"] = 0
        BY <2>1 DEF Windows
  <2> QED BY <2>2, <2>3, <2>4, <2>5, SizesAssumption
<1> QED BY <1>1, CompleteAlways, PTL

===============================================================================
