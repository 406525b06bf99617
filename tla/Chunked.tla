-------------------------------- MODULE Chunked --------------------------------
(***************************************************************************)
(* Transfer-encoding chunked (src/chunked.rs): one body on its way from an *)
(* encoder to ChunkedDecoder.  The encoder is the client's, or             *)
(* ChunkedEncoder as send_response_http1 uses it (src/respond.rs).  The    *)
(* bytes arrive in segments of any size and may be cut short anywhere.     *)
(*                                                                         *)
(* A byte is a digit, of which those below Decimal are numeric characters  *)
(* and the rest the letters of the hexadecimal digits; a CR, an LF, or     *)
(* some other byte of the payload.                                         *)
(***************************************************************************)
EXTENDS Naturals, Sequences, SequencesExt, FiniteSetsExt, Retain

CONSTANTS
  Bodies,       \* what may be sent: records [by, frames]
  Decimal,      \* ten, scaled
  Hexadecimal,  \* sixteen, scaled
  MaxReadSize   \* MAX_READ_SIZE, scaled

ASSUME BasesAssumption ==
  /\ Decimal \in Nat /\ Hexadecimal \in Nat /\ MaxReadSize \in Nat
  /\ 1 < Decimal /\ Decimal < Hexadecimal /\ 0 < MaxReadSize

(* A byte; the value tells bytes of a kind apart. *)
Bytes == [is : {"digit", "data", "cr", "lf"}, value : Nat]

ASSUME BodiesAssumption ==
  Bodies \subseteq [by : {"client", "lolb"}, frames : Seq(Seq(Bytes))]

VARIABLES
  body,        \* the body under way: who encodes it, its frames
  unsent,      \* the encoded bytes that have not arrived
  wire,        \* those that have arrived and were not read
  closed,      \* the sender is gone
  stage,       \* where data_res is
  line,        \* the buf of read_chunk_size
  amountLeft,  \* amount_left
  decoded      \* all that data() has returned

vars == <<body, unsent, wire, closed, stage, line, amountLeft, decoded>>

-------------------------------------------------------------------------------
Digit(d)   == [is |-> "digit", value |-> d]
Data(i)    == [is |-> "data",  value |-> i]
CR         == [is |-> "cr",    value |-> 0]
LF         == [is |-> "lf",    value |-> 0]
CRLF       == <<CR, LF>>

Numeric(b) == b.is = "digit" /\ b.value < Decimal

(* A number in a base, without leading zeros.                              *)
Written(n, base) ==
  LET Digits[k \in 0..n] ==
        IF k < base THEN <<Digit(k)>>
        ELSE Append(Digits[k \div base], Digit(k % base))
  IN  Digits[n]

(* send_response_http1 sends the frames up to the first empty one.         *)
FramesSent(frames) ==
  LET empty == {i \in DOMAIN frames : frames[i] = <<>>}
  IN  IF empty = {} THEN frames ELSE SubSeq(frames, 1, Min(empty) - 1)

(* The base in which an encoder writes the size of a chunk: the client     *)
(* follows the standard, send_chunk formats with {}.                       *)
BaseOf(by) == IF by = "lolb" THEN Decimal ELSE Hexadecimal

(* send_chunk and send_finish.                                             *)
Chunk(b, frame) ==
  Written(Len(frame), BaseOf(b.by)) \o CRLF \o frame \o CRLF

Finish == <<Digit(0)>> \o CRLF \o CRLF

Encoded(b) ==
  LET sent == FramesSent(b.frames)
  IN  FlattenSeq([i \in DOMAIN sent |-> Chunk(b, sent[i])]) \o Finish

Payload == FlattenSeq(FramesSent(body.frames))

-------------------------------------------------------------------------------
(* The socket.                                                             *)
Arrive ==
  /\ ~closed
  /\ \E n \in 1..Len(unsent) :
       /\ wire' = wire \o SubSeq(unsent, 1, n)
       /\ unsent' = SubSeq(unsent, n + 1, Len(unsent))
  /\ UNCHANGED <<body, closed, stage, line, amountLeft, decoded>>

Close ==
  /\ ~closed
  /\ closed' = TRUE
  /\ UNCHANGED <<body, unsent, wire, stage, line, amountLeft, decoded>>

-------------------------------------------------------------------------------
(* ChunkedDecoder.  read_amount takes exactly n bytes; it waits for them   *)
(* and fails when the stream ends before.                                  *)
Taken(n) == SubSeq(wire, 1, n)

Take(n) ==
  /\ Len(wire) >= n
  /\ wire' = SubSeq(wire, n + 1, Len(wire))

Wanted ==
  IF stage = "data" THEN Min({amountLeft, MaxReadSize}) ELSE 1

Reading == stage \in {"size", "line", "data", "tail"}

(* Slip: the end of the stream ends the body.                              *)
EndAnyway ==
  /\ Reading /\ closed /\ Len(wire) < Wanted
  /\ stage' = "end"
  /\ UNCHANGED <<body, unsent, wire, closed, line, amountLeft, decoded>>

(* Slip: in the payload the reader waits on.                               *)
CutShortInLines ==
  /\ stage \in {"size", "line"} /\ closed /\ Len(wire) < Wanted
  /\ stage' = "error"
  /\ UNCHANGED <<body, unsent, wire, closed, line, amountLeft, decoded>>

CutShort ==
  /\ Reading /\ closed /\ Len(wire) < Wanted
  /\ stage' = "error"
  /\ UNCHANGED <<body, unsent, wire, closed, line, amountLeft, decoded>>

(* Slip: the size is read up to its LF, and another line is skipped.       *)
ReadSizeLine ==
  /\ stage = "size"
  /\ Take(1)
  /\ line' = line \o Taken(1)
  /\ stage' = IF Head(wire) # LF THEN "size" ELSE "line"
  /\ UNCHANGED <<body, unsent, closed, amountLeft, decoded>>

(* read_chunk_size: bytes up to the first one that is not numeric, which   *)
(* is kept.                                                                *)
ReadSize ==
  /\ stage = "size"
  /\ Take(1)
  /\ line' = line \o Taken(1)
  /\ stage' = IF Numeric(Head(wire)) THEN "size" ELSE "line"
  /\ UNCHANGED <<body, unsent, closed, amountLeft, decoded>>

(* from_str_radix(_, 16) of the trimmed line.                              *)
Trimmed(bytes) == Retained(bytes, [is : {"digit", "data"}, value : Nat])

IsNumber(bytes) == bytes # <<>> /\ \A i \in DOMAIN bytes : bytes[i].is = "digit"

(* Slip: the number is read in the base of the numeric characters.         *)
DecimalOf(bytes) ==
  FoldLeft(LAMBDA sum, b : sum * Decimal + b.value, 0, bytes)

NumberOf(bytes) ==
  LET Sum[i \in 0..Len(bytes)] ==
        IF i = 0 THEN 0 ELSE Sum[i - 1] * Hexadecimal + bytes[i].value
  IN  Sum[Len(bytes)]

(* Slip: the chunk of size zero is read like any other.                    *)
SkipLineOnly ==
  /\ stage = "line"
  /\ Take(1)
  /\ line' = IF Head(wire) = LF THEN <<>> ELSE line
  /\ IF Head(wire) # LF THEN UNCHANGED <<stage, amountLeft>>
     ELSE IF ~IsNumber(Trimmed(line)) THEN stage' = "error" /\ UNCHANGED amountLeft
     ELSE amountLeft' = NumberOf(Trimmed(line)) /\ stage' = "data"
  /\ UNCHANGED <<body, unsent, closed, decoded>>

(* skip_until_lf behind the size, and then the size is made of the line.   *)
SkipLine ==
  /\ stage = "line"
  /\ Take(1)
  /\ line' = IF Head(wire) = LF THEN <<>> ELSE line
  /\ IF Head(wire) # LF THEN UNCHANGED <<stage, amountLeft>>
     ELSE IF ~IsNumber(Trimmed(line)) THEN stage' = "error" /\ UNCHANGED amountLeft
     ELSE /\ amountLeft' = NumberOf(Trimmed(line))
          /\ stage' = IF amountLeft' = 0 THEN "end" ELSE "data"
  /\ UNCHANGED <<body, unsent, closed, decoded>>

(* data_res: at most MAX_READ_SIZE bytes of the chunk, ...                 *)
ReadData ==
  /\ stage = "data"
  /\ Take(Wanted)
  /\ decoded' = decoded \o Taken(Wanted)
  /\ amountLeft' = amountLeft - Wanted
  /\ stage' = "tail"
  /\ UNCHANGED <<body, unsent, closed, line>>

(* ... and skip_until_lf behind them, whether or not the chunk has ended.  *)
SkipTail ==
  /\ stage = "tail"
  /\ Take(1)
  /\ stage' = CASE Head(wire) # LF -> "tail"
                [] Head(wire) = LF /\ amountLeft = 0 -> "size"
                [] Head(wire) = LF /\ amountLeft # 0 -> "data"
  /\ UNCHANGED <<body, unsent, closed, line, amountLeft, decoded>>

-------------------------------------------------------------------------------
Init ==
  /\ body \in Bodies
  /\ unsent = Encoded(body)
  /\ wire = <<>>
  /\ closed = FALSE
  /\ stage = "size"
  /\ line = <<>>
  /\ amountLeft = 0
  /\ decoded = <<>>

Decoder == CutShort \/ ReadSize \/ SkipLine \/ ReadData \/ SkipTail

Next == Arrive \/ Close \/ Decoder

Spec == Init /\ [][Next]_vars

(* The task that reads the body is polled whenever its socket is ready.    *)
FairSpec == Spec /\ WF_vars(Decoder)

-------------------------------------------------------------------------------
(* The state has its shape, and nothing is left of a chunk when the size   *)
(* of the next one is read; data is only read of a chunk that has some.    *)
TypeOK ==
  /\ body \in Bodies
  /\ {unsent, wire, line, decoded} \subseteq Seq(Bytes)
  /\ closed \in BOOLEAN
  /\ stage \in {"size", "line", "data", "tail", "end", "error"}
  /\ amountLeft \in Nat
  /\ stage \in {"size", "line"} => amountLeft = 0
  /\ stage = "data" => amountLeft > 0

(* A size is read as it was written when nothing follows its first letter, *)
(* where read_chunk_size stops, and when the encoder's base is the         *)
(* decoder's: below ten they agree.  A chunk beyond MAX_READ_SIZE would be *)
(* taken for several.                                                      *)
ReadAsWritten(n) ==
  LET digits == Written(n, Hexadecimal)
  IN  \A i \in 1..(Len(digits) - 1) : Numeric(digits[i])

Decodable(b) ==
  LET sent == FramesSent(b.frames)
  IN  \A i \in DOMAIN sent :
        /\ Len(sent[i]) <= MaxReadSize
        /\ ReadAsWritten(Len(sent[i]))
        /\ b.by = "lolb" => Len(sent[i]) < Decimal

(* However the bytes are cut into segments, what has been decoded is what  *)
(* the encoder was given, in order (data_res, src/chunked.rs).             *)
DecodedIsPrefix == IsPrefix(decoded, Payload)

(* The body is only reported as ended when all of it was decoded: a stream *)
(* that is cut short is an error (read_amount), never a shorter body.      *)
EndMeansWhole == stage = "end" => decoded = Payload

(* When the body has ended, the bytes behind it are those of the next      *)
(* request, with the last CRLF of this one before them: read_chunk_size    *)
(* has read the line of the last chunk and no more.                        *)
StopsBehindLastChunk == stage = "end" => wire \o unsent = CRLF

(* A reader of the body is never left waiting for a sender that is gone.   *)
Decides == closed ~> stage \in {"end", "error"}

(* src/chunked.rs: "Transfer encoding chunked to an AsyncWrite": what      *)
(* ChunkedEncoder writes, ChunkedDecoder decodes.                          *)
EncodesChunked == body.by = "lolb" => DecodedIsPrefix

===============================================================================
