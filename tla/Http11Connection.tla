--------------------------- MODULE Http11Connection ---------------------------
(***************************************************************************)
(* One HTTP/1.1 client connection, from the first peek to its end: the     *)
(* Peekable socket (src/peek.rs), the looks that handle_incoming and       *)
(* handle_client take at the first bytes (src/lib.rs), parse_http11        *)
(* (src/http11.rs) and the plain body behind LimitRead (src/limit.rs,      *)
(* src/body.rs).  The client sends its bytes in segments of any size, and  *)
(* a read returns any part of what has arrived.                            *)
(*                                                                         *)
(* A byte is known by its place in a request: a byte of a head, the last   *)
(* byte of a head (with the content-length the head states), or of one     *)
(* that no request can be built from, a byte of a body; or a zero that     *)
(* Peekable::peek wrote into its own buffer.                               *)
(***************************************************************************)
EXTENDS Naturals, Sequences, SequencesExt, Retain

CONSTANTS
  Streams,       \* what a client may send: sequences of bytes
  PreauthLen,    \* PREAUTH_LEN, scaled
  PrefaceLen,    \* the length of H2_PREFACE, scaled
  ParseBufSize   \* HTTP11_PARSE_BUF_SIZE and the BUF_SIZE of read_chunk, scaled

ASSUME SizesAssumption ==
  /\ PreauthLen \in Nat /\ PrefaceLen \in Nat /\ ParseBufSize \in Nat
  /\ 0 < PreauthLen /\ PreauthLen < PrefaceLen /\ PrefaceLen < ParseBufSize

(* Bytes.                                                                  *)
Bytes == [is : {"head", "end", "bad", "body", "pad"}, length : Nat]

HeadByte   == [is |-> "head", length |-> 0]
HeadEnd(n) == [is |-> "end",  length |-> n]
BadEnd     == [is |-> "bad",  length |-> 0]
BodyByte   == [is |-> "body", length |-> 0]
Pad        == [is |-> "pad",  length |-> 0]

Sent == {byte \in Bytes : byte.is # "pad"}
Ends == {byte \in Bytes : byte.is = "end"}

ASSUME StreamsAssumption == Streams \subseteq Seq(Sent)

VARIABLES
  stream,     \* all the client will ever send
  unsent,     \* what it has not sent yet
  incoming,   \* what has arrived and was not read from the socket
  closed,     \* the client closed its side
  buffered,   \* Peekable.buffered
  total,      \* the bytes the current peek has counted
  enough,     \* the current peek saw the end or its is_enough said so
  stage,      \* where the handling of the connection is
  knownH11,   \* ALPN has named HTTP/1.1: no look for the HTTP/2 preface
  limit,      \* the content-length of the request at hand
  delivered,  \* the body of the request at hand, as it is sent to the service
  consumed,   \* history: every byte that a read has handed out
  served      \* history: the number of requests parsed

vars == <<stream, unsent, incoming, closed, buffered, total, enough, stage,
          knownH11, limit, delivered, consumed, served>>

-------------------------------------------------------------------------------
Times(n, byte) == [i \in 1..n |-> byte]

(* try_parse_http11: the length of the head that the bytes begin with,     *)
(* nothing as long as there are only bytes of a head, or an error: for     *)
(* what is no head, and for a complete one whose parts make no URI or no   *)
(* request (uri.build()?, bld.body()?).                                    *)
ParseError == "error"
Partial    == "partial"
Complete   == "complete"

HeadEnds(bytes) ==
  {i \in DOMAIN bytes : bytes[i].is = "end" /\ \A j \in 1..(i - 1) : bytes[j] = HeadByte}

Parsed(bytes) ==
  IF HeadEnds(bytes) # {} THEN Complete
  ELSE IF \A i \in DOMAIN bytes : bytes[i] = HeadByte THEN Partial
  ELSE ParseError

HeadLength(bytes) == CHOOSE i \in HeadEnds(bytes) : TRUE

-------------------------------------------------------------------------------
(* The client.                                                             *)
Send ==
  /\ ~closed
  /\ \E n \in 1..Len(unsent) :
       /\ incoming' = incoming \o SubSeq(unsent, 1, n)
       /\ unsent' = SubSeq(unsent, n + 1, Len(unsent))
  /\ UNCHANGED <<stream, closed, buffered, total, enough, stage, knownH11, limit,
                 delivered, consumed, served>>

Close ==
  /\ ~closed
  /\ closed' = TRUE
  /\ UNCHANGED <<stream, unsent, incoming, buffered, total, enough, stage, knownH11,
                 limit, delivered, consumed, served>>

-------------------------------------------------------------------------------
(* Slip: the buffer grows by the size that is asked for.                   *)
ResizedBy(bytes, size) == bytes \o Times(size, Pad)

(* Peekable::peek.  The buffer is enlarged, with zeros, to the size that   *)
(* is asked for; it is not cut when fewer bytes were read.                 *)
Resized(bytes, size) ==
  bytes \o Times(IF Len(bytes) < size THEN size - Len(bytes) ELSE 0, Pad)

PeekLen(s) ==
  CASE s = "preauth" -> PreauthLen
    [] s = "version" -> PrefaceLen
    [] s = "header"  -> ParseBufSize

Peeking == stage \in {"preauth", "version", "header"}

(* A peek begins: everything that is in the buffer counts as read.         *)
StartPeek(s) ==
  /\ stage' = s
  /\ total' = Len(buffered)
  /\ buffered' = Resized(buffered, PeekLen(s))
  /\ enough' = FALSE

Stop ==
  /\ stage' = "done"
  /\ UNCHANGED <<buffered, total, enough>>

(* |_| false for the two first looks; a parsed head for the last one.      *)
IsEnough(bytes) == stage = "header" /\ Parsed(bytes) = Complete

(* Slip: the end of the stream does not end the peek.                      *)
PeekReadOn ==
  /\ Peeking /\ ~enough /\ total < PeekLen(stage)
  /\ \E n \in 1..Len(incoming) :
       /\ total + n <= Len(buffered)
       /\ buffered' = SubSeq(buffered, 1, total) \o SubSeq(incoming, 1, n)
                        \o SubSeq(buffered, total + n + 1, Len(buffered))
       /\ incoming' = SubSeq(incoming, n + 1, Len(incoming))
       /\ total' = total + n
       /\ enough' = IsEnough(SubSeq(buffered', 1, total'))
  /\ UNCHANGED <<stream, unsent, closed, stage, knownH11, limit, delivered, consumed,
                 served>>

(* One turn of the loop: a read into the rest of the buffer.               *)
PeekRead ==
  /\ Peeking /\ ~enough /\ total < PeekLen(stage)
  /\ \/ \E n \in 1..Len(incoming) :
          /\ total + n <= Len(buffered)
          /\ buffered' = SubSeq(buffered, 1, total) \o SubSeq(incoming, 1, n)
                           \o SubSeq(buffered, total + n + 1, Len(buffered))
          /\ incoming' = SubSeq(incoming, n + 1, Len(incoming))
          /\ total' = total + n
          /\ enough' = IsEnough(SubSeq(buffered', 1, total'))
     \/ /\ closed /\ incoming = <<>>
        /\ enough' = TRUE
        /\ UNCHANGED <<buffered, incoming, total>>
  /\ UNCHANGED <<stream, unsent, closed, stage, knownH11, limit, delivered, consumed,
                 served>>

(* The read of the peek fails: the error ends the connection.              *)
PeekFails ==
  /\ Peeking /\ ~enough /\ total < PeekLen(stage)
  /\ Stop
  /\ UNCHANGED <<stream, unsent, incoming, closed, knownH11, limit, delivered, consumed,
                 served>>

PeekEnded == Peeking /\ (enough \/ total >= PeekLen(stage))

(* handle_incoming and handle_client: too few bytes are an error.          *)
AfterPreauth ==
  /\ stage = "preauth" /\ PeekEnded
  /\ IF total < PreauthLen THEN Stop
     ELSE StartPeek(IF knownH11 THEN "header" ELSE "version")
  /\ UNCHANGED <<stream, unsent, incoming, closed, knownH11, limit, delivered, consumed,
                 served>>

AfterVersion ==
  /\ stage = "version" /\ PeekEnded
  /\ IF total < PrefaceLen THEN Stop ELSE StartPeek("header")
  /\ UNCHANGED <<stream, unsent, incoming, closed, knownH11, limit, delivered, consumed,
                 served>>

(* parse_http11: no head (the stream ended, the buffer is full, or the     *)
(* bytes do not parse) ends the connection.                                *)
AfterHeader ==
  /\ stage = "header" /\ PeekEnded
  /\ LET peeked == SubSeq(buffered, 1, total)
     IN  IF Parsed(peeked) # Complete
           THEN Stop /\ UNCHANGED <<limit, served>>
           ELSE /\ stage' = "discard"
                /\ total' = HeadLength(peeked)
                /\ limit' = peeked[HeadLength(peeked)].length
                /\ served' = served + 1
                /\ UNCHANGED <<buffered, enough>>
  /\ UNCHANGED <<stream, unsent, incoming, closed, knownH11, delivered, consumed>>

-------------------------------------------------------------------------------
(* Peekable::poll_read with a buffer of `size` bytes: what is buffered     *)
(* first, and only that; the socket when nothing is.  An empty result is   *)
(* the end for the caller.                                                 *)

Smaller(m, n) == IF m < n THEN m ELSE n

FromBuffer(size) ==
  /\ consumed' = consumed \o SubSeq(buffered, 1, Smaller(Len(buffered), size))
  /\ buffered' = SubSeq(buffered, Smaller(Len(buffered), size) + 1, Len(buffered))
  /\ UNCHANGED incoming

FromSocket(size) ==
  /\ \E n \in 1..Smaller(Len(incoming), size) :
       /\ consumed' = consumed \o SubSeq(incoming, 1, n)
       /\ incoming' = SubSeq(incoming, n + 1, Len(incoming))
  /\ UNCHANGED buffered

FromEnd(size) ==
  /\ size = 0 \/ (closed /\ incoming = <<>>)
  /\ UNCHANGED <<buffered, incoming, consumed>>

(* Slip: the socket is read although bytes are buffered.                   *)
ReadPast(size) ==
  \/ FromSocket(size)
  \/ incoming = <<>> /\ buffered # <<>> /\ FromBuffer(size)
  \/ buffered = <<>> /\ FromEnd(size)

ReadFirst(size) ==
  \/ buffered # <<>> /\ FromBuffer(size)
  \/ buffered = <<>> /\ (FromSocket(size) \/ FromEnd(size))

Got == SubSeq(consumed', Len(consumed) + 1, Len(consumed'))

(* Slip: the head stays in the buffer.                                     *)
DiscardNothing ==
  /\ stage = "discard"
  /\ stage' = "body"
  /\ delivered' = <<>>
  /\ UNCHANGED <<stream, unsent, incoming, closed, buffered, total, enough, knownH11,
                 limit, consumed, served>>

(* parse_http11 discards the head, with one read whose result it ignores,  *)
(* and hands out a body that reads on from there.                          *)
Discard ==
  /\ stage = "discard"
  /\ ReadFirst(total)
  /\ stage' = "body"
  /\ delivered' = <<>>
  /\ UNCHANGED <<stream, unsent, closed, total, enough, knownH11, limit, served>>

(* read_chunk through LimitRead, as send_request asks for the body: each   *)
(* read is cut to the limit, and what was read before is not counted.  The *)
(* body ends with the first empty read.                                    *)
ReadBody ==
  /\ stage = "body"
  /\ ReadFirst(Smaller(limit, ParseBufSize))
  /\ delivered' = delivered \o Got
  /\ stage' = IF Got = <<>> THEN "respond" ELSE "body"
  /\ UNCHANGED <<stream, unsent, closed, total, enough, knownH11, limit, served>>

(* Slip: after a response the preface of HTTP/2 is looked for again.       *)
RespondThenLook ==
  /\ stage = "respond"
  /\ StartPeek("version")
  /\ UNCHANGED <<stream, unsent, incoming, closed, knownH11, limit, delivered, consumed,
                 served>>

(* The service's response has been written to the client: the loop of      *)
(* handle_client looks for the next request.                               *)
Respond ==
  /\ stage = "respond"
  /\ StartPeek("header")
  /\ UNCHANGED <<stream, unsent, incoming, closed, knownH11, limit, delivered, consumed,
                 served>>

(* No service takes the request, or the service or the client fails while  *)
(* the request is forwarded or answered: the error ends the connection.    *)
Fail ==
  /\ stage \in {"body", "respond"}
  /\ Stop
  /\ UNCHANGED <<stream, unsent, incoming, closed, knownH11, limit, delivered, consumed,
                 served>>

-------------------------------------------------------------------------------
Init ==
  /\ stream \in Streams
  /\ unsent = stream
  /\ incoming = <<>>
  /\ closed = FALSE
  /\ buffered = Times(PreauthLen, Pad)
  /\ total = 0
  /\ enough = FALSE
  /\ stage = "preauth"
  /\ knownH11 \in BOOLEAN
  /\ limit = 0
  /\ delivered = <<>>
  /\ consumed = <<>>
  /\ served = 0

Server ==
  \/ PeekRead \/ AfterPreauth \/ AfterVersion \/ AfterHeader
  \/ Discard \/ ReadBody \/ Respond

Next == Send \/ Close \/ Server \/ PeekFails \/ Fail

Spec == Init /\ [][Next]_vars

(* The task of the connection is polled whenever its socket is ready, and  *)
(* the service answers.  The client owes nothing: it may never send on or  *)
(* close.                                                                  *)
FairSpec == Spec /\ WF_vars(Server)

-------------------------------------------------------------------------------
(* The state has its shape, the counted bytes are in the buffer, and the   *)
(* buffer is never longer than the longest peek.                           *)
TypeOK ==
  /\ {stream, unsent, incoming} \subseteq Seq(Sent)
  /\ {buffered, delivered, consumed} \subseteq Seq(Bytes)
  /\ stage \in {"preauth", "version", "header", "discard", "body", "respond", "done"}
  /\ {closed, enough, knownH11} \subseteq BOOLEAN
  /\ {total, limit, served} \subseteq Nat
  /\ Peeking => total <= Len(buffered)
  /\ Len(buffered) <= ParseBufSize

(* Peekable loses, doubles and swaps nothing: what was read, what is       *)
(* buffered and what is under way is the client's stream, whatever zeros   *)
(* the peeks have put between (src/peek.rs).                               *)
NothingLostOrReordered ==
  Retained(consumed \o buffered, Sent) \o incoming \o unsent = stream

(* When a peek ends, what it counted fits the buffer of its caller: the    *)
(* slice buf[0..total] never panics, although total starts at whatever an  *)
(* earlier, longer peek left behind (src/peek.rs).                         *)
PeekFits == PeekEnded => total <= PeekLen(stage)

(* The heads are parsed in the order in which the client wrote them, each  *)
(* one once and each with its own content-length, and a body starts right  *)
(* behind its head: the single read that discards the head, whose result   *)
(* is ignored, takes all of it and no more (src/http11.rs).                *)
Heads == Retained(stream, Ends)

RequestsInOrder ==
  /\ stage \in {"discard", "body"} =>
       /\ served <= Len(Heads)
       /\ limit = Heads[served].length
  /\ (stage = "body" /\ delivered = <<>>) =>
       /\ consumed # <<>>
       /\ Last(consumed).is = "end"

(* Once the client has closed its side, the handling ends, whatever was    *)
(* sent before: accept_incoming awaits it before it accepts again.         *)
EndsAfterClose == closed ~> stage = "done"

(* src/http11.rs: the read of the head is "to position it where the body   *)
(* starts", so that a body holds bytes that the client sent.               *)
PositionedAtBody == Retained(delivered, Sent) = delivered

===============================================================================
