-------------------------------- MODULE Forward --------------------------------
(***************************************************************************)
(* One request on its way from a client to a service, and the response on  *)
(* its way back: ServiceConnection::send_request (src/serv_conn.rs),       *)
(* Responder::send_response (src/respond.rs), PollCapacity and Http11Body  *)
(* (src/body.rs) and LimitWrite (src/limit.rs), between the streams of the *)
(* h2 library with their windows.                                          *)
(*                                                                         *)
(* A body is the sequence of the places at which its frames end: <<2, 2,   *)
(* 3>> has a frame of two bytes, an empty one and one of a byte.  A byte   *)
(* is known by its place.  How many frames have arrived, and how many      *)
(* data() has returned, are counters.                                      *)
(***************************************************************************)
EXTENDS Naturals, Sequences

CONSTANTS
  Exchanges,   \* what client and service do: see ExchangesAssumption
  Window,      \* the bytes that may be under way in a stream, scaled
  HeaderBuf    \* the buffer that send_response_http1 writes the head into, scaled

Directions == {"request", "response"}
Peers      == {"client", "service"}

(* The ends of the frames of a body.                                       *)
IsBody(ends) ==
  /\ ends \in Seq(Nat)
  /\ \A i \in DOMAIN ends : \A j \in 1..i : ends[j] <= ends[i]

(* No two of them are the same, and there is none of no byte.              *)
NoEmptyFrame(ends) ==
  \A i \in DOMAIN ends : ends[i] > 0 /\ \A j \in 1..(i - 1) : ends[j] < ends[i]

(* client: whether it speaks HTTP/2, or HTTP/1.1 and sends a plain body,   *)
(* whose content-length is its length, or a chunked one.  service: whether *)
(* it reads the request and then answers, answers each frame as it reads   *)
(* it, or answers at once and reads nothing.  head: the size of the head   *)
(* of the response.  stated: the content-length in it, if there is one.    *)
ASSUME ExchangesAssumption ==
  \A e \in Exchanges :
    /\ e.client \in {"h2", "plain", "chunked"}
    /\ e.client # "h2" => NoEmptyFrame(e.request)
    /\ e.service \in {"patient", "echo", "early"}
    /\ IsBody(e.request) /\ IsBody(e.response)
    /\ e.head \in Nat /\ e.stated \subseteq Nat

ASSUME SizesAssumption == Window \in Nat \ {0} /\ HeaderBuf \in Nat

VARIABLES
  exchange,  \* the exchange at hand
  driven,    \* the peers whose connection is polled meanwhile
  reset,     \* the peers whose stream or connection is gone
  stage,     \* where send_request or send_response is
  way,       \* the direction of the one it is in
  headed,    \* the head of the response has arrived
  arrived,   \* the frames that have arrived
  eos,       \* the end of the stream has arrived
  read,      \* the frames that data() has returned
  chunk,     \* body_data
  pad,       \* the zeros that were sent behind the head of the response
  out,       \* the bytes that were handed to the other side
  released,  \* the capacity that was released
  taken,     \* the bytes that the receiver has read
  finished   \* the end was sent on

peers   == <<exchange, driven, reset>>
streams == <<arrived, eos, read, chunk, pad, out, released, taken, finished>>
vars == <<exchange, driven, reset, stage, way, headed, arrived, eos, read, chunk,
          pad, out, released, taken, finished>>

-------------------------------------------------------------------------------
Frames(d) == exchange[d]

(* The bytes in the first k frames.                                        *)
EndOf(d, k) == IF k = 0 THEN 0 ELSE Frames(d)[k]

Total(d) == EndOf(d, Len(Frames(d)))

Source(d) == IF d = "request" THEN "client" ELSE "service"
Sink(d)   == IF d = "request" THEN "service" ELSE "client"

IsH2(peer) == peer = "service" \/ exchange.client = "h2"

Plain(d) == d = "request" /\ exchange.client = "plain"

(* A socket of HTTP/1.1 is read and written by the code itself; an h2      *)
(* connection moves frames and windows only while it is polled.            *)
Moves(peer) == peer \notin reset /\ (~IsH2(peer) \/ peer \in driven)

IsEmpty(d, k) == EndOf(d, k) = EndOf(d, k - 1)

Over == stage \in {"done", "failed", "panicked"}

-------------------------------------------------------------------------------
(* The peers.  A frame is sent when it fits the window of its stream.      *)
FitsWindow(d, k) == IsH2(Source(d)) => EndOf(d, k) <= released[d] + Window

(* What a service has before it sends frame k of its answer: the whole of  *)
(* the request, as far as the end it was told, or its part of it.          *)
MayAnswer(k) ==
  \/ exchange.service # "early" /\ finished["request"]
                                /\ taken["request"] = Len(out["request"])
  \/ exchange.service = "echo" /\ taken["request"] >= EndOf("response", k)
  \/ exchange.service = "early"

Arrive(d) ==
  /\ Moves(Source(d)) /\ (d = "response" => headed)
  /\ arrived[d] < Len(Frames(d)) /\ ~eos[d] /\ FitsWindow(d, arrived[d] + 1)
  /\ d = "response" => MayAnswer(arrived[d] + 1)
  /\ arrived' = [arrived EXCEPT ![d] = @ + 1]
  /\ UNCHANGED peers
  /\ UNCHANGED <<stage, way, headed, eos, read, chunk, pad, out, released, taken, finished>>

(* A stream of h2, or a chunked body, says that it has ended.              *)
ArriveEnd(d) ==
  /\ Moves(Source(d)) /\ (d = "response" => headed)
  /\ ~Plain(d) /\ arrived[d] = Len(Frames(d)) /\ ~eos[d]
  /\ eos' = [eos EXCEPT ![d] = TRUE]
  /\ UNCHANGED peers
  /\ UNCHANGED <<stage, way, headed, arrived, read, chunk, pad, out, released, taken,
                 finished>>

(* A plain body ends where its client closes its side, and nowhere else:   *)
(* LimitRead does not count what it has read.  The client may do so before *)
(* it has sent its content-length, long after it, or never.                *)
ClosePlain ==
  /\ Moves("client") /\ Plain("request") /\ ~eos["request"]
  /\ eos' = [eos EXCEPT !["request"] = TRUE]
  /\ UNCHANGED peers
  /\ UNCHANGED <<stage, way, headed, arrived, read, chunk, pad, out, released, taken,
                 finished>>

(* The head of the response, with the end of the stream if there is no     *)
(* body and the service says so at once.                                   *)
ArriveHead ==
  /\ Moves("service") /\ stage \notin {"ready", "panicked"} /\ ~headed
  /\ exchange.service = "patient" => MayAnswer(0)
  /\ headed' = TRUE
  /\ \E end \in BOOLEAN :
       /\ end => Frames("response") = <<>>
       /\ eos' = [eos EXCEPT !["response"] = end]
  /\ UNCHANGED peers
  /\ UNCHANGED <<stage, way, arrived, read, chunk, pad, out, released, taken, finished>>

(* A service that answers each frame holds no more than one of them.       *)
MayTake(d, n) ==
  (d = "request") =>
    \/ exchange.service = "patient"
    \/ exchange.service = "echo" /\
         \/ arrived["response"] = Len(Frames("response"))
         \/ taken[d] + n <= EndOf("response", arrived["response"] + 1)

(* The receiver reads on, and its window is opened by as much.             *)
Take(d) ==
  /\ Moves(Sink(d)) /\ IsH2(Sink(d))
  /\ \E n \in 1..(Len(out[d]) - taken[d]) :
       /\ MayTake(d, n)
       /\ taken' = [taken EXCEPT ![d] = @ + n]
  /\ UNCHANGED peers
  /\ UNCHANGED <<stage, way, headed, arrived, eos, read, chunk, pad, out, released, finished>>

(* A peer resets its stream, or its connection breaks, or ends in the      *)
(* middle of a chunked body.                                               *)
Reset(peer) ==
  /\ ~Over /\ peer \notin reset
  /\ reset' = reset \cup {peer}
  /\ UNCHANGED <<exchange, driven, stage, way, headed>> /\ UNCHANGED streams

-------------------------------------------------------------------------------
Becomes(s) ==
  /\ stage' = s
  /\ UNCHANGED <<exchange, driven, reset, headed>>

(* ready() and the sending of the head.  A connection that ends between    *)
(* the two makes unwrap panic.                                             *)
Ready ==
  /\ stage = "ready"
  /\ IF "service" \in reset THEN Becomes("failed") \/ Becomes("panicked")
                            ELSE Becomes("data")
  /\ UNCHANGED way /\ UNCHANGED streams

Bytes(d, k) == [i \in 1..(EndOf(d, k) - EndOf(d, k - 1)) |-> EndOf(d, k - 1) + i]

(* What a loop does with a frame that is not empty, and with one that is.  *)
Full  == IF IsH2(Sink(way)) THEN "capacity" ELSE "write"
Empty == IF IsH2(Sink(way)) THEN "data" ELSE "end"

(* Slip: the capacity is released before the bytes are sent on.            *)
ReadChunkReleasing ==
  /\ stage = "data" /\ read[way] < arrived[way]
  /\ read' = [read EXCEPT ![way] = @ + 1]
  /\ chunk' = [chunk EXCEPT ![way] = Bytes(way, read'[way])]
  /\ released' = [released EXCEPT ![way] = @ + Len(chunk'[way])]
  /\ Becomes(IF chunk'[way] = <<>> THEN Empty ELSE Full)
  /\ UNCHANGED <<way, arrived, eos, pad, out, taken, finished>>

(* data() returns a frame: what has arrived comes before any error.        *)
ReadChunk ==
  /\ stage = "data" /\ read[way] < arrived[way]
  /\ read' = [read EXCEPT ![way] = @ + 1]
  /\ chunk' = [chunk EXCEPT ![way] = Bytes(way, read'[way])]
  /\ Becomes(IF chunk'[way] = <<>> THEN Empty ELSE Full)
  /\ UNCHANGED <<way, arrived, eos, pad, out, released, taken, finished>>

(* Slip: an error of data() is taken for the end.                          *)
ReadErrorEnds ==
  /\ stage = "data" /\ read[way] = arrived[way] /\ ~eos[way]
  /\ Source(way) \in reset
  /\ Becomes("end")
  /\ UNCHANGED way /\ UNCHANGED streams

(* Slip: an error of data() is skipped.                                    *)
ReadErrorSkipped ==
  /\ stage = "data" /\ read[way] = arrived[way] /\ ~eos[way]
  /\ Source(way) \in reset
  /\ Becomes("data")
  /\ UNCHANGED way /\ UNCHANGED streams

ReadError ==
  /\ stage = "data" /\ read[way] = arrived[way] /\ ~eos[way]
  /\ Source(way) \in reset
  /\ Becomes("failed")
  /\ UNCHANGED way /\ UNCHANGED streams

(* PollCapacity, while the stream lives: a part of body_data is covered by *)
(* the window of the other side.  A stream that is gone gives Ready(None), *)
(* which PollCapacity turns into Pending.                                  *)
Capacity ==
  IF Sink(way) \in reset THEN {}
  ELSE {n \in 1..Len(chunk[way]) : Len(out[way]) + n <= taken[way] + Window}

Left(n) == SubSeq(chunk[way], n + 1, Len(chunk[way]))

(* Slip: body_data loses its end instead of its beginning.                 *)
SendPartCutEnd ==
  /\ stage = "capacity"
  /\ \E n \in Capacity :
       /\ out' = [out EXCEPT ![way] = @ \o SubSeq(chunk[way], 1, n)]
       /\ chunk' = [chunk EXCEPT ![way] = SubSeq(@, 1, Len(@) - n)]
       /\ released' = [released EXCEPT ![way] = IF IsH2(Source(way)) THEN @ + n ELSE @]
  /\ Becomes(IF chunk'[way] = <<>> THEN "data" ELSE "capacity")
  /\ UNCHANGED <<way, arrived, eos, read, pad, taken, finished>>

(* Slip: the capacity is never released.                                   *)
SendPartKeeping ==
  /\ stage = "capacity"
  /\ \E n \in Capacity :
       /\ out' = [out EXCEPT ![way] = @ \o SubSeq(chunk[way], 1, n)]
       /\ chunk' = [chunk EXCEPT ![way] = Left(n)]
  /\ Becomes(IF chunk'[way] = <<>> THEN "data" ELSE "capacity")
  /\ UNCHANGED <<way, arrived, eos, read, pad, released, taken, finished>>

(* send_data, and release_capacity of as much.                             *)
SendPart ==
  /\ stage = "capacity"
  /\ \E n \in Capacity :
       /\ out' = [out EXCEPT ![way] = @ \o SubSeq(chunk[way], 1, n)]
       /\ chunk' = [chunk EXCEPT ![way] = Left(n)]
       /\ released' = [released EXCEPT ![way] = IF IsH2(Source(way)) THEN @ + n ELSE @]
  /\ Becomes(IF chunk'[way] = <<>> THEN "data" ELSE "capacity")
  /\ UNCHANGED <<way, arrived, eos, read, pad, taken, finished>>

(* The other side resets its stream when the capacity is granted already.  *)
SendDataFails ==
  /\ stage = "capacity" /\ Capacity # {}
  /\ reset' = reset \cup {Sink(way)}
  /\ stage' = "failed"
  /\ UNCHANGED <<exchange, driven, headed, way>> /\ UNCHANGED streams

(* The part is sent, but the stream that it came from is gone: the rest of *)
(* the chunk is dropped.                                                   *)
ReleaseFails ==
  /\ stage = "capacity" /\ IsH2(Source(way)) /\ Source(way) \in reset
  /\ \E n \in Capacity :
       /\ out' = [out EXCEPT ![way] = @ \o SubSeq(chunk[way], 1, n)]
       /\ chunk' = [chunk EXCEPT ![way] = Left(n)]
  /\ Becomes("failed")
  /\ UNCHANGED <<way, arrived, eos, read, pad, released, taken, finished>>

NoMore ==
  \/ stage = "end"
  \/ stage = "data" /\ read[way] = arrived[way] /\ eos[way]

(* What is sent to a peer that is gone fails; a socket may still take it.  *)
MayFail(peer)    == peer \in reset
MaySucceed(peer) == IsH2(peer) => peer \notin reset

(* The end of a body is sent on.  A response with a content-length has no  *)
(* end to write over HTTP/1.1.                                             *)
WritesEnd == IsH2(Sink(way)) \/ exchange.stated = {}

SendEnd(next) ==
  \/ /\ WritesEnd /\ MayFail(Sink(way))
     /\ Becomes("failed") /\ UNCHANGED finished
  \/ /\ WritesEnd => MaySucceed(Sink(way))
     /\ Becomes(next) /\ finished' = [finished EXCEPT ![way] = TRUE]

(* Slip: the response is waited for as soon as there is one.               *)
EndRequestWhenAnswered ==
  /\ way = "request"
  /\ \/ NoMore /\ SendEnd("await")
     \/ stage \in {"data", "capacity"} /\ headed /\ Becomes("await") /\ UNCHANGED finished
  /\ UNCHANGED <<way, arrived, eos, read, chunk, pad, out, released, taken>>

EndRequest ==
  /\ way = "request" /\ NoMore
  /\ SendEnd("await")
  /\ UNCHANGED <<way, arrived, eos, read, chunk, pad, out, released, taken>>

(* response.await                                                          *)
AwaitError ==
  /\ stage = "await" /\ ~headed /\ "service" \in reset
  /\ Becomes("failed")
  /\ UNCHANGED way /\ UNCHANGED streams

IsEndStream == eos["response"] /\ read["response"] = arrived["response"]

(* send_response_http2: the head, with the end of the stream if the body   *)
(* has ended already.                                                      *)
RespondHead ==
  /\ stage = "await" /\ headed /\ IsH2("client")
  /\ way' = "response"
  /\ \/ MayFail("client") /\ Becomes("failed") /\ UNCHANGED finished
     \/ MaySucceed("client") /\ ~IsEndStream /\ Becomes("data") /\ UNCHANGED finished
     \/ /\ MaySucceed("client") /\ IsEndStream
        /\ Becomes("done") /\ finished' = [finished EXCEPT !["response"] = TRUE]
  /\ UNCHANGED <<arrived, eos, read, chunk, pad, out, released, taken>>

(* send_response_http1: the head is written over the beginning of a buffer *)
(* of zeros, which grows if it must, and the whole buffer is sent.         *)
Padding == IF exchange.head < HeaderBuf THEN HeaderBuf - exchange.head ELSE 0

NoBody == exchange.stated = {} /\ IsEndStream

RespondHead11 ==
  /\ stage = "await" /\ headed /\ ~IsH2("client")
  /\ way' = "response"
  /\ \/ MayFail("client") /\ Becomes("failed") /\ UNCHANGED <<pad, finished>>
     \/ ~NoBody /\ Becomes("data") /\ pad' = Padding /\ UNCHANGED finished
     \/ /\ NoBody /\ Becomes("done") /\ pad' = Padding
        /\ finished' = [finished EXCEPT !["response"] = TRUE]
  /\ UNCHANGED <<arrived, eos, read, chunk, out, released, taken>>

Allowed(amount) == \A limit \in exchange.stated : amount <= limit

(* Slip: LimitWrite forgets what it has written.                           *)
WriteChunkAlone ==
  /\ stage = "write" /\ Allowed(Len(chunk["response"]))
  /\ out' = [out EXCEPT !["response"] = @ \o chunk["response"]]
  /\ chunk' = [chunk EXCEPT !["response"] = <<>>]
  /\ Becomes("data")
  /\ UNCHANGED <<way, arrived, eos, read, pad, released, taken, finished>>

(* send_chunk: chunked, or as far as LimitWrite allows.                    *)
WriteChunk ==
  /\ stage = "write" /\ Allowed(Len(out["response"]) + Len(chunk["response"]))
  /\ out' = [out EXCEPT !["response"] = @ \o chunk["response"]]
  /\ chunk' = [chunk EXCEPT !["response"] = <<>>]
  /\ Becomes("data")
  /\ UNCHANGED <<way, arrived, eos, read, pad, released, taken, finished>>

WriteError ==
  /\ stage = "write"
  /\ \/ "client" \in reset
     \/ ~Allowed(Len(out["response"]) + Len(chunk["response"]))
  /\ Becomes("failed")
  /\ UNCHANGED way /\ UNCHANGED streams

EndResponse ==
  /\ way = "response" /\ NoMore
  /\ SendEnd("done")
  /\ UNCHANGED <<way, arrived, eos, read, chunk, pad, out, released, taken>>

-------------------------------------------------------------------------------
(* Of an h2 request, h2.accept() may have read frames before; an HTTP/1.1  *)
(* body is read when it is asked for, and LimitRead of nothing is at its   *)
(* end.                                                                    *)
Init ==
  /\ exchange \in Exchanges
  /\ driven \in SUBSET Peers
  /\ reset = {}
  /\ stage = "ready" /\ way = "request"
  /\ headed = FALSE
  /\ \E k \in 0..Len(exchange.request) :
       /\ k > 0 => exchange.client = "h2" /\ exchange.request[k] <= Window
       /\ arrived = [request |-> k, response |-> 0]
       /\ \E end \in BOOLEAN :
            /\ end => k = Len(exchange.request) /\ exchange.client # "chunked"
            /\ exchange.client = "plain" => (end <=> exchange.request = <<>>)
            /\ eos = [d \in Directions |-> end /\ d = "request"]
  /\ read     = [d \in Directions |-> 0]
  /\ chunk    = [d \in Directions |-> <<>>]
  /\ pad      = 0
  /\ out      = [d \in Directions |-> <<>>]
  /\ released = [d \in Directions |-> 0]
  /\ taken    = [d \in Directions |-> 0]
  /\ finished = [d \in Directions |-> FALSE]

Relay ==
  \/ Ready \/ ReadChunk \/ ReadError \/ SendPart \/ SendDataFails \/ ReleaseFails
  \/ EndRequest \/ AwaitError \/ RespondHead \/ RespondHead11 \/ WriteChunk
  \/ WriteError \/ EndResponse

Next ==
  \/ Relay \/ ArriveHead \/ ClosePlain
  \/ \E d \in Directions : Arrive(d) \/ ArriveEnd(d) \/ Take(d)
  \/ \E peer \in Peers : Reset(peer)

Spec == Init /\ [][Next]_vars

(* The task that forwards is polled when it can go on, and peers whose     *)
(* connection is polled send and read what they have to.  Nothing makes a  *)
(* client close its side.                                                  *)
FairSpec ==
  /\ Spec
  /\ WF_vars(Relay) /\ WF_vars(ArriveHead)
  /\ \A d \in Directions : WF_vars(Arrive(d)) /\ WF_vars(ArriveEnd(d)) /\ WF_vars(Take(d))

-------------------------------------------------------------------------------
(* The state has its shape; nothing is released that was not read, which   *)
(* h2 would refuse, and nothing is taken that was not sent.                *)
TypeOK ==
  /\ exchange \in Exchanges
  /\ driven \subseteq Peers /\ reset \subseteq Peers
  /\ stage \in {"ready", "data", "capacity", "write", "end", "await", "done", "failed",
                "panicked"}
  /\ way \in Directions
  /\ headed \in BOOLEAN
  /\ arrived \in [Directions -> Nat] /\ read \in [Directions -> Nat]
  /\ \A d \in Directions : read[d] <= arrived[d] /\ arrived[d] <= Len(Frames(d))
  /\ eos \in [Directions -> BOOLEAN] /\ finished \in [Directions -> BOOLEAN]
  /\ pad \in Nat
  /\ chunk \in [Directions -> Seq(Nat)] /\ out \in [Directions -> Seq(Nat)]
  /\ released \in [Directions -> Nat] /\ taken \in [Directions -> Nat]
  /\ \A d \in Directions :
       /\ released[d] + Len(chunk[d]) <= EndOf(d, read[d])
       /\ taken[d] <= Len(out[d])

(* The bytes that were sent on and the rest of the frame at hand are what  *)
(* data() has returned, each byte once and in its place, in whatever parts *)
(* the windows let them through (src/serv_conn.rs, src/respond.rs).        *)
BytesInOrder ==
  \A d \in Directions :
    out[d] \o chunk[d] = [i \in 1..EndOf(d, read[d]) |-> i]

(* A body that is ended for its receiver was ended by its sender and is    *)
(* whole: a stream that breaks off is never a complete, shorter body.  A   *)
(* plain body has no end but that of its connection, so of it everything   *)
(* is sent on that came before the client closed its side, be it less than *)
(* its content-length (src/body.rs, read_chunk).  A response with an empty *)
(* frame is not whole over HTTP/1.1: see AnsweredOverHttp11.               *)
EndMeansWhole ==
  \A d \in Directions :
    finished[d] /\ (IsH2(Sink(d)) \/ NoEmptyFrame(Frames(d))) =>
      /\ eos[d] /\ Len(out[d]) = EndOf(d, arrived[d])
      /\ ~Plain(d) => arrived[d] = Len(Frames(d))

(* A receiver that is slow slows the sender down: what is held of a stream *)
(* of h2, before and after the relay, fits its window (release_capacity    *)
(* comes after send_data).                                                 *)
HeldFitsWindow ==
  \A d \in Directions :
    /\ IsH2(Source(d)) => EndOf(d, arrived[d]) <= Len(out[d]) + Window
    /\ IsH2(Sink(d)) => Len(out[d]) <= taken[d] + Window

BehindHead == pad + Len(out["response"])

(* LimitWrite: over any number of frames, no more of a response reaches a  *)
(* client of HTTP/1.1 than the content-length and the zeros behind the     *)
(* head, which do not go through it (src/limit.rs, src/respond.rs).        *)
LimitKept ==
  \A limit \in exchange.stated : ~IsH2("client") => BehindHead <= Padding + limit

(* Nothing of a response is passed on before the end of the request was    *)
(* sent, so a service that answers at once and does not read on is not     *)
(* heard if the request exceeds its window (src/serv_conn.rs).             *)
AnswerWaitsForRequest ==
  way = "response" =>
    /\ eos["request"] /\ finished["request"]
    /\ exchange.service = "early" => EndOf("request", arrived["request"]) <= Window

(* The responses that send_response_http1, which releases nothing of what  *)
(* it reads, gets in whole; and those that it does not end before.         *)
FitsHttp11 == ~IsH2("client") => Total("response") <= Window

NotEndedEarly == ~IsH2("client") => NoEmptyFrame(Frames("response"))

(* A client that waits for its answer before it closes its side.           *)
ClientWaits ==
  /\ stage = "data" /\ Plain(way) /\ read[way] = arrived[way] /\ ~eos[way]
  /\ "client" \notin reset

(* With both connections polled, whatever is reset and however the service *)
(* reads, forwarding is over in the end, unless it waits for good in       *)
(* PollCapacity, be it for a stream that is gone or for a service that     *)
(* does not read, or for the end of a plain body whose client waits for    *)
(* the answer.  Responses that do not get in are excepted: see             *)
(* AnsweredOverHttp11.                                                     *)
Stalls == stage = "capacity" \/ ClientWaits

StallsOnlyThere == driven = Peers /\ FitsHttp11 => <>Over \/ <>[]Stalls

(* A request to a service that reads it is answered in whole when nobody   *)
(* goes away, both connections are polled, a client with a plain body      *)
(* closes its side at last, and a client of HTTP/1.1 was told of enough    *)
(* bytes; but for the responses that AnsweredOverHttp11 is about.          *)
Answerable ==
  /\ driven = Peers /\ reset = {} /\ exchange.service = "patient"
  /\ ~IsH2("client") => Allowed(Total("response"))

AnsweredInWhole ==
  stage = "done" /\ finished["response"] /\ Len(out["response"]) = Total("response")

Answered ==
  []Answerable /\ FitsHttp11 /\ NotEndedEarly /\ (Plain("request") => <>eos["request"])
    => <>AnsweredInWhole

(* "then normalize the responses to a common format for responding"        *)
(* (src/lib.rs): what is answered over HTTP/2 is answered over HTTP/1.1.   *)
(* It is not when the response exceeds the window of its stream, as the    *)
(* loop of send_response_http1 does not release what it has written, nor   *)
(* when it has an empty frame before its end.                              *)
AnsweredOverHttp11 ==
  []Answerable /\ (Plain("request") => <>eos["request"]) => <>AnsweredInWhole

===============================================================================
