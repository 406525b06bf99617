# lolb in TLA+

Specifications of [lolb](../src), a load balancer in which services connect to
the balancer, register themselves and are then routed to, and of the DNS
program that lies beside it. Every definition is translated from the Rust
source; `PROJECT.json` gives the lines each one stands for.

## 1. Inventory

| Part | Source | State | Operations | Talks to |
|---|---|---|---|---|
| Accept loop | `src/src/lib.rs` | the shared `Arc<Mutex<LoadBalancer>>`; per thread the connection at hand | `accept_incoming`, `handle_incoming`, `handle_client` | everything below, one connection at a time and to its end |
| Registration | `lib.rs`, `serv_auth.rs` | preauthed records in the persistence, by reconnect key | `is_service_auth`, `handle_service_auth` | routing table (secret), persistence (save) |
| Reconnection | `lib.rs`, `util.rs` | strong `Arc` in the `drive` closure, weak reference in the table | `handle_incoming` ("lolb" + key), `add_preauthed_service` | persistence (load, under the mutex), h2 client, routing table |
| Routing table | `service.rs` | vectors of domains, hosts, routes, weak connections | `is_valid_secret`, `add_preauthed`, `route` | only called with the mutex held |
| Persistence bridge | `persist.rs` | none, an external store | `save_preauthed`, `load_preauthed`, ACME `put`/`get` | blocks the thread on a channel |
| Peekable socket | `peek.rs` | `buffered` | `peek`, `poll_read` | the socket; three callers peek in turn |
| HTTP/1.1 requests | `http11.rs`, `limit.rs`, `body.rs` | the head's length, the body's limit | `parse_http11`, `LimitRead`, `read_chunk` | Peekable |
| Chunked encoding | `chunked.rs` | `amount_left` | `ChunkedDecoder::data`, `ChunkedEncoder::send_chunk`, `send_finish` | request bodies, HTTP/1.1 responses |
| Forwarding | `serv_conn.rs`, `respond.rs`, `body.rs` | h2 flow-control capacity on two streams | `send_request`, `send_response_http1`, `send_response_http2`, `PollCapacity` | client's and service's h2 connections |
| Connections | `conn.rs` | the ALPN version, whether it is secure | getters | provider of connections (a trait) |
| Configuration, errors, certificates | `conf.rs`, `error.rs` | none (`Config` is empty) | - | - |
| DNS codec | `dns.rs` | buffer of 512 bytes and a position | `read_qname`, `write_qname`, `DnsPacket::from_buffer`, `write` | - |
| DNS server | `dns.rs` | index of the next worker, a channel per worker | `main`'s loops, `IndexLoop`, `AddressMatcher`, `lookup_regexp_hack` | UDP socket, commands of the configuration |

What is hard in this code:

- threads share one mutex, hold it across a blocking wait for the persistence,
  and panic with it in their hands (poisoning);
- connections die without the mutex, while the list they are in is scanned;
- a registration and its redemption are two connections, maybe in two runs of
  the process: records survive a restart, the table does not;
- bytes arrive in arbitrary segments, three peeks of different lengths fill one
  buffer, and everything read later has to come out of it once and in order;
- sizes, limits and bases at their boundaries: content-length, chunk sizes,
  MAX_READ_SIZE, labels, the end of the DNS buffer;
- waiting: a peek for bytes that do not come, a body for a client that is gone,
  capacity for a stream that is gone, a worker for a command that does not return;
- two flow-controlled streams back to back, of connections that somebody has to
  poll: the accepting thread awaits one thing at a time, and polls the client's
  h2 connection only between requests (`lib.rs`, line 218) and the service's not
  at all (the spawn in line 171 is commented out).

What makes each part correct: *accept loop* - the mutex is given back on every
path, and no thread waits for one that is gone; *registration* - only
authorised services are ever routed to; *routing* - a request gets the first
live connection of the best route, and is refused only if there is none;
*HTTP* - bytes are neither lost nor invented, requests are parsed in order,
handling ends; *chunked* - a body is what the sender sent, whole or an error;
*forwarding* - bytes go through once and in order, an end is passed on only when
the body is whole, a slow receiver slows the sender down and a window that was
used up opens again; *DNS* - what is written is read, the reader stands behind
it, and each packet is answered once, as it asks, or given up for a reason.

## 2. Modules

| Module | Stands for | Remarks |
|---|---|---|
| `RouteTable` | rules of `service.rs` on a flat table | operators only; a route is the record a service registers under |
| `Router` | what routing promises | abstract: requests answered in one step |
| `Services` | `service.rs` as it is | nested vectors, find-or-push, stable sorts; implements `Router` |
| `LoadBalancer` | `lib.rs`, `persist.rs`, `serv_auth.rs`, `util.rs` | threads, mutex, poisoning, stepwise `route()`, weak references, restarts; implements `Router` |
| `Http11Connection` | `peek.rs`, `http11.rs`, `limit.rs`, `body.rs`, parts of `lib.rs` | one connection, byte by byte |
| `Chunked` | `chunked.rs`, the body loop of `respond.rs` | one body, byte by byte |
| `Forward` | `serv_conn.rs`, `respond.rs`, `PollCapacity` and `Http11Body` in `body.rs`, `LimitWrite` | one exchange, request and response, frame by frame |
| `DnsName` | names and questions in `dns.rs` | writer, then reader, on one buffer |
| `DnsPointers` | `read_qname` on any packet | the reader of `DnsName` on pointers to pointers, forward, out of the buffer and in circles |
| `DnsPacket` | header, questions and records in `dns.rs` | operators only: what `write` writes and `from_buffer` reads |
| `DnsServer` | `main`, `IndexLoop`, `AddressMatcher`, `lookup_regexp_hack` in `dns.rs` | main loop and workers, on the packets of `DnsPacket` |
| `Retain` | - | the elements of a sequence that are in a set, as a recursive function |
| `SequenceLemmas` | - | induction, recursive functions, parts and concatenations of sequences, `Retained`, `FlattenSeq`: lemmas of the modules below |
| `LoadBalancerProofs`, `ServicesProofs`, `Http11Proofs`, `ChunkedProofs`, `ForwardProofs`, `DnsNameProofs`, `DnsServerProofs` | - | theorems |
| `MC*` | - | values of the constants for TLC |

How state and actions correspond:

- **LoadBalancer.** `lock` and `poisoned` are the `std::sync::Mutex`; `CanLock`
  and `LockPanics` are `lb.lock().unwrap()`. `task[a]` is the program counter
  of thread *a* with the values it has in hand. A step is what happens between
  two points at which another thread, a peer or the persistence can interfere.
  Two critical sections are a single step (`CheckSecret`, `Add`): inside them
  nothing shared can be changed by anyone else. The scan of `route()` is in
  steps (`Prune`, `Find`, `Upgrade`), because strong references are dropped
  without the mutex. A load takes two steps (`LoadKey`, `LoadReply`) with the
  mutex held between them. `strong` is the set of connections whose `Arc` still
  has an owner: the closure `drive`, which is not spawned and dies in
  `DropDrive`. A request that was routed (`Send`) is answered, or its connection ends
  with an error, or the `unwrap` of `h2.send_request` panics without the mutex and
  the thread is gone. `StoreWrite` and `SaveReply` are the external `Persist::save`:
  it may write and answer, fail before or after, or drop the channel. `granted`
  and `opened` are history. How `services` is filled from the
  configuration is not in the source (`Config` is empty): `Configs` is a
  parameter.
- **Services.** One action per call under the mutex. `Connect`, `Disconnect`
  and `Done` are the surroundings.
- **Http11Connection.** A byte is known by its place in a request; the pads are the
  zeros that `peek` writes into its buffer. `PeekRead` is one turn of the loop in
  `peek`, `PeekFails` the error of its read, `AfterPreauth`, `AfterVersion` and
  `AfterHeader` what its three callers do with the result, `Discard` and `ReadBody`
  the reads of `parse_http11` and `read_chunk` through `LimitRead` and `poll_read`,
  `Respond` the next turn of the loop in `handle_client`. What services answer is
  not modelled here, only that they do, or fail (`Fail`). A head may be complete and
  still make no request (`BadEnd`: `uri.build()?`, `bld.body()?`). Bodies are plain;
  chunked ones are in `Chunked`. The client neither speaks HTTP/2 nor sends "lolb".
- **Chunked.** `stage` is the point in `data_res`, `line` the buffer of
  `read_chunk_size`. Digits below `Decimal` are the characters for which
  `is_numeric` holds, those from there to `Hexadecimal` the letters.
- **Forward.** A body is the sequence of the places at which its frames end, and
  a byte is known by its place. For each direction, `arrived` counts the frames
  that the h2 library (or the socket) has received and `read` those that `data()`
  has returned; `chunk` is `body_data`, `out` what `send_data` was given, `released`
  the sum of `release_capacity` and `taken` what the receiver has consumed, so a
  sender may be `released + Window` bytes in and the relay `taken + Window` bytes
  out. `stage` is the await at which the code is: `ready`, `data` (`data().await`),
  `capacity` (`PollCapacity(..).await`), `write` (to an HTTP/1.1 socket), `await`
  (`response.await`), and `way` tells the loop of the request from that of the
  response. The disjuncts of
  `Relay` are the code: `SendDataFails` and `ReleaseFails` are the errors of a stream
  that is reset between the granting of capacity and its use, `RespondHead` and
  `RespondHead11` the two senders of a head. `Arrive`, `ArriveEnd`, `ArriveHead`,
  `ClosePlain`, `Take` and `Reset` are h2 and the peers.
  A client speaks HTTP/2, or HTTP/1.1 with a chunked or a plain body. The "frames"
  of a plain body are what single reads of its socket return. `LimitRead` never
  counts, so a plain body has no end but that of the connection: `ClosePlain`, which
  the client may do at any time, before it has sent its content-length or never. The
  code takes each of these for the end of the body (`read == 0` in `body.rs`, lines
  41-42), and so does the model.
  `pad` counts the zeros that are sent behind a head shorter than its buffer; a
  longer one makes the buffer grow.
  `driven` is the set of peers whose connection is polled while the exchange goes
  on. The source leaves that open: it polls neither, but the h2 library of the day
  may run a connection from elsewhere, so `driven` is any set, and statements about
  progress name the set they need. The HTTP/1.1 head is a size, and the encoding
  of chunks is in `Chunked`.
- **DnsName.** `pos` is the position of the buffer and `at` the local one of
  `read_qname`; each turn of its loop is an action. A write that fails leaves a
  partial record in the code; the buffer is dropped then, so the model does not
  write it.
- **DnsPointers.** Has no steps of its own: it is `DnsName`, begun also where there
  is a question in the buffer, which here is any string of bytes. What the name
  of such a question is, where it ends and whether it is a circle is defined on the
  buffer, without the reader's variables.
- **DnsPacket.** A buffer is a sequence of cells, a byte or the *i*-th byte of a
  name; integers are split into bytes and flags into bits as the code does. Behind
  what was received a buffer holds zeros. A read fails when an item ends behind the
  buffer, which is when one of its reads does; the data of an UNKNOWN record is
  stepped over without that check, as `step` does. A pointer may lead to a pointer:
  `Target` follows as many as there are places for them, and a name that leads on even
  then has no end (`IsEndless`). Names are not taken apart here, so of the pointers
  that lead into a name, or of which the second byte is missing, the model only says
  that nothing can be read there; `DnsPointers` has these byte by byte.
- **DnsServer.** `Receive` is a turn of the main loop, `Take` one of a worker as far
  as a command or a response, `CommandReturns` the rest of it behind a command,
  `Send` the encoding and `send_to`. `Request` gives what `from_buffer` makes of
  each datagram of a client, evaluated once: a packet, a failure (`Drops`), or
  nothing, ever (`Hangs`: the worker stays in `read_qname`). A capital in a name is
  lost when it is read; a rule whose key has one never matches, which `Lower` and
  `matches` keep. A question for AAAA is given an A record, as in the code. The
  clients are external: they write pointers, also in a circle, OPT records and
  datagrams longer than the buffer. `asked`, `answers` and `lost` are history.

Definitions whose comment begins with *Slip* are plausible mistakes in the
definition that follows. No specification uses them. Each property is broken
when one of them takes the place of its target (`mutants` in `PROJECT.json`),
which is how we know that the property depends on the code.

## 3. Runs

| Run | Question | Bounds |
|---|---|---|
| `balancer` | does the stepwise scan route as an atomic look at the table would, with connections dying under it; who holds the mutex, and is it always given back; authorisation, poisoning and nobody stuck, over failures of the persistence and a change of configuration | 3 threads, 2 connections, 1 route, 1 key, good and bad secrets, 1 restart |
| `services` | do nested vectors behave as the flat table | 3 connections, domains that end with each other, nested prefixes |
| `http11` | peeks, heads, bodies and keep-alive | up to 2 requests, sizes 2 < 4 < 7 for 12 < 24 < 16384 |
| `chunked` | decoding in segments, cut anywhere | up to 3 frames, bases 2 and 3 for 10 and 16, reads of 4 |
| `dns_names` | names written and read back, with a pointer to a name without one; what becomes of names whose pointers lead anywhere, and which of them end | buffer of 24, labels up to 2, 1 or 2 questions; every question of 6 bytes over 5 values; `MaxRead` stops a name that never ends at 16 characters |
| `forward` | does every byte go through once and in order, is an end a real end, who is slowed down by whom, and where can an exchange stall | windows of 2 bytes for 65535, bodies of up to 6 bytes in 0 to 5 frames, h2, plain and chunked clients, three kinds of services, resets |
| `dns_server` | are packets dealt in turn, answered once and as asked, and never left without a reason | 0, 1 or 2 workers, 3 packets out of 12 kinds, one with a circle, buffer of 96 |
| `configured_domain`, `subdomains`, `positioned_at_body`, `encoder_base`, `http11_window` | statements of comments that the code does not keep | see section 6 |

Why the bounds are enough: the scan of a list involves the scanner, the thread whose
connection is dying and one that registers, and a list of two connections has a
first, a last and a dead one before a live one; poisoning needs a holder and a
waiter, and the third thread connects meanwhile; one restart separates the record from
the configuration it was made under. Which of several routes is the best one is the
question of `services`, and `Implementation` is proved for any number of them.
`RegisteredOnce` and the other state invariants are proved for all sizes (section
5). In the byte-level modules the scaled sizes keep the order of the real ones, and
each boundary is met from both sides: heads shorter and longer than the preface and
the buffer, chunks at the limit of a read, packets that fill the buffer and that are
one byte too long. In `forward` bodies are empty, as long as a window and up to
three windows long, with frames that fit, fill and exceed what is left of it, so
that a frame goes out in parts; content-lengths are below, at and above what is
sent, and heads of 1 and 3 are shorter and longer than their buffer of 2. The plain
client of `forward` may close in front of every frame, behind the last one, or
never. In `dns_names` there are all chains of up to three pointers that six bytes
have room for, pointers into labels and circles with and without labels in them. In
`dns_server` three packets on two workers put two of them behind each other on one
channel and one beside them.

`services` uses symmetry of connections, which no definition tells apart; `balancer`
has a liveness property and uses none.
`CHECK_DEADLOCK FALSE` stands where the system may really stop: all threads may have
ended with an error of the provider or a panic, a connection or a body is done, an
exchange is over or stalls, packets are bounded. `NoThreadStuck` states what
deadlock freedom means for the threads. `Services` checks deadlock.

`Key`, `Conn` and `MaxRestarts` bound the balancer: a key can be drawn again
(the code draws 64 random bits and does not look whether a key is in use), a
connection is opened once.

## 4. Fairness

- `LoadBalancer!FairSpec`: weak fairness of a thread that scans a list (the
  operating system runs it, and it waits for nothing) and of the answer to a
  load. Persistences that never answer are outside of it; then the mutex is held
  for ever, by construction of the code. Nothing is assumed of peers, of saves
  or of the order in which threads get the mutex.
- `Http11Connection!FairSpec`: the task of the connection is polled when it can
  go on. The client may stop at any time without closing: `EndsAfterClose` is
  about clients that close.
- `Chunked!FairSpec`, `DnsPointers!AnyNameSpec`: the reader, or writer, runs.
- `Forward!FairSpec`: weak fairness of the relay (its task is polled when what it
  awaits is there) and of the peers whose connection is polled (`Moves`): they send
  what the window allows and read what they have. Nobody is obliged to reset
  anything, and no client to close its side (`ClosePlain` has no fairness): a client
  with a plain body may wait for its answer for ever, as `LimitRead` waits for more.
  `Answered` assumes that both connections are polled, that the service reads, and
  of a plain client that it does close; `StallsOnlyThere` only the first of these.
- `DnsServer!FairSpec`: a worker that has a packet or a response goes on. Commands
  may never return and clients may stop. `PacketHandled` excludes the packets whose
  worker is held up: by a command that does not return, or by a packet whose name
  goes round in a circle (that packet, and all behind it). On the packets of the run
  nothing else holds a worker up.

## 5. Proofs

The modules of theorems prove for every value of the constants that the named
assumptions of the modules allow: names are sequences of tokens, the configured
domains of one configuration differ and `NoRecord` is no record (`NamesAssumption`,
`LoadBalancerAssumption`, `ServicesAssumption`); a body is any sequence of frames
that end one behind the other and the window is not zero (`ExchangesAssumption`,
`SizesAssumption` of `Forward`); the peeks are of three growing sizes and a stream
is any sequence of bytes of requests (`SizesAssumption`, `StreamsAssumption` of
`Http11Connection`); the encoder's base is greater than one and smaller than the
decoder's, and frames are any bytes (`BasesAssumption`, `BodiesAssumption`); names
are of ASCII characters and have no empty labels, the longest label is of 1 to 63
bytes and a client's pointer leads to a label of its first name within the reach of
14 bits (`SizesAssumption`, `WrittenAssumption`, `CompressedAssumption` of
`DnsName`); what clients ask is a packet with any questions and records, of numbers
that fit their fields (`QueriesAssumption` of `DnsServer`), a rule matches any names
and its text parses to at most one address (`RulesAssumption`), and the buffer has
room for a header and six bytes, a name in small letters is as long as it was and
writable if it was (`NamesAssumption` of `DnsPacket`).

| Theorem | States |
|---|---|
| `TypeCorrect` | `Spec => []TypeOK` |
| `MutualExclusion` | the mutex is held exactly by the one thread in a critical section |
| `Authorisation` | only registrations sent with the right secret are in the table |
| `RegisteredAtMostOnce` | a connection is in the table at most once |
| `SoleThreadTheorem` | a balancer with one thread never answers |
| `PoisonTheorem` | once the mutex is poisoned nothing enters the table and no thread advances past it |
| `Implementation` | `Spec => R!Spec`: `LoadBalancer` implements `Router` |
| `Typing` | `Spec => []TypeOK` of `Forward`: no capacity is released for a byte that was not read |
| `InOrder` | the bytes sent on and those held are the bytes read, in order |
| `Backpressure` | what is held of a stream fits its window |
| `NeverCutShort` | a stream or a chunked body that breaks off is never ended for its receiver; a plain body is ended with all that came before its client closed |
| `WithinLimit` | `LimitWrite` lets no more than the content-length through, and nothing else but the zeros of the head's buffer is behind the head |
| `AnswerIsLast` | nothing of a response before the end of the request was sent |
| `NothingHidden` (`ServicesProofs`) | no route is in the nested vectors twice |
| `Refinement` (`ServicesProofs`) | `Spec => ImplementsRouter`: the nested vectors, with find-or-push and stable sorts, implement `Router` |
| `Typing` (`Http11Proofs`) | `Spec => []TypeOK`: the buffer never exceeds the longest peek |
| `StreamKept` | Peekable loses, doubles and swaps no byte |
| `SliceFits` | the peeked bytes fit the caller's slice |
| `ServedInOrder` | heads are parsed in the client's order, each once, and discarded to their end |
| `Typing` (`ChunkedProofs`) | `Spec => []TypeOK` |
| `DecodedInOrder` | of a body that the decoder can read (`Decodable`), what was decoded is the payload up to some chunk |
| `WholeAtEnd` | such a body is reported as ended only when it was decoded in whole |
| `NextRequestKept` | then all of it but the last CRLF was read, and nothing behind it |
| `Typing` (`DnsNameProofs`) | `Spec => []TypeOK`: the writer never leaves the buffer |
| `ReadBack` | a name is read as it was written, with or without a pointer, and the reader then stands where its question ends |
| `WholeReadable` | a packet that is whole in the buffer is never refused by the reader |
| `Typing` (`DnsServerProofs`) | `Spec => []TypeOK` |
| `InTurn` | packets are dealt in turn, and each worker answers its own in order and none twice |
| `ReadAsAsked` | `from_buffer` reads what a client wrote, all sections and kinds of records; names in a circle are excepted |
| `RepliesAsAsked` | a response has the id of its packet, can be read and says what the rules say; none is missing without a reason |

The argument. `TypeOK` is inductive on its own. `MutexHeld` is inductive with
it. `OnlyAuthorised` is not: the table is filled from what a thread has in its
hands, which came from the store, which was filled by another thread. `Vouched`
says that everything on that way is in `granted` - records in the store, in a
thread that handshakes or adds, and in one that saves or that checks a secret
that is the right one. `RegisteredOnce` needs that a connection that a thread is
about to add is not in the table (`Entered`), and that two threads never hold
the same one. `SoleThreadNeverRoutes` needs `Owned`: every live connection is in
the hands of the thread that opened it, and the only thread cannot be scanning and
holding a connection at once.

`PoisonStopsAll` needs `PoisonedIsFree`: the panicking thread gives the mutex up,
so that nobody is in a critical section and everybody who asks panics. For
`Implementation` the lemmas `SameCandidates` to `SameRemoveAt` first show that the
operators of `Router` are those of `RouteTable`. Then `ScansRight` is the invariant
of the scan: its route is still the best route of the request, nothing alive is in
front of where it looks, and what it found is in the list. It is inductive because
the table changes only under the mutex (`MutexHeld`), connections that rise are in
no list yet (`Entered`), and removing from a list changes no route (`SameRoutes`).
With `AddedAlive` (what is being added is alive, from `Owned`) and `Vouched`, each
step of a thread is one of `Router` or leaves what `Router` sees as it is: the
request is answered where `Upgrade` succeeds and refused where `RouteLock` finds no
candidate or `Prune` an empty list, the other steps of a scan forget a dead
connection or are not seen.

In `Forward` every theorem but `Typing` needs what the stages mean. `Placed` ties
the stage to the direction, to the client's version and to what was finished: it
says, for one, that what was finished is never written to again. `Held` says that a
loop that is about to read holds no chunk, without which `BytesInOrder` is not
inductive: a frame would be appended behind a gap. `Windows` strengthens
`HeldFitsWindow` to the counters that the windows are made of, and says that a
service that answers early reads nothing; `Counted` turns released and read into
sent. `Ends` says where a stream or a chunked body ends and that the early end of
`send_response_http1` is at an empty frame, from which `EndMeansWhole` follows at
the places that finish a body: of a plain body nothing arrives behind its end, so
what has arrived is what was sent on. `Limited` keeps the zeros behind the head and
the bytes that `LimitWrite` counted apart. Bytes are sequences of any length, so
these hold for any split of any body into frames and portions, where TLC has bodies
of at most six bytes and a window of two.

In `Services` the refinement maps three levels of vectors to one table. The
invariant says that the names at each level are distinct: it is stated as the
sets of vectors (`Routes`, `Hosts`, `Domains`) that the levels belong to, so that
find-or-push is shown once per level to stay in its set. From it follows that a
triple of domain, host and prefix is in at most one place (`PlaceIs`), which is
`NoHiddenEntry`, and that flattening the vectors gives a function from routes to
their connections (`FlatIs`). A push changes it at one route, as `Router` does.
For a lookup, `last()` of a stable sort by length is an entry of the filtered
vector with the longest name, and the nested lookups together choose what
`BestRoute` chooses.

`NothingLostOrReordered` is not inductive: a peek overwrites what is behind
`total` in the buffer. `Positions` says that those are the zeros the buffer was
resized with, as long as the connection peeks, and `RequestsInOrder` needs
`HeadsCounted`, that the heads among the consumed bytes are as many as the
requests served, or nothing is left to be parsed. A body may swallow further
heads, but then the client has closed its side.

The decoder of `Chunked` is always at a split of the body at its chunks
(`Position`): `IsSplit` gives for each chunk the payload before it, the bytes from
there on and the bytes behind the line of its size, and `At` says how much of
that line, of its CRLF or of the payload is still ahead, byte for byte. What the
theorems need of the data is `ReadsBack`: a number written in hexadecimal and read
by `NumberOf` is that number. They are about `Decodable` bodies, as the run is:
sizes whose only letter is the last digit, chunks within MAX_READ_SIZE, and from
the own encoder sizes below ten. Outside of it the code does not decode what
was encoded (section 6), so the condition cannot be dropped.

Of `DnsName`, no property is inductive: nothing in them says what the buffer
holds. `Laid` says of one question that from where it begins to where it ends there
are its labels, one at each of its places, perhaps up to a label from which a
pointer leads back to the places of an earlier name (`Route`), then the zero, the
type and the class. `PacketLaid` says so of every question that is complete in the
packet, which further writing leaves alone. The writer is between two labels of the
name at hand (`AtLabel`), and so is the reader (`Reading`): what it has read is
those before, in small letters, and behind a jump `pos` is just behind the pointer.
Then each byte that the reader looks at is the length of a label, a pointer or the
zero of its route, and nothing else, so that it leaves the question where it ends
and fails only behind the buffer's end. That the labels of a name, joined again,
are the name, is an induction over the characters (`JoinOfLabels`); a pointer and
the two bytes that it is written as are the same number below 2^14.

In `DnsServer`, `AnsweredInTurn` speaks of the answers only. The invariant follows
the packets to there: those a worker has in its queue or in hand are dealt to it,
are not given and come in the order of receipt (`PendingIsDealt`,
`PendingIsOrdered`), and none is missing (`NoneIsMissing`), with which a number that
is not pending is given.

The codec of `DnsPacket` comes in lemmas about cells at a place (`Holds`): a number,
an address or a name that is written at a place is read there (`U16Read`,
`WireNamedHere`), bits that are added up are told apart again, and an item is read
as it was written, whatever its kind (`ItemAs`). A section is the concatenation of
its items, and `FrontsExist` gives the concatenation of the first *k* of them, with
which `SectionRead` is an induction over the items. What a client writes as a
pointer leads to a name in one step (`PointerLeads`), and a packet in a circle is
recognised as such (`CircleRead`), so that no worker ever holds or answers it
(`StuckStays`). `Agree` is about a buffer that took only a part of the datagram and
holds what was sent up to its size: such a datagram fails to parse, or its header
and its first question are read as they were sent (`FirstQuestion`), so that even
then the response belongs to what was asked. `Faithful`, on top of the invariant of
the channels, says of each place where a packet can be what is there for it: in a
channel the buffer that its client filled, with a worker the request or its
response, in `answers` the response as cells and in `lost` the reason.
`ReadsWhatWasAsked` is the first of these with the lemmas of the client's half of
the codec, `AnsweredAsAsked` the last two with those of the program's half.

The recursive functions of the model (`Retained`, `Written`, `NumberOf`, `Labels`,
`Joined`, `FlattenSeq`) are reasoned about by induction all the same:
`SequenceLemmas` states induction for a set of numbers or of sequences instead of an
operator, derived from the well-foundedness of the order on numbers, and each
definition gets one lemma that its function exists and one that two of them agree
(`RecursionExists` gives the function for a step that stays in a set).

`SoleThreadNeverRoutes` has no run: with one thread it would add little to the
proof. The invariants `Positions`, `HeadsCounted`, `Position`, those of
`ServicesProofs` and those about the channels of `DnsServer` were checked with TLC
on the instances of the runs before they were proved. `Faithful` quantifies over all
packets and is only proved.

Not proved, only checked by TLC: everything temporal under fairness
(`MutexReleased`, `EndsAfterClose`, `Decides`, `EndsUnlessCircular`,
`StallsOnlyThere`, `Answered`, `PacketHandled`: liveness is out of the prover's
reach) and `NoThreadStuck` (it uses `ENABLED`).

## 6. Where comments and code disagree

Each of these is a run that TLC finds violated; `findings` in `PROJECT.json`
quotes the line.

- A record of a domain that is no longer configured reaches an `expect` with the
  mutex held, said to be impossible (`configured_domain`).
- The requested host should end with the domain; the code has it the other way
  round (`subdomains`).
- Bodies begin with the zeros of the peek buffer (`positioned_at_body`). For the
  same reason a second request that was not already buffered never parses.
- `ChunkedEncoder` writes decimal sizes, which every decoder reads as
  hexadecimal (`encoder_base`).
- A response that exceeds the window of its stream does not reach a client of
  HTTP/1.1, as `send_response_http1` releases nothing of what it has read
  (`http11_window`).

The rest has no run of its own. The models do what the code does here, and no property
states it as what should be: properties that it would break have a named exception, or
the run leaves such inputs out.

- The drive closure is said to retain the strong reference to a service connection
  (`lib.rs`, lines 156-158; `service.rs`, lines 67-69). It is not spawned
  (line 171) and goes when the function returns (`DropDrive`), so that a connection in
  the table is dead although its service is not. A balancer with a single
  thread never answers anything (`SoleThreadNeverRoutes`, proved).
- `LimitRead`, which "reads up to a limit of bytes" (`limit.rs`, line 6), cuts every
  read and not their sum: in `Http11Connection` a body takes in what its client sends
  behind it, and ends only with the connection. A client that waits for its answer with
  its side open is not answered; `StallsOnlyThere` names this as one of the two places
  where exchanges stall.
- A plain body ends where its client closes its side, be it before its
  content-length: `read_chunk` makes no difference (`body.rs`, lines 39-42), and the
  service gets a complete, shorter body. `EndMeansWhole` claims of a plain body only
  that all which came is sent on.
- A reconnect key is called one-off (`lib.rs`, line 314); nothing removes its
  record, and `LoadKey` finds it as long as it is kept. `RegisteredOnce` is about
  connections, not about keys.
- `PollCapacity` turns the end of a stream into Pending: an exchange whose receiver
  is reset while the relay waits for capacity never ends. `StallsOnlyThere` says that
  exchanges stall there, or with the plain client above, and nowhere else.
- With one processor and no `--num-thread`, `num_cpus::get() - 1` is zero and the
  first packet stops the DNS server (`ReceivePanics`).
- A complete request shorter than the 24 bytes of the HTTP/2 preface waits for
  more (`service.rs`, on PREAUTH_LEN); `http11` contains it, and only promises
  an end for clients that close.
- The decoder stops at the letters of a size (`chunked.rs`, lines 56-57), so that of
  `a0` it reads the `a`, and skips payload in chunks above MAX_READ_SIZE (line 43). Chunk
  sizes with an extension are errors (lines 51-60 and 72). The bodies of the run
  `chunked` have none of these, nor what `encoder_base` is about.
- An empty frame of a response ends it for a client of HTTP/1.1 (`respond.rs`, line 119):
  `EndMeansWhole` and `Answered` except such responses (`NoEmptyFrame`,
  `NotEndedEarly`).
- The zeros behind a short response head (`respond.rs`, lines 98-104) are part of the
  body to the client, which gets more than its content-length. `LimitKept` counts them
  and says that nothing else exceeds it.
- Labels of 53 to 63 characters are refused as longer than 63 (`dns.rs`, lines 168-171),
  and a response that fills the buffer to its last byte is refused as beyond its end
  (`get_range`, line 61): `AnsweredAsAsked` allows that such a response is lost.
- A name that is a pointer to itself, or part of a circle, has no end, and `read_qname`
  never returns from it (lines 87-106). One such packet takes a worker away, with all
  that is dealt to it later: `EndsUnlessCircular` and `PacketHandled` have the exception.
- The empty DNS name is written with two zeros (`dns.rs`, line 166). `dns_server` asks
  for it: its response cannot be read, and `AnsweredAsAsked` has the exception. A
  response that cannot be written is dropped without a word to the client (line 1013).

## 7. Plan

Done: all modules of section 2 and the proofs of section 5. Next, in this order:

1. A composition of `Http11Connection` and `Chunked` for chunked requests with
   keep-alive, and of `Http11Connection` and `Forward` for the bytes of one plain
   request on their way from the socket to the service.
2. `LoadBalancer` with `Forward` in the place of `Send`: threads that stall in an
   exchange accept nothing any more.

## 8. Not modelled

TLS and ACME (declared, not used), `Config` and error messages (no behaviour),
JSON, the h2 library and httparse (external, by what the code expects of them),
the 100 KB bound on a registration (a registration that is too large ends like
any other bad one), `Preauthed::is_valid` (never called), the DNS `lookup`
client (dead code), the start of the DNS program (arguments and configuration
file), the wording of response heads in HTTP/1.1, extensions of chunk sizes.
