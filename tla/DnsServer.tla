------------------------------- MODULE DnsServer -------------------------------
(***************************************************************************)
(* The DNS server of src/dns.rs: a main loop that deals the packets it     *)
(* receives to worker threads in turn, each behind a channel of its own,   *)
(* and workers that parse a packet, look its first question up among the   *)
(* configured addresses (some of which are the output of a command) and    *)
(* send a response, or none.                                               *)
(*                                                                         *)
(* Packets are known by the number in which they were received.            *)
(***************************************************************************)
EXTENDS DnsPacket

CONSTANTS
  Queries,     \* what clients ask, as packets
  Rules,       \* AddressMatcher.inner: see RulesAssumption
  Outputs,     \* the addresses that a command may print
  MaxThreads,  \* bound on the threads
  MaxPackets   \* bound on the packets

(* matches: the names, in small letters, that the key of a rule matches.   *)
(* address: the address that the text of a raw rule parses to, if it does. *)
Address == [1..4 -> Octet]

ASSUME RulesAssumption ==
  /\ DOMAIN Rules = 1..Len(Rules) /\ Len(Rules) \in Nat
  /\ \A i \in DOMAIN Rules :
       /\ Rules[i].matches \subseteq Domain
       /\ Rules[i].kind \in {"raw", "cmd"}
       /\ Rules[i].address \in {{}} \cup {{a} : a \in Rules[i].address \cap Address}
  /\ Outputs \subseteq Address

ASSUME BoundsAssumption == MaxThreads \in Nat /\ MaxPackets \in Nat

VARIABLES
  threads,  \* thread_num
  main,     \* the main loop: looping, or panicked
  current,  \* IndexLoop.current
  queue,    \* the channel of each worker
  worker,   \* what each worker is doing
  asked,    \* history: the queries that were received
  answers,  \* history: the responses that were sent, in order
  lost      \* history: the packets that were given no response, and why

vars == <<threads, main, current, queue, worker, asked, answers, lost>>

Worker == 0..(threads - 1)

-------------------------------------------------------------------------------
(* A client: it writes a name as the program does, but for the empty one,  *)
(* the name of the first question as a pointer to it when it comes again,  *)
(* and a record of any other type with its data.  It may also write a      *)
(* pointer where the name of its first question belongs, which then leads  *)
(* to itself.  A datagram may be longer than the buffer of the server.     *)
Circle == "circle"

FirstPointer == <<Byte(192), Byte(12)>>

WireName(n) ==
  CASE n = Root   -> <<Byte(0)>>
    [] n = Circle -> FirstPointer
    [] OTHER      -> NameCells(n)

ClientQuestion(question) == WireName(question.name) \o U16(question.type) \o U16(1)

ClientQuestions(questions) ==
  FlattenSeq([i \in DOMAIN questions |-> ClientQuestion(questions[i])])

ClientName(q, n) ==
  IF n # Root /\ q.questions # <<>> /\ n = q.questions[1].name
    THEN FirstPointer ELSE WireName(n)

ClientData(q, r) ==
  CASE r.type \in {TypeA, TypeAAAA}   -> Octets(r.addr)
    [] r.type \in {TypeNS, TypeCNAME} -> ClientName(q, r.host)
    [] r.type = TypeMX -> U16(r.priority) \o ClientName(q, r.host)
    [] OTHER -> [i \in 1..r.data_len |-> Byte(i)]

ClientRecord(q, r) ==
  LET data == ClientData(q, r)
  IN  ClientName(q, r.domain) \o U16(r.type) \o U16(1) \o U32(r.ttl)
        \o U16(Len(data)) \o data

ClientRecords(q, records) ==
  FlattenSeq([i \in DOMAIN records |-> ClientRecord(q, records[i])])

ClientCells(q) ==
  HeaderCells(q.header, Counts(q))
    \o ClientQuestions(q.questions) \o ClientRecords(q, q.answers)
    \o ClientRecords(q, q.authorities) \o ClientRecords(q, q.resources)

AsksInCircle(q) == q.questions # <<>> /\ q.questions[1].name = Circle

(* What clients ask is a packet, or a question in a circle, behind which   *)
(* nothing is looked at.                                                   *)
ASSUME QueriesAssumption ==
  /\ Circle \notin Name
  /\ \A q \in Queries :
       /\ q.header \in Header
       /\ IF AsksInCircle(q)
            THEN \E type \in Number :
                   q = [EmptyPacket(q.header) EXCEPT
                          !.questions = <<[name |-> Circle, type |-> type]>>]
            ELSE /\ q.questions \in Seq(Question)
                 /\ \A records \in {q.answers, q.authorities, q.resources} :
                      records \in Seq(Record)

-------------------------------------------------------------------------------
Init ==
  /\ threads \in 0..MaxThreads
  /\ main = "looping"
  /\ current = 0
  /\ queue = [w \in Worker |-> <<>>]
  /\ worker = [w \in Worker |-> [pc |-> "idle"]]
  /\ asked = <<>>
  /\ answers = <<>>
  /\ lost = {}

(* Slip: the index goes one too far before it starts again.                *)
NextIndexLate == IF current = threads THEN 0 ELSE current + 1

(* IndexLoop::next, when there are threads.                                *)
NextIndex == (current + 1) % threads

(* What a buffer takes of a datagram.                                      *)
InBuffer(cells) == SubSeq(cells, 1, Min({Size, Len(cells)}))

(* What a worker makes of the buffers that clients may fill.               *)
Request == [buf \in {InBuffer(ClientCells(q)) : q \in Queries} |-> Parsed(buf)]

(* recv_from with a new buffer; a channel takes what it is given.          *)
Receive ==
  /\ main = "looping" /\ threads > 0 /\ Len(asked) < MaxPackets
  /\ \E q \in Queries :
       /\ asked' = Append(asked, q)
       /\ queue' = [queue EXCEPT ![current] =
            Append(@, [no |-> Len(asked) + 1, buf |-> InBuffer(ClientCells(q))])]
  /\ current' = NextIndex
  /\ UNCHANGED <<threads, main, worker, answers, lost>>

(* The number of threads is num_cpus - 1 unless one is given: without any, *)
(* the remainder by zero panics, and with the main thread the process ends.*)
ReceivePanics ==
  /\ main = "looping" /\ threads = 0 /\ Len(asked) < MaxPackets
  /\ \E q \in Queries : asked' = Append(asked, q)
  /\ main' = "panicked"
  /\ UNCHANGED <<threads, current, queue, worker, answers, lost>>

-------------------------------------------------------------------------------
(* The responses of a worker.                                              *)

(* Slip: the response goes out without the id of the request.              *)
ReplyAnew(request, rescode, questions, found) ==
  [EmptyPacket([id |-> 0, opcode |-> 0, rescode |-> rescode,
                flags |-> {"recursion_desired", "recursion_available", "response"}])
   EXCEPT !.questions = questions, !.answers = found]

Reply(request, rescode, questions, found) ==
  [EmptyPacket([id |-> request.header.id, opcode |-> 0, rescode |-> rescode,
                flags |-> {"recursion_desired", "recursion_available", "response"}])
   EXCEPT !.questions = questions, !.answers = found]

(* lookup_regexp_hack, when a text that parses to `parsed` was found: an   *)
(* address for the name, or SERVFAIL when it does not parse.               *)
Answered(request, parsed) ==
  LET question == request.questions[1]
      failed   == Reply(request, SERVFAIL, <<question>>, <<>>)
      found(a) == [type |-> TypeA, domain |-> question.name, ttl |-> 0, addr |-> a]
  IN  IF parsed = {} THEN failed
      ELSE Reply(request, NOERROR, <<question>>, <<found(CHOOSE a \in parsed : TRUE)>>)

(* The rules that match a name; AddressMatcher::matches takes the first.   *)
Matching(name) == {i \in DOMAIN Rules : name \in Rules[i].matches}

FirstRule(name) == Rules[Min(Matching(name))]

Becomes(w, t) == worker' = [worker EXCEPT ![w] = t]

Loses(no, why) == lost' = lost \cup {[no |-> no, why |-> why]}

(* What a worker does with a request that it could parse.                  *)
Replies(w, no, packet) == Becomes(w, [pc |-> "reply", no |-> no, packet |-> packet])

LookUp(w, no, request) ==
  LET question == request.questions[1]
      isAddr   == question.type \in {TypeA, TypeAAAA}
      hits     == Matching(question.name)
  IN  CASE ~isAddr -> Replies(w, no, Reply(request, NOTIMP, <<question>>, <<>>))
        [] isAddr /\ hits = {} -> Replies(w, no, Answered(request, {}))
        [] isAddr /\ hits # {} /\ FirstRule(question.name).kind = "raw" ->
             Replies(w, no, Answered(request, FirstRule(question.name).address))
        [] OTHER -> Becomes(w, [pc |-> "command", no |-> no, request |-> request])

Handle(w, no, request) ==
  IF request.questions = <<>>
    THEN Replies(w, no, Reply(request, FORMERR, <<>>, <<>>))
    ELSE LookUp(w, no, request)

(* Slip: a packet that cannot be parsed ends the loop of the worker.       *)
DropsAndEnds(w, no) == Loses(no, "unread") /\ Becomes(w, [pc |-> "ended"])

(* What a worker makes of a packet that it could not parse.                *)
Drops(w, no) == Loses(no, "unread") /\ UNCHANGED worker

(* It never comes back from a name without an end.                         *)
Hangs(w, no) == Becomes(w, [pc |-> "reading", no |-> no]) /\ UNCHANGED lost

Treats(w, no, p) ==
  CASE p.endless -> Hangs(w, no)
    [] p.failed /\ ~p.endless -> Drops(w, no)
    [] OTHER -> Handle(w, no, p.packet) /\ UNCHANGED lost

(* Slip: the packet that came last is taken first.                         *)
TakeLast(w) ==
  /\ worker[w].pc = "idle" /\ queue[w] # <<>>
  /\ LET got == Last(queue[w])
         p   == Request[got.buf]
     IN  Treats(w, got.no, p)
  /\ queue' = [queue EXCEPT ![w] = Front(@)]
  /\ UNCHANGED <<threads, main, current, asked, answers>>

(* receiver.recv(), and the request as far as a command.                   *)
Take(w) ==
  /\ worker[w].pc = "idle" /\ queue[w] # <<>>
  /\ LET got == Head(queue[w])
         p   == Request[got.buf]
     IN  Treats(w, got.no, p)
  /\ queue' = [queue EXCEPT ![w] = Tail(@)]
  /\ UNCHANGED <<threads, main, current, asked, answers>>

(* Command::output returns an address, or something that does not parse: a *)
(* command that fails stands for an empty text, and one that cannot be     *)
(* started for SERVFAIL as well.  It may also never return.                *)
CommandReturns(w) ==
  /\ worker[w].pc = "command"
  /\ \E parsed \in {{}} \cup {{a} : a \in Outputs} :
       Replies(w, worker[w].no, Answered(worker[w].request, parsed))
  /\ UNCHANGED <<threads, main, current, queue, asked, answers, lost>>

(* What packet.write can write and get_range does not refuse, as it does a *)
(* buffer that is full.                                                    *)
Fits(packet) == CanWrite(packet, Size - 1)

(* send_to may fail; where any of them does, the client is given nothing.  *)
Send(w) ==
  /\ worker[w].pc = "reply"
  /\ IF Fits(worker[w].packet)
       THEN \/ Loses(worker[w].no, "unsent") /\ UNCHANGED answers
            \/ /\ answers' = Append(answers, [to  |-> worker[w].no,
                                             buf |-> PacketCells(worker[w].packet)])
               /\ UNCHANGED lost
       ELSE Loses(worker[w].no, "unwritten") /\ UNCHANGED answers
  /\ Becomes(w, [pc |-> "idle"])
  /\ UNCHANGED <<threads, main, current, queue, asked>>

Work(w) == Take(w) \/ CommandReturns(w) \/ Send(w)

Next == Receive \/ ReceivePanics \/ \E w \in Worker : Work(w)

Spec == Init /\ [][Next]_vars

(* A worker that is not blocked runs.  Nothing is assumed of commands or   *)
(* of clients.                                                             *)
Workers == 0..(MaxThreads - 1)

FairSpec ==
  Spec /\ \A w \in Workers : WF_vars(w \in Worker /\ Take(w)) /\ WF_vars(w \in Worker /\ Send(w))

-------------------------------------------------------------------------------
DealtTo(no) == (no - 1) % threads

Given == {answers[i].to : i \in DOMAIN answers} \cup {l.no : l \in lost}

InHand(w) == IF worker[w].pc \in {"reading", "command", "reply"} THEN {worker[w].no} ELSE {}

Waiting(w) == {queue[w][i].no : i \in DOMAIN queue[w]}

(* Every variable has its type, and the next index is that of a worker.    *)
TypeOK ==
  /\ threads \in 0..MaxThreads
  /\ main \in {"looping", "panicked"}
  /\ current \in 0..(IF threads = 0 THEN 0 ELSE threads - 1)
  /\ DOMAIN queue = Worker /\ DOMAIN worker = Worker
  /\ \A w \in Worker : worker[w].pc \in {"idle", "reading", "command", "reply"}
  /\ asked \in Seq(Queries)
  /\ lost \subseteq [no : Nat, why : {"unread", "unwritten", "unsent"}]

(* Every packet that was received is with the worker whose turn it was, or *)
(* was answered or given up, once; and two packets of one worker are       *)
(* answered in the order in which they came (src/dns.rs, main, IndexLoop). *)
AnsweredInTurn ==
  /\ \A i, j \in DOMAIN answers :
       i < j => /\ answers[i].to # answers[j].to
                /\ DealtTo(answers[i].to) = DealtTo(answers[j].to) =>
                     answers[i].to < answers[j].to
  /\ threads > 0 => \A no \in 1..Len(asked) :
       IF no \in Given THEN \A w \in Worker : no \notin InHand(w) \cup Waiting(w)
                       ELSE \A w \in Worker :
                              no \in InHand(w) \cup Waiting(w) <=> w = DealtTo(no)

SmallName(n) == IF n = Root THEN Root ELSE Lower[n]

SmallLetters(q) == [q EXCEPT !.name = SmallName(@)]

(* What a client may find for a name, whatever its command prints.         *)
MayFind(name, found) ==
  IF Matching(name) = {} THEN found = <<>>
  ELSE LET rule == FirstRule(name)
       IN  IF rule.kind = "cmd" THEN found = <<>> \/ found[1].addr \in Outputs
                                ELSE {found[i].addr : i \in DOMAIN found} = rule.address

(* What belongs to a packet: its first question, and the address of the    *)
(* first rule that matches, or the code of the error.                      *)
Belongs(r, q) ==
  IF q.questions = <<>>
    THEN r.header.rescode = FORMERR /\ r.questions = <<>> /\ r.answers = <<>>
    ELSE LET question == SmallLetters(q.questions[1])
         IN  /\ r.questions = <<question>>
             /\ \A j \in DOMAIN r.answers : r.answers[j].domain = question.name
             /\ IF question.type \in {TypeA, TypeAAAA}
                  THEN /\ MayFind(question.name, r.answers)
                       /\ r.header.rescode = IF r.answers = <<>> THEN SERVFAIL ELSE NOERROR
                  ELSE r.header.rescode = NOTIMP /\ r.answers = <<>>

AsksForRoot(q) == q.questions # <<>> /\ q.questions[1].name = Root

(* A response has the id of the packet it was sent for, and can be read    *)
(* and belongs to it: its first question, and the address of the first     *)
(* rule that matches, or the code of the error.  Only the response to a    *)
(* question for the empty name cannot be read, as write_qname makes two    *)
(* zeros of it.  A packet goes unanswered only when it was longer than the *)
(* buffer, when its name makes the response too long, or when the socket   *)
(* refuses (src/dns.rs, main, the codec and lookup_regexp_hack).           *)
AnsweredAsAsked ==
  /\ \A i \in DOMAIN answers :
       LET q == asked[answers[i].to]
           p == Parsed(answers[i].buf)
       IN  /\ ~AsksInCircle(q)
           /\ p.packet.header.id = q.header.id /\ "response" \in p.packet.header.flags
           /\ AsksForRoot(q) \/ (~p.failed /\ Belongs(p.packet, q))
  /\ \A l \in lost :
       LET q == asked[l.no]
       IN  CASE l.why = "unread" -> Len(ClientCells(q)) > Size
             [] l.why = "unwritten" ->
                  LET name == q.questions[1].name
                  IN  name \in Unwritable \/ 30 + 2 * Len(NameCells(name)) >= Size
             [] OTHER -> TRUE

(* A packet with its names in small letters.                               *)
SmallRecord(r) ==
  IF r.type \in {TypeNS, TypeCNAME, TypeMX}
    THEN [r EXCEPT !.domain = SmallName(@), !.host = SmallName(@)]
    ELSE [r EXCEPT !.domain = SmallName(@)]

SmallRecords(records) == [i \in DOMAIN records |-> SmallRecord(records[i])]

SmallPacket(q) ==
  [header      |-> [q.header EXCEPT !.rescode = RescodeOf(@)],
   questions   |-> [i \in DOMAIN q.questions |-> SmallLetters(q.questions[i])],
   answers     |-> SmallRecords(q.answers),
   authorities |-> SmallRecords(q.authorities),
   resources   |-> SmallRecords(q.resources)]

(* What a worker will read is what the client wrote, its names in small    *)
(* letters, unless they go round in a circle: every kind of record, a name *)
(* behind a pointer, and a record of an unknown type that is stepped over  *)
(* (src/dns.rs, from_buffer).                                              *)
ReadsWhatWasAsked ==
  \A w \in Worker : \A i \in DOMAIN queue[w] :
    LET got == queue[w][i]
        q   == asked[got.no]
        p   == Request[got.buf]
    IN  Len(ClientCells(q)) <= Size /\ ~AsksInCircle(q) =>
        ~p.failed /\ p.packet = SmallPacket(q)

HeldUp(w) ==
  \/ worker[w].pc = "command"
  \/ worker[w].pc = "reading" /\ AsksInCircle(asked[worker[w].no])

(* A packet that was received is answered or given up, whatever the other  *)
(* workers do, unless there are no workers or the one it was dealt to is   *)
(* held up for ever: by a command that does not return, or by a name that  *)
(* goes round in a circle (src/dns.rs, read_qname).                        *)
PacketHandled ==
  \A no \in 1..MaxPackets :
    no <= Len(asked) ~>
      no \in Given \/ main = "panicked" \/ \E w \in Worker : w = DealtTo(no) /\ HeldUp(w)

===============================================================================
