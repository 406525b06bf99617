------------------------------- MODULE DnsPacket -------------------------------
(***************************************************************************)
(* The packets of src/dns.rs: DnsHeader, DnsQuestion, DnsRecord and        *)
(* DnsPacket, as they are written to a BytePacketBuffer and read from it.  *)
(*                                                                         *)
(* A buffer is a sequence of cells: <<"byte", v>>, or <<n, i>> for byte i  *)
(* of the name n.  What is inside a name (labels, pointers behind labels,  *)
(* capital letters) is in module DnsName; here a name is read where it     *)
(* begins, or where a pointer leads to its beginning.                      *)
(***************************************************************************)
EXTENDS Naturals, Sequences, SequencesExt

CONSTANTS
  Size,       \* the length of the buffer (512), scaled
  Name,       \* names, in any spelling, without the empty one
  Lower,      \* each name in small letters
  Width,      \* the bytes that write_qname makes of each name
  Unwritable  \* the names with a label that write_qname refuses

Root == ""    \* the empty name

ASSUME NamesAssumption ==
  /\ Size \in Nat /\ 18 <= Size /\ Root \notin Name /\ "byte" \notin Name
  /\ Lower \in [Name -> Name] /\ \A n \in Name : Lower[Lower[n]] = Lower[n]
  /\ Width \in [Name -> Nat \ {0}] /\ \A n \in Name : Width[Lower[n]] = Width[n]
  /\ Unwritable \subseteq Name
  /\ \A n \in Name : n \in Unwritable <=> Lower[n] \in Unwritable

-------------------------------------------------------------------------------
(* QueryType, by number; every other number is UNKNOWN.                    *)
TypeA     == 1
TypeNS    == 2
TypeCNAME == 5
TypeMX    == 15
TypeAAAA  == 28

NOERROR  == 0
FORMERR  == 1
SERVFAIL == 2
NOTIMP   == 4

(* ResultCode::from_num *)
RescodeOf(num) == IF num <= 5 THEN num ELSE NOERROR

(* The flags of a header, at the bits of its two bytes of flags.           *)
HighBits == [recursion_desired |-> 1, truncated_message |-> 2,
             authoritative_answer |-> 4, response |-> 128]
LowBits  == [checking_disabled |-> 16, authed_data |-> 32, z |-> 64,
             recursion_available |-> 128]
Flag == DOMAIN HighBits \cup DOMAIN LowBits

(* What the fields may hold.                                               *)
Octet  == 0..255
Number == 0..65535
Domain == Name \cup {Root}

Header == [id : Number, opcode : 0..15, flags : SUBSET Flag, rescode : 0..15]

Question == [name : Domain, type : Number]

Addressed(type, n) == [type : {type}, domain : Domain, ttl : Nat, addr : [1..n -> Octet]]

Hosted == [type : {TypeNS, TypeCNAME}, domain : Domain, ttl : Nat, host : Domain]

Exchange ==
  [type : {TypeMX}, domain : Domain, ttl : Nat, priority : Number, host : Domain]

Unknown ==
  [type : Number \ {TypeA, TypeAAAA, TypeNS, TypeCNAME, TypeMX},
   domain : Domain, ttl : Nat, data_len : Number]

Record ==
  Addressed(TypeA, 4) \cup Addressed(TypeAAAA, 16) \cup Hosted \cup Exchange \cup Unknown

-------------------------------------------------------------------------------
(* Writing.                                                                *)

Byte(v) == <<"byte", v>>

U16(v) == <<Byte(v \div 256), Byte(v % 256)>>

U32(v) == U16(v \div 65536) \o U16(v % 65536)

Octets(addr) == [i \in DOMAIN addr |-> Byte(addr[i])]

(* split('.') makes one empty label of the empty name, and it is written.  *)
NameCells(n) ==
  IF n = Root THEN <<Byte(0), Byte(0)>> ELSE [i \in 1..Width[n] |-> <<n, i>>]

FlagIn(bits, flag, flags) == IF flag \in flags THEN bits[flag] ELSE 0

HighByte(h) ==
  8 * h.opcode
    + FlagIn(HighBits, "recursion_desired", h.flags)
    + FlagIn(HighBits, "truncated_message", h.flags)
    + FlagIn(HighBits, "authoritative_answer", h.flags)
    + FlagIn(HighBits, "response", h.flags)

LowByte(h) ==
  h.rescode
    + FlagIn(LowBits, "checking_disabled", h.flags)
    + FlagIn(LowBits, "authed_data", h.flags)
    + FlagIn(LowBits, "z", h.flags)
    + FlagIn(LowBits, "recursion_available", h.flags)

HeaderCells(h, counts) ==
  U16(h.id) \o <<Byte(HighByte(h)), Byte(LowByte(h))>>
    \o U16(counts[1]) \o U16(counts[2]) \o U16(counts[3]) \o U16(counts[4])

QuestionCells(q) == NameCells(q.name) \o U16(q.type) \o U16(1)

Framed(r, data) ==
  NameCells(r.domain) \o U16(r.type) \o U16(1) \o U32(r.ttl) \o U16(Len(data)) \o data

(* An UNKNOWN record is skipped, though it is counted in the header.       *)
RecordCells(r) ==
  CASE r.type \in {TypeA, TypeAAAA}   -> Framed(r, Octets(r.addr))
    [] r.type \in {TypeNS, TypeCNAME} -> Framed(r, NameCells(r.host))
    [] r.type = TypeMX -> Framed(r, U16(r.priority) \o NameCells(r.host))
    [] OTHER -> <<>>

Sections == <<"questions", "answers", "authorities", "resources">>

ItemCells(section, item) ==
  IF section = "questions" THEN QuestionCells(item) ELSE RecordCells(item)

SectionCells(section, items) ==
  FlattenSeq([i \in DOMAIN items |-> ItemCells(section, items[i])])

(* DnsPacket::write sets the counts first.                                 *)
Counts(p) == <<Len(p.questions), Len(p.answers), Len(p.authorities), Len(p.resources)>>

PacketCells(p) ==
  HeaderCells(p.header, Counts(p))
    \o SectionCells("questions", p.questions) \o SectionCells("answers", p.answers)
    \o SectionCells("authorities", p.authorities) \o SectionCells("resources", p.resources)

NamesIn(p) ==
  {q.name : q \in ToSet(p.questions)} \cup
  {r.domain : r \in ToSet(p.answers) \cup ToSet(p.authorities) \cup ToSet(p.resources)}

(* write fails at a label that is too long, or at the end of the buffer.   *)
CanWrite(p, size) == NamesIn(p) \cap Unwritable = {} /\ Len(PacketCells(p)) <= size

-------------------------------------------------------------------------------
(* Reading.  Behind what was received the buffer holds zeros.              *)

CellAt(buf, at) == IF at \in DOMAIN buf THEN buf[at] ELSE Byte(0)

Value(buf, at) == CellAt(buf, at)[2]

U16At(buf, at) == 256 * Value(buf, at) + Value(buf, at + 1)

U32At(buf, at) == 65536 * U16At(buf, at) + U16At(buf, at + 2)

OctetsAt(buf, at, n) == [i \in 1..n |-> Value(buf, at + i - 1)]

IsPointer(cell) == cell[1] = "byte" /\ cell[2] >= 192

(* Where a pointer leads, which counts from 0.                             *)
Hop(buf, at) ==
  IF IsPointer(CellAt(buf, at)) THEN U16At(buf, at) - 192 * 256 + 1 ELSE at

(* The place a name is read from: a pointer may lead to another one.  When *)
(* it still does after more steps than the buffer has pointers, one was    *)
(* met twice, and it always will.                                          *)
Hops(buf) == 1 + Cardinality({p \in 1..Size : IsPointer(CellAt(buf, p))})

Target(buf, at) ==
  LET place[n \in 0..Hops(buf)] == IF n = 0 THEN at ELSE Hop(buf, place[n - 1])
  IN  IF IsPointer(CellAt(buf, at)) THEN place[Hops(buf)] ELSE at

IsEndless(buf, at) == IsPointer(CellAt(buf, Target(buf, at)))

IsNameAt(buf, at) ==
  LET cell == CellAt(buf, Target(buf, at))
  IN  /\ cell = Byte(0) \/ (cell[1] # "byte" /\ cell[2] = 1)
      /\ IsPointer(CellAt(buf, at)) => Target(buf, at) <= Size

NameAt(buf, at) ==
  LET cell == CellAt(buf, Target(buf, at))
  IN  IF cell = Byte(0) THEN Root ELSE Lower[cell[1]]

(* Slip: the pointed-to name is stepped over, not the pointer.             *)
BehindTarget(buf, at) ==
  LET cell == CellAt(buf, Target(buf, at))
  IN  IF cell = Byte(0) THEN at + 1 ELSE at + Width[cell[1]]

(* Where read_qname leaves the buffer.                                     *)
BehindName(buf, at) ==
  CASE IsPointer(CellAt(buf, at)) -> at + 2
    [] CellAt(buf, at) = Byte(0)  -> at + 1
    [] OTHER -> at + Width[CellAt(buf, at)[1]]

FlagsAt(bits, byte) == {f \in DOMAIN bits : (byte \div bits[f]) % 2 = 1}

HeaderAt(buf) ==
  [id      |-> U16At(buf, 1),
   opcode  |-> (Value(buf, 3) \div 8) % 16,
   flags   |-> FlagsAt(HighBits, Value(buf, 3)) \cup FlagsAt(LowBits, Value(buf, 4)),
   rescode |-> RescodeOf(Value(buf, 4) % 16)]

(* An item, the last byte that was read for it, and where the next begins. *)
Item(value, last) == [value |-> value, last |-> last, next |-> last + 1]

QuestionAt(buf, at) ==
  LET b == BehindName(buf, at)
  IN  Item([name |-> NameAt(buf, at), type |-> U16At(buf, b)], b + 3)

(* What comes of an item with a name that cannot be read.                  *)
Unread(at) == [value |-> "none", last |-> Size + 1, next |-> at]

(* The data of a record begins ten bytes behind its name.  The data of an  *)
(* UNKNOWN record is stepped over without a look at the limit.             *)
RecordAt(buf, at) ==
  LET b    == BehindName(buf, at)
      type == U16At(buf, b)
      name == NameAt(buf, at)
      ttl  == U32At(buf, b + 4)
      len  == U16At(buf, b + 8)
      data == b + 10
      host == IF type = TypeMX THEN data + 2 ELSE data
  IN  CASE type \in {TypeA, TypeAAAA} ->
             LET n == IF type = TypeA THEN 4 ELSE 16
             IN  Item([type |-> type, domain |-> name, ttl |-> ttl,
                       addr |-> OctetsAt(buf, data, n)], data + n - 1)
        [] type \in {TypeNS, TypeCNAME, TypeMX} /\ ~IsNameAt(buf, host) -> Unread(host)
        [] type \in {TypeNS, TypeCNAME} /\ IsNameAt(buf, host) ->
             Item([type |-> type, domain |-> name, ttl |-> ttl,
                   host |-> NameAt(buf, host)], BehindName(buf, host) - 1)
        [] type = TypeMX /\ IsNameAt(buf, host) ->
             Item([type |-> type, domain |-> name, ttl |-> ttl,
                   priority |-> U16At(buf, data), host |-> NameAt(buf, host)],
                  BehindName(buf, host) - 1)
        [] OTHER ->
             [value |-> [type |-> type, domain |-> name, ttl |-> ttl, data_len |-> len],
              last |-> data - 1, next |-> data + len]

(* One more item of a section is read, unless reading has failed.          *)
ReadItem(buf, section, c) ==
  IF c.failed \/ ~IsNameAt(buf, c.pos) THEN [c EXCEPT !.failed = TRUE]
  ELSE LET item == IF section = "questions" THEN QuestionAt(buf, c.pos)
                                            ELSE RecordAt(buf, c.pos)
       IN  [pos    |-> item.next,
            failed |-> item.last > Size,
            items  |-> Append(c.items, item.value)]

(* A section, from where the one before it ended: as many as were counted. *)
Count(buf, i) == U16At(buf, 3 + 2 * i)

ReadSection(buf, i, before) ==
  LET after[n \in 0..Count(buf, i)] ==
        IF n = 0 THEN [before EXCEPT !.items = <<>>]
                 ELSE ReadItem(buf, Sections[i], after[n - 1])
  IN  after[Count(buf, i)]

EmptyPacket(header) ==
  [header |-> header, questions |-> <<>>, answers |-> <<>>, authorities |-> <<>>,
   resources |-> <<>>]

(* What comes of the sections: the last one tells whether any has failed.  *)
FromSections(buf, parts) ==
  [failed  |-> parts[4].failed,
   endless |-> parts[4].failed /\ IsEndless(buf, parts[4].pos),
   packet |-> [header      |-> HeaderAt(buf),
               questions   |-> parts[1].items,
               answers     |-> parts[2].items,
               authorities |-> parts[3].items,
               resources   |-> parts[4].items]]

(* DnsPacket::from_buffer, which may fail, where the name at hand cannot   *)
(* be read, or never return, where it has no end.                          *)
Parsed(buf) ==
  LET start == [pos |-> 13, failed |-> FALSE, items |-> <<>>]
      parts[i \in 0..4] == IF i = 0 THEN start ELSE ReadSection(buf, i, parts[i - 1])
  IN  FromSections(buf, parts)

===============================================================================
