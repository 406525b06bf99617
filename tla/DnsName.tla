-------------------------------- MODULE DnsName --------------------------------
(***************************************************************************)
(* The questions of a DNS packet in a BytePacketBuffer (src/dns.rs): they  *)
(* are written with write_qname, or were written by a client that uses     *)
(* a compression pointer, and are read back with read_qname.  The header   *)
(* before them only counts as the place where they begin.  Module          *)
(* DnsPointers has the same reader on any packet.                          *)
(*                                                                         *)
(* Bytes and characters are numbers.  A name is a string of characters, as *)
(* in DnsQuestion, and its labels are what the dots in it separate.        *)
(***************************************************************************)
EXTENDS Integers, Sequences, SequencesExt, FiniteSetsExt

CONSTANTS
  Size,        \* the length of the buffer (512), scaled
  HeaderLen,   \* the length of the header (12), scaled
  MaxLabel,    \* the longest label that write_qname takes (0x34), scaled
  Written,     \* what may be written here: sequences of names
  Compressed   \* what a client may have written: records [first, own, from]

ASSUME SizesAssumption ==
  /\ Size \in Nat /\ HeaderLen \in Nat /\ HeaderLen < Size
  /\ MaxLabel \in 1..63

VARIABLES
  buf,        \* BytePacketBuffer.buf
  pos,        \* BytePacketBuffer.pos
  questions,  \* history: the names that are in the packet
  stage,      \* writing, sending, reading, done, or what failed
  todo,       \* the labels of the name at hand that are still to be written
  count,      \* the questions that were completely written, then read
  ends,       \* history: where each question of the packet ends
  at,         \* the pos of read_qname
  jumped,     \* its jumped
  outstr,     \* its outstr
  got         \* the names that were read

vars == <<buf, pos, questions, stage, todo, count, ends, at, jumped, outstr, got>>

reader  == <<at, jumped, outstr, got>>
writer  == <<buf, questions, todo, ends>>

-------------------------------------------------------------------------------
Dot     == 46
Pointer == 192   \* 0xC0

Lower(c) == IF c \in 65..90 THEN c + 32 ELSE c

LowerCase(s) == [i \in DOMAIN s |-> Lower(s[i])]

(* qname.split('.'): one label more than there are dots.                   *)
LabelsWith(labels, c) ==
  IF c = Dot THEN Append(labels, <<>>) ELSE [labels EXCEPT ![Len(labels)] = Append(@, c)]

Labels(name) ==
  LET upTo[n \in 0..Len(name)] ==
        IF n = 0 THEN <<<<>>>> ELSE LabelsWith(upTo[n - 1], name[n])
  IN  upTo[Len(name)]

LabelBytes(label) == <<Len(label)>> \o label

(* The type A and the class IN, as two u16.                                *)
TypeAndClass == <<0, 1, 0, 1>>

Put(bytes, start, contents) ==
  [i \in 0..(Size - 1) |->
     IF i \in start..(start + Len(bytes) - 1) THEN bytes[i - start + 1] ELSE contents[i]]

(* What a client writes: a name, and a second one whose last labels are a  *)
(* pointer to the place in the first one where they are.                   *)
PlainBytes(labels) == FlattenSeq([i \in DOMAIN labels |-> LabelBytes(labels[i])])

Place(c) == HeaderLen + Len(PlainBytes(SubSeq(Labels(c.first), 1, c.from - 1)))

PointerTo(p) == <<Pointer + p \div 256, p % 256>>

FirstQuestion(c)  == PlainBytes(Labels(c.first)) \o <<0>> \o TypeAndClass
SecondQuestion(c) == PlainBytes(c.own) \o PointerTo(Place(c)) \o TypeAndClass

(* A label behind what was read of a name: delim and push_str.             *)
JoinedWith(s, label) == IF s = <<>> THEN label ELSE (s \o <<Dot>>) \o label

Joined(labels) ==
  LET upTo[n \in 0..Len(labels)] ==
        IF n = 0 THEN <<>> ELSE JoinedWith(upTo[n - 1], labels[n])
  IN  upTo[Len(labels)]

SecondName(c) ==
  Joined(c.own \o SubSeq(Labels(c.first), c.from, Len(Labels(c.first))))

(* Names are in ASCII, where to_lowercase is LowerCase, and have no empty  *)
(* labels.  A pointer has 14 bits.                                         *)
Character == 0..127
Offset    == 0..16383

IsLabel(label) == label \in Seq(Character) /\ label # <<>>

ASSUME WrittenAssumption ==
  \A names \in Written :
    /\ names \in Seq(Seq(Character)) /\ names # <<>>
    /\ \A i \in DOMAIN names : \A j \in DOMAIN Labels(names[i]) : IsLabel(Labels(names[i])[j])

ASSUME CompressedAssumption ==
  \A c \in Compressed :
    /\ c.first \in Seq(Character) /\ c.own \in Seq(Seq(Character))
    /\ c.from \in 1..(Len(Labels(c.first)) + 1) /\ Place(c) \in Offset
    /\ \A labels \in {Labels(c.first), c.own} :
         \A i \in DOMAIN labels : IsLabel(labels[i]) /\ Len(labels[i]) <= 63

-------------------------------------------------------------------------------
Blank == [i \in 0..(Size - 1) |-> 0]

Init ==
  /\ at = HeaderLen /\ jumped = FALSE /\ outstr = <<>> /\ got = <<>> /\ count = 0
  /\ pos = HeaderLen
  /\ \/ /\ questions \in Written
        /\ buf = Blank /\ ends = <<>>
        /\ todo = Labels(Head(questions))
        /\ stage = "writing"
     \/ \E c \in Compressed :
          /\ questions = <<c.first, SecondName(c)>>
          /\ buf = Put(FirstQuestion(c) \o SecondQuestion(c), HeaderLen, Blank)
          /\ ends = <<HeaderLen + Len(FirstQuestion(c)),
                      HeaderLen + Len(FirstQuestion(c) \o SecondQuestion(c))>>
          /\ todo = <<>>
          /\ stage = "reading"

-------------------------------------------------------------------------------
(* Slip: one byte more than the buffer has.                                *)
FitsOneMore(bytes) == pos + Len(bytes) <= Size + 1

(* write_qname and DnsQuestion::write.  An error leaves a part behind in a *)
(* buffer that is dropped.                                                 *)
Fits(bytes) == pos + Len(bytes) <= Size

WriteBytes(bytes) ==
  /\ Fits(bytes)
  /\ buf' = Put(bytes, pos, buf)
  /\ pos' = pos + Len(bytes)

WriteLabel ==
  /\ stage = "writing" /\ todo # <<>>
  /\ Len(Head(todo)) <= MaxLabel
  /\ WriteBytes(LabelBytes(Head(todo)))
  /\ todo' = Tail(todo)
  /\ UNCHANGED <<questions, stage, count, ends>> /\ UNCHANGED reader

LabelTooLong ==
  /\ stage = "writing" /\ todo # <<>>
  /\ Len(Head(todo)) > MaxLabel
  /\ stage' = "label too long"
  /\ UNCHANGED <<buf, pos, questions, todo, count, ends>> /\ UNCHANGED reader

(* The end of the name, the type and the class, and the next question.     *)
WriteEnd ==
  /\ stage = "writing" /\ todo = <<>>
  /\ WriteBytes(<<0>> \o TypeAndClass)
  /\ ends' = Append(ends, pos')
  /\ IF Len(ends) + 1 = Len(questions)
       THEN stage' = "sending" /\ UNCHANGED todo
       ELSE stage' = "writing" /\ todo' = Labels(questions[Len(ends) + 2])
  /\ UNCHANGED <<questions, count>> /\ UNCHANGED reader

BufferFull ==
  /\ stage = "writing"
  /\ \/ todo # <<>> /\ Len(Head(todo)) <= MaxLabel /\ ~Fits(LabelBytes(Head(todo)))
     \/ todo = <<>> /\ ~Fits(<<0>> \o TypeAndClass)
  /\ stage' = "buffer full"
  /\ UNCHANGED <<buf, pos, questions, todo, count, ends>> /\ UNCHANGED reader

(* get_range(start, len) with start + len = n.                             *)
InRange(n) == n < Size

(* get_range(0, len) and the sending of what it returns.                   *)
SendPacket ==
  /\ stage = "sending"
  /\ IF InRange(pos)
       THEN stage' = "reading" /\ pos' = HeaderLen
       ELSE stage' = "out of range" /\ UNCHANGED pos
  /\ UNCHANGED <<count>> /\ UNCHANGED writer /\ UNCHANGED reader

-------------------------------------------------------------------------------
(* read_qname, one turn of its loop at a time, and DnsQuestion::read.  The *)
(* name ends at the empty label, or behind its first pointer.              *)
Behind == IF jumped THEN pos ELSE at + 1

ReadFails ==
  /\ stage = "reading"
  /\ \/ at >= Size
     \/ at < Size /\ buf[at] >= Pointer /\ at + 1 >= Size
     \/ at < Size /\ buf[at] \in 1..(Pointer - 1) /\ ~InRange(at + 1 + buf[at])
     \/ at < Size /\ buf[at] = 0 /\ Behind + Len(TypeAndClass) > Size
  /\ stage' = "unreadable"
  /\ UNCHANGED <<pos, count>> /\ UNCHANGED writer /\ UNCHANGED reader

(* Slip: after a jump the reader is where it was.                          *)
JumpInPlace ==
  /\ stage = "reading" /\ at + 1 < Size /\ buf[at] >= Pointer
  /\ pos' = IF jumped THEN pos ELSE at + 2
  /\ jumped' = TRUE
  /\ UNCHANGED <<stage, count, at, outstr, got>> /\ UNCHANGED writer

(* Slip: the next pointer moves the position of the buffer again.          *)
JumpAgain ==
  /\ stage = "reading" /\ at + 1 < Size /\ buf[at] >= Pointer
  /\ pos' = at + 2
  /\ at' = (buf[at] - Pointer) * 256 + buf[at + 1]
  /\ jumped' = TRUE
  /\ UNCHANGED <<stage, count, outstr, got>> /\ UNCHANGED writer

(* Slip: the two highest bits stay in the offset.                          *)
JumpTagged ==
  /\ stage = "reading" /\ at + 1 < Size /\ buf[at] >= Pointer
  /\ pos' = IF jumped THEN pos ELSE at + 2
  /\ at' = buf[at] * 256 + buf[at + 1]
  /\ jumped' = TRUE
  /\ UNCHANGED <<stage, count, outstr, got>> /\ UNCHANGED writer

Jump ==
  /\ stage = "reading" /\ at + 1 < Size /\ buf[at] >= Pointer
  /\ pos' = IF jumped THEN pos ELSE at + 2
  /\ at' = (buf[at] - Pointer) * 256 + buf[at + 1]
  /\ jumped' = TRUE
  /\ UNCHANGED <<stage, count, outstr, got>> /\ UNCHANGED writer

ReadLabel ==
  /\ stage = "reading" /\ at < Size /\ buf[at] \in 1..(Pointer - 1)
  /\ InRange(at + 1 + buf[at])
  /\ outstr' = JoinedWith(outstr, LowerCase([i \in 1..buf[at] |-> buf[at + i]]))
  /\ at' = at + 1 + buf[at]
  /\ UNCHANGED <<pos, stage, count, jumped, got>> /\ UNCHANGED writer

(* The empty label; the type and the class are read from behind the name.  *)
ReadEnd ==
  /\ stage = "reading" /\ at < Size /\ buf[at] = 0
  /\ pos' = Behind + Len(TypeAndClass)
  /\ pos' <= Size
  /\ got' = Append(got, outstr)
  /\ count' = count + 1
  /\ stage' = IF count' = Len(questions) THEN "done" ELSE "reading"
  /\ at' = pos' /\ jumped' = FALSE /\ outstr' = <<>>
  /\ UNCHANGED writer

Next ==
  \/ WriteLabel \/ LabelTooLong \/ WriteEnd \/ BufferFull \/ SendPacket
  \/ ReadFails \/ Jump \/ ReadLabel \/ ReadEnd

Spec == Init /\ [][Next]_vars

-------------------------------------------------------------------------------
Byte == 0..255

(* The buffer holds bytes, and the writer never leaves it.                 *)
TypeOK ==
  /\ buf \in [0..(Size - 1) -> Byte]
  /\ pos \in Nat /\ at \in Nat /\ count \in 0..Len(questions)
  /\ stage \in {"writing", "label too long", "buffer full", "sending", "out of range",
                "reading", "unreadable", "done"}
  /\ jumped \in BOOLEAN
  /\ \A s \in {outstr} \cup ToSet(got) : \A i \in DOMAIN s : s[i] \in Byte
  /\ stage \in {"writing", "sending"} => pos <= Size

(* A name is read as it was written, in small letters, whether its labels  *)
(* stand together or behind a pointer, no label runs into the next name,    *)
(* and after each question the buffer stands where that question ends,     *)
(* however far back its name was continued (the `jumped` of read_qname).   *)
ReadsWhatWasWritten ==
  /\ \A i \in DOMAIN got : got[i] = LowerCase(questions[i])
  /\ (stage \in {"reading", "done"} /\ count > 0 /\ at = pos /\ ~jumped) => pos = ends[count]

(* A packet that is whole in the buffer can be read: the limits of the     *)
(* reader (get, get_range, read) are no tighter than those of write.       *)
WholeIsReadable == stage = "unreadable" => ends[Len(ends)] > Size

===============================================================================
