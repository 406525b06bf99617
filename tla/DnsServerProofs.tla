---------------------------- MODULE DnsServerProofs ----------------------------
(***************************************************************************)
(* Theorems about DnsServer, for any number of threads and packets, any    *)
(* rules, any queries and any behaviour of the commands and the socket.    *)
(*                                                                         *)
(* First come the lemmas of the codec in DnsPacket: what is read from the  *)
(* cells that a client or a worker wrote, and from the part of them that   *)
(* the buffer took.  Then the invariant of the channels, IInv, and, on top *)
(* of it, that what is in a channel, with a worker, sent or given up       *)
(* belongs to the packet that was asked, Faithful.                         *)
(***************************************************************************)
EXTENDS DnsServer, SequenceLemmas, FiniteSetTheorems

-------------------------------------------------------------------------------
(* What a buffer holds.                                                    *)
Cell == ({"byte"} \cup Name) \X Nat

Cells == Seq(Cell)

Place == Nat \ {0}

Holds(buf, cells, at) == \A j \in 1..Len(cells) : CellAt(buf, (at - 1) + j) = cells[j]

LEMMA Shifted ==
  ASSUME NEW at \in Place, NEW n \in Nat, NEW j \in Nat
  PROVE  (at - 1) + (n + j) = ((at + n) - 1) + j /\ at + n \in Place
BY DEF Place

LEMMA HoldsBoth ==
  ASSUME NEW buf, NEW x \in Cells, NEW y \in Cells, NEW at \in Place,
         Holds(buf, x \o y, at)
  PROVE  /\ Holds(buf, x, at) /\ Holds(buf, y, at + Len(x)) /\ at + Len(x) \in Place
         /\ x \o y \in Cells /\ Len(x \o y) = Len(x) + Len(y)
<1>1. /\ x \o y \in Cells /\ Len(x \o y) = Len(x) + Len(y)
      /\ \A i \in 1..(Len(x) + Len(y)) : (x \o y)[i] = IF i <= Len(x) THEN x[i] ELSE y[i - Len(x)]
      BY ConcatProperties DEF Cells
<1>2. Len(x) \in Nat /\ Len(y) \in Nat
      BY DEF Cells
<1>3. ASSUME NEW j \in 1..Len(x) PROVE CellAt(buf, (at - 1) + j) = x[j]
  <2>1. j \in 1..(Len(x) + Len(y)) /\ j <= Len(x)
        BY <1>2
  <2> QED BY <1>1, <2>1 DEF Holds
<1>4. ASSUME NEW j \in 1..Len(y) PROVE CellAt(buf, ((at + Len(x)) - 1) + j) = y[j]
  <2>1. /\ Len(x) + j \in 1..(Len(x) + Len(y)) /\ ~(Len(x) + j <= Len(x))
        /\ (Len(x) + j) - Len(x) = j /\ j \in Nat
        BY <1>2
  <2>2. CellAt(buf, (at - 1) + (Len(x) + j)) = (x \o y)[Len(x) + j]
        BY <1>1, <2>1 DEF Holds
  <2>3. (x \o y)[Len(x) + j] = y[j]
        BY <1>1, <2>1
  <2>4. (at - 1) + (Len(x) + j) = ((at + Len(x)) - 1) + j
        BY <1>2, <2>1, Shifted, Zenon
  <2> QED BY <2>2, <2>3, <2>4, Zenon
<1>5. at + Len(x) \in Place
      BY <1>2, Shifted, Zenon
<1> QED BY <1>1, <1>3, <1>4, <1>5, Zenon DEF Holds

(* The first and the second cell.                                          *)
LEMMA HoldsFirst ==
  ASSUME NEW buf, NEW cells \in Cells, NEW at \in Place, Holds(buf, cells, at), cells # <<>>
  PROVE  CellAt(buf, at) = cells[1]
<1>1. 1 \in 1..Len(cells) /\ (at - 1) + 1 = at
      BY DEF Cells, Place
<1> QED BY <1>1 DEF Holds

-------------------------------------------------------------------------------
(* Bytes and numbers.                                                      *)
LEMMA ByteIs ==
  ASSUME NEW v \in Nat
  PROVE  Byte(v) \in Cell /\ Byte(v)[1] = "byte" /\ Byte(v)[2] = v
BY DEF Byte, Cell

LEMMA Division ==
  ASSUME NEW n \in Nat, NEW t \in Nat, t > 0
  PROVE  /\ n = t * (n \div t) + (n % t)
         /\ n \div t \in Nat /\ n % t \in 0..(t - 1)
OBVIOUS

LEMMA BytesOf ==
  ASSUME NEW v \in Nat
  PROVE  v \div 256 \in Nat /\ v % 256 \in Nat /\ v = 256 * (v \div 256) + (v % 256)
<1>1. v = 256 * (v \div 256) + (v % 256)
      BY Division
<1>2. v \div 256 \in Nat /\ v % 256 \in Nat
      BY Division
<1> QED BY <1>1, <1>2

LEMMA HalvesOf ==
  ASSUME NEW v \in Nat
  PROVE  v \div 65536 \in Nat /\ v % 65536 \in Nat /\ v = 65536 * (v \div 65536) + (v % 65536)
<1>1. v = 65536 * (v \div 65536) + (v % 65536)
      BY Division
<1>2. v \div 65536 \in Nat /\ v % 65536 \in Nat
      BY Division
<1> QED BY <1>1, <1>2

LEMMA U16Is ==
  ASSUME NEW v \in Nat
  PROVE  U16(v) \in Cells /\ Len(U16(v)) = 2
         /\ U16(v)[1] = Byte(v \div 256) /\ U16(v)[2] = Byte(v % 256)
BY BytesOf, ByteIs DEF U16, Cells

LEMMA U16Read ==
  ASSUME NEW buf, NEW v \in Nat, NEW at \in Place, Holds(buf, U16(v), at)
  PROVE  U16At(buf, at) = v
<1>1. Len(U16(v)) = 2 /\ U16(v)[1] = Byte(v \div 256) /\ U16(v)[2] = Byte(v % 256)
      BY U16Is
<1>2. (at - 1) + 1 = at /\ (at - 1) + 2 = at + 1 /\ 1 \in 1..2 /\ 2 \in 1..2
      BY DEF Place
<1>3. CellAt(buf, at) = Byte(v \div 256) /\ CellAt(buf, at + 1) = Byte(v % 256)
      BY <1>1, <1>2 DEF Holds
<1>4. Value(buf, at) = v \div 256 /\ Value(buf, at + 1) = v % 256
      BY <1>3, BytesOf, ByteIs DEF Value
<1> QED BY <1>4, BytesOf DEF U16At

LEMMA U32Is ==
  ASSUME NEW v \in Nat
  PROVE  U32(v) \in Cells /\ Len(U32(v)) = 4
<1> DEFINE a == U16(v \div 65536)
           b == U16(v % 65536)
<1>1. a \in Cells /\ b \in Cells /\ Len(a) = 2 /\ Len(b) = 2
      BY HalvesOf, U16Is
<1> HIDE DEF a, b
<1>2. a \o b \in Cells /\ Len(a \o b) = Len(a) + Len(b)
      BY <1>1, ConcatProperties DEF Cells
<1>3. a \o b = U32(v)
      BY DEF U32, a, b
<1>4. Len(a \o b) = 4
      BY <1>1, <1>2
<1> QED BY <1>2, <1>3, <1>4, Zenon

LEMMA U32Read ==
  ASSUME NEW buf, NEW v \in Nat, NEW at \in Place, Holds(buf, U32(v), at)
  PROVE  U32At(buf, at) = v
<1> DEFINE h == v \div 65536
           l == v % 65536
<1>1. h \in Nat /\ l \in Nat /\ v = 65536 * h + l
      BY HalvesOf
<1> HIDE DEF h, l
<1>2. U16(h) \in Cells /\ U16(l) \in Cells /\ Len(U16(h)) = 2
      BY <1>1, U16Is
<1>3. Holds(buf, U16(h) \o U16(l), at)
      BY DEF U32, h, l
<1>4. Holds(buf, U16(h), at) /\ Holds(buf, U16(l), at + 2) /\ at + 2 \in Place
      BY <1>2, <1>3, HoldsBoth
<1>5. U16At(buf, at) = h /\ U16At(buf, at + 2) = l
      BY <1>1, <1>4, U16Read
<1> QED BY <1>1, <1>5 DEF U32At

-------------------------------------------------------------------------------
(* Names.                                                                  *)
NamedAt(buf, at, n, w) ==
  IsNameAt(buf, at) /\ NameAt(buf, at) = n /\ BehindName(buf, at) = at + w

LEMMA NameCellsIs ==
  ASSUME NEW n \in Name
  PROVE  /\ NameCells(n) \in Cells /\ Len(NameCells(n)) = Width[n] /\ Width[n] \in Nat \ {0}
         /\ NameCells(n)[1] = <<n, 1>>
<1>1. n # Root /\ Width[n] \in Nat \ {0}
      BY NamesAssumption
<1>2. NameCells(n) = [i \in 1..Width[n] |-> <<n, i>>]
      BY <1>1 DEF NameCells
<1> DEFINE w == Width[n]
<1>3. w \in Nat \ {0} /\ 1 \in 1..w
      BY <1>1
<1>4. NameCells(n) = [i \in 1..w |-> <<n, i>>]
      BY <1>2
<1> HIDE DEF w
<1>5. \A i \in 1..w : <<n, i>> \in Cell
      BY <1>3 DEF Cell
<1>6. NameCells(n) \in Cells
      BY <1>3, <1>4, <1>5 DEF Cells
<1>7. Len(NameCells(n)) = w
      BY <1>3, <1>4
<1>8. NameCells(n)[1] = <<n, 1>>
      BY <1>3, <1>4
<1> QED BY <1>3, <1>6, <1>7, <1>8 DEF w

(* A name as anybody writes it, and as a client does.                      *)
LEMMA AnyNameCells ==
  ASSUME NEW n \in Domain
  PROVE  NameCells(n) \in Cells /\ Len(NameCells(n)) \in Nat
<1>1. CASE n \in Name
      BY <1>1, NameCellsIs
<1>2. CASE n = Root
  <2>1. NameCells(n) = << Byte(0), Byte(0) >> /\ Byte(0) \in Cell
        BY <1>2, ByteIs DEF NameCells
  <2> QED BY <2>1 DEF Cells
<1> QED BY <1>1, <1>2 DEF Domain

LEMMA NoCircle ==
  ASSUME NEW n \in Domain
  PROVE  n # Circle /\ Circle # Root
BY QueriesAssumption DEF Domain, Circle, Root

LEMMA WireNameIs ==
  ASSUME NEW n \in Domain
  PROVE  WireName(n) \in Cells /\ Len(WireName(n)) \in Nat \ {0} /\ WireName(n) # <<>>
<1>1. CASE n = Root
  <2>1. WireName(n) = << Byte(0) >> /\ Byte(0) \in Cell
        BY <1>1, ByteIs, NoCircle DEF WireName
  <2> QED BY <2>1 DEF Cells
<1>2. CASE n # Root
  <2>1. n \in Name /\ WireName(n) = NameCells(n)
        BY <1>2, NoCircle DEF Domain, WireName
  <2>2. NameCells(n) \in Cells /\ Len(NameCells(n)) \in Nat \ {0}
        BY <2>1, NameCellsIs
  <2> QED BY <2>1, <2>2
<1> QED BY <1>1, <1>2

LEMMA NamedHere ==
  ASSUME NEW buf, NEW at \in Place, NEW n \in Name, CellAt(buf, at) = <<n, 1>>
  PROVE  NamedAt(buf, at, Lower[n], Width[n])
<1>1. <<n, 1>>[1] = n /\ <<n, 1>>[2] = 1 /\ n # "byte"
      BY NamesAssumption
<1>2. ~IsPointer(<<n, 1>>) /\ <<n, 1>> # Byte(0)
      BY <1>1 DEF IsPointer, Byte
<1>3. Target(buf, at) = at
      BY <1>2 DEF Target
<1> QED BY <1>1, <1>2, <1>3 DEF NamedAt, IsNameAt, NameAt, BehindName

LEMMA ZeroHere ==
  ASSUME NEW buf, NEW at \in Place, CellAt(buf, at) = Byte(0)
  PROVE  NamedAt(buf, at, Root, 1)
<1>1. ~IsPointer(Byte(0))
      BY ByteIs DEF IsPointer
<1>2. Target(buf, at) = at
      BY <1>1 DEF Target
<1> QED BY <1>1, <1>2 DEF NamedAt, IsNameAt, NameAt, BehindName

LEMMA WireNamedHere ==
  ASSUME NEW buf, NEW at \in Place, NEW n \in Domain, CellAt(buf, at) = WireName(n)[1]
  PROVE  NamedAt(buf, at, SmallName(n), Len(WireName(n)))
<1>1. CASE n = Root
  <2>1. WireName(n) = << Byte(0) >> /\ SmallName(n) = Root
        BY <1>1, NoCircle DEF WireName, SmallName
  <2>2. WireName(n)[1] = Byte(0) /\ Len(WireName(n)) = 1
        BY <2>1
  <2> QED BY <2>1, <2>2, ZeroHere
<1>2. CASE n # Root
  <2>1. n \in Name /\ WireName(n) = NameCells(n) /\ SmallName(n) = Lower[n]
        BY <1>2, NoCircle DEF Domain, WireName, SmallName
  <2>2. WireName(n)[1] = <<n, 1>> /\ Len(WireName(n)) = Width[n]
        BY <2>1, NameCellsIs
  <2> QED BY <2>1, <2>2, NamedHere
<1> QED BY <1>1, <1>2

(* Where a pointer leads, when that is no pointer, or is itself.           *)
LEMMA HopsAre ==
  ASSUME NEW buf
  PROVE  Hops(buf) \in Nat /\ Hops(buf) >= 1
<1> DEFINE P == {p \in 1..Size : IsPointer(CellAt(buf, p))}
<1>1. P \subseteq 1..Size /\ IsFiniteSet(1..Size)
      BY FS_Interval, NamesAssumption
<1>2. IsFiniteSet(P)
      BY <1>1, FS_Subset
<1>3. Cardinality(P) \in Nat
      BY <1>2, FS_CardinalityType
<1>4. Hops(buf) = 1 + Cardinality(P)
      BY DEF Hops
<1> HIDE DEF P
<1> QED BY <1>3, <1>4

LEMMA PointerLeads ==
  ASSUME NEW buf, NEW at, IsPointer(CellAt(buf, at)),
         NEW to, U16At(buf, at) - 192 * 256 + 1 = to,
         to = at \/ ~IsPointer(CellAt(buf, to))
  PROVE  Target(buf, at) = to
<1> DEFINE m == Hops(buf)
           P(g) == g = [n \in 0..Hops(buf) |-> IF n = 0 THEN at ELSE Hop(buf, g[n - 1])]
           place == CHOOSE g : P(g)
<1>1. m \in Nat /\ m >= 1
      BY HopsAre
<1>2. Hop(buf, at) = to /\ Hop(buf, to) = to
      BY DEF Hop
<1>3. Target(buf, at) = place[m]
      BY DEF Target
<1>4. P(place)
  <2> DEFINE h == [n \in 0..m |-> IF n = 0 THEN at ELSE to]
  <2>1. ASSUME NEW n \in 0..m
        PROVE  h[n] = IF n = 0 THEN at ELSE Hop(buf, h[n - 1])
    <3>1. CASE n = 0
          BY <1>1, <3>1
    <3>2. CASE n # 0
      <4>1. n - 1 \in 0..m /\ h[n] = to
            BY <1>1, <3>2
      <4>2. h[n - 1] = at \/ h[n - 1] = to
            BY <4>1
      <4> HIDE DEF h
      <4> QED BY <1>2, <3>2, <4>1, <4>2
    <3> QED BY <3>1, <3>2
  <2>2. h = [n \in 0..m |-> h[n]]
        OBVIOUS
  <2> HIDE DEF h
  <2>3. P(h)
        BY <2>1, <2>2
  <2> HIDE DEF P
  <2> QED BY <2>3
<1> HIDE DEF place
<1>5. \A n \in 0..m : place[n] = IF n = 0 THEN at ELSE Hop(buf, place[n - 1])
      BY <1>4
<1> HIDE DEF P, m
<1> DEFINE A == {n \in Nat : n + 1 <= m => place[n + 1] = to}
<1>6. 0 \in A
  <2>1. 0 \in 0..m /\ 1 \in 0..m /\ 1 - 1 = 0
        BY <1>1
  <2>2. place[0] = at
        BY <1>5, <2>1
  <2>3. place[1] = Hop(buf, place[0])
        BY <1>5, <2>1
  <2> QED BY <1>2, <2>2, <2>3
<1>7. ASSUME NEW n \in Nat, n \in A PROVE n + 1 \in A
  <2> SUFFICES ASSUME (n + 1) + 1 <= m PROVE place[(n + 1) + 1] = to
      OBVIOUS
  <2>1. (n + 1) + 1 \in 0..m /\ (n + 1) + 1 # 0 /\ ((n + 1) + 1) - 1 = n + 1 /\ n + 1 <= m
        BY <1>1
  <2>2. place[(n + 1) + 1] = Hop(buf, place[n + 1])
        BY <1>5, <2>1
  <2> QED BY <1>2, <1>7, <2>1, <2>2
<1> HIDE DEF A
<1>8. Nat \subseteq A
      BY <1>6, <1>7, Induction
<1>9. m - 1 \in A /\ (m - 1) + 1 = m /\ m <= m
      BY <1>1, <1>8
<1> QED BY <1>3, <1>9 DEF A

(* A pointer to the first question.                                        *)
LEMMA PointerNamed ==
  ASSUME NEW buf, NEW at \in Place, NEW n \in Name,
         Holds(buf, FirstPointer, at), CellAt(buf, 13) = <<n, 1>>
  PROVE  NamedAt(buf, at, Lower[n], 2)
<1>1. Len(FirstPointer) = 2 /\ FirstPointer[1] = Byte(192) /\ FirstPointer[2] = Byte(12)
      BY DEF FirstPointer
<1>2. (at - 1) + 1 = at /\ (at - 1) + 2 = at + 1 /\ 1 \in 1..2 /\ 2 \in 1..2
      BY DEF Place
<1>3. CellAt(buf, at) = Byte(192) /\ CellAt(buf, at + 1) = Byte(12)
      BY <1>1, <1>2 DEF Holds
<1>4. Byte(192)[1] = "byte" /\ Byte(192)[2] = 192 /\ Byte(12)[2] = 12
      BY ByteIs
<1>5. IsPointer(CellAt(buf, at))
      BY <1>3, <1>4 DEF IsPointer
<1>6. U16At(buf, at) - 192 * 256 + 1 = 13
      BY <1>3, <1>4 DEF U16At, Value
<1>8. <<n, 1>>[1] = n /\ <<n, 1>>[2] = 1 /\ n # "byte" /\ <<n, 1>> # Byte(0)
      BY NamesAssumption DEF Byte
<1>7. Target(buf, at) = 13
  <2>1. ~IsPointer(CellAt(buf, 13))
        BY <1>8 DEF IsPointer
  <2> QED BY <1>5, <1>6, <2>1, PointerLeads
<1>9. IsNameAt(buf, at)
  <2>1. 13 <= Size
        BY NamesAssumption
  <2> QED BY <1>7, <1>8, <2>1 DEF IsNameAt
<1>10. NameAt(buf, at) = Lower[n]
      BY <1>7, <1>8 DEF NameAt
<1>11. CellAt(buf, at) # Byte(0)
      BY <1>3, <1>4, ByteIs
<1>12. BehindName(buf, at) = at + 2
      BY <1>5, <1>11 DEF BehindName
<1> QED BY <1>9, <1>10, <1>12 DEF NamedAt

-------------------------------------------------------------------------------
(* The header.                                                             *)
HighSum(v, op, a, b, c, d) ==
  /\ op \in 0..15 /\ a \in {0, 1} /\ b \in {0, 2} /\ c \in {0, 4} /\ d \in {0, 128}
  /\ v = 8 * op + a + b + c + d

HighBitsAre(v, op, a, b, c, d) ==
  /\ v \in Nat /\ (v \div 8) % 16 = op
  /\ (v \div 1) % 2 = 1 <=> a # 0
  /\ (v \div 2) % 2 = 1 <=> b # 0
  /\ (v \div 4) % 2 = 1 <=> c # 0
  /\ (v \div 128) % 2 = 1 <=> d # 0

LEMMA HighBitsOf ==
  ASSUME NEW op, NEW a, NEW b, NEW c, NEW d, NEW v, HighSum(v, op, a, b, c, d)
  PROVE  HighBitsAre(v, op, a, b, c, d)
BY DEF HighSum, HighBitsAre

LowSum(v, code, a, b, c, d) ==
  /\ code \in 0..15 /\ a \in {0, 16} /\ b \in {0, 32} /\ c \in {0, 64} /\ d \in {0, 128}
  /\ v = code + a + b + c + d

LowBitsAre(v, code, a, b, c, d) ==
  /\ v \in Nat /\ v % 16 = code
  /\ (v \div 16) % 2 = 1 <=> a # 0
  /\ (v \div 32) % 2 = 1 <=> b # 0
  /\ (v \div 64) % 2 = 1 <=> c # 0
  /\ (v \div 128) % 2 = 1 <=> d # 0

LEMMA LowBitsOf ==
  ASSUME NEW code, NEW a, NEW b, NEW c, NEW d, NEW v, LowSum(v, code, a, b, c, d)
  PROVE  LowBitsAre(v, code, a, b, c, d)
BY DEF LowSum, LowBitsAre

LEMMA HighByteRead ==
  ASSUME NEW h \in Header
  PROVE  /\ HighByte(h) \in Nat /\ (HighByte(h) \div 8) % 16 = h.opcode
         /\ FlagsAt(HighBits, HighByte(h)) = h.flags \cap DOMAIN HighBits
<1> DEFINE v == HighByte(h)
           a == FlagIn(HighBits, "recursion_desired", h.flags)
           b == FlagIn(HighBits, "truncated_message", h.flags)
           c == FlagIn(HighBits, "authoritative_answer", h.flags)
           d == FlagIn(HighBits, "response", h.flags)
<1>1. /\ HighBits["recursion_desired"] = 1 /\ HighBits["truncated_message"] = 2
      /\ HighBits["authoritative_answer"] = 4 /\ HighBits["response"] = 128
      BY DEF HighBits
<1>2. DOMAIN HighBits = {"recursion_desired", "truncated_message", "authoritative_answer", "response"}
      BY DEF HighBits
<1>3. /\ a \in {0, 1} /\ (a # 0 <=> "recursion_desired" \in h.flags)
      /\ b \in {0, 2} /\ (b # 0 <=> "truncated_message" \in h.flags)
      /\ c \in {0, 4} /\ (c # 0 <=> "authoritative_answer" \in h.flags)
      /\ d \in {0, 128} /\ (d # 0 <=> "response" \in h.flags)
      BY <1>1 DEF FlagIn
<1>4. v = 8 * h.opcode + a + b + c + d /\ h.opcode \in 0..15
      BY DEF HighByte, Header
<1> HIDE DEF v, a, b, c, d
<1>3a. HighSum(v, h.opcode, a, b, c, d)
      BY <1>3, <1>4 DEF HighSum
<1>4a. HighBitsAre(v, h.opcode, a, b, c, d)
      BY <1>3a, HighBitsOf, Zenon
<1>5. /\ v \in Nat /\ (v \div 8) % 16 = h.opcode
      /\ (v \div 1) % 2 = 1 <=> a # 0
      /\ (v \div 2) % 2 = 1 <=> b # 0
      /\ (v \div 4) % 2 = 1 <=> c # 0
      /\ (v \div 128) % 2 = 1 <=> d # 0
      BY <1>4a DEF HighBitsAre
<1>6. \A f \in DOMAIN HighBits : (v \div HighBits[f]) % 2 = 1 <=> f \in h.flags
      BY <1>1, <1>2, <1>3, <1>5
<1>7. FlagsAt(HighBits, v) = h.flags \cap DOMAIN HighBits
      BY <1>6 DEF FlagsAt
<1> QED BY <1>5, <1>7 DEF v

LEMMA LowByteRead ==
  ASSUME NEW h \in Header
  PROVE  /\ LowByte(h) \in Nat /\ LowByte(h) % 16 = h.rescode
         /\ FlagsAt(LowBits, LowByte(h)) = h.flags \cap DOMAIN LowBits
<1> DEFINE v == LowByte(h)
           a == FlagIn(LowBits, "checking_disabled", h.flags)
           b == FlagIn(LowBits, "authed_data", h.flags)
           c == FlagIn(LowBits, "z", h.flags)
           d == FlagIn(LowBits, "recursion_available", h.flags)
<1>1. /\ LowBits["checking_disabled"] = 16 /\ LowBits["authed_data"] = 32
      /\ LowBits["z"] = 64 /\ LowBits["recursion_available"] = 128
      BY DEF LowBits
<1>2. DOMAIN LowBits = {"checking_disabled", "authed_data", "z", "recursion_available"}
      BY DEF LowBits
<1>3. /\ a \in {0, 16} /\ (a # 0 <=> "checking_disabled" \in h.flags)
      /\ b \in {0, 32} /\ (b # 0 <=> "authed_data" \in h.flags)
      /\ c \in {0, 64} /\ (c # 0 <=> "z" \in h.flags)
      /\ d \in {0, 128} /\ (d # 0 <=> "recursion_available" \in h.flags)
      BY <1>1 DEF FlagIn
<1>4. v = h.rescode + a + b + c + d /\ h.rescode \in 0..15
      BY DEF LowByte, Header
<1> HIDE DEF v, a, b, c, d
<1>3a. LowSum(v, h.rescode, a, b, c, d)
      BY <1>3, <1>4 DEF LowSum
<1>4a. LowBitsAre(v, h.rescode, a, b, c, d)
      BY <1>3a, LowBitsOf, Zenon
<1>5. /\ v \in Nat /\ v % 16 = h.rescode
      /\ (v \div 16) % 2 = 1 <=> a # 0
      /\ (v \div 32) % 2 = 1 <=> b # 0
      /\ (v \div 64) % 2 = 1 <=> c # 0
      /\ (v \div 128) % 2 = 1 <=> d # 0
      BY <1>4a DEF LowBitsAre
<1>6. \A f \in DOMAIN LowBits : (v \div LowBits[f]) % 2 = 1 <=> f \in h.flags
      BY <1>1, <1>2, <1>3, <1>5
<1>7. FlagsAt(LowBits, v) = h.flags \cap DOMAIN LowBits
      BY <1>6 DEF FlagsAt
<1> QED BY <1>5, <1>7 DEF v

LEMMA BothIs ==
  ASSUME NEW x \in Cells, NEW y \in Cells
  PROVE  x \o y \in Cells /\ Len(x \o y) = Len(x) + Len(y)
BY ConcatProperties DEF Cells

(* The same with the lengths given, so that they are not computed with.    *)
IsLong(x, n) == x \in Cells /\ Len(x) = n

AddUp(m, n, k) == m \in Nat /\ n \in Nat /\ m + n = k

LEMMA Joined ==
  ASSUME NEW x, NEW y, NEW m, NEW n, NEW k, IsLong(x, m), IsLong(y, n), AddUp(m, n, k)
  PROVE  IsLong(x \o y, k)
<1>1. x \o y \in Cells /\ Len(x \o y) = Len(x) + Len(y)
      BY BothIs DEF IsLong
<1> QED BY <1>1 DEF IsLong, AddUp

LEMMA Apart ==
  ASSUME NEW buf, NEW x, NEW y, NEW m, NEW n, NEW at, NEW there, IsLong(x, m), IsLong(y, n),
         at \in Place, AddUp(at, m, there), Holds(buf, x \o y, at)
  PROVE  Holds(buf, x, at) /\ Holds(buf, y, there) /\ there \in Place
<1>1. x \in Cells /\ y \in Cells /\ Len(x) = m /\ at + m = there
      BY DEF IsLong, AddUp
<1>2. Holds(buf, x, at) /\ Holds(buf, y, at + Len(x)) /\ at + Len(x) \in Place
      BY <1>1, HoldsBoth, Zenon
<1> QED BY <1>1, <1>2, Zenon

IsCounts(counts) ==
  counts[1] \in Nat /\ counts[2] \in Nat /\ counts[3] \in Nat /\ counts[4] \in Nat

FlagBytes(h) == << Byte(HighByte(h)), Byte(LowByte(h)) >>

LEMMA FlagBytesIs ==
  ASSUME NEW h \in Header
  PROVE  FlagBytes(h) \in Cells /\ Len(FlagBytes(h)) = 2
<1>1. Byte(HighByte(h)) \in Cell /\ Byte(LowByte(h)) \in Cell
      BY HighByteRead, LowByteRead, ByteIs
<1> QED BY <1>1 DEF FlagBytes, Cells

LEMMA IdIs ==
  ASSUME NEW h \in Header
  PROVE  /\ h.id \in Nat /\ h.flags \subseteq Flag
         /\ h = [id |-> h.id, opcode |-> h.opcode, flags |-> h.flags, rescode |-> h.rescode]
<1>1. /\ h.id \in Number /\ h.flags \in SUBSET Flag
      /\ h = [id |-> h.id, opcode |-> h.opcode, flags |-> h.flags, rescode |-> h.rescode]
      BY DEF Header
<1>2. Number \subseteq Nat
      BY DEF Number
<1> QED BY <1>1, <1>2, Zenon

(* The header is twelve bytes, and they lie one behind another.            *)
HeaderParts(buf, h, counts) ==
  /\ Holds(buf, U16(h.id), 1) /\ Holds(buf, FlagBytes(h), 3)
  /\ Holds(buf, U16(counts[1]), 5) /\ Holds(buf, U16(counts[2]), 7)
  /\ Holds(buf, U16(counts[3]), 9) /\ Holds(buf, U16(counts[4]), 11)

LEMMA HeaderIs ==
  ASSUME NEW h \in Header, NEW counts, IsCounts(counts)
  PROVE  /\ HeaderCells(h, counts) \in Cells /\ Len(HeaderCells(h, counts)) = 12
         /\ \A buf : Holds(buf, HeaderCells(h, counts), 1) => HeaderParts(buf, h, counts)
<1> DEFINE a == U16(h.id)
           f == FlagBytes(h)
           c1 == U16(counts[1])
           c2 == U16(counts[2])
           c3 == U16(counts[3])
           c4 == U16(counts[4])
<1>1. h.id \in Nat
      BY IdIs
<1>2. IsLong(a, 2) /\ IsLong(f, 2)
      BY <1>1, U16Is, FlagBytesIs DEF IsLong
<1>3. IsLong(c1, 2) /\ IsLong(c2, 2)
      BY U16Is DEF IsCounts, IsLong
<1>4. IsLong(c3, 2) /\ IsLong(c4, 2)
      BY U16Is DEF IsCounts, IsLong
<1>5. HeaderCells(h, counts) = a \o f \o c1 \o c2 \o c3 \o c4
      BY DEF HeaderCells, FlagBytes
<1> HIDE DEF a, f, c1, c2, c3, c4
<1>6. AddUp(2, 2, 4) /\ AddUp(4, 2, 6) /\ AddUp(6, 2, 8) /\ AddUp(8, 2, 10) /\ AddUp(10, 2, 12)
      BY DEF AddUp
<1>7. IsLong(a \o f, 4)
      BY <1>2, <1>6, Joined
<1>8. IsLong(a \o f \o c1, 6)
      BY <1>3, <1>6, <1>7, Joined
<1>9. IsLong(a \o f \o c1 \o c2, 8)
      BY <1>3, <1>6, <1>8, Joined
<1>10. IsLong(a \o f \o c1 \o c2 \o c3, 10)
      BY <1>4, <1>6, <1>9, Joined
<1>11. IsLong(a \o f \o c1 \o c2 \o c3 \o c4, 12)
      BY <1>4, <1>6, <1>10, Joined
<1>12. ASSUME NEW buf, Holds(buf, a \o f \o c1 \o c2 \o c3 \o c4, 1)
       PROVE  HeaderParts(buf, h, counts)
  <2>1. 1 \in Place /\ AddUp(1, 2, 3) /\ AddUp(1, 4, 5) /\ AddUp(1, 6, 7)
        /\ AddUp(1, 8, 9) /\ AddUp(1, 10, 11)
        BY DEF Place, AddUp
  <2>2. Holds(buf, a \o f \o c1 \o c2 \o c3, 1) /\ Holds(buf, c4, 11)
        BY <1>4, <1>10, <1>12, <2>1, Apart
  <2>3. Holds(buf, a \o f \o c1 \o c2, 1) /\ Holds(buf, c3, 9)
        BY <1>4, <1>9, <2>1, <2>2, Apart
  <2>4. Holds(buf, a \o f \o c1, 1) /\ Holds(buf, c2, 7)
        BY <1>3, <1>8, <2>1, <2>3, Apart
  <2>5. Holds(buf, a \o f, 1) /\ Holds(buf, c1, 5)
        BY <1>3, <1>7, <2>1, <2>4, Apart
  <2>6. Holds(buf, a, 1) /\ Holds(buf, f, 3)
        BY <1>2, <2>1, <2>5, Apart
  <2> QED BY <2>2, <2>3, <2>4, <2>5, <2>6 DEF HeaderParts, a, f, c1, c2, c3, c4
<1> QED BY <1>5, <1>11, <1>12 DEF IsLong

(* What is read of it is what was written, but for an unknown code.        *)
SmallHeader(h) == [h EXCEPT !.rescode = RescodeOf(@)]

LEMMA HeaderRead ==
  ASSUME NEW buf, NEW h \in Header, NEW counts, IsCounts(counts),
         Holds(buf, HeaderCells(h, counts), 1)
  PROVE  /\ HeaderAt(buf) = SmallHeader(h)
         /\ \A i \in 1..4 : Count(buf, i) = counts[i]
<1>1. HeaderParts(buf, h, counts)
      BY HeaderIs
<1>2. /\ h.id \in Nat /\ h.flags \subseteq Flag
      /\ h = [id |-> h.id, opcode |-> h.opcode, flags |-> h.flags, rescode |-> h.rescode]
      BY IdIs
<1>3. 1 \in Place /\ 3 \in Place /\ 5 \in Place /\ 7 \in Place /\ 9 \in Place /\ 11 \in Place
      BY DEF Place
<1>4. U16At(buf, 1) = h.id
      BY <1>1, <1>2, <1>3, U16Read DEF HeaderParts
<1>5. Value(buf, 3) = HighByte(h) /\ Value(buf, 4) = LowByte(h)
  <2>1. (3 - 1) + 1 = 3 /\ (3 - 1) + 2 = 4 /\ 1 \in 1..2 /\ 2 \in 1..2
        OBVIOUS
  <2>2. /\ Len(FlagBytes(h)) = 2
        /\ FlagBytes(h)[1] = Byte(HighByte(h)) /\ FlagBytes(h)[2] = Byte(LowByte(h))
        BY FlagBytesIs DEF FlagBytes
  <2>3. \A j \in 1..2 : CellAt(buf, (3 - 1) + j) = FlagBytes(h)[j]
        BY <1>1, <2>2 DEF HeaderParts, Holds
  <2>4. CellAt(buf, 3) = Byte(HighByte(h)) /\ CellAt(buf, 4) = Byte(LowByte(h))
        BY <2>1, <2>2, <2>3
  <2>5. HighByte(h) \in Nat /\ LowByte(h) \in Nat
        BY HighByteRead, LowByteRead
  <2> QED BY <2>4, <2>5, ByteIs DEF Value
<1>6. (Value(buf, 3) \div 8) % 16 = h.opcode /\ Value(buf, 4) % 16 = h.rescode
      BY <1>5, HighByteRead, LowByteRead
<1>7. FlagsAt(HighBits, Value(buf, 3)) \cup FlagsAt(LowBits, Value(buf, 4)) = h.flags
      BY <1>2, <1>5, HighByteRead, LowByteRead DEF Flag
<1>8. HeaderAt(buf) = [id |-> h.id, opcode |-> h.opcode, flags |-> h.flags,
                       rescode |-> RescodeOf(h.rescode)]
      BY <1>4, <1>6, <1>7 DEF HeaderAt
<1>9. SmallHeader(h) = [id |-> h.id, opcode |-> h.opcode, flags |-> h.flags,
                        rescode |-> RescodeOf(h.rescode)]
      BY <1>2 DEF SmallHeader
<1>10. Count(buf, 1) = counts[1] /\ Count(buf, 2) = counts[2]
  <2>1. U16At(buf, 5) = counts[1] /\ U16At(buf, 7) = counts[2]
        BY <1>1, <1>3, U16Read DEF HeaderParts, IsCounts
  <2> QED BY <2>1 DEF Count
<1>11. Count(buf, 3) = counts[3] /\ Count(buf, 4) = counts[4]
  <2>1. U16At(buf, 9) = counts[3] /\ U16At(buf, 11) = counts[4]
        BY <1>1, <1>3, U16Read DEF HeaderParts, IsCounts
  <2> QED BY <2>1 DEF Count
<1>12. \A i \in 1..4 : i = 1 \/ i = 2 \/ i = 3 \/ i = 4
      OBVIOUS
<1> QED BY <1>8, <1>9, <1>10, <1>11, <1>12

-------------------------------------------------------------------------------
(* Questions and records.                                                  *)
Frame(nc, type, ttl, data) ==
  nc \o U16(type) \o U16(1) \o U32(ttl) \o U16(Len(data)) \o data

LEMMA FrameIs ==
  ASSUME NEW nc, NEW w \in Nat, IsLong(nc, w), NEW data, NEW d \in Nat, IsLong(data, d),
         NEW type \in Nat, NEW ttl \in Nat
  PROVE  /\ IsLong(Frame(nc, type, ttl, data), w + 10 + d)
         /\ \A buf : \A at \in Place : Holds(buf, Frame(nc, type, ttl, data), at) =>
              /\ Holds(buf, nc, at) /\ at + w \in Place
              /\ U16At(buf, at + w) = type /\ U32At(buf, at + w + 4) = ttl
              /\ U16At(buf, at + w + 8) = d
              /\ Holds(buf, data, at + w + 10) /\ at + w + 10 \in Place
<1> DEFINE t == U16(type)
           c == U16(1)
           l == U32(ttl)
           n == U16(Len(data))
<1>1. IsLong(t, 2) /\ IsLong(c, 2) /\ IsLong(l, 4) /\ IsLong(n, 2)
      BY U16Is, U32Is DEF IsLong
<1>2. Frame(nc, type, ttl, data) = nc \o t \o c \o l \o n \o data
      BY DEF Frame
<1>3. Len(data) = d
      BY DEF IsLong
<1> HIDE DEF t, c, l, n
<1>4. /\ AddUp(w, 2, w + 2) /\ AddUp(w + 2, 2, w + 4) /\ AddUp(w + 4, 4, w + 8)
      /\ AddUp(w + 8, 2, w + 10) /\ AddUp(w + 10, d, w + 10 + d)
      BY DEF AddUp
<1>5. IsLong(nc \o t, w + 2)
      BY <1>1, <1>4, Joined
<1>6. IsLong(nc \o t \o c, w + 4)
      BY <1>1, <1>4, <1>5, Joined
<1>7. IsLong(nc \o t \o c \o l, w + 8)
      BY <1>1, <1>4, <1>6, Joined
<1>8. IsLong(nc \o t \o c \o l \o n, w + 10)
      BY <1>1, <1>4, <1>7, Joined
<1>9. IsLong(nc \o t \o c \o l \o n \o data, w + 10 + d)
      BY <1>4, <1>8, Joined
<1>10. ASSUME NEW buf, NEW at \in Place, Holds(buf, nc \o t \o c \o l \o n \o data, at)
       PROVE  /\ Holds(buf, nc, at) /\ at + w \in Place
              /\ U16At(buf, at + w) = type /\ U32At(buf, at + w + 4) = ttl
              /\ U16At(buf, at + w + 8) = d
              /\ Holds(buf, data, at + w + 10) /\ at + w + 10 \in Place
  <2>1. /\ AddUp(at, w, at + w) /\ AddUp(at, w + 2, at + w + 2) /\ AddUp(at, w + 4, at + w + 4)
        /\ AddUp(at, w + 8, at + w + 8) /\ AddUp(at, w + 10, at + w + 10)
        BY DEF Place, AddUp
  <2>2. /\ Holds(buf, nc \o t \o c \o l \o n, at) /\ Holds(buf, data, at + w + 10)
        /\ at + w + 10 \in Place
        BY <1>8, <1>10, <2>1, Apart
  <2>3. /\ Holds(buf, nc \o t \o c \o l, at) /\ Holds(buf, n, at + w + 8)
        /\ at + w + 8 \in Place
        BY <1>1, <1>7, <2>1, <2>2, Apart
  <2>4. /\ Holds(buf, nc \o t \o c, at) /\ Holds(buf, l, at + w + 4)
        /\ at + w + 4 \in Place
        BY <1>1, <1>6, <2>1, <2>3, Apart
  <2>5. Holds(buf, nc \o t, at) /\ Holds(buf, c, at + w + 2)
        BY <1>1, <1>5, <2>1, <2>4, Apart
  <2>6. Holds(buf, nc, at) /\ Holds(buf, t, at + w) /\ at + w \in Place
        BY <1>1, <2>1, <2>5, Apart
  <2>7. U16At(buf, at + w) = type
        BY <2>6, U16Read DEF t
  <2>8. U32At(buf, at + w + 4) = ttl
        BY <2>4, U32Read DEF l
  <2>9. U16At(buf, at + w + 8) = d
        BY <1>3, <2>3, U16Read DEF n
  <2> QED BY <2>2, <2>6, <2>7, <2>8, <2>9
<1> QED BY <1>2, <1>9, <1>10

LEMMA OctetsRead ==
  ASSUME NEW n \in Nat, NEW addr \in [1..n -> Octet]
  PROVE  /\ IsLong(Octets(addr), n)
         /\ \A buf : \A at \in Place : Holds(buf, Octets(addr), at) =>
              OctetsAt(buf, at, n) = addr
<1>1. Octets(addr) = [i \in 1..n |-> Byte(addr[i])]
      BY DEF Octets
<1>2. \A i \in 1..n : addr[i] \in Nat /\ Byte(addr[i]) \in Cell /\ Byte(addr[i])[2] = addr[i]
  <2>1. Octet \subseteq Nat
        BY DEF Octet
  <2>2. \A i \in 1..n : addr[i] \in Nat
        BY <2>1
  <2> QED BY <2>2, ByteIs
<1>3. Octets(addr) \in Cells /\ Len(Octets(addr)) = n
  <2>1. Octets(addr) \in [1..n -> Cell]
        BY <1>1, <1>2
  <2> QED BY <1>1, <2>1 DEF Cells
<1>4. ASSUME NEW buf, NEW at \in Place, Holds(buf, Octets(addr), at)
      PROVE  OctetsAt(buf, at, n) = addr
  <2>1. ASSUME NEW i \in 1..n PROVE Value(buf, at + i - 1) = addr[i]
    <3>1. CellAt(buf, (at - 1) + i) = Byte(addr[i])
          BY <1>1, <1>3, <1>4 DEF Holds
    <3>2. at + i - 1 = (at - 1) + i
          BY DEF Place
    <3> QED BY <1>2, <3>1, <3>2 DEF Value
  <2> QED BY <2>1 DEF OctetsAt
<1> QED BY <1>3, <1>4 DEF IsLong

(* The four kinds of records.                                              *)
IsAddressed(r) ==
  /\ r.type \in {TypeA, TypeAAAA}
  /\ r.addr \in [1..(IF r.type = TypeA THEN 4 ELSE 16) -> Octet]
  /\ r = [type |-> r.type, domain |-> r.domain, ttl |-> r.ttl, addr |-> r.addr]

IsHosted(r) ==
  /\ r.type \in {TypeNS, TypeCNAME} /\ r.host \in Domain
  /\ r = [type |-> r.type, domain |-> r.domain, ttl |-> r.ttl, host |-> r.host]

IsExchange(r) ==
  /\ r.type = TypeMX /\ r.host \in Domain /\ r.priority \in Nat
  /\ r = [type |-> r.type, domain |-> r.domain, ttl |-> r.ttl, priority |-> r.priority,
          host |-> r.host]

IsUnknown(r) ==
  /\ r.type \notin {TypeA, TypeAAAA, TypeNS, TypeCNAME, TypeMX} /\ r.data_len \in Nat
  /\ r = [type |-> r.type, domain |-> r.domain, ttl |-> r.ttl, data_len |-> r.data_len]

LEMMA TypesDiffer ==
  /\ TypeMX \notin {TypeA, TypeAAAA, TypeNS, TypeCNAME} /\ TypeA # TypeAAAA
  /\ {TypeA, TypeAAAA} \cap {TypeNS, TypeCNAME} = {}
  /\ {TypeA, TypeAAAA, TypeNS, TypeCNAME, TypeMX} \subseteq Nat
  /\ Number \subseteq Nat
BY DEF TypeA, TypeAAAA, TypeNS, TypeCNAME, TypeMX, Number

LEMMA RecordKinds ==
  ASSUME NEW r \in Record
  PROVE  /\ r.type \in Nat /\ r.ttl \in Nat /\ r.domain \in Domain
         /\ IsAddressed(r) \/ IsHosted(r) \/ IsExchange(r) \/ IsUnknown(r)
<1>1. CASE r \in Addressed(TypeA, 4)
  <2>1. /\ r.type = TypeA /\ r.ttl \in Nat /\ r.domain \in Domain /\ r.addr \in [1..4 -> Octet]
        /\ r = [type |-> r.type, domain |-> r.domain, ttl |-> r.ttl, addr |-> r.addr]
        BY <1>1 DEF Addressed
  <2> QED BY <2>1, TypesDiffer DEF IsAddressed
<1>2. CASE r \in Addressed(TypeAAAA, 16)
  <2>1. /\ r.type = TypeAAAA /\ r.ttl \in Nat /\ r.domain \in Domain
        /\ r.addr \in [1..16 -> Octet]
        /\ r = [type |-> r.type, domain |-> r.domain, ttl |-> r.ttl, addr |-> r.addr]
        BY <1>2 DEF Addressed
  <2> QED BY <2>1, TypesDiffer DEF IsAddressed
<1>3. CASE r \in Hosted
  <2>1. /\ r.type \in {TypeNS, TypeCNAME} /\ r.ttl \in Nat /\ r.domain \in Domain
        /\ r.host \in Domain
        /\ r = [type |-> r.type, domain |-> r.domain, ttl |-> r.ttl, host |-> r.host]
        BY <1>3 DEF Hosted
  <2> QED BY <2>1, TypesDiffer DEF IsHosted
<1>4. CASE r \in Exchange
  <2>1. /\ r.type = TypeMX /\ r.ttl \in Nat /\ r.domain \in Domain
        /\ r.host \in Domain /\ r.priority \in Number
        /\ r = [type |-> r.type, domain |-> r.domain, ttl |-> r.ttl, priority |-> r.priority,
                host |-> r.host]
        BY <1>4 DEF Exchange
  <2> QED BY <2>1, TypesDiffer DEF IsExchange
<1>5. CASE r \in Unknown
  <2>1. /\ r.type \in Number \ {TypeA, TypeAAAA, TypeNS, TypeCNAME, TypeMX}
        /\ r.ttl \in Nat /\ r.domain \in Domain /\ r.data_len \in Number
        /\ r = [type |-> r.type, domain |-> r.domain, ttl |-> r.ttl, data_len |-> r.data_len]
        BY <1>5 DEF Unknown
  <2> QED BY <2>1, TypesDiffer DEF IsUnknown
<1> QED BY <1>1, <1>2, <1>3, <1>4, <1>5 DEF Record

(* What is read of the data of a record.                                   *)
DataReads(buf, r, at, d) ==
  /\ r.type \in {TypeA, TypeAAAA} =>
       /\ d = (IF r.type = TypeA THEN 4 ELSE 16)
       /\ OctetsAt(buf, at, d) = r.addr
  /\ r.type \in {TypeNS, TypeCNAME} => NamedAt(buf, at, SmallName(r.host), d)
  /\ r.type = TypeMX =>
       U16At(buf, at) = r.priority /\ NamedAt(buf, at + 2, SmallName(r.host), d - 2)
  /\ r.type \notin {TypeA, TypeAAAA, TypeNS, TypeCNAME, TypeMX} => d = r.data_len

(* What is read of an item of a section, and how far.                      *)
ReadsItem(item, v, there) ==
  item.value = v /\ item.next = there /\ item.last \in Int /\ item.last < there

Reads(buf, section, at, v, len) ==
  /\ IsNameAt(buf, at)
  /\ ReadsItem(IF section = "questions" THEN QuestionAt(buf, at) ELSE RecordAt(buf, at),
               v, at + len)

LEMMA ItemReads ==
  ASSUME NEW v, NEW last \in Int, NEW there, there = last + 1
  PROVE  ReadsItem(Item(v, last), v, there)
BY DEF Item, ReadsItem

LEMMA RecordRead ==
  ASSUME NEW buf, NEW at \in Place, NEW r \in Record, NEW w \in Nat, NEW d \in Nat,
         NamedAt(buf, at, SmallName(r.domain), w),
         U16At(buf, at + w) = r.type, U32At(buf, at + w + 4) = r.ttl,
         U16At(buf, at + w + 8) = d, DataReads(buf, r, at + w + 10, d)
  PROVE  /\ IsNameAt(buf, at)
         /\ ReadsItem(RecordAt(buf, at), SmallRecord(r), at + (w + 10 + d))
<1> DEFINE b == at + w
           data == b + 10
           name == SmallName(r.domain)
<1>1. /\ IsNameAt(buf, at) /\ NameAt(buf, at) = name /\ BehindName(buf, at) = b
      /\ data \in Int /\ data + d = at + (w + 10 + d)
      BY DEF NamedAt, Place
<1>2. U16At(buf, b) = r.type /\ U32At(buf, b + 4) = r.ttl /\ U16At(buf, b + 8) = d
      OBVIOUS
<1>3. DataReads(buf, r, data, d)
      OBVIOUS
<1> HIDE DEF b, data, name
<1>4. CASE IsAddressed(r)
  <2> DEFINE v == [type |-> r.type, domain |-> name, ttl |-> r.ttl, addr |-> r.addr]
  <2>1. d = (IF r.type = TypeA THEN 4 ELSE 16) /\ OctetsAt(buf, data, d) = r.addr
        BY <1>3, <1>4 DEF DataReads, IsAddressed
  <2> DEFINE n == IF r.type = TypeA THEN 4 ELSE 16
  <2>0. RecordAt(buf, at) = Item([type |-> r.type, domain |-> name, ttl |-> r.ttl,
                                  addr |-> OctetsAt(buf, data, n)], data + n - 1)
        BY <1>1, <1>2, <1>4, TypesDiffer DEF RecordAt, IsAddressed, data
  <2>2. RecordAt(buf, at) = Item(v, data + d - 1)
        BY <2>0, <2>1, Zenon
  <2>3. SmallRecord(r) = v
        BY <1>4, TypesDiffer DEF SmallRecord, IsAddressed, name
  <2>4. data + d - 1 \in Int /\ at + (w + 10 + d) = (data + d - 1) + 1
        BY <1>1
  <2> HIDE DEF v
  <2> QED BY <1>1, <2>2, <2>3, <2>4, ItemReads
<1>5. CASE IsHosted(r)
  <2> DEFINE v == [type |-> r.type, domain |-> name, ttl |-> r.ttl, host |-> SmallName(r.host)]
  <2>1. /\ NameAt(buf, data) = SmallName(r.host) /\ BehindName(buf, data) = data + d
        /\ IsNameAt(buf, data)
        BY <1>3, <1>5 DEF DataReads, IsHosted, NamedAt
  <2>2. RecordAt(buf, at) = Item(v, data + d - 1)
        BY <1>1, <1>2, <1>5, <2>1, TypesDiffer DEF RecordAt, IsHosted, data
  <2>3. SmallRecord(r) = v
        BY <1>5, TypesDiffer DEF SmallRecord, IsHosted, name
  <2>4. data + d - 1 \in Int /\ at + (w + 10 + d) = (data + d - 1) + 1
        BY <1>1
  <2> HIDE DEF v
  <2> QED BY <1>1, <2>2, <2>3, <2>4, ItemReads
<1>6. CASE IsExchange(r)
  <2> DEFINE v == [type |-> r.type, domain |-> name, ttl |-> r.ttl,
                   priority |-> r.priority, host |-> SmallName(r.host)]
  <2>1. /\ U16At(buf, data) = r.priority
        /\ NameAt(buf, data + 2) = SmallName(r.host) /\ IsNameAt(buf, data + 2)
        /\ BehindName(buf, data + 2) = (data + 2) + (d - 2)
        BY <1>3, <1>6 DEF DataReads, IsExchange, NamedAt
  <2>2. BehindName(buf, data + 2) = data + d
        BY <1>1, <2>1
  <2>3. RecordAt(buf, at) = Item(v, data + d - 1)
        BY <1>1, <1>2, <1>6, <2>1, <2>2, TypesDiffer DEF RecordAt, IsExchange, data
  <2>4. SmallRecord(r) = v
        BY <1>6, TypesDiffer DEF SmallRecord, IsExchange, name
  <2>5. data + d - 1 \in Int /\ at + (w + 10 + d) = (data + d - 1) + 1
        BY <1>1
  <2> HIDE DEF v
  <2> QED BY <1>1, <2>3, <2>4, <2>5, ItemReads
<1>7. CASE IsUnknown(r)
  <2> DEFINE v == [type |-> r.type, domain |-> name, ttl |-> r.ttl, data_len |-> d]
  <2>1. d = r.data_len
        BY <1>3, <1>7 DEF DataReads, IsUnknown
  <2>2. RecordAt(buf, at) = [value |-> v, last |-> data - 1, next |-> data + d]
        BY <1>1, <1>2, <1>7, TypesDiffer DEF RecordAt, IsUnknown, data
  <2>3. SmallRecord(r) = v
        BY <1>7, <2>1, TypesDiffer DEF SmallRecord, IsUnknown, name
  <2>4. data - 1 \in Int /\ data - 1 < data + d /\ data + d = at + (w + 10 + d)
        BY <1>1
  <2> HIDE DEF v
  <2> QED BY <1>1, <2>2, <2>3, <2>4 DEF ReadsItem
<1> QED BY <1>4, <1>5, <1>6, <1>7, RecordKinds

-------------------------------------------------------------------------------
(* Cells that are read as a name, as the data of a record, and as an item. *)
NamesAs(buf, cells, n, w) ==
  /\ w \in Nat /\ IsLong(cells, w)
  /\ \A at \in Place : Holds(buf, cells, at) => NamedAt(buf, at, n, w)

DataAs(buf, cells, r, d) ==
  /\ d \in Nat /\ IsLong(cells, d)
  /\ \A at \in Place : Holds(buf, cells, at) => DataReads(buf, r, at, d)

ItemAs(buf, section, cells, v) ==
  /\ cells \in Cells
  /\ \A at \in Place : Holds(buf, cells, at) => Reads(buf, section, at, v, Len(cells))

LEMMA WireNames ==
  ASSUME NEW buf, NEW n \in Domain
  PROVE  NamesAs(buf, WireName(n), SmallName(n), Len(WireName(n)))
<1> DEFINE nc == WireName(n)
           w == Len(nc)
<1>1. nc \in Cells /\ w \in Nat \ {0} /\ nc # <<>>
      BY WireNameIs
<1>2. \A at \in Place : CellAt(buf, at) = nc[1] => NamedAt(buf, at, SmallName(n), w)
      BY WireNamedHere
<1> HIDE DEF nc
<1>3. \A at \in Place : Holds(buf, nc, at) => CellAt(buf, at) = nc[1]
      BY <1>1, HoldsFirst
<1>4. IsLong(nc, w) /\ w \in Nat
      BY <1>1 DEF IsLong
<1>5. NamesAs(buf, nc, SmallName(n), w)
      BY <1>2, <1>3, <1>4 DEF NamesAs
<1> QED BY <1>5 DEF nc

(* The names that the server writes as a client does.                      *)
LEMMA PlainNames ==
  ASSUME NEW buf, NEW n \in Domain, n # Root
  PROVE  NamesAs(buf, NameCells(n), SmallName(n), Len(NameCells(n)))
<1>1. WireName(n) = NameCells(n)
      BY NoCircle DEF WireName
<1> QED BY <1>1, WireNames

(* Where the first question is, and what of it is read through pointers.   *)
FirstAt(buf, q) ==
  q.questions # <<>> =>
    q.questions[1].name \in Domain /\ CellAt(buf, 13) = WireName(q.questions[1].name)[1]

LEMMA ClientNames ==
  ASSUME NEW buf, NEW q, FirstAt(buf, q), NEW n \in Domain
  PROVE  \E w : NamesAs(buf, ClientName(q, n), SmallName(n), w)
<1>1. CASE n # Root /\ q.questions # <<>> /\ n = q.questions[1].name
  <2>1. ClientName(q, n) = FirstPointer /\ SmallName(n) = Lower[n] /\ n \in Name
        BY <1>1 DEF ClientName, SmallName, FirstPointer, Domain
  <2>2. CellAt(buf, 13) = <<n, 1>>
    <3>1. CellAt(buf, 13) = WireName(n)[1] /\ WireName(n) = NameCells(n)
          BY <1>1, NoCircle DEF FirstAt, WireName
    <3> QED BY <2>1, <3>1, NameCellsIs
  <2>3. \A at \in Place : Holds(buf, FirstPointer, at) => NamedAt(buf, at, Lower[n], 2)
        BY <2>1, <2>2, PointerNamed
  <2>4. Byte(192) \in Cell /\ Byte(12) \in Cell
        BY ByteIs
  <2>5. IsLong(FirstPointer, 2)
        BY <2>4 DEF FirstPointer, Cells, IsLong
  <2>6. NamesAs(buf, FirstPointer, Lower[n], 2)
        BY <2>3, <2>5 DEF NamesAs
  <2> QED BY <2>1, <2>6
<1>2. CASE ~(n # Root /\ q.questions # <<>> /\ n = q.questions[1].name)
  <2>1. ClientName(q, n) = WireName(n)
        BY <1>2 DEF ClientName
  <2> QED BY <2>1, WireNames
<1> QED BY <1>1, <1>2

(* The data of each kind of record.                                        *)
LEMMA HostData ==
  ASSUME NEW buf, NEW r, IsHosted(r), NEW cells, NEW d, NamesAs(buf, cells, SmallName(r.host), d)
  PROVE  DataAs(buf, cells, r, d)
<1>1. r.type \in {TypeNS, TypeCNAME}
      BY DEF IsHosted
<1>2. ASSUME NEW at \in Place, Holds(buf, cells, at) PROVE DataReads(buf, r, at, d)
  <2>1. NamedAt(buf, at, SmallName(r.host), d)
        BY <1>2 DEF NamesAs
  <2> QED BY <1>1, <2>1, TypesDiffer DEF DataReads
<1> QED BY <1>2 DEF NamesAs, DataAs

LEMMA ExchangeData ==
  ASSUME NEW buf, NEW r, IsExchange(r), NEW cells, NEW d, NamesAs(buf, cells, SmallName(r.host), d)
  PROVE  DataAs(buf, U16(r.priority) \o cells, r, d + 2)
<1>1. r.type = TypeMX /\ r.priority \in Nat /\ d \in Nat
      BY DEF IsExchange, NamesAs
<1> DEFINE p == U16(r.priority)
<1>2. IsLong(p, 2) /\ IsLong(cells, d)
      BY <1>1, U16Is DEF IsLong, NamesAs
<1>3. AddUp(2, d, d + 2)
      BY <1>1 DEF AddUp
<1>4. ASSUME NEW at \in Place, Holds(buf, p \o cells, at) PROVE DataReads(buf, r, at, d + 2)
  <2>1. AddUp(at, 2, at + 2)
        BY DEF Place, AddUp
  <2> HIDE DEF p
  <2>2. Holds(buf, p, at) /\ Holds(buf, cells, at + 2) /\ at + 2 \in Place
        BY <1>2, <1>4, <2>1, Apart
  <2>3. U16At(buf, at) = r.priority
        BY <1>1, <2>2, U16Read DEF p
  <2>4. NamedAt(buf, at + 2, SmallName(r.host), d)
        BY <2>2 DEF NamesAs
  <2>5. (d + 2) - 2 = d
        BY <1>1
  <2> QED BY <1>1, <2>3, <2>4, <2>5, TypesDiffer DEF DataReads
<1> HIDE DEF p
<1>5. IsLong(p \o cells, d + 2)
      BY <1>2, <1>3, Joined
<1>6. d + 2 \in Nat
      BY <1>1
<1>7. DataAs(buf, p \o cells, r, d + 2)
      BY <1>4, <1>5, <1>6 DEF DataAs
<1> QED BY <1>7 DEF p

LEMMA OctetData ==
  ASSUME NEW buf, NEW r, IsAddressed(r)
  PROVE  DataAs(buf, Octets(r.addr), r, IF r.type = TypeA THEN 4 ELSE 16)
<1> DEFINE d == IF r.type = TypeA THEN 4 ELSE 16
<1>1. r.type \in {TypeA, TypeAAAA} /\ r.addr \in [1..d -> Octet] /\ d \in Nat
      BY DEF IsAddressed
<1>2. d = (IF r.type = TypeA THEN 4 ELSE 16)
      OBVIOUS
<1> HIDE DEF d
<1>3. /\ IsLong(Octets(r.addr), d)
      /\ \A at \in Place : Holds(buf, Octets(r.addr), at) => OctetsAt(buf, at, d) = r.addr
      BY <1>1, OctetsRead
<1>4. ASSUME NEW at \in Place, Holds(buf, Octets(r.addr), at) PROVE DataReads(buf, r, at, d)
      BY <1>1, <1>2, <1>3, <1>4, TypesDiffer DEF DataReads
<1>5. DataAs(buf, Octets(r.addr), r, d)
      BY <1>1, <1>3, <1>4 DEF DataAs
<1> QED BY <1>5 DEF d

LEMMA UnknownData ==
  ASSUME NEW buf, NEW r, IsUnknown(r)
  PROVE  DataAs(buf, [i \in 1..r.data_len |-> Byte(i)], r, r.data_len)
<1> DEFINE d == r.data_len
           cells == [i \in 1..d |-> Byte(i)]
<1>1. r.type \notin {TypeA, TypeAAAA, TypeNS, TypeCNAME, TypeMX} /\ d \in Nat
      BY DEF IsUnknown
<1> HIDE DEF d
<1>2. \A i \in 1..d : Byte(i) \in Cell
      BY <1>1, ByteIs
<1>3. cells \in Cells /\ Len(cells) = d
      BY <1>1, <1>2 DEF Cells
<1> HIDE DEF cells
<1>4. \A at : DataReads(buf, r, at, d)
      BY <1>1 DEF DataReads, d
<1>5. DataAs(buf, cells, r, d)
      BY <1>1, <1>3, <1>4 DEF DataAs, IsLong
<1> QED BY <1>5 DEF d, cells

LEMMA ClientDataReads ==
  ASSUME NEW buf, NEW q, FirstAt(buf, q), NEW r \in Record
  PROVE  \E d : DataAs(buf, ClientData(q, r), r, d)
<1>1. CASE IsAddressed(r)
  <2>1. ClientData(q, r) = Octets(r.addr)
        BY <1>1, TypesDiffer DEF ClientData, IsAddressed
  <2> QED BY <1>1, <2>1, OctetData
<1>2. CASE IsHosted(r)
  <2>1. ClientData(q, r) = ClientName(q, r.host) /\ r.host \in Domain
        BY <1>2, TypesDiffer DEF ClientData, IsHosted, Domain
  <2>2. PICK w : NamesAs(buf, ClientName(q, r.host), SmallName(r.host), w)
        BY <2>1, ClientNames
  <2> QED BY <1>2, <2>1, <2>2, HostData
<1>3. CASE IsExchange(r)
  <2>1. ClientData(q, r) = U16(r.priority) \o ClientName(q, r.host) /\ r.host \in Domain
        BY <1>3, TypesDiffer DEF ClientData, IsExchange, Domain
  <2>2. PICK w : NamesAs(buf, ClientName(q, r.host), SmallName(r.host), w)
        BY <2>1, ClientNames
  <2>3. DataAs(buf, U16(r.priority) \o ClientName(q, r.host), r, w + 2)
        BY <1>3, <2>2, ExchangeData
  <2> QED BY <2>1, <2>3
<1>4. CASE IsUnknown(r)
  <2>1. ClientData(q, r) = [i \in 1..r.data_len |-> Byte(i)]
        BY <1>4, TypesDiffer DEF ClientData, IsUnknown
  <2>2. DataAs(buf, [i \in 1..r.data_len |-> Byte(i)], r, r.data_len)
        BY <1>4, UnknownData
  <2> QED BY <2>1, <2>2, Zenon
<1> QED BY <1>1, <1>2, <1>3, <1>4, RecordKinds

(* A record, as anybody writes it.                                         *)
LEMMA RecordAs ==
  ASSUME NEW buf, NEW section, section # "questions", NEW r \in Record,
         NEW nc, NEW w, NamesAs(buf, nc, SmallName(r.domain), w),
         NEW data, NEW d, DataAs(buf, data, r, d)
  PROVE  ItemAs(buf, section, Frame(nc, r.type, r.ttl, data), SmallRecord(r))
<1> DEFINE cells == Frame(nc, r.type, r.ttl, data)
<1>1. /\ w \in Nat /\ IsLong(nc, w) /\ d \in Nat /\ IsLong(data, d)
      /\ r.type \in Nat /\ r.ttl \in Nat
      BY RecordKinds DEF NamesAs, DataAs
<1>2. /\ IsLong(cells, w + 10 + d)
      /\ \A at \in Place : Holds(buf, cells, at) =>
           /\ Holds(buf, nc, at) /\ at + w \in Place
           /\ U16At(buf, at + w) = r.type /\ U32At(buf, at + w + 4) = r.ttl
           /\ U16At(buf, at + w + 8) = d
           /\ Holds(buf, data, at + w + 10) /\ at + w + 10 \in Place
      BY <1>1, FrameIs
<1> HIDE DEF cells
<1>3. ASSUME NEW at \in Place, Holds(buf, cells, at)
      PROVE  Reads(buf, section, at, SmallRecord(r), w + 10 + d)
  <2>1. NamedAt(buf, at, SmallName(r.domain), w)
        BY <1>2, <1>3 DEF NamesAs
  <2>2. DataReads(buf, r, at + w + 10, d)
        BY <1>2, <1>3 DEF DataAs
  <2>3. /\ U16At(buf, at + w) = r.type /\ U32At(buf, at + w + 4) = r.ttl
        /\ U16At(buf, at + w + 8) = d
        BY <1>2, <1>3
  <2>4. IsNameAt(buf, at) /\ ReadsItem(RecordAt(buf, at), SmallRecord(r), at + (w + 10 + d))
        BY <1>1, <2>1, <2>2, <2>3, RecordRead
  <2> QED BY <2>4 DEF Reads
<1>4. cells \in Cells /\ Len(cells) = w + 10 + d
      BY <1>2 DEF IsLong
<1>5. ItemAs(buf, section, cells, SmallRecord(r))
      BY <1>3, <1>4 DEF ItemAs
<1> QED BY <1>5 DEF cells

LEMMA ClientRecordAs ==
  ASSUME NEW buf, NEW q, FirstAt(buf, q), NEW section, section # "questions", NEW r \in Record
  PROVE  ItemAs(buf, section, ClientRecord(q, r), SmallRecord(r))
<1>1. r.domain \in Domain
      BY RecordKinds
<1>2. PICK w : NamesAs(buf, ClientName(q, r.domain), SmallName(r.domain), w)
      BY <1>1, ClientNames
<1>3. PICK d : DataAs(buf, ClientData(q, r), r, d)
      BY ClientDataReads
<1>4. ClientRecord(q, r) = Frame(ClientName(q, r.domain), r.type, r.ttl, ClientData(q, r))
      BY DEF ClientRecord, Frame
<1> QED BY <1>2, <1>3, <1>4, RecordAs

(* An address, as the server writes it: it can be read, if it has a name.  *)
LEMMA FoundIs ==
  ASSUME NEW r \in Addressed(TypeA, 4)
  PROVE  /\ r \in Record /\ IsAddressed(r) /\ r.type = TypeA
         /\ RecordCells(r) = Frame(NameCells(r.domain), r.type, r.ttl, Octets(r.addr))
         /\ RecordCells(r) \in Cells
         /\ Len(RecordCells(r)) = Len(NameCells(r.domain)) + 14
<1>1. /\ r \in Record /\ r.type = TypeA /\ r.addr \in [1..4 -> Octet]
      /\ r = [type |-> r.type, domain |-> r.domain, ttl |-> r.ttl, addr |-> r.addr]
      /\ r.domain \in Domain
      BY DEF Record, Addressed
<1>2. IsAddressed(r) /\ r.ttl \in Nat /\ r.type \in Nat
      BY <1>1, RecordKinds DEF IsAddressed
<1>3. RecordCells(r) = Frame(NameCells(r.domain), r.type, r.ttl, Octets(r.addr))
      BY <1>1, TypesDiffer DEF RecordCells, Framed, Frame
<1>4. DataAs(<<>>, Octets(r.addr), r, 4)
      BY <1>1, <1>2, OctetData
<1> DEFINE nc == NameCells(r.domain)
           w == Len(nc)
           data == Octets(r.addr)
           d == 4
<1>5. w \in Nat /\ IsLong(nc, w) /\ d \in Nat /\ IsLong(data, d)
      BY <1>1, <1>4, AnyNameCells DEF DataAs, IsLong
<1> HIDE DEF nc, w, data, d
<1>6. IsLong(Frame(nc, r.type, r.ttl, data), w + 10 + d)
      BY <1>2, <1>5, FrameIs
<1>7. w + 10 + d = w + 14
      BY <1>5 DEF d
<1> QED BY <1>1, <1>2, <1>3, <1>6, <1>7 DEF nc, w, data, IsLong

LEMMA FoundAs ==
  ASSUME NEW buf, NEW section, section # "questions",
         NEW r \in Addressed(TypeA, 4), r.domain # Root
  PROVE  ItemAs(buf, section, RecordCells(r), SmallRecord(r))
<1>1. /\ r \in Record /\ IsAddressed(r) /\ r.type = TypeA
      /\ RecordCells(r) = Frame(NameCells(r.domain), r.type, r.ttl, Octets(r.addr))
      BY FoundIs
<1>2. r.domain \in Domain
      BY DEF Addressed
<1> DEFINE nc == NameCells(r.domain)
           w == Len(nc)
<1>3. NamesAs(buf, nc, SmallName(r.domain), w)
      BY <1>2, PlainNames
<1>4. DataAs(buf, Octets(r.addr), r, 4)
      BY <1>1, OctetData
<1> HIDE DEF nc, w
<1>5. ItemAs(buf, section, Frame(nc, r.type, r.ttl, Octets(r.addr)), SmallRecord(r))
      BY <1>1, <1>3, <1>4, RecordAs
<1> QED BY <1>1, <1>5 DEF nc

(* A question.                                                             *)
LEMMA QuestionIs ==
  ASSUME NEW q \in Question
  PROVE  /\ q.name \in Domain /\ q.type \in Nat
         /\ q = [name |-> q.name, type |-> q.type]
         /\ SmallLetters(q) = [name |-> SmallName(q.name), type |-> q.type]
<1>1. q.name \in Domain /\ q.type \in Number /\ q = [name |-> q.name, type |-> q.type]
      BY DEF Question
<1>2. q.type \in Nat
      BY <1>1, TypesDiffer
<1>3. SmallLetters(q) = [name |-> SmallName(q.name), type |-> q.type]
      BY <1>1 DEF SmallLetters
<1> QED BY <1>1, <1>2, <1>3

(* The cells of a question behind those of its name.                       *)
Asked(nc, q) == nc \o U16(q.type) \o U16(1)

LEMMA AskedIs ==
  ASSUME NEW q \in Question, NEW nc, NEW w, w \in Nat, IsLong(nc, w)
  PROVE  /\ IsLong(Asked(nc, q), w + 4)
         /\ \A buf : \A at \in Place : Holds(buf, Asked(nc, q), at) =>
              Holds(buf, nc, at) /\ U16At(buf, at + w) = q.type
<1> DEFINE t == U16(q.type)
           c == U16(1)
<1>1. IsLong(t, 2) /\ IsLong(c, 2)
      BY QuestionIs, U16Is DEF IsLong
<1>2. \A buf : \A at \in Place : Holds(buf, t, at) => U16At(buf, at) = q.type
      BY QuestionIs, U16Read
<1>3. Asked(nc, q) = nc \o t \o c
      BY DEF Asked
<1> HIDE DEF t, c
<1>4. AddUp(w, 2, w + 2) /\ AddUp(w + 2, 2, w + 4)
      BY DEF AddUp
<1>5. IsLong(nc \o t, w + 2)
      BY <1>1, <1>4, Joined
<1>6. IsLong(nc \o t \o c, w + 4)
      BY <1>1, <1>4, <1>5, Joined
<1>7. ASSUME NEW buf, NEW at \in Place, Holds(buf, nc \o t \o c, at)
      PROVE  Holds(buf, nc, at) /\ U16At(buf, at + w) = q.type
  <2>1. AddUp(at, w, at + w) /\ AddUp(at, w + 2, at + w + 2)
        BY DEF Place, AddUp
  <2>2. Holds(buf, nc \o t, at)
        BY <1>1, <1>5, <1>7, <2>1, Apart
  <2>3. Holds(buf, nc, at) /\ Holds(buf, t, at + w) /\ at + w \in Place
        BY <1>1, <2>1, <2>2, Apart
  <2> QED BY <1>2, <2>3
<1> QED BY <1>3, <1>6, <1>7

LEMMA QuestionAs ==
  ASSUME NEW buf, NEW q \in Question, NEW nc, NEW w, NamesAs(buf, nc, SmallName(q.name), w)
  PROVE  ItemAs(buf, "questions", Asked(nc, q), SmallLetters(q))
<1> DEFINE cells == Asked(nc, q)
<1>1. w \in Nat /\ IsLong(nc, w)
      BY DEF NamesAs
<1>2. /\ IsLong(cells, w + 4)
      /\ \A at \in Place : Holds(buf, cells, at) =>
           Holds(buf, nc, at) /\ U16At(buf, at + w) = q.type
      BY <1>1, AskedIs
<1> HIDE DEF cells
<1>3. ASSUME NEW at \in Place, Holds(buf, cells, at)
      PROVE  Reads(buf, "questions", at, SmallLetters(q), w + 4)
  <2>1. NamedAt(buf, at, SmallName(q.name), w) /\ U16At(buf, at + w) = q.type
        BY <1>2, <1>3 DEF NamesAs
  <2>2. QuestionAt(buf, at) = Item(SmallLetters(q), at + w + 3)
        BY <2>1, QuestionIs DEF QuestionAt, NamedAt
  <2>3. at + w + 3 \in Int /\ at + (w + 4) = (at + w + 3) + 1
        BY <1>1 DEF Place
  <2>4. ReadsItem(QuestionAt(buf, at), SmallLetters(q), at + (w + 4))
        BY <2>2, <2>3, ItemReads
  <2> QED BY <2>1, <2>4 DEF Reads, NamedAt
<1>4. cells \in Cells /\ Len(cells) = w + 4
      BY <1>2 DEF IsLong
<1>5. ItemAs(buf, "questions", cells, SmallLetters(q))
      BY <1>3, <1>4 DEF ItemAs
<1> QED BY <1>5 DEF cells

(* As a client writes it, and as the server does, if it has a name.        *)
LEMMA ClientQuestionAs ==
  ASSUME NEW buf, NEW q \in Question
  PROVE  ItemAs(buf, "questions", ClientQuestion(q), SmallLetters(q))
<1>1. ClientQuestion(q) = Asked(WireName(q.name), q)
      BY DEF ClientQuestion, Asked
<1>2. NamesAs(buf, WireName(q.name), SmallName(q.name), Len(WireName(q.name)))
      BY QuestionIs, WireNames
<1> QED BY <1>1, <1>2, QuestionAs

LEMMA NamedQuestionAs ==
  ASSUME NEW buf, NEW q \in Question, q.name # Root
  PROVE  ItemAs(buf, "questions", QuestionCells(q), SmallLetters(q))
<1>1. QuestionCells(q) = Asked(NameCells(q.name), q)
      BY DEF QuestionCells, Asked
<1>2. NamesAs(buf, NameCells(q.name), SmallName(q.name), Len(NameCells(q.name)))
      BY QuestionIs, PlainNames
<1> QED BY <1>1, <1>2, QuestionAs

LEMMA QuestionCellsIs ==
  ASSUME NEW q \in Question
  PROVE  QuestionCells(q) \in Cells /\ Len(QuestionCells(q)) = Len(NameCells(q.name)) + 4
<1> DEFINE nc == NameCells(q.name)
           w == Len(nc)
<1>1. w \in Nat /\ IsLong(nc, w)
      BY QuestionIs, AnyNameCells DEF IsLong
<1>2. QuestionCells(q) = Asked(nc, q)
      BY DEF QuestionCells, Asked
<1> HIDE DEF nc, w
<1>3. IsLong(Asked(nc, q), w + 4)
      BY <1>1, AskedIs
<1> QED BY <1>2, <1>3 DEF nc, w, IsLong

-------------------------------------------------------------------------------
(* A section is read item by item.                                         *)
Steps(buf, section, start, n, g) ==
  g = [k \in 0..n |-> IF k = 0 THEN start ELSE ReadItem(buf, section, g[k - 1])]

LEMMA StepsExist ==
  ASSUME NEW buf, NEW section, NEW start, NEW n \in Nat
  PROVE  \E g : Steps(buf, section, start, n, g)
<1> DEFINE A == {k \in Nat : \E g : Steps(buf, section, start, k, g)}
<1>1. 0 \in A
  <2> DEFINE g == [k \in 0..0 |-> start]
  <2>1. g = [k \in 0..0 |-> IF k = 0 THEN start ELSE ReadItem(buf, section, g[k - 1])]
        OBVIOUS
  <2>2. Steps(buf, section, start, 0, g)
        BY <2>1 DEF Steps
  <2> QED BY <2>2
<1>2. ASSUME NEW k \in Nat, k \in A PROVE k + 1 \in A
  <2>1. PICK g : Steps(buf, section, start, k, g)
        BY <1>2
  <2> DEFINE h == [i \in 0..(k + 1) |->
                     IF i <= k THEN g[i] ELSE ReadItem(buf, section, g[k])]
  <2>2. ASSUME NEW i \in 0..(k + 1)
        PROVE  h[i] = IF i = 0 THEN start ELSE ReadItem(buf, section, h[i - 1])
    <3>1. CASE i <= k
      <4>1. g[i] = IF i = 0 THEN start ELSE ReadItem(buf, section, g[i - 1])
        <5>1. i \in 0..k
              BY <3>1
        <5> QED BY <2>1, <5>1 DEF Steps
      <4>2. h[i] = g[i] /\ (i # 0 => h[i - 1] = g[i - 1])
            BY <3>1
      <4> HIDE DEF h
      <4> QED BY <4>1, <4>2
    <3>2. CASE i = k + 1
      <4>1. h[i] = ReadItem(buf, section, g[k]) /\ i # 0
            BY <3>2
      <4>2. h[i - 1] = g[k]
            BY <3>2
      <4> HIDE DEF h
      <4> QED BY <4>1, <4>2
    <3> QED BY <3>1, <3>2
  <2>3. Steps(buf, section, start, k + 1, h)
        BY <2>2 DEF Steps
  <2> HIDE DEF h
  <2> QED BY <2>3
<1> HIDE DEF A
<1>3. Nat \subseteq A
      BY <1>1, <1>2, Induction
<1> QED BY <1>3 DEF A

LEMMA SectionIs ==
  ASSUME NEW buf, NEW i, NEW before, Count(buf, i) \in Nat
  PROVE  \E g : /\ g[0] = [before EXCEPT !.items = <<>>]
                /\ \A k \in 1..Count(buf, i) : g[k] = ReadItem(buf, Sections[i], g[k - 1])
                /\ ReadSection(buf, i, before) = g[Count(buf, i)]
<1> DEFINE n == Count(buf, i)
           section == Sections[i]
           start == [before EXCEPT !.items = <<>>]
           P(g) == g = [k \in 0..n |->
                          IF k = 0 THEN [before EXCEPT !.items = <<>>]
                                   ELSE ReadItem(buf, Sections[i], g[k - 1])]
           g == CHOOSE x : P(x)
<1>1. P(g)
  <2>1. PICK x : Steps(buf, section, start, n, x)
        BY StepsExist
  <2>2. P(x)
        BY <2>1 DEF Steps
  <2> HIDE DEF P
  <2> QED BY <2>2
<1>2. ReadSection(buf, i, before) = g[n]
      BY DEF ReadSection
<1>3. n \in Nat
      OBVIOUS
<1> HIDE DEF g, n
<1>4. g[0] = start
      BY <1>1, <1>3
<1>5. ASSUME NEW k \in 1..n PROVE g[k] = ReadItem(buf, section, g[k - 1])
  <2>1. k \in 0..n /\ k # 0
        BY <1>3
  <2> QED BY <1>1, <2>1
<1> QED BY <1>2, <1>4, <1>5 DEF n

(* What is read of an item that is there, and within the buffer.           *)
State(at, s) == [pos |-> at, failed |-> FALSE, items |-> s]

LEMMA ItemRead ==
  ASSUME NEW buf, NEW section, NEW at \in Place, NEW s, NEW v, NEW len \in Nat,
         Reads(buf, section, at, v, len), at + len <= Size + 1
  PROVE  ReadItem(buf, section, State(at, s)) = State(at + len, Append(s, v))
<1> DEFINE item == IF section = "questions" THEN QuestionAt(buf, at) ELSE RecordAt(buf, at)
           c == State(at, s)
<1>1. c.pos = at /\ ~c.failed /\ c.items = s
      BY DEF State
<1>2. /\ IsNameAt(buf, at) /\ item.value = v /\ item.next = at + len
      /\ item.last \in Int /\ item.last < at + len
      BY DEF Reads, ReadsItem
<1>3. ReadItem(buf, section, c) = [pos |-> item.next, failed |-> item.last > Size,
                                   items |-> Append(c.items, item.value)]
      BY <1>1, <1>2 DEF ReadItem
<1> HIDE DEF item, c
<1>4. (item.last > Size) = FALSE
      BY <1>2, NamesAssumption DEF Place
<1> QED BY <1>1, <1>2, <1>3, <1>4 DEF State, c

LEMMA FrontGrows ==
  ASSUME NEW vs, NEW k \in Nat
  PROVE  Append([i \in 1..k |-> vs[i]], vs[k + 1]) = [i \in 1..(k + 1) |-> vs[i]]
<1> DEFINE V == {vs[i] : i \in 1..(k + 1)}
           s == [i \in 1..k |-> vs[i]]
           t == [i \in 1..(k + 1) |-> vs[i]]
<1>1. vs[k + 1] \in V /\ \A i \in 1..k : vs[i] \in V
      OBVIOUS
<1>2. \A i \in 1..(k + 1) : vs[i] \in V
      OBVIOUS
<1> HIDE DEF V
<1>3. s \in Seq(V) /\ Len(s) = k /\ t \in Seq(V) /\ Len(t) = k + 1
      BY <1>1, <1>2
<1>4. Append(s, vs[k + 1]) \in Seq(V) /\ Len(Append(s, vs[k + 1])) = k + 1
      BY <1>1, <1>3
<1>5. \A i \in 1..(k + 1) : Append(s, vs[k + 1])[i] = t[i]
      BY <1>1, <1>3
<1> HIDE DEF s, t
<1>6. Append(s, vs[k + 1]) = t
      BY <1>3, <1>4, <1>5, SeqEqual
<1> QED BY <1>6 DEF s, t

(* The first k parts of what is held.                                      *)
LEMMA FrontsHeld ==
  ASSUME NEW buf, NEW n \in Nat, NEW ss, \A i \in 1..n : ss[i] \in Cells,
         NEW p \in [0..n -> Cells], \A i \in 1..n : p[i] = p[i - 1] \o ss[i],
         NEW from \in Place, Holds(buf, p[n], from)
  PROVE  \A k \in 0..n : Holds(buf, p[k], from) /\ Len(p[k]) <= Len(p[n])
<1> DEFINE A == {j \in Nat : j <= n => /\ Holds(buf, p[n - j], from)
                                       /\ Len(p[n - j]) <= Len(p[n])}
<1>0. \A k \in 0..n : p[k] \in Cells /\ Len(p[k]) \in Nat
      BY DEF Cells
<1>1. 0 \in A
  <2>1. n - 0 = n /\ n \in 0..n
        OBVIOUS
  <2> QED BY <1>0, <2>1
<1>2. ASSUME NEW j \in Nat, j \in A PROVE j + 1 \in A
  <2> SUFFICES ASSUME j + 1 <= n
               PROVE  Holds(buf, p[n - (j + 1)], from) /\ Len(p[n - (j + 1)]) <= Len(p[n])
      OBVIOUS
  <2> DEFINE k == n - j
  <2>1. k \in 1..n /\ k - 1 = n - (j + 1) /\ k \in 0..n /\ k - 1 \in 0..n /\ n \in 0..n
        OBVIOUS
  <2>2. Holds(buf, p[k], from) /\ Len(p[k]) <= Len(p[n])
        BY <1>2
  <2> HIDE DEF k
  <2>3. p[k] = p[k - 1] \o ss[k] /\ p[k - 1] \in Cells /\ ss[k] \in Cells
        BY <1>0, <2>1
  <2> DEFINE a == p[k - 1]
             b == ss[k]
  <2>4. a \in Cells /\ b \in Cells /\ Holds(buf, a \o b, from)
        BY <2>2, <2>3
  <2>5. Len(p[k]) = Len(a \o b)
        BY <2>3
  <2> HIDE DEF a, b
  <2>6. Holds(buf, a, from) /\ Len(a \o b) = Len(a) + Len(b) /\ Len(a) \in Nat /\ Len(b) \in Nat
        BY <2>4, HoldsBoth DEF Cells
  <2>7. Len(a) <= Len(p[n])
        BY <1>0, <2>1, <2>2, <2>5, <2>6
  <2> QED BY <2>1, <2>6, <2>7 DEF a
<1> HIDE DEF A
<1>3. Nat \subseteq A
      BY <1>1, <1>2, Induction
<1>4. ASSUME NEW k \in 0..n PROVE Holds(buf, p[k], from) /\ Len(p[k]) <= Len(p[n])
  <2>1. n - k \in Nat /\ n - k <= n /\ n - (n - k) = k
        OBVIOUS
  <2>2. n - k \in A
        BY <1>3, <2>1
  <2> QED BY <2>1, <2>2 DEF A
<1> QED BY <1>4

(* A packet, section by section.                                           *)
PacketOf(h, v1, v2, v3, v4) ==
  [header |-> h, questions |-> v1, answers |-> v2, authorities |-> v3, resources |-> v4]

(* A packet is its four sections, each read from where the one before it   *)
(* ended.                                                                  *)
LEMMA ParsedIs ==
  ASSUME NEW buf
  PROVE  LET first  == ReadSection(buf, 1, State(13, <<>>))
             second == ReadSection(buf, 2, first)
             third  == ReadSection(buf, 3, second)
             fourth == ReadSection(buf, 4, third)
         IN  Parsed(buf) = [failed  |-> fourth.failed,
                            endless |-> fourth.failed /\ IsEndless(buf, fourth.pos),
                            packet  |-> PacketOf(HeaderAt(buf), first.items, second.items,
                                                third.items, fourth.items)]
<1> DEFINE start  == [pos |-> 13, failed |-> FALSE, items |-> <<>>]
           first  == ReadSection(buf, 1, start)
           second == ReadSection(buf, 2, first)
           third  == ReadSection(buf, 3, second)
           fourth == ReadSection(buf, 4, third)
           P(g) == g = [i \in 0..4 |-> IF i = 0 THEN start ELSE ReadSection(buf, i, g[i - 1])]
           parts == CHOOSE g : P(g)
           header == HeaderAt(buf)
<1>1. Parsed(buf) = [failed  |-> parts[4].failed,
                     endless |-> parts[4].failed /\ IsEndless(buf, parts[4].pos),
                     packet  |-> PacketOf(header, parts[1].items, parts[2].items,
                                         parts[3].items, parts[4].items)]
      BY DEF Parsed, FromSections, PacketOf
<1>2. P(parts)
  <2> DEFINE reached == << first, second, third, fourth >>
             g == [i \in 0..4 |-> IF i = 0 THEN start ELSE reached[i]]
  <2>1. /\ g[0] = start /\ g[1] = first /\ g[2] = second /\ g[3] = third /\ g[4] = fourth
        /\ 0 \in 0..4
    <3> HIDE DEF start, first, second, third, fourth
    <3> QED OBVIOUS
  <2> HIDE DEF g
  <2>2. /\ g[1] = ReadSection(buf, 1, g[0]) /\ g[2] = ReadSection(buf, 2, g[1])
        /\ g[3] = ReadSection(buf, 3, g[2]) /\ g[4] = ReadSection(buf, 4, g[3])
        BY <2>1
  <2> HIDE DEF start, first, second, third, fourth
  <2>3. ASSUME NEW i \in 0..4, i # 0 PROVE g[i] = ReadSection(buf, i, g[i - 1])
    <3>1. CASE i = 1
          BY <2>2, <3>1
    <3>2. CASE i = 2
          BY <2>2, <3>2
    <3>3. CASE i = 3
          BY <2>2, <3>3
    <3>4. CASE i = 4
          BY <2>2, <3>4
    <3>5. i \in 1..4
          BY <2>3
    <3> QED BY <3>1, <3>2, <3>3, <3>4, <3>5
  <2>4. g = [i \in 0..4 |-> g[i]]
        BY DEF g
  <2>5. ASSUME NEW i \in 0..4
        PROVE  g[i] = IF i = 0 THEN start ELSE ReadSection(buf, i, g[i - 1])
        BY <2>1, <2>3
  <2>6. P(g)
        BY <2>4, <2>5
  <2> HIDE DEF P
  <2> QED BY <2>6
<1> HIDE DEF parts, start, header
<1>3. /\ parts[0] = start
      /\ \A i \in 1..4 : parts[i] = ReadSection(buf, i, parts[i - 1])
  <2>1. \A i \in 0..4 : parts[i] = IF i = 0 THEN start ELSE ReadSection(buf, i, parts[i - 1])
        BY <1>2
  <2> HIDE DEF P
  <2> QED BY <2>1
<1> HIDE DEF P
<1>4. /\ parts[1] = ReadSection(buf, 1, parts[1 - 1]) /\ parts[2] = ReadSection(buf, 2, parts[2 - 1])
      /\ parts[3] = ReadSection(buf, 3, parts[3 - 1]) /\ parts[4] = ReadSection(buf, 4, parts[4 - 1])
      BY <1>3
<1>5. 1 - 1 = 0 /\ 2 - 1 = 1 /\ 3 - 1 = 2 /\ 4 - 1 = 3
      OBVIOUS
<1>6. parts[1] = first /\ parts[2] = second /\ parts[3] = third /\ parts[4] = fourth
      BY <1>3, <1>4, <1>5
<1>7. start = State(13, <<>>)
      BY DEF start, State
<1> HIDE DEF first, second, third, fourth
<1>8. Parsed(buf) = [failed  |-> fourth.failed,
                     endless |-> fourth.failed /\ IsEndless(buf, fourth.pos),
                     packet  |-> PacketOf(header, first.items, second.items,
                                         third.items, fourth.items)]
      BY <1>1, <1>6
<1> QED BY <1>7, <1>8 DEF first, second, third, fourth, header

(* Cells that are read as a section.                                       *)
SectionAs(buf, i, cells, n, vs) ==
  /\ cells \in Cells
  /\ \A from \in Place : \A s :
       Holds(buf, cells, from) /\ from + Len(cells) <= Size + 1 /\ Count(buf, i) = n =>
         ReadSection(buf, i, State(from, s)) = State(from + Len(cells), vs)

LEMMA SectionRead ==
  ASSUME NEW buf, NEW i, NEW n \in Nat, NEW ss \in Seq(Cells), Len(ss) = n, NEW vs,
         \A k \in 1..n : ItemAs(buf, Sections[i], ss[k], vs[k])
  PROVE  SectionAs(buf, i, FlattenSeq(ss), n, [k \in 1..n |-> vs[k]])
<1> DEFINE cells == FlattenSeq(ss)
           section == Sections[i]
<1>1. PICK p \in [0..n -> Cells] :
        p[0] = <<>> /\ (\A k \in 1..n : p[k] = p[k - 1] \o ss[k]) /\ p[n] = cells
      BY FrontsExist DEF Cells
<1>2. \A k \in 1..n : ss[k] \in Cells
      OBVIOUS
<1>3. cells \in Cells /\ Len(cells) \in Nat
  <2>1. n \in 0..n
        OBVIOUS
  <2>2. p[n] \in Cells
        BY <2>1
  <2> QED BY <1>1, <2>2 DEF Cells
<1> HIDE DEF cells
<1>4. ASSUME NEW from \in Place, NEW s, Holds(buf, cells, from),
             from + Len(cells) <= Size + 1, Count(buf, i) = n
      PROVE  ReadSection(buf, i, State(from, s)) = State(from + Len(cells), [k \in 1..n |-> vs[k]])
  <2>1. PICK g : /\ g[0] = [State(from, s) EXCEPT !.items = <<>>]
                 /\ \A k \in 1..n : g[k] = ReadItem(buf, section, g[k - 1])
                 /\ ReadSection(buf, i, State(from, s)) = g[n]
        BY <1>4, SectionIs
  <2>2. \A k \in 0..n : Holds(buf, p[k], from) /\ Len(p[k]) <= Len(cells)
        BY <1>1, <1>2, <1>4, FrontsHeld
  <2> DEFINE A == {k \in Nat : k <= n => g[k] = State(from + Len(p[k]), [j \in 1..k |-> vs[j]])}
  <2>3. 0 \in A
    <3>1. [j \in 1..0 |-> vs[j]] = <<>> /\ from + Len(<<>>) = from
          BY DEF Place
    <3>2. g[0] = State(from, <<>>)
          BY <2>1 DEF State
    <3> QED BY <1>1, <3>1, <3>2
  <2>4. ASSUME NEW k \in Nat, k \in A PROVE k + 1 \in A
    <3> SUFFICES ASSUME k + 1 <= n
                 PROVE  g[k + 1] = State(from + Len(p[k + 1]), [j \in 1..(k + 1) |-> vs[j]])
        OBVIOUS
    <3>1. /\ k \in 0..n /\ k + 1 \in 1..n /\ k + 1 \in 0..n /\ (k + 1) - 1 = k
          OBVIOUS
    <3> DEFINE a == p[k]
               b == ss[k + 1]
               at == from + Len(a)
               s1 == [j \in 1..k |-> vs[j]]
               v == vs[k + 1]
               len == Len(b)
    <3>2. a \in Cells /\ b \in Cells /\ p[k + 1] = a \o b
          BY <1>1, <1>2, <3>1
    <3>3. Holds(buf, p[k + 1], from) /\ Len(p[k + 1]) <= Len(cells)
          BY <2>2, <3>1
    <3>4. g[k] = State(at, s1)
          BY <2>4, <3>1
    <3>5. g[k + 1] = ReadItem(buf, section, g[k])
          BY <2>1, <3>1
    <3>6. ItemAs(buf, section, b, v)
          BY <3>1
    <3>7. Append(s1, v) = [j \in 1..(k + 1) |-> vs[j]]
          BY FrontGrows
    <3> HIDE DEF a, b, s1, v, section
    <3>8. /\ Holds(buf, b, at) /\ at \in Place
          /\ Len(a \o b) = Len(a) + Len(b)
          BY <3>2, <3>3, HoldsBoth
    <3>9. len \in Nat /\ Len(a) \in Nat
          BY <3>2 DEF Cells
    <3>10. /\ at + len = from + Len(p[k + 1]) /\ from + Len(p[k + 1]) <= Size + 1
      <4> DEFINE la == Len(a)
                 lab == Len(p[k + 1])
                 lc == Len(cells)
      <4>1. lab = la + len /\ lab <= lc /\ from + lc <= Size + 1
            BY <1>4, <3>2, <3>3, <3>8
      <4>2. la \in Nat /\ len \in Nat /\ lc \in Nat /\ Size \in Nat /\ from \in Nat
            BY <1>3, <3>9, NamesAssumption DEF Place
      <4> HIDE DEF la, len, lab, lc
      <4>3. (from + la) + len = from + lab /\ from + lab <= Size + 1
            BY <4>1, <4>2
      <4> QED BY <4>3 DEF la, lab
    <3>11. Reads(buf, section, at, v, len)
           BY <3>6, <3>8 DEF ItemAs
    <3> HIDE DEF at, len
    <3>12. ReadItem(buf, section, State(at, s1)) = State(at + len, Append(s1, v))
           BY <3>8, <3>9, <3>10, <3>11, ItemRead
    <3> QED BY <3>4, <3>5, <3>7, <3>10, <3>12
  <2> HIDE DEF A
  <2>5. Nat \subseteq A
        BY <2>3, <2>4, Induction
  <2>6. g[n] = State(from + Len(p[n]), [j \in 1..n |-> vs[j]])
        BY <2>5 DEF A
  <2> QED BY <1>1, <2>1, <2>6
<1>5. SectionAs(buf, i, cells, n, [k \in 1..n |-> vs[k]])
      BY <1>3, <1>4 DEF SectionAs
<1> QED BY <1>5 DEF cells

IsRead(buf, packet) ==
  ~Parsed(buf).failed /\ ~Parsed(buf).endless /\ Parsed(buf).packet = packet

LEMMA PacketRead ==
  ASSUME NEW buf, NEW h \in Header, NEW counts, IsCounts(counts),
         NEW c1, NEW c2, NEW c3, NEW c4, NEW v1, NEW v2, NEW v3, NEW v4,
         SectionAs(buf, 1, c1, counts[1], v1), SectionAs(buf, 2, c2, counts[2], v2),
         SectionAs(buf, 3, c3, counts[3], v3), SectionAs(buf, 4, c4, counts[4], v4),
         Holds(buf, HeaderCells(h, counts) \o c1 \o c2 \o c3 \o c4, 1),
         Len(HeaderCells(h, counts) \o c1 \o c2 \o c3 \o c4) <= Size
  PROVE  IsRead(buf, PacketOf(SmallHeader(h), v1, v2, v3, v4))
<1> DEFINE c0 == HeaderCells(h, counts)
           n1 == Len(c1)
           n2 == Len(c2)
           n3 == Len(c3)
           n4 == Len(c4)
<1>1. IsLong(c0, 12)
      BY HeaderIs DEF IsLong
<1>2. /\ IsLong(c1, n1) /\ IsLong(c2, n2) /\ IsLong(c3, n3) /\ IsLong(c4, n4)
      /\ n1 \in Nat /\ n2 \in Nat /\ n3 \in Nat /\ n4 \in Nat
      BY DEF SectionAs, IsLong, Cells
<1>3. Holds(buf, c0 \o c1 \o c2 \o c3 \o c4, 1) /\ Len(c0 \o c1 \o c2 \o c3 \o c4) <= Size
      OBVIOUS
<1> HIDE DEF c0, n1, n2, n3, n4
<1>4. /\ AddUp(12, n1, 12 + n1) /\ AddUp(12 + n1, n2, 12 + n1 + n2)
      /\ AddUp(12 + n1 + n2, n3, 12 + n1 + n2 + n3)
      /\ AddUp(12 + n1 + n2 + n3, n4, 12 + n1 + n2 + n3 + n4)
      BY <1>2 DEF AddUp
<1>5. IsLong(c0 \o c1, 12 + n1)
      BY <1>1, <1>2, <1>4, Joined
<1>6. IsLong(c0 \o c1 \o c2, 12 + n1 + n2)
      BY <1>2, <1>4, <1>5, Joined
<1>7. IsLong(c0 \o c1 \o c2 \o c3, 12 + n1 + n2 + n3)
      BY <1>2, <1>4, <1>6, Joined
<1>8. IsLong(c0 \o c1 \o c2 \o c3 \o c4, 12 + n1 + n2 + n3 + n4)
      BY <1>2, <1>4, <1>7, Joined
<1>9. /\ 1 \in Place /\ AddUp(1, 12, 13) /\ AddUp(1, 12 + n1, 13 + n1)
      /\ AddUp(1, 12 + n1 + n2, 13 + n1 + n2)
      /\ AddUp(1, 12 + n1 + n2 + n3, 13 + n1 + n2 + n3)
      BY <1>2 DEF Place, AddUp
<1>10. /\ Holds(buf, c0 \o c1 \o c2 \o c3, 1)
       /\ Holds(buf, c4, 13 + n1 + n2 + n3) /\ 13 + n1 + n2 + n3 \in Place
       BY <1>2, <1>3, <1>7, <1>9, Apart
<1>11. /\ Holds(buf, c0 \o c1 \o c2, 1)
       /\ Holds(buf, c3, 13 + n1 + n2) /\ 13 + n1 + n2 \in Place
       BY <1>2, <1>6, <1>9, <1>10, Apart
<1>12. /\ Holds(buf, c0 \o c1, 1)
       /\ Holds(buf, c2, 13 + n1) /\ 13 + n1 \in Place
       BY <1>2, <1>5, <1>9, <1>11, Apart
<1>13. Holds(buf, c0, 1) /\ Holds(buf, c1, 13) /\ 13 \in Place
       BY <1>1, <1>2, <1>9, <1>12, Apart
<1>14. HeaderAt(buf) = SmallHeader(h) /\ \A i \in 1..4 : Count(buf, i) = counts[i]
       BY <1>13, HeaderRead DEF c0
<1>15. 12 + n1 + n2 + n3 + n4 <= Size
       BY <1>3, <1>8 DEF IsLong
<1>16. /\ 13 + n1 <= Size + 1 /\ 13 + n1 + n2 <= Size + 1 /\ 13 + n1 + n2 + n3 <= Size + 1
       /\ 13 + n1 + n2 + n3 + n4 <= Size + 1
       BY <1>2, <1>15, NamesAssumption
<1>17. Count(buf, 1) = counts[1] /\ Count(buf, 2) = counts[2]
       /\ Count(buf, 3) = counts[3] /\ Count(buf, 4) = counts[4]
       BY <1>14
<1> DEFINE first  == ReadSection(buf, 1, State(13, <<>>))
           second == ReadSection(buf, 2, first)
           third  == ReadSection(buf, 3, second)
           fourth == ReadSection(buf, 4, third)
<1>18. first = State(13 + n1, v1)
       BY <1>13, <1>16, <1>17 DEF SectionAs, n1
<1>19. second = State(13 + n1 + n2, v2)
  <2> HIDE DEF first
  <2>1. ReadSection(buf, 2, State(13 + n1, v1)) = State(13 + n1 + n2, v2)
        BY <1>12, <1>16, <1>17 DEF SectionAs, n2
  <2> QED BY <1>18, <2>1
<1>20. third = State(13 + n1 + n2 + n3, v3)
  <2> HIDE DEF second
  <2>1. ReadSection(buf, 3, State(13 + n1 + n2, v2)) = State(13 + n1 + n2 + n3, v3)
        BY <1>11, <1>16, <1>17 DEF SectionAs, n3
  <2> QED BY <1>19, <2>1
<1>21. fourth = State(13 + n1 + n2 + n3 + n4, v4)
  <2> HIDE DEF third
  <2>1. ReadSection(buf, 4, State(13 + n1 + n2 + n3, v3)) = State(13 + n1 + n2 + n3 + n4, v4)
        BY <1>10, <1>16, <1>17 DEF SectionAs, n4
  <2> QED BY <1>20, <2>1
<1>22. Parsed(buf) = [failed  |-> fourth.failed,
                      endless |-> fourth.failed /\ IsEndless(buf, fourth.pos),
                      packet  |-> PacketOf(HeaderAt(buf), first.items, second.items,
                                          third.items, fourth.items)]
       BY ParsedIs
<1> HIDE DEF first, second, third, fourth
<1>23. /\ first.items = v1 /\ second.items = v2 /\ third.items = v3
       /\ fourth.items = v4 /\ fourth.failed = FALSE
       BY <1>18, <1>19, <1>20, <1>21 DEF State
<1> DEFINE packet == PacketOf(SmallHeader(h), v1, v2, v3, v4)
           endless == fourth.failed /\ IsEndless(buf, fourth.pos)
<1>24. PacketOf(HeaderAt(buf), first.items, second.items, third.items, fourth.items) = packet
       BY <1>14, <1>23
<1>25. endless = FALSE /\ fourth.failed = FALSE
       BY <1>23
<1>26. Parsed(buf) = [failed |-> FALSE, endless |-> endless, packet |-> packet]
       BY <1>22, <1>24, <1>25
<1> HIDE DEF packet, endless
<1>27. Parsed(buf).failed = FALSE /\ Parsed(buf).endless = endless /\ Parsed(buf).packet = packet
       BY <1>26
<1> QED BY <1>25, <1>27 DEF IsRead, packet

-------------------------------------------------------------------------------
(* What clients write.                                                     *)
LEMMA QuestionsAs ==
  ASSUME NEW buf, NEW qs \in Seq(Question)
  PROVE  SectionAs(buf, 1, ClientQuestions(qs), Len(qs),
                   [k \in DOMAIN qs |-> SmallLetters(qs[k])])
<1> DEFINE n == Len(qs)
           ss == [k \in 1..n |-> ClientQuestion(qs[k])]
           vs == [k \in 1..n |-> SmallLetters(qs[k])]
<1>1. n \in Nat /\ DOMAIN qs = 1..n /\ \A k \in 1..n : qs[k] \in Question
      OBVIOUS
<1>2. \A k \in 1..n : ItemAs(buf, "questions", ClientQuestion(qs[k]), SmallLetters(qs[k]))
      BY <1>1, ClientQuestionAs
<1>3. ClientQuestions(qs) = FlattenSeq(ss)
      BY <1>1 DEF ClientQuestions
<1> HIDE DEF n
<1>4. \A k \in 1..n : ClientQuestion(qs[k]) \in Cells
      BY <1>2 DEF ItemAs
<1>5. ss \in Seq(Cells) /\ Len(ss) = n
      BY <1>1, <1>4
<1>6. \A k \in 1..n : ItemAs(buf, "questions", ss[k], vs[k])
      BY <1>2
<1>7. Sections[1] = "questions" /\ vs = [k \in 1..n |-> vs[k]]
      BY DEF Sections
<1> HIDE DEF ss, vs
<1>8. SectionAs(buf, 1, FlattenSeq(ss), n, [k \in 1..n |-> vs[k]])
      BY <1>1, <1>5, <1>6, <1>7, SectionRead
<1>9. vs = [k \in DOMAIN qs |-> SmallLetters(qs[k])]
      BY <1>1 DEF vs
<1> QED BY <1>3, <1>7, <1>8, <1>9, Zenon DEF n

LEMMA ClientRecordsAs ==
  ASSUME NEW buf, NEW q, FirstAt(buf, q), NEW i \in 2..4, NEW rs \in Seq(Record)
  PROVE  SectionAs(buf, i, ClientRecords(q, rs), Len(rs), SmallRecords(rs))
<1> DEFINE n == Len(rs)
           ss == [k \in 1..n |-> ClientRecord(q, rs[k])]
           vs == [k \in 1..n |-> SmallRecord(rs[k])]
<1>1. n \in Nat /\ DOMAIN rs = 1..n /\ \A k \in 1..n : rs[k] \in Record
      OBVIOUS
<1>2. Sections[i] # "questions"
      BY DEF Sections
<1>3. \A k \in 1..n : ItemAs(buf, Sections[i], ClientRecord(q, rs[k]), SmallRecord(rs[k]))
      BY <1>1, <1>2, ClientRecordAs
<1>4. ClientRecords(q, rs) = FlattenSeq(ss) /\ SmallRecords(rs) = vs
      BY <1>1 DEF ClientRecords, SmallRecords
<1> HIDE DEF n
<1>5. \A k \in 1..n : ClientRecord(q, rs[k]) \in Cells
      BY <1>3 DEF ItemAs
<1>6. ss \in Seq(Cells) /\ Len(ss) = n
      BY <1>1, <1>5
<1>7. \A k \in 1..n : ItemAs(buf, Sections[i], ss[k], vs[k])
      BY <1>3
<1>8. vs = [k \in 1..n |-> vs[k]]
      OBVIOUS
<1> HIDE DEF ss, vs
<1>9. SectionAs(buf, i, FlattenSeq(ss), n, [k \in 1..n |-> vs[k]])
      BY <1>1, <1>6, <1>7, SectionRead
<1> QED BY <1>4, <1>8, <1>9, Zenon DEF n

(* The name of the first question is at its place.                         *)
LEMMA FirstHeld ==
  ASSUME NEW buf, NEW q, q.questions \in Seq(Question),
         Holds(buf, ClientQuestions(q.questions), 13)
  PROVE  /\ FirstAt(buf, q)
         /\ q.questions # <<>> => Holds(buf, ClientQuestion(q.questions[1]), 13)
<1> SUFFICES ASSUME q.questions # <<>>
             PROVE  /\ q.questions[1].name \in Domain
                    /\ CellAt(buf, 13) = WireName(q.questions[1].name)[1]
                    /\ Holds(buf, ClientQuestion(q.questions[1]), 13)
    BY DEF FirstAt
<1> DEFINE qs == q.questions
           n == Len(qs)
           ss == [k \in 1..n |-> ClientQuestion(qs[k])]
           name == qs[1].name
           nc == WireName(name)
           t == U16(qs[1].type)
           c == U16(1)
<1>1. n \in Nat /\ DOMAIN qs = 1..n /\ 1 \in 1..n /\ \A k \in 1..n : qs[k] \in Question
      OBVIOUS
<1>2. \A k \in 1..n : ClientQuestion(qs[k]) \in Cells
      BY <1>1, ClientQuestionAs DEF ItemAs
<1>3. ClientQuestions(qs) = FlattenSeq(ss)
      BY <1>1 DEF ClientQuestions
<1>4. ss \in Seq(Cells) /\ Len(ss) = n /\ ss[1] = ClientQuestion(qs[1])
      BY <1>1, <1>2
<1>5. ClientQuestion(qs[1]) = nc \o t \o c
      BY DEF ClientQuestion
<1>6. name \in Domain /\ qs[1].type \in Nat
      BY <1>1, QuestionIs
<1>7. nc \in Cells /\ t \in Cells /\ c \in Cells /\ nc # <<>>
  <2> HIDE DEF name, qs
  <2>1. nc \in Cells /\ nc # <<>>
        BY <1>6, WireNameIs
  <2>2. t \in Cells /\ c \in Cells
        BY <1>6, U16Is
  <2> QED BY <2>1, <2>2
<1>8. Holds(buf, FlattenSeq(ss), 13)
      BY <1>3
<1> HIDE DEF qs, n, ss, name, nc, t, c
<1>9. PICK p \in [0..n -> Cells] :
        p[0] = <<>> /\ (\A k \in 1..n : p[k] = p[k - 1] \o ss[k]) /\ p[n] = FlattenSeq(ss)
      BY <1>4, FrontsExist DEF Cells
<1>10. 13 \in Place /\ \A k \in 1..n : ss[k] \in Cells
       BY <1>4 DEF Place
<1>11. \A k \in 0..n : Holds(buf, p[k], 13)
  <2>1. Holds(buf, p[n], 13)
        BY <1>8, <1>9
  <2>2. \A k \in 1..n : p[k] = p[k - 1] \o ss[k]
        BY <1>9
  <2>3. /\ 13 \in Place /\ n \in Nat /\ p \in [0..n -> Cells]
        /\ \A k \in 1..n : ss[k] \in Cells
        BY <1>1, <1>9, <1>10
  <2> DEFINE from == 13
  <2>4. from \in Place /\ Holds(buf, p[n], from)
        BY <2>1, <2>3
  <2> HIDE DEF from
  <2>5. \A k \in 0..n : Holds(buf, p[k], from)
        BY <2>2, <2>3, <2>4, FrontsHeld, Zenon
  <2> QED BY <2>5 DEF from
<1>12. p[1] = <<>> \o ss[1]
  <2>1. 1 - 1 = 0
        OBVIOUS
  <2> QED BY <1>1, <1>9, <2>1
<1>13. <<>> \o ss[1] = ss[1]
       BY <1>1, <1>10, ConcatEmptySeq DEF Cells
<1>14. Holds(buf, nc \o t \o c, 13)
  <2>1. 1 \in 0..n
        BY <1>1
  <2> QED BY <1>4, <1>5, <1>11, <1>12, <1>13, <2>1
<1>15. nc \o t \in Cells
       BY <1>7, BothIs
<1>16. Holds(buf, nc \o t, 13)
       BY <1>7, <1>10, <1>14, <1>15, HoldsBoth
<1>17. Holds(buf, nc, 13)
       BY <1>7, <1>10, <1>16, HoldsBoth
<1>18. CellAt(buf, 13) = nc[1]
       BY <1>7, <1>10, <1>17, HoldsFirst
<1> QED BY <1>5, <1>6, <1>14, <1>18 DEF name, qs, nc

(* The sections of what a client writes, and the whole of it.              *)
IsQuery(q) ==
  /\ q.header \in Header /\ q.questions \in Seq(Question) /\ q.answers \in Seq(Record)
  /\ q.authorities \in Seq(Record) /\ q.resources \in Seq(Record)

LEMMA QueriesAre ==
  ASSUME NEW q \in Queries, ~AsksInCircle(q)
  PROVE  IsQuery(q)
BY QueriesAssumption DEF IsQuery

LEMMA QueryInNoCircle ==
  ASSUME NEW q, IsQuery(q)
  PROVE  ~AsksInCircle(q)
<1> SUFFICES ASSUME q.questions # <<>> PROVE q.questions[1].name # Circle
    BY DEF AsksInCircle
<1>1. q.questions[1] \in Question
      BY DEF IsQuery
<1>2. q.questions[1].name \in Domain
      BY <1>1, QuestionIs
<1> QED BY <1>2, NoCircle

LEMMA RecordsAreCells ==
  ASSUME NEW q, IsQuery(q), NEW rs \in Seq(Record)
  PROVE  ClientRecords(q, rs) \in Cells
<1> DEFINE first == WireName(q.questions[1].name)[1]
           buf == [at \in {13} |-> first]
<1>1. FirstAt(buf, q)
  <2>1. q.questions # <<>> => q.questions[1] \in Question
        BY DEF IsQuery
  <2>2. q.questions # <<>> => q.questions[1].name \in Domain
        BY <2>1, QuestionIs
  <2>3. CellAt(buf, 13) = first
        BY DEF CellAt
  <2> QED BY <2>2, <2>3 DEF FirstAt
<1> HIDE DEF buf
<1>2. 2 \in 2..4
      OBVIOUS
<1>3. SectionAs(buf, 2, ClientRecords(q, rs), Len(rs), SmallRecords(rs))
      BY <1>1, <1>2, ClientRecordsAs
<1> QED BY <1>3 DEF SectionAs

LEMMA CountsAre ==
  ASSUME NEW q, IsQuery(q)
  PROVE  /\ IsCounts(Counts(q))
         /\ Counts(q)[1] = Len(q.questions) /\ Counts(q)[2] = Len(q.answers)
         /\ Counts(q)[3] = Len(q.authorities) /\ Counts(q)[4] = Len(q.resources)
<1>1. /\ Counts(q)[1] = Len(q.questions) /\ Counts(q)[2] = Len(q.answers)
      /\ Counts(q)[3] = Len(q.authorities) /\ Counts(q)[4] = Len(q.resources)
      BY DEF Counts
<1>2. /\ Len(q.questions) \in Nat /\ Len(q.answers) \in Nat
      /\ Len(q.authorities) \in Nat /\ Len(q.resources) \in Nat
      BY DEF IsQuery
<1> QED BY <1>1, <1>2 DEF IsCounts

LEMMA ClientHolds ==
  ASSUME NEW q, IsQuery(q)
  PROVE  /\ ClientCells(q) \in Cells
         /\ \A buf : Holds(buf, ClientCells(q), 1) =>
              /\ FirstAt(buf, q) /\ Holds(buf, HeaderCells(q.header, Counts(q)), 1)
              /\ q.questions # <<>> => Holds(buf, ClientQuestion(q.questions[1]), 13)
<1> DEFINE c0 == HeaderCells(q.header, Counts(q))
           c1 == ClientQuestions(q.questions)
           c2 == ClientRecords(q, q.answers)
           c3 == ClientRecords(q, q.authorities)
           c4 == ClientRecords(q, q.resources)
<1>1. IsLong(c0, 12)
      BY CountsAre, HeaderIs DEF IsLong, IsQuery
<1>2. c1 \in Cells
  <2>1. SectionAs(<<>>, 1, c1, Len(q.questions), [k \in DOMAIN q.questions |-> SmallLetters(q.questions[k])])
        BY QuestionsAs DEF IsQuery
  <2> QED BY <2>1 DEF SectionAs
<1>3. c2 \in Cells /\ c3 \in Cells /\ c4 \in Cells
      BY RecordsAreCells DEF IsQuery
<1>4. ClientCells(q) = c0 \o c1 \o c2 \o c3 \o c4
      BY DEF ClientCells
<1>5. ASSUME NEW buf, Holds(buf, c1, 13)
      PROVE  /\ FirstAt(buf, q)
             /\ q.questions # <<>> => Holds(buf, ClientQuestion(q.questions[1]), 13)
      BY <1>5, FirstHeld DEF IsQuery
<1> HIDE DEF c0, c1, c2, c3, c4
<1>6. c0 \in Cells /\ Len(c0) = 12
      BY <1>1 DEF IsLong
<1>7. c0 \o c1 \in Cells
      BY <1>2, <1>6, BothIs
<1>8. c0 \o c1 \o c2 \in Cells
      BY <1>3, <1>7, BothIs
<1>9. c0 \o c1 \o c2 \o c3 \in Cells
      BY <1>3, <1>8, BothIs
<1>10. c0 \o c1 \o c2 \o c3 \o c4 \in Cells
       BY <1>3, <1>9, BothIs
<1>11. ASSUME NEW buf, Holds(buf, c0 \o c1 \o c2 \o c3 \o c4, 1)
       PROVE  /\ FirstAt(buf, q) /\ Holds(buf, c0, 1)
              /\ q.questions # <<>> => Holds(buf, ClientQuestion(q.questions[1]), 13)
  <2>1. 1 \in Place /\ 1 + 12 = 13
        BY DEF Place
  <2>2. Holds(buf, c0 \o c1 \o c2 \o c3, 1)
        BY <1>3, <1>9, <1>11, <2>1, HoldsBoth
  <2>3. Holds(buf, c0 \o c1 \o c2, 1)
        BY <1>3, <1>8, <2>1, <2>2, HoldsBoth
  <2>4. Holds(buf, c0 \o c1, 1)
        BY <1>3, <1>7, <2>1, <2>3, HoldsBoth
  <2>5. Holds(buf, c0, 1) /\ Holds(buf, c1, 1 + Len(c0))
        BY <1>2, <1>6, <2>1, <2>4, HoldsBoth
  <2>6. Holds(buf, c1, 13)
        BY <1>6, <2>1, <2>5, Zenon
  <2> QED BY <1>5, <2>5, <2>6
<1> QED BY <1>4, <1>10, <1>11 DEF c0

LEMMA ClientRead ==
  ASSUME NEW q, IsQuery(q), NEW buf, Holds(buf, ClientCells(q), 1), Len(ClientCells(q)) <= Size
  PROVE  IsRead(buf, SmallPacket(q))
<1> DEFINE c1 == ClientQuestions(q.questions)
           c2 == ClientRecords(q, q.answers)
           c3 == ClientRecords(q, q.authorities)
           c4 == ClientRecords(q, q.resources)
           v1 == [k \in DOMAIN q.questions |-> SmallLetters(q.questions[k])]
           v2 == SmallRecords(q.answers)
           v3 == SmallRecords(q.authorities)
           v4 == SmallRecords(q.resources)
           counts == Counts(q)
           h == q.header
<1>1. h \in Header /\ IsCounts(counts)
      BY CountsAre DEF IsQuery
<1>2. FirstAt(buf, q)
      BY ClientHolds
<1>3. SectionAs(buf, 1, c1, counts[1], v1)
      BY CountsAre, QuestionsAs DEF IsQuery
<1>4. 2 \in 2..4 /\ 3 \in 2..4 /\ 4 \in 2..4
      OBVIOUS
<1>5. SectionAs(buf, 2, c2, counts[2], v2)
  <2>1. SectionAs(buf, 2, c2, Len(q.answers), v2)
        BY <1>2, <1>4, ClientRecordsAs DEF IsQuery
  <2> QED BY <2>1, CountsAre
<1>6. SectionAs(buf, 3, c3, counts[3], v3)
  <2>1. SectionAs(buf, 3, c3, Len(q.authorities), v3)
        BY <1>2, <1>4, ClientRecordsAs DEF IsQuery
  <2> QED BY <2>1, CountsAre
<1>7. SectionAs(buf, 4, c4, counts[4], v4)
  <2>1. SectionAs(buf, 4, c4, Len(q.resources), v4)
        BY <1>2, <1>4, ClientRecordsAs DEF IsQuery
  <2> QED BY <2>1, CountsAre
<1>8. ClientCells(q) = HeaderCells(h, counts) \o c1 \o c2 \o c3 \o c4
      BY DEF ClientCells
<1>9. SmallPacket(q) = PacketOf(SmallHeader(h), v1, v2, v3, v4)
      BY DEF SmallPacket, PacketOf, SmallHeader
<1> HIDE DEF c1, c2, c3, c4, v1, v2, v3, v4, counts, h
<1>10. /\ Holds(buf, HeaderCells(h, counts) \o c1 \o c2 \o c3 \o c4, 1)
       /\ Len(HeaderCells(h, counts) \o c1 \o c2 \o c3 \o c4) <= Size
       BY <1>8
<1>11. IsRead(buf, PacketOf(SmallHeader(h), v1, v2, v3, v4))
       BY <1>1, <1>3, <1>5, <1>6, <1>7, <1>10, PacketRead
<1> QED BY <1>9, <1>11

-------------------------------------------------------------------------------
(* What a buffer takes of a datagram is the same as far as it goes.        *)
LEMMA LeastOfTwo ==
  ASSUME NEW m \in Nat, NEW n \in Nat
  PROVE  Min({m, n}) = IF m <= n THEN m ELSE n
<1> DEFINE k == IF m <= n THEN m ELSE n
           P(x) == x \in {m, n} /\ \A y \in {m, n} : x <= y
<1>1. P(k) /\ \A x : P(x) => x = k
      OBVIOUS
<1>2. Min({m, n}) = CHOOSE x \in {m, n} : \A y \in {m, n} : x <= y
      BY DEF Min
<1>3. P(Min({m, n}))
      BY <1>1, <1>2
<1> QED BY <1>1, <1>3

LEMMA InBufferIs ==
  ASSUME NEW cells \in Cells
  PROVE  /\ Len(cells) <= Size => InBuffer(cells) = cells
         /\ \A at \in 1..Size : CellAt(InBuffer(cells), at) = CellAt(cells, at)
<1> DEFINE n == Len(cells)
           m == Min({Size, n})
           buf == SubSeq(cells, 1, m)
<1>1. n \in Nat /\ Size \in Nat
      BY NamesAssumption DEF Cells
<1>2. m = IF Size <= n THEN Size ELSE n
      BY <1>1, LeastOfTwo
<1>3. m \in 0..n /\ (n <= Size => m = n) /\ (m # n => m = Size)
      BY <1>1, <1>2
<1> HIDE DEF m
<1>4. /\ buf \in Seq(Cell) /\ Len(buf) = m /\ \A i \in 1..m : buf[i] = cells[i]
      BY <1>3, FrontAndRest DEF Cells
<1>5. InBuffer(cells) = buf
      BY DEF InBuffer, m
<1> HIDE DEF buf
<1>6. n <= Size => buf = cells
  <2> SUFFICES ASSUME n <= Size PROVE buf = cells
      OBVIOUS
  <2>1. Len(buf) = Len(cells) /\ cells \in Seq(Cell) /\ \A i \in 1..Len(cells) : buf[i] = cells[i]
        BY <1>3, <1>4 DEF Cells
  <2> QED BY <1>4, <2>1, SeqEqual
<1>7. ASSUME NEW at \in 1..Size PROVE CellAt(buf, at) = CellAt(cells, at)
  <2>1. DOMAIN buf = 1..m /\ DOMAIN cells = 1..n
        BY <1>4 DEF Cells
  <2>2. CASE at <= m
    <3>1. at \in 1..m /\ at \in 1..n
          BY <1>1, <1>3, <2>2
    <3> QED BY <1>4, <2>1, <3>1 DEF CellAt
  <2>3. CASE ~(at <= m)
    <3>1. at \notin 1..m /\ at \notin 1..n
          BY <1>1, <1>3, <2>3
    <3> QED BY <2>1, <3>1 DEF CellAt
  <2> QED BY <2>2, <2>3
<1> QED BY <1>5, <1>6, <1>7

(* Reading the same from two buffers that agree.                           *)
Agree(buf, cells) == \A at \in 1..Size : CellAt(buf, at) = CellAt(cells, at)

LEMMA SameValue ==
  ASSUME NEW buf, NEW cells, Agree(buf, cells), NEW at \in Nat, 1 <= at, at <= Size
  PROVE  Value(buf, at) = Value(cells, at)
<1>1. at \in 1..Size
      BY NamesAssumption
<1> QED BY <1>1 DEF Agree, Value

LEMMA SameNumber ==
  ASSUME NEW buf, NEW cells, Agree(buf, cells), NEW at \in Nat, 1 <= at, at + 1 <= Size
  PROVE  U16At(buf, at) = U16At(cells, at)
<1>1. at + 1 \in Nat /\ 1 <= at + 1 /\ at <= Size
      BY NamesAssumption
<1>2. Value(buf, at) = Value(cells, at)
      BY <1>1, SameValue
<1>3. Value(buf, at + 1) = Value(cells, at + 1)
      BY <1>1, SameValue
<1> QED BY <1>2, <1>3 DEF U16At

LEMMA SameHeader ==
  ASSUME NEW buf, NEW cells, Agree(buf, cells)
  PROVE  HeaderAt(buf) = HeaderAt(cells) /\ \A i \in 1..4 : Count(buf, i) = Count(cells, i)
<1>1. Size \in Nat /\ 12 < Size
      BY NamesAssumption
<1>2. U16At(buf, 1) = U16At(cells, 1)
  <2>1. 1 <= 1 /\ 1 + 1 <= Size
        BY <1>1
  <2> QED BY <2>1, SameNumber
<1>3. Value(buf, 3) = Value(cells, 3)
  <2>1. 1 <= 3 /\ 3 <= Size
        BY <1>1
  <2> QED BY <2>1, SameValue
<1>4. Value(buf, 4) = Value(cells, 4)
  <2>1. 1 <= 4 /\ 4 <= Size
        BY <1>1
  <2> QED BY <2>1, SameValue
<1>5. ASSUME NEW i \in 1..4 PROVE Count(buf, i) = Count(cells, i)
  <2>1. 3 + 2 * i \in Nat /\ 1 <= 3 + 2 * i /\ (3 + 2 * i) + 1 <= Size
        BY <1>1
  <2>2. U16At(buf, 3 + 2 * i) = U16At(cells, 3 + 2 * i)
        BY <2>1, SameNumber
  <2> QED BY <2>2 DEF Count
<1> QED BY <1>2, <1>3, <1>4, <1>5 DEF HeaderAt

-------------------------------------------------------------------------------
(* Once reading has failed it has failed, and what was read stays.         *)
IsState(c) ==
  /\ DOMAIN c = {"pos", "failed", "items"} /\ c = [f \in DOMAIN c |-> c[f]]
  /\ c.failed \in BOOLEAN

LEMMA StateIs ==
  ASSUME NEW at, NEW over \in BOOLEAN, NEW s, NEW c,
         c = [pos |-> at, failed |-> over, items |-> s]
  PROVE  IsState(c) /\ c.items = s
<1>1. DOMAIN c = {"pos", "failed", "items"} /\ c = [f \in DOMAIN c |-> c[f]]
      OBVIOUS
<1>2. c.failed = over /\ c.items = s
      OBVIOUS
<1> QED BY <1>1, <1>2 DEF IsState

Begins(c, v) == \E S : c.items \in Seq(S) /\ c.items # <<>> /\ c.items[1] = v

LEMMA AppendBegins ==
  ASSUME NEW S, NEW s \in Seq(S), NEW x
  PROVE  \E T : /\ Append(s, x) \in Seq(T) /\ Append(s, x) # <<>>
                /\ (s # <<>> => Append(s, x)[1] = s[1])
                /\ (s = <<>> => Append(s, x)[1] = x)
<1> DEFINE T == S \cup {x}
<1>1. S \subseteq T /\ x \in T
      OBVIOUS
<1> HIDE DEF T
<1>2. s \in Seq(T)
      BY <1>1
<1>3. Append(s, x) \in Seq(T) /\ Len(Append(s, x)) = Len(s) + 1
      BY <1>1, <1>2
<1>4. Append(s, x) # <<>>
      BY <1>2, <1>3
<1>5. s # <<>> => Append(s, x)[1] = s[1]
      BY <1>1, <1>2
<1>6. s = <<>> => Append(s, x)[1] = x
      BY <1>1, <1>2
<1> QED BY <1>3, <1>4, <1>5, <1>6

LEMMA ReadItemKeeps ==
  ASSUME NEW buf, NEW section, NEW c, IsState(c)
  PROVE  /\ IsState(ReadItem(buf, section, c))
         /\ c.failed => ReadItem(buf, section, c).failed
         /\ \A v : Begins(c, v) => Begins(ReadItem(buf, section, c), v)
<1> DEFINE item == IF section = "questions" THEN QuestionAt(buf, c.pos) ELSE RecordAt(buf, c.pos)
           new == ReadItem(buf, section, c)
<1>1. CASE c.failed \/ ~IsNameAt(buf, c.pos)
  <2>1. new = [c EXCEPT !.failed = TRUE]
        BY <1>1 DEF ReadItem
  <2>2. /\ DOMAIN new = {"pos", "failed", "items"} /\ new = [f \in DOMAIN new |-> new[f]]
        /\ new.failed = TRUE /\ new.items = c.items
    <3> HIDE DEF new
    <3> QED BY <2>1 DEF IsState
  <2> HIDE DEF new
  <2>3. IsState(new) /\ new.failed
        BY <2>2 DEF IsState
  <2>4. \A v : Begins(c, v) => Begins(new, v)
        BY <2>2 DEF Begins
  <2> QED BY <2>3, <2>4 DEF new
<1>2. CASE ~(c.failed \/ ~IsNameAt(buf, c.pos))
  <2>1. new = [pos |-> item.next, failed |-> item.last > Size,
               items |-> Append(c.items, item.value)]
        BY <1>2 DEF ReadItem
  <2> HIDE DEF item, new
  <2>2. IsState(new) /\ new.items = Append(c.items, item.value)
    <3> DEFINE over == item.last > Size
    <3>1. over \in BOOLEAN
          OBVIOUS
    <3> DEFINE at == item.next
               s == Append(c.items, item.value)
    <3> HIDE DEF over, at, s
    <3>2. new = [pos |-> at, failed |-> over, items |-> s]
          BY <2>1 DEF over, at, s
    <3>3. IsState(new) /\ new.items = s
          BY <3>1, <3>2, StateIs
    <3> QED BY <3>3 DEF s
  <2>3. ASSUME NEW v, Begins(c, v) PROVE Begins(new, v)
    <3>1. PICK S : c.items \in Seq(S) /\ c.items # <<>> /\ c.items[1] = v
          BY <2>3 DEF Begins
    <3> DEFINE s == c.items
               t == Append(s, item.value)
    <3>2. s \in Seq(S) /\ s # <<>> /\ s[1] = v
          BY <3>1
    <3> HIDE DEF s
    <3>3. PICK T : t \in Seq(T) /\ t # <<>> /\ (s # <<>> => t[1] = s[1])
          BY <3>2, AppendBegins
    <3>4. new.items = t
          BY <2>2 DEF s
    <3> HIDE DEF t
    <3> QED BY <3>2, <3>3, <3>4 DEF Begins
  <2> QED BY <1>2, <2>2, <2>3 DEF new
<1> QED BY <1>1, <1>2

LEMMA SectionKeeps ==
  ASSUME NEW buf, NEW i, Count(buf, i) \in Nat, NEW before, IsState(before)
  PROVE  /\ IsState(ReadSection(buf, i, before))
         /\ before.failed => ReadSection(buf, i, before).failed
<1> DEFINE n == Count(buf, i)
           section == Sections[i]
<1>1. PICK g : /\ g[0] = [before EXCEPT !.items = <<>>]
               /\ \A k \in 1..n : g[k] = ReadItem(buf, section, g[k - 1])
               /\ ReadSection(buf, i, before) = g[n]
      BY SectionIs
<1>2. n \in Nat
      OBVIOUS
<1> HIDE DEF n, section
<1> DEFINE A == {k \in Nat : k <= n => IsState(g[k]) /\ (before.failed => g[k].failed)}
<1>3. 0 \in A
      BY <1>1 DEF IsState
<1>4. ASSUME NEW k \in Nat, k \in A PROVE k + 1 \in A
  <2> SUFFICES ASSUME k + 1 <= n
               PROVE  IsState(g[k + 1]) /\ (before.failed => g[k + 1].failed)
      OBVIOUS
  <2>1. k + 1 \in 1..n /\ (k + 1) - 1 = k /\ k <= n
        BY <1>2
  <2>2. g[k + 1] = ReadItem(buf, section, g[k])
        BY <1>1, <2>1
  <2>3. IsState(g[k]) /\ (before.failed => g[k].failed)
        BY <1>4, <2>1
  <2> QED BY <2>2, <2>3, ReadItemKeeps
<1> HIDE DEF A
<1>5. Nat \subseteq A
      BY <1>3, <1>4, Induction
<1> QED BY <1>1, <1>2, <1>5 DEF A

(* The first question of a datagram, cut off or not.                       *)
LEMMA FirstQuestion ==
  ASSUME NEW cells, NEW buf, Agree(buf, cells), NEW q \in Question,
         Holds(cells, ClientQuestion(q), 13)
  PROVE  LET c == ReadItem(buf, "questions", State(13, <<>>))
         IN  IsState(c) /\ (c.failed \/ Begins(c, SmallLetters(q)))
<1> DEFINE nc == WireName(q.name)
           w == Len(nc)
           b == 13 + w
           name == SmallName(q.name)
           v == SmallLetters(q)
           item == QuestionAt(buf, 13)
           over == item.last > Size
           c == ReadItem(buf, "questions", State(13, <<>>))
<1>1. q.name \in Domain
      BY QuestionIs
<1>2. nc \in Cells /\ w \in Nat \ {0} /\ nc # <<>>
      BY <1>1, WireNameIs
<1>3. Size \in Nat /\ 13 \in 1..Size /\ 13 \in Place /\ b \in Nat
      BY <1>2, NamesAssumption DEF Place
<1>4. CellAt(cells, 13) = nc[1] /\ U16At(cells, b) = q.type
  <2>1. ClientQuestion(q) = Asked(nc, q)
        BY DEF ClientQuestion, Asked
  <2>2. Holds(cells, Asked(nc, q), 13)
        BY <2>1
  <2> HIDE DEF nc
  <2>3. IsLong(nc, w)
        BY <1>2 DEF IsLong
  <2> HIDE DEF w, b, v, name, item, over, c
  <2>6. w \in Nat
        BY <1>2
  <2>7. \A bytes : \A at \in Place : Holds(bytes, Asked(nc, q), at) =>
          Holds(bytes, nc, at) /\ U16At(bytes, at + w) = q.type
        BY <2>3, <2>6, AskedIs
  <2>4. \A at \in Place : Holds(cells, Asked(nc, q), at) =>
          Holds(cells, nc, at) /\ U16At(cells, at + w) = q.type
        BY <2>7
  <2>5. Holds(cells, nc, 13) /\ U16At(cells, 13 + w) = q.type
        BY <1>3, <2>2, <2>4
  <2> QED BY <1>2, <1>3, <2>5, HoldsFirst DEF b
<1>5. CellAt(buf, 13) = nc[1]
      BY <1>3, <1>4 DEF Agree
<1>6. NamedAt(buf, 13, name, w)
      BY <1>1, <1>3, <1>5, WireNamedHere
<1>9. item = Item([name |-> name, type |-> U16At(buf, b)], b + 3)
      BY <1>6 DEF QuestionAt, NamedAt
<1>10. v = [name |-> name, type |-> U16At(cells, b)]
       BY <1>4, QuestionIs
<1>11. item.last = b + 3 /\ item.value = [name |-> name, type |-> U16At(buf, b)]
       BY <1>9 DEF Item
<1>12. c = [pos |-> item.next, failed |-> over, items |-> Append(<<>>, item.value)]
       BY <1>6 DEF ReadItem, State, NamedAt
<1>13. over \in BOOLEAN
       OBVIOUS
<1>14. CASE b + 3 <= Size
  <2>1. b + 1 <= Size /\ 1 <= b
        BY <1>2, <1>3, <1>14
  <2>2. U16At(buf, b) = U16At(cells, b)
        BY <1>3, <2>1, SameNumber
  <2>3. item.value = v
        BY <1>10, <1>11, <2>2
  <2> DEFINE at == item.next
             s == Append(<<>>, v)
  <2>4. s = << v >>
        OBVIOUS
  <2> HIDE DEF at, s, over, c, v
  <2>5. c = [pos |-> at, failed |-> over, items |-> s]
        BY <1>12, <2>3 DEF at, s
  <2>6. IsState(c) /\ c.items = s
        BY <1>13, <2>5, StateIs
  <2>7. c.items \in Seq({v}) /\ c.items # <<>> /\ c.items[1] = v
        BY <2>4, <2>6
  <2>8. Begins(c, v)
        BY <2>7 DEF Begins
  <2> QED BY <2>6, <2>8 DEF c, v
<1>15. CASE ~(b + 3 <= Size)
  <2>1. over = TRUE
        BY <1>3, <1>11, <1>15
  <2> DEFINE at == item.next
             s == Append(<<>>, item.value)
  <2> HIDE DEF at, s, over, c
  <2>2. c = [pos |-> at, failed |-> over, items |-> s]
        BY <1>12 DEF at, s
  <2>3. IsState(c) /\ c.failed = over
        BY <1>13, <2>2, StateIs
  <2> QED BY <2>1, <2>3 DEF c
<1> QED BY <1>14, <1>15

LEMMA HeldByItself ==
  ASSUME NEW cells \in Cells
  PROVE  Holds(cells, cells, 1)
<1>1. \A j \in 1..Len(cells) : (1 - 1) + j = j /\ j \in DOMAIN cells
      BY DEF Cells
<1> QED BY <1>1 DEF Holds, CellAt

(* What is certain of a datagram that can be read, cut off or not.         *)
LEMMA CutRead ==
  ASSUME NEW q, IsQuery(q), NEW buf, Agree(buf, ClientCells(q)), ~Parsed(buf).failed
  PROVE  LET p == Parsed(buf).packet
         IN  /\ p.header = SmallHeader(q.header)
             /\ q.questions = <<>> => p.questions = <<>>
             /\ q.questions # <<>> =>
                  p.questions # <<>> /\ p.questions[1] = SmallLetters(q.questions[1])
<1> DEFINE cells == ClientCells(q)
           n == Len(q.questions)
           first  == ReadSection(buf, 1, State(13, <<>>))
           second == ReadSection(buf, 2, first)
           third  == ReadSection(buf, 3, second)
           fourth == ReadSection(buf, 4, third)
           v == SmallLetters(q.questions[1])
<1>1. cells \in Cells /\ Holds(cells, cells, 1)
      BY ClientHolds, HeldByItself
<1>2. /\ Holds(cells, HeaderCells(q.header, Counts(q)), 1)
      /\ q.questions # <<>> => Holds(cells, ClientQuestion(q.questions[1]), 13)
      BY <1>1, ClientHolds
<1>3. HeaderAt(cells) = SmallHeader(q.header) /\ \A i \in 1..4 : Count(cells, i) = Counts(q)[i]
  <2> DEFINE counts == Counts(q)
             h == q.header
  <2>1. h \in Header /\ IsCounts(counts) /\ Holds(cells, HeaderCells(h, counts), 1)
        BY <1>2, CountsAre DEF IsQuery
  <2> HIDE DEF h, counts, cells
  <2>2. HeaderAt(cells) = SmallHeader(h) /\ \A i \in 1..4 : Count(cells, i) = counts[i]
        BY <2>1, HeaderRead
  <2> QED BY <2>2 DEF h, counts
<1>4. HeaderAt(buf) = SmallHeader(q.header) /\ \A i \in 1..4 : Count(buf, i) = Counts(q)[i]
      BY <1>3, SameHeader
<1>5. /\ Count(buf, 1) = n /\ n \in Nat /\ (q.questions # <<>> => n # 0)
      /\ Count(buf, 2) \in Nat /\ Count(buf, 3) \in Nat /\ Count(buf, 4) \in Nat
      BY <1>4, CountsAre DEF IsCounts, IsQuery
<1>6. /\ Parsed(buf).failed = fourth.failed
      /\ Parsed(buf).packet.header = HeaderAt(buf) /\ Parsed(buf).packet.questions = first.items
      BY ParsedIs DEF PacketOf
<1>7. IsState(State(13, <<>>))
      BY DEF IsState, State
<1>8. IsState(first)
      BY <1>5, <1>7, SectionKeeps
<1>9. IsState(second) /\ (first.failed => second.failed)
  <2> HIDE DEF first
  <2> QED BY <1>5, <1>8, SectionKeeps
<1>10. IsState(third) /\ (second.failed => third.failed)
  <2> HIDE DEF second
  <2> QED BY <1>5, <1>9, SectionKeeps
<1>11. third.failed => fourth.failed
  <2> HIDE DEF third
  <2> QED BY <1>5, <1>10, SectionKeeps
<1>12. ~first.failed
  <2> HIDE DEF first, second, third, fourth
  <2> QED BY <1>6, <1>9, <1>10, <1>11
<1> HIDE DEF second, third, fourth, cells
<1>13. PICK g : /\ g[0] = [State(13, <<>>) EXCEPT !.items = <<>>]
                /\ \A k \in 1..n : g[k] = ReadItem(buf, "questions", g[k - 1])
                /\ first = g[n]
  <2>1. Sections[1] = "questions"
        BY DEF Sections
  <2> DEFINE before == State(13, <<>>)
  <2> HIDE DEF before
  <2>2. PICK g : /\ g[0] = [before EXCEPT !.items = <<>>]
                 /\ \A k \in 1..Count(buf, 1) : g[k] = ReadItem(buf, Sections[1], g[k - 1])
                 /\ ReadSection(buf, 1, before) = g[Count(buf, 1)]
        BY <1>5, SectionIs
  <2> QED BY <1>5, <2>1, <2>2 DEF before
<1>14. g[0] = State(13, <<>>)
       BY <1>13 DEF State
<1> HIDE DEF first
<1>15. CASE q.questions = <<>>
  <2>1. n = 0
        BY <1>15
  <2>2. first.items = <<>>
        BY <1>13, <1>14, <2>1 DEF State
  <2> QED BY <1>4, <1>6, <1>15, <2>2
<1>16. CASE q.questions # <<>>
  <2>1. q.questions[1] \in Question
        BY <1>16 DEF IsQuery
  <2> DEFINE first1 == ReadItem(buf, "questions", State(13, <<>>))
  <2>2. IsState(first1) /\ (first1.failed \/ Begins(first1, v))
    <3>1. Holds(cells, ClientQuestion(q.questions[1]), 13) /\ Agree(buf, cells)
          BY <1>2, <1>16 DEF cells
    <3> QED BY <2>1, <3>1, FirstQuestion
  <2> HIDE DEF first1, n, v
  <2> DEFINE A == {k \in Nat : k + 1 <= n =>
                     IsState(g[k + 1]) /\ (g[k + 1].failed \/ Begins(g[k + 1], v))}
  <2>3. 0 \in A
    <3> SUFFICES ASSUME 1 <= n PROVE IsState(g[1]) /\ (g[1].failed \/ Begins(g[1], v))
        OBVIOUS
    <3>1. 1 \in 1..n /\ 1 - 1 = 0
          BY <1>5
    <3>2. g[1] = first1
          BY <1>13, <1>14, <3>1 DEF first1
    <3> QED BY <2>2, <3>2
  <2>4. ASSUME NEW k \in Nat, k \in A PROVE k + 1 \in A
    <3> SUFFICES ASSUME (k + 1) + 1 <= n
                 PROVE  /\ IsState(g[(k + 1) + 1])
                        /\ g[(k + 1) + 1].failed \/ Begins(g[(k + 1) + 1], v)
        OBVIOUS
    <3>1. (k + 1) + 1 \in 1..n /\ ((k + 1) + 1) - 1 = k + 1 /\ k + 1 <= n
          BY <1>5
    <3>2. g[(k + 1) + 1] = ReadItem(buf, "questions", g[k + 1])
          BY <1>13, <3>1
    <3>3. IsState(g[k + 1]) /\ (g[k + 1].failed \/ Begins(g[k + 1], v))
          BY <2>4, <3>1
    <3> QED BY <3>2, <3>3, ReadItemKeeps
  <2> HIDE DEF A
  <2>5. Nat \subseteq A
        BY <2>3, <2>4, Induction
  <2>6. first.failed \/ Begins(first, v)
    <3>1. n - 1 \in Nat /\ (n - 1) + 1 = n /\ n <= n
          BY <1>5, <1>16
    <3>2. n - 1 \in A
          BY <2>5, <3>1
    <3> QED BY <1>13, <3>1, <3>2 DEF A
  <2>7. first.items # <<>> /\ first.items[1] = v
        BY <1>12, <2>6 DEF Begins
  <2> QED BY <1>4, <1>6, <1>16, <2>7 DEF v
<1> QED BY <1>15, <1>16

-------------------------------------------------------------------------------
(* What the server writes: a question or none, and an address or none.     *)
Found == Addressed(TypeA, 4)

(* Those with a name can be read.                                          *)
Named == {q \in Question : q.name # Root}

FoundNamed == {r \in Found : r.domain # Root}

LEMMA FlattenNone == FlattenSeq(<<>>) = <<>>
BY DEF FlattenSeq

LEMMA FlattenOne ==
  ASSUME NEW ss \in Seq(Cells), Len(ss) = 1
  PROVE  FlattenSeq(ss) = ss[1]
<1>1. PICK p \in [0..Len(ss) -> Cells] :
        /\ p[0] = <<>> /\ \A k \in 1..Len(ss) : p[k] = p[k - 1] \o ss[k]
        /\ p[Len(ss)] = FlattenSeq(ss)
      BY FrontsExist DEF Cells
<1>2. 1 \in 1..Len(ss) /\ 1 - 1 = 0 /\ ss[1] \in Cells
      OBVIOUS
<1>3. p[1] = <<>> \o ss[1] /\ p[1] = FlattenSeq(ss)
      BY <1>1, <1>2
<1>4. <<>> \o ss[1] = ss[1]
      BY <1>2, ConcatEmptySeq DEF Cells
<1> QED BY <1>3, <1>4

(* The length of a section of one item at most.                            *)
LEMMA AskedCells ==
  /\ SectionCells("questions", <<>>) = <<>>
  /\ \A q \in Question :
       /\ SectionCells("questions", << q >>) \in Cells
       /\ Len(SectionCells("questions", << q >>)) = Len(NameCells(q.name)) + 4
<1>1. SectionCells("questions", <<>>) = <<>>
  <2>1. [k \in DOMAIN <<>> |-> ItemCells("questions", <<>>[k])] = <<>>
        OBVIOUS
  <2> QED BY <2>1, FlattenNone DEF SectionCells
<1>2. ASSUME NEW q \in Question
      PROVE  /\ SectionCells("questions", << q >>) \in Cells
             /\ Len(SectionCells("questions", << q >>)) = Len(NameCells(q.name)) + 4
  <2> DEFINE qs == << q >>
             ss == [k \in DOMAIN qs |-> ItemCells("questions", qs[k])]
  <2>1. Len(QuestionCells(q)) = Len(NameCells(q.name)) + 4 /\ QuestionCells(q) \in Cells
        BY QuestionCellsIs
  <2>2. DOMAIN qs = 1..1 /\ qs[1] = q
        OBVIOUS
  <2>3. SectionCells("questions", qs) = FlattenSeq(ss)
        BY DEF SectionCells
  <2>4. ss = [k \in 1..1 |-> QuestionCells(q)]
        BY <2>2 DEF ItemCells
  <2> HIDE DEF ss, qs
  <2>5. ss \in Seq(Cells) /\ Len(ss) = 1 /\ ss[1] = QuestionCells(q)
        BY <2>1, <2>4
  <2>6. FlattenSeq(ss) = QuestionCells(q)
        BY <2>5, FlattenOne
  <2> QED BY <2>1, <2>3, <2>6 DEF qs
<1> QED BY <1>1, <1>2

LEMMA FoundCells ==
  ASSUME NEW section, section # "questions"
  PROVE  /\ SectionCells(section, <<>>) = <<>>
         /\ \A r \in Found :
              /\ SectionCells(section, << r >>) \in Cells
              /\ Len(SectionCells(section, << r >>)) = Len(NameCells(r.domain)) + 14
<1>1. SectionCells(section, <<>>) = <<>>
  <2>1. [k \in DOMAIN <<>> |-> ItemCells(section, <<>>[k])] = <<>>
        OBVIOUS
  <2> QED BY <2>1, FlattenNone DEF SectionCells
<1>2. ASSUME NEW r \in Found
      PROVE  /\ SectionCells(section, << r >>) \in Cells
             /\ Len(SectionCells(section, << r >>)) = Len(NameCells(r.domain)) + 14
  <2> DEFINE rs == << r >>
             ss == [k \in DOMAIN rs |-> ItemCells(section, rs[k])]
  <2>1. Len(RecordCells(r)) = Len(NameCells(r.domain)) + 14 /\ RecordCells(r) \in Cells
        BY FoundIs DEF Found
  <2>2. DOMAIN rs = 1..1 /\ rs[1] = r
        OBVIOUS
  <2>3. SectionCells(section, rs) = FlattenSeq(ss)
        BY DEF SectionCells
  <2>4. ss = [k \in 1..1 |-> RecordCells(r)]
        BY <2>2 DEF ItemCells
  <2> HIDE DEF ss, rs
  <2>5. ss \in Seq(Cells) /\ Len(ss) = 1 /\ ss[1] = RecordCells(r)
        BY <2>1, <2>4
  <2>6. FlattenSeq(ss) = RecordCells(r)
        BY <2>5, FlattenOne
  <2> QED BY <2>1, <2>3, <2>6 DEF rs
<1> QED BY <1>1, <1>2

(* A section that the server writes is read, if all names are names.       *)
LEMMA AskedSection ==
  ASSUME NEW buf, NEW qs \in Seq(Named)
  PROVE  SectionAs(buf, 1, SectionCells("questions", qs), Len(qs),
                   [k \in DOMAIN qs |-> SmallLetters(qs[k])])
<1> DEFINE n == Len(qs)
           ss == [k \in 1..n |-> QuestionCells(qs[k])]
           vs == [k \in 1..n |-> SmallLetters(qs[k])]
<1>1. n \in Nat /\ DOMAIN qs = 1..n /\ \A k \in 1..n : qs[k] \in Named
      OBVIOUS
<1>2. \A k \in 1..n : ItemAs(buf, "questions", QuestionCells(qs[k]), SmallLetters(qs[k]))
      BY <1>1, NamedQuestionAs DEF Named
<1>3. SectionCells("questions", qs) = FlattenSeq(ss)
      BY <1>1 DEF SectionCells, ItemCells
<1> HIDE DEF n
<1>4. \A k \in 1..n : QuestionCells(qs[k]) \in Cells
      BY <1>2 DEF ItemAs
<1>5. ss \in Seq(Cells) /\ Len(ss) = n
      BY <1>1, <1>4
<1>6. \A k \in 1..n : ItemAs(buf, "questions", ss[k], vs[k])
      BY <1>2
<1>7. Sections[1] = "questions" /\ vs = [k \in 1..n |-> vs[k]]
      BY DEF Sections
<1> HIDE DEF ss, vs
<1>8. SectionAs(buf, 1, FlattenSeq(ss), n, [k \in 1..n |-> vs[k]])
      BY <1>1, <1>5, <1>6, <1>7, SectionRead
<1>9. vs = [k \in DOMAIN qs |-> SmallLetters(qs[k])]
      BY <1>1 DEF vs
<1> QED BY <1>3, <1>7, <1>8, <1>9, Zenon DEF n

LEMMA FoundSection ==
  ASSUME NEW buf, NEW i \in 2..4, NEW rs \in Seq(FoundNamed)
  PROVE  SectionAs(buf, i, SectionCells(Sections[i], rs), Len(rs), SmallRecords(rs))
<1> DEFINE n == Len(rs)
           section == Sections[i]
           ss == [k \in 1..n |-> RecordCells(rs[k])]
           vs == [k \in 1..n |-> SmallRecord(rs[k])]
<1>1. n \in Nat /\ DOMAIN rs = 1..n /\ \A k \in 1..n : rs[k] \in FoundNamed
      OBVIOUS
<1>2. section # "questions"
      BY DEF Sections
<1>3. \A k \in 1..n : ItemAs(buf, section, RecordCells(rs[k]), SmallRecord(rs[k]))
      BY <1>1, <1>2, FoundAs DEF Found, FoundNamed
<1>4. SectionCells(section, rs) = FlattenSeq(ss) /\ SmallRecords(rs) = vs
      BY <1>1, <1>2 DEF SectionCells, ItemCells, SmallRecords
<1> HIDE DEF n
<1>5. \A k \in 1..n : RecordCells(rs[k]) \in Cells
      BY <1>3 DEF ItemAs
<1>6. ss \in Seq(Cells) /\ Len(ss) = n
      BY <1>1, <1>5
<1>7. \A k \in 1..n : ItemAs(buf, section, ss[k], vs[k])
      BY <1>3
<1>8. vs = [k \in 1..n |-> vs[k]]
      OBVIOUS
<1> HIDE DEF ss, vs
<1>9. SectionAs(buf, i, FlattenSeq(ss), n, [k \in 1..n |-> vs[k]])
      BY <1>1, <1>6, <1>7, SectionRead
<1> QED BY <1>4, <1>8, <1>9, Zenon DEF n

(* A response, its header, and what is read of it.                         *)
Answer(h, qs, rs) == PacketOf(h, qs, rs, <<>>, <<>>)

LEMMA AnswerIs ==
  ASSUME NEW h \in Header, NEW qs \in Seq(Question), NEW rs \in Seq(Found),
         SectionCells("questions", qs) \in Cells, SectionCells("answers", rs) \in Cells
  PROVE  /\ PacketCells(Answer(h, qs, rs)) \in Cells
         /\ Len(PacketCells(Answer(h, qs, rs)))
              = 12 + Len(SectionCells("questions", qs)) + Len(SectionCells("answers", rs))
         /\ HeaderAt(PacketCells(Answer(h, qs, rs))) = SmallHeader(h)
<1> DEFINE p == Answer(h, qs, rs)
           counts == Counts(p)
           c0 == HeaderCells(h, counts)
           c1 == SectionCells("questions", qs)
           c2 == SectionCells("answers", rs)
           c3 == SectionCells("authorities", <<>>)
           c4 == SectionCells("resources", <<>>)
           buf == PacketCells(p)
           n1 == Len(c1)
           n2 == Len(c2)
<1>1. IsCounts(counts)
      BY DEF Counts, Answer, PacketOf, IsCounts
<1>2. buf = c0 \o c1 \o c2 \o c3 \o c4
      BY DEF PacketCells, Answer, PacketOf
<1>3. c3 = <<>> /\ c4 = <<>>
      BY FoundCells
<1>4. IsLong(c0, 12)
      BY <1>1, HeaderIs DEF IsLong
<1>5. c1 \in Cells /\ c2 \in Cells
      OBVIOUS
<1>6. Holds(buf, c0, 1) => HeaderAt(buf) = SmallHeader(h)
  <2> HIDE DEF counts, buf
  <2> QED BY <1>1, HeaderRead
<1> HIDE DEF p, counts, c0, c1, c2, c3, c4, buf, n1, n2
<1>7. IsLong(c1, n1) /\ IsLong(c2, n2) /\ n1 \in Nat /\ n2 \in Nat
      BY <1>5 DEF IsLong, Cells, n1, n2
<1>8. IsLong(c3, 0) /\ IsLong(c4, 0)
      BY <1>3 DEF IsLong, Cells
<1>9. /\ AddUp(12, n1, 12 + n1) /\ AddUp(12 + n1, n2, 12 + n1 + n2)
      /\ AddUp(12 + n1 + n2, 0, 12 + n1 + n2)
      BY <1>7 DEF AddUp
<1>10. IsLong(c0 \o c1, 12 + n1)
       BY <1>4, <1>7, <1>9, Joined
<1>11. IsLong(c0 \o c1 \o c2, 12 + n1 + n2)
       BY <1>7, <1>9, <1>10, Joined
<1>12. IsLong(c0 \o c1 \o c2 \o c3, 12 + n1 + n2)
       BY <1>8, <1>9, <1>11, Joined
<1>13. IsLong(c0 \o c1 \o c2 \o c3 \o c4, 12 + n1 + n2)
       BY <1>8, <1>9, <1>12, Joined
<1>14. Holds(buf, c0, 1)
  <2>1. Holds(buf, c0 \o c1 \o c2 \o c3 \o c4, 1)
        BY <1>2, <1>13, HeldByItself DEF IsLong
  <2>2. /\ 1 \in Place /\ AddUp(1, 12, 13) /\ AddUp(1, 12 + n1, 13 + n1)
        /\ AddUp(1, 12 + n1 + n2, 13 + n1 + n2)
        BY <1>7 DEF Place, AddUp
  <2>3. Holds(buf, c0 \o c1 \o c2 \o c3, 1)
        BY <1>8, <1>12, <2>1, <2>2, Apart
  <2>4. Holds(buf, c0 \o c1 \o c2, 1)
        BY <1>8, <1>11, <2>2, <2>3, Apart
  <2>5. Holds(buf, c0 \o c1, 1)
        BY <1>7, <1>10, <2>2, <2>4, Apart
  <2> QED BY <1>4, <1>7, <2>2, <2>5, Apart
<1> QED BY <1>2, <1>6, <1>13, <1>14 DEF IsLong, buf, p, n1, n2, c1, c2

LEMMA AnswerRead ==
  ASSUME NEW h \in Header, NEW qs \in Seq(Named), NEW rs \in Seq(FoundNamed),
         PacketCells(Answer(h, qs, rs)) \in Cells,
         Len(PacketCells(Answer(h, qs, rs))) <= Size
  PROVE  IsRead(PacketCells(Answer(h, qs, rs)),
                Answer(SmallHeader(h), [k \in DOMAIN qs |-> SmallLetters(qs[k])],
                       SmallRecords(rs)))
<1> DEFINE p == Answer(h, qs, rs)
           counts == Counts(p)
           c1 == SectionCells("questions", qs)
           c2 == SectionCells("answers", rs)
           c3 == SectionCells("authorities", <<>>)
           c4 == SectionCells("resources", <<>>)
           v1 == [k \in DOMAIN qs |-> SmallLetters(qs[k])]
           v2 == SmallRecords(rs)
           buf == PacketCells(p)
<1>1. /\ counts[1] = Len(qs) /\ counts[2] = Len(rs) /\ counts[3] = 0 /\ counts[4] = 0
      /\ IsCounts(counts)
      BY DEF Counts, Answer, PacketOf, IsCounts
<1>2. buf = HeaderCells(h, counts) \o c1 \o c2 \o c3 \o c4
      BY DEF PacketCells, Answer, PacketOf
<1>3. /\ Sections[2] = "answers" /\ Sections[3] = "authorities" /\ Sections[4] = "resources"
      /\ 2 \in 2..4 /\ 3 \in 2..4 /\ 4 \in 2..4 /\ <<>> \in Seq(FoundNamed) /\ Len(<<>>) = 0
      BY DEF Sections
<1>4. SectionAs(buf, 1, c1, counts[1], v1)
  <2> HIDE DEF buf, counts
  <2> QED BY <1>1, AskedSection
<1>5. SectionAs(buf, 2, c2, counts[2], v2)
  <2> HIDE DEF buf, counts
  <2>1. SectionAs(buf, 2, SectionCells(Sections[2], rs), Len(rs), SmallRecords(rs))
        BY <1>3, FoundSection
  <2> QED BY <1>1, <1>3, <2>1
<1>6. SmallRecords(<<>>) = <<>>
      BY DEF SmallRecords
<1>7. SectionAs(buf, 3, c3, counts[3], <<>>) /\ SectionAs(buf, 4, c4, counts[4], <<>>)
  <2> HIDE DEF buf, counts
  <2> DEFINE none == <<>>
  <2>0. none \in Seq(FoundNamed) /\ Len(none) = 0 /\ SmallRecords(none) = <<>>
        BY <1>3, <1>6
  <2> HIDE DEF none
  <2>1. SectionAs(buf, 3, SectionCells(Sections[3], none), Len(none), SmallRecords(none))
        BY <1>3, <2>0, FoundSection
  <2>2. SectionAs(buf, 4, SectionCells(Sections[4], none), Len(none), SmallRecords(none))
        BY <1>3, <2>0, FoundSection
  <2> QED BY <1>1, <1>3, <2>0, <2>1, <2>2 DEF none
<1>8. Answer(SmallHeader(h), v1, v2) = PacketOf(SmallHeader(h), v1, v2, <<>>, <<>>)
      BY DEF Answer
<1>9. Holds(buf, buf, 1)
      BY HeldByItself
<1> HIDE DEF p, counts, c1, c2, c3, c4, v1, v2, buf
<1>10. IsRead(buf, PacketOf(SmallHeader(h), v1, v2, <<>>, <<>>))
  <2>1. Holds(buf, HeaderCells(h, counts) \o c1 \o c2 \o c3 \o c4, 1)
        BY <1>2, <1>9
  <2>2. Len(HeaderCells(h, counts) \o c1 \o c2 \o c3 \o c4) <= Size
        BY <1>2 DEF buf, p
  <2> QED BY <1>1, <1>4, <1>5, <1>7, <2>1, <2>2, PacketRead
<1> QED BY <1>8, <1>10 DEF buf, p, v1, v2

-------------------------------------------------------------------------------
(* The response that a query should get.                                   *)
ReplyHeader(id, code) ==
  [id |-> id, opcode |-> 0, rescode |-> code,
   flags |-> {"recursion_desired", "recursion_available", "response"}]

AddressOf(question, a) == [type |-> TypeA, domain |-> question.name, ttl |-> 0, addr |-> a]

Outcome(q, code, qs, found) ==
  IF q.questions = <<>> THEN code = FORMERR /\ qs = <<>> /\ found = <<>>
  ELSE LET question == SmallLetters(q.questions[1])
       IN  /\ qs = << question >>
           /\ IF question.type \in {TypeA, TypeAAAA}
                THEN /\ MayFind(question.name, found)
                     /\ \/ found = <<>> /\ code = SERVFAIL
                        \/ \E a \in Address : found = << AddressOf(question, a) >> /\ code = NOERROR
                ELSE code = NOTIMP /\ found = <<>>

GoodReply(q, packet) ==
  \E code, qs, found :
    Outcome(q, code, qs, found) /\ packet = Answer(ReplyHeader(q.header.id, code), qs, found)

LEMMA FlagsOfReply == {"recursion_desired", "recursion_available", "response"} \subseteq Flag
BY DEF Flag, HighBits, LowBits

LEMMA ReplyHeaderIs ==
  ASSUME NEW id \in Number, NEW code \in {NOERROR, FORMERR, SERVFAIL, NOTIMP}
  PROVE  ReplyHeader(id, code) \in Header /\ SmallHeader(ReplyHeader(id, code)) = ReplyHeader(id, code)
<1>1. code \in 0..15 /\ RescodeOf(code) = code
      BY DEF NOERROR, FORMERR, SERVFAIL, NOTIMP, RescodeOf
<1>2. 0 \in 0..15
      OBVIOUS
<1>3. ReplyHeader(id, code) \in Header
      BY <1>1, <1>2, FlagsOfReply DEF ReplyHeader, Header
<1>4. SmallHeader(ReplyHeader(id, code)) = ReplyHeader(id, code)
      BY <1>1 DEF ReplyHeader, SmallHeader
<1> QED BY <1>3, <1>4

LEMMA SmallNameIs ==
  ASSUME NEW n \in Domain
  PROVE  /\ SmallName(n) \in Domain /\ SmallName(SmallName(n)) = SmallName(n)
         /\ SmallName(n) = Root <=> n = Root
         /\ Len(NameCells(SmallName(n))) = Len(NameCells(n))
         /\ SmallName(n) \in Unwritable <=> n \in Unwritable
<1>1. CASE n = Root
      BY <1>1 DEF SmallName, Domain
<1>2. CASE n # Root
  <2>1. n \in Name /\ SmallName(n) = Lower[n]
        BY <1>2 DEF SmallName, Domain
  <2>2. /\ Lower[n] \in Name /\ Lower[Lower[n]] = Lower[n] /\ Lower[n] # Root
        /\ Width[Lower[n]] = Width[n] /\ (n \in Unwritable <=> Lower[n] \in Unwritable)
        BY <2>1, NamesAssumption
  <2>3. Len(NameCells(Lower[n])) = Width[n] /\ Len(NameCells(n)) = Width[n]
        BY <2>1, <2>2, NameCellsIs
  <2>4. SmallName(Lower[n]) = Lower[n] /\ Lower[n] \in Domain
        BY <2>2 DEF SmallName, Domain
  <2> QED BY <1>2, <2>1, <2>2, <2>3, <2>4
<1> QED BY <1>1, <1>2

LEMMA SmallQuestion ==
  ASSUME NEW q \in Question
  PROVE  /\ SmallLetters(q) \in Question /\ SmallLetters(SmallLetters(q)) = SmallLetters(q)
         /\ SmallLetters(q).name = SmallName(q.name) /\ SmallLetters(q).type = q.type
         /\ q.name \in Domain
<1>1. /\ q.name \in Domain /\ q.type \in Number
      /\ SmallLetters(q) = [name |-> SmallName(q.name), type |-> q.type]
      BY QuestionIs DEF Question
<1>3. SmallName(q.name) \in Domain /\ SmallName(SmallName(q.name)) = SmallName(q.name)
      BY <1>1, SmallNameIs
<1>4. SmallLetters(q) \in Question
      BY <1>1, <1>3 DEF Question
<1>5. SmallLetters(SmallLetters(q)) = [name |-> SmallName(SmallName(q.name)), type |-> q.type]
  <2> DEFINE s == SmallLetters(q)
             n == SmallName(q.name)
             t == q.type
  <2>1. s = [name |-> n, type |-> t]
        BY <1>1
  <2> HIDE DEF s, n, t
  <2>2. SmallLetters(s) = [name |-> SmallName(n), type |-> t]
        BY <2>1 DEF SmallLetters
  <2> QED BY <2>2 DEF s, n, t
<1> QED BY <1>1, <1>3, <1>4, <1>5

LEMMA SmallFound ==
  ASSUME NEW n \in Domain, SmallName(n) = n, NEW a \in Address
  PROVE  LET r == [type |-> TypeA, domain |-> n, ttl |-> 0, addr |-> a]
         IN  r \in Found /\ SmallRecord(r) = r /\ r.domain = n
<1> DEFINE r == [type |-> TypeA, domain |-> n, ttl |-> 0, addr |-> a]
<1>1. r \in Found
      BY DEF Found, Addressed, Address
<1>3. SmallRecord(r) = r
      BY TypesDiffer DEF SmallRecord
<1> QED BY <1>1, <1>3

LEMMA OutcomeIs ==
  ASSUME NEW q, IsQuery(q), NEW code, NEW qs, NEW found, Outcome(q, code, qs, found)
  PROVE  /\ code \in {NOERROR, FORMERR, SERVFAIL, NOTIMP} /\ q.header.id \in Number
         /\ qs \in Seq(Question) /\ found \in Seq(Found)
         /\ SectionCells("questions", qs) \in Cells /\ SectionCells("answers", found) \in Cells
         /\ ~AsksForRoot(q) => qs \in Seq(Named) /\ found \in Seq(FoundNamed)
         /\ [k \in DOMAIN qs |-> SmallLetters(qs[k])] = qs /\ SmallRecords(found) = found
<1>0. q.header.id \in Number
      BY DEF IsQuery, Header
<1>1. <<>> \in Cells
      BY DEF Cells
<1>2. /\ SectionCells("questions", <<>>) \in Cells /\ SectionCells("answers", <<>>) \in Cells
      /\ SmallRecords(<<>>) = <<>>
      BY <1>1, AskedCells, FoundCells DEF SmallRecords
<1>3. CASE q.questions = <<>>
  <2>1. code = FORMERR /\ qs = <<>> /\ found = <<>>
        BY <1>3 DEF Outcome
  <2> QED BY <1>0, <1>2, <2>1
<1>4. CASE q.questions # <<>>
  <2> DEFINE question == SmallLetters(q.questions[1])
  <2>0. q.questions[1] \in Question
        BY <1>4 DEF IsQuery
  <2>1. question \in Question /\ SmallLetters(question) = question
        BY <2>0, SmallQuestion
  <2>2. /\ question.name \in Domain /\ SmallName(question.name) = question.name
        /\ ~AsksForRoot(q) => question.name # Root
        BY <1>4, <2>0, SmallQuestion, SmallNameIs DEF AsksForRoot
  <2>3. /\ qs = << question >>
        /\ code \in {NOERROR, FORMERR, SERVFAIL, NOTIMP}
        /\ found = <<>> \/ \E a \in Address : found = << AddressOf(question, a) >>
        BY <1>4 DEF Outcome
  <2> HIDE DEF question
  <2>4. /\ qs \in Seq(Question) /\ [k \in DOMAIN qs |-> SmallLetters(qs[k])] = qs
        /\ SectionCells("questions", qs) \in Cells
        BY <2>1, <2>3, AskedCells
  <2>5. ~AsksForRoot(q) => qs \in Seq(Named)
    <3>1. ~AsksForRoot(q) => question \in Named
          BY <2>1, <2>2 DEF Named
    <3> QED BY <2>3, <3>1
  <2>6. CASE found = <<>>
    <3>1. found \in Seq(Found) /\ found \in Seq(FoundNamed)
          BY <2>6
    <3> QED BY <1>0, <1>2, <2>3, <2>4, <2>5, <2>6, <3>1
  <2>7. CASE \E a \in Address : found = << AddressOf(question, a) >>
    <3>1. PICK a \in Address : found = << AddressOf(question, a) >>
          BY <2>7
    <3> DEFINE r == AddressOf(question, a)
    <3>2. r \in Found /\ SmallRecord(r) = r /\ r.domain = question.name
          BY <2>2, SmallFound DEF AddressOf
    <3> HIDE DEF r
    <3>3. found = << r >>
          BY <3>1 DEF r
    <3>4. found \in Seq(Found) /\ SmallRecords(found) = found
          BY <3>2, <3>3 DEF SmallRecords
    <3>5. SectionCells("answers", found) \in Cells
          BY <3>2, <3>3, FoundCells
    <3>6. ~AsksForRoot(q) => found \in Seq(FoundNamed)
      <4>1. ~AsksForRoot(q) => r \in FoundNamed
            BY <2>2, <3>2 DEF FoundNamed
      <4> QED BY <3>3, <4>1
    <3> QED BY <1>0, <2>3, <2>4, <2>5, <3>4, <3>5, <3>6
  <2> QED BY <2>3, <2>6, <2>7
<1> QED BY <1>3, <1>4

(* Such a response can be read, when it has been written: its header, and  *)
(* all of it unless the empty name is in it.                               *)
LEMMA GoodReplyRead ==
  ASSUME NEW q, IsQuery(q), NEW packet, GoodReply(q, packet), Fits(packet)
  PROVE  /\ HeaderAt(PacketCells(packet)) = packet.header
         /\ ~AsksForRoot(q) => IsRead(PacketCells(packet), packet)
<1>1. PICK code, qs, found :
        Outcome(q, code, qs, found) /\ packet = Answer(ReplyHeader(q.header.id, code), qs, found)
      BY DEF GoodReply
<1> DEFINE h == ReplyHeader(q.header.id, code)
<1>2. /\ code \in {NOERROR, FORMERR, SERVFAIL, NOTIMP} /\ q.header.id \in Number
      /\ qs \in Seq(Question) /\ found \in Seq(Found)
      /\ SectionCells("questions", qs) \in Cells /\ SectionCells("answers", found) \in Cells
      /\ ~AsksForRoot(q) => qs \in Seq(Named) /\ found \in Seq(FoundNamed)
      /\ [k \in DOMAIN qs |-> SmallLetters(qs[k])] = qs /\ SmallRecords(found) = found
      BY <1>1, OutcomeIs
<1>3. h \in Header /\ SmallHeader(h) = h
      BY <1>2, ReplyHeaderIs
<1>4. packet = Answer(h, qs, found)
      BY <1>1
<1> HIDE DEF h
<1>5. PacketCells(packet) \in Cells /\ HeaderAt(PacketCells(packet)) = h
      BY <1>2, <1>3, <1>4, AnswerIs
<1>6. packet.header = h
      BY <1>4 DEF Answer, PacketOf
<1>7. Len(PacketCells(packet)) <= Size
  <2> DEFINE m == Len(PacketCells(packet))
  <2>1. m \in Nat /\ m <= Size - 1 /\ Size \in Nat
        BY <1>5, NamesAssumption DEF Cells, Fits, CanWrite
  <2> HIDE DEF m
  <2>2. m <= Size
        BY <2>1
  <2> QED BY <2>2 DEF m
<1>8. ASSUME ~AsksForRoot(q)
      PROVE  IsRead(PacketCells(packet), packet)
  <2>1. IsRead(PacketCells(Answer(h, qs, found)),
               Answer(SmallHeader(h), [k \in DOMAIN qs |-> SmallLetters(qs[k])],
                      SmallRecords(found)))
        BY <1>2, <1>3, <1>4, <1>5, <1>7, <1>8, AnswerRead
  <2> QED BY <1>2, <1>3, <1>4, <2>1
<1> QED BY <1>5, <1>6, <1>8

(* It cannot be written only when the name cannot, or is too long.         *)
Unfit(q) ==
  LET name == q.questions[1].name
  IN  name \in Unwritable \/ 30 + 2 * Len(NameCells(name)) >= Size

LEMMA AtMost ==
  ASSUME NEW m, NEW a, NEW b, NEW w \in Nat, NEW size \in Nat,
         m = 12 + a + b, a = w + 4, b = 0 \/ b = w + 14, ~(m <= size - 1)
  PROVE  30 + 2 * w >= size
OBVIOUS

LEMMA GoodReplyUnfit ==
  ASSUME NEW q, IsQuery(q), NEW packet, GoodReply(q, packet), ~Fits(packet)
  PROVE  Unfit(q)
<1>1. PICK code, qs, found :
        Outcome(q, code, qs, found) /\ packet = Answer(ReplyHeader(q.header.id, code), qs, found)
      BY DEF GoodReply
<1> DEFINE h == ReplyHeader(q.header.id, code)
           m == Len(PacketCells(packet))
           a == Len(SectionCells("questions", qs))
           b == Len(SectionCells("answers", found))
<1>2. /\ code \in {NOERROR, FORMERR, SERVFAIL, NOTIMP} /\ q.header.id \in Number
      /\ qs \in Seq(Question) /\ found \in Seq(Found)
      /\ SectionCells("questions", qs) \in Cells /\ SectionCells("answers", found) \in Cells
      BY <1>1, OutcomeIs
<1>3. h \in Header
      BY <1>2, ReplyHeaderIs
<1>4. packet = Answer(h, qs, found)
      BY <1>1
<1>5. m = 12 + a + b
  <2> HIDE DEF h
  <2> QED BY <1>2, <1>3, <1>4, AnswerIs
<1>6. NamesIn(packet) \cap Unwritable # {} \/ ~(m <= Size - 1)
      BY DEF Fits, CanWrite
<1>7. NamesIn(packet) = {x.name : x \in ToSet(qs)} \cup {r.domain : r \in ToSet(found)}
  <2>1. /\ packet.questions = qs /\ packet.answers = found
        /\ packet.authorities = <<>> /\ packet.resources = <<>>
        BY <1>4 DEF Answer, PacketOf
  <2>2. ToSet(<<>>) = {}
        BY DEF ToSet
  <2> QED BY <2>1, <2>2 DEF NamesIn
<1>8. Size \in Nat /\ 12 <= Size - 1
      BY NamesAssumption
<1> HIDE DEF h, m, a, b
<1>9. CASE q.questions = <<>>
  <2>1. qs = <<>> /\ found = <<>>
        BY <1>1, <1>9 DEF Outcome
  <2>2. a = 0 /\ b = 0
    <3>1. SectionCells("questions", <<>>) = <<>> /\ SectionCells("answers", <<>>) = <<>>
          BY AskedCells, FoundCells
    <3> QED BY <2>1, <3>1 DEF a, b
  <2>3. NamesIn(packet) = {}
        BY <1>7, <2>1 DEF ToSet
  <2> QED BY <1>5, <1>6, <1>8, <2>2, <2>3
<1>10. CASE q.questions # <<>>
  <2> DEFINE asks == q.questions[1]
             question == SmallLetters(asks)
             w == Len(NameCells(asks.name))
  <2>0. asks \in Question
        BY <1>10 DEF IsQuery
  <2>1. /\ question \in Question /\ question.name = SmallName(asks.name)
        /\ asks.name \in Domain
        BY <2>0, SmallQuestion
  <2>2. /\ Len(NameCells(question.name)) = w /\ w \in Nat
        /\ asks.name \in Unwritable <=> question.name \in Unwritable
        BY <2>1, SmallNameIs, AnyNameCells
  <2>3. /\ qs = << question >>
        /\ found = <<>> \/ \E x \in Address : found = << AddressOf(question, x) >>
        BY <1>1, <1>10 DEF Outcome
  <2>4. Unfit(q) <=> asks.name \in Unwritable \/ 30 + 2 * w >= Size
        BY DEF Unfit
  <2> HIDE DEF question, asks, w
  <2>5. a = w + 4
        BY <2>1, <2>2, <2>3, AskedCells DEF a
  <2>6. ToSet(qs) = {question}
        BY <2>3 DEF ToSet
  <2>7. /\ b = 0 \/ b = w + 14
        /\ {r.domain : r \in ToSet(found)} \subseteq {question.name}
    <3>1. CASE found = <<>>
      <4>1. SectionCells("answers", <<>>) = <<>>
            BY FoundCells
      <4>2. b = 0
            BY <3>1, <4>1 DEF b
      <4>3. ToSet(found) = {}
            BY <3>1 DEF ToSet
      <4> QED BY <4>2, <4>3
    <3>2. CASE \E x \in Address : found = << AddressOf(question, x) >>
      <4>1. PICK x \in Address : found = << AddressOf(question, x) >>
            BY <3>2
      <4> DEFINE r == AddressOf(question, x)
      <4>2. r.domain = question.name
            BY DEF AddressOf
      <4> HIDE DEF r
      <4>3. found = << r >>
            BY <4>1 DEF r
      <4>4. found[1] = r /\ 1 \in DOMAIN found /\ ToSet(found) = {r}
            BY <4>3 DEF ToSet
      <4>5. r \in Found
            BY <1>2, <4>4
      <4>6. b = Len(NameCells(r.domain)) + 14
            BY <4>3, <4>5, FoundCells DEF b
      <4> QED BY <2>2, <4>2, <4>4, <4>6
    <3> QED BY <2>3, <3>1, <3>2
  <2>8. NamesIn(packet) \subseteq {question.name}
        BY <1>7, <2>6, <2>7
  <2>9. CASE NamesIn(packet) \cap Unwritable # {}
        BY <2>2, <2>4, <2>8, <2>9
  <2>10. CASE ~(m <= Size - 1)
    <3>1. 30 + 2 * w >= Size
          BY <1>5, <1>8, <2>2, <2>5, <2>7, <2>10, AtMost
    <3> QED BY <2>4, <3>1
  <2> QED BY <1>6, <2>9, <2>10
<1> QED BY <1>9, <1>10

-------------------------------------------------------------------------------
(* A packet that is pending was dealt to the worker it is with, and is     *)
(* neither answered nor given up.                                          *)
Pending(w) == InHand(w) \cup Waiting(w)

PendingIsDealt ==
  \A w \in Worker : \A no \in Pending(w) :
    no \in 1..Len(asked) /\ DealtTo(no) = w /\ no \notin Given

(* What one worker has, it has in the order in which it was received, and  *)
(* behind everything that it is through with.                              *)
PendingIsOrdered ==
  \A w \in Worker :
    /\ \A no \in InHand(w), other \in Waiting(w) : no < other
    /\ \A i, j \in DOMAIN queue[w] : i < j => queue[w][i].no < queue[w][j].no
    /\ \A no \in Given, other \in Pending(w) : DealtTo(no) = w => no < other

NoneIsMissing ==
  threads > 0 =>
    \A no \in 1..Len(asked) : no \in Given \/ \E w \in Worker : no \in Pending(w)

AnswersAreOrdered ==
  \A i, j \in DOMAIN answers :
    i < j /\ DealtTo(answers[i].to) = DealtTo(answers[j].to) =>
      answers[i].to < answers[j].to

Numbers ==
  /\ \A w \in Worker : queue[w] \in Seq([no : Nat, buf : {InBuffer(ClientCells(q)) : q \in Queries}])
  /\ \E S : answers \in Seq(S)
  /\ Given \subseteq 1..Len(asked)
  /\ threads > 0 => current = Len(asked) % threads

IInv ==
  /\ TypeOK
  /\ Numbers
  /\ PendingIsDealt
  /\ PendingIsOrdered
  /\ NoneIsMissing
  /\ AnswersAreOrdered

-------------------------------------------------------------------------------
(* Division with a remainder.                                              *)
LEMMA Remainder ==
  ASSUME NEW r \in Nat, NEW t \in Nat, NEW q \in Nat, r < t
  PROVE  ((t * q) + r) % t = r
OBVIOUS

(* The index of the next packet's worker is the one after the last one's.  *)
LEMMA NextInTurn ==
  ASSUME NEW n \in Nat, NEW t \in Nat, t > 0
  PROVE  (n + 1) % t = ((n % t) + 1) % t
<1> DEFINE r == n % t
           q == n \div t
<1>1. n = (t * q) + r /\ q \in Nat /\ r \in Nat /\ r < t
      BY Division
<1> HIDE DEF r, q
<1>2. CASE r + 1 < t
  <2>1. n + 1 = (t * q) + (r + 1)
        BY <1>1
  <2>2. ((t * q) + (r + 1)) % t = r + 1
        BY <1>1, <1>2, Remainder
  <2>3. (r + 1) % t = r + 1
        BY <1>1, <1>2
  <2> QED BY <2>1, <2>2, <2>3 DEF r
<1>3. CASE r + 1 = t
  <2>1. n + 1 = (t * (q + 1)) + 0
        BY <1>1, <1>3
  <2>2. ((t * (q + 1)) + 0) % t = 0
        BY <1>1, Remainder
  <2>3. (r + 1) % t = 0
        BY <1>1, <1>3
  <2> QED BY <2>1, <2>2, <2>3 DEF r
<1> QED BY <1>1, <1>2, <1>3

-------------------------------------------------------------------------------
(* The first state.                                                        *)
LEMMA Starts == Init => IInv
<1> SUFFICES ASSUME Init PROVE IInv
    OBVIOUS
<1>1. /\ threads \in 0..MaxThreads /\ main = "looping" /\ current = 0
      /\ queue = [w \in Worker |-> <<>>] /\ worker = [w \in Worker |-> [pc |-> "idle"]]
      /\ asked = <<>> /\ answers = <<>> /\ lost = {}
      BY DEF Init
<1>2. threads \in Nat
      BY <1>1, BoundsAssumption
<1>3. Given = {} /\ \A w \in Worker : InHand(w) = {} /\ Waiting(w) = {} /\ Pending(w) = {}
      BY <1>1 DEF Given, InHand, Waiting, Pending
<1>4. TypeOK
      BY <1>1, <1>2 DEF TypeOK
<1>5. Numbers
  <2>1. \A w \in Worker : queue[w] \in Seq([no : Nat, buf : {InBuffer(ClientCells(q)) : q \in Queries}])
        BY <1>1
  <2>2. answers \in Seq({})
        BY <1>1
  <2>3. threads > 0 => current = Len(asked) % threads
    <3>1. Len(asked) = 0
          BY <1>1
    <3> QED BY <1>1, <1>2, <3>1
  <2> QED BY <1>3, <2>1, <2>2, <2>3 DEF Numbers
<1>6. PendingIsDealt /\ PendingIsOrdered /\ NoneIsMissing /\ AnswersAreOrdered
      BY <1>1, <1>3 DEF PendingIsDealt, PendingIsOrdered, NoneIsMissing, AnswersAreOrdered
<1> QED BY <1>4, <1>5, <1>6 DEF IInv

(* A packet is received: it has the highest number of all, and the worker  *)
(* whose turn it is is the one it is dealt to.                             *)
LEMMA ReceiveStep == IInv /\ Receive => IInv'
<1> SUFFICES ASSUME IInv, Receive PROVE IInv'
    OBVIOUS
<1>1. PICK q \in Queries :
        /\ asked' = Append(asked, q)
        /\ queue' = [queue EXCEPT ![current] =
             Append(@, [no |-> Len(asked) + 1, buf |-> InBuffer(ClientCells(q))])]
      BY DEF Receive
<1>2. /\ UNCHANGED <<threads, main, worker, answers, lost>>
      /\ current' = (current + 1) % threads /\ threads > 0
      BY DEF Receive, NextIndex
<1>0. /\ threads \in Nat /\ asked \in Seq(Queries) /\ Len(asked) \in Nat
      /\ DOMAIN queue = Worker /\ DOMAIN worker = Worker
      BY BoundsAssumption DEF IInv, TypeOK
<1>3. PICK cur \in Worker : cur = current /\ cur = Len(asked) % threads
  <2>1. current \in 0..(threads - 1) /\ current = Len(asked) % threads
        BY <1>0, <1>2 DEF IInv, TypeOK, Numbers
  <2> QED BY <2>1 DEF Worker
<1> DEFINE new == Len(asked) + 1
           got == [no |-> new, buf |-> InBuffer(ClientCells(q))]
           Boxed == [no : Nat, buf : {InBuffer(ClientCells(r)) : r \in Queries}]
<1>4. /\ asked' \in Seq(Queries) /\ Len(asked') = new /\ new \in Nat
      BY <1>0, <1>1, <1>3
<1>5. got \in Boxed /\ got.no = new
      BY <1>4
<1> HIDE DEF got
<1>6. /\ DOMAIN queue' = Worker /\ Worker' = Worker
      /\ queue'[cur] = Append(queue[cur], got)
      /\ \A w \in Worker \ {cur} : queue'[w] = queue[w]
      BY <1>0, <1>1, <1>2, <1>3 DEF Worker, got
<1>7. \A w \in Worker : queue[w] \in Seq(Boxed)
      BY DEF IInv, Numbers
<1> HIDE DEF Boxed
<1>8. /\ queue'[cur] \in Seq(Boxed) /\ Len(queue'[cur]) = Len(queue[cur]) + 1
      /\ queue'[cur][Len(queue[cur]) + 1].no = new
      /\ \A i \in 1..Len(queue[cur]) : queue'[cur][i] = queue[cur][i]
      BY <1>0, <1>3, <1>5, <1>6, <1>7
<1>9. /\ Given' = Given /\ \A w \in Worker : InHand(w)' = InHand(w)
      BY <1>2 DEF Given, InHand
<1>10. Waiting(cur)' = Waiting(cur) \cup {new}
  <2> DEFINE s == queue[cur]
             t == queue'[cur]
  <2>1. s \in Seq(Boxed) /\ t \in Seq(Boxed) /\ Len(t) = Len(s) + 1 /\ t[Len(s) + 1].no = new
        /\ \A i \in 1..Len(s) : t[i] = s[i]
        BY <1>0, <1>3, <1>7, <1>8
  <2> HIDE DEF s, t
  <2>2. DOMAIN t = DOMAIN s \cup {Len(s) + 1} /\ DOMAIN s = 1..Len(s)
        BY <2>1
  <2>3. {t[i].no : i \in DOMAIN t} = {s[i].no : i \in DOMAIN s} \cup {new}
        BY <2>1, <2>2
  <2> QED BY <2>3 DEF s, t, Waiting
<1>11. \A w \in Worker \ {cur} : Waiting(w)' = Waiting(w)
      BY <1>6 DEF Waiting
<1>12. \A no : DealtTo(no)' = DealtTo(no)
      BY <1>2 DEF DealtTo
<1>13. DealtTo(new) = cur
      BY <1>0, <1>3 DEF DealtTo
<1>14. TypeOK'
  <2>1. current' \in 0..(threads - 1)
        BY <1>0, <1>2, <1>3 DEF Worker
  <2> QED BY <1>0, <1>2, <1>3, <1>4, <1>6, <2>1 DEF IInv, TypeOK
<1>15. Numbers'
  <2>1. \A w \in Worker' : queue'[w] \in Seq(Boxed)
        BY <1>6, <1>7, <1>8
  <2>2. Given' \subseteq 1..Len(asked')
        BY <1>0, <1>3, <1>4, <1>9 DEF IInv, Numbers
  <2>3. current' = Len(asked') % threads
        BY <1>0, <1>2, <1>3, <1>4, NextInTurn, ZenonT(60)
  <2>4. \E S : answers' \in Seq(S)
        BY <1>2 DEF IInv, Numbers
  <2> QED BY <1>2, <2>1, <2>2, <2>3, <2>4 DEF Numbers, Boxed
<1>16. \A w \in Worker :
         Pending(w)' = IF w = cur THEN Pending(w) \cup {new} ELSE Pending(w)
      BY <1>9, <1>10, <1>11 DEF Pending
<1>17. \A w \in Worker : \A no \in Pending(w) : no \in 1..Len(asked) /\ DealtTo(no) = w /\ no \notin Given
      BY DEF IInv, PendingIsDealt
<1>18. Given \subseteq 1..Len(asked) /\ \A no \in 1..Len(asked) : no < new /\ no \in 1..new
      BY <1>0, <1>3 DEF IInv, Numbers
<1>19. PendingIsDealt'
  <2>1. new \in 1..new /\ new \notin Given
        BY <1>4, <1>18
  <2> QED BY <1>0, <1>3, <1>4, <1>6, <1>9, <1>12, <1>13, <1>16, <1>17, <1>18, <2>1 DEF PendingIsDealt
<1>20. PendingIsOrdered'
  <2>1. ASSUME NEW w \in Worker, NEW no \in InHand(w), NEW other \in Waiting(w)'
        PROVE  no < other
    <3>1. no \in Pending(w) /\ no < new
          BY <1>17, <1>18 DEF Pending
    <3>2. other \in Waiting(w) \/ other = new
          BY <1>10, <1>11
    <3> QED BY <3>1, <3>2 DEF IInv, PendingIsOrdered
  <2>2. ASSUME NEW w \in Worker, NEW i \in DOMAIN queue'[w], NEW j \in DOMAIN queue'[w], i < j
        PROVE  queue'[w][i].no < queue'[w][j].no
    <3>1. CASE w # cur
      <4>1. queue'[w] = queue[w]
            BY <1>6, <3>1
      <4> QED BY <2>2, <4>1 DEF IInv, PendingIsOrdered
    <3>2. CASE w = cur
      <4>1. /\ DOMAIN queue[w] = 1..Len(queue[w]) /\ Len(queue[w]) \in Nat
            /\ DOMAIN queue'[w] = 1..(Len(queue[w]) + 1)
            BY <1>7, <1>8, <3>2
      <4>2. i \in DOMAIN queue[w] /\ queue'[w][i] = queue[w][i]
        <5>1. i \in 1..Len(queue[w])
              BY <2>2, <4>1
        <5> QED BY <1>8, <3>2, <4>1, <5>1
      <4>3. queue[w][i].no < new
        <5>1. queue[w][i].no \in Pending(w)
              BY <4>2 DEF Pending, Waiting
        <5> QED BY <1>17, <1>18, <5>1
      <4>4. CASE j = Len(queue[w]) + 1
            BY <1>8, <3>2, <4>2, <4>3, <4>4
      <4>5. CASE j \in DOMAIN queue[w]
        <5>1. queue'[w][j] = queue[w][j]
              BY <1>8, <3>2, <4>1, <4>5
        <5> QED BY <2>2, <4>2, <4>5, <5>1 DEF IInv, PendingIsOrdered
      <4> QED BY <4>1, <4>4, <4>5
    <3> QED BY <3>1, <3>2
  <2>3. ASSUME NEW w \in Worker, NEW no \in Given, NEW other \in Pending(w)', DealtTo(no) = w
        PROVE  no < other
    <3>1. other \in Pending(w) \/ other = new
          BY <1>16
    <3>2. no < new
          BY <1>18
    <3> QED BY <2>3, <3>1, <3>2 DEF IInv, PendingIsOrdered
  <2> QED BY <1>6, <1>9, <1>12, <2>1, <2>2, <2>3 DEF PendingIsOrdered
<1>21. NoneIsMissing'
  <2> SUFFICES ASSUME NEW no \in 1..new
               PROVE  no \in Given \/ \E w \in Worker : no \in Pending(w)'
      BY <1>4, <1>6, <1>9 DEF NoneIsMissing
  <2>1. CASE no = new
        BY <1>3, <1>16, <2>1
  <2>2. CASE no \in 1..Len(asked)
    <3>1. no \in Given \/ \E w \in Worker : no \in Pending(w)
          BY <1>2, <2>2 DEF IInv, NoneIsMissing
    <3> QED BY <1>16, <3>1
  <2> QED BY <1>0, <2>1, <2>2
<1>22. AnswersAreOrdered'
      BY <1>2, <1>12 DEF IInv, AnswersAreOrdered
<1> QED BY <1>14, <1>15, <1>19, <1>20, <1>21, <1>22 DEF IInv

(* Without threads nothing is dealt and nothing is given.                  *)
LEMMA ReceivePanicsStep == IInv /\ ReceivePanics => IInv'
<1> SUFFICES ASSUME IInv, ReceivePanics PROVE IInv'
    OBVIOUS
<1>1. PICK q \in Queries : asked' = Append(asked, q)
      BY DEF ReceivePanics
<1>2. /\ UNCHANGED <<threads, current, queue, worker, answers, lost>>
      /\ main' = "panicked" /\ threads = 0
      BY DEF ReceivePanics
<1>3. asked' \in Seq(Queries) /\ Len(asked') = Len(asked) + 1 /\ Len(asked) \in Nat
      BY <1>1 DEF IInv, TypeOK
<1>4. Worker = {} /\ Worker' = {}
      BY <1>2 DEF Worker
<1>5. Given' = Given /\ Given \subseteq 1..Len(asked)
      BY <1>2 DEF Given, IInv, Numbers
<1>6. TypeOK'
      BY <1>2, <1>3, <1>4 DEF IInv, TypeOK
<1>7. Numbers'
  <2>1. Given' \subseteq 1..Len(asked')
        BY <1>3, <1>5
  <2>2. \E S : answers' \in Seq(S)
        BY <1>2 DEF IInv, Numbers
  <2> QED BY <1>2, <1>4, <2>1, <2>2 DEF Numbers
<1>8. PendingIsDealt' /\ PendingIsOrdered' /\ NoneIsMissing'
      BY <1>2, <1>4 DEF PendingIsDealt, PendingIsOrdered, NoneIsMissing
<1>9. AnswersAreOrdered'
      BY <1>2 DEF IInv, AnswersAreOrdered, DealtTo
<1> QED BY <1>6, <1>7, <1>8, <1>9 DEF IInv

-------------------------------------------------------------------------------
(* A worker.                                                               *)

(* What it makes of a request, it has in hand.                             *)
(* What a worker may be at with a packet in its hands.                     *)
Busy == {"reading", "command", "reply"}

LEMMA Handled ==
  ASSUME NEW w, NEW no, NEW request, Handle(w, no, request)
  PROVE  \E t : t.pc \in Busy /\ t.no = no /\ Becomes(w, t)
<1>1. ASSUME NEW packet, Replies(w, no, packet)
      PROVE  \E t : t.pc \in Busy /\ t.no = no /\ Becomes(w, t)
      BY <1>1 DEF Replies, Busy
<1>2. CASE request.questions = <<>>
      BY <1>1, <1>2 DEF Handle
<1>3. CASE request.questions # <<>>
  <2>1. LookUp(w, no, request)
        BY <1>3 DEF Handle
  <2>2. \/ \E packet : Replies(w, no, packet)
        \/ Becomes(w, [pc |-> "command", no |-> no, request |-> request])
        BY <2>1 DEF LookUp
  <2> QED BY <1>1, <2>2 DEF Busy
<1> QED BY <1>2, <1>3

LEMMA LostNumbers ==
  ASSUME NEW S, NEW n, NEW why
  PROVE  {l.no : l \in S \cup {[no |-> n, why |-> why]}} = {l.no : l \in S} \cup {n}
<1> DEFINE new == [no |-> n, why |-> why]
<1>1. new.no = n
      OBVIOUS
<1> HIDE DEF new
<1>2. {l.no : l \in S \cup {new}} = {l.no : l \in S} \cup {n}
      BY <1>1
<1> QED BY <1>2 DEF new

(* The worker takes the packet that came first of those it was dealt.      *)
LEMMA TakeStep ==
  ASSUME IInv, NEW w \in Worker, Take(w)
  PROVE  IInv'
<1> DEFINE got == Head(queue[w])
           no == got.no
           Boxed == [no : Nat, buf : {InBuffer(ClientCells(r)) : r \in Queries}]
<1>1. /\ worker[w].pc = "idle" /\ queue[w] # <<>>
      /\ queue' = [queue EXCEPT ![w] = Tail(@)]
      /\ UNCHANGED <<threads, main, current, asked, answers>>
      BY DEF Take, Treats
<1>2. \/ Drops(w, no) \/ Hangs(w, no)
      \/ \E request : Handle(w, no, request) /\ UNCHANGED lost
      BY DEF Take, Treats
<1>3. \/ lost' = lost \cup {[no |-> no, why |-> "unread"]} /\ UNCHANGED worker
      \/ /\ \E t : t.pc \in Busy /\ t.no = no /\ worker' = [worker EXCEPT ![w] = t]
         /\ UNCHANGED lost
  <2>1. ASSUME NEW request, Handle(w, no, request), UNCHANGED lost
        PROVE  \E t : t.pc \in Busy /\ t.no = no /\ worker' = [worker EXCEPT ![w] = t]
    <3>1. \E t : t.pc \in Busy /\ t.no = no /\ Becomes(w, t)
          BY <2>1, Handled
    <3> QED BY <3>1 DEF Becomes
  <2>2. ASSUME Hangs(w, no)
        PROVE  \E t : t.pc \in Busy /\ t.no = no /\ worker' = [worker EXCEPT ![w] = t]
    <3> DEFINE t == [pc |-> "reading", no |-> no]
    <3>1. t.pc \in Busy /\ t.no = no
          BY DEF Busy
    <3>2. worker' = [worker EXCEPT ![w] = t]
          BY <2>2 DEF Hangs, Becomes
    <3> QED BY <3>1, <3>2
  <2>3. Hangs(w, no) => UNCHANGED lost
        BY DEF Hangs
  <2> QED BY <1>2, <2>1, <2>2, <2>3 DEF Drops, Loses
<1>4. /\ DOMAIN queue = Worker /\ DOMAIN worker = Worker /\ Worker' = Worker
      /\ \A x \in Worker : queue[x] \in Seq(Boxed)
      BY <1>1 DEF IInv, TypeOK, Numbers, Worker
<1> HIDE DEF Boxed
<1>5. /\ DOMAIN queue' = Worker /\ queue'[w] = Tail(queue[w])
      /\ \A x \in Worker \ {w} : queue'[x] = queue[x]
      BY <1>1, <1>4
<1> DEFINE s == queue[w]
           t == queue'[w]
<1>6. /\ s \in Seq(Boxed) /\ s # <<>> /\ t = Tail(s) /\ no = s[1].no
      BY <1>1, <1>4, <1>5
<1> HIDE DEF s, t, got
<1>7. /\ t \in Seq(Boxed) /\ Len(s) \in Nat /\ Len(s) > 0 /\ Len(t) = Len(s) - 1
      /\ DOMAIN s = 1..Len(s) /\ DOMAIN t = 1..(Len(s) - 1)
      /\ \A i \in 1..(Len(s) - 1) : t[i] = s[i + 1]
      BY <1>6
<1>8. Waiting(w) = {no} \cup Waiting(w)'
  <2>1. {s[i].no : i \in DOMAIN s} = {no} \cup {t[i].no : i \in DOMAIN t}
    <3>1. ASSUME NEW i \in DOMAIN s PROVE s[i].no \in {no} \cup {t[j].no : j \in DOMAIN t}
      <4>1. i = 1 \/ (i - 1 \in DOMAIN t /\ t[i - 1] = s[i])
            BY <1>7
      <4> QED BY <1>6, <4>1
    <3>2. ASSUME NEW i \in DOMAIN t PROVE t[i].no \in {s[j].no : j \in DOMAIN s}
      <4>1. i \in 1..(Len(s) - 1) /\ i + 1 \in DOMAIN s
            BY <1>7
      <4>2. t[i] = s[i + 1]
            BY <1>7, <4>1
      <4> QED BY <4>1, <4>2
    <3>3. no \in {s[j].no : j \in DOMAIN s}
          BY <1>6, <1>7
    <3> QED BY <3>1, <3>2, <3>3
  <2> QED BY <2>1 DEF s, t, Waiting
<1>9. \A x \in Worker \ {w} : Waiting(x)' = Waiting(x)
      BY <1>5 DEF Waiting
<1>10. \A i \in DOMAIN t : no < t[i].no
  <2>1. \A i, j \in DOMAIN s : i < j => s[i].no < s[j].no
        BY DEF IInv, PendingIsOrdered, s
  <2> QED BY <1>6, <1>7, <2>1
<1>11. no \notin Waiting(w)' /\ \A other \in Waiting(w)' : no < other
  <2>1. Waiting(w)' = {t[i].no : i \in DOMAIN t}
        BY DEF Waiting, t
  <2>2. no \in Nat
    <3>1. 1 \in 1..Len(s) /\ s \in Seq(Boxed)
          BY <1>6, <1>7
    <3>2. s[1] \in Boxed
          BY <3>1, ElementOfSeq
    <3> QED BY <1>6, <3>2 DEF Boxed
  <2> QED BY <1>10, <2>1, <2>2
<1>12. InHand(w) = {}
      BY <1>1 DEF InHand
<1>13. no \in 1..Len(asked) /\ DealtTo(no) = w /\ no \notin Given
      BY <1>8 DEF IInv, PendingIsDealt, Pending
<1>14. \A x \in Worker \ {w} : InHand(x)' = InHand(x)
      BY <1>3, <1>4 DEF InHand
<1>15. \/ InHand(w)' = {no} /\ Given' = Given
       \/ InHand(w)' = {} /\ Given' = Given \cup {no}
  <2>1. CASE lost' = lost \cup {[no |-> no, why |-> "unread"]} /\ UNCHANGED worker
    <3>1. {l.no : l \in lost'} = {l.no : l \in lost} \cup {no}
          BY <2>1, LostNumbers
    <3> QED BY <1>1, <1>12, <2>1, <3>1 DEF Given, InHand
  <2>2. CASE /\ \E u : u.pc \in Busy /\ u.no = no /\ worker' = [worker EXCEPT ![w] = u]
             /\ UNCHANGED lost
    <3>1. worker'[w].pc \in Busy /\ worker'[w].no = no
          BY <1>4, <2>2
    <3> QED BY <1>1, <2>2, <3>1 DEF Given, InHand, Busy
  <2> QED BY <1>3, <2>1, <2>2
<1>16. \A x : DealtTo(x)' = DealtTo(x)
      BY <1>1 DEF DealtTo
<1>17. TypeOK'
  <2>1. lost' \subseteq [no : Nat, why : {"unread", "unwritten", "unsent"}]
        BY <1>3, <1>13 DEF IInv, TypeOK
  <2>2. /\ DOMAIN worker' = Worker
        /\ \A x \in Worker : worker'[x].pc \in {"idle", "reading", "command", "reply"}
        BY <1>3, <1>4 DEF IInv, TypeOK, Busy
  <2> QED BY <1>1, <1>4, <1>5, <2>1, <2>2 DEF IInv, TypeOK
<1>18. Numbers'
  <2>1. \A x \in Worker' : queue'[x] \in Seq(Boxed)
        BY <1>4, <1>5, <1>7 DEF t
  <2>2. Given' \subseteq 1..Len(asked)
        BY <1>13, <1>15 DEF IInv, Numbers
  <2> QED BY <1>1, <2>1, <2>2 DEF IInv, Numbers, Boxed
<1>19. Pending(w) = {no} \cup Waiting(w)' /\ \A x \in Worker \ {w} : Pending(x)' = Pending(x)
      BY <1>8, <1>9, <1>12, <1>14 DEF Pending
<1>20. \/ Pending(w)' = Pending(w) /\ Given' = Given
       \/ Pending(w)' = Pending(w) \ {no} /\ Given' = Given \cup {no}
      BY <1>11, <1>15, <1>19 DEF Pending
<1>21. PendingIsDealt'
  <2>1. ASSUME NEW x \in Worker, NEW other \in Pending(x)'
        PROVE  other \in 1..Len(asked) /\ DealtTo(other) = x /\ other \notin Given'
    <3>1. other \in Pending(x)
          BY <1>19, <1>20
    <3>2. other \in 1..Len(asked) /\ DealtTo(other) = x /\ other \notin Given
          BY <3>1 DEF IInv, PendingIsDealt
    <3>3. other \notin Given'
          BY <1>13, <1>20, <2>1, <3>2
    <3> QED BY <3>2, <3>3
  <2> QED BY <1>1, <1>4, <1>16, <2>1 DEF PendingIsDealt
<1>22. PendingIsOrdered'
  <2>1. ASSUME NEW x \in Worker, NEW held \in InHand(x)', NEW other \in Waiting(x)'
        PROVE  held < other
        BY <1>9, <1>11, <1>14, <1>15 DEF IInv, PendingIsOrdered
  <2>2. ASSUME NEW x \in Worker, NEW i \in DOMAIN queue'[x], NEW j \in DOMAIN queue'[x], i < j
        PROVE  queue'[x][i].no < queue'[x][j].no
    <3>1. CASE x # w
          BY <1>5, <2>2, <3>1 DEF IInv, PendingIsOrdered
    <3>2. CASE x = w
      <4>1. \A k, l \in DOMAIN s : k < l => s[k].no < s[l].no
            BY DEF IInv, PendingIsOrdered, s
      <4>2. i \in DOMAIN t /\ j \in DOMAIN t
            BY <3>2 DEF t
      <4>3. i + 1 \in DOMAIN s /\ j + 1 \in DOMAIN s /\ i + 1 < j + 1
            BY <1>7, <2>2, <4>2
      <4>4. t[i].no < t[j].no
            BY <1>7, <4>1, <4>2, <4>3
      <4> QED BY <3>2, <4>4 DEF t
    <3> QED BY <3>1, <3>2
  <2>3. ASSUME NEW x \in Worker, NEW given \in Given', NEW other \in Pending(x)', DealtTo(given) = x
        PROVE  given < other
    <3>1. CASE given \in Given
      <4>1. other \in Pending(x)
            BY <1>19, <1>20
      <4> QED BY <2>3, <3>1, <4>1 DEF IInv, PendingIsOrdered
    <3>2. CASE given \notin Given
      <4>1. given = no /\ x = w /\ Pending(w)' = Pending(w) \ {no}
            BY <1>13, <1>20, <2>3, <3>2
      <4>2. other \in Waiting(w)'
            BY <1>19, <4>1
      <4> QED BY <1>11, <4>1, <4>2
    <3> QED BY <3>1, <3>2
  <2> QED BY <1>1, <1>4, <1>16, <2>1, <2>2, <2>3 DEF PendingIsOrdered
<1>23. NoneIsMissing'
  <2>1. ASSUME threads > 0, NEW other \in 1..Len(asked)
        PROVE  other \in Given' \/ \E x \in Worker : other \in Pending(x)'
    <3>1. other \in Given \/ \E x \in Worker : other \in Pending(x)
          BY <2>1 DEF IInv, NoneIsMissing
    <3> QED BY <1>19, <1>20, <3>1
  <2> QED BY <1>1, <1>4, <2>1 DEF NoneIsMissing
<1>24. AnswersAreOrdered'
      BY <1>1, <1>16 DEF IInv, AnswersAreOrdered
<1> QED BY <1>17, <1>18, <1>21, <1>22, <1>23, <1>24 DEF IInv

(* A command leaves the packet in the same hands.                          *)
LEMMA CommandReturnsStep ==
  ASSUME IInv, NEW w \in Worker, CommandReturns(w)
  PROVE  IInv'
<1>1. /\ worker[w].pc = "command"
      /\ UNCHANGED <<threads, main, current, queue, asked, answers, lost>>
      BY DEF CommandReturns
<1>2. PICK t : t.pc = "reply" /\ t.no = worker[w].no /\ worker' = [worker EXCEPT ![w] = t]
  <2>1. PICK packet : Replies(w, worker[w].no, packet)
        BY DEF CommandReturns
  <2> QED BY <2>1 DEF Replies, Becomes
<1>3. /\ DOMAIN worker = Worker /\ Worker' = Worker
      BY <1>1 DEF IInv, TypeOK, Worker
<1>4. /\ DOMAIN worker' = Worker /\ worker'[w] = t
      /\ \A x \in Worker \ {w} : worker'[x] = worker[x]
      BY <1>2, <1>3
<1>5. \A x \in Worker : InHand(x)' = InHand(x) /\ Waiting(x)' = Waiting(x)
  <2>1. InHand(w)' = {worker[w].no} /\ InHand(w) = {worker[w].no}
        BY <1>1, <1>2, <1>4 DEF InHand
  <2>2. \A x \in Worker \ {w} : InHand(x)' = InHand(x)
        BY <1>4 DEF InHand
  <2>3. \A x \in Worker : Waiting(x)' = Waiting(x)
        BY <1>1 DEF Waiting
  <2> QED BY <2>1, <2>2, <2>3
<1>6. \A x \in Worker : Pending(x)' = Pending(x)
      BY <1>5 DEF Pending
<1>7. Given' = Given /\ \A no : DealtTo(no)' = DealtTo(no)
      BY <1>1 DEF Given, DealtTo
<1>8. TypeOK'
      BY <1>1, <1>2, <1>3, <1>4 DEF IInv, TypeOK
<1>9. Numbers'
      BY <1>1, <1>3, <1>7 DEF IInv, Numbers
<1>10. PendingIsDealt'
      BY <1>1, <1>3, <1>6, <1>7 DEF IInv, PendingIsDealt
<1>11. PendingIsOrdered'
      BY <1>1, <1>3, <1>5, <1>6, <1>7 DEF IInv, PendingIsOrdered
<1>12. NoneIsMissing'
      BY <1>1, <1>3, <1>6, <1>7 DEF IInv, NoneIsMissing
<1>13. AnswersAreOrdered'
      BY <1>1, <1>7 DEF IInv, AnswersAreOrdered
<1> QED BY <1>8, <1>9, <1>10, <1>11, <1>12, <1>13 DEF IInv

(* The packet in hand is answered, or given up.                            *)
LEMMA SendStep ==
  ASSUME IInv, NEW w \in Worker, Send(w)
  PROVE  IInv'
<1> DEFINE no == worker[w].no
<1>1. /\ worker[w].pc = "reply" /\ worker' = [worker EXCEPT ![w] = [pc |-> "idle"]]
      /\ UNCHANGED <<threads, main, current, queue, asked>>
      BY DEF Send, Becomes
<1>2. \/ /\ \E why \in {"unsent", "unwritten"} : lost' = lost \cup {[no |-> no, why |-> why]}
         /\ UNCHANGED answers
      \/ /\ \E buf : answers' = Append(answers, [to |-> no, buf |-> buf])
         /\ UNCHANGED lost
      BY DEF Send, Loses
<1> HIDE DEF no
<1>3. /\ DOMAIN worker = Worker /\ Worker' = Worker
      BY <1>1 DEF IInv, TypeOK, Worker
<1>4. /\ DOMAIN worker' = Worker /\ worker'[w] = [pc |-> "idle"]
      /\ \A x \in Worker \ {w} : worker'[x] = worker[x]
      BY <1>1, <1>3
<1>5. InHand(w) = {no} /\ InHand(w)' = {}
      BY <1>1, <1>4 DEF InHand, no
<1>6. \A x \in Worker \ {w} : InHand(x)' = InHand(x)
      BY <1>4 DEF InHand
<1>7. \A x \in Worker : Waiting(x)' = Waiting(x)
      BY <1>1 DEF Waiting
<1>8. /\ no \in 1..Len(asked) /\ DealtTo(no) = w /\ no \notin Given
      /\ \A other \in Waiting(w) : no < other
      BY <1>5 DEF IInv, PendingIsDealt, PendingIsOrdered, Pending
<1>9. no \notin Waiting(w) /\ no \in Nat
  <2>1. no \in Nat
        BY <1>8
  <2> QED BY <1>8, <2>1
<1>10. PICK S : answers \in Seq(S)
      BY DEF IInv, Numbers
<1>11. ASSUME NEW buf, answers' = Append(answers, [to |-> no, buf |-> buf])
       PROVE  /\ \E T : answers' \in Seq(T)
              /\ DOMAIN answers' = 1..(Len(answers) + 1) /\ DOMAIN answers = 1..Len(answers)
              /\ Len(answers) \in Nat
              /\ answers'[Len(answers) + 1].to = no
              /\ \A i \in 1..Len(answers) : answers'[i] = answers[i]
  <2> DEFINE new == [to |-> no, buf |-> buf]
  <2>1. new.to = no
        OBVIOUS
  <2> HIDE DEF new
  <2>2. answers' = Append(answers, new)
        BY <1>11 DEF new
  <2>3. answers \in Seq(S \cup {new})
        BY <1>10, SeqMonotonic
  <2>4. /\ answers' \in Seq(S \cup {new}) /\ Len(answers') = Len(answers) + 1
        /\ answers'[Len(answers) + 1] = new
        /\ \A i \in 1..Len(answers) : answers'[i] = answers[i]
        BY <2>2, <2>3, AppendProperties
  <2> QED BY <2>1, <2>3, <2>4
<1>12. Given' = Given \cup {no}
  <2>1. CASE /\ \E why \in {"unsent", "unwritten"} : lost' = lost \cup {[no |-> no, why |-> why]}
             /\ UNCHANGED answers
    <3>1. PICK why \in {"unsent", "unwritten"} : lost' = lost \cup {[no |-> no, why |-> why]}
          BY <2>1
    <3>2. {l.no : l \in lost'} = {l.no : l \in lost} \cup {no}
          BY <3>1, LostNumbers
    <3> QED BY <2>1, <3>2 DEF Given
  <2>2. CASE /\ \E buf : answers' = Append(answers, [to |-> no, buf |-> buf])
             /\ UNCHANGED lost
    <3>1. {answers'[i].to : i \in DOMAIN answers'} = {answers[i].to : i \in DOMAIN answers} \cup {no}
      <4>1. PICK n \in Nat :
              /\ DOMAIN answers' = 1..(n + 1) /\ DOMAIN answers = 1..n
              /\ answers'[n + 1].to = no /\ \A i \in 1..n : answers'[i] = answers[i]
            BY <1>11, <2>2
      <4>2. 1..(n + 1) = (1..n) \cup {n + 1}
            OBVIOUS
      <4> QED BY <4>1, <4>2
    <3> QED BY <2>2, <3>1 DEF Given
  <2> QED BY <1>2, <2>1, <2>2
<1>13. \A x : DealtTo(x)' = DealtTo(x)
      BY <1>1 DEF DealtTo
<1>14. /\ Pending(w)' = Pending(w) \ {no} /\ \A x \in Worker \ {w} : Pending(x)' = Pending(x)
       /\ Pending(w)' = Waiting(w)
      BY <1>5, <1>6, <1>7, <1>9 DEF Pending
<1>15. TypeOK'
  <2>1. lost' \subseteq [no : Nat, why : {"unread", "unwritten", "unsent"}]
        BY <1>2, <1>9 DEF IInv, TypeOK
  <2>2. \A x \in Worker : worker'[x].pc \in {"idle", "reading", "command", "reply"}
        BY <1>4 DEF IInv, TypeOK
  <2> QED BY <1>1, <1>3, <1>4, <2>1, <2>2 DEF IInv, TypeOK
<1>16. Numbers'
  <2>1. Given' \subseteq 1..Len(asked)
        BY <1>8, <1>12 DEF IInv, Numbers
  <2>2. \E T : answers' \in Seq(T)
        BY <1>2, <1>10, <1>11
  <2> QED BY <1>1, <1>3, <2>1, <2>2 DEF IInv, Numbers
<1>17. PendingIsDealt'
  <2>1. ASSUME NEW x \in Worker, NEW other \in Pending(x)'
        PROVE  other \in 1..Len(asked) /\ DealtTo(other) = x /\ other \notin Given'
    <3>1. other \in Pending(x) /\ (x = w => other # no)
          BY <1>14
    <3>2. other \in 1..Len(asked) /\ DealtTo(other) = x /\ other \notin Given
          BY <3>1 DEF IInv, PendingIsDealt
    <3> QED BY <1>8, <1>12, <3>1, <3>2
  <2> QED BY <1>1, <1>3, <1>13, <2>1 DEF PendingIsDealt
<1>18. PendingIsOrdered'
  <2>1. ASSUME NEW x \in Worker, NEW held \in InHand(x)', NEW other \in Waiting(x)'
        PROVE  held < other
        BY <1>5, <1>6, <1>7 DEF IInv, PendingIsOrdered
  <2>2. ASSUME NEW x \in Worker, NEW given \in Given', NEW other \in Pending(x)', DealtTo(given) = x
        PROVE  given < other
    <3>1. CASE given \in Given
      <4>1. other \in Pending(x)
            BY <1>14
      <4> QED BY <2>2, <3>1, <4>1 DEF IInv, PendingIsOrdered
    <3>2. CASE given \notin Given
      <4>1. given = no /\ x = w
            BY <1>8, <1>12, <2>2, <3>2
      <4> QED BY <1>8, <1>14, <4>1
    <3> QED BY <3>1, <3>2
  <2>3. \A x \in Worker : queue'[x] = queue[x]
        BY <1>1
  <2> QED BY <1>1, <1>3, <1>13, <2>1, <2>2, <2>3 DEF IInv, PendingIsOrdered
<1>19. NoneIsMissing'
  <2>1. ASSUME threads > 0, NEW other \in 1..Len(asked)
        PROVE  other \in Given' \/ \E x \in Worker : other \in Pending(x)'
    <3>1. other \in Given \/ \E x \in Worker : other \in Pending(x)
          BY <2>1 DEF IInv, NoneIsMissing
    <3> QED BY <1>12, <1>14, <3>1
  <2> QED BY <1>1, <1>3, <2>1 DEF NoneIsMissing
<1>20. AnswersAreOrdered'
  <2>1. CASE UNCHANGED answers
        BY <1>13, <2>1 DEF IInv, AnswersAreOrdered
  <2>2. CASE \E buf : answers' = Append(answers, [to |-> no, buf |-> buf])
    <3>1. PICK n \in Nat :
            /\ DOMAIN answers' = 1..(n + 1) /\ DOMAIN answers = 1..n
            /\ answers'[n + 1].to = no /\ \A i \in 1..n : answers'[i] = answers[i]
          BY <1>11, <2>2
    <3>2. \A g \in Given : DealtTo(g) = w => g < no
          BY <1>5 DEF IInv, PendingIsOrdered, Pending
    <3>3. ASSUME NEW i \in 1..(n + 1), NEW j \in 1..(n + 1), i < j,
                 DealtTo(answers'[i].to) = DealtTo(answers'[j].to)
          PROVE  answers'[i].to < answers'[j].to
      <4>1. i \in 1..n /\ answers'[i] = answers[i]
            BY <3>1, <3>3
      <4>2. CASE j \in 1..n
        <5>1. answers'[j] = answers[j]
              BY <3>1, <4>2
        <5> QED BY <3>1, <3>3, <4>1, <4>2, <5>1 DEF IInv, AnswersAreOrdered
      <4>3. CASE j = n + 1
        <5>1. answers[i].to \in Given
              BY <3>1, <4>1 DEF Given
        <5>2. answers'[j].to = no /\ DealtTo(answers[i].to) = w
              BY <1>8, <3>1, <3>3, <4>1, <4>3
        <5> QED BY <3>2, <4>1, <5>1, <5>2
      <4> QED BY <4>2, <4>3
    <3> QED BY <1>13, <3>1, <3>3 DEF AnswersAreOrdered
  <2> QED BY <1>2, <2>1, <2>2
<1> QED BY <1>15, <1>16, <1>17, <1>18, <1>19, <1>20 DEF IInv

-------------------------------------------------------------------------------
(* Every step keeps the invariant.                                         *)
LEMMA Inductive == IInv /\ [Next]_vars => IInv'
<1> SUFFICES ASSUME IInv, [Next]_vars PROVE IInv'
    OBVIOUS
<1>1. CASE UNCHANGED vars
  <2>1. /\ Worker' = Worker /\ Given' = Given /\ \A no : DealtTo(no)' = DealtTo(no)
        /\ \A w : InHand(w)' = InHand(w) /\ Waiting(w)' = Waiting(w)
        BY <1>1 DEF vars, Worker, Given, DealtTo, InHand, Waiting
  <2>2. \A w : Pending(w)' = Pending(w)
        BY <2>1 DEF Pending
  <2>3. TypeOK' /\ Numbers'
        BY <1>1, <2>1 DEF IInv, TypeOK, Numbers, vars
  <2>4. PendingIsDealt' /\ PendingIsOrdered'
        BY <1>1, <2>1, <2>2 DEF IInv, PendingIsDealt, PendingIsOrdered, vars
  <2>5. NoneIsMissing' /\ AnswersAreOrdered'
        BY <1>1, <2>1, <2>2 DEF IInv, NoneIsMissing, AnswersAreOrdered, vars
  <2> QED BY <2>3, <2>4, <2>5 DEF IInv
<1>2. CASE Receive \/ ReceivePanics
      BY <1>2, ReceiveStep, ReceivePanicsStep
<1>3. ASSUME NEW w \in Worker, Work(w) PROVE IInv'
      BY <1>3, TakeStep, CommandReturnsStep, SendStep DEF Work
<1> QED BY <1>1, <1>2, <1>3 DEF Next

LEMMA Always == Spec => []IInv
BY Starts, Inductive, PTL DEF Spec

(* The index of the next worker is always that of a worker, for any number *)
(* of threads, and a packet is given up for one of three reasons.          *)
THEOREM Typing == Spec => []TypeOK
<1>1. IInv => TypeOK
      BY DEF IInv
<1> QED BY <1>1, Always, PTL

(* No packet is lost between the channels, none is answered twice, and a   *)
(* worker answers its packets in the order in which they came, for any     *)
(* number of threads and packets and however the workers are delayed.      *)
THEOREM InTurn == Spec => []AnsweredInTurn
<1>1. ASSUME IInv PROVE AnsweredInTurn
  <2>1. ASSUME NEW i \in DOMAIN answers, NEW j \in DOMAIN answers, i < j
        PROVE  /\ answers[i].to # answers[j].to
               /\ DealtTo(answers[i].to) = DealtTo(answers[j].to) => answers[i].to < answers[j].to
    <3>1. DealtTo(answers[i].to) = DealtTo(answers[j].to) => answers[i].to < answers[j].to
          BY <1>1, <2>1 DEF IInv, AnswersAreOrdered
    <3>2. answers[i].to \in Given
          BY DEF Given
    <3>3. answers[i].to \in Nat
      <4>1. Given \subseteq 1..Len(asked) /\ Len(asked) \in Nat
            BY <1>1 DEF IInv, Numbers, TypeOK
      <4>2. \A n \in Given : n \in Nat
            BY <4>1
      <4> QED BY <3>2, <4>2, Zenon
    <3> QED BY <3>1, <3>3
  <2>2. ASSUME threads > 0, NEW no \in 1..Len(asked)
        PROVE  IF no \in Given THEN \A w \in Worker : no \notin Pending(w)
                               ELSE \A w \in Worker : no \in Pending(w) <=> w = DealtTo(no)
    <3>1. \A w \in Worker : no \in Pending(w) => DealtTo(no) = w /\ no \notin Given
          BY <1>1 DEF IInv, PendingIsDealt
    <3>2. no \in Given \/ \E w \in Worker : no \in Pending(w)
          BY <1>1, <2>2 DEF IInv, NoneIsMissing
    <3> QED BY <3>1, <3>2
  <2> QED BY <2>1, <2>2 DEF AnsweredInTurn, Pending
<1> QED BY <1>1, Always, PTL

-------------------------------------------------------------------------------
(* What is in the queues, with the workers, sent and given up belongs to   *)
(* what was asked.                                                         *)
GoodRequest(q, request) ==
  /\ request.header.id = q.header.id
  /\ q.questions = <<>> => request.questions = <<>>
  /\ q.questions # <<>> =>
       request.questions # <<>> /\ request.questions[1] = SmallLetters(q.questions[1])

Awaits(q, request) ==
  LET question == SmallLetters(q.questions[1])
  IN  /\ GoodRequest(q, request) /\ q.questions # <<>>
      /\ question.type \in {TypeA, TypeAAAA}
      /\ Matching(question.name) # {} /\ FirstRule(question.name).kind = "cmd"

GoodTask(q, t) ==
  /\ t.pc = "reply" => ~AsksInCircle(q) /\ GoodReply(q, t.packet)
  /\ t.pc = "command" => ~AsksInCircle(q) /\ Awaits(q, t.request)

Sent(q, buf) ==
  /\ ~AsksInCircle(q)
  /\ \E packet : GoodReply(q, packet) /\ Fits(packet) /\ buf = PacketCells(packet)

GivenUp(q, why) ==
  /\ why = "unread" => Len(ClientCells(q)) > Size
  /\ why = "unwritten" => Unfit(q)

QueuesHold ==
  \A w \in Worker : \A i \in DOMAIN queue[w] :
    queue[w][i].buf = InBuffer(ClientCells(asked[queue[w][i].no]))

TasksAreGood == \A w \in Worker : GoodTask(asked[worker[w].no], worker[w])

AnswersAreGood == \A i \in DOMAIN answers : Sent(asked[answers[i].to], answers[i].buf)

LossesAreGood == \A l \in lost : GivenUp(asked[l.no], l.why)

Faithful == QueuesHold /\ TasksAreGood /\ AnswersAreGood /\ LossesAreGood

-------------------------------------------------------------------------------
(* The first rule that matches is a rule.                                  *)
LEMMA FirstRuleIs ==
  ASSUME NEW name, Matching(name) # {}
  PROVE  /\ FirstRule(name).kind \in {"raw", "cmd"}
         /\ FirstRule(name).address = {} \/ \E a \in Address : FirstRule(name).address = {a}
<1> DEFINE T == Matching(name)
           i == Min(T)
<1>1. T \in SUBSET Nat /\ T # {} /\ T \subseteq DOMAIN Rules
      BY RulesAssumption DEF Matching
<1>2. i = CHOOSE x \in T : \A y \in T : x <= y
      BY DEF Min
<1> HIDE DEF T, i
<1>3. \E m \in T : \A k \in T : m <= k
      BY <1>1, LeastNat
<1>4. i \in T
      BY <1>2, <1>3
<1>5. i \in DOMAIN Rules /\ FirstRule(name) = Rules[i]
      BY <1>1, <1>4 DEF FirstRule, i, T
<1>6. /\ Rules[i].kind \in {"raw", "cmd"}
      /\ Rules[i].address \in {{}} \cup {{a} : a \in Rules[i].address \cap Address}
      BY <1>5, RulesAssumption
<1>7. Rules[i].address = {} \/ \E a \in Address : Rules[i].address = {a}
      BY <1>6
<1> QED BY <1>5, <1>6, <1>7

LEMMA ReplyIs ==
  ASSUME NEW request, NEW code, NEW qs, NEW found
  PROVE  Reply(request, code, qs, found)
           = Answer(ReplyHeader(request.header.id, code), qs, found)
<1> DEFINE h == ReplyHeader(request.header.id, code)
<1>1. Reply(request, code, qs, found)
        = [EmptyPacket(h) EXCEPT !.questions = qs, !.answers = found]
      BY DEF Reply, ReplyHeader
<1> HIDE DEF h
<1>2. Reply(request, code, qs, found) = Answer(h, qs, found)
      BY <1>1 DEF EmptyPacket, Answer, PacketOf
<1> QED BY <1>2 DEF h

(* A response with an address, or with none.                               *)
Finds(question, parsed) ==
  IF parsed = {} THEN <<>> ELSE << AddressOf(question, CHOOSE a \in parsed : TRUE) >>

LEMMA AnsweredGood ==
  ASSUME NEW q, q.questions # <<>>, NEW request, GoodRequest(q, request),
         SmallLetters(q.questions[1]).type \in {TypeA, TypeAAAA},
         NEW parsed, parsed = {} \/ \E a \in Address : parsed = {a},
         MayFind(SmallLetters(q.questions[1]).name, Finds(SmallLetters(q.questions[1]), parsed))
  PROVE  GoodReply(q, Answered(request, parsed))
<1> DEFINE question == SmallLetters(q.questions[1])
           id == q.header.id
<1>1. request.header.id = id /\ request.questions[1] = question
      BY DEF GoodRequest
<1>2. CASE parsed = {}
  <2>1. Answered(request, parsed) = Reply(request, SERVFAIL, << question >>, <<>>)
        BY <1>1, <1>2 DEF Answered
  <2>2. Answered(request, parsed) = Answer(ReplyHeader(id, SERVFAIL), << question >>, <<>>)
        BY <1>1, <2>1, ReplyIs
  <2>3. Finds(question, parsed) = <<>>
        BY <1>2 DEF Finds
  <2>4. MayFind(question.name, <<>>)
        BY <2>3
  <2>5. Outcome(q, SERVFAIL, << question >>, <<>>)
        BY <2>4 DEF Outcome
  <2> QED BY <2>2, <2>5 DEF GoodReply
<1>3. CASE \E a \in Address : parsed = {a}
  <2>1. PICK a \in Address : parsed = {a}
        BY <1>3
  <2>2. (CHOOSE x \in parsed : TRUE) = a /\ parsed # {}
        BY <2>1
  <2> DEFINE found == << AddressOf(question, a) >>
  <2>3. Answered(request, parsed) = Reply(request, NOERROR, << question >>, found)
        BY <1>1, <2>2 DEF Answered, AddressOf
  <2>4. Answered(request, parsed) = Answer(ReplyHeader(id, NOERROR), << question >>, found)
        BY <1>1, <2>3, ReplyIs
  <2>5. Finds(question, parsed) = found
        BY <2>2 DEF Finds
  <2>6. MayFind(question.name, found)
        BY <2>5
  <2>7. Outcome(q, NOERROR, << question >>, found)
        BY <2>6 DEF Outcome
  <2> QED BY <2>4, <2>7 DEF GoodReply
<1> QED BY <1>2, <1>3

LEMMA FindsOne ==
  ASSUME NEW question, NEW a
  PROVE  /\ Finds(question, {a}) = << AddressOf(question, a) >>
         /\ << AddressOf(question, a) >>[1].addr = a
         /\ LET found == << AddressOf(question, a) >>
            IN  {found[i].addr : i \in DOMAIN found} = {a}
<1>1. (CHOOSE x \in {a} : TRUE) = a
      OBVIOUS
<1>2. AddressOf(question, a).addr = a
      BY DEF AddressOf
<1>3. Finds(question, {a}) = << AddressOf(question, a) >>
      BY <1>1 DEF Finds
<1> DEFINE r == AddressOf(question, a)
<1>4. r.addr = a
      BY <1>2
<1> HIDE DEF r
<1>5. << r >>[1].addr = a /\ {<< r >>[i].addr : i \in DOMAIN << r >>} = {a}
      BY <1>4
<1> QED BY <1>3, <1>5 DEF r

LEMMA RawIsFound ==
  ASSUME NEW question, Matching(question.name) # {}, FirstRule(question.name).kind = "raw"
  PROVE  LET parsed == FirstRule(question.name).address
         IN  /\ parsed = {} \/ \E a \in Address : parsed = {a}
             /\ MayFind(question.name, Finds(question, parsed))
<1> DEFINE parsed == FirstRule(question.name).address
<1>1. parsed = {} \/ \E a \in Address : parsed = {a}
      BY FirstRuleIs
<1>2. ASSUME NEW found, {found[i].addr : i \in DOMAIN found} = parsed
      PROVE  MayFind(question.name, found)
      BY <1>2 DEF MayFind
<1> HIDE DEF parsed
<1>3. CASE parsed = {}
  <2>1. Finds(question, parsed) = <<>>
        BY <1>3 DEF Finds
  <2> DEFINE found == <<>>
  <2>2. {found[i].addr : i \in DOMAIN found} = parsed
        BY <1>3
  <2>3. MayFind(question.name, found)
        BY <1>2, <2>2
  <2> QED BY <1>1, <2>1, <2>3 DEF parsed
<1>4. CASE \E a \in Address : parsed = {a}
  <2>1. PICK a \in Address : parsed = {a}
        BY <1>4
  <2> DEFINE found == << AddressOf(question, a) >>
  <2>2. {found[i].addr : i \in DOMAIN found} = parsed /\ Finds(question, parsed) = found
        BY <2>1, FindsOne
  <2> HIDE DEF found
  <2>3. MayFind(question.name, found)
        BY <1>2, <2>2
  <2> QED BY <1>1, <2>2, <2>3 DEF parsed
<1> QED BY <1>1, <1>3, <1>4

LEMMA OutputIsFound ==
  ASSUME NEW question, Matching(question.name) # {}, FirstRule(question.name).kind = "cmd",
         NEW parsed \in {{}} \cup {{a} : a \in Outputs}
  PROVE  /\ parsed = {} \/ \E a \in Address : parsed = {a}
         /\ MayFind(question.name, Finds(question, parsed))
<1>1. parsed = {} \/ \E a \in Outputs : parsed = {a}
      OBVIOUS
<1>2. Outputs \subseteq Address
      BY RulesAssumption
<1>3. CASE parsed = {}
  <2>1. Finds(question, parsed) = <<>>
        BY <1>3 DEF Finds
  <2>2. MayFind(question.name, <<>>)
        BY DEF MayFind
  <2> QED BY <1>3, <2>1, <2>2
<1>4. CASE \E a \in Outputs : parsed = {a}
  <2>1. PICK a \in Outputs : parsed = {a}
        BY <1>4
  <2> DEFINE found == << AddressOf(question, a) >>
  <2>2. found[1].addr \in Outputs /\ Finds(question, parsed) = found
        BY <2>1, FindsOne
  <2> HIDE DEF found
  <2>3. MayFind(question.name, found)
        BY <2>2 DEF MayFind
  <2> QED BY <1>2, <2>1, <2>2, <2>3
<1> QED BY <1>1, <1>3, <1>4

(* What a worker makes of a request.                                       *)
LEMMA RepliesGood ==
  ASSUME NEW w, NEW no, NEW q, ~AsksInCircle(q),
         NEW packet, GoodReply(q, packet), Replies(w, no, packet)
  PROVE  \E t : Becomes(w, t) /\ t.no = no /\ GoodTask(q, t)
<1> DEFINE t == [pc |-> "reply", no |-> no, packet |-> packet]
<1>1. t.pc = "reply" /\ t.no = no /\ t.packet = packet
      OBVIOUS
<1>2. Becomes(w, t)
      BY DEF Replies
<1> HIDE DEF t
<1>3. GoodTask(q, t)
      BY <1>1 DEF GoodTask
<1> QED BY <1>1, <1>2, <1>3

LEMMA HandleGood ==
  ASSUME NEW w, NEW no, NEW q, IsQuery(q), NEW request, GoodRequest(q, request),
         Handle(w, no, request)
  PROVE  \E t : Becomes(w, t) /\ t.no = no /\ GoodTask(q, t)
<1> DEFINE id == q.header.id
<1>0. request.header.id = id /\ ~AsksInCircle(q)
      BY QueryInNoCircle DEF GoodRequest
<1>1. CASE q.questions = <<>>
  <2>1. Replies(w, no, Reply(request, FORMERR, <<>>, <<>>))
        BY <1>1 DEF GoodRequest, Handle
  <2>2. Reply(request, FORMERR, <<>>, <<>>) = Answer(ReplyHeader(id, FORMERR), <<>>, <<>>)
        BY <1>0, ReplyIs
  <2>3. Outcome(q, FORMERR, <<>>, <<>>)
        BY <1>1 DEF Outcome
  <2>4. GoodReply(q, Reply(request, FORMERR, <<>>, <<>>))
        BY <2>2, <2>3 DEF GoodReply
  <2> QED BY <2>1, <2>4, <1>0, RepliesGood
<1>2. CASE q.questions # <<>>
  <2> DEFINE question == SmallLetters(q.questions[1])
             hits == Matching(question.name)
             isAddr == question.type \in {TypeA, TypeAAAA}
             rule == FirstRule(question.name)
  <2>1. request.questions # <<>> /\ request.questions[1] = question
        BY <1>2 DEF GoodRequest
  <2>2. LookUp(w, no, request)
        BY <2>1 DEF Handle
  <2>3. CASE ~isAddr
    <3>1. Replies(w, no, Reply(request, NOTIMP, << question >>, <<>>))
          BY <2>1, <2>2, <2>3 DEF LookUp
    <3>2. Reply(request, NOTIMP, << question >>, <<>>)
            = Answer(ReplyHeader(id, NOTIMP), << question >>, <<>>)
          BY <1>0, ReplyIs
    <3>3. Outcome(q, NOTIMP, << question >>, <<>>)
          BY <1>2, <2>3 DEF Outcome
    <3>4. GoodReply(q, Reply(request, NOTIMP, << question >>, <<>>))
          BY <3>2, <3>3 DEF GoodReply
    <3> QED BY <3>1, <3>4, <1>0, RepliesGood
  <2>4. CASE isAddr /\ hits = {}
    <3>1. Replies(w, no, Answered(request, {}))
          BY <2>1, <2>2, <2>4 DEF LookUp
    <3>2. Finds(question, {}) = <<>> /\ MayFind(question.name, <<>>)
          BY <2>4 DEF Finds, MayFind
    <3>3. GoodReply(q, Answered(request, {}))
          BY <1>2, <2>4, <3>2, AnsweredGood
    <3> QED BY <3>1, <3>3, <1>0, RepliesGood
  <2>5. CASE isAddr /\ hits # {} /\ rule.kind = "raw"
    <3>1. Replies(w, no, Answered(request, rule.address))
          BY <2>1, <2>2, <2>5 DEF LookUp
    <3>2. /\ rule.address = {} \/ \E a \in Address : rule.address = {a}
          /\ MayFind(question.name, Finds(question, rule.address))
          BY <2>5, RawIsFound
    <3>3. GoodReply(q, Answered(request, rule.address))
          BY <1>2, <2>5, <3>2, AnsweredGood
    <3> QED BY <3>1, <3>3, <1>0, RepliesGood
  <2>6. CASE isAddr /\ hits # {} /\ rule.kind # "raw"
    <3> DEFINE t == [pc |-> "command", no |-> no, request |-> request]
    <3>1. Becomes(w, t)
          BY <2>1, <2>2, <2>6 DEF LookUp
    <3>2. t.pc = "command" /\ t.no = no /\ t.request = request
          OBVIOUS
    <3>3. rule.kind = "cmd"
          BY <2>6, FirstRuleIs
    <3>4. Awaits(q, request)
          BY <1>2, <2>6, <3>3 DEF Awaits
    <3> HIDE DEF t
    <3>5. GoodTask(q, t)
          BY <1>0, <3>2, <3>4 DEF GoodTask
    <3> QED BY <3>1, <3>2, <3>5
  <2> QED BY <2>3, <2>4, <2>5, <2>6
<1> QED BY <1>1, <1>2

(* A worker reads the request from the buffer it was put into.             *)
LEMMA RequestRead ==
  ASSUME NEW q \in Queries, ~AsksInCircle(q)
  PROVE  LET p == Request[InBuffer(ClientCells(q))]
         IN  /\ p.failed => Len(ClientCells(q)) > Size
             /\ ~p.failed => GoodRequest(q, p.packet)
             /\ Len(ClientCells(q)) <= Size => ~p.failed /\ p.packet = SmallPacket(q)
<1> DEFINE cells == ClientCells(q)
           buf == InBuffer(cells)
<1>1. IsQuery(q) /\ cells \in Cells
      BY QueriesAre, ClientHolds
<1>2. Request[buf] = Parsed(buf)
      BY DEF Request
<1>3. Agree(buf, cells) /\ (Len(cells) <= Size => buf = cells)
      BY <1>1, InBufferIs DEF Agree
<1>4. Holds(cells, cells, 1) /\ Len(cells) \in Nat /\ Size \in Nat
      BY <1>1, HeldByItself, NamesAssumption DEF Cells
<1>5. Len(cells) <= Size => IsRead(buf, SmallPacket(q))
  <2> SUFFICES ASSUME Len(cells) <= Size PROVE IsRead(buf, SmallPacket(q))
      OBVIOUS
  <2>1. Holds(buf, ClientCells(q), 1)
        BY <1>3, <1>4
  <2> HIDE DEF buf
  <2> QED BY <1>1, <2>1, ClientRead
<1>6. ASSUME ~Parsed(buf).failed PROVE GoodRequest(q, Parsed(buf).packet)
  <2> DEFINE p == Parsed(buf).packet
  <2>0. Agree(buf, ClientCells(q))
        BY <1>3
  <2>1. /\ p.header = SmallHeader(q.header)
        /\ q.questions = <<>> => p.questions = <<>>
        /\ q.questions # <<>> =>
             p.questions # <<>> /\ p.questions[1] = SmallLetters(q.questions[1])
    <3> HIDE DEF buf
    <3> QED BY <1>1, <1>6, <2>0, CutRead
  <2>2. SmallHeader(q.header).id = q.header.id
    <3>1. q.header \in Header
          BY <1>1 DEF IsQuery
    <3> QED BY <3>1 DEF Header, SmallHeader
  <2> HIDE DEF p
  <2>3. GoodRequest(q, p)
        BY <2>1, <2>2 DEF GoodRequest
  <2> QED BY <2>3 DEF p
<1> HIDE DEF buf, cells
<1>8. Len(cells) <= Size => ~Parsed(buf).failed /\ Parsed(buf).packet = SmallPacket(q)
      BY <1>5 DEF IsRead
<1>7. Parsed(buf).failed => Len(cells) > Size
      BY <1>4, <1>8
<1> QED BY <1>2, <1>6, <1>7, <1>8 DEF buf, cells

(* Of a question in a circle it reads the header, and no more.             *)
LEMMA CircleCells ==
  ASSUME NEW q \in Queries, AsksInCircle(q)
  PROVE  /\ ClientCells(q) \in Cells /\ Len(ClientCells(q)) <= Size
         /\ Holds(ClientCells(q), HeaderCells(q.header, << 1, 0, 0, 0 >>), 1)
         /\ Holds(ClientCells(q), FirstPointer, 13)
<1> DEFINE h == q.header
           counts == << 1, 0, 0, 0 >>
           c0 == HeaderCells(h, counts)
<1>1. PICK type \in Number :
        q = [EmptyPacket(h) EXCEPT !.questions = << [name |-> Circle, type |-> type] >>]
      BY QueriesAssumption
<1> DEFINE question == [name |-> Circle, type |-> type]
           a == U16(type)
           b == U16(1)
<1>2. /\ q.questions = << question >> /\ q.answers = <<>> /\ q.authorities = <<>>
      /\ q.resources = <<>>
      BY <1>1 DEF EmptyPacket
<1>3. IsLong(FirstPointer, 2) /\ IsLong(a, 2) /\ IsLong(b, 2)
  <2>1. type \in Nat
        BY TypesDiffer
  <2>2. Byte(192) \in Cell /\ Byte(12) \in Cell
        BY ByteIs
  <2>3. FirstPointer \in Cells /\ Len(FirstPointer) = 2
        BY <2>2 DEF FirstPointer, Cells
  <2> QED BY <2>1, <2>3, U16Is DEF IsLong
<1>4. ClientQuestion(question) = FirstPointer \o a \o b
  <2>1. Circle # Root
        BY NoCircle DEF Domain
  <2> QED BY <2>1 DEF ClientQuestion, WireName
<1>5. ClientQuestions(<< question >>) = ClientQuestion(question)
  <2> DEFINE qs == << question >>
             ss == [k \in DOMAIN qs |-> ClientQuestion(qs[k])]
  <2>1. DOMAIN qs = 1..1 /\ qs[1] = question
        OBVIOUS
  <2>2. ClientQuestions(qs) = FlattenSeq(ss)
        BY DEF ClientQuestions
  <2>3. ss = [k \in 1..1 |-> ClientQuestion(question)]
        BY <2>1
  <2> HIDE DEF ss, qs, question, a, b
  <2>4. ClientQuestion(question) \in Cells
        BY <1>3, <1>4, BothIs DEF IsLong
  <2>5. ss \in Seq(Cells) /\ Len(ss) = 1 /\ ss[1] = ClientQuestion(question)
        BY <2>3, <2>4
  <2>6. FlattenSeq(ss) = ClientQuestion(question)
        BY <2>5, FlattenOne
  <2> QED BY <2>2, <2>6 DEF qs
<1>6. ClientRecords(q, <<>>) = <<>>
  <2>1. [k \in DOMAIN <<>> |-> ClientRecord(q, <<>>[k])] = <<>>
        OBVIOUS
  <2> QED BY <2>1, FlattenNone DEF ClientRecords
<1>7. Counts(q) = counts
      BY <1>2 DEF Counts
<1>8. ClientCells(q) = c0 \o (FirstPointer \o a \o b) \o <<>> \o <<>> \o <<>>
      BY <1>2, <1>4, <1>5, <1>6, <1>7 DEF ClientCells
<1>9. IsLong(c0, 12)
  <2>1. IsCounts(counts) /\ h \in Header
        BY QueriesAssumption DEF IsCounts
  <2> QED BY <2>1, HeaderIs DEF IsLong
<1> DEFINE c1 == FirstPointer \o a \o b
<1> HIDE DEF c0, a, b
<1>10. AddUp(2, 2, 4) /\ AddUp(4, 2, 6) /\ AddUp(12, 6, 18) /\ AddUp(1, 12, 13)
       /\ AddUp(13, 2, 15) /\ AddUp(13, 4, 17)
       BY DEF AddUp
<1>11. IsLong(FirstPointer \o a, 4)
       BY <1>3, <1>10, Joined
<1>12. IsLong(c1, 6)
       BY <1>3, <1>10, <1>11, Joined
<1>13. ASSUME NEW cells, cells = c0 \o c1
       PROVE  /\ cells \in Cells /\ Len(cells) = 18
              /\ Holds(cells, c0, 1) /\ Holds(cells, FirstPointer, 13)
  <2>1. IsLong(cells, 18)
    <3> HIDE DEF c1
    <3> QED BY <1>9, <1>10, <1>12, <1>13, Joined
  <2>2. cells \in Cells /\ Len(cells) = 18
        BY <2>1 DEF IsLong
  <2>3. Holds(cells, cells, 1) /\ 1 \in Place
        BY <2>2, HeldByItself DEF Place
  <2>4. Holds(cells, c0, 1) /\ Holds(cells, c1, 13) /\ 13 \in Place
    <3> HIDE DEF c1
    <3>1. Holds(cells, c0 \o c1, 1)
          BY <1>13, <2>3
    <3> QED BY <1>9, <1>10, <1>12, <2>3, <3>1, Apart
  <2>5. Holds(cells, FirstPointer \o a, 13)
        BY <1>3, <1>10, <1>11, <2>4, Apart
  <2>6. Holds(cells, FirstPointer, 13)
        BY <1>3, <1>10, <2>4, <2>5, Apart
  <2> QED BY <2>2, <2>4, <2>6
<1>14. ClientCells(q) = c0 \o c1
  <2>1. c0 \in Cells /\ c1 \in Cells
    <3> HIDE DEF c1
    <3> QED BY <1>9, <1>12 DEF IsLong
  <2> HIDE DEF c1
  <2>2. c0 \o c1 \in Cells
        BY <2>1, BothIs
  <2>3. (c0 \o c1) \o <<>> = c0 \o c1
        BY <2>2, ConcatEmptySeq DEF Cells
  <2>4. ClientCells(q) = c0 \o c1 \o <<>> \o <<>> \o <<>>
        BY <1>8 DEF c1
  <2> QED BY <2>3, <2>4, Zenon
<1>15. /\ ClientCells(q) \in Cells /\ Len(ClientCells(q)) = 18
       /\ Holds(ClientCells(q), c0, 1) /\ Holds(ClientCells(q), FirstPointer, 13)
  <2> HIDE DEF c1
  <2> QED BY <1>13, <1>14
<1>16. 18 <= Size
       BY NamesAssumption
<1> QED BY <1>15, <1>16 DEF c0

(* A section of no items is as far as the one before it.                   *)
Stuck(c, at) ==
  /\ DOMAIN c = {"pos", "failed", "items"} /\ c = [f \in DOMAIN c |-> c[f]]
  /\ c.pos = at /\ c.failed = TRUE

LEMMA StuckStays ==
  ASSUME NEW buf, NEW i, Count(buf, i) = 0, NEW c, NEW at, Stuck(c, at)
  PROVE  Stuck(ReadSection(buf, i, c), at)
<1>1. PICK g : /\ g[0] = [c EXCEPT !.items = <<>>]
               /\ ReadSection(buf, i, c) = g[Count(buf, i)]
      BY SectionIs
<1>2. ReadSection(buf, i, c) = [c EXCEPT !.items = <<>>]
      BY <1>1
<1> QED BY <1>2 DEF Stuck

LEMMA CircleRead ==
  ASSUME NEW q \in Queries, AsksInCircle(q)
  PROVE  Request[InBuffer(ClientCells(q))].endless
<1> DEFINE buf == InBuffer(ClientCells(q))
           counts == << 1, 0, 0, 0 >>
<1>1. Request[buf] = Parsed(buf)
      BY DEF Request
<1>2. buf = ClientCells(q)
      BY CircleCells, InBufferIs
<1>3. Holds(buf, HeaderCells(q.header, counts), 1) /\ Holds(buf, FirstPointer, 13)
      BY <1>2, CircleCells
<1> HIDE DEF buf
<1>4. Count(buf, 1) = 1 /\ Count(buf, 2) = 0 /\ Count(buf, 3) = 0 /\ Count(buf, 4) = 0
  <2>1. IsCounts(counts) /\ q.header \in Header
        BY QueriesAssumption DEF IsCounts
  <2>2. /\ counts[1] = 1 /\ counts[2] = 0 /\ counts[3] = 0 /\ counts[4] = 0
        /\ 1 \in 1..4 /\ 2 \in 1..4 /\ 3 \in 1..4 /\ 4 \in 1..4
        OBVIOUS
  <2> HIDE DEF counts
  <2>3. \A i \in 1..4 : Count(buf, i) = counts[i]
        BY <1>3, <2>1, HeaderRead
  <2> QED BY <2>2, <2>3
<1>5. CellAt(buf, 13) = Byte(192) /\ CellAt(buf, 14) = Byte(12)
  <2>1. Len(FirstPointer) = 2 /\ FirstPointer[1] = Byte(192) /\ FirstPointer[2] = Byte(12)
        BY DEF FirstPointer
  <2>2. (13 - 1) + 1 = 13 /\ (13 - 1) + 2 = 14 /\ 1 \in 1..2 /\ 2 \in 1..2
        OBVIOUS
  <2>3. \A j \in 1..2 : CellAt(buf, (13 - 1) + j) = FirstPointer[j]
        BY <1>3, <2>1 DEF Holds
  <2> QED BY <2>1, <2>2, <2>3
<1>6. Byte(192)[1] = "byte" /\ Byte(192)[2] = 192 /\ Byte(12)[2] = 12 /\ Byte(0)[2] = 0
      BY ByteIs
<1>7. IsPointer(CellAt(buf, 13))
      BY <1>5, <1>6 DEF IsPointer
<1>8. Target(buf, 13) = 13
  <2>1. U16At(buf, 13) - 192 * 256 + 1 = 13
        BY <1>5, <1>6 DEF U16At, Value
  <2> QED BY <1>7, <2>1, PointerLeads
<1>9. IsEndless(buf, 13)
      BY <1>7, <1>8 DEF IsEndless
<1>10. ~IsNameAt(buf, 13)
       BY <1>5, <1>6, <1>8 DEF IsNameAt
<1> DEFINE start  == State(13, <<>>)
           first  == ReadSection(buf, 1, start)
           second == ReadSection(buf, 2, first)
           third  == ReadSection(buf, 3, second)
           fourth == ReadSection(buf, 4, third)
<1>11. Stuck(first, 13)
  <2>1. PICK g : /\ g[0] = [start EXCEPT !.items = <<>>]
                 /\ \A k \in 1..Count(buf, 1) : g[k] = ReadItem(buf, Sections[1], g[k - 1])
                 /\ first = g[Count(buf, 1)]
    <3> HIDE DEF start
    <3> QED BY <1>4, SectionIs
  <2>2. g[0] = start /\ start.pos = 13 /\ first = g[1]
        BY <1>4, <2>1 DEF State
  <2>3. g[1] = ReadItem(buf, Sections[1], g[0])
    <3>1. 1 \in 1..Count(buf, 1) /\ 1 - 1 = 0
          BY <1>4
    <3> HIDE DEF first, start
    <3> QED BY <2>1, <3>1
  <2>4. first = [start EXCEPT !.failed = TRUE]
    <3> HIDE DEF first, start
    <3> QED BY <1>10, <2>2, <2>3 DEF ReadItem
  <2> HIDE DEF first
  <2> QED BY <2>4 DEF Stuck, State
<1> HIDE DEF start, first
<1>12. Stuck(second, 13)
       BY <1>4, <1>11, StuckStays
<1> HIDE DEF second
<1>13. Stuck(third, 13)
       BY <1>4, <1>12, StuckStays
<1> HIDE DEF third
<1>14. Stuck(fourth, 13)
       BY <1>4, <1>13, StuckStays
<1> HIDE DEF fourth
<1>15. Parsed(buf).endless = (fourth.failed /\ IsEndless(buf, fourth.pos))
  <2>1. Parsed(buf) = [failed  |-> fourth.failed,
                       endless |-> fourth.failed /\ IsEndless(buf, fourth.pos),
                       packet  |-> PacketOf(HeaderAt(buf), first.items, second.items,
                                           third.items, fourth.items)]
        BY ParsedIs DEF fourth, third, second, first, start
  <2> QED BY <2>1
<1>16. Parsed(buf).endless
       BY <1>9, <1>14, <1>15 DEF Stuck
<1> QED BY <1>1, <1>16 DEF buf

-------------------------------------------------------------------------------
(* The first state, and every step.                                        *)
LEMMA StartsFaithful == Init => Faithful
<1> SUFFICES ASSUME Init PROVE Faithful
    OBVIOUS
<1>1. /\ \A w \in Worker : queue[w] = <<>> /\ worker[w].pc = "idle"
      /\ answers = <<>> /\ lost = {}
      BY DEF Init
<1>2. QueuesHold
      BY <1>1 DEF QueuesHold
<1>3. TasksAreGood
      BY <1>1 DEF TasksAreGood, GoodTask
<1> QED BY <1>1, <1>2, <1>3 DEF Faithful, AnswersAreGood, LossesAreGood

(* What was asked before another packet is received.                       *)
LEMMA AskedStays ==
  ASSUME IInv, NEW q \in Queries, asked' = Append(asked, q)
  PROVE  /\ \A no \in 1..Len(asked) : asked'[no] = asked[no]
         /\ asked'[Len(asked) + 1] = q
BY DEF IInv, TypeOK

LEMMA Older ==
  ASSUME IInv, Faithful, NEW q \in Queries, asked' = Append(asked, q),
         UNCHANGED <<threads, worker, answers, lost>>
  PROVE  TasksAreGood' /\ AnswersAreGood' /\ LossesAreGood'
<1>1. \A no \in 1..Len(asked) : asked'[no] = asked[no]
      BY AskedStays
<1>2. Given \subseteq 1..Len(asked)
      BY DEF IInv, Numbers
<1>3. ASSUME NEW w \in Worker, worker[w].pc \in {"command", "reply"}
      PROVE  worker[w].no \in 1..Len(asked)
  <2>1. worker[w].no \in InHand(w)
        BY <1>3 DEF InHand
  <2> QED BY <2>1 DEF IInv, PendingIsDealt, Pending
<1>4. TasksAreGood'
  <2> SUFFICES ASSUME NEW w \in Worker PROVE GoodTask(asked'[worker[w].no], worker[w])
      BY DEF TasksAreGood, Worker
  <2>1. GoodTask(asked[worker[w].no], worker[w])
        BY DEF Faithful, TasksAreGood
  <2>2. CASE worker[w].pc \in {"command", "reply"}
        BY <1>1, <1>3, <2>1, <2>2
  <2>3. CASE worker[w].pc \notin {"command", "reply"}
        BY <2>3 DEF GoodTask
  <2> QED BY <2>2, <2>3
<1>5. AnswersAreGood'
  <2> SUFFICES ASSUME NEW i \in DOMAIN answers PROVE Sent(asked'[answers[i].to], answers[i].buf)
      BY DEF AnswersAreGood
  <2>1. answers[i].to \in 1..Len(asked)
        BY <1>2 DEF Given
  <2>2. Sent(asked[answers[i].to], answers[i].buf)
        BY DEF Faithful, AnswersAreGood
  <2> QED BY <1>1, <2>1, <2>2
<1>6. LossesAreGood'
  <2> SUFFICES ASSUME NEW l \in lost PROVE GivenUp(asked'[l.no], l.why)
      BY DEF LossesAreGood
  <2>1. l.no \in 1..Len(asked)
        BY <1>2 DEF Given
  <2>2. GivenUp(asked[l.no], l.why)
        BY DEF Faithful, LossesAreGood
  <2> QED BY <1>1, <2>1, <2>2
<1> QED BY <1>4, <1>5, <1>6

LEMMA ReceiveFaithful == IInv /\ Faithful /\ Receive => Faithful'
<1> SUFFICES ASSUME IInv, Faithful, Receive PROVE Faithful'
    OBVIOUS
<1>1. PICK q \in Queries :
        /\ asked' = Append(asked, q)
        /\ queue' = [queue EXCEPT ![current] =
             Append(@, [no |-> Len(asked) + 1, buf |-> InBuffer(ClientCells(q))])]
      BY DEF Receive
<1>2. UNCHANGED <<threads, worker, answers, lost>>
      BY DEF Receive
<1>3. TasksAreGood' /\ AnswersAreGood' /\ LossesAreGood'
      BY <1>1, <1>2, Older
<1>4. /\ \A no \in 1..Len(asked) : asked'[no] = asked[no]
      /\ asked'[Len(asked) + 1] = q
      BY <1>1, AskedStays
<1> DEFINE got == [no |-> Len(asked) + 1, buf |-> InBuffer(ClientCells(q))]
           Boxed == [no : Nat, buf : {InBuffer(ClientCells(r)) : r \in Queries}]
<1>5. QueuesHold'
  <2> SUFFICES ASSUME NEW w \in Worker, NEW i \in DOMAIN queue'[w]
               PROVE  queue'[w][i].buf = InBuffer(ClientCells(asked'[queue'[w][i].no]))
      BY <1>2 DEF QueuesHold, Worker
  <2> DEFINE old == queue[w]
  <2>1. old \in Seq(Boxed) /\ w \in DOMAIN queue
        BY DEF IInv, TypeOK, Numbers
  <2>2. ASSUME NEW j \in DOMAIN old
        PROVE  old[j].buf = InBuffer(ClientCells(asked'[old[j].no]))
    <3>1. old[j].no \in 1..Len(asked)
      <4>1. old[j].no \in Waiting(w)
            BY DEF Waiting
      <4> QED BY <4>1 DEF IInv, PendingIsDealt, Pending
    <3>2. old[j].buf = InBuffer(ClientCells(asked[old[j].no]))
          BY DEF Faithful, QueuesHold
    <3> QED BY <1>4, <3>1, <3>2
  <2>3. CASE w # current
    <3>1. queue'[w] = old
          BY <1>1, <2>1, <2>3
    <3> QED BY <2>2, <3>1
  <2>4. CASE w = current
    <3>1. queue'[w] = Append(old, got)
          BY <1>1, <2>1, <2>4
    <3>2. got.no = Len(asked) + 1 /\ got.buf = InBuffer(ClientCells(q))
          OBVIOUS
    <3> HIDE DEF old, got, Boxed
    <3>3. /\ i \in 1..(Len(old) + 1) /\ DOMAIN old = 1..Len(old) /\ Len(old) \in Nat
          /\ i <= Len(old) => queue'[w][i] = old[i]
          /\ i = Len(old) + 1 => queue'[w][i] = got
          BY <2>1, <3>1
    <3>4. CASE i <= Len(old)
          BY <2>2, <3>3, <3>4
    <3>5. CASE i = Len(old) + 1
          BY <1>4, <3>2, <3>3, <3>5
    <3> QED BY <3>3, <3>4, <3>5
  <2> QED BY <2>3, <2>4
<1> QED BY <1>3, <1>5 DEF Faithful

LEMMA ReceivePanicsFaithful == IInv /\ Faithful /\ ReceivePanics => Faithful'
<1> SUFFICES ASSUME IInv, Faithful, ReceivePanics PROVE Faithful'
    OBVIOUS
<1>1. PICK q \in Queries : asked' = Append(asked, q)
      BY DEF ReceivePanics
<1>2. UNCHANGED <<threads, queue, worker, answers, lost>> /\ threads = 0
      BY DEF ReceivePanics
<1>3. TasksAreGood' /\ AnswersAreGood' /\ LossesAreGood'
      BY <1>1, <1>2, Older
<1>4. QueuesHold'
  <2>1. Worker' = {}
        BY <1>2 DEF Worker
  <2> QED BY <2>1 DEF QueuesHold
<1> QED BY <1>3, <1>4 DEF Faithful

(* A worker's new task is for the packet it took.                          *)
LEMMA NewTask ==
  ASSUME IInv, Faithful, NEW w \in Worker, NEW t, Becomes(w, t),
         UNCHANGED <<threads, asked>>, GoodTask(asked[t.no], t)
  PROVE  TasksAreGood'
<1> SUFFICES ASSUME NEW v \in Worker PROVE GoodTask(asked[worker'[v].no], worker'[v])
    BY DEF TasksAreGood, Worker
<1>1. w \in DOMAIN worker /\ v \in DOMAIN worker
      BY DEF IInv, TypeOK
<1>2. worker' = [worker EXCEPT ![w] = t]
      BY DEF Becomes
<1>3. CASE v = w
  <2>1. worker'[v] = t
        BY <1>1, <1>2, <1>3
  <2> QED BY <2>1
<1>4. CASE v # w
  <2>1. worker'[v] = worker[v]
        BY <1>1, <1>2, <1>4
  <2> QED BY <2>1 DEF Faithful, TasksAreGood
<1> QED BY <1>3, <1>4

LEMMA MoreLost ==
  ASSUME Faithful, NEW no, NEW why, Loses(no, why), UNCHANGED asked, GivenUp(asked[no], why)
  PROVE  LossesAreGood'
<1>1. lost' = lost \cup {[no |-> no, why |-> why]}
      BY DEF Loses
<1> SUFFICES ASSUME NEW l \in lost' PROVE GivenUp(asked[l.no], l.why)
    BY DEF LossesAreGood
<1>2. CASE l \in lost
      BY <1>2 DEF Faithful, LossesAreGood
<1>3. CASE l = [no |-> no, why |-> why]
  <2>1. l.no = no /\ l.why = why
        BY <1>3
  <2> QED BY <2>1
<1> QED BY <1>1, <1>2, <1>3

LEMMA TakeFaithful ==
  ASSUME NEW w \in Worker
  PROVE  IInv /\ Faithful /\ Take(w) => Faithful'
<1> SUFFICES ASSUME IInv, Faithful, Take(w) PROVE Faithful'
    OBVIOUS
<1> DEFINE got == Head(queue[w])
           p == Request[got.buf]
           Boxed == [no : Nat, buf : {InBuffer(ClientCells(r)) : r \in Queries}]
<1>1. /\ queue[w] # <<>> /\ queue' = [queue EXCEPT ![w] = Tail(@)]
      /\ UNCHANGED <<threads, main, current, asked, answers>>
      /\ p.endless => Hangs(w, got.no)
      /\ p.failed /\ ~p.endless => Drops(w, got.no)
      /\ ~p.failed /\ ~p.endless => Handle(w, got.no, p.packet) /\ UNCHANGED lost
      BY DEF Take, Treats
<1>2. queue[w] \in Seq(Boxed) /\ w \in DOMAIN queue /\ asked \in Seq(Queries)
      BY DEF IInv, TypeOK, Numbers
<1> DEFINE old == queue[w]
           rest == Tail(old)
<1>3. /\ rest \in Seq(Boxed) /\ Len(rest) = Len(old) - 1 /\ got = old[1]
      /\ \A i \in 1..Len(rest) : rest[i] = old[i + 1]
      BY <1>1, <1>2, HeadTailProperties
<1>4. 1 \in DOMAIN old
      BY <1>1, <1>2
<1>5. got.no \in 1..Len(asked)
  <2>1. got.no \in Waiting(w)
        BY <1>3, <1>4 DEF Waiting
  <2> QED BY <2>1 DEF IInv, PendingIsDealt, Pending
<1> DEFINE q == asked[got.no]
<1>6. q \in Queries /\ got.buf = InBuffer(ClientCells(q))
  <2>1. q \in Queries
        BY <1>2, <1>5
  <2>2. got.buf = InBuffer(ClientCells(q))
        BY <1>3, <1>4 DEF Faithful, QueuesHold
  <2> QED BY <2>1, <2>2
<1>7. ~p.endless =>
        /\ ~AsksInCircle(q)
        /\ p.failed => Len(ClientCells(q)) > Size
        /\ ~p.failed => GoodRequest(q, p.packet)
  <2> HIDE DEF got, q
  <2> QED BY <1>6, RequestRead, CircleRead
<1>8. QueuesHold'
  <2> SUFFICES ASSUME NEW v \in Worker, NEW i \in DOMAIN queue'[v]
               PROVE  queue'[v][i].buf = InBuffer(ClientCells(asked[queue'[v][i].no]))
      BY <1>1 DEF QueuesHold, Worker
  <2>1. v \in DOMAIN queue
        BY DEF IInv, TypeOK
  <2>2. \A j \in DOMAIN queue[v] :
          queue[v][j].buf = InBuffer(ClientCells(asked[queue[v][j].no]))
        BY DEF Faithful, QueuesHold
  <2>3. CASE v # w
    <3>1. queue'[v] = queue[v]
          BY <1>1, <2>1, <2>3
    <3> QED BY <2>2, <3>1
  <2>4. CASE v = w
    <3>1. queue'[v] = rest
          BY <1>1, <1>2, <2>4
    <3>2. queue[v] = old
          BY <2>4
    <3> HIDE DEF rest, old, got, p, q, Boxed
    <3>3. i \in 1..Len(rest)
          BY <1>3, <3>1
    <3>4. i + 1 \in DOMAIN old /\ queue'[v][i] = old[i + 1]
      <4>1. Len(old) \in Nat /\ DOMAIN old = 1..Len(old) /\ Len(rest) \in Nat
            BY <1>2, <1>3 DEF old
      <4> QED BY <1>3, <3>1, <3>3, <4>1
    <3> QED BY <2>2, <3>2, <3>4
  <2> QED BY <2>3, <2>4
<1>9. AnswersAreGood'
      BY <1>1 DEF Faithful, AnswersAreGood
<1>10. CASE p.failed /\ ~p.endless
  <2>1. Loses(got.no, "unread") /\ UNCHANGED worker
        BY <1>1, <1>10 DEF Drops
  <2>2. GivenUp(q, "unread")
        BY <1>7, <1>10 DEF GivenUp
  <2>3. LossesAreGood'
        BY <1>1, <2>1, <2>2, MoreLost
  <2>4. TasksAreGood'
        BY <1>1, <2>1 DEF Faithful, TasksAreGood, Worker
  <2> QED BY <1>8, <1>9, <2>3, <2>4 DEF Faithful
<1>11. CASE ~p.failed /\ ~p.endless
  <2>1. Handle(w, got.no, p.packet) /\ UNCHANGED lost
        BY <1>1, <1>11
  <2>2. GoodRequest(q, p.packet) /\ IsQuery(q)
        BY <1>6, <1>7, <1>11, QueriesAre
  <2>3. PICK t : Becomes(w, t) /\ t.no = got.no /\ GoodTask(q, t)
        BY <2>1, <2>2, HandleGood
  <2>4. TasksAreGood'
        BY <1>1, <2>3, NewTask
  <2>5. LossesAreGood'
        BY <1>1, <2>1 DEF Faithful, LossesAreGood
  <2> QED BY <1>8, <1>9, <2>4, <2>5 DEF Faithful
<1>12. CASE p.endless
  <2> DEFINE t == [pc |-> "reading", no |-> got.no]
  <2>1. Becomes(w, t) /\ UNCHANGED lost
        BY <1>1, <1>12 DEF Hangs
  <2>2. t.no = got.no /\ t.pc = "reading"
        OBVIOUS
  <2> HIDE DEF t, got
  <2>3. GoodTask(asked[t.no], t)
        BY <2>2 DEF GoodTask
  <2>4. TasksAreGood'
        BY <1>1, <2>1, <2>3, NewTask
  <2>5. LossesAreGood'
        BY <1>1, <2>1 DEF Faithful, LossesAreGood
  <2> QED BY <1>8, <1>9, <2>4, <2>5 DEF Faithful
<1> QED BY <1>10, <1>11, <1>12

LEMMA CommandReturnsFaithful ==
  ASSUME NEW w \in Worker
  PROVE  IInv /\ Faithful /\ CommandReturns(w) => Faithful'
<1> SUFFICES ASSUME IInv, Faithful, CommandReturns(w) PROVE Faithful'
    OBVIOUS
<1> DEFINE no == worker[w].no
           q == asked[no]
           request == worker[w].request
<1>1. PICK parsed \in {{}} \cup {{a} : a \in Outputs} :
        Replies(w, no, Answered(request, parsed))
      BY DEF CommandReturns
<1>2. /\ worker[w].pc = "command"
      /\ UNCHANGED <<threads, main, current, queue, asked, answers, lost>>
      BY DEF CommandReturns
<1>3. Awaits(q, request) /\ ~AsksInCircle(q)
      BY <1>2 DEF Faithful, TasksAreGood, GoodTask
<1> DEFINE question == SmallLetters(q.questions[1])
<1>4. /\ GoodRequest(q, request) /\ q.questions # <<>> /\ question.type \in {TypeA, TypeAAAA}
      /\ Matching(question.name) # {} /\ FirstRule(question.name).kind = "cmd"
      BY <1>3 DEF Awaits
<1>5. /\ parsed = {} \/ \E a \in Address : parsed = {a}
      /\ MayFind(question.name, Finds(question, parsed))
  <2> HIDE DEF question
  <2> QED BY <1>4, OutputIsFound
<1>6. GoodReply(q, Answered(request, parsed))
  <2> HIDE DEF q, request
  <2> QED BY <1>4, <1>5, AnsweredGood
<1>7. PICK t : Becomes(w, t) /\ t.no = no /\ GoodTask(q, t)
      BY <1>1, <1>3, <1>6, RepliesGood
<1>8. TasksAreGood'
      BY <1>2, <1>7, NewTask
<1>9. QueuesHold' /\ AnswersAreGood' /\ LossesAreGood'
      BY <1>2 DEF Faithful, QueuesHold, AnswersAreGood, LossesAreGood, Worker
<1> QED BY <1>8, <1>9 DEF Faithful

LEMMA SendFaithful ==
  ASSUME NEW w \in Worker
  PROVE  IInv /\ Faithful /\ Send(w) => Faithful'
<1> SUFFICES ASSUME IInv, Faithful, Send(w) PROVE Faithful'
    OBVIOUS
<1> DEFINE no == worker[w].no
           packet == worker[w].packet
           q == asked[no]
           new == [to |-> no, buf |-> PacketCells(packet)]
<1>1. /\ worker[w].pc = "reply" /\ Becomes(w, [pc |-> "idle"])
      /\ UNCHANGED <<threads, main, current, queue, asked>>
      BY DEF Send
<1>2. GoodReply(q, packet) /\ ~AsksInCircle(q)
      BY <1>1 DEF Faithful, TasksAreGood, GoodTask
<1>3. no \in 1..Len(asked) /\ IsQuery(q)
  <2>1. no \in InHand(w)
        BY <1>1 DEF InHand
  <2>2. no \in 1..Len(asked)
        BY <2>1 DEF IInv, PendingIsDealt, Pending
  <2>3. asked \in Seq(Queries)
        BY DEF IInv, TypeOK
  <2> QED BY <1>2, <2>2, <2>3, QueriesAre
<1>4. TasksAreGood'
  <2> SUFFICES ASSUME NEW v \in Worker PROVE GoodTask(asked[worker'[v].no], worker'[v])
      BY <1>1 DEF TasksAreGood, Worker
  <2>1. v \in DOMAIN worker /\ w \in DOMAIN worker
        BY DEF IInv, TypeOK
  <2>2. CASE v = w
    <3>1. worker'[v].pc = "idle"
          BY <1>1, <2>1, <2>2 DEF Becomes
    <3> QED BY <3>1 DEF GoodTask
  <2>3. CASE v # w
    <3>1. worker'[v] = worker[v]
          BY <1>1, <2>1, <2>3 DEF Becomes
    <3> QED BY <3>1 DEF Faithful, TasksAreGood
  <2> QED BY <2>2, <2>3
<1>5. QueuesHold'
      BY <1>1 DEF Faithful, QueuesHold, Worker
<1>6. ASSUME UNCHANGED answers PROVE AnswersAreGood'
      BY <1>1, <1>6 DEF Faithful, AnswersAreGood
<1>7. CASE ~Fits(packet)
  <2>1. Loses(no, "unwritten") /\ UNCHANGED answers
        BY <1>7 DEF Send
  <2>2. Unfit(q)
    <3> HIDE DEF q, packet
    <3> QED BY <1>2, <1>3, <1>7, GoodReplyUnfit
  <2>3. GivenUp(q, "unwritten")
        BY <2>2 DEF GivenUp
  <2>4. LossesAreGood'
        BY <1>1, <2>1, <2>3, MoreLost
  <2> QED BY <1>4, <1>5, <1>6, <2>1, <2>4 DEF Faithful
<1>8. CASE Fits(packet) /\ Loses(no, "unsent") /\ UNCHANGED answers
  <2>1. GivenUp(q, "unsent")
        BY DEF GivenUp
  <2>2. LossesAreGood'
        BY <1>1, <1>8, <2>1, MoreLost
  <2> QED BY <1>4, <1>5, <1>6, <1>8, <2>2 DEF Faithful
<1>9. CASE Fits(packet) /\ answers' = Append(answers, new) /\ UNCHANGED lost
  <2>1. Sent(q, new.buf) /\ new.to = no
        BY <1>2, <1>9 DEF Sent
  <2>2. LossesAreGood'
        BY <1>1, <1>9 DEF Faithful, LossesAreGood
  <2>3. AnswersAreGood'
    <3> SUFFICES ASSUME NEW i \in DOMAIN answers'
                 PROVE  Sent(asked[answers'[i].to], answers'[i].buf)
        BY <1>1 DEF AnswersAreGood
    <3>1. PICK S : answers \in Seq(S)
          BY DEF IInv, Numbers
    <3> HIDE DEF new, no
    <3> DEFINE T == S \cup {new}
    <3>2. S \subseteq T /\ new \in T
          OBVIOUS
    <3> HIDE DEF T
    <3>3. answers \in Seq(T)
          BY <3>1, <3>2
    <3>4. /\ i \in 1..(Len(answers) + 1) /\ DOMAIN answers = 1..Len(answers)
          /\ Len(answers) \in Nat
          /\ i <= Len(answers) => answers'[i] = answers[i]
          /\ i = Len(answers) + 1 => answers'[i] = new
          BY <1>9, <3>2, <3>3
    <3>5. CASE i <= Len(answers)
      <4>1. i \in DOMAIN answers /\ answers'[i] = answers[i]
            BY <3>4, <3>5
      <4> QED BY <4>1 DEF Faithful, AnswersAreGood
    <3>6. CASE i = Len(answers) + 1
      <4>1. answers'[i] = new
            BY <3>4, <3>6
      <4>2. asked[new.to] = q
            BY <2>1 DEF no
      <4> QED BY <2>1, <4>1, <4>2
    <3> QED BY <3>4, <3>5, <3>6
  <2> QED BY <1>4, <1>5, <2>2, <2>3 DEF Faithful
<1> QED BY <1>7, <1>8, <1>9 DEF Send

LEMMA FaithfulStep == IInv /\ Faithful /\ [Next]_vars => Faithful'
<1> SUFFICES ASSUME IInv, Faithful, [Next]_vars PROVE Faithful'
    OBVIOUS
<1>1. CASE UNCHANGED vars
  <2>1. QueuesHold' /\ TasksAreGood'
        BY <1>1 DEF vars, Faithful, QueuesHold, TasksAreGood, Worker
  <2>2. AnswersAreGood' /\ LossesAreGood'
        BY <1>1 DEF vars, Faithful, AnswersAreGood, LossesAreGood
  <2> QED BY <2>1, <2>2 DEF Faithful
<1>2. CASE Receive \/ ReceivePanics
      BY <1>2, ReceiveFaithful, ReceivePanicsFaithful
<1>3. ASSUME NEW w \in Worker, Work(w) PROVE Faithful'
      BY <1>3, TakeFaithful, CommandReturnsFaithful, SendFaithful DEF Work
<1> QED BY <1>1, <1>2, <1>3 DEF Next

LEMMA AlwaysFaithful == Spec => [](IInv /\ Faithful)
BY Starts, Inductive, StartsFaithful, FaithfulStep, PTL DEF Spec

(* What a worker will read is what the client wrote, its names in small    *)
(* letters, whatever the packets are: every kind of record, any number of  *)
(* them, names behind pointers, and records that are stepped over.         *)
THEOREM ReadAsAsked == Spec => []ReadsWhatWasAsked
<1>1. ASSUME IInv, Faithful PROVE ReadsWhatWasAsked
  <2> SUFFICES ASSUME NEW w \in Worker, NEW i \in DOMAIN queue[w],
                      Len(ClientCells(asked[queue[w][i].no])) <= Size,
                      ~AsksInCircle(asked[queue[w][i].no])
               PROVE  /\ ~Request[queue[w][i].buf].failed
                      /\ Request[queue[w][i].buf].packet = SmallPacket(asked[queue[w][i].no])
      BY DEF ReadsWhatWasAsked
  <2> DEFINE no == queue[w][i].no
             q == asked[no]
  <2>1. no \in Waiting(w)
        BY DEF Waiting
  <2>2. no \in 1..Len(asked)
        BY <1>1, <2>1 DEF IInv, PendingIsDealt, Pending
  <2>3. asked \in Seq(Queries)
        BY <1>1 DEF IInv, TypeOK
  <2>4. q \in Queries
        BY <2>2, <2>3
  <2>5. queue[w][i].buf = InBuffer(ClientCells(q))
        BY <1>1 DEF Faithful, QueuesHold
  <2>6. Len(ClientCells(q)) <= Size /\ ~AsksInCircle(q)
        OBVIOUS
  <2> HIDE DEF q
  <2>7. ~Request[queue[w][i].buf].failed /\ Request[queue[w][i].buf].packet = SmallPacket(q)
        BY <2>4, <2>5, <2>6, RequestRead
  <2> QED BY <2>7 DEF q
<1> QED BY <1>1, AlwaysFaithful, PTL

(* What a client makes of a response to its packet.                        *)
LEMMA OutcomeRead ==
  ASSUME NEW q, NEW code, NEW qs, NEW found, Outcome(q, code, qs, found)
  PROVE  IF q.questions = <<>>
           THEN code = FORMERR /\ qs = <<>> /\ found = <<>>
           ELSE LET question == SmallLetters(q.questions[1])
                IN  /\ qs = << question >>
                    /\ \A j \in DOMAIN found : found[j].domain = question.name
                    /\ IF question.type \in {TypeA, TypeAAAA}
                         THEN /\ MayFind(question.name, found)
                              /\ code = IF found = <<>> THEN SERVFAIL ELSE NOERROR
                         ELSE code = NOTIMP /\ found = <<>>
<1>1. CASE q.questions = <<>>
      BY <1>1 DEF Outcome
<1>2. CASE q.questions # <<>>
  <2> DEFINE question == SmallLetters(q.questions[1])
  <2>1. /\ qs = << question >>
        /\ question.type \in {TypeA, TypeAAAA} =>
             /\ MayFind(question.name, found)
             /\ \/ found = <<>> /\ code = SERVFAIL
                \/ \E a \in Address : found = << AddressOf(question, a) >> /\ code = NOERROR
        /\ question.type \notin {TypeA, TypeAAAA} => code = NOTIMP /\ found = <<>>
        BY <1>2 DEF Outcome
  <2>2. ASSUME NEW r, found = << r >>
        PROVE  found # <<>> /\ \A j \in DOMAIN found : found[j] = r
        BY <2>2
  <2>3. \A a : AddressOf(question, a).domain = question.name
        BY DEF AddressOf
  <2> HIDE DEF question
  <2>4. CASE found = <<>>
    <3>1. NOERROR # SERVFAIL
          BY DEF NOERROR, SERVFAIL
    <3>2. question.type \in {TypeA, TypeAAAA} => code = SERVFAIL
      <4>1. \A a : << AddressOf(question, a) >> # found
            BY <2>2, <2>4
      <4> QED BY <2>1, <4>1
    <3>3. \A j \in DOMAIN found : found[j].domain = question.name
          BY <2>4
    <3> QED BY <1>2, <2>1, <2>4, <3>2, <3>3 DEF question
  <2>5. CASE found # <<>>
    <3>1. question.type \in {TypeA, TypeAAAA}
          BY <2>1, <2>5
    <3>2. PICK a \in Address : found = << AddressOf(question, a) >> /\ code = NOERROR
          BY <2>1, <2>5, <3>1
    <3>3. \A j \in DOMAIN found : found[j].domain = question.name
          BY <2>2, <2>3, <3>2
    <3> QED BY <1>2, <2>1, <2>5, <3>1, <3>2, <3>3 DEF question
  <2> QED BY <2>4, <2>5
<1> QED BY <1>1, <1>2

(* Every response that is sent has the id of its packet and can be read    *)
(* back, unless it answers a question for the empty name; it repeats the   *)
(* first question in small letters and says of it what the rules say.  A   *)
(* packet goes unanswered only for the reasons that AnsweredAsAsked lists, *)
(* for any queries, rules, names and output of commands and any size of    *)
(* the buffer.                                                             *)
THEOREM RepliesAsAsked == Spec => []AnsweredAsAsked
<1>1. ASSUME IInv, Faithful PROVE AnsweredAsAsked
  <2>0. asked \in Seq(Queries) /\ Given \subseteq 1..Len(asked)
        BY <1>1 DEF IInv, TypeOK, Numbers
  <2>1. ASSUME NEW i \in DOMAIN answers
        PROVE  LET q == asked[answers[i].to]
                   p == Parsed(answers[i].buf)
               IN  /\ ~AsksInCircle(q)
                   /\ p.packet.header.id = q.header.id /\ "response" \in p.packet.header.flags
                   /\ AsksForRoot(q) \/ (~p.failed /\ Belongs(p.packet, q))
    <3> DEFINE q == asked[answers[i].to]
               p == Parsed(answers[i].buf)
    <3>0. ~AsksInCircle(q)
          BY <1>1 DEF Faithful, AnswersAreGood, Sent
    <3>1. IsQuery(q)
      <4>1. answers[i].to \in 1..Len(asked)
            BY <2>0 DEF Given
      <4> QED BY <2>0, <3>0, <4>1, QueriesAre
    <3> HIDE DEF q
    <3>2. PICK packet : GoodReply(q, packet) /\ Fits(packet) /\ answers[i].buf = PacketCells(packet)
          BY <1>1 DEF Faithful, AnswersAreGood, Sent, q
    <3>3. p.packet.header = HeaderAt(answers[i].buf)
          BY DEF Parsed, FromSections
    <3> HIDE DEF p
    <3>4. /\ p.packet.header = packet.header
          /\ ~AsksForRoot(q) => ~p.failed /\ p.packet = packet
          BY <3>1, <3>2, <3>3, GoodReplyRead DEF p, IsRead
    <3>5. PICK code, qs, found :
            Outcome(q, code, qs, found) /\ packet = Answer(ReplyHeader(q.header.id, code), qs, found)
          BY <3>2 DEF GoodReply
    <3>6. /\ packet.header = ReplyHeader(q.header.id, code)
          /\ packet.questions = qs /\ packet.answers = found
          BY <3>5 DEF Answer, PacketOf
    <3>7. /\ packet.header.id = q.header.id /\ packet.header.rescode = code
          /\ "response" \in packet.header.flags
          BY <3>6 DEF ReplyHeader
    <3>8. Belongs(packet, q)
          BY <3>5, <3>6, <3>7, OutcomeRead DEF Belongs
    <3>9. ~AsksForRoot(q) => ~p.failed /\ Belongs(p.packet, q)
          BY <3>4, <3>8
    <3> QED BY <3>0, <3>4, <3>7, <3>9 DEF q, p
  <2>2. ASSUME NEW l \in lost
        PROVE  LET q == asked[l.no]
               IN  CASE l.why = "unread" -> Len(ClientCells(q)) > Size
                     [] l.why = "unwritten" ->
                          LET name == q.questions[1].name
                          IN  name \in Unwritable \/ 30 + 2 * Len(NameCells(name)) >= Size
                     [] OTHER -> TRUE
    <3>1. GivenUp(asked[l.no], l.why)
          BY <1>1 DEF Faithful, LossesAreGood
    <3>2. CASE l.why = "unread"
      <4>1. Len(ClientCells(asked[l.no])) > Size
            BY <3>1, <3>2 DEF GivenUp
      <4> QED BY <3>2, <4>1
    <3>3. CASE l.why = "unwritten"
      <4>1. Unfit(asked[l.no])
            BY <3>1, <3>3 DEF GivenUp
      <4> QED BY <3>3, <4>1 DEF Unfit
    <3>4. CASE l.why \notin {"unread", "unwritten"}
          BY <3>4
    <3> QED BY <3>2, <3>3, <3>4
  <2> QED BY <2>1, <2>2 DEF AnsweredAsAsked
<1> QED BY <1>1, AlwaysFaithful, PTL

===============================================================================
