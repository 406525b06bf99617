------------------------------ MODULE DnsPointers ------------------------------
(***************************************************************************)
(* The names of any packet a client may make up, read with the steps of    *)
(* DnsName: a pointer may lead to another pointer, forward, into the       *)
(* middle of a label, out of the buffer, or back to itself.  What a name   *)
(* is, and where it ends, is defined here on the packet, apart from the    *)
(* reader: by the places that its labels and pointers lead to in turn.     *)
(* The properties of DnsName are about these packets, too.                 *)
(***************************************************************************)
EXTENDS DnsName

CONSTANTS
  Crafted,  \* what may be in the buffer behind the header: a question
  MaxRead   \* bound on what is read of a name that never ends

ASSUME CraftedAssumption ==
  /\ MaxRead \in Nat
  /\ \A bytes \in Crafted : bytes \in Seq(0..255) /\ HeaderLen + Len(bytes) <= Size

-------------------------------------------------------------------------------
PointerAt(b, p) == p + 1 < Size /\ b[p] >= Pointer

LabelAt(b, p) == p < Size /\ b[p] \in 1..(Pointer - 1) /\ InRange(p + 1 + b[p])

LeadsOn(b, p) == PointerAt(b, p) \/ LabelAt(b, p)

(* The place behind a label, or the one that a pointer names.              *)
Following(b, p) ==
  CASE PointerAt(b, p) -> (b[p] - Pointer) * 256 + b[p + 1]
    [] LabelAt(b, p)   -> p + 1 + b[p]
    [] OTHER           -> p

(* The places of the name: no more than the buffer has, and one.           *)
Places(b) ==
  LET place[n \in 1..(Size + 1)] ==
        IF n = 1 THEN HeaderLen ELSE Following(b, place[n - 1])
  IN  place

(* A name that leads on from so many places has come to one of them twice. *)
Circular(b) == LeadsOn(b, Places(b)[Size + 1])

NameLabels(b) ==
  LET labels == SelectSeq(Places(b), LAMBDA p : LabelAt(b, p))
  IN  [i \in DOMAIN labels |-> SubSeq([j \in 1..(Size - 1) |-> b[j]],
                                      labels[i] + 1, labels[i] + b[labels[i]])]

(* The question goes on behind the first pointer, or the empty label.      *)
QuestionEnd(b) ==
  LET place == Places(b)
      p     == place[Min({n \in DOMAIN place : ~LabelAt(b, place[n])})]
  IN  (IF PointerAt(b, p) THEN p + 2 ELSE p + 1) + Len(TypeAndClass)

Readable(b) ==
  LET last == Places(b)[Size + 1]
  IN  last < Size /\ b[last] = 0 /\ QuestionEnd(b) <= Size

-------------------------------------------------------------------------------
(* Names are in ASCII, as in DnsName.  A question whose name leads out of  *)
(* the buffer, or round in a circle, does not end in it.                   *)
PointerInit ==
  /\ at = HeaderLen /\ jumped = FALSE /\ outstr = <<>> /\ got = <<>> /\ count = 0
  /\ pos = HeaderLen
  /\ \E bytes \in Crafted : buf = Put(bytes, HeaderLen, Blank)
  /\ \A label \in ToSet(NameLabels(buf)) : ToSet(label) \subseteq Character
  /\ IF Readable(buf)
       THEN questions = <<Joined(NameLabels(buf))>> /\ ends = <<QuestionEnd(buf)>>
       ELSE questions = <<<<>>>> /\ ends = <<Size + 1>>
  /\ todo = <<>>
  /\ stage = "reading"

(* A circle with a label in it makes outstr longer at every turn.          *)
PointerNext == Len(outstr) < MaxRead /\ Next

(* One thread writes or reads on without waiting for anything.             *)
AnyNameSpec == (Init \/ PointerInit) /\ [][PointerNext]_vars /\ WF_vars(PointerNext)

-------------------------------------------------------------------------------
(* A packet is written and read to its end, or refused, unless a name in   *)
(* it goes round in a circle: read_qname goes forward with each label, and *)
(* comes to no place twice unless the pointers of the packet lead it there *)
(* (src/dns.rs, read_qname, which looks for no circles).                   *)
EndsUnlessCircular == <>(stage \notin {"writing", "sending", "reading"} \/ Circular(buf))

===============================================================================
