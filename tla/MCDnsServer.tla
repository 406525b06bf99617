------------------------------ MODULE MCDnsServer ------------------------------
(* DnsServer with a buffer of 96 bytes: names of three bytes, one that     *)
(* makes a response fill the buffer, one a byte longer, and one with a     *)
(* label that cannot be written.                                           *)
EXTENDS DnsServer

MCName  == {"raw", "cmd", "CMD", "bad", "none", "fills", "over", "label"}
MCLower == [n \in MCName |-> IF n = "CMD" THEN "cmd" ELSE n]
MCWidth == [n \in MCName |-> CASE n = "fills" -> 33 [] n = "over" -> 34 [] OTHER -> 3]

Local   == <<10, 0, 0, 1>>
Printed == <<10, 0, 0, 2>>

(* The second rule would also match the name of the first one.             *)
MCRules ==
  <<[matches |-> {"raw", "fills", "over", "label", Root}, kind |-> "raw", address |-> {Local}],
    [matches |-> {"raw", "cmd"}, kind |-> "cmd", address |-> {}],
    [matches |-> {"bad"}, kind |-> "raw", address |-> {}]>>

HeaderOf(id) == [id |-> id, opcode |-> 0, rescode |-> 0, flags |-> {"recursion_desired"}]

Asks(id, name, type) ==
  [EmptyPacket(HeaderOf(id)) EXCEPT !.questions = <<[name |-> name, type |-> type]>>]

(* The pseudo-record that announces the size of a client's buffer.         *)
Opt == [type |-> 41, domain |-> Root, ttl |-> 0, data_len |-> 2]

RecordOf(type, name) == [type |-> type, domain |-> name, ttl |-> 70000]

(* A notification that brings records along, of all the types.             *)
Notify ==
  [Asks(300, "raw", TypeA) EXCEPT
     !.header.opcode = 4, !.header.flags = {"authoritative_answer", "authed_data"},
     !.answers     = <<RecordOf(TypeMX, "raw") @@ [priority |-> 10, host |-> "CMD"],
                       RecordOf(TypeA, "bad") @@ [addr |-> Local]>>,
     !.authorities = <<RecordOf(TypeNS, "bad") @@ [host |-> "raw"]>>,
     !.resources   = <<Opt>>]

(* The answer of another server, which went astray.                        *)
Referral ==
  [Asks(400, "CMD", TypeA) EXCEPT
     !.header.rescode = 9, !.header.flags = {"response", "recursion_available"},
     !.answers   = <<RecordOf(TypeCNAME, "CMD") @@ [host |-> "none"]>>,
     !.resources = <<RecordOf(TypeAAAA, "bad") @@ [addr |-> [i \in 1..16 |-> i]]>>]

(* A datagram that is longer than the buffer.                              *)
TooLong ==
  [Asks(500, "raw", TypeA) EXCEPT
     !.answers   = <<RecordOf(41, "bad") @@ [data_len |-> 80]>>,
     !.resources = <<Opt>>]

(* A question for the empty name, and a server that is none.               *)
ForRoot ==
  [Asks(9, Root, TypeA) EXCEPT
     !.resources = <<RecordOf(TypeMX, Root) @@ [priority |-> 0, host |-> Root]>>]

MCQueries ==
  {EmptyPacket(HeaderOf(1)), Notify, Referral, TooLong, ForRoot,
   Asks(3, "bad", TypeAAAA), Asks(4, "none", TypeA),
   Asks(5, "raw", TypeMX), Asks(6, "fills", TypeA), Asks(7, "over", TypeA),
   Asks(8, "label", TypeMX), Asks(10, Circle, TypeA)}

MCOutputs == {Printed}

===============================================================================
