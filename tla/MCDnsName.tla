------------------------------- MODULE MCDnsName -------------------------------
(* Small packets for DnsName: a buffer of 24 bytes with a header of 2,     *)
(* labels of at most 2 characters, small and capital letters.              *)
EXTENDS DnsPointers

Label(n)   == [i \in 1..n |-> 97]
Mixed      == <<65, 98>>

NamesOf(labels) ==
  {l : l \in labels} \cup {Joined(<<k, l>>) : k \in labels, l \in labels}

Names == NamesOf({Label(1), Label(2), Mixed})

Long == Joined(<<Mixed, Mixed, Mixed>>)

(* One or two questions; a packet that fills the buffer, one that is a     *)
(* byte too long, and a label that is too long.                            *)
OneOrTwo ==
  {<<n>> : n \in Names} \cup {<<m, n>> : m \in Names, n \in Names}
    \cup {<<Long, Joined(<<Label(1), Label(1)>>)>>, <<Long, Mixed>>, <<Label(3)>>}

(* The second name ends with the first one, its last label, or nothing; a  *)
(* datagram may be longer than the buffer.                                 *)
SharedSuffix ==
  {[first |-> Joined(<<Long, Label(1)>>), own |-> <<Label(2)>>, from |-> 2]} \cup
  {[first |-> Joined(<<k, l>>), own |-> own, from |-> i] :
     k, l \in {Label(1), Mixed}, own \in {<<>>, <<Label(2)>>}, i \in 1..3}

(* Every question of 6 bytes out of ends, labels of 1, 2 and 4 bytes and   *)
(* pointers to 0, 1, 2 and 4; and some with a label or a pointer that      *)
(* leaves the buffer.                                                      *)
AnyQuestion ==
  [1..6 -> {0, 1, 2, 4, 192}] \cup
  {<<1, 97, 193, 2, 0, 1>>, <<24, 97, 0, 0, 1>>, <<1, 97, 192, 24, 0, 1>>, <<192, 23, 0, 1>>}

===============================================================================
