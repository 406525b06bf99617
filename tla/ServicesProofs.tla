---------------------------- MODULE ServicesProofs ----------------------------
(***************************************************************************)
(* The nested vectors of src/service.rs are a table: no entry hides        *)
(* another, and every call does to the vectors what Router does to the     *)
(* table.                                                                  *)
(*                                                                         *)
(* The invariant is that names are not repeated in a vector.  It is stated *)
(* as the type of the vectors, so that what a call does to a route, to its *)
(* host and to its domain can be followed level by level: InHost,          *)
(* InDomain and InTable say which connections each level has under a key,  *)
(* and Sets... that a change of a level sets those under one key and keeps *)
(* the others.                                                             *)
(***************************************************************************)
EXTENDS Services, SequenceLemmas

(* Vectors of records that do not repeat a name.                           *)
ARoute  == [prefix : Name, connections : Seq(Conn)]
Routes  == {s \in Seq(ARoute) :
              \A i, j \in DOMAIN s : s[i].prefix = s[j].prefix => i = j}
AHost   == [host : Name, routes : Routes]
Hosts   == {s \in Seq(AHost) :
              \A i, j \in DOMAIN s : s[i].host = s[j].host => i = j}
ADomain == [domain : Name, hosts : Hosts]
Domains == {s \in Seq(ADomain) :
              \A i, j \in DOMAIN s : s[i].domain = s[j].domain => i = j}

Waits == {[is |-> "idle"]} \cup [is : {"asking"}, req : Request]
                           \cup [is : {"given"}, conn : Conn]

IInv ==
  /\ domains \in Domains
  /\ opened \subseteq Conn /\ live \subseteq Conn
  /\ granted \subseteq Preauthed
  /\ status \in [Client -> Waits]

(* The connections cs that a level has under a key.                        *)
InHost(host, p, cs) ==
  \E r \in DOMAIN host.routes :
    host.routes[r].prefix = p /\ host.routes[r].connections = cs

InDomain(domain, h, p, cs) ==
  \E x \in DOMAIN domain.hosts :
    domain.hosts[x].host = h /\ InHost(domain.hosts[x], p, cs)

InTable(doms, k, cs) ==
  \E d \in DOMAIN doms :
    doms[d].domain = k.domain /\ InDomain(doms[d], k.host, k.prefix, cs)

SetsInHost(old, new, p, v) ==
  /\ new \in AHost /\ new.host = old.host
  /\ \A q, cs : InHost(new, q, cs) <=> IF q = p THEN cs = v ELSE InHost(old, q, cs)

SetsInDomain(old, new, h, p, v) ==
  /\ new \in ADomain /\ new.domain = old.domain
  /\ \A g, q, cs : InDomain(new, g, q, cs)
       <=> IF g = h /\ q = p THEN cs = v ELSE InDomain(old, g, q, cs)

SetsInTable(old, new, d, h, p, v) ==
  /\ new \in Domains
  /\ DOMAIN new = DOMAIN old /\ \A i \in DOMAIN old : new[i].domain = old[i].domain
  /\ \A k, cs : InTable(new, k, cs)
       <=> IF k.domain = d /\ k.host = h /\ k.prefix = p
             THEN cs = v ELSE InTable(old, k, cs)

-------------------------------------------------------------------------------
(* Changing one level.                                                     *)

LEMMA RouteSets ==
  ASSUME NEW host \in AHost, NEW r \in DOMAIN host.routes, NEW v \in Seq(Conn)
  PROVE  SetsInHost(host, [host EXCEPT !.routes[r].connections = v],
                    host.routes[r].prefix, v)
<1> DEFINE new == [host EXCEPT !.routes[r].connections = v]
           s == host.routes
           t == [s EXCEPT ![r].connections = v]
<1>1. s \in Routes /\ host.host \in Name
      BY DEF AHost
<1>2. s \in Seq(ARoute) /\ \A i, j \in DOMAIN s : s[i].prefix = s[j].prefix => i = j
      BY <1>1 DEF Routes
<1>3. \A i \in DOMAIN s : s[i] \in ARoute
      BY <1>2
<1>4. [s[r] EXCEPT !.connections = v] \in ARoute
      BY <1>3 DEF ARoute
<1>5. t = [s EXCEPT ![r] = [s[r] EXCEPT !.connections = v]]
      OBVIOUS
<1>6. t \in Seq(ARoute) /\ DOMAIN t = DOMAIN s
      BY <1>2, <1>4, <1>5
<1>7. \A i \in DOMAIN s : /\ t[i].prefix = s[i].prefix
                          /\ t[i].connections = IF i = r THEN v ELSE s[i].connections
      BY <1>3, <1>5 DEF ARoute
<1>8. new = [host EXCEPT !.routes = t]
      OBVIOUS
<1> HIDE DEF t
<1>9. t \in Routes
      BY <1>2, <1>6, <1>7 DEF Routes
<1>10. new \in AHost /\ new.host = host.host /\ new.routes = t
      BY <1>1, <1>8, <1>9 DEF AHost
<1> HIDE DEF new
<1>11. ASSUME NEW q, NEW cs
       PROVE  InHost(new, q, cs) <=>
                IF q = s[r].prefix THEN cs = v ELSE InHost(host, q, cs)
  <2>1. InHost(new, q, cs) <=> \E i \in DOMAIN s : t[i].prefix = q /\ t[i].connections = cs
        BY <1>6, <1>10 DEF InHost
  <2>2. InHost(host, q, cs) <=> \E i \in DOMAIN s : s[i].prefix = q /\ s[i].connections = cs
        BY DEF InHost
  <2>3. r \in DOMAIN s
        OBVIOUS
  <2> HIDE DEF s
  <2> QED BY <2>1, <2>2, <2>3, <1>2, <1>7
<1> QED BY <1>10, <1>11 DEF SetsInHost, new, t

LEMMA HostSets ==
  ASSUME NEW domain \in ADomain, NEW x \in DOMAIN domain.hosts, NEW new, NEW p, NEW v,
         SetsInHost(domain.hosts[x], new, p, v)
  PROVE  SetsInDomain(domain, [domain EXCEPT !.hosts[x] = new],
                      domain.hosts[x].host, p, v)
<1> DEFINE dom == [domain EXCEPT !.hosts[x] = new]
           s == domain.hosts
           t == [s EXCEPT ![x] = new]
<1>1. s \in Hosts /\ domain.domain \in Name
      BY DEF ADomain
<1>2. s \in Seq(AHost) /\ \A i, j \in DOMAIN s : s[i].host = s[j].host => i = j
      BY <1>1 DEF Hosts
<1>3. /\ new \in AHost /\ new.host = s[x].host
      /\ \A q, cs : InHost(new, q, cs) <=> IF q = p THEN cs = v ELSE InHost(s[x], q, cs)
      BY DEF SetsInHost
<1>4. t \in Seq(AHost) /\ DOMAIN t = DOMAIN s
      BY <1>2, <1>3
<1>5. \A i \in DOMAIN s : t[i].host = s[i].host /\ (i # x => t[i] = s[i])
      BY <1>2, <1>3
<1>6. t[x] = new
      BY <1>2
<1>7. t \in Hosts
      BY <1>2, <1>4, <1>5 DEF Hosts
<1>8. dom = [domain EXCEPT !.hosts = t]
      OBVIOUS
<1>9. dom \in ADomain /\ dom.domain = domain.domain /\ dom.hosts = t
      BY <1>1, <1>7, <1>8 DEF ADomain
<1> HIDE DEF dom, t
<1>10. ASSUME NEW g, NEW q, NEW cs
       PROVE  InDomain(dom, g, q, cs) <=>
                IF g = s[x].host /\ q = p THEN cs = v ELSE InDomain(domain, g, q, cs)
  <2>1. InDomain(dom, g, q, cs) <=> \E i \in DOMAIN s : t[i].host = g /\ InHost(t[i], q, cs)
        BY <1>4, <1>9 DEF InDomain
  <2>2. InDomain(domain, g, q, cs) <=>
          \E i \in DOMAIN s : s[i].host = g /\ InHost(s[i], q, cs)
        BY DEF InDomain
  <2>3. x \in DOMAIN s
        OBVIOUS
  <2> HIDE DEF s
  <2> QED BY <2>1, <2>2, <2>3, <1>2, <1>3, <1>5, <1>6
<1> QED BY <1>9, <1>10 DEF SetsInDomain, dom

LEMMA DomainSets ==
  ASSUME NEW doms \in Domains, NEW d \in DOMAIN doms, NEW new, NEW h, NEW p, NEW v,
         SetsInDomain(doms[d], new, h, p, v)
  PROVE  SetsInTable(doms, [doms EXCEPT ![d] = new], doms[d].domain, h, p, v)
<1> DEFINE t == [doms EXCEPT ![d] = new]
<1>1. doms \in Seq(ADomain)
      /\ \A i, j \in DOMAIN doms : doms[i].domain = doms[j].domain => i = j
      BY DEF Domains
<1>2. /\ new \in ADomain /\ new.domain = doms[d].domain
      /\ \A g, q, cs : InDomain(new, g, q, cs)
           <=> IF g = h /\ q = p THEN cs = v ELSE InDomain(doms[d], g, q, cs)
      BY DEF SetsInDomain
<1>3. t \in Seq(ADomain) /\ DOMAIN t = DOMAIN doms
      BY <1>1, <1>2
<1>4. \A i \in DOMAIN doms : t[i].domain = doms[i].domain /\ (i # d => t[i] = doms[i])
      BY <1>1, <1>2
<1>5. t[d] = new
      BY <1>1
<1>6. t \in Domains
      BY <1>1, <1>3, <1>4 DEF Domains
<1> HIDE DEF t
<1>7. ASSUME NEW k, NEW cs
      PROVE  InTable(t, k, cs) <=>
               IF k.domain = doms[d].domain /\ k.host = h /\ k.prefix = p
                 THEN cs = v ELSE InTable(doms, k, cs)
  <2>1. InTable(t, k, cs) <=>
          \E i \in DOMAIN doms :
            t[i].domain = k.domain /\ InDomain(t[i], k.host, k.prefix, cs)
        BY <1>3 DEF InTable
  <2>2. InTable(doms, k, cs) <=>
          \E i \in DOMAIN doms :
            doms[i].domain = k.domain /\ InDomain(doms[i], k.host, k.prefix, cs)
        BY DEF InTable
  <2> QED BY <2>1, <2>2, <1>1, <1>2, <1>4, <1>5
<1> QED BY <1>3, <1>4, <1>6, <1>7 DEF SetsInTable, t

-------------------------------------------------------------------------------
(* Finding and pushing.                                                    *)

RouteIndex(routes, p) == SelectInSeq(routes, LAMBDA r : r.prefix = p)
HostIndex(hosts, h)   == SelectInSeq(hosts, LAMBDA x : x.host = h)

LEMMA LeastIsIn ==
  ASSUME NEW I \in SUBSET Nat, I # {}
  PROVE  Min(I) \in I
  BY LeastNat DEF Min

LEMMA RouteIndexIs ==
  ASSUME NEW s, Len(s) \in Nat, NEW p
  PROVE  /\ RouteIndex(s, p) # 0 =>
              RouteIndex(s, p) \in 1..Len(s) /\ s[RouteIndex(s, p)].prefix = p
         /\ RouteIndex(s, p) = 0 => \A i \in 1..Len(s) : s[i].prefix # p
<1> DEFINE I == {i \in 1..Len(s) : s[i].prefix = p}
<1>1. RouteIndex(s, p) = IF I # {} THEN Min(I) ELSE 0
      BY DEF RouteIndex, SelectInSeq
<1>2. I # {} => Min(I) \in I
      BY LeastIsIn
<1> QED BY <1>1, <1>2

LEMMA HostIndexIs ==
  ASSUME NEW s, Len(s) \in Nat, NEW h
  PROVE  /\ HostIndex(s, h) # 0 =>
              HostIndex(s, h) \in 1..Len(s) /\ s[HostIndex(s, h)].host = h
         /\ HostIndex(s, h) = 0 => \A i \in 1..Len(s) : s[i].host # h
<1> DEFINE I == {i \in 1..Len(s) : s[i].host = h}
<1>1. HostIndex(s, h) = IF I # {} THEN Min(I) ELSE 0
      BY DEF HostIndex, SelectInSeq
<1>2. I # {} => Min(I) \in I
      BY LeastIsIn
<1> QED BY <1>1, <1>2

LEMMA DomainIndexIs ==
  ASSUME NEW s, Len(s) \in Nat, NEW p
  PROVE  /\ DomainIndex(s, p) # 0 =>
              DomainIndex(s, p) \in 1..Len(s) /\ s[DomainIndex(s, p)].domain = p.domain
         /\ DomainIndex(s, p) = 0 => \A i \in 1..Len(s) : s[i].domain # p.domain
<1> DEFINE I == {i \in 1..Len(s) : s[i].domain = p.domain}
<1>1. DomainIndex(s, p) = IF I # {} THEN Min(I) ELSE 0
      BY DEF DomainIndex, SelectInSeq
<1>2. I # {} => Min(I) \in I
      BY LeastIsIn, SMTT(30)
<1> QED BY <1>1, <1>2

(* A route is pushed for a prefix no route has.                            *)
LEMMA PushRoute ==
  ASSUME NEW host \in AHost, NEW p \in Name,
         \A i \in DOMAIN host.routes : host.routes[i].prefix # p
  PROVE  LET new == [host EXCEPT !.routes = Append(@, ServiceRoute(p))]
         IN  /\ new \in AHost /\ new.host = host.host
             /\ new.routes = Append(host.routes, ServiceRoute(p))
             /\ \A q, cs : q # p => (InHost(new, q, cs) <=> InHost(host, q, cs))
<1> DEFINE s == host.routes
           t == Append(s, ServiceRoute(p))
           new == [host EXCEPT !.routes = t]
<1>1. /\ s \in Seq(ARoute) /\ \A i, j \in DOMAIN s : s[i].prefix = s[j].prefix => i = j
      /\ host.host \in Name
      BY DEF AHost, Routes
<1>2. ServiceRoute(p) \in ARoute /\ ServiceRoute(p).prefix = p
      BY DEF ServiceRoute, ARoute
<1>3. /\ t \in Seq(ARoute) /\ Len(t) = Len(s) + 1 /\ t[Len(s) + 1] = ServiceRoute(p)
      /\ \A i \in 1..Len(s) : t[i] = s[i]
      BY <1>1, <1>2, AppendProperties
<1>4. DOMAIN s = 1..Len(s) /\ DOMAIN t = 1..(Len(s) + 1) /\ Len(s) \in Nat
      BY <1>1, <1>3
<1>5. new.host = host.host /\ new.routes = t /\ (t \in Routes => new \in AHost)
      BY <1>1 DEF AHost
<1>6. \A i \in DOMAIN s : s[i].prefix # p
      OBVIOUS
<1> HIDE DEF t, s, new
<1>7. t \in Routes
  <2>1. \A i, j \in DOMAIN t : t[i].prefix = t[j].prefix => i = j
        BY <1>1, <1>2, <1>3, <1>4, <1>6
  <2> QED BY <1>3, <2>1 DEF Routes
<1>8. ASSUME NEW q, NEW cs, q # p PROVE InHost(new, q, cs) <=> InHost(host, q, cs)
  <2>1. InHost(new, q, cs) <=> \E i \in DOMAIN t : t[i].prefix = q /\ t[i].connections = cs
        BY <1>5 DEF InHost
  <2>2. InHost(host, q, cs) <=> \E i \in DOMAIN s : s[i].prefix = q /\ s[i].connections = cs
        BY DEF InHost, s
  <2> QED BY <2>1, <2>2, <1>2, <1>3, <1>4, <1>8
<1> QED BY <1>5, <1>7, <1>8 DEF new, t, s

(* A host without routes is pushed for a name no host has.                 *)
LEMMA PushHost ==
  ASSUME NEW domain \in ADomain, NEW h \in Name,
         \A i \in DOMAIN domain.hosts : domain.hosts[i].host # h
  PROVE  LET new == [domain EXCEPT !.hosts = Append(@, ServiceHost(h))]
         IN  /\ new \in ADomain /\ new.domain = domain.domain
             /\ new.hosts = Append(domain.hosts, ServiceHost(h))
             /\ \A g, q, cs : InDomain(new, g, q, cs) <=> InDomain(domain, g, q, cs)
<1> DEFINE s == domain.hosts
           t == Append(s, ServiceHost(h))
           new == [domain EXCEPT !.hosts = t]
<1>1. /\ s \in Seq(AHost) /\ \A i, j \in DOMAIN s : s[i].host = s[j].host => i = j
      /\ domain.domain \in Name
      BY DEF ADomain, Hosts
<1>2. /\ ServiceHost(h) \in AHost /\ ServiceHost(h).host = h
      /\ \A q, cs : ~InHost(ServiceHost(h), q, cs)
  <2>1. <<>> \in Routes
        BY EmptySeq DEF Routes
  <2> QED BY <2>1 DEF ServiceHost, AHost, InHost
<1>3. /\ t \in Seq(AHost) /\ Len(t) = Len(s) + 1 /\ t[Len(s) + 1] = ServiceHost(h)
      /\ \A i \in 1..Len(s) : t[i] = s[i]
      BY <1>1, <1>2, AppendProperties
<1>4. DOMAIN s = 1..Len(s) /\ DOMAIN t = 1..(Len(s) + 1) /\ Len(s) \in Nat
      BY <1>1, <1>3
<1>5. new.domain = domain.domain /\ new.hosts = t /\ (t \in Hosts => new \in ADomain)
      BY <1>1 DEF ADomain
<1>6. \A i \in DOMAIN s : s[i].host # h
      OBVIOUS
<1> HIDE DEF t, s, new
<1>7. t \in Hosts
  <2>1. \A i, j \in DOMAIN t : t[i].host = t[j].host => i = j
        BY <1>1, <1>2, <1>3, <1>4, <1>6
  <2> QED BY <1>3, <2>1 DEF Hosts
<1>8. ASSUME NEW g, NEW q, NEW cs
      PROVE  InDomain(new, g, q, cs) <=> InDomain(domain, g, q, cs)
  <2>1. InDomain(new, g, q, cs) <=> \E i \in DOMAIN t : t[i].host = g /\ InHost(t[i], q, cs)
        BY <1>5 DEF InDomain
  <2>2. InDomain(domain, g, q, cs) <=>
          \E i \in DOMAIN s : s[i].host = g /\ InHost(s[i], q, cs)
        BY DEF InDomain, s
  <2> QED BY <2>1, <2>2, <1>2, <1>3, <1>4
<1> QED BY <1>5, <1>7, <1>8 DEF new, t, s

-------------------------------------------------------------------------------
(* Registering.  The connection is appended to what was there.             *)

Grows(v, c, had) ==
  \/ \E cs \in had : v = Append(cs, c)
  \/ had = {} /\ v = <<c>>

OfHost(host, p)      == {cs \in Seq(Conn) : InHost(host, p, cs)}
OfDomain(domain, p)  == {cs \in Seq(Conn) : InDomain(domain, p.host, p.prefix, cs)}
OfTable(doms, p)     == {cs \in Seq(Conn) : InTable(doms, p, cs)}

LEMMA AppendRouteSets ==
  ASSUME NEW host \in AHost, NEW r \in DOMAIN host.routes, NEW c \in Conn
  PROVE  /\ host.routes[r].connections \in Seq(Conn)
         /\ SetsInHost(host, [host EXCEPT !.routes[r].connections = Append(@, c)],
                       host.routes[r].prefix, Append(host.routes[r].connections, c))
<1>1. host.routes \in Seq(ARoute)
      BY DEF AHost, Routes
<1>2. host.routes[r] \in ARoute
      BY <1>1
<1>3. host.routes[r].connections \in Seq(Conn)
      BY <1>2 DEF ARoute
<1>4. Append(host.routes[r].connections, c) \in Seq(Conn)
      BY <1>3
<1>5. [host EXCEPT !.routes[r].connections = Append(@, c)]
        = [host EXCEPT !.routes[r].connections = Append(host.routes[r].connections, c)]
      OBVIOUS
<1> QED BY <1>3, <1>4, <1>5, RouteSets

LEMMA AddToHostSets ==
  ASSUME NEW host \in AHost, NEW p \in Preauthed, NEW c \in Conn
  PROVE  \E v : /\ SetsInHost(host, AddToHost(host, p, c), p.prefix, v)
                /\ Grows(v, c, OfHost(host, p.prefix))
<1> DEFINE s == host.routes
           i == RouteIndex(s, p.prefix)
           t == IF i = 0 THEN Append(s, ServiceRoute(p.prefix)) ELSE s
           j == RouteIndex(t, p.prefix)
<1>1. /\ s \in Seq(ARoute) /\ \A m, n \in DOMAIN s : s[m].prefix = s[n].prefix => m = n
      /\ p.prefix \in Name
      BY NamesAssumption DEF AHost, Routes
<1>2. AddToHost(host, p, c)
        = [host EXCEPT !.routes = [t EXCEPT ![j].connections = Append(@, c)]]
      BY DEF AddToHost, FindOrPush, RouteIndex
<1>3. DOMAIN s = 1..Len(s) /\ Len(s) \in Nat
      BY <1>1
<1>4. CASE i # 0
  <2>1. t = s /\ j = i /\ j \in DOMAIN s /\ s[j].prefix = p.prefix
        BY <1>3, <1>4, RouteIndexIs
  <2>2. AddToHost(host, p, c) = [host EXCEPT !.routes[j].connections = Append(@, c)]
        BY <1>2, <2>1
  <2> DEFINE old == s[j].connections
             v == Append(old, c)
  <2>3. old \in Seq(Conn) /\ SetsInHost(host, AddToHost(host, p, c), p.prefix, v)
    <3>1. j \in DOMAIN host.routes
          BY <2>1
    <3>2. /\ host.routes[j].connections \in Seq(Conn)
          /\ SetsInHost(host, [host EXCEPT !.routes[j].connections = Append(@, c)],
                        host.routes[j].prefix, Append(host.routes[j].connections, c))
          BY <3>1, AppendRouteSets, ZenonT(60)
    <3> QED BY <2>1, <2>2, <3>2
  <2>4. InHost(host, p.prefix, old)
        BY <2>1 DEF InHost
  <2>5. Grows(v, c, OfHost(host, p.prefix))
        BY <2>3, <2>4 DEF Grows, OfHost
  <2> QED BY <2>3, <2>5
<1>5. CASE i = 0
  <2> DEFINE mid == [host EXCEPT !.routes = Append(@, ServiceRoute(p.prefix))]
  <2>1. \A n \in DOMAIN s : s[n].prefix # p.prefix
        BY <1>3, <1>5, RouteIndexIs
  <2>2. /\ mid \in AHost /\ mid.host = host.host /\ mid.routes = t
        /\ \A q, cs : q # p.prefix => (InHost(mid, q, cs) <=> InHost(host, q, cs))
        BY <1>1, <1>5, <2>1, PushRoute, ZenonT(60)
  <2>3. t \in Seq(ARoute) /\ \A m, n \in DOMAIN t : t[m].prefix = t[n].prefix => m = n
        BY <2>2 DEF AHost, Routes
  <2>4. /\ Len(s) + 1 \in DOMAIN t /\ t[Len(s) + 1] = ServiceRoute(p.prefix)
        /\ DOMAIN t = 1..Len(t) /\ Len(t) \in Nat
    <3>1. ServiceRoute(p.prefix) \in ARoute
          BY <1>1, EmptySeq DEF ServiceRoute, ARoute
    <3> QED BY <1>1, <1>5, <3>1, AppendProperties
  <2>5. ServiceRoute(p.prefix).prefix = p.prefix
        /\ ServiceRoute(p.prefix).connections = <<>>
        BY DEF ServiceRoute
  <2>6. t[Len(s) + 1].prefix = p.prefix
        BY <2>4, <2>5
  <2>7. j \in DOMAIN t /\ t[j].prefix = p.prefix
    <3> HIDE DEF t
    <3>1. j # 0
          BY <2>4, <2>6, RouteIndexIs
    <3> QED BY <2>4, <3>1, RouteIndexIs
  <2>8. j = Len(s) + 1
        BY <2>3, <2>4, <2>5, <2>7
  <2>9. t[j].connections = <<>>
        BY <2>4, <2>5, <2>8
  <2>10. AddToHost(host, p, c) = [mid EXCEPT !.routes[j].connections = Append(@, c)]
    <3>1. [host EXCEPT !.routes = [t EXCEPT ![j].connections = Append(@, c)]]
            = [mid EXCEPT !.routes = [t EXCEPT ![j].connections = Append(@, c)]]
          BY <2>2 DEF AHost
    <3> QED BY <1>2, <2>2, <3>1
  <2> HIDE DEF mid, t, j
  <2>11. SetsInHost(mid, AddToHost(host, p, c), p.prefix, Append(<<>>, c))
    <3>1. j \in DOMAIN mid.routes
          BY <2>2, <2>7
    <3>2. mid.routes[j].prefix = p.prefix /\ mid.routes[j].connections = <<>>
          BY <2>2, <2>7, <2>9
    <3>3. SetsInHost(mid, [mid EXCEPT !.routes[j].connections = Append(@, c)],
                     mid.routes[j].prefix, Append(mid.routes[j].connections, c))
          BY <2>2, <3>1, AppendRouteSets
    <3> QED BY <2>10, <3>2, <3>3
  <2>12. SetsInHost(host, AddToHost(host, p, c), p.prefix, <<c>>)
    <3>1. Append(<<>>, c) = <<c>>
          OBVIOUS
    <3> QED BY <2>2, <2>11, <3>1 DEF SetsInHost
  <2>13. OfHost(host, p.prefix) = {}
         BY <2>1 DEF OfHost, InHost
  <2> QED BY <2>12, <2>13 DEF Grows
<1> QED BY <1>4, <1>5

LEMMA SetHostSets ==
  ASSUME NEW domain \in ADomain, NEW x \in DOMAIN domain.hosts,
         NEW p \in Preauthed, domain.hosts[x].host = p.host, NEW c \in Conn
  PROVE  \E v : /\ SetsInDomain(domain, [domain EXCEPT !.hosts[x] = AddToHost(@, p, c)],
                                p.host, p.prefix, v)
                /\ Grows(v, c, OfDomain(domain, p))
<1> DEFINE host == domain.hosts[x]
           new == AddToHost(host, p, c)
<1>1. /\ domain.hosts \in Seq(AHost)
      /\ \A i, j \in DOMAIN domain.hosts :
           domain.hosts[i].host = domain.hosts[j].host => i = j
      BY DEF ADomain, Hosts
<1>2. host \in AHost
      BY <1>1
<1>3. PICK v : SetsInHost(host, new, p.prefix, v) /\ Grows(v, c, OfHost(host, p.prefix))
      BY <1>2, AddToHostSets
<1>4. [domain EXCEPT !.hosts[x] = AddToHost(@, p, c)] = [domain EXCEPT !.hosts[x] = new]
      OBVIOUS
<1> HIDE DEF new
<1>5. SetsInDomain(domain, [domain EXCEPT !.hosts[x] = new], p.host, p.prefix, v)
      BY <1>3, HostSets
<1>6. OfDomain(domain, p) = OfHost(host, p.prefix)
  <2>1. \A cs : InDomain(domain, p.host, p.prefix, cs) <=> InHost(host, p.prefix, cs)
        BY <1>1 DEF InDomain
  <2> QED BY <2>1 DEF OfDomain, OfHost
<1> QED BY <1>3, <1>4, <1>5, <1>6

LEMMA AddToDomainSets ==
  ASSUME NEW domain \in ADomain, NEW p \in Preauthed, NEW c \in Conn
  PROVE  \E v : /\ SetsInDomain(domain, AddToDomain(domain, p, c), p.host, p.prefix, v)
                /\ Grows(v, c, OfDomain(domain, p))
<1> DEFINE s == domain.hosts
           i == HostIndex(s, p.host)
           t == IF i = 0 THEN Append(s, ServiceHost(p.host)) ELSE s
           j == HostIndex(t, p.host)
           mid == [domain EXCEPT !.hosts = t]
<1>1. s \in Seq(AHost) /\ p.host \in Name
      BY NamesAssumption DEF ADomain, Hosts
<1>2. AddToDomain(domain, p, c)
        = [domain EXCEPT !.hosts = [t EXCEPT ![j] = AddToHost(@, p, c)]]
      BY DEF AddToDomain, FindOrPush, HostIndex
<1>3. DOMAIN s = 1..Len(s) /\ Len(s) \in Nat
      BY <1>1
<1>4. /\ mid \in ADomain /\ mid.domain = domain.domain /\ mid.hosts = t
      /\ \A g, q, cs : InDomain(mid, g, q, cs) <=> InDomain(domain, g, q, cs)
  <2>1. CASE i = 0
    <3>1. \A n \in DOMAIN s : s[n].host # p.host
          BY <1>3, <2>1, HostIndexIs
    <3>2. mid = [domain EXCEPT !.hosts = Append(@, ServiceHost(p.host))]
          BY <2>1
    <3> QED BY <1>1, <2>1, <3>1, <3>2, PushHost, ZenonT(60)
  <2>2. CASE i # 0
    <3>1. mid = domain /\ t = s
          BY <2>2 DEF ADomain
    <3> QED BY <3>1
  <2> QED BY <2>1, <2>2
<1>5. j \in DOMAIN t /\ t[j].host = p.host
  <2>1. \E n \in DOMAIN t : t[n].host = p.host
    <3>1. CASE i # 0
          BY <1>3, <3>1, HostIndexIs
    <3>2. CASE i = 0
      <4>1. ServiceHost(p.host) \in AHost /\ ServiceHost(p.host).host = p.host
        <5>1. <<>> \in Routes
              BY EmptySeq DEF Routes
        <5> QED BY <1>1, <5>1 DEF ServiceHost, AHost
      <4>2. Len(s) + 1 \in DOMAIN t /\ t[Len(s) + 1] = ServiceHost(p.host)
            BY <1>1, <3>2, <4>1, AppendProperties
      <4> QED BY <4>1, <4>2
    <3> QED BY <3>1, <3>2
  <2>2. t \in Seq(AHost)
        BY <1>4 DEF ADomain, Hosts
  <2>3. DOMAIN t = 1..Len(t) /\ Len(t) \in Nat
        BY <2>2
  <2> HIDE DEF t
  <2> QED BY <2>1, <2>3, HostIndexIs
<1>6. AddToDomain(domain, p, c) = [mid EXCEPT !.hosts[j] = AddToHost(@, p, c)]
  <2>1. [domain EXCEPT !.hosts = [t EXCEPT ![j] = AddToHost(@, p, c)]]
          = [mid EXCEPT !.hosts = [t EXCEPT ![j] = AddToHost(@, p, c)]]
        BY <1>4 DEF ADomain
  <2> QED BY <1>2, <1>4, <2>1
<1> HIDE DEF mid, t, j
<1>7. PICK v : /\ SetsInDomain(mid, AddToDomain(domain, p, c), p.host, p.prefix, v)
               /\ Grows(v, c, OfDomain(mid, p))
      BY <1>4, <1>5, <1>6, SetHostSets
<1>8. OfDomain(mid, p) = OfDomain(domain, p)
      BY <1>4 DEF OfDomain
<1>9. SetsInDomain(domain, AddToDomain(domain, p, c), p.host, p.prefix, v)
      BY <1>4, <1>7 DEF SetsInDomain
<1> QED BY <1>7, <1>8, <1>9

LEMMA AddSets ==
  ASSUME NEW doms \in Domains, NEW p \in Preauthed, NEW c \in Conn, DomainIndex(doms, p) # 0
  PROVE  \E v : /\ SetsInTable(doms,
                     [doms EXCEPT ![DomainIndex(doms, p)] = AddToDomain(@, p, c)],
                     p.domain, p.host, p.prefix, v)
                /\ Grows(v, c, OfTable(doms, p))
<1> DEFINE d == DomainIndex(doms, p)
           new == AddToDomain(doms[d], p, c)
<1>1. /\ doms \in Seq(ADomain)
      /\ \A i, j \in DOMAIN doms : doms[i].domain = doms[j].domain => i = j
      BY DEF Domains
<1>2. DOMAIN doms = 1..Len(doms) /\ Len(doms) \in Nat
      BY <1>1
<1>3. d \in DOMAIN doms /\ doms[d].domain = p.domain
      BY <1>2, DomainIndexIs
<1>4. doms[d] \in ADomain
      BY <1>1, <1>3
<1>5. PICK v : SetsInDomain(doms[d], new, p.host, p.prefix, v)
               /\ Grows(v, c, OfDomain(doms[d], p))
      BY <1>4, AddToDomainSets
<1>6. [doms EXCEPT ![d] = AddToDomain(@, p, c)] = [doms EXCEPT ![d] = new]
      OBVIOUS
<1> HIDE DEF new, d
<1>7. SetsInTable(doms, [doms EXCEPT ![d] = new], p.domain, p.host, p.prefix, v)
      BY <1>3, <1>5, DomainSets
<1>8. OfTable(doms, p) = OfDomain(doms[d], p)
  <2>1. \A cs : InTable(doms, p, cs) <=> InDomain(doms[d], p.host, p.prefix, cs)
        BY <1>1, <1>3 DEF InTable
  <2> QED BY <2>1 DEF OfTable, OfDomain
<1> QED BY <1>5, <1>6, <1>7, <1>8 DEF d

-------------------------------------------------------------------------------
(* The table of a vector.                                                  *)

Keys == [domain : Name, host : Name, prefix : Name]

IsEntry(doms, d, h, r) ==
  /\ d \in DOMAIN doms /\ h \in DOMAIN doms[d].hosts
  /\ r \in DOMAIN doms[d].hosts[h].routes

EntriesOf(doms) ==
  UNION {UNION {{<<d, h, r>> : r \in DOMAIN doms[d].hosts[h].routes} :
    h \in DOMAIN doms[d].hosts} : d \in DOMAIN doms}

KeyIn(doms, e) ==
  [domain |-> doms[e[1]].domain,
   host   |-> doms[e[1]].hosts[e[2]].host,
   prefix |-> doms[e[1]].hosts[e[2]].routes[e[3]].prefix]

ListIn(doms, e) == doms[e[1]].hosts[e[2]].routes[e[3]].connections

FlatOf(doms) ==
  [k \in {KeyIn(doms, e) : e \in EntriesOf(doms)} |->
     ListIn(doms, CHOOSE e \in EntriesOf(doms) : KeyIn(doms, e) = k)]

ConfigOf(doms) == [i \in DOMAIN doms |-> doms[i].domain]

LEMMA SameEntries ==
  /\ Entries = EntriesOf(domains) /\ Entries' = EntriesOf(domains')
  /\ \A e : KeyOf(e) = KeyIn(domains, e)
  BY DEF Entries, EntriesOf, KeyOf, KeyIn

LEMMA SameFlat ==
  Flat = FlatOf(domains) /\ Flat' = FlatOf(domains')
  BY DEF Flat, FlatOf, Entries, EntriesOf, KeyOf, KeyIn, ListIn

LEMMA EntryIs ==
  ASSUME NEW doms
  PROVE  \A e : e \in EntriesOf(doms)
                  <=> \E d, h, r : e = <<d, h, r>> /\ IsEntry(doms, d, h, r)
  BY DEF EntriesOf, IsEntry

LEMMA EntryTypes ==
  ASSUME NEW doms \in Domains, NEW d, NEW h, NEW r, IsEntry(doms, d, h, r)
  PROVE  /\ d \in Nat /\ h \in Nat /\ r \in Nat
         /\ doms[d] \in ADomain /\ doms[d].hosts[h] \in AHost
         /\ doms[d].hosts[h].routes[r] \in ARoute
         /\ KeyIn(doms, <<d, h, r>>) \in Keys /\ ListIn(doms, <<d, h, r>>) \in Seq(Conn)
<1>1. doms \in Seq(ADomain) /\ d \in DOMAIN doms
      BY DEF Domains, IsEntry
<1>2. d \in Nat /\ doms[d] \in ADomain
      BY <1>1
<1>3. doms[d].hosts \in Seq(AHost) /\ h \in DOMAIN doms[d].hosts
      BY <1>2 DEF ADomain, Hosts, IsEntry
<1>4. h \in Nat /\ doms[d].hosts[h] \in AHost
      BY <1>3
<1>5. doms[d].hosts[h].routes \in Seq(ARoute) /\ r \in DOMAIN doms[d].hosts[h].routes
      BY <1>4 DEF AHost, Routes, IsEntry
<1>6. r \in Nat /\ doms[d].hosts[h].routes[r] \in ARoute
      BY <1>5, SMTT(30)
<1> QED BY <1>2, <1>4, <1>6 DEF ADomain, AHost, ARoute, KeyIn, Keys, ListIn

(* No two entries have the same key.                                       *)
LEMMA EntriesDistinct ==
  ASSUME NEW doms \in Domains, NEW d, NEW h, NEW r, IsEntry(doms, d, h, r),
         NEW x, NEW y, NEW z, IsEntry(doms, x, y, z),
         KeyIn(doms, <<d, h, r>>) = KeyIn(doms, <<x, y, z>>)
  PROVE  d = x /\ h = y /\ r = z
<1>1. /\ doms[d].domain = doms[x].domain
      /\ doms[d].hosts[h].host = doms[x].hosts[y].host
      /\ doms[d].hosts[h].routes[r].prefix = doms[x].hosts[y].routes[z].prefix
      BY DEF KeyIn
<1>2. d = x
      BY <1>1 DEF Domains, IsEntry
<1>3. doms[d] \in ADomain /\ doms[d].hosts[h] \in AHost
      BY EntryTypes
<1>4. h = y
      BY <1>1, <1>2, <1>3 DEF ADomain, Hosts, IsEntry
<1>5. r = z
      BY <1>1, <1>2, <1>3, <1>4 DEF AHost, Routes, IsEntry
<1> QED BY <1>2, <1>4, <1>5

(* An entry that has the list cs under the key k.                          *)
Has(doms, k, cs, d, h, r) ==
  /\ IsEntry(doms, d, h, r)
  /\ KeyIn(doms, <<d, h, r>>) = k
  /\ ListIn(doms, <<d, h, r>>) = cs

LEMMA InTableIs ==
  ASSUME NEW doms, NEW k \in Keys, NEW cs
  PROVE  InTable(doms, k, cs) <=> \E d, h, r : Has(doms, k, cs, d, h, r)
<1>1. ASSUME NEW d, NEW h, NEW r
      PROVE  Has(doms, k, cs, d, h, r) <=>
               /\ IsEntry(doms, d, h, r)
               /\ doms[d].domain = k.domain
               /\ doms[d].hosts[h].host = k.host
               /\ doms[d].hosts[h].routes[r].prefix = k.prefix
               /\ doms[d].hosts[h].routes[r].connections = cs
  <2>1. KeyIn(doms, <<d, h, r>>) = k <=> /\ doms[d].domain = k.domain
                                         /\ doms[d].hosts[h].host = k.host
                                         /\ doms[d].hosts[h].routes[r].prefix = k.prefix
        BY DEF KeyIn, Keys
  <2>2. ListIn(doms, <<d, h, r>>) = doms[d].hosts[h].routes[r].connections
        BY DEF ListIn
  <2> QED BY <2>1, <2>2 DEF Has
<1>2. InTable(doms, k, cs) <=>
        \E d, h, r : /\ IsEntry(doms, d, h, r)
                     /\ doms[d].domain = k.domain
                     /\ doms[d].hosts[h].host = k.host
                     /\ doms[d].hosts[h].routes[r].prefix = k.prefix
                     /\ doms[d].hosts[h].routes[r].connections = cs
      BY DEF InTable, InDomain, InHost, IsEntry
<1> QED BY <1>1, <1>2

LEMMA FlatIs ==
  ASSUME NEW doms \in Domains
  PROVE  /\ DOMAIN FlatOf(doms) \subseteq Keys
         /\ \A k \in Keys : k \in DOMAIN FlatOf(doms) <=> \E cs : InTable(doms, k, cs)
         /\ \A k \in Keys : \A cs : InTable(doms, k, cs) => FlatOf(doms)[k] = cs
         /\ \A k \in DOMAIN FlatOf(doms) :
              FlatOf(doms)[k] \in Seq(Conn) /\ InTable(doms, k, FlatOf(doms)[k])
         /\ FlatOf(doms) = [k \in DOMAIN FlatOf(doms) |-> FlatOf(doms)[k]]
<1> DEFINE f == FlatOf(doms)
           K == {KeyIn(doms, e) : e \in EntriesOf(doms)}
           At(k) == CHOOSE e \in EntriesOf(doms) : KeyIn(doms, e) = k
           List(k) == ListIn(doms, At(k))
<1>1. f = [k \in K |-> List(k)]
      BY DEF FlatOf
<1>2. \A k \in K : /\ At(k) \in EntriesOf(doms) /\ KeyIn(doms, At(k)) = k
                   /\ List(k) = ListIn(doms, At(k))
      OBVIOUS
<1>3. ASSUME NEW d, NEW h, NEW r, IsEntry(doms, d, h, r)
      PROVE  KeyIn(doms, <<d, h, r>>) \in K
  <2>1. <<d, h, r>> \in EntriesOf(doms)
        BY <1>3, EntryIs
  <2> QED BY <2>1
<1>4. ASSUME NEW k \in K
      PROVE  \E d, h, r : At(k) = <<d, h, r>> /\ Has(doms, k, List(k), d, h, r)
  <2>1. PICK d, h, r : At(k) = <<d, h, r>> /\ IsEntry(doms, d, h, r)
        BY <1>2, EntryIs
  <2> QED BY <1>2, <2>1 DEF Has
<1> HIDE DEF f, K, At, List
<1>5. DOMAIN f = K /\ \A k \in K : f[k] = List(k)
      BY <1>1
<1>6. ASSUME NEW k \in K
      PROVE  /\ k \in Keys /\ List(k) \in Seq(Conn) /\ InTable(doms, k, List(k))
  <2>1. PICK d, h, r : Has(doms, k, List(k), d, h, r)
        BY <1>4
  <2>2. k \in Keys /\ List(k) \in Seq(Conn)
        BY <2>1, EntryTypes DEF Has
  <2> QED BY <2>1, <2>2, InTableIs
<1>7. ASSUME NEW k \in Keys, NEW cs, InTable(doms, k, cs)
      PROVE  k \in K /\ List(k) = cs
  <2>1. PICK d, h, r : Has(doms, k, cs, d, h, r)
        BY <1>7, InTableIs
  <2>2. k \in K
        BY <1>3, <2>1 DEF Has
  <2>3. PICK x, y, z : Has(doms, k, List(k), x, y, z)
        BY <1>4, <2>2
  <2>4. x = d /\ y = h /\ z = r
        BY <2>1, <2>3, EntriesDistinct DEF Has
  <2> QED BY <2>1, <2>2, <2>3, <2>4 DEF Has
<1>8. f = [k \in DOMAIN f |-> f[k]]
      BY <1>1, <1>5
<1>9. K \subseteq Keys /\ \A k \in Keys : k \in K <=> \E cs : InTable(doms, k, cs)
      BY <1>6, <1>7
<1> QED BY <1>5, <1>6, <1>7, <1>8, <1>9 DEF f

(* What setting one key does to the table.                                 *)
IsSet(f, g, k, v) ==
  /\ DOMAIN g = DOMAIN f \cup {k}
  /\ g[k] = v
  /\ \A x \in DOMAIN f : x # k => g[x] = f[x]

LEMMA FlatSet ==
  ASSUME NEW old \in Domains, NEW new, NEW k \in Keys, NEW v,
         SetsInTable(old, new, k.domain, k.host, k.prefix, v)
  PROVE  IsSet(FlatOf(old), FlatOf(new), k, v) /\ ConfigOf(new) = ConfigOf(old)
<1>1. /\ new \in Domains /\ DOMAIN new = DOMAIN old
      /\ \A i \in DOMAIN old : new[i].domain = old[i].domain
      BY DEF SetsInTable
<1>2. /\ \A cs : InTable(new, k, cs) <=> cs = v
      /\ \A x \in Keys : \A cs : x # k => (InTable(new, x, cs) <=> InTable(old, x, cs))
  <2>1. \A x \in Keys : x = k <=> /\ x.domain = k.domain /\ x.host = k.host
                                  /\ x.prefix = k.prefix
        BY DEF Keys
  <2> QED BY <2>1 DEF SetsInTable
<1>3. k \in DOMAIN FlatOf(new) /\ FlatOf(new)[k] = v
  <2>1. InTable(new, k, v)
        BY <1>2
  <2> QED BY <1>1, <2>1, FlatIs
<1>4. ASSUME NEW x \in Keys, x # k
      PROVE  /\ x \in DOMAIN FlatOf(new) <=> x \in DOMAIN FlatOf(old)
             /\ x \in DOMAIN FlatOf(old) => FlatOf(new)[x] = FlatOf(old)[x]
  <2>1. \A cs : InTable(new, x, cs) <=> InTable(old, x, cs)
        BY <1>2, <1>4
  <2>2. x \in DOMAIN FlatOf(new) <=> x \in DOMAIN FlatOf(old)
        BY <1>1, <2>1, FlatIs
  <2>3. ASSUME x \in DOMAIN FlatOf(old) PROVE FlatOf(new)[x] = FlatOf(old)[x]
    <3>1. InTable(old, x, FlatOf(old)[x])
          BY <2>3, FlatIs
    <3>2. InTable(new, x, FlatOf(old)[x])
          BY <2>1, <3>1
    <3> QED BY <1>1, <3>2, FlatIs
  <2> QED BY <2>2, <2>3
<1>5. DOMAIN FlatOf(new) \subseteq Keys /\ DOMAIN FlatOf(old) \subseteq Keys
      BY <1>1, FlatIs
<1>6. ConfigOf(new) = ConfigOf(old)
      BY <1>1 DEF ConfigOf
<1> QED BY <1>3, <1>4, <1>5, <1>6 DEF IsSet

(* Registering is the table's Registered.                                  *)
LEMMA FlatGrows ==
  ASSUME NEW old \in Domains, NEW p \in Preauthed, NEW c \in Conn, NEW new, NEW v,
         SetsInTable(old, new, p.domain, p.host, p.prefix, v),
         Grows(v, c, OfTable(old, p))
  PROVE  /\ new \in Domains /\ ConfigOf(new) = ConfigOf(old)
         /\ FlatOf(new) = Registered(FlatOf(old), p, c)
<1> DEFINE f == FlatOf(old)
           g == FlatOf(new)
<1>1. p \in Keys
      BY NamesAssumption DEF Keys
<1>2. IsSet(f, g, p, v) /\ ConfigOf(new) = ConfigOf(old)
      BY <1>1, FlatSet, Zenon
<1>3. v = Append(Connections(f, p), c)
  <2>1. CASE p \in DOMAIN f
    <3>1. f[p] \in Seq(Conn) /\ InTable(old, p, f[p])
          BY <2>1, FlatIs
    <3>2. \A cs : InTable(old, p, cs) => cs = f[p]
          BY <1>1, FlatIs
    <3>3. f[p] \in OfTable(old, p) /\ \A cs \in OfTable(old, p) : cs = f[p]
          BY <3>1, <3>2 DEF OfTable
    <3> QED BY <2>1, <3>3 DEF Grows, Connections
  <2>2. CASE p \notin DOMAIN f
    <3>1. \A cs : ~InTable(old, p, cs)
          BY <1>1, <2>2, FlatIs
    <3>2. OfTable(old, p) = {}
          BY <3>1 DEF OfTable
    <3>3. v = <<c>>
          BY <3>2 DEF Grows
    <3>4. Append(<<>>, c) = <<c>>
          OBVIOUS
    <3> QED BY <2>2, <3>3, <3>4 DEF Connections
  <2> QED BY <2>1, <2>2
<1>4. new \in Domains
      BY DEF SetsInTable
<1>5. g = [x \in DOMAIN g |-> g[x]]
      BY <1>4, FlatIs
<1> HIDE DEF f, g
<1>6. g = [x \in DOMAIN f \cup {p} |-> IF x = p THEN Append(Connections(f, p), c) ELSE f[x]]
      BY <1>2, <1>3, <1>5 DEF IsSet
<1> QED BY <1>2, <1>4, <1>6 DEF Registered, f, g

LEMMA AddGrows ==
  ASSUME NEW doms \in Domains, NEW p \in Preauthed, NEW c \in Conn, DomainIndex(doms, p) # 0
  PROVE  LET new == [doms EXCEPT ![DomainIndex(doms, p)] = AddToDomain(@, p, c)]
         IN  /\ new \in Domains /\ ConfigOf(new) = ConfigOf(doms)
             /\ FlatOf(new) = Registered(FlatOf(doms), p, c)
<1> DEFINE new == [doms EXCEPT ![DomainIndex(doms, p)] = AddToDomain(@, p, c)]
<1>1. PICK v : /\ SetsInTable(doms, new, p.domain, p.host, p.prefix, v)
               /\ Grows(v, c, OfTable(doms, p))
      BY AddSets
<1> HIDE DEF new
<1>2. /\ new \in Domains /\ ConfigOf(new) = ConfigOf(doms)
      /\ FlatOf(new) = Registered(FlatOf(doms), p, c)
      BY <1>1, FlatGrows
<1> QED BY <1>2 DEF new

(* Setting the list of an entry sets it in the table.                      *)
LEMMA EntrySets ==
  ASSUME NEW doms \in Domains, NEW d, NEW h, NEW r, IsEntry(doms, d, h, r),
         NEW v \in Seq(Conn)
  PROVE  SetsInTable(doms, [doms EXCEPT ![d].hosts[h].routes[r].connections = v],
                     doms[d].domain, doms[d].hosts[h].host,
                     doms[d].hosts[h].routes[r].prefix, v)
<1> DEFINE host == doms[d].hosts[h]
           host2 == [host EXCEPT !.routes[r].connections = v]
           dom2 == [doms[d] EXCEPT !.hosts[h] = host2]
<1>1. doms[d] \in ADomain /\ host \in AHost
      BY EntryTypes
<1>2. d \in DOMAIN doms /\ h \in DOMAIN doms[d].hosts /\ r \in DOMAIN host.routes
      BY DEF IsEntry
<1>3. SetsInHost(host, host2, host.routes[r].prefix, v)
      BY <1>1, <1>2, RouteSets
<1>4. [doms EXCEPT ![d].hosts[h].routes[r].connections = v] = [doms EXCEPT ![d] = dom2]
      OBVIOUS
<1> HIDE DEF host2
<1>5. SetsInDomain(doms[d], dom2, host.host, host.routes[r].prefix, v)
      BY <1>1, <1>2, <1>3, HostSets
<1> HIDE DEF dom2
<1>6. SetsInTable(doms, [doms EXCEPT ![d] = dom2], doms[d].domain,
                  host.host, host.routes[r].prefix, v)
      BY <1>2, <1>5, DomainSets
<1> QED BY <1>4, <1>6

Replaced(old, new, k, was, v) ==
  /\ new \in Domains /\ ConfigOf(new) = ConfigOf(old)
  /\ k \in DOMAIN FlatOf(old) /\ FlatOf(old)[k] = was
  /\ FlatOf(new) = [FlatOf(old) EXCEPT ![k] = v]

LEMMA FlatReplaced ==
  ASSUME NEW old \in Domains, NEW d, NEW h, NEW r, IsEntry(old, d, h, r),
         NEW v, NEW new, NEW k, k = KeyIn(old, <<d, h, r>>),
         SetsInTable(old, new, k.domain, k.host, k.prefix, v)
  PROVE  Replaced(old, new, k, ListIn(old, <<d, h, r>>), v)
<1> DEFINE f == FlatOf(old)
           g == FlatOf(new)
<1>1. k \in Keys
      BY EntryTypes
<1>2. InTable(old, k, ListIn(old, <<d, h, r>>))
      BY <1>1, InTableIs DEF Has
<1>3. k \in DOMAIN f /\ f[k] = ListIn(old, <<d, h, r>>)
      BY <1>1, <1>2, FlatIs
<1>4. IsSet(f, g, k, v) /\ ConfigOf(new) = ConfigOf(old)
      BY <1>1, FlatSet, Zenon
<1>5. new \in Domains
      BY DEF SetsInTable
<1>6. g = [x \in DOMAIN g |-> g[x]] /\ f = [x \in DOMAIN f |-> f[x]]
      BY <1>5, FlatIs
<1> HIDE DEF f, g
<1>7. g = [f EXCEPT ![k] = v]
      BY <1>3, <1>4, <1>6 DEF IsSet
<1> QED BY <1>3, <1>4, <1>5, <1>7 DEF Replaced, f, g

LEMMA NoneHidden ==
  ASSUME domains \in Domains
  PROVE  NoHiddenEntry
<1>1. ASSUME NEW e \in Entries, NEW f \in Entries, KeyOf(e) = KeyOf(f) PROVE e = f
  <2>1. e \in EntriesOf(domains) /\ f \in EntriesOf(domains)
        /\ KeyIn(domains, e) = KeyIn(domains, f)
        BY <1>1, SameEntries
  <2>2. PICK d, h, r : e = <<d, h, r>> /\ IsEntry(domains, d, h, r)
        BY <2>1, EntryIs
  <2>3. PICK x, y, z : f = <<x, y, z>> /\ IsEntry(domains, x, y, z)
        BY <2>1, EntryIs
  <2> QED BY <2>1, <2>2, <2>3, EntriesDistinct
<1> QED BY <1>1 DEF NoHiddenEntry

-------------------------------------------------------------------------------
(* The choices of route().                                                 *)

(* The greatest length, and of those the greatest index.                   *)
LEMMA GreatestExists ==
  ASSUME NEW L \in [Nat -> Nat]
  PROVE  \A n \in Nat : \A I \in SUBSET (1..n) : I # {} =>
           \E i \in I : \A j \in I : L[i] > L[j] \/ (L[i] = L[j] /\ i >= j)
<1> DEFINE Best(I, i) == i \in I /\ \A j \in I : L[i] > L[j] \/ (L[i] = L[j] /\ i >= j)
           T == {n \in Nat : \A I \in SUBSET (1..n) : I # {} => \E i : Best(I, i)}
<1>1. 0 \in T
      OBVIOUS
<1>2. ASSUME NEW n \in Nat, n \in T PROVE n + 1 \in T
  <2>1. ASSUME NEW I \in SUBSET (1..(n + 1)), I # {} PROVE \E i : Best(I, i)
    <3> DEFINE J == I \ {n + 1}
    <3>1. J \in SUBSET (1..n)
          OBVIOUS
    <3>2. CASE J = {}
      <4>0. n + 1 \in I /\ \A j \in I : j = n + 1
            BY <2>1, <3>2
      <4>1. Best(I, n + 1)
            BY <4>0
      <4> QED BY <4>1
    <3>3. CASE J # {}
      <4>1. PICK i : Best(J, i)
            BY <1>2, <3>1, <3>3
      <4>2. i \in Nat /\ i <= n /\ L[i] \in Nat /\ L[n + 1] \in Nat
            BY <3>1, <4>1
      <4>3. CASE n + 1 \notin I
        <5>1. J = I
              BY <4>3
        <5> QED BY <4>1, <5>1
      <4>4. CASE n + 1 \in I /\ L[i] > L[n + 1]
        <5>1. Best(I, i)
              BY <4>1, <4>2, <4>4
        <5> QED BY <5>1
      <4>5. CASE n + 1 \in I /\ ~(L[i] > L[n + 1])
        <5>1. ASSUME NEW j \in I
              PROVE  L[n + 1] > L[j] \/ (L[n + 1] = L[j] /\ n + 1 >= j)
          <6>1. CASE j = n + 1
                BY <6>1, <4>2
          <6>2. CASE j # n + 1
            <7>1. j \in J /\ L[j] \in Nat /\ j \in 1..n
                  BY <3>1, <6>2
            <7>2. L[i] > L[j] \/ (L[i] = L[j] /\ i >= j)
                  BY <4>1, <7>1
            <7> QED BY <4>2, <4>5, <7>1, <7>2
          <6> QED BY <6>1, <6>2
        <5>2. Best(I, n + 1)
              BY <4>5, <5>1
        <5> QED BY <5>2
      <4> QED BY <4>3, <4>4, <4>5
    <3> QED BY <3>2, <3>3
  <2> HIDE DEF Best
  <2> QED BY <2>1
<1> HIDE DEF T
<1>3. Nat \subseteq T
      BY <1>1, <1>2, Induction
<1> QED BY <1>3 DEF T

(* Of the matching indexes, the one the stable sort leaves last.           *)
IsLast(L, I, i) ==
  i \in I /\ \A j \in I : L[i] > L[j] \/ (L[i] = L[j] /\ i >= j)

LEMMA LastIsUnique ==
  ASSUME NEW L, NEW n \in Nat, NEW I \in SUBSET (1..n), I # {},
         \A i \in I : L[i] \in Nat
  PROVE  \E i \in I : /\ IsLast(L, I, i)
                      /\ i = CHOOSE x \in I : \A j \in I :
                               L[x] > L[j] \/ (L[x] = L[j] /\ x >= j)
<1> DEFINE M == [x \in Nat |-> IF x \in I THEN L[x] ELSE 0]
<1>1. M \in [Nat -> Nat] /\ \A i \in I : M[i] = L[i]
      OBVIOUS
<1> HIDE DEF M
<1>2. PICK i \in I : \A j \in I : M[i] > M[j] \/ (M[i] = M[j] /\ i >= j)
      BY <1>1, GreatestExists
<1>3. IsLast(L, I, i)
      BY <1>1, <1>2 DEF IsLast
<1>4. \A x \in I : IsLast(L, I, x) => x = i
      BY <1>3 DEF IsLast
<1> QED BY <1>3, <1>4 DEF IsLast

Lengths(s) == [i \in DOMAIN s |-> Len(s[i].domain)]

(* The domain of a request.                                                *)
LEMMA BestDomainAtIs ==
  ASSUME NEW doms \in Domains, NEW host \in Name
  PROVE  /\ BestDomainAt(doms, host) = 0 => Accepting(ConfigOf(doms), host) = {}
         /\ BestDomainAt(doms, host) # 0 =>
              /\ Accepting(ConfigOf(doms), host) # {}
              /\ BestDomainAt(doms, host) \in DOMAIN doms
              /\ BestDomain(ConfigOf(doms), host) = doms[BestDomainAt(doms, host)].domain
<1> DEFINE cfg == ConfigOf(doms)
           I == {i \in DOMAIN doms : host # NoAuthority /\ IsSuffix(host, doms[i].domain)}
           L == Lengths(doms)
<1>1. doms \in Seq(ADomain) /\ \A i \in DOMAIN doms : doms[i] \in ADomain
      BY DEF Domains
<1>2. /\ Len(doms) \in Nat /\ DOMAIN doms = 1..Len(doms) /\ I \in SUBSET (1..Len(doms))
      BY <1>1
<1>3. DOMAIN cfg = DOMAIN doms /\ \A i \in DOMAIN doms : cfg[i] = doms[i].domain
      BY DEF ConfigOf
<1>4. \A i \in DOMAIN doms : L[i] \in Nat /\ L[i] = Len(doms[i].domain)
      BY <1>1 DEF Lengths, ADomain, Name
<1>5. Accepting(cfg, host) = I
      BY <1>3 DEF Accepting
<1>6. I # {} => BestDomainAt(doms, host)
        = CHOOSE x \in I : \A j \in I :
            Len(doms[x].domain) > Len(doms[j].domain)
            \/ (Len(doms[x].domain) = Len(doms[j].domain) /\ x >= j)
      BY DEF BestDomainAt, LastLongest
<1>7. I = {} => BestDomainAt(doms, host) = 0
      BY DEF BestDomainAt
<1>8. I # {} => BestDomain(cfg, host)
        = cfg[CHOOSE x \in I : \A j \in I :
            Len(cfg[x]) > Len(cfg[j]) \/ (Len(cfg[x]) = Len(cfg[j]) /\ x >= j)]
      BY <1>5 DEF BestDomain, Outranks
<1> HIDE DEF I, cfg, L
<1>9. CASE I # {}
  <2>1. PICK i \in I : /\ IsLast(L, I, i)
                       /\ i = CHOOSE x \in I : \A j \in I :
                                L[x] > L[j] \/ (L[x] = L[j] /\ x >= j)
        BY <1>2, <1>4, <1>9, LastIsUnique
  <2>2. BestDomainAt(doms, host) = i
    <3>1. \A x, j \in I :
            (L[x] > L[j] \/ (L[x] = L[j] /\ x >= j))
              <=> \/ Len(doms[x].domain) > Len(doms[j].domain)
                  \/ (Len(doms[x].domain) = Len(doms[j].domain) /\ x >= j)
          BY <1>2, <1>4
    <3> QED BY <1>6, <1>9, <2>1, <3>1
  <2>3. BestDomain(cfg, host) = cfg[i]
    <3>1. \A x, j \in I :
            (L[x] > L[j] \/ (L[x] = L[j] /\ x >= j))
              <=> Len(cfg[x]) > Len(cfg[j]) \/ (Len(cfg[x]) = Len(cfg[j]) /\ x >= j)
          BY <1>2, <1>3, <1>4
    <3> QED BY <1>8, <1>9, <2>1, <3>1
  <2>4. i \in 1..Len(doms)
        BY <1>2
  <2>5. i \in DOMAIN doms /\ i # 0
        BY <1>2, <2>4
  <2> QED BY <1>3, <1>5, <1>9, <2>2, <2>3, <2>5 DEF cfg
<1>10. CASE I = {}
       BY <1>5, <1>7, <1>10 DEF cfg
<1> QED BY <1>9, <1>10

(* The route of a request in the vector of its host.                       *)
LEMMA BestRouteAtIs ==
  ASSUME NEW s \in Routes, NEW path \in Name
  PROVE  /\ BestRouteAt(s, path) = 0 => \A i \in DOMAIN s : ~IsPrefix(s[i].prefix, path)
         /\ BestRouteAt(s, path) # 0 =>
              /\ BestRouteAt(s, path) \in DOMAIN s
              /\ IsPrefix(s[BestRouteAt(s, path)].prefix, path)
              /\ \A i \in DOMAIN s : IsPrefix(s[i].prefix, path) =>
                   Len(s[i].prefix) <= Len(s[BestRouteAt(s, path)].prefix)
<1> DEFINE I == {i \in DOMAIN s : IsPrefix(s[i].prefix, path)}
           L == [i \in DOMAIN s |-> Len(s[i].prefix)]
<1>1. s \in Seq(ARoute) /\ \A i \in DOMAIN s : s[i] \in ARoute
      BY DEF Routes
<1>2. Len(s) \in Nat /\ DOMAIN s = 1..Len(s) /\ I \in SUBSET (1..Len(s))
      BY <1>1
<1>3. \A i \in DOMAIN s : L[i] \in Nat /\ L[i] = Len(s[i].prefix)
      BY <1>1 DEF ARoute, Name
<1>4. I # {} => BestRouteAt(s, path)
        = CHOOSE x \in I : \A j \in I :
            Len(s[x].prefix) > Len(s[j].prefix)
            \/ (Len(s[x].prefix) = Len(s[j].prefix) /\ x >= j)
      BY DEF BestRouteAt, LastLongest
<1>5. I = {} => BestRouteAt(s, path) = 0
      BY DEF BestRouteAt
<1>6. \A i : i \in I <=> i \in DOMAIN s /\ IsPrefix(s[i].prefix, path)
      OBVIOUS
<1> HIDE DEF I, L
<1>7. CASE I # {}
  <2>1. PICK i \in I : /\ IsLast(L, I, i)
                       /\ i = CHOOSE x \in I : \A j \in I :
                                L[x] > L[j] \/ (L[x] = L[j] /\ x >= j)
        BY <1>2, <1>3, <1>7, LastIsUnique
  <2>2. BestRouteAt(s, path) = i
    <3>1. \A x, j \in I :
            (L[x] > L[j] \/ (L[x] = L[j] /\ x >= j))
              <=> \/ Len(s[x].prefix) > Len(s[j].prefix)
                  \/ (Len(s[x].prefix) = Len(s[j].prefix) /\ x >= j)
          BY <1>2, <1>3
    <3> QED BY <1>4, <1>7, <2>1, <3>1
  <2>3. \A j \in I : Len(s[j].prefix) <= Len(s[i].prefix)
        BY <1>3, <1>6, <2>1 DEF IsLast
  <2>4. i # 0
        BY <1>2
  <2> QED BY <1>6, <2>2, <2>3, <2>4
<1>8. CASE I = {}
      BY <1>5, <1>6, <1>8
<1> QED BY <1>7, <1>8

(* Two prefixes of a path that are equally long are the same.              *)
LEMMA PrefixesOfAPath ==
  ASSUME NEW path \in Name, NEW s \in Name, NEW t \in Name,
         IsPrefix(s, path), IsPrefix(t, path), Len(s) = Len(t)
  PROVE  s = t
<1>1. SubSeq(s, 1, Len(s)) = SubSeq(t, 1, Len(t))
      BY DEF IsPrefix
<1>2. SubSeq(s, 1, Len(s)) = s /\ SubSeq(t, 1, Len(t)) = t
      BY DEF Name
<1> QED BY <1>1, <1>2

(* What route() finds is the best route of the table, or neither is.       *)
NoPlace(doms, req) ==
  /\ Places(doms, req) = {}
  /\ Candidates(FlatOf(doms), ConfigOf(doms), req) = {}

IsPlace(doms, req, d, h, r) ==
  /\ Places(doms, req) = {<<d, h, r>>}
  /\ IsEntry(doms, d, h, r)
  /\ Candidates(FlatOf(doms), ConfigOf(doms), req) # {}
  /\ BestRoute(FlatOf(doms), ConfigOf(doms), req) = KeyIn(doms, <<d, h, r>>)

LEMMA PlaceIs ==
  ASSUME NEW doms \in Domains, NEW req \in Request
  PROVE  NoPlace(doms, req) \/ \E d, h, r : IsPlace(doms, req, d, h, r)
<1> DEFINE f == FlatOf(doms)
           cfg == ConfigOf(doms)
           C == Candidates(f, cfg, req)
           d == BestDomainAt(doms, req.host)
           hosts == doms[d].hosts
           h == HostIndex(hosts, req.host)
           routes == hosts[h].routes
           r == BestRouteAt(routes, req.path)
<1>1. req.host \in Name /\ req.path \in Name
      BY NamesAssumption
<1>2. Places(doms, req)
        = LET h0 == IF d = 0 THEN 0 ELSE h
              r0 == IF h0 = 0 THEN 0 ELSE BestRouteAt(doms[d].hosts[h0].routes, req.path)
          IN  IF r0 = 0 THEN {} ELSE {<<d, h0, r0>>}
      BY DEF Places, HostIndex
<1>3. /\ (d = 0 \/ h = 0 \/ r = 0) => Places(doms, req) = {}
      /\ d # 0 /\ h # 0 /\ r # 0 => Places(doms, req) = {<<d, h, r>>}
      BY <1>2
<1>4. /\ d = 0 => Accepting(cfg, req.host) = {}
      /\ d # 0 => /\ Accepting(cfg, req.host) # {} /\ d \in DOMAIN doms
                  /\ BestDomain(cfg, req.host) = doms[d].domain
      BY <1>1, BestDomainAtIs
<1>5. \A k : k \in C <=> /\ k \in DOMAIN f
                         /\ Accepting(cfg, req.host) # {}
                         /\ k.domain = BestDomain(cfg, req.host)
                         /\ k.host = req.host
                         /\ IsPrefix(k.prefix, req.path)
      BY DEF Candidates
<1>6. /\ \A i, j \in DOMAIN doms : doms[i].domain = doms[j].domain => i = j
      /\ \A i \in DOMAIN doms : doms[i] \in ADomain
      BY DEF Domains
<1>7. ASSUME d # 0
      PROVE  /\ Len(hosts) \in Nat /\ DOMAIN hosts = 1..Len(hosts)
             /\ \A i, j \in DOMAIN hosts : hosts[i].host = hosts[j].host => i = j
             /\ \A i \in DOMAIN hosts : hosts[i] \in AHost
  <2>1. hosts \in Hosts
        BY <1>4, <1>6, <1>7 DEF ADomain
  <2> HIDE DEF hosts, d
  <2> QED BY <2>1 DEF Hosts
<1>8. d # 0 => /\ h # 0 => h \in DOMAIN hosts /\ hosts[h].host = req.host
               /\ h = 0 => \A i \in DOMAIN hosts : hosts[i].host # req.host
  <2> HIDE DEF hosts, d
  <2> QED BY <1>7, HostIndexIs
<1>9. ASSUME d # 0, h # 0
      PROVE  /\ r = 0 => \A i \in DOMAIN routes : ~IsPrefix(routes[i].prefix, req.path)
             /\ r # 0 => /\ r \in DOMAIN routes /\ IsPrefix(routes[r].prefix, req.path)
                         /\ \A i \in DOMAIN routes : IsPrefix(routes[i].prefix, req.path) =>
                              Len(routes[i].prefix) <= Len(routes[r].prefix)
  <2>1. hosts[h] \in AHost
        BY <1>7, <1>8, <1>9
  <2>2. routes \in Routes
        BY <2>1 DEF AHost
  <2> HIDE DEF routes
  <2> QED BY <1>1, <2>2, BestRouteAtIs
(* A candidate is an entry of that host with a matching prefix.            *)
<1>10. ASSUME NEW k \in C
       PROVE  /\ d # 0 /\ h # 0 /\ r # 0 /\ k \in Keys
              /\ \E z \in DOMAIN routes : /\ k.prefix = routes[z].prefix
                                          /\ IsPrefix(routes[z].prefix, req.path)
              /\ k.domain = doms[d].domain /\ k.host = req.host
  <2>1. /\ k \in Keys /\ InTable(doms, k, f[k]) /\ k.domain = doms[d].domain
        /\ k.host = req.host /\ IsPrefix(k.prefix, req.path) /\ d # 0
        BY <1>4, <1>5, FlatIs
  <2> HIDE DEF f, C, r, h, d
  <2>2. PICK x \in DOMAIN doms : doms[x].domain = k.domain
                                 /\ InDomain(doms[x], k.host, k.prefix, f[k])
        BY <2>1 DEF InTable
  <2>3. x = d
        BY <1>4, <1>6, <2>1, <2>2
  <2>4. PICK y \in DOMAIN hosts : hosts[y].host = k.host /\ InHost(hosts[y], k.prefix, f[k])
        BY <2>2, <2>3 DEF InDomain
  <2>5. h # 0 /\ y = h
        BY <1>7, <1>8, <2>1, <2>4
  <2>6. PICK z \in DOMAIN routes : routes[z].prefix = k.prefix
        BY <2>4, <2>5 DEF InHost
  <2>7. r # 0
        BY <1>9, <2>1, <2>5, <2>6
  <2> QED BY <2>1, <2>5, <2>6, <2>7
<1>11. CASE d = 0 \/ h = 0 \/ r = 0
  <2>1. C = {}
        BY <1>10, <1>11
  <2> QED BY <1>3, <1>11, <2>1 DEF NoPlace
<1>12. CASE d # 0 /\ h # 0 /\ r # 0
  <2> DEFINE best == KeyIn(doms, <<d, h, r>>)
  <2>1. IsEntry(doms, d, h, r)
        BY <1>4, <1>8, <1>9, <1>12 DEF IsEntry
  <2>2. /\ best.domain = doms[d].domain /\ best.host = hosts[h].host
        /\ best.prefix = routes[r].prefix
        BY DEF KeyIn
  <2>3. best \in Keys /\ InTable(doms, best, ListIn(doms, <<d, h, r>>))
    <3>1. best \in Keys
          BY <2>1, EntryTypes
    <3> QED BY <2>1, <3>1, InTableIs DEF Has
  <2>4. best \in DOMAIN f
        BY <2>3, FlatIs
  <2> HIDE DEF best, f, C, d, h, r
  <2>5. best \in C
        BY <1>4, <1>5, <1>8, <1>9, <1>12, <2>2, <2>4
  <2>6. \A k \in C : k \in Keys /\ Len(k.prefix) <= Len(best.prefix)
        BY <1>9, <1>10, <1>12, <2>2
  <2>7. ASSUME NEW k \in C, \A o \in C : Len(o.prefix) <= Len(k.prefix)
        PROVE  k = best
    <3>1. Len(k.prefix) = Len(best.prefix)
      <4>1. Len(k.prefix) \in Nat /\ Len(best.prefix) \in Nat
            BY <2>3, <2>6 DEF Keys, Name
      <4> QED BY <2>5, <2>6, <2>7, <4>1
    <3>2. k.prefix = best.prefix
      <4>1. k.prefix \in Name /\ best.prefix \in Name
            BY <2>3, <2>6 DEF Keys
      <4>2. IsPrefix(k.prefix, req.path) /\ IsPrefix(best.prefix, req.path)
            BY <1>5, <2>5
      <4> QED BY <1>1, <3>1, <4>1, <4>2, PrefixesOfAPath
    <3>3. k.domain = best.domain /\ k.host = best.host
          BY <1>10, <2>5
    <3> QED BY <2>3, <2>6, <3>2, <3>3 DEF Keys
  <2>8. BestRoute(f, cfg, req) = CHOOSE k \in C : \A o \in C : Len(o.prefix) <= Len(k.prefix)
        BY DEF BestRoute, C
  <2>9. BestRoute(f, cfg, req) = best
        BY <2>5, <2>6, <2>7, <2>8
  <2>10. C # {}
         BY <2>5
  <2>11. IsPlace(doms, req, d, h, r)
         BY <1>3, <1>12, <2>1, <2>9, <2>10 DEF IsPlace, best, C, f
  <2> QED BY <2>11
<1> QED BY <1>11, <1>12

(* The first of the retained connections is the first live one.            *)
LEMMA FirstOfRetained ==
  ASSUME NEW s \in Seq(Conn), NEW S
  PROVE  \/ Retained(s, S) = <<>> /\ FirstLive(s, S) = {}
         \/ /\ Retained(s, S) # <<>> /\ Head(Retained(s, S)) \in Conn
            /\ FirstLive(s, S) = {Head(Retained(s, S))}
<1> DEFINE IsFirst(q, i) == /\ i \in 1..Len(q) /\ q[i] \in S
                            /\ \A n \in 1..(i - 1) : q[n] \notin S
           Right(q) == \/ Retained(q, S) = <<>> /\ \A i \in 1..Len(q) : q[i] \notin S
                       \/ /\ Retained(q, S) # <<>>
                          /\ \E i : IsFirst(q, i) /\ Retained(q, S)[1] = q[i]
           T == {q \in Seq(Conn) : Right(q)}
<1>1. <<>> \in T
  <2>1. Right(<<>>)
        BY RetainedEmpty
  <2> HIDE DEF Right
  <2> QED BY <2>1
<1>2. ASSUME NEW q \in Seq(Conn), NEW x \in Conn, q \in T PROVE Append(q, x) \in T
  <2> DEFINE t == Append(q, x)
             k == Retained(q, S)
  <2>1. /\ t \in Seq(Conn) /\ Len(t) = Len(q) + 1 /\ t[Len(q) + 1] = x
        /\ \A i \in 1..Len(q) : t[i] = q[i]
        /\ Len(q) \in Nat
        BY AppendProperties
  <2>2. Retained(t, S) = IF x \in S THEN Append(k, x) ELSE k
        BY RetainedAppend
  <2>3. k \in Seq(Conn) /\ Len(k) \in Nat
    <3>1. k \in Seq(Conn)
          BY RetainedType
    <3> HIDE DEF k
    <3> QED BY <3>1
  <2>4. /\ Len(Append(k, x)) = Len(k) + 1 /\ Append(k, x)[Len(k) + 1] = x
        /\ \A i \in 1..Len(k) : Append(k, x)[i] = k[i]
        BY <2>3, AppendProperties
  <2>5. Right(q)
        BY <1>2
  <2>6. k # <<>> => 1 \in 1..Len(k)
        BY <2>3
  <2>7. Append(k, x) # <<>>
        BY <2>3, <2>4
  <2> HIDE DEF t, k
  <2>8. CASE k = <<>> /\ x \notin S
    <3>1. \A i \in 1..Len(t) : t[i] \notin S
          BY <2>1, <2>5, <2>8 DEF k
    <3> QED BY <2>1, <2>2, <2>8, <3>1 DEF t
  <2>9. CASE k = <<>> /\ x \in S
    <3>1. IsFirst(t, Len(q) + 1)
          BY <2>1, <2>5, <2>9 DEF k
    <3>2. Len(k) = 0
          BY <2>9
    <3>3. Retained(t, S)[1] = x /\ Retained(t, S) # <<>>
          BY <2>2, <2>4, <2>7, <2>9, <3>2
    <3> HIDE DEF IsFirst
    <3> QED BY <2>1, <3>1, <3>3 DEF t
  <2>10. CASE k # <<>>
    <3>1. PICK i : IsFirst(q, i) /\ k[1] = q[i]
          BY <2>5, <2>10 DEF k
    <3>2. IsFirst(t, i) /\ t[i] = q[i]
      <4>1. i \in 1..Len(q) /\ q[i] \in S /\ \A n \in 1..(i - 1) : q[n] \notin S
            BY <3>1
      <4>2. i \in 1..Len(t) /\ \A n \in 1..(i - 1) : n \in 1..Len(q)
            BY <2>1, <4>1
      <4> QED BY <2>1, <4>1, <4>2
    <3>3. Retained(t, S)[1] = k[1] /\ Retained(t, S) # <<>>
          BY <2>2, <2>4, <2>6, <2>7, <2>10
    <3> HIDE DEF IsFirst
    <3> QED BY <2>1, <3>1, <3>2, <3>3 DEF t
  <2> QED BY <2>8, <2>9, <2>10
<1> HIDE DEF T
<1>3. Seq(Conn) \subseteq T
      BY <1>1, <1>2, SeqInduction
<1>4. Right(s)
      BY <1>3 DEF T
<1>5. DOMAIN s = 1..Len(s) /\ Len(s) \in Nat /\ \A i \in 1..Len(s) : s[i] \in Conn
      OBVIOUS
<1>6. \A c : c \in FirstLive(s, S) <=> \E i : IsFirst(s, i) /\ c = s[i]
      BY <1>5 DEF FirstLive
<1>7. \A i, j : IsFirst(s, i) /\ IsFirst(s, j) => i = j
      BY <1>5
<1>8. CASE Retained(s, S) = <<>>
      BY <1>4, <1>6, <1>8
<1>9. CASE Retained(s, S) # <<>>
  <2>1. PICK i : IsFirst(s, i) /\ Retained(s, S)[1] = s[i]
        BY <1>4, <1>9
  <2>2. Head(Retained(s, S)) = s[i] /\ s[i] \in Conn
    <3>1. Retained(s, S) \in Seq(Conn)
          BY RetainedType
    <3>2. Head(Retained(s, S)) = Retained(s, S)[1]
          BY <1>9, <3>1, HeadTailProperties
    <3> QED BY <1>5, <2>1, <3>2
  <2> HIDE DEF IsFirst
  <2>3. FirstLive(s, S) = {s[i]}
        BY <1>6, <1>7, <2>1
  <2> QED BY <1>9, <2>2, <2>3
<1> QED BY <1>8, <1>9

-------------------------------------------------------------------------------
(* The invariant.                                                          *)

LEMMA InvariantHoldsFirst == Init => IInv
<1> SUFFICES ASSUME Init PROVE IInv
    OBVIOUS
<1>1. PICK cfg \in Configs : domains = [i \in DOMAIN cfg |-> ServiceDomain(cfg[i])]
      BY DEF Init
<1>2. cfg \in Seq(Name) /\ \A i, j \in DOMAIN cfg : cfg[i] = cfg[j] => i = j
      BY ServicesAssumption
<1>3. <<>> \in Hosts
      BY EmptySeq DEF Hosts
<1>4. \A i \in DOMAIN cfg :
        ServiceDomain(cfg[i]) \in ADomain /\ ServiceDomain(cfg[i]).domain = cfg[i]
      BY <1>2, <1>3 DEF ServiceDomain, ADomain
<1>5. domains \in Seq(ADomain) /\ DOMAIN domains = DOMAIN cfg
      BY <1>1, <1>2, <1>4
<1>6. domains \in Domains
      BY <1>1, <1>2, <1>4, <1>5 DEF Domains
<1>7. status \in [Client -> Waits]
      BY DEF Init, Waits
<1> QED BY <1>6, <1>7 DEF Init, IInv

(* The route of a place: what the step does to the table.                  *)
LEMMA RouteIs ==
  ASSUME IInv, NEW a \in Client, Route(a)
  PROVE  LET req == status[a].req
         IN  /\ req \in Request
             /\ \/ NoPlace(domains, req) /\ UNCHANGED domains /\ Becomes(a, [is |-> "idle"])
                \/ \E d, h, r : IsPlace(domains, req, d, h, r) /\ RouteAt(a, <<d, h, r>>)
<1> DEFINE req == status[a].req
<1>1. status[a] \in Waits /\ status[a].is = "asking"
      BY DEF IInv, Route
<1>2. req \in Request
      BY <1>1 DEF Waits
<1>3. domains \in Domains
      BY DEF IInv
<1>4. /\ Places(domains, req) = {} => UNCHANGED domains /\ Becomes(a, [is |-> "idle"])
      /\ Places(domains, req) # {} => \E place \in Places(domains, req) : RouteAt(a, place)
      BY DEF Route
<1> HIDE DEF req
<1>5. CASE NoPlace(domains, req)
      BY <1>2, <1>4, <1>5 DEF NoPlace, req
<1>6. ASSUME NEW d, NEW h, NEW r, IsPlace(domains, req, d, h, r)
      PROVE  RouteAt(a, <<d, h, r>>)
      BY <1>4, <1>6 DEF IsPlace
<1> QED BY <1>2, <1>3, <1>5, <1>6, PlaceIs DEF req

LEMMA RouteAtIs ==
  ASSUME IInv, NEW a \in Client, NEW req \in Request,
         NEW d, NEW h, NEW r, IsPlace(domains, req, d, h, r), RouteAt(a, <<d, h, r>>)
  PROVE  LET k     == KeyIn(domains, <<d, h, r>>)
             conns == Flat[k]
             alive == Retained(conns, live)
         IN  /\ conns \in Seq(Conn) /\ k \in DOMAIN Flat
             /\ domains' \in Domains /\ ConfigOf(domains') = ConfigOf(domains)
             /\ Flat' = [Flat EXCEPT ![k] = alive]
             /\ Becomes(a, IF alive = <<>> THEN [is |-> "idle"]
                                           ELSE [is |-> "given", conn |-> Head(alive)])
<1> DEFINE conns == domains[d].hosts[h].routes[r].connections
           alive == Retained(conns, live)
           k == KeyIn(domains, <<d, h, r>>)
           new == [domains EXCEPT ![d].hosts[h].routes[r].connections = alive]
<1>1. domains \in Domains /\ IsEntry(domains, d, h, r)
      BY DEF IInv, IsPlace
<1>2. conns = ListIn(domains, <<d, h, r>>) /\ conns \in Seq(Conn)
      BY <1>1, EntryTypes DEF ListIn
<1>3. domains' = new
      /\ Becomes(a, IF alive = <<>> THEN [is |-> "idle"]
                                    ELSE [is |-> "given", conn |-> Head(alive)])
      BY DEF RouteAt
<1>4. alive \in Seq(Conn)
      BY <1>2, RetainedType
<1> HIDE DEF alive, conns
<1>5. SetsInTable(domains, new, k.domain, k.host, k.prefix, alive)
      BY <1>1, <1>4, EntrySets DEF KeyIn
<1>0. k = KeyIn(domains, <<d, h, r>>)
      OBVIOUS
<1> HIDE DEF new, k
<1>6. Replaced(domains, new, k, ListIn(domains, <<d, h, r>>), alive)
      BY <1>0, <1>1, <1>5, FlatReplaced, Zenon
<1>7. /\ Flat[k] = conns /\ k \in DOMAIN Flat
      /\ Flat' = [Flat EXCEPT ![k] = alive]
      /\ domains' \in Domains /\ ConfigOf(domains') = ConfigOf(domains)
      BY <1>2, <1>3, <1>6, SameFlat DEF Replaced
<1> QED BY <1>2, <1>3, <1>7 DEF k, alive

LEMMA AddPreauthedIs ==
  ASSUME IInv, NEW p \in Preauthed, NEW c \in Conn, AddPreauthed(p, c)
  PROVE  /\ domains' \in Domains /\ ConfigOf(domains') = ConfigOf(domains)
         /\ Flat' = Registered(Flat, p, c)
<1> DEFINE new == [domains EXCEPT ![DomainIndex(domains, p)] = AddToDomain(@, p, c)]
<1>1. domains' = new /\ domains \in Domains /\ DomainIndex(domains, p) # 0
      BY DEF AddPreauthed, IInv
<1>2. /\ new \in Domains /\ ConfigOf(new) = ConfigOf(domains)
      /\ FlatOf(new) = Registered(FlatOf(domains), p, c)
      BY <1>1, AddGrows
<1> HIDE DEF new
<1> QED BY <1>1, <1>2, SameFlat

LEMMA InvariantStays == IInv /\ [Next]_vars => IInv'
<1> SUFFICES ASSUME IInv, [Next]_vars PROVE IInv'
    OBVIOUS
<1> USE DEF IInv
<1>1. ASSUME NEW p \in Preauthed, NEW secret \in Secret, Authenticate(p, secret) PROVE IInv'
      BY <1>1 DEF Authenticate
<1>2. ASSUME NEW p \in Preauthed, NEW c \in Conn, AddPreauthed(p, c) PROVE IInv'
  <2>1. domains' \in Domains
        BY <1>2, AddPreauthedIs
  <2> QED BY <1>2, <2>1 DEF AddPreauthed
<1>3. ASSUME NEW c \in Conn, Connect(c) PROVE IInv'
      BY <1>3 DEF Connect
<1>4. ASSUME NEW c \in Conn, Disconnect(c) PROVE IInv'
      BY <1>4 DEF Disconnect
<1>5. ASSUME NEW a \in Client, Route(a) PROVE IInv'
  <2>1. domains' \in Domains /\ \E s \in Waits : Becomes(a, s)
    <3>1. CASE UNCHANGED domains /\ Becomes(a, [is |-> "idle"])
          BY <3>1 DEF Waits
    <3>2. ASSUME NEW d, NEW h, NEW r, IsPlace(domains, status[a].req, d, h, r),
                 RouteAt(a, <<d, h, r>>)
          PROVE  domains' \in Domains /\ \E s \in Waits : Becomes(a, s)
      <4> DEFINE conns == Flat[KeyIn(domains, <<d, h, r>>)]
                 alive == Retained(conns, live)
      <4>1. /\ conns \in Seq(Conn) /\ domains' \in Domains
            /\ Becomes(a, IF alive = <<>> THEN [is |-> "idle"]
                                          ELSE [is |-> "given", conn |-> Head(alive)])
            BY <1>5, <3>2, RouteIs, RouteAtIs
      <4>2. alive # <<>> => Head(alive) \in Conn
            BY <4>1, FirstOfRetained
      <4> HIDE DEF alive, conns
      <4>3. CASE alive = <<>>
            BY <4>1, <4>3 DEF Waits
      <4>4. CASE alive # <<>>
        <5>1. [is |-> "given", conn |-> Head(alive)] \in Waits
              BY <4>2, <4>4 DEF Waits
        <5> QED BY <4>1, <4>4, <5>1
      <4> QED BY <4>3, <4>4
    <3> QED BY <1>5, <3>1, <3>2, RouteIs
  <2>2. status' \in [Client -> Waits]
        BY <2>1 DEF Becomes
  <2> QED BY <1>5, <2>1, <2>2 DEF Route
<1>6. ASSUME NEW a \in Client, Done(a) PROVE IInv'
  <2>1. [is |-> "idle"] \in Waits
        BY DEF Waits
  <2> QED BY <1>6, <2>1 DEF Done, Becomes
<1>7. ASSUME NEW a \in Client, NEW req \in Request, Ask(a, req) PROVE IInv'
  <2>1. [is |-> "asking", req |-> req] \in Waits
        BY DEF Waits
  <2> QED BY <1>7, <2>1 DEF Ask, Becomes
<1>8. CASE UNCHANGED vars
      BY <1>8 DEF vars
<1> QED BY <1>1, <1>2, <1>3, <1>4, <1>5, <1>6, <1>7, <1>8 DEF Next

THEOREM Invariant == Spec => []IInv
BY InvariantHoldsFirst, InvariantStays, PTL DEF Spec

(* No route is in the vectors twice, whatever is configured, registered    *)
(* and asked (Services::add_preauthed).                                    *)
THEOREM NothingHidden == Spec => []NoHiddenEntry
<1>1. IInv => NoHiddenEntry
      BY NoneHidden DEF IInv
<1> QED BY <1>1, Invariant, PTL

-------------------------------------------------------------------------------
(* The implementation of Router: its operators are the ones of RouteTable  *)
(* under other names, and its table and configuration those of the vectors.*)

LEMMA SameCandidates ==
  \A t, cfg, q : R!Candidates(t, cfg, q) = Candidates(t, cfg, q)
  BY DEF R!Candidates, Candidates, R!Accepting, Accepting, R!BestDomain, BestDomain,
         R!Outranks, Outranks, R!NoAuthority, NoAuthority, R!IsSuffix, IsSuffix,
         R!IsPrefix, IsPrefix, R!Reverse, Reverse

LEMMA SameBest ==
  \A t, cfg, q : R!BestRoute(t, cfg, q) = BestRoute(t, cfg, q)
  BY SameCandidates DEF R!BestRoute, BestRoute

LEMMA SameFirst ==
  \A s, l : R!FirstLive(s, l) = FirstLive(s, l)
  BY DEF R!FirstLive, FirstLive

LEMMA SameRegistered ==
  \A t, r, c : R!Registered(t, r, c) = Registered(t, r, c)
  BY DEF R!Registered, Registered, R!Connections, Connections

LEMMA SameRetained ==
  \A s, l : R!Retained(s, l) = Retained(s, l)
  BY DEF R!Retained, Retained

LEMMA SameConfig ==
  /\ [i \in DOMAIN domains |-> domains[i].domain] = ConfigOf(domains)
  /\ [i \in DOMAIN domains |-> domains[i].domain]' = ConfigOf(domains')
  BY DEF ConfigOf

LEMMA UnroutedSame ==
  ASSUME UNCHANGED domains
  PROVE  Flat' = Flat /\ [i \in DOMAIN domains |-> domains[i].domain]'
                           = [i \in DOMAIN domains |-> domains[i].domain]
  BY SameFlat

LEMMA InitIs == Init => R!Init
<1> SUFFICES ASSUME Init PROVE R!Init
    OBVIOUS
<1>1. PICK cfg \in Configs : domains = [i \in DOMAIN cfg |-> ServiceDomain(cfg[i])]
      BY DEF Init
<1>2. cfg \in Seq(Name)
      BY ServicesAssumption
<1>3. \A i \in DOMAIN cfg : ServiceDomain(cfg[i]).domain = cfg[i]
                            /\ ServiceDomain(cfg[i]).hosts = <<>>
      BY DEF ServiceDomain
<1>4. [i \in DOMAIN domains |-> domains[i].domain] = cfg
  <2>1. cfg = [i \in DOMAIN cfg |-> cfg[i]]
        BY <1>2
  <2> QED BY <1>1, <1>3, <2>1
<1>5. DOMAIN Flat = {}
  <2>1. \A k, cs : ~InTable(domains, k, cs)
        BY <1>1, <1>3 DEF InTable, InDomain
  <2>2. domains \in Domains
        BY InvariantHoldsFirst DEF IInv
  <2>3. DOMAIN FlatOf(domains) = {}
        BY <2>1, <2>2, FlatIs
  <2> QED BY <2>3, SameFlat
<1>6. Flat = R!NoRoutes
  <2>1. Flat = [k \in DOMAIN Flat |-> Flat[k]]
    <3>1. domains \in Domains
          BY InvariantHoldsFirst DEF IInv
    <3> QED BY <3>1, FlatIs, SameFlat
  <2> QED BY <1>5, <2>1 DEF R!NoRoutes
<1> QED BY <1>4, <1>6 DEF Init, R!Init, R!Idle

(* A connection that is in the table is in a vector.                       *)
LEMMA ListedIs ==
  ASSUME IInv, NEW c, R!Listed(c)
  PROVE  c \in AllConnections
<1>1. PICK k \in DOMAIN Flat : \E i \in DOMAIN Flat[k] : Flat[k][i] = c
      BY DEF R!Listed
<1>2. k \in Keys /\ InTable(domains, k, Flat[k])
      BY <1>1, FlatIs, SameFlat DEF IInv
<1>3. PICK d, h, r : Has(domains, k, Flat[k], d, h, r)
      BY <1>2, InTableIs, Zenon
<1>4. c \in ToSet(domains[d].hosts[h].routes[r].connections)
      BY <1>1, <1>3 DEF ToSet, Has, ListIn
<1> QED BY <1>3, <1>4 DEF AllConnections, Has, IsEntry

LEMMA RouteSimulates ==
  ASSUME IInv, NEW a \in Client, Route(a)
  PROVE  R!Answer(a) \/ R!Refuse(a)
<1> DEFINE req == status[a].req
<1>1. /\ req \in Request
      /\ \/ NoPlace(domains, req) /\ UNCHANGED domains /\ Becomes(a, [is |-> "idle"])
         \/ \E d, h, r : IsPlace(domains, req, d, h, r) /\ RouteAt(a, <<d, h, r>>)
      BY RouteIs
<1>2. status[a].is = "asking" /\ UNCHANGED <<opened, live, granted>>
      BY DEF Route
<1>3. /\ Flat = FlatOf(domains)
      /\ [i \in DOMAIN domains |-> domains[i].domain] = ConfigOf(domains)
      /\ [i \in DOMAIN domains |-> domains[i].domain]' = ConfigOf(domains')
      BY SameFlat, SameConfig
<1> HIDE DEF req
<1>4. CASE NoPlace(domains, req) /\ UNCHANGED domains /\ Becomes(a, [is |-> "idle"])
  <2>1. R!Candidates(Flat, [i \in DOMAIN domains |-> domains[i].domain], req) = {}
        BY <1>3, <1>4, SameCandidates DEF NoPlace
  <2>2. R!Answers(req) = {}
        BY <2>1 DEF R!Answers
  <2>3. R!MayPrune(req) /\ ConfigOf(domains') = ConfigOf(domains)
        BY <1>4, UnroutedSame DEF R!MayPrune, ConfigOf
  <2>4. R!Becomes(a, R!Idle)
        BY <1>4 DEF Becomes, R!Becomes, R!Idle
  <2> QED BY <1>2, <1>3, <2>2, <2>3, <2>4 DEF R!Refuse, req
<1>5. ASSUME NEW d, NEW h, NEW r, IsPlace(domains, req, d, h, r), RouteAt(a, <<d, h, r>>)
      PROVE  R!Answer(a) \/ R!Refuse(a)
  <2> DEFINE k     == KeyIn(domains, <<d, h, r>>)
             conns == Flat[k]
             alive == Retained(conns, live)
  <2>1. /\ conns \in Seq(Conn) /\ k \in DOMAIN Flat
        /\ ConfigOf(domains') = ConfigOf(domains)
        /\ Flat' = [Flat EXCEPT ![k] = alive]
        /\ Becomes(a, IF alive = <<>> THEN [is |-> "idle"]
                                      ELSE [is |-> "given", conn |-> Head(alive)])
        BY <1>1, <1>5, RouteAtIs
  <2>2. /\ R!Candidates(Flat, [i \in DOMAIN domains |-> domains[i].domain], req) # {}
        /\ R!BestRoute(Flat, [i \in DOMAIN domains |-> domains[i].domain], req) = k
        BY <1>3, <1>5, SameCandidates, SameBest DEF IsPlace
  <2>3. R!Answers(req) = FirstLive(conns, live)
        BY <2>2, SameFirst DEF R!Answers
  <2>4. R!MayPrune(req)
        BY <2>1, <2>2, SameRetained DEF R!MayPrune
  <2>5. \/ alive = <<>> /\ FirstLive(conns, live) = {}
        \/ alive # <<>> /\ FirstLive(conns, live) = {Head(alive)}
        BY <2>1, FirstOfRetained
  <2> HIDE DEF alive, conns, k
  <2>6. CASE alive = <<>>
    <3>1. R!Becomes(a, R!Idle)
          BY <2>1, <2>6 DEF Becomes, R!Becomes, R!Idle
    <3> QED BY <1>2, <1>3, <2>1, <2>3, <2>4, <2>5, <2>6, <3>1 DEF R!Refuse, req
  <2>7. CASE alive # <<>>
    <3>1. R!Becomes(a, R!Given(Head(alive)))
          BY <2>1, <2>7 DEF Becomes, R!Becomes, R!Given
    <3>2. Head(alive) \in R!Answers(req)
          BY <2>3, <2>5, <2>7
    <3> QED BY <1>2, <1>3, <2>1, <2>4, <3>1, <3>2 DEF R!Answer, req
  <2> QED BY <2>6, <2>7
<1> QED BY <1>1, <1>4, <1>5

LEMMA AddPreauthedSimulates ==
  ASSUME IInv, NEW p \in Preauthed, NEW c \in Conn, AddPreauthed(p, c)
  PROVE  R!Register(p, c)
<1>1. ConfigOf(domains') = ConfigOf(domains) /\ Flat' = R!Registered(Flat, p, c)
      BY AddPreauthedIs, SameRegistered
<1>2. p \in granted /\ c \in live /\ ~R!Listed(c)
      BY ListedIs DEF AddPreauthed
<1>3. p.domain \in R!DomainsOf([i \in DOMAIN domains |-> domains[i].domain])
  <2>1. domains \in Seq(ADomain) /\ DomainIndex(domains, p) # 0
        BY DEF IInv, Domains, AddPreauthed
  <2>2. DOMAIN domains = 1..Len(domains) /\ Len(domains) \in Nat
        BY <2>1
  <2>3. DomainIndex(domains, p) \in DOMAIN domains
        /\ domains[DomainIndex(domains, p)].domain = p.domain
        BY <2>1, <2>2, DomainIndexIs
  <2> QED BY <2>3 DEF R!DomainsOf
<1>4. UNCHANGED <<opened, live, granted, status>>
      BY DEF AddPreauthed
<1> QED BY <1>1, <1>2, <1>3, <1>4, SameConfig DEF R!Register

LEMMA StepSimulates == IInv /\ [Next]_vars => [R!Next]_(R!vars)
<1> SUFFICES ASSUME IInv, [Next]_vars PROVE R!Next \/ UNCHANGED R!vars
    OBVIOUS
<1>1. ASSUME NEW p \in Preauthed, NEW secret \in Secret, Authenticate(p, secret)
      PROVE  R!Next
  <2>1. R!Grant(p)
        BY <1>1, UnroutedSame DEF Authenticate, R!Grant
  <2> QED BY <2>1 DEF R!Next
<1>2. ASSUME NEW p \in Preauthed, NEW c \in Conn, AddPreauthed(p, c) PROVE R!Next
      BY <1>2, AddPreauthedSimulates DEF R!Next
<1>3. ASSUME NEW c \in Conn, Connect(c) PROVE R!Next
  <2>1. R!Open(c)
        BY <1>3, UnroutedSame DEF Connect, R!Open
  <2> QED BY <2>1 DEF R!Next
<1>4. ASSUME NEW c \in Conn, Disconnect(c) PROVE R!Next
  <2>1. R!Close(c)
        BY <1>4, UnroutedSame DEF Disconnect, R!Close
  <2> QED BY <2>1 DEF R!Next
<1>5. ASSUME NEW a \in Client, Route(a) PROVE R!Next
      BY <1>5, RouteSimulates DEF R!Next
<1>6. ASSUME NEW a \in Client, Done(a) PROVE R!Next
  <2>1. R!Done(a)
        BY <1>6, UnroutedSame DEF Done, R!Done, Becomes, R!Becomes, R!Idle
  <2> QED BY <2>1 DEF R!Next
<1>7. ASSUME NEW a \in Client, NEW req \in Request, Ask(a, req) PROVE R!Next
  <2>1. status[a] = [is |-> "idle"]
        BY <1>7 DEF IInv, Waits, Ask
  <2>2. R!Ask(a, req)
        BY <1>7, <2>1, UnroutedSame DEF Ask, R!Ask, Becomes, R!Becomes, R!Idle, R!Asking
  <2> QED BY <2>2 DEF R!Next
<1>8. CASE UNCHANGED vars
      BY <1>8, UnroutedSame DEF vars, R!vars
<1> QED BY <1>1, <1>2, <1>3, <1>4, <1>5, <1>6, <1>7, <1>8 DEF Next

(* The nested vectors answer as one table would: every registration and    *)
(* every request of Services is the one step of Router.                    *)
THEOREM Refinement == Spec => ImplementsRouter
BY InitIs, StepSimulates, Invariant, PTL DEF Spec, ImplementsRouter, R!Spec

===============================================================================
