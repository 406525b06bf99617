------------------------------- MODULE Services -------------------------------
(***************************************************************************)
(* The data structure of src/service.rs as the code keeps it: a vector of  *)
(* domains, each with a vector of hosts, each with a vector of routes,     *)
(* each with a vector of weak references to connections.  Every operation  *)
(* is one call under the mutex; connections open and die between calls     *)
(* (LoadBalancer has the ones that die during a call).                     *)
(***************************************************************************)
EXTENDS RouteTable

CONSTANTS
  Client,    \* the callers of route
  Conn,      \* the service connections
  Secret,    \* the secrets registrations are sent with
  Configs,   \* the sequences of domains the process can be configured with
  SecretOf   \* the preshared key of each configured domain

ASSUME ServicesAssumption ==
  /\ Configs \subseteq Seq(Name)
  /\ \A cfg \in Configs : \A i, j \in DOMAIN cfg : cfg[i] = cfg[j] => i = j

VARIABLES
  domains,  \* Services.domains
  opened,   \* the connections opened so far
  live,     \* the ones whose strong reference exists
  granted,  \* the registrations whose secret was accepted
  status    \* what each caller waits for or was given

vars == <<domains, opened, live, granted, status>>

-------------------------------------------------------------------------------
(* The vectors.  iter().position() / find(): the first that passes, or 0.  *)

ServiceDomain(d) == [domain |-> d, hosts |-> <<>>]
ServiceHost(h)   == [host |-> h, routes |-> <<>>]
ServiceRoute(p)  == [prefix |-> p, connections |-> <<>>]

(* The domain of a registration: find(|s| p.is_same_domain(s)). *)
DomainIndex(doms, p) == SelectInSeq(doms, LAMBDA d : d.domain = p.domain)

(* Slip: the secret of any configured domain will do.                      *)
IsAnySecret(doms, p, secret) ==
  \E i \in DOMAIN doms : secret = SecretOf[doms[i].domain]

IsValidSecret(doms, p, secret) ==
  LET i == DomainIndex(doms, p)
  IN  i # 0 /\ secret = SecretOf[doms[i].domain]

(* The element a test finds, created at the end when there is none.        *)
FindOrPush(vec, Test(_), new) ==
  IF SelectInSeq(vec, Test) = 0 THEN Append(vec, new) ELSE vec

(* ServiceHost::add_preauthed. *)
AddToHost(host, p, c) ==
  LET same(r) == r.prefix = p.prefix
      routes  == FindOrPush(host.routes, same, ServiceRoute(p.prefix))
  IN  [host EXCEPT !.routes =
         [routes EXCEPT ![SelectInSeq(routes, same)].connections = Append(@, c)]]

(* Slip: a host is always pushed, never looked up.                         *)
AddToNewHost(domain, p, c) ==
  [domain EXCEPT !.hosts = Append(@, AddToHost(ServiceHost(p.host), p, c))]

(* ServiceDomain::add_preauthed. *)
AddToDomain(domain, p, c) ==
  LET same(h) == h.host = p.host
      hosts   == FindOrPush(domain.hosts, same, ServiceHost(p.host))
  IN  [domain EXCEPT !.hosts =
         [hosts EXCEPT ![SelectInSeq(hosts, same)] = AddToHost(@, p, c)]]

(* sort_by_key is stable and the best one is the last: the greatest        *)
(* length, and of those the greatest index.                                *)
LastLongest(indexes, Length(_)) ==
  CHOOSE i \in indexes : \A j \in indexes :
    Length(i) > Length(j) \/ (Length(i) = Length(j) /\ i >= j)

(* The place of the route a request takes, as <<domain, host, route>>      *)
(* indexes; the set is empty when a `?` of route() returns early.          *)
BestDomainAt(doms, host) ==
  LET matching == {i \in DOMAIN doms : host # NoAuthority /\ IsSuffix(host, doms[i].domain)}
  IN  IF matching = {} THEN 0
      ELSE LastLongest(matching, LAMBDA i : Len(doms[i].domain))

(* Slip: the first matching route, not the longest.                        *)
FirstRouteAt(routes, path) ==
  SelectInSeq(routes, LAMBDA r : IsPrefix(r.prefix, path))

BestRouteAt(routes, path) ==
  LET matching == {i \in DOMAIN routes : IsPrefix(routes[i].prefix, path)}
  IN  IF matching = {} THEN 0
      ELSE LastLongest(matching, LAMBDA i : Len(routes[i].prefix))

Places(doms, req) ==
  LET d == BestDomainAt(doms, req.host)
      h == IF d = 0 THEN 0
           ELSE SelectInSeq(doms[d].hosts, LAMBDA x : x.host = req.host)
      r == IF h = 0 THEN 0 ELSE BestRouteAt(doms[d].hosts[h].routes, req.path)
  IN  IF r = 0 THEN {} ELSE {<<d, h, r>>}

-------------------------------------------------------------------------------
Init ==
  /\ \E cfg \in Configs : domains = [i \in DOMAIN cfg |-> ServiceDomain(cfg[i])]
  /\ opened = {} /\ live = {} /\ granted = {}
  /\ status = [a \in Client |-> [is |-> "idle"]]

Becomes(a, s) == status' = [status EXCEPT ![a] = s]

Authenticate(p, secret) ==
  /\ IsValidSecret(domains, p, secret)
  /\ granted' = granted \cup {p}
  /\ UNCHANGED <<domains, opened, live, status>>

Connect(c) ==
  /\ c \notin opened
  /\ opened' = opened \cup {c} /\ live' = live \cup {c}
  /\ UNCHANGED <<domains, granted, status>>

Disconnect(c) ==
  /\ live' = live \ {c}
  /\ UNCHANGED <<domains, opened, granted, status>>

AllConnections ==
  UNION {UNION {UNION {ToSet(domains[d].hosts[h].routes[r].connections) :
    r \in DOMAIN domains[d].hosts[h].routes} :
    h \in DOMAIN domains[d].hosts} : d \in DOMAIN domains}

(* Services::add_preauthed, for a connection that was just made.           *)
AddPreauthed(p, c) ==
  /\ p \in granted
  /\ c \in live \ AllConnections
  /\ DomainIndex(domains, p) # 0
  /\ domains' = [domains EXCEPT ![DomainIndex(domains, p)] = AddToDomain(@, p, c)]
  /\ UNCHANGED <<opened, live, granted, status>>

Ask(a, req) ==
  /\ status[a].is = "idle"
  /\ Becomes(a, [is |-> "asking", req |-> req])
  /\ UNCHANGED <<domains, opened, live, granted>>

(* Services::route: retain the live ones, answer the first of them.        *)
RouteAt(a, place) ==
  LET d == place[1]  h == place[2]  r == place[3]
      alive == Retained(domains[d].hosts[h].routes[r].connections, live)
  IN  /\ domains' = [domains EXCEPT ![d].hosts[h].routes[r].connections = alive]
      /\ Becomes(a, IF alive = <<>> THEN [is |-> "idle"]
                                    ELSE [is |-> "given", conn |-> Head(alive)])

Route(a) ==
  /\ status[a].is = "asking"
  /\ LET places == Places(domains, status[a].req)
     IN  IF places = {} THEN Becomes(a, [is |-> "idle"]) /\ UNCHANGED domains
         ELSE \E place \in places : RouteAt(a, place)
  /\ UNCHANGED <<opened, live, granted>>

Done(a) ==
  /\ status[a].is = "given"
  /\ Becomes(a, [is |-> "idle"])
  /\ UNCHANGED <<domains, opened, live, granted>>

Next ==
  \/ \E p \in Preauthed, secret \in Secret : Authenticate(p, secret)
  \/ \E p \in Preauthed, c \in Conn : AddPreauthed(p, c)
  \/ \E c \in Conn : Connect(c) \/ Disconnect(c)
  \/ \E a \in Client : Route(a) \/ Done(a) \/ \E req \in Request : Ask(a, req)

Spec == Init /\ [][Next]_vars

-------------------------------------------------------------------------------
(* The table that the vectors stand for.                                   *)
Entries ==
  UNION {UNION {{<<d, h, r>> : r \in DOMAIN domains[d].hosts[h].routes} :
    h \in DOMAIN domains[d].hosts} : d \in DOMAIN domains}

KeyOf(e) ==
  [domain |-> domains[e[1]].domain,
   host   |-> domains[e[1]].hosts[e[2]].host,
   prefix |-> domains[e[1]].hosts[e[2]].routes[e[3]].prefix]

Flat ==
  [k \in {KeyOf(e) : e \in Entries} |->
     LET e == CHOOSE e \in Entries : KeyOf(e) = k
     IN  domains[e[1]].hosts[e[2]].routes[e[3]].connections]

(* No route is in the vectors twice: find-or-push never creates a second   *)
(* entry that position() would then hide (add_preauthed).                  *)
NoHiddenEntry == \A e, f \in Entries : KeyOf(e) = KeyOf(f) => e = f

R == INSTANCE Router WITH
       table <- Flat, config <- [i \in DOMAIN domains |-> domains[i].domain]

(* The nested vectors behave as the flat table does: find-or-push is one   *)
(* update of it, and the filters, stable sorts and last() of route() pick  *)
(* the route and the connection that the flat rules name.                  *)
ImplementsRouter == R!Spec

(* "`a.b.c.com` might match `b.c.com` and `c.com`": a request is not       *)
(* refused when a live connection serves exactly its host under a domain   *)
(* that the host ends with.                                                *)
Served(req) ==
  \E k \in DOMAIN Flat :
    /\ k.host = req.host /\ IsSuffix(k.domain, req.host) /\ IsPrefix(k.prefix, req.path)
    /\ \A o \in DOMAIN Flat :
         o.host = req.host /\ IsPrefix(o.prefix, req.path) => o = k
    /\ \E i \in DOMAIN Flat[k] : Flat[k][i] \in live

SubdomainsAreServed ==
  [][\A a \in Client :
       status[a].is = "asking" /\ Served(status[a].req) => status'[a].is # "idle"]_vars

===============================================================================
