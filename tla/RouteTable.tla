------------------------------ MODULE RouteTable ------------------------------
(***************************************************************************)
(* The routing table of the load balancer as one partial function, and the *)
(* rules by which a registration enters it and a request is matched        *)
(* against it (src/service.rs).  The three nested vectors of the code      *)
(* (domains, hosts, routes) are flattened: a route is named by the record  *)
(* [domain, host, prefix] that a service registers under, and the table    *)
(* maps the routes created so far to their list of connections.  Module    *)
(* Services keeps the nested vectors and is shown to implement this view.  *)
(*                                                                         *)
(* Names (domains, hosts, prefixes, paths) are sequences of tokens; a      *)
(* token stands for a character, and the tests the code makes on strings   *)
(* (equality, ends_with, starts_with, len) are made on the sequences.      *)
(***************************************************************************)
EXTENDS Naturals, Sequences, SequencesExt, Retain

CONSTANTS
  Preauthed,  \* the registrations services ask for: [domain, host, prefix]
  Request,    \* the requests clients send: [host, path]
  Token       \* the characters names are made of

Name == Seq(Token)

(* A URI without an authority: `uri.authority_part()?` gives None. *)
NoAuthority == <<>>

ASSUME NamesAssumption ==
  /\ Preauthed \subseteq [domain : Name, host : Name, prefix : Name]
  /\ Request \subseteq [host : Name, path : Name]

-------------------------------------------------------------------------------
(* The configured domains are a sequence: the order of the vector decides  *)
(* between two matching domains of equal length (a stable sort, then the   *)
(* last element).                                                          *)

DomainsOf(config) == {config[i] : i \in DOMAIN config}

(* `s.domain.ends_with(host)`: the domain must end with the host. *)
Accepting(config, host) ==
  {i \in DOMAIN config : host # NoAuthority /\ IsSuffix(host, config[i])}

Outranks(config, i, j) ==
  \/ Len(config[i]) > Len(config[j])
  \/ Len(config[i]) = Len(config[j]) /\ i >= j

BestDomain(config, host) ==
  LET matching == Accepting(config, host)
  IN  config[CHOOSE i \in matching : \A j \in matching : Outranks(config, i, j)]

(* The routes a request may take: those of the best domain whose host is   *)
(* the requested one and whose prefix starts the requested path.           *)
Candidates(table, config, req) ==
  {r \in DOMAIN table :
     /\ Accepting(config, req.host) # {}
     /\ r.domain = BestDomain(config, req.host)
     /\ r.host = req.host
     /\ IsPrefix(r.prefix, req.path)}

(* The longest prefix wins, whether or not it has a live connection. *)
BestRoute(table, config, req) ==
  LET routes == Candidates(table, config, req)
  IN  CHOOSE r \in routes : \A o \in routes : Len(o.prefix) <= Len(r.prefix)

-------------------------------------------------------------------------------
(* The table the process starts with. *)
NoRoutes == [r \in {} |-> <<>>]

(* Registering connection c: the route is created when it is not there and *)
(* the connection goes to the end of its list.                             *)
Connections(table, r) == IF r \in DOMAIN table THEN table[r] ELSE <<>>

Registered(table, r, c) ==
  [x \in DOMAIN table \cup {r} |->
     IF x = r THEN Append(Connections(table, r), c) ELSE table[x]]

(* The connection that route() answers with: the first one of the list     *)
(* that can still be upgraded.                                             *)
FirstLive(conns, live) ==
  {conns[i] : i \in {j \in DOMAIN conns :
      /\ conns[j] \in live
      /\ \A n \in 1..(j - 1) : conns[n] \notin live}}

===============================================================================
