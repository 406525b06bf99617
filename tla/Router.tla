-------------------------------- MODULE Router --------------------------------
(***************************************************************************)
(* What the routing of the load balancer promises, with no mutex and no    *)
(* scan in steps: each request is answered in one step, with the first     *)
(* connection of the best route that is alive at that moment, or refused   *)
(* in one step because there is none.  Registrations enter the table only  *)
(* when they were granted, in the order in which they are added; only dead *)
(* connections ever leave it.  LoadBalancer and Services implement it.     *)
(***************************************************************************)
EXTENDS RouteTable

CONSTANTS
  Client,   \* the sources of requests, one request at a time each
  Conn,     \* the service connections
  Configs   \* the configurations the process can be started with

VARIABLES
  config,   \* the configured domains
  table,    \* the routes and their connections
  opened,   \* the connections opened so far
  live,     \* the ones that are alive
  granted,  \* the registrations that carried the right secret
  status    \* what each client is at

vars == <<config, table, opened, live, granted, status>>

Idle       == [is |-> "idle"]
Dead       == [is |-> "dead"]
Asking(r)  == [is |-> "asking", req |-> r]
Given(c)   == [is |-> "given", conn |-> c]

Becomes(a, s) == status' = [status EXCEPT ![a] = s]

Init ==
  /\ config \in Configs
  /\ table = NoRoutes
  /\ opened = {} /\ live = {} /\ granted = {}
  /\ status = [a \in Client |-> Idle]

Grant(r) ==
  /\ granted' = granted \cup {r}
  /\ UNCHANGED <<config, table, opened, live, status>>

Open(c) ==
  /\ c \notin opened
  /\ opened' = opened \cup {c}
  /\ live' = live \cup {c}
  /\ UNCHANGED <<config, table, granted, status>>

Close(c) ==
  /\ live' = live \ {c}
  /\ UNCHANGED <<config, table, opened, granted, status>>

Listed(c) == \E r \in DOMAIN table : \E i \in DOMAIN table[r] : table[r][i] = c

Register(r, c) ==
  /\ r \in granted
  /\ r.domain \in DomainsOf(config)
  /\ c \in live /\ ~Listed(c)
  /\ table' = Registered(table, r, c)
  /\ UNCHANGED <<config, opened, live, granted, status>>

(* A dead connection is forgotten at any time. *)
Forget(r, i) ==
  /\ table[r][i] \notin live
  /\ table' = [table EXCEPT ![r] = RemoveAt(@, i)]
  /\ UNCHANGED <<config, opened, live, granted, status>>

Ask(a, req) ==
  /\ status[a] = Idle
  /\ Becomes(a, Asking(req))
  /\ UNCHANGED <<config, table, opened, live, granted>>

(* The connections the request can be answered with: one, or none. *)
Answers(req) ==
  IF Candidates(table, config, req) = {}
    THEN {}
    ELSE FirstLive(table[BestRoute(table, config, req)], live)

(* Answering may forget the dead connections of the best route with it. *)
MayPrune(req) ==
  \/ table' = table
  \/ /\ Candidates(table, config, req) # {}
     /\ table' = [table EXCEPT ![BestRoute(table, config, req)] = Retained(@, live)]

Answer(a) ==
  /\ status[a].is = "asking"
  /\ MayPrune(status[a].req)
  /\ \E c \in Answers(status[a].req) : Becomes(a, Given(c))
  /\ UNCHANGED <<config, opened, live, granted>>

Refuse(a) ==
  /\ status[a].is = "asking"
  /\ MayPrune(status[a].req)
  /\ Answers(status[a].req) = {}
  /\ Becomes(a, Idle)
  /\ UNCHANGED <<config, opened, live, granted>>

Done(a) ==
  /\ status[a].is = "given"
  /\ Becomes(a, Idle)
  /\ UNCHANGED <<config, table, opened, live, granted>>

(* A client's thread panics; the connection it was adding goes with it. *)
Crash(a) ==
  /\ Becomes(a, Dead)
  /\ live' = live \/ \E c \in live : live' = live \ {c}
  /\ UNCHANGED <<config, table, opened, granted>>

Restart ==
  /\ config' \in Configs
  /\ table' = NoRoutes
  /\ live' = {}
  /\ status' = [a \in Client |-> Idle]
  /\ UNCHANGED <<opened, granted>>

Next ==
  \/ Restart
  \/ \E r \in Preauthed : Grant(r)
  \/ \E c \in Conn : Open(c) \/ Close(c)
  \/ \E r \in Preauthed, c \in Conn : Register(r, c)
  \/ \E r \in DOMAIN table : \E i \in DOMAIN table[r] : Forget(r, i)
  \/ \E a \in Client :
       \/ Answer(a) \/ Refuse(a) \/ Done(a) \/ Crash(a)
       \/ \E req \in Request : Ask(a, req)

Spec == Init /\ [][Next]_vars

===============================================================================
