----------------------------- MODULE LoadBalancer -----------------------------
(***************************************************************************)
(* The load balancer of src/lib.rs: threads that each run accept_incoming  *)
(* on the shared Arc<Mutex<LoadBalancer>>.  A thread takes one connection  *)
(* at a time and handles it to the end before it accepts the next:         *)
(*                                                                         *)
(*   - a client connection (HTTP/1.1 or HTTP/2) whose requests are routed  *)
(*     to service connections, one after the other;                        *)
(*   - an HTTP/2 connection whose first request registers a service: the   *)
(*     secret is checked and a reconnect key is saved with the             *)
(*     registration (the "preauthed" record);                              *)
(*   - a connection that begins with "lolb" and a reconnect key: the saved *)
(*     record is loaded, the connection becomes a service connection and   *)
(*     enters the routing table as a weak reference.                       *)
(*                                                                         *)
(* What the peers send, what the persistence answers and what the h2       *)
(* library makes of a connection is nondeterministic.                      *)
(***************************************************************************)
EXTENDS RouteTable

CONSTANTS
  Acceptor,    \* the threads running accept_incoming
  Conn,        \* the service connections that can be opened; bounds the model
  Key,         \* the reconnect keys that can be drawn
  Secret,      \* the secrets registrations are sent with
  Configs,     \* the configurations the process can be started with
  SecretOf,    \* the preshared key of each configured domain
  NodeRegister,\* PATH_NODE_REGISTER
  NoRecord,    \* nothing is saved under a key
  MaxRestarts  \* bound on the restarts of the process

ASSUME LoadBalancerAssumption ==
  /\ Configs \subseteq Seq(Name) /\ Configs # {}
  /\ \A cfg \in Configs : \A i, j \in DOMAIN cfg : cfg[i] = cfg[j] => i = j
  /\ NoRecord \notin Preauthed
  /\ MaxRestarts \in Nat

VARIABLES
  lock,      \* the holder of the mutex: {} or {a}
  poisoned,  \* a thread panicked while it held the mutex
  config,    \* the configured domains
  table,     \* the routing table (LoadBalancer.services)
  strong,    \* the service connections whose Arc is still held
  store,     \* the preauthed records in the persistence, by reconnect key
  task,      \* what each thread is doing, with the values it has in hand
  opened,    \* history: the service connections ever opened
  granted,   \* history: registrations sent with the right secret
  restarts

vars == <<lock, poisoned, config, table, strong, store, task, opened,
          granted, restarts>>

-------------------------------------------------------------------------------
(* The stages of a thread; the ones in Holding hold the mutex.             *)

Idle      == [pc : {"accept", "stopped", "dead"}]
Peeking   == [pc : {"incoming", "version"}]
Serving   == [pc : {"serve"}, authOpen : BOOLEAN]
Routing   == [pc : {"route"}, req : Request]
Scanning  == [pc : {"prune", "find", "upgrade"}, req : Request,
              route : Preauthed, at : Nat \ {0}]
Sending   == [pc : {"send"}, conn : Conn]
Authing   == [pc : {"auth"}]
Checking  == [pc : {"check"}, rec : Preauthed, secret : Secret]
Saving    == [pc : {"save", "saved"}, rec : Preauthed, key : Key]
Loading   == [pc : {"load", "loading"}, key : Key]
Handshake == [pc : {"handshake"}, rec : Preauthed]
Adding    == [pc : {"add"}, rec : Preauthed, conn : Conn]
Added     == [pc : {"added"}, conn : Conn]

Task == Idle \cup Peeking \cup Serving \cup Routing \cup Scanning \cup Sending
        \cup Authing \cup Checking \cup Saving \cup Loading \cup Handshake
        \cup Adding \cup Added

Holding == {"loading", "prune", "find", "upgrade"}

At(a, stage) == task[a].pc = stage

Becomes(a, t) == task' = [task EXCEPT ![a] = t]

Goes(a, stage) == Becomes(a, [pc |-> stage])

(* An error of handle_incoming is logged and the loop goes on. *)
Finish(a) == Goes(a, "accept")

(* Slip: a poisoned mutex is taken all the same (PoisonError::into_inner). *)
CanLockPoisoned == lock = {}

(* Slip: a thread that meets a poisoned mutex waits for it.                *)
LockWaits(a) == FALSE

(* lb.lock().unwrap(): waits for the mutex and panics if it is poisoned. *)
CanLock == lock = {} /\ ~poisoned

LockPanics(a) == lock = {} /\ poisoned /\ Goes(a, "dead")

-------------------------------------------------------------------------------
Init ==
  /\ lock = {}
  /\ poisoned = FALSE
  /\ config \in Configs
  /\ table = NoRoutes
  /\ strong = {}
  /\ store = [k \in Key |-> NoRecord]
  /\ task = [a \in Acceptor |-> [pc |-> "accept"]]
  /\ opened = {}
  /\ granted = {}
  /\ restarts = 0

shared == <<lock, poisoned, config, table, strong, store, opened, granted, restarts>>

(* provider.accept(): the next connection, or an error that ends the loop. *)
Accept(a) ==
  /\ At(a, "accept")
  /\ Goes(a, "incoming") \/ Goes(a, "stopped")
  /\ UNCHANGED shared

(* The first 12 bytes: too few of them, "lolb" and a key, or a client. *)
HandleIncoming(a) ==
  /\ At(a, "incoming")
  /\ \/ Finish(a)
     \/ \E k \in Key : Becomes(a, [pc |-> "load", key |-> k])
     \/ Goes(a, "version")
  /\ UNCHANGED shared

(* HTTP version and handshake; only HTTP/2 looks for a service auth. *)
HandleClient(a) ==
  /\ At(a, "version")
  /\ \/ Finish(a)
     \/ \E http2 \in BOOLEAN : Becomes(a, [pc |-> "serve", authOpen |-> http2])
  /\ UNCHANGED shared

IsServiceAuth(req) == req.path = NodeRegister

(* The next request of the connection, or its end or failure. *)
NextRequest(a) ==
  /\ At(a, "serve")
  /\ \/ Finish(a)
     \/ \E req \in Request :
          IF task[a].authOpen /\ IsServiceAuth(req)
            THEN Goes(a, "auth")
            ELSE Becomes(a, [pc |-> "route", req |-> req])
  /\ UNCHANGED shared

-------------------------------------------------------------------------------
(* handle_service_auth: the body (at most 100 KB of JSON) and the header    *)
(* are read without the mutex; the secret is checked under it; the save     *)
(* works on a clone of the persistence, again without the mutex.            *)

Auth(a) ==
  /\ At(a, "auth")
  /\ \/ Finish(a) /\ UNCHANGED granted
     \/ \E rec \in Preauthed, s \in Secret :
          /\ Becomes(a, [pc |-> "check", rec |-> rec, secret |-> s])
          /\ granted' = granted \cup (IF s = SecretOf[rec.domain] THEN {rec} ELSE {})
  /\ UNCHANGED <<lock, poisoned, config, table, strong, store, opened,
                 restarts>>

(* Slip: the secret is not compared.                                       *)
IsConfigured(rec, s) == rec.domain \in DomainsOf(config)

IsValidSecret(rec, s) ==
  rec.domain \in DomainsOf(config) /\ s = SecretOf[rec.domain]

CheckSecret(a) ==
  /\ At(a, "check")
  /\ \/ LockPanics(a)
     \/ /\ CanLock
        /\ LET t == task[a]
           IN  IF IsValidSecret(t.rec, t.secret)
                 THEN \E k \in Key :
                        Becomes(a, [pc |-> "save", rec |-> t.rec, key |-> k])
                 ELSE Finish(a)
  /\ UNCHANGED shared

(* The persistence writes the record, and then answers; it may also answer *)
(* an error without having written, or after it has.                       *)
StoreWrite(a) ==
  /\ At(a, "save")
  /\ store' = [store EXCEPT ![task[a].key] = task[a].rec]
  /\ Becomes(a, [task[a] EXCEPT !.pc = "saved"])
  /\ UNCHANGED <<lock, poisoned, config, table, strong, opened, granted, restarts>>

(* Whatever the answer, the connection is closed: the key is never sent to *)
(* the service.  A dropped sender makes rx.recv().expect panic, without    *)
(* the mutex.                                                              *)
SaveReply(a) ==
  /\ task[a].pc \in {"save", "saved"}
  /\ Finish(a) \/ Goes(a, "dead")
  /\ UNCHANGED shared

-------------------------------------------------------------------------------
(* A connection that sent "lolb": the record is loaded while the guard of  *)
(* the mutex is alive, for the whole time the persistence takes.           *)

LoadKey(a) ==
  /\ At(a, "load")
  /\ \/ LockPanics(a) /\ UNCHANGED lock
     \/ /\ CanLock
        /\ lock' = {a}
        /\ Becomes(a, [task[a] EXCEPT !.pc = "loading"])
  /\ UNCHANGED <<poisoned, config, table, strong, store, opened, granted,
                 restarts>>

Found(a) ==
  LET k == task[a].key
  IN  /\ store[k] # NoRecord
      /\ Becomes(a, [pc |-> "handshake", rec |-> store[k]])
      /\ UNCHANGED poisoned

NotFound(a) ==
  /\ Finish(a)
  /\ UNCHANGED poisoned

(* A dropped sender: the panic poisons the mutex that is held.             *)
LoadPanics(a) ==
  /\ poisoned' = TRUE
  /\ Goes(a, "dead")

(* Slip: the guard outlives a load that finds nothing.                     *)
LoadReplyKeepsLock(a) ==
  /\ At(a, "loading")
  /\ \/ lock' = {} /\ (Found(a) \/ LoadPanics(a))
     \/ lock' = lock /\ NotFound(a)
  /\ UNCHANGED <<config, table, strong, store, opened, granted, restarts>>

(* The persistence answers: a record, none or an error, or nothing ever.   *)
LoadReply(a) ==
  /\ At(a, "loading")
  /\ lock' = {}
  /\ Found(a) \/ NotFound(a) \/ LoadPanics(a)
  /\ UNCHANGED <<config, table, strong, store, opened, granted, restarts>>

(* Slip: a connection that was opened before is handed out again.          *)
HandshakeReuses(a) ==
  /\ At(a, "handshake")
  /\ \/ Finish(a) /\ UNCHANGED <<opened, strong>>
     \/ \E c \in Conn :
          /\ opened' = opened \cup {c}
          /\ strong' = strong \cup {c}
          /\ Becomes(a, [pc |-> "add", rec |-> task[a].rec, conn |-> c])
  /\ UNCHANGED <<lock, poisoned, config, table, store, granted, restarts>>

(* The twelve bytes are discarded and the h2 client handshake is made; the *)
(* new ServiceConnection is owned by the drive closure.                    *)
HandshakeStep(a) ==
  /\ At(a, "handshake")
  /\ \/ Finish(a) /\ UNCHANGED <<opened, strong>>
     \/ \E c \in Conn \ opened :
          /\ opened' = opened \cup {c}
          /\ strong' = strong \cup {c}
          /\ Becomes(a, [pc |-> "add", rec |-> task[a].rec, conn |-> c])
  /\ UNCHANGED <<lock, poisoned, config, table, store, granted, restarts>>

AddPreauthed(a) ==
  /\ task[a].rec.domain \in DomainsOf(config)
  /\ table' = Registered(table, task[a].rec, task[a].conn)
  /\ Becomes(a, [pc |-> "added", conn |-> task[a].conn])
  /\ UNCHANGED <<poisoned, strong>>

(* expect("Preauthed for not configured domain"), under the mutex.         *)
NotConfigured(a) ==
  /\ task[a].rec.domain \notin DomainsOf(config)
  /\ poisoned' = TRUE
  /\ strong' = strong \ {task[a].conn}
  /\ Goes(a, "dead")
  /\ UNCHANGED table

Add(a) ==
  /\ At(a, "add")
  /\ \/ /\ LockPanics(a)
        /\ strong' = strong \ {task[a].conn}
        /\ UNCHANGED <<table, poisoned>>
     \/ CanLock /\ (AddPreauthed(a) \/ NotConfigured(a))
  /\ UNCHANGED <<lock, config, store, opened, granted, restarts>>

(* The function returns.  The drive closure is not spawned, so it is       *)
(* dropped here, and the strong reference with it.                         *)
DropDrive(a) ==
  /\ At(a, "added")
  /\ strong' = strong \ {task[a].conn}
  /\ Finish(a)
  /\ UNCHANGED <<lock, poisoned, config, table, store, opened, granted,
                 restarts>>

-------------------------------------------------------------------------------
(* request_to_service and Services::route.  The mutex is held while the    *)
(* list of the route is scanned, but strong references are dropped without *)
(* it: a connection may die between any two looks at it.                   *)

Release(a) == lock' = {}

(* Slip: the scan of the pruned list starts from index 0.                  *)
ScanFromZero(a, stage, n) ==
  /\ Becomes(a, [task[a] EXCEPT !.pc = stage, !.at = IF n = 1 THEN 0 ELSE n])
  /\ UNCHANGED lock

Scan(a, stage, n) ==
  /\ Becomes(a, [task[a] EXCEPT !.pc = stage, !.at = n])
  /\ UNCHANGED lock

RouteLock(a) ==
  /\ At(a, "route")
  /\ \/ LockPanics(a) /\ UNCHANGED lock
     \/ /\ CanLock
        /\ LET req == task[a].req
           IN  IF Candidates(table, config, req) = {}
                 THEN Finish(a) /\ UNCHANGED lock
                 ELSE /\ lock' = {a}
                      /\ Becomes(a, [pc |-> "prune", req |-> req, at |-> 1,
                                     route |-> BestRoute(table, config, req)])
  /\ UNCHANGED <<poisoned, config, table, strong, store, opened, granted,
                 restarts>>

Conns(a) == table[task[a].route]

IsLive(a) == Conns(a)[task[a].at] \in strong

(* connections.retain(|c| c.upgrade().is_some()), one element at a time,   *)
(* and the test for emptiness that follows it.                             *)
Prune(a) ==
  /\ At(a, "prune")
  /\ \/ /\ task[a].at \in DOMAIN Conns(a) /\ IsLive(a)
        /\ Scan(a, "prune", task[a].at + 1)
        /\ UNCHANGED table
     \/ /\ task[a].at \in DOMAIN Conns(a) /\ ~IsLive(a)
        /\ table' = [table EXCEPT ![task[a].route] = RemoveAt(@, task[a].at)]
        /\ UNCHANGED <<task, lock>>
     \/ /\ task[a].at \notin DOMAIN Conns(a) /\ Conns(a) # <<>>
        /\ Scan(a, "find", 1)
        /\ UNCHANGED table
     \/ /\ Conns(a) = <<>>
        /\ Finish(a) /\ Release(a)
        /\ UNCHANGED table
  /\ UNCHANGED <<poisoned, config, strong, store, opened, granted, restarts>>

(* Slip: when none is found the list is searched again, not pruned.        *)
FindAgain(a) ==
  /\ At(a, "find")
  /\ \/ /\ task[a].at \in DOMAIN Conns(a) /\ IsLive(a)
        /\ Scan(a, "upgrade", task[a].at)
     \/ /\ task[a].at \in DOMAIN Conns(a) /\ ~IsLive(a)
        /\ Scan(a, "find", task[a].at + 1)
     \/ /\ task[a].at \notin DOMAIN Conns(a)
        /\ Scan(a, "find", 1)
  /\ UNCHANGED <<poisoned, config, table, strong, store, opened, granted,
                 restarts>>

(* iter().find(|c| c.upgrade().is_some()); when every one died since the   *)
(* pruning, the loop starts again.                                         *)
Find(a) ==
  /\ At(a, "find")
  /\ \/ /\ task[a].at \in DOMAIN Conns(a) /\ IsLive(a)
        /\ Scan(a, "upgrade", task[a].at)
     \/ /\ task[a].at \in DOMAIN Conns(a) /\ ~IsLive(a)
        /\ Scan(a, "find", task[a].at + 1)
     \/ /\ task[a].at \notin DOMAIN Conns(a)
        /\ Scan(a, "prune", 1)
  /\ UNCHANGED <<poisoned, config, table, strong, store, opened, granted,
                 restarts>>

(* Slip: the connection that was found is answered without a second look.  *)
UpgradeBlindly(a) ==
  /\ At(a, "upgrade")
  /\ Becomes(a, [pc |-> "send", conn |-> Conns(a)[task[a].at]])
  /\ Release(a)
  /\ UNCHANGED <<poisoned, config, table, strong, store, opened, granted,
                 restarts>>

(* and_then(|c| c.upgrade()): the one found may have died since.           *)
Upgrade(a) ==
  /\ At(a, "upgrade")
  /\ \/ /\ IsLive(a)
        /\ Becomes(a, [pc |-> "send", conn |-> Conns(a)[task[a].at]])
        /\ Release(a)
     \/ ~IsLive(a) /\ Scan(a, "prune", 1)
  /\ UNCHANGED <<poisoned, config, table, strong, store, opened, granted,
                 restarts>>

(* The request goes out on a clone of the h2 SendRequest; an error of the  *)
(* service or of the response ends the client connection.  A connection    *)
(* that goes between ready() and h2.send_request() makes unwrap panic,     *)
(* without the mutex.                                                      *)
Send(a) ==
  /\ At(a, "send")
  /\ \/ Finish(a)
     \/ Becomes(a, [pc |-> "serve", authOpen |-> FALSE])
     \/ Goes(a, "dead")
  /\ UNCHANGED shared

-------------------------------------------------------------------------------
(* The process is stopped and started again, with a configuration that may *)
(* be another one: only what the persistence holds is left.                *)
Restart ==
  /\ restarts < MaxRestarts
  /\ restarts' = restarts + 1
  /\ lock' = {}
  /\ poisoned' = FALSE
  /\ config' \in Configs
  /\ table' = NoRoutes
  /\ strong' = {}
  /\ task' = [a \in Acceptor |-> [pc |-> "accept"]]
  /\ UNCHANGED <<store, opened, granted>>

(* Routing under the mutex. *)
Scanner(a) == Prune(a) \/ Find(a) \/ Upgrade(a)

Serve(a) ==
  HandleClient(a) \/ NextRequest(a) \/ RouteLock(a) \/ Scanner(a) \/ Send(a)

Registration(a) == Auth(a) \/ CheckSecret(a) \/ StoreWrite(a) \/ SaveReply(a)

Reconnect(a) ==
  LoadKey(a) \/ LoadReply(a) \/ HandshakeStep(a) \/ Add(a) \/ DropDrive(a)

Thread(a) ==
  Accept(a) \/ HandleIncoming(a) \/ Serve(a) \/ Registration(a) \/ Reconnect(a)

Next == Restart \/ \E a \in Acceptor : Thread(a)

Spec == Init /\ [][Next]_vars

(* The operating system runs a thread that is not blocked, and the         *)
(* persistence answers a load that was asked.  Nothing is assumed of the   *)
(* peers, of saves, or of who gets the mutex next.                         *)
FairSpec == Spec /\ \A a \in Acceptor : WF_vars(Scanner(a)) /\ WF_vars(LoadReply(a))

-------------------------------------------------------------------------------
(* Every variable has the type its declaration describes. *)
TypeOK ==
  /\ lock \subseteq Acceptor
  /\ poisoned \in BOOLEAN
  /\ config \in Configs
  /\ DOMAIN table \subseteq Preauthed
  /\ table \in [DOMAIN table -> Seq(Conn)]
  /\ strong \subseteq opened /\ opened \subseteq Conn
  /\ store \in [Key -> Preauthed \cup {NoRecord}]
  /\ task \in [Acceptor -> Task]
  /\ granted \subseteq Preauthed
  /\ restarts \in 0..MaxRestarts

(* The mutex is held exactly by the thread that waits for the persistence  *)
(* or scans a list, by one at a time: a panic, an error return or a dead   *)
(* list never leaves it locked behind (every `return`, `?` and expect      *)
(* between lock() and the end of the guard's scope).                       *)
MutexHeld ==
  /\ \A a \in Acceptor : a \in lock <=> task[a].pc \in Holding
  /\ \A a, b \in lock : a = b

(* A service is in the routing table only under a registration that was    *)
(* sent with the secret of its domain, whichever keys were drawn, however  *)
(* registrations and reconnections interleave and whatever was restarted   *)
(* in between (handle_service_auth, load_preauthed, add_preauthed).        *)
OnlyAuthorised == DOMAIN table \subseteq granted

(* A service connection is registered at most once, under one route.       *)
RegisteredOnce ==
  \A r, s \in DOMAIN table : \A i \in DOMAIN table[r], j \in DOMAIN table[s] :
    table[r][i] = table[s][j] => r = s /\ i = j

(* Once a thread has panicked with the mutex in its hands, nothing is      *)
(* registered, authorised, loaded or routed until the process restarts:    *)
(* one lost answer of the persistence takes the whole balancer out.        *)
PoisonStopsAll ==
  [][poisoned /\ restarts' = restarts =>
       /\ table' = table /\ poisoned' /\ lock' = {}
       /\ \A a \in Acceptor :
            task'[a].pc \in {"save", "handshake", "added", "send"} =>
              task'[a].pc = task[a].pc]_vars

(* As long as a thread has neither been stopped nor panicked, some thread  *)
(* can take a step: a panic with the mutex held wakes those that wait for  *)
(* it, and no two threads wait for each other.                             *)
NoThreadStuck ==
  (\E a \in Acceptor : task[a].pc \notin {"stopped", "dead"}) => ENABLED Next

(* What follows for a balancer with one thread: it never answers a         *)
(* request, as the connections in its table have died with the calls that  *)
(* registered them (src/lib.rs, add_preauthed_service).                    *)
SoleThreadNeverRoutes ==
  (\A a, b \in Acceptor : a = b) => \A a \in Acceptor : ~At(a, "send")

(* A thread that holds the mutex gives it back: the loop of route() ends   *)
(* although connections die while it runs, and a load ends when the        *)
(* persistence answers.                                                    *)
MutexReleased == lock # {} ~> lock = {}

-------------------------------------------------------------------------------
(* The abstract specification: requests answered atomically.               *)

Status(a) ==
  LET t == task[a]
  IN  CASE t.pc \in {"route", "prune", "find", "upgrade"} ->
             [is |-> "asking", req |-> t.req]
        [] t.pc = "send" -> [is |-> "given", conn |-> t.conn]
        [] t.pc = "dead" -> [is |-> "dead"]
        [] OTHER -> [is |-> "idle"]

R == INSTANCE Router WITH
       Client <- Acceptor, live <- strong,
       status <- [a \in Acceptor |-> Status(a)]

(* The scan of a list in steps, against connections that die between them, *)
(* answers as an atomic look at the table would: with the first live       *)
(* connection of the best route, and with none only when none is alive.    *)
RoutesAtomically == R!Spec

-------------------------------------------------------------------------------
(* What comments of the code say, and the code does not do.                *)

(* "we shouldn't be able to have created a preauthed instance for a domain *)
(* that doesn't exist".                                                    *)
ConfiguredDomain ==
  \A a \in Acceptor :
    At(a, "add") => task[a].rec.domain \in DomainsOf(config)

===============================================================================
