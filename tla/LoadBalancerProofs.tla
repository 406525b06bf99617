-------------------------- MODULE LoadBalancerProofs --------------------------
(***************************************************************************)
(* Theorems about LoadBalancer, for any number of threads, connections,    *)
(* keys, registrations, configurations and restarts.                       *)
(***************************************************************************)
EXTENDS LoadBalancer, SequenceLemmas

-------------------------------------------------------------------------------
(* The rules of the routing table.                                         *)

(* Of the records whose prefix starts a given path, one has the longest    *)
(* prefix: no prefix is longer than the path.                              *)
LEMMA LongestPrefix ==
  ASSUME NEW path \in Name, NEW routes \in SUBSET Preauthed, routes # {},
         \A r \in routes : IsPrefix(r.prefix, path)
  PROVE  \E r \in routes : \A o \in routes : Len(o.prefix) <= Len(r.prefix)
<1> DEFINE Left == {Len(path) - Len(r.prefix) : r \in routes}
<1>1. \A r \in routes : Len(r.prefix) \in Nat /\ Len(r.prefix) <= Len(path)
      BY NamesAssumption DEF IsPrefix, Name
<1>2. Len(path) \in Nat
      BY DEF Name
<1>3. Left \in SUBSET Nat /\ Left # {}
      BY <1>1, <1>2
<1>4. PICK m \in Left : \A k \in Left : m <= k
      BY <1>3, LeastNat
<1>5. PICK r \in routes : m = Len(path) - Len(r.prefix)
      BY <1>4
<1>6. ASSUME NEW o \in routes PROVE Len(o.prefix) <= Len(r.prefix)
  <2>1. m <= Len(path) - Len(o.prefix)
        BY <1>4
  <2> QED BY <1>1, <1>2, <1>5, <2>1
<1> QED BY <1>6

(* The route that route() picks is one of those the request may take, and  *)
(* no other of them has a longer prefix (sort_by_key and last, lines       *)
(* 121-129 of src/service.rs).                                             *)
LEMMA BestRouteIsBest ==
  ASSUME NEW t, DOMAIN t \subseteq Preauthed, NEW cfg, NEW req \in Request,
         Candidates(t, cfg, req) # {}
  PROVE  LET best == BestRoute(t, cfg, req)
         IN  /\ best \in Candidates(t, cfg, req)
             /\ \A r \in Candidates(t, cfg, req) :
                  Len(r.prefix) <= Len(best.prefix)
<1> DEFINE routes == Candidates(t, cfg, req)
<1>1. routes \in SUBSET Preauthed /\ \A r \in routes : IsPrefix(r.prefix, req.path)
      BY DEF Candidates
<1>2. req.path \in Name
      BY NamesAssumption
<1>3. \E r \in routes : \A o \in routes : Len(o.prefix) <= Len(r.prefix)
      BY <1>1, <1>2, LongestPrefix
<1> QED BY <1>3 DEF BestRoute

-------------------------------------------------------------------------------
(* The stage of a thread says which values it has in hand.                 *)
LEMMA StageOf ==
  ASSUME NEW t \in Task
  PROVE  /\ t.pc = "serve" => t \in Serving
         /\ t.pc = "route" => t \in Routing
         /\ t.pc \in {"prune", "find", "upgrade"} => t \in Scanning
         /\ t.pc = "send" => t \in Sending
         /\ t.pc = "check" => t \in Checking
         /\ t.pc \in {"save", "saved"} => t \in Saving
         /\ t.pc \in {"load", "loading"} => t \in Loading
         /\ t.pc = "handshake" => t \in Handshake
         /\ t.pc = "add" => t \in Adding
         /\ t.pc = "added" => t \in Added
  BY DEF Task, Idle, Peeking, Serving, Routing, Scanning, Sending, Authing,
         Checking, Saving, Loading, Handshake, Adding, Added

(* A thread that goes to another stage leaves the other threads alone.     *)
LEMMA BecomesType ==
  task \in [Acceptor -> Task] =>
    \A a \in Acceptor, t \in Task :
      Becomes(a, t) => task' \in [Acceptor -> Task]
  BY DEF Becomes

(* The stages that carry no value are stages.                              *)
LEMMA BareStages ==
  \A stage \in {"accept", "stopped", "dead", "incoming", "version", "auth"} :
    [pc |-> stage] \in Task
  BY DEF Task, Idle, Peeking, Authing

-------------------------------------------------------------------------------
(* Type correctness: every action keeps every variable in its type.        *)
LEMMA TypeStep == TypeOK /\ [Next]_vars => TypeOK'
<1> SUFFICES ASSUME TypeOK, [Next]_vars PROVE TypeOK'
    OBVIOUS
<1>0. task \in [Acceptor -> Task]
      BY DEF TypeOK
<1>1. CASE Restart
  <2>1. table' \in [DOMAIN table' -> Seq(Conn)] /\ DOMAIN table' \subseteq Preauthed
        BY <1>1 DEF Restart, NoRoutes
  <2>2. restarts' \in 0..MaxRestarts
        BY <1>1, LoadBalancerAssumption DEF Restart, TypeOK
  <2>3. task' \in [Acceptor -> Task]
    <3>1. [pc |-> "accept"] \in Task
          BY BareStages
    <3> QED BY <1>1, <3>1 DEF Restart
  <2> QED BY <1>1, <2>1, <2>2, <2>3 DEF Restart, TypeOK
<1>2. ASSUME NEW a \in Acceptor, Accept(a) PROVE TypeOK'
      BY <1>0, <1>2, BecomesType, BareStages DEF Accept, Goes, TypeOK, shared
<1>3. ASSUME NEW a \in Acceptor, HandleIncoming(a) PROVE TypeOK'
  <2>1. \A k \in Key : [pc |-> "load", key |-> k] \in Task
        BY DEF Task, Loading
  <2> QED BY <1>0, <1>3, <2>1, BecomesType, BareStages
          DEF HandleIncoming, Finish, Goes, TypeOK, shared
<1>4. ASSUME NEW a \in Acceptor, Serve(a) PROVE TypeOK'
  <2>0. \A b \in BOOLEAN : [pc |-> "serve", authOpen |-> b] \in Task
        BY DEF Task, Serving
  <2>1. CASE HandleClient(a)
        BY <1>0, <2>0, <2>1, BecomesType, BareStages
        DEF HandleClient, Finish, Goes, TypeOK, shared
  <2>2. CASE NextRequest(a)
    <3>1. \A q \in Request : [pc |-> "route", req |-> q] \in Task
          BY DEF Task, Routing
    <3> QED BY <1>0, <2>2, <3>1, BecomesType, BareStages
            DEF NextRequest, Finish, Goes, TypeOK, shared
  <2>3. CASE RouteLock(a)
    <3>0. task[a] \in Routing
          BY <1>0, <2>3, StageOf DEF RouteLock, At
    <3>1. Candidates(table, config, task[a].req) # {} =>
            BestRoute(table, config, task[a].req) \in Preauthed
      <4>1. task[a].req \in Request /\ DOMAIN table \subseteq Preauthed
            BY <3>0 DEF TypeOK, Routing
      <4> QED BY <4>1, BestRouteIsBest DEF Candidates
    <3>2. ASSUME NEW r \in Preauthed
          PROVE  [pc |-> "prune", req |-> task[a].req, at |-> 1, route |-> r] \in Task
          BY <3>0 DEF Task, Routing, Scanning
    <3> QED BY <1>0, <2>3, <3>1, <3>2, BecomesType, BareStages
            DEF RouteLock, LockPanics, Finish, Goes, TypeOK
  <2>4. CASE Scanner(a)
    <3>0. task[a] \in Scanning
          BY <1>0, <2>4, StageOf DEF Scanner, Prune, Find, Upgrade, At
    <3>1. \A stage \in {"prune", "find", "upgrade"}, n \in Nat \ {0} :
            Scan(a, stage, n) => task' \in [Acceptor -> Task] /\ lock' = lock
      <4> SUFFICES ASSUME NEW stage \in {"prune", "find", "upgrade"}, NEW n \in Nat \ {0},
                          Scan(a, stage, n)
                   PROVE  task' \in [Acceptor -> Task] /\ lock' = lock
          OBVIOUS
      <4>1. [task[a] EXCEPT !.pc = stage, !.at = n] \in Scanning
            BY <3>0 DEF Scanning
      <4>2. [task[a] EXCEPT !.pc = stage, !.at = n] \in Task
            BY <4>1 DEF Task
      <4> QED BY <1>0, <4>2 DEF Scan, Becomes
    <3>2. task[a].at \in Nat \ {0} /\ task[a].at + 1 \in Nat \ {0}
          BY <3>0 DEF Scanning
    <3>3. CASE Prune(a)
      <4>1. CASE table' = table
        <5>1. CASE Scan(a, "prune", task[a].at + 1) \/ Scan(a, "find", 1)
              BY <3>1, <3>2, <3>3, <4>1, <5>1 DEF Prune, TypeOK
        <5>2. CASE Finish(a) /\ Release(a)
              BY <1>0, <3>3, <4>1, <5>2, BecomesType, BareStages
              DEF Prune, Release, Finish, Goes, TypeOK
        <5>3. CASE UNCHANGED <<task, lock>>
              BY <3>3, <4>1, <5>3 DEF Prune, TypeOK
        <5> QED BY <3>3, <4>1, <5>1, <5>2, <5>3 DEF Prune
      <4>2. CASE /\ task[a].at \in DOMAIN Conns(a)
                 /\ table' = [table EXCEPT ![task[a].route] = RemoveAt(@, task[a].at)]
                 /\ UNCHANGED <<task, lock>>
        <5>1. CASE task[a].route \in DOMAIN table
          <6>1. table[task[a].route] \in Seq(Conn)
                BY <5>1 DEF TypeOK
          <6>2. RemoveAt(table[task[a].route], task[a].at) \in Seq(Conn)
                BY <4>2, <6>1, RemoveAtElements DEF Conns
          <6>3. /\ DOMAIN table' = DOMAIN table
                /\ table' \in [DOMAIN table -> Seq(Conn)]
                BY <4>2, <6>2 DEF TypeOK
          <6> QED BY <3>3, <4>2, <6>3 DEF Prune, TypeOK
        <5>2. CASE task[a].route \notin DOMAIN table
          <6>1. table' = table
                BY <4>2, <5>2 DEF TypeOK
          <6> QED BY <3>3, <4>2, <6>1 DEF Prune, TypeOK
        <5> QED BY <5>1, <5>2
      <4> QED BY <3>3, <4>1, <4>2 DEF Prune
    <3>4. CASE Find(a)
          BY <3>1, <3>2, <3>4 DEF Find, TypeOK
    <3>5. CASE Upgrade(a)
      <4>1. Conns(a)[task[a].at] \in Conn =>
              [pc |-> "send", conn |-> Conns(a)[task[a].at]] \in Task
            BY DEF Task, Sending
      <4>2. IsLive(a) => Conns(a)[task[a].at] \in Conn
            BY DEF IsLive, TypeOK
      <4>3. CASE IsLive(a)
            BY <1>0, <3>5, <4>1, <4>2, <4>3, BecomesType DEF Upgrade, Release, TypeOK
      <4>4. CASE ~IsLive(a)
            BY <3>1, <3>5, <4>4 DEF Upgrade, TypeOK
      <4> QED BY <4>3, <4>4
    <3> QED BY <2>4, <3>3, <3>4, <3>5 DEF Scanner
  <2>5. CASE Send(a)
        BY <1>0, <2>0, <2>5, BecomesType, BareStages DEF Send, Finish, Goes, TypeOK, shared
  <2> QED BY <1>4, <2>1, <2>2, <2>3, <2>4, <2>5 DEF Serve
<1>5. ASSUME NEW a \in Acceptor, Registration(a) PROVE TypeOK'
  <2>1. CASE Auth(a)
    <3>1. \A rec \in Preauthed, s \in Secret :
            [pc |-> "check", rec |-> rec, secret |-> s] \in Task
          BY DEF Task, Checking
    <3> QED BY <1>0, <2>1, <3>1, BecomesType, BareStages
            DEF Auth, Finish, Goes, TypeOK
  <2>2. CASE CheckSecret(a)
    <3>0. task[a] \in Checking
          BY <1>0, <2>2, StageOf DEF CheckSecret, At
    <3>1. \A k \in Key : [pc |-> "save", rec |-> task[a].rec, key |-> k] \in Task
          BY <3>0 DEF Task, Checking, Saving
    <3> QED BY <1>0, <2>2, <3>1, BecomesType, BareStages
            DEF CheckSecret, LockPanics, Finish, Goes, TypeOK, shared
  <2>3. CASE StoreWrite(a)
    <3>0. task[a] \in Saving
          BY <1>0, <2>3, StageOf DEF StoreWrite, At
    <3>1. [task[a] EXCEPT !.pc = "saved"] \in Task
          BY <3>0 DEF Task, Saving
    <3> QED BY <1>0, <2>3, <3>0, <3>1, BecomesType DEF StoreWrite, TypeOK, Saving
  <2>4. CASE SaveReply(a)
        BY <1>0, <2>4, BecomesType, BareStages DEF SaveReply, Finish, Goes, TypeOK, shared
  <2> QED BY <1>5, <2>1, <2>2, <2>3, <2>4 DEF Registration
<1>6. ASSUME NEW a \in Acceptor, Reconnect(a) PROVE TypeOK'
  <2>1. CASE LoadKey(a)
    <3>0. task[a] \in Loading
          BY <1>0, <2>1, StageOf DEF LoadKey, At
    <3>1. [task[a] EXCEPT !.pc = "loading"] \in Task
          BY <3>0 DEF Task, Loading
    <3> QED BY <1>0, <2>1, <3>1, BecomesType, BareStages
            DEF LoadKey, LockPanics, Goes, TypeOK
  <2>2. CASE LoadReply(a)
    <3>0. task[a] \in Loading
          BY <1>0, <2>2, StageOf DEF LoadReply, At
    <3>1. \A rec \in Preauthed : [pc |-> "handshake", rec |-> rec] \in Task
          BY DEF Task, Handshake
    <3> QED BY <1>0, <2>2, <3>0, <3>1, BecomesType, BareStages
            DEF LoadReply, Found, NotFound, LoadPanics, Finish, Goes, TypeOK, Loading
  <2>3. CASE HandshakeStep(a)
    <3>0. task[a] \in Handshake
          BY <1>0, <2>3, StageOf DEF HandshakeStep, At
    <3>1. \A c \in Conn : [pc |-> "add", rec |-> task[a].rec, conn |-> c] \in Task
          BY <3>0 DEF Task, Handshake, Adding
    <3> QED BY <1>0, <2>3, <3>1, BecomesType, BareStages
            DEF HandshakeStep, Finish, Goes, TypeOK
  <2>4. CASE Add(a)
    <3>0. task[a] \in Adding
          BY <1>0, <2>4, StageOf DEF Add, At
    <3>1. [pc |-> "added", conn |-> task[a].conn] \in Task
          BY <3>0 DEF Task, Adding, Added
    <3>2. DOMAIN table \subseteq Preauthed /\ table \in [DOMAIN table -> Seq(Conn)]
          BY DEF TypeOK
    <3>3. ASSUME NEW u, u = Registered(table, task[a].rec, task[a].conn)
          PROVE  DOMAIN u \subseteq Preauthed /\ u \in [DOMAIN u -> Seq(Conn)]
      <4>1. task[a].rec \in Preauthed /\ task[a].conn \in Conn
            BY <3>0 DEF Adding
      <4>2. /\ DOMAIN u = DOMAIN table \cup {task[a].rec}
            /\ u \in [DOMAIN table \cup {task[a].rec} -> Seq(Conn)]
            BY <3>2, <3>3, <4>1 DEF Registered, Connections
      <4> QED BY <3>2, <4>1, <4>2
    <3>4. CASE \/ LockPanics(a) /\ strong' = strong \ {task[a].conn}
                               /\ UNCHANGED <<table, poisoned>>
               \/ CanLock /\ NotConfigured(a)
      <4>1. task' \in [Acceptor -> Task]
            BY <1>0, <3>4, BecomesType, BareStages DEF LockPanics, NotConfigured, Goes
      <4>2. table' = table /\ strong' \subseteq strong /\ poisoned' \in BOOLEAN
            BY <2>4, <3>4 DEF NotConfigured, TypeOK
      <4> QED BY <2>4, <4>1, <4>2 DEF Add, TypeOK
    <3>5. CASE AddPreauthed(a)
      <4>1. task' \in [Acceptor -> Task]
            BY <1>0, <3>1, <3>5, BecomesType DEF AddPreauthed
      <4>2. DOMAIN table' \subseteq Preauthed /\ table' \in [DOMAIN table' -> Seq(Conn)]
            BY <3>3, <3>5 DEF AddPreauthed
      <4> QED BY <2>4, <3>5, <4>1, <4>2 DEF Add, AddPreauthed, TypeOK
    <3> QED BY <2>4, <3>4, <3>5 DEF Add
  <2>5. CASE DropDrive(a)
        BY <1>0, <2>5, BecomesType, BareStages DEF DropDrive, Finish, Goes, TypeOK
  <2> QED BY <1>6, <2>1, <2>2, <2>3, <2>4, <2>5 DEF Reconnect
<1>7. CASE UNCHANGED vars
      BY <1>7 DEF vars, TypeOK
<1> QED BY <1>1, <1>2, <1>3, <1>4, <1>5, <1>6, <1>7 DEF Next, Thread

LEMMA TypeInit == Init => TypeOK
<1> SUFFICES ASSUME Init PROVE TypeOK
    OBVIOUS
<1>1. [pc |-> "accept"] \in Task
      BY BareStages
<1>2. task \in [Acceptor -> Task]
      BY <1>1 DEF Init
<1>3. DOMAIN table \subseteq Preauthed /\ table \in [DOMAIN table -> Seq(Conn)]
      BY DEF Init, NoRoutes
<1>4. restarts \in 0..MaxRestarts
      BY LoadBalancerAssumption DEF Init
<1> QED BY <1>2, <1>3, <1>4 DEF Init, TypeOK

(* Every variable keeps its type in every behaviour.                       *)
THEOREM TypeCorrect == Spec => []TypeOK
<1>1. Init => TypeOK
      BY TypeInit
<1>2. TypeOK /\ [Next]_vars => TypeOK'
      BY TypeStep
<1> QED BY <1>1, <1>2, PTL DEF Spec

-------------------------------------------------------------------------------
(* A step of one thread leaves the others where they are.                  *)
OthersStay(a) == \A b \in Acceptor : b # a => task'[b] = task[b]

LEMMA ThreadFrame ==
  ASSUME TypeOK, NEW a \in Acceptor, Thread(a)
  PROVE  OthersStay(a) /\ DOMAIN task' = Acceptor
<1>0. task \in [Acceptor -> Task]
      BY DEF TypeOK
<1>1. CASE Accept(a) \/ HandleIncoming(a)
      BY <1>0, <1>1 DEF Accept, HandleIncoming, Finish, Goes, Becomes, OthersStay
<1>2. CASE HandleClient(a) \/ NextRequest(a) \/ Send(a)
      BY <1>0, <1>2 DEF HandleClient, NextRequest, Send, Finish, Goes, Becomes, OthersStay
<1>3. CASE RouteLock(a)
      BY <1>0, <1>3 DEF RouteLock, LockPanics, Finish, Goes, Becomes, OthersStay
<1>4. CASE Scanner(a)
      BY <1>0, <1>4 DEF Scanner, Prune, Find, Upgrade, Scan, Finish, Goes, Becomes,
                        OthersStay
<1>5. CASE Registration(a)
      BY <1>0, <1>5 DEF Registration, Auth, CheckSecret, StoreWrite, SaveReply,
                        LockPanics, Finish, Goes, Becomes, OthersStay
<1>6. CASE LoadKey(a) \/ LoadReply(a)
      BY <1>0, <1>6 DEF LoadKey, LoadReply, Found, NotFound, LoadPanics, LockPanics,
                        Finish, Goes, Becomes, OthersStay
<1>7. CASE HandshakeStep(a) \/ Add(a) \/ DropDrive(a)
      BY <1>0, <1>7 DEF HandshakeStep, Add, AddPreauthed, NotConfigured, DropDrive,
                        LockPanics, Finish, Goes, Becomes, OthersStay
<1> QED BY <1>1, <1>2, <1>3, <1>4, <1>5, <1>6, <1>7 DEF Thread, Serve, Reconnect

-------------------------------------------------------------------------------
(* The mutex.  A thread that leaves it alone neither enters nor leaves the *)
(* stages that hold it; the ones that take it find it free; the ones that  *)
(* release it were the holder.                                             *)

Quiet(a) ==
  lock' = lock /\ (task[a].pc \in Holding <=> task'[a].pc \in Holding)

LEMMA QuietSteps ==
  ASSUME TypeOK, NEW a \in Acceptor,
         \/ Accept(a) \/ HandleIncoming(a) \/ HandleClient(a) \/ NextRequest(a)
         \/ Send(a) \/ Registration(a) \/ HandshakeStep(a) \/ Add(a) \/ DropDrive(a)
  PROVE  Quiet(a)
<1>0. task \in [Acceptor -> Task]
      BY DEF TypeOK
<1>1. CASE Accept(a) \/ HandleIncoming(a)
      BY <1>0, <1>1 DEF Accept, HandleIncoming, Finish, Goes, Becomes, At, Holding,
                        Quiet, shared
<1>2. CASE HandleClient(a) \/ NextRequest(a) \/ Send(a)
      BY <1>0, <1>2 DEF HandleClient, NextRequest, Send, Finish, Goes, Becomes, At,
                        Holding, Quiet, shared
<1>3. CASE Registration(a)
  <2>1. CASE StoreWrite(a)
        BY <1>0, <2>1 DEF StoreWrite, Becomes, At, Holding, Quiet
  <2>2. CASE Auth(a) \/ CheckSecret(a) \/ SaveReply(a)
        BY <1>0, <2>2 DEF Auth, CheckSecret, SaveReply, LockPanics, Finish, Goes,
                          Becomes, At, Holding, Quiet, shared
  <2> QED BY <1>3, <2>1, <2>2 DEF Registration
<1>4. CASE HandshakeStep(a) \/ Add(a) \/ DropDrive(a)
      BY <1>0, <1>4 DEF HandshakeStep, Add, AddPreauthed, NotConfigured, DropDrive,
                        LockPanics, Finish, Goes, Becomes, At, Holding, Quiet
<1> QED BY <1>1, <1>2, <1>3, <1>4

LEMMA MutexStep == TypeOK /\ MutexHeld /\ [Next]_vars => MutexHeld'
<1> SUFFICES ASSUME TypeOK, MutexHeld, [Next]_vars PROVE MutexHeld'
    OBVIOUS
<1>0. task \in [Acceptor -> Task] /\ lock \subseteq Acceptor
      BY DEF TypeOK
<1>1. CASE Restart
      BY <1>1 DEF Restart, MutexHeld, Holding
<1>2. ASSUME NEW a \in Acceptor, Thread(a) PROVE MutexHeld'
  <2>1. OthersStay(a)
        BY <1>2, ThreadFrame
  <2>2. CASE Quiet(a)
        BY <2>1, <2>2, <1>0 DEF Quiet, OthersStay, MutexHeld
  <2>3. CASE /\ lock = {} /\ lock' = {a}
             /\ task'[a].pc \in Holding
        BY <2>1, <2>3 DEF OthersStay, MutexHeld
  <2>4. CASE /\ task[a].pc \in Holding /\ lock' = {}
             /\ task'[a].pc \notin Holding
        BY <2>1, <2>4 DEF OthersStay, MutexHeld
  <2>5. CASE LoadKey(a)
    <3>1. CASE LockPanics(a)
          BY <1>0, <2>2, <2>5, <3>1 DEF LoadKey, LockPanics, Goes, Becomes, At,
                                        Holding, Quiet
    <3>2. CASE ~LockPanics(a)
      <4>1. task[a] \in Loading
            BY <1>0, <2>5, StageOf DEF LoadKey, At
      <4> QED BY <1>0, <2>3, <2>5, <3>2, <4>1
              DEF LoadKey, CanLock, Becomes, At, Holding, Loading
    <3> QED BY <3>1, <3>2
  <2>6. CASE LoadReply(a)
        BY <1>0, <2>4, <2>6 DEF LoadReply, Found, NotFound, LoadPanics, Finish, Goes,
                                Becomes, At, Holding
  <2>7. CASE RouteLock(a)
    <3>1. CASE lock' = lock
          BY <1>0, <2>2, <2>7, <3>1 DEF RouteLock, LockPanics, CanLock, Finish, Goes,
                                        Becomes, At, Holding, Quiet
    <3>2. CASE lock' # lock
          BY <1>0, <2>3, <2>7, <3>2 DEF RouteLock, CanLock, Becomes, At, Holding
    <3> QED BY <3>1, <3>2
  <2>8. CASE Scanner(a)
    <3>1. task[a].pc \in Holding
          BY <2>8 DEF Scanner, Prune, Find, Upgrade, At, Holding
    <3>2. \A stage \in {"prune", "find", "upgrade"} : \A n :
            Scan(a, stage, n) => task'[a].pc \in Holding /\ lock' = lock
      <4>1. task[a] \in Scanning
            BY <1>0, <2>8, StageOf DEF Scanner, Prune, Find, Upgrade, At
      <4> QED BY <1>0, <4>1 DEF Scan, Becomes, Holding, Scanning
    <3>3. CASE Prune(a)
      <4>1. CASE Scan(a, "prune", task[a].at + 1) \/ Scan(a, "find", 1)
            BY <2>2, <3>1, <3>2, <4>1 DEF Quiet
      <4>2. CASE UNCHANGED <<task, lock>>
            BY <2>2, <4>2 DEF Quiet
      <4>3. CASE Finish(a) /\ Release(a)
            BY <1>0, <2>4, <3>1, <4>3 DEF Finish, Release, Goes, Becomes, Holding
      <4> QED BY <3>3, <4>1, <4>2, <4>3 DEF Prune
    <3>4. CASE Find(a)
          BY <2>2, <3>1, <3>2, <3>4 DEF Find, Quiet
    <3>5. CASE Upgrade(a)
      <4>1. CASE Scan(a, "prune", 1)
            BY <2>2, <3>1, <3>2, <4>1 DEF Quiet
      <4>2. CASE ~Scan(a, "prune", 1)
            BY <1>0, <2>4, <3>1, <3>5, <4>2 DEF Upgrade, Release, Becomes, Holding
      <4> QED BY <4>1, <4>2
    <3> QED BY <2>8, <3>3, <3>4, <3>5 DEF Scanner
  <2> QED BY <1>2, <2>2, <2>5, <2>6, <2>7, <2>8, QuietSteps
          DEF Thread, Serve, Reconnect
<1>3. CASE UNCHANGED vars
      BY <1>3 DEF vars, MutexHeld
<1> QED BY <1>1, <1>2, <1>3 DEF Next

(* The mutex is held by the one thread that is between its lock() and the  *)
(* end of the guard's scope, and by nobody else, in every behaviour.       *)
THEOREM MutualExclusion == Spec => []MutexHeld
<1>1. Init => MutexHeld
      BY DEF Init, MutexHeld, Holding
<1>2. TypeOK /\ MutexHeld /\ [Next]_vars => MutexHeld'
      BY MutexStep
<1> QED BY <1>1, <1>2, TypeCorrect, PTL DEF Spec

-------------------------------------------------------------------------------
(* Authorisation.  The table is only as good as the records on their way   *)
(* to it: those a thread has in hand once the secret was checked, and      *)
(* those in the persistence.                                               *)

VouchedStore == \A k \in Key : store[k] # NoRecord => store[k] \in granted

VouchedHands ==
  \A a \in Acceptor :
    /\ task[a].pc \in {"save", "saved", "handshake", "add"} => task[a].rec \in granted
    /\ task[a].pc = "check" /\ task[a].secret = SecretOf[task[a].rec.domain]
         => task[a].rec \in granted

Vouched == VouchedStore /\ VouchedHands /\ OnlyAuthorised

(* What a thread has in hand after its step. *)
HandsOk(a) ==
  /\ task'[a].pc \in {"save", "saved", "handshake", "add"} => task'[a].rec \in granted'
  /\ task'[a].pc = "check" /\ task'[a].secret = SecretOf[task'[a].rec.domain]
       => task'[a].rec \in granted'

(* Nothing is taken out of granted, and the table keeps its routes.        *)
Untouched == store' = store /\ granted' = granted /\ DOMAIN table' = DOMAIN table

LEMMA VouchedStep == TypeOK /\ Vouched /\ [Next]_vars => Vouched'
<1> SUFFICES ASSUME TypeOK, Vouched, [Next]_vars PROVE Vouched'
    OBVIOUS
<1>0. task \in [Acceptor -> Task]
      BY DEF TypeOK
<1>1. CASE Restart
      BY <1>1 DEF Restart, NoRoutes, Vouched, VouchedStore, VouchedHands, OnlyAuthorised
<1>2. ASSUME NEW a \in Acceptor, Thread(a) PROVE Vouched'
  <2>0. OthersStay(a)
        BY <1>2, ThreadFrame
  <2>1. ASSUME granted \subseteq granted', HandsOk(a) PROVE VouchedHands'
        BY <2>0, <2>1 DEF OthersStay, HandsOk, Vouched, VouchedHands
  <2>2. CASE Untouched /\ HandsOk(a)
        BY <2>1, <2>2 DEF Untouched, Vouched, VouchedStore, OnlyAuthorised
  <2>3. CASE Accept(a) \/ HandleIncoming(a) \/ HandleClient(a) \/ NextRequest(a) \/ Send(a)
        BY <1>0, <2>2, <2>3 DEF Accept, HandleIncoming, HandleClient, NextRequest, Send,
             Finish, Goes, Becomes, shared, Untouched, HandsOk
  <2>4. CASE RouteLock(a)
        BY <1>0, <2>2, <2>4 DEF RouteLock, LockPanics, Finish, Goes, Becomes, Untouched,
             HandsOk
  <2>5. CASE Scanner(a)
    <3>0. task[a] \in Scanning
          BY <1>0, <2>5, StageOf DEF Scanner, Prune, Find, Upgrade, At
    <3>1. \A stage \in {"prune", "find", "upgrade"} : \A n :
            Scan(a, stage, n) => HandsOk(a)
          BY <1>0, <3>0 DEF Scan, Becomes, HandsOk, Scanning
    <3>2. CASE Prune(a)
      <4>1. store' = store /\ granted' = granted /\ DOMAIN table' = DOMAIN table
            BY <3>2 DEF Prune, TypeOK
      <4>2. HandsOk(a)
        <5>1. CASE Finish(a)
              BY <1>0, <5>1 DEF Finish, Goes, Becomes, HandsOk
        <5>2. CASE UNCHANGED <<task, lock>>
              BY <3>0, <5>2 DEF HandsOk, Scanning
        <5> QED BY <3>1, <3>2, <5>1, <5>2 DEF Prune
      <4> QED BY <2>2, <4>1, <4>2 DEF Untouched
    <3>3. CASE Find(a)
          BY <2>2, <3>1, <3>3 DEF Find, Untouched
    <3>4. CASE Upgrade(a)
          BY <1>0, <2>2, <3>1, <3>4 DEF Upgrade, Becomes, HandsOk, Untouched
    <3> QED BY <2>5, <3>2, <3>3, <3>4 DEF Scanner
  <2>6. CASE Auth(a)
        BY <1>0, <2>1, <2>6 DEF Auth, Finish, Goes, Becomes, HandsOk, Vouched,
             VouchedStore, OnlyAuthorised
  <2>7. CASE CheckSecret(a)
    <3>1. task[a] \in Checking
          BY <1>0, <2>7, StageOf DEF CheckSecret, At
    <3>2. IsValidSecret(task[a].rec, task[a].secret) => task[a].rec \in granted
          BY <2>7 DEF CheckSecret, At, IsValidSecret, Vouched, VouchedHands
    <3> QED BY <1>0, <2>2, <2>7, <3>1, <3>2 DEF CheckSecret, LockPanics, Finish, Goes,
               Becomes, shared, Untouched, HandsOk
  <2>8. CASE StoreWrite(a)
    <3>1. task[a] \in Saving /\ task[a].rec \in granted
          BY <1>0, <2>8, StageOf DEF StoreWrite, At, Vouched, VouchedHands
    <3>2. VouchedStore'
          BY <2>8, <3>1 DEF StoreWrite, TypeOK, Vouched, VouchedStore
    <3>3. HandsOk(a)
          BY <1>0, <2>8, <3>1 DEF StoreWrite, Becomes, HandsOk, Saving
    <3> QED BY <2>1, <2>8, <3>2, <3>3 DEF StoreWrite, Vouched, OnlyAuthorised
  <2>9. CASE SaveReply(a)
        BY <1>0, <2>2, <2>9 DEF SaveReply, Finish, Goes, Becomes, shared, Untouched, HandsOk
  <2>10. CASE LoadKey(a)
    <3>1. task[a] \in Loading
          BY <1>0, <2>10, StageOf DEF LoadKey, At
    <3> QED BY <1>0, <2>2, <2>10, <3>1 DEF LoadKey, LockPanics, Goes, Becomes, Untouched,
               HandsOk, Loading
  <2>11. CASE LoadReply(a)
    <3>1. task[a] \in Loading
          BY <1>0, <2>11, StageOf DEF LoadReply, At
    <3>2. store[task[a].key] # NoRecord => store[task[a].key] \in granted
          BY <3>1 DEF Loading, Vouched, VouchedStore
    <3> QED BY <1>0, <2>2, <2>11, <3>2 DEF LoadReply, Found, NotFound, LoadPanics, Finish,
               Goes, Becomes, Untouched, HandsOk
  <2>12. CASE HandshakeStep(a)
    <3>1. task[a].rec \in granted
          BY <2>12 DEF HandshakeStep, At, Vouched, VouchedHands
    <3> QED BY <1>0, <2>2, <2>12, <3>1 DEF HandshakeStep, Finish, Goes, Becomes, Untouched,
               HandsOk
  <2>13. CASE Add(a)
    <3>1. task[a].rec \in granted
          BY <2>13 DEF Add, At, Vouched, VouchedHands
    <3>2. HandsOk(a) /\ store' = store /\ granted' = granted
          BY <1>0, <2>13 DEF Add, AddPreauthed, NotConfigured, LockPanics, Goes, Becomes,
               HandsOk
    <3>3. DOMAIN table' \subseteq DOMAIN table \cup {task[a].rec}
          BY <2>13 DEF Add, AddPreauthed, NotConfigured, Registered
    <3> QED BY <2>1, <3>1, <3>2, <3>3 DEF Vouched, VouchedStore, OnlyAuthorised
  <2>14. CASE DropDrive(a)
        BY <1>0, <2>2, <2>14 DEF DropDrive, Finish, Goes, Becomes, Untouched, HandsOk
  <2> QED BY <1>2, <2>3, <2>4, <2>5, <2>6, <2>7, <2>8, <2>9, <2>10, <2>11, <2>12, <2>13,
             <2>14 DEF Thread, Serve, Registration, Reconnect
<1>3. CASE UNCHANGED vars
      BY <1>3 DEF vars, Vouched, VouchedStore, VouchedHands, OnlyAuthorised
<1> QED BY <1>1, <1>2, <1>3 DEF Next

(* In every behaviour, with any number of restarts and whatever keys are   *)
(* drawn, a service is in the routing table only under a registration that *)
(* carried the secret of its domain.                                       *)
THEOREM Authorisation == Spec => []OnlyAuthorised
<1>1. Init => Vouched
      BY DEF Init, NoRoutes, Vouched, VouchedStore, VouchedHands, OnlyAuthorised
<1>2. TypeOK /\ Vouched /\ [Next]_vars => Vouched'
      BY VouchedStep
<1>3. Vouched => OnlyAuthorised
      BY DEF Vouched
<1> QED BY <1>1, <1>2, <1>3, TypeCorrect, PTL DEF Spec

-------------------------------------------------------------------------------
(* Connections.  A strong reference is owned by the drive closure of one   *)
(* thread; the connection enters the table between "add" and "added".      *)

Owns(a) == task[a].pc \in {"add", "added"}

Listed(c) == \E r \in DOMAIN table : \E i \in DOMAIN table[r] : table[r][i] = c

Owned ==
  /\ \A c \in strong : \E a \in Acceptor : Owns(a) /\ task[a].conn = c
  /\ \A a \in Acceptor : Owns(a) => task[a].conn \in opened
  /\ \A a, b \in Acceptor : Owns(a) /\ Owns(b) /\ task[a].conn = task[b].conn => a = b

Entered ==
  /\ \A a \in Acceptor : At(a, "add") => ~Listed(task[a].conn)
  /\ \A c : Listed(c) => c \in opened

LEMMA OwnersStay ==
  ASSUME TypeOK, NEW a \in Acceptor, Thread(a),
         ~HandshakeStep(a), ~Add(a), ~DropDrive(a)
  PROVE  /\ strong' = strong /\ opened' = opened
         /\ \A b \in Acceptor : Owns(b) \/ Owns(b)' => task'[b] = task[b]
<1>0. task \in [Acceptor -> Task]
      BY DEF TypeOK
<1>1. OthersStay(a)
      BY ThreadFrame
<1>2. strong' = strong /\ opened' = opened /\ ~Owns(a) /\ ~Owns(a)'
  <2>1. CASE Accept(a) \/ HandleIncoming(a) \/ HandleClient(a) \/ NextRequest(a) \/ Send(a)
        BY <1>0, <2>1 DEF Accept, HandleIncoming, HandleClient, NextRequest, Send, At,
             Finish, Goes, Becomes, shared, Owns
  <2>2. CASE RouteLock(a)
        BY <1>0, <2>2 DEF RouteLock, LockPanics, Finish, Goes, Becomes, At, Owns
  <2>3. CASE Scanner(a)
    <3>0. task[a] \in Scanning
          BY <1>0, <2>3, StageOf DEF Scanner, Prune, Find, Upgrade, At
    <3>1. \A stage \in {"prune", "find", "upgrade"} : \A n : Scan(a, stage, n) => ~Owns(a)'
          BY <1>0, <3>0 DEF Scan, Becomes, Owns, Scanning
    <3>2. ~Owns(a)
          BY <3>0 DEF Owns, Scanning
    <3>3. Finish(a) \/ UNCHANGED task => ~Owns(a)'
          BY <1>0, <3>2 DEF Finish, Goes, Becomes, Owns
    <3>4. CASE Prune(a)
          BY <3>1, <3>2, <3>3, <3>4 DEF Prune
    <3>5. CASE Find(a)
          BY <3>1, <3>2, <3>5 DEF Find
    <3>6. CASE Upgrade(a)
          BY <1>0, <3>1, <3>2, <3>6 DEF Upgrade, Becomes, Owns
    <3> QED BY <2>3, <3>4, <3>5, <3>6 DEF Scanner
  <2>4. CASE Registration(a)
    <3>1. CASE StoreWrite(a)
          BY <1>0, <3>1, StageOf DEF StoreWrite, Becomes, At, Owns, Saving
    <3>2. CASE Auth(a) \/ CheckSecret(a) \/ SaveReply(a)
          BY <1>0, <3>2 DEF Auth, CheckSecret, SaveReply, LockPanics, Finish, Goes, Becomes,
               At, shared, Owns
    <3> QED BY <2>4, <3>1, <3>2 DEF Registration
  <2>5. CASE LoadKey(a)
        BY <1>0, <2>5, StageOf DEF LoadKey, LockPanics, Goes, Becomes, At, Owns, Loading
  <2>6. CASE LoadReply(a)
        BY <1>0, <2>6 DEF LoadReply, Found, NotFound, LoadPanics, Finish, Goes, Becomes,
             At, Owns
  <2> QED BY <2>1, <2>2, <2>3, <2>4, <2>5, <2>6 DEF Thread, Serve, Reconnect
<1> QED BY <1>1, <1>2 DEF OthersStay, Owns

LEMMA OwnedStep == TypeOK /\ Owned /\ [Next]_vars => Owned'
<1> SUFFICES ASSUME TypeOK, Owned, [Next]_vars PROVE Owned'
    OBVIOUS
<1>0. task \in [Acceptor -> Task] /\ strong \subseteq opened
      BY DEF TypeOK
<1>1. CASE Restart
      BY <1>1 DEF Restart, Owned, Owns
<1>2. ASSUME NEW a \in Acceptor, Thread(a) PROVE Owned'
  <2>0. OthersStay(a)
        BY <1>2, ThreadFrame
  <2>1. CASE ~HandshakeStep(a) /\ ~Add(a) /\ ~DropDrive(a)
        BY <1>2, <2>1, OwnersStay DEF Owned, Owns
  <2>2. CASE HandshakeStep(a)
    <3>1. ~Owns(a)
          BY <2>2 DEF HandshakeStep, At, Owns
    <3>2. CASE Finish(a) /\ UNCHANGED <<opened, strong>>
      <4>1. ~Owns(a)'
            BY <1>0, <3>2 DEF Finish, Goes, Becomes, Owns
      <4> QED BY <2>0, <3>1, <3>2, <4>1 DEF Owned, Owns, OthersStay
    <3>3. ASSUME NEW c \in Conn \ opened,
                 opened' = opened \cup {c}, strong' = strong \cup {c},
                 Becomes(a, [pc |-> "add", rec |-> task[a].rec, conn |-> c])
          PROVE  Owned'
      <4>1. Owns(a)' /\ task'[a].conn = c
            BY <1>0, <3>3 DEF Becomes, Owns
      <4> QED BY <2>0, <3>1, <3>3, <4>1 DEF Owned, Owns, OthersStay
    <3> QED BY <2>2, <3>2, <3>3 DEF HandshakeStep
  <2>3. CASE Add(a)
    <3>1. task[a] \in Adding /\ Owns(a)
          BY <1>0, <2>3, StageOf DEF Add, At, Owns
    <3>2. CASE AddPreauthed(a)
      <4>1. Owns(a)' /\ task'[a].conn = task[a].conn
            BY <1>0, <3>2 DEF AddPreauthed, Becomes, Owns
      <4>2. strong' = strong /\ opened' = opened
            BY <2>3, <3>2 DEF Add, AddPreauthed
      <4> QED BY <2>0, <3>1, <4>1, <4>2 DEF Owned, Owns, OthersStay
    <3>3. CASE \/ LockPanics(a) /\ strong' = strong \ {task[a].conn}
                               /\ UNCHANGED <<table, poisoned>>
               \/ CanLock /\ NotConfigured(a)
      <4>1. ~Owns(a)' /\ strong' = strong \ {task[a].conn} /\ opened' = opened
            BY <1>0, <2>3, <3>3 DEF Add, LockPanics, NotConfigured, Goes, Becomes, Owns
      <4> QED BY <2>0, <3>1, <4>1 DEF Owned, Owns, OthersStay
    <3> QED BY <2>3, <3>2, <3>3 DEF Add
  <2>4. CASE DropDrive(a)
    <3>1. ~Owns(a)' /\ strong' = strong \ {task[a].conn} /\ opened' = opened /\ Owns(a)
          BY <1>0, <2>4 DEF DropDrive, Finish, Goes, Becomes, At, Owns
    <3> QED BY <2>0, <3>1 DEF Owned, Owns, OthersStay
  <2> QED BY <2>1, <2>2, <2>3, <2>4
<1>3. CASE UNCHANGED vars
      BY <1>3 DEF vars, Owned, Owns
<1> QED BY <1>1, <1>2, <1>3 DEF Next

LEMMA OwnedAlways == Spec => []Owned
<1>1. Init => Owned
      BY DEF Init, Owned, Owns
<1>2. TypeOK /\ Owned /\ [Next]_vars => Owned'
      BY OwnedStep
<1> QED BY <1>1, <1>2, TypeCorrect, PTL DEF Spec

-------------------------------------------------------------------------------
(* The table.  Scanning takes entries out of it, Add appends one, and no   *)
(* other action of a thread changes it.                                    *)

LEMMA TableSteps ==
  ASSUME TypeOK, NEW a \in Acceptor, Thread(a), ~Add(a)
  PROVE  \/ table' = table
         \/ \E r \in DOMAIN table : \E i \in DOMAIN table[r] :
              table' = [table EXCEPT ![r] = RemoveAt(@, i)]
<1>1. CASE Prune(a)
  <2>1. CASE task[a].route \in DOMAIN table
        BY <1>1, <2>1 DEF Prune, Conns
  <2>2. CASE task[a].route \notin DOMAIN table
        BY <1>1, <2>2 DEF Prune, TypeOK
  <2> QED BY <2>1, <2>2
<1>2. CASE ~Prune(a)
      BY <1>2 DEF Thread, Serve, Scanner, Registration, Reconnect, Accept, HandleIncoming,
           HandleClient, NextRequest, RouteLock, Find, Upgrade, Send, Auth, CheckSecret,
           StoreWrite, SaveReply, LoadKey, LoadReply, HandshakeStep, DropDrive, shared
<1> QED BY <1>1, <1>2

LEMMA RemovalKeeps ==
  ASSUME TypeOK, NEW r \in DOMAIN table, NEW i \in DOMAIN table[r],
         table' = [table EXCEPT ![r] = RemoveAt(@, i)]
  PROVE  /\ \A c : Listed(c)' => Listed(c)
         /\ RegisteredOnce => RegisteredOnce'
<1> DEFINE old == table[r]
           new == RemoveAt(old, i)
           from(s, n) == IF s = r /\ n >= i THEN n + 1 ELSE n
<1>1. old \in Seq(Conn)
      BY DEF TypeOK
<1>2. /\ new \in Seq(Conn) /\ Len(new) = Len(old) - 1
      /\ \A n \in 1..(Len(old) - 1) : new[n] = IF n < i THEN old[n] ELSE old[n + 1]
      BY <1>1, RemoveAtElements
<1>3. DOMAIN table' = DOMAIN table /\ table'[r] = new
      BY DEF TypeOK
<1>4. \A s \in DOMAIN table : s # r => table'[s] = table[s]
      OBVIOUS
<1>5. \A s \in DOMAIN table : table[s] \in Seq(Conn)
      BY DEF TypeOK
<1> HIDE DEF old, new
<1>6. ASSUME NEW s \in DOMAIN table', NEW n \in DOMAIN table'[s]
      PROVE  /\ s \in DOMAIN table /\ n \in Nat
             /\ from(s, n) \in DOMAIN table[s]
             /\ table'[s][n] = table[s][from(s, n)]
  <2>1. CASE s = r
    <3>1. n \in 1..(Len(old) - 1) /\ Len(old) \in Nat /\ i \in 1..Len(old)
          BY <1>1, <1>2, <1>3, <2>1 DEF old
    <3>2. n + 1 \in 1..Len(old) /\ n \in 1..Len(old) /\ (n >= i <=> ~(n < i))
          BY <3>1
    <3>3. DOMAIN table[s] = 1..Len(old)
          BY <1>1, <2>1 DEF old
    <3>4. table'[s][n] = old[from(s, n)]
          BY <1>2, <1>3, <2>1, <3>1, <3>2
    <3> QED BY <1>3, <2>1, <3>1, <3>2, <3>3, <3>4 DEF old
  <2>2. CASE s # r
        BY <1>3, <1>4, <1>5, <2>2
  <2> QED BY <2>1, <2>2
<1>7. \A c : Listed(c)' => Listed(c)
      BY <1>6 DEF Listed
<1>8. ASSUME RegisteredOnce PROVE RegisteredOnce'
  <2> SUFFICES ASSUME NEW s \in DOMAIN table', NEW t \in DOMAIN table',
                      NEW m \in DOMAIN table'[s], NEW n \in DOMAIN table'[t],
                      table'[s][m] = table'[t][n]
               PROVE  s = t /\ m = n
      BY DEF RegisteredOnce
  <2>1. s = t /\ from(s, m) = from(t, n)
        BY <1>6, <1>8 DEF RegisteredOnce
  <2>2. m \in Nat /\ n \in Nat /\ i \in Nat
        BY <1>1, <1>6 DEF old
  <2> QED BY <2>1, <2>2
<1> QED BY <1>7, <1>8

LEMMA AppendKeeps ==
  ASSUME TypeOK, NEW r \in Preauthed, NEW c \in Conn, ~Listed(c),
         table' = Registered(table, r, c)
  PROVE  /\ \A d : Listed(d)' => Listed(d) \/ d = c
         /\ RegisteredOnce => RegisteredOnce'
<1> DEFINE old == Connections(table, r)
<1>1. old \in Seq(Conn) /\ (r \notin DOMAIN table => old = <<>>)
                       /\ (r \in DOMAIN table => old = table[r])
      BY DEF TypeOK, Connections
<1>2. DOMAIN table' = DOMAIN table \cup {r} /\ table'[r] = Append(old, c)
      BY DEF Registered
<1>3. \A s \in DOMAIN table : s # r => table'[s] = table[s]
      BY DEF Registered
<1> HIDE DEF old
<1>4. ASSUME NEW s \in DOMAIN table', NEW n \in DOMAIN table'[s]
      PROVE  \/ s \in DOMAIN table /\ n \in DOMAIN table[s] /\ table'[s][n] = table[s][n]
             \/ s = r /\ n = Len(old) + 1 /\ table'[s][n] = c
  <2>1. CASE s = r
    <3>1. n \in 1..(Len(old) + 1) /\ Len(old) \in Nat
          BY <1>1, <1>2, <2>1
    <3>2. CASE n = Len(old) + 1
          BY <1>1, <1>2, <2>1, <3>1, <3>2
    <3>3. CASE n \in 1..Len(old)
      <4>1. r \in DOMAIN table
            BY <1>1, <3>3
      <4>2. Append(old, c)[n] = old[n]
            BY <1>1, <3>3
      <4> QED BY <1>1, <1>2, <2>1, <3>3, <4>1, <4>2
    <3> QED BY <3>1, <3>2, <3>3
  <2>2. CASE s # r
        BY <1>2, <1>3, <2>2
  <2> QED BY <2>1, <2>2
<1>5. \A d : Listed(d)' => Listed(d) \/ d = c
      BY <1>4 DEF Listed
<1>6. ASSUME RegisteredOnce PROVE RegisteredOnce'
  <2> SUFFICES ASSUME NEW s \in DOMAIN table', NEW t \in DOMAIN table',
                      NEW m \in DOMAIN table'[s], NEW n \in DOMAIN table'[t],
                      table'[s][m] = table'[t][n]
               PROVE  s = t /\ m = n
      BY DEF RegisteredOnce
  <2>1. \A q \in DOMAIN table : \A k \in DOMAIN table[q] : table[q][k] # c
        BY DEF Listed
  <2> QED BY <1>4, <1>6, <2>1 DEF RegisteredOnce
<1> QED BY <1>5, <1>6

-------------------------------------------------------------------------------
LEMMA EnteredStep ==
  TypeOK /\ Owned /\ Entered /\ RegisteredOnce /\ [Next]_vars
    => Entered' /\ RegisteredOnce'
<1> SUFFICES ASSUME TypeOK, Owned, Entered, RegisteredOnce, [Next]_vars
             PROVE  Entered' /\ RegisteredOnce'
    OBVIOUS
<1>0. task \in [Acceptor -> Task]
      BY DEF TypeOK
<1>1. CASE Restart
      BY <1>1 DEF Restart, NoRoutes, Entered, Listed, At, RegisteredOnce
<1>2. ASSUME NEW a \in Acceptor, Thread(a) PROVE Entered' /\ RegisteredOnce'
  <2>0. OthersStay(a)
        BY <1>2, ThreadFrame
  <2>1. CASE Add(a)
    <3>1. task[a] \in Adding /\ Owns(a)
          BY <1>0, <2>1, StageOf DEF Add, At, Owns
    <3>2. task[a].rec \in Preauthed /\ task[a].conn \in Conn /\ task[a].conn \in opened
          BY <3>1 DEF Adding, Owned
    <3>3. ~Listed(task[a].conn) /\ opened' = opened
          BY <2>1 DEF Add, Entered
    <3>4. task'[a].pc # "add"
          BY <1>0, <2>1 DEF Add, AddPreauthed, NotConfigured, LockPanics, Goes, Becomes
    <3>5. CASE table' = Registered(table, task[a].rec, task[a].conn)
      <4>1. /\ \A d : Listed(d)' => Listed(d) \/ d = task[a].conn
            /\ RegisteredOnce'
            BY <3>2, <3>3, <3>5, AppendKeeps
      <4>2. \A b \in Acceptor : At(b, "add") /\ b # a => task[b].conn # task[a].conn
            BY <3>1 DEF Owned, Owns, At
      <4> QED BY <2>0, <3>2, <3>3, <3>4, <4>1, <4>2 DEF Entered, OthersStay, At
    <3>6. CASE table' = table
          BY <2>0, <3>3, <3>4, <3>6 DEF Entered, OthersStay, At, Listed, RegisteredOnce
    <3> QED BY <2>1, <3>5, <3>6 DEF Add, AddPreauthed, NotConfigured
  <2>2. CASE ~Add(a)
    <3>1. (\A c : Listed(c)' => Listed(c)) /\ RegisteredOnce'
      <4>1. CASE table' = table
            BY <4>1 DEF Listed, RegisteredOnce
      <4>2. CASE table' # table
            BY <1>2, <2>2, <4>2, TableSteps, RemovalKeeps
      <4> QED BY <4>1, <4>2
    <3>2. opened \subseteq opened'
          BY <1>2, <2>2, OwnersStay DEF HandshakeStep, DropDrive
    <3>3. \A b \in Acceptor : At(b, "add")' => ~Listed(task'[b].conn)
      <4>1. CASE HandshakeStep(a)
        <5>1. CASE Finish(a)
          <6>1. task'[a].pc # "add"
                BY <1>0, <5>1 DEF Finish, Goes, Becomes
          <6> QED BY <2>0, <6>1 DEF Entered, OthersStay, At
        <5>2. ASSUME NEW c \in Conn \ opened,
                     Becomes(a, [pc |-> "add", rec |-> task[a].rec, conn |-> c])
              PROVE  \A b \in Acceptor : At(b, "add")' => ~Listed(task'[b].conn)
          <6>1. task'[a].conn = c /\ ~Listed(c)
                BY <1>0, <5>2 DEF Becomes, Entered
          <6> QED BY <2>0, <6>1 DEF Entered, OthersStay, At
        <5> QED BY <4>1, <5>1, <5>2 DEF HandshakeStep
      <4>2. CASE DropDrive(a)
        <5>1. task'[a].pc # "add"
              BY <1>0, <4>2 DEF DropDrive, Finish, Goes, Becomes
        <5> QED BY <2>0, <5>1 DEF Entered, OthersStay, At
      <4>3. CASE ~HandshakeStep(a) /\ ~DropDrive(a)
            BY <1>2, <2>2, <4>3, OwnersStay DEF Entered, Owns, At
      <4> QED BY <4>1, <4>2, <4>3
    <3> QED BY <3>1, <3>2, <3>3 DEF Entered
  <2> QED BY <2>1, <2>2
<1>3. CASE UNCHANGED vars
      BY <1>3 DEF vars, Entered, Listed, At, RegisteredOnce
<1> QED BY <1>1, <1>2, <1>3 DEF Next

LEMMA EnteredAlways == Spec => [](Entered /\ RegisteredOnce)
<1>1. Init => Entered /\ RegisteredOnce
      BY DEF Init, NoRoutes, Entered, Listed, At, RegisteredOnce
<1>2. TypeOK /\ Owned /\ Entered /\ RegisteredOnce /\ [Next]_vars
        => Entered' /\ RegisteredOnce'
      BY EnteredStep
<1> QED BY <1>1, <1>2, TypeCorrect, OwnedAlways, PTL DEF Spec

(* No service connection is ever in the table twice.                       *)
THEOREM RegisteredAtMostOnce == Spec => []RegisteredOnce
  BY EnteredAlways, PTL

(* A step that sends a request out found a live connection.                *)
LEMMA SendFindsLive ==
  ASSUME TypeOK, NEW a \in Acceptor, Thread(a), task'[a].pc = "send", task[a].pc # "send"
  PROVE  At(a, "upgrade") /\ strong # {}
<1>0. task \in [Acceptor -> Task]
      BY DEF TypeOK
<1>1. CASE Upgrade(a)
  <2>1. task[a] \in Scanning
        BY <1>0, <1>1, StageOf DEF Upgrade, At
  <2>2. ~Scan(a, "prune", 1)
        BY <1>0, <2>1 DEF Scan, Becomes, Scanning
  <2> QED BY <1>1, <2>2 DEF Upgrade, IsLive
<1>2. CASE Prune(a) \/ Find(a)
  <2>1. task[a] \in Scanning
        BY <1>0, <1>2, StageOf DEF Prune, Find, At
  <2>2. \A stage \in {"prune", "find", "upgrade"} : \A n : ~Scan(a, stage, n)
        BY <1>0, <2>1 DEF Scan, Becomes, Scanning
  <2>3. ~Finish(a) /\ ~UNCHANGED task
        BY <1>0 DEF Finish, Goes, Becomes
  <2> QED BY <1>2, <2>2, <2>3 DEF Prune, Find
<1>3. CASE Accept(a) \/ HandleIncoming(a) \/ HandleClient(a) \/ NextRequest(a) \/ Send(a)
      BY <1>0, <1>3 DEF Accept, HandleIncoming, HandleClient, NextRequest, Send, Finish,
           Goes, Becomes
<1>4. CASE RouteLock(a)
      BY <1>0, <1>4 DEF RouteLock, LockPanics, Finish, Goes, Becomes
<1>5. CASE Registration(a)
  <2>1. CASE StoreWrite(a)
        BY <1>0, <2>1, StageOf DEF StoreWrite, Becomes, At, Saving
  <2>2. CASE Auth(a) \/ CheckSecret(a) \/ SaveReply(a)
        BY <1>0, <2>2 DEF Auth, CheckSecret, SaveReply, LockPanics, Finish, Goes, Becomes
  <2> QED BY <1>5, <2>1, <2>2 DEF Registration
<1>6. CASE Reconnect(a)
  <2>1. CASE LoadKey(a)
        BY <1>0, <2>1, StageOf DEF LoadKey, LockPanics, Goes, Becomes, At, Loading
  <2>2. CASE LoadReply(a) \/ HandshakeStep(a)
        BY <1>0, <2>2 DEF LoadReply, Found, NotFound, LoadPanics, HandshakeStep, Finish,
             Goes, Becomes
  <2>3. CASE Add(a) \/ DropDrive(a)
        BY <1>0, <2>3 DEF Add, AddPreauthed, NotConfigured, DropDrive, LockPanics, Finish,
             Goes, Becomes
  <2> QED BY <1>6, <2>1, <2>2, <2>3 DEF Reconnect
<1> QED BY <1>1, <1>2, <1>3, <1>4, <1>5, <1>6 DEF Thread, Serve, Scanner

(* With one thread running accept_incoming no request is ever sent to a    *)
(* service: whoever owns a live connection is not scanning a list.         *)
THEOREM SoleThreadTheorem == Spec => []SoleThreadNeverRoutes
<1>1. Init => SoleThreadNeverRoutes
      BY DEF Init, SoleThreadNeverRoutes, At
<1>2. TypeOK /\ Owned /\ SoleThreadNeverRoutes /\ [Next]_vars => SoleThreadNeverRoutes'
  <2> SUFFICES ASSUME TypeOK, Owned, SoleThreadNeverRoutes, [Next]_vars,
                      \A a, b \in Acceptor : a = b, NEW a \in Acceptor, At(a, "send")'
               PROVE  FALSE
      BY DEF SoleThreadNeverRoutes
  <2>1. task[a].pc # "send"
        BY DEF SoleThreadNeverRoutes, At
  <2>2. CASE Thread(a)
    <3>1. At(a, "upgrade") /\ strong # {}
          BY <2>1, <2>2, SendFindsLive DEF At
    <3>2. Owns(a)
          BY <3>1 DEF Owned
    <3> QED BY <3>1, <3>2 DEF Owns, At
  <2>3. CASE Restart \/ UNCHANGED vars
        BY <2>1, <2>3 DEF Restart, vars, At
  <2>4. \A b \in Acceptor : Thread(b) => Thread(a)
        OBVIOUS
  <2> QED BY <2>2, <2>3, <2>4 DEF Next
<1> QED BY <1>1, <1>2, TypeCorrect, OwnedAlways, PTL DEF Spec

-------------------------------------------------------------------------------
(* Poisoning.  The thread that panics with the mutex in its hands gives it *)
(* up, and nobody can take it afterwards.                                  *)

PoisonedIsFree == poisoned => lock = {}

(* What a thread meets when the mutex is poisoned and free: a panic, or a  *)
(* step that does not ask for the mutex.                                   *)
LEMMA PoisonedThread ==
  ASSUME TypeOK, MutexHeld, lock = {}, ~CanLock, NEW a \in Acceptor, Thread(a)
  PROVE  /\ UNCHANGED <<table, poisoned, lock>>
         /\ task'[a].pc \in {"save", "handshake", "added", "send"} =>
              task'[a].pc = task[a].pc
<1>0. task \in [Acceptor -> Task]
      BY DEF TypeOK
<1>1. task[a].pc \notin Holding
      BY <1>0 DEF MutexHeld
<1>2. ~Scanner(a) /\ ~LoadReply(a)
      BY <1>1 DEF Scanner, Prune, Find, Upgrade, LoadReply, At, Holding
<1>3. UNCHANGED <<table, poisoned, lock>>
      BY <1>2 DEF Thread, Serve, Registration, Reconnect, Accept, HandleIncoming,
           HandleClient, NextRequest, RouteLock, Send, Auth, CheckSecret, StoreWrite,
           SaveReply, LoadKey, HandshakeStep, Add, DropDrive, shared
<1>4. task'[a].pc \in {"save", "handshake", "added", "send"} => task'[a].pc = task[a].pc
  <2>1. CASE Accept(a) \/ HandleIncoming(a) \/ HandleClient(a) \/ NextRequest(a) \/ Send(a)
        BY <1>0, <2>1 DEF Accept, HandleIncoming, HandleClient, NextRequest, Send, Finish,
             Goes, Becomes
  <2>2. CASE RouteLock(a) \/ CheckSecret(a) \/ LoadKey(a) \/ Add(a)
        BY <1>0, <2>2 DEF RouteLock, CheckSecret, LoadKey, Add, LockPanics, Goes, Becomes
  <2>3. CASE Auth(a) \/ SaveReply(a) \/ DropDrive(a) \/ HandshakeStep(a)
        BY <1>0, <2>3 DEF Auth, SaveReply, DropDrive, HandshakeStep, Finish, Goes, Becomes
  <2>4. CASE StoreWrite(a)
    <3>1. task[a] \in Saving
          BY <1>0, <2>4, StageOf DEF StoreWrite, At
    <3> QED BY <1>0, <2>4, <3>1 DEF StoreWrite, Becomes, Saving
  <2> QED BY <1>2, <2>1, <2>2, <2>3, <2>4 DEF Thread, Serve, Registration, Reconnect
<1> QED BY <1>3, <1>4

(* A thread that takes the mutex found it unpoisoned, and one that poisons *)
(* it leaves it free.                                                      *)
LEMMA PoisoningFrees ==
  ASSUME TypeOK, MutexHeld, ~poisoned, NEW a \in Acceptor, Thread(a)
  PROVE  PoisonedIsFree'
<1>1. CASE LoadReply(a)
      BY <1>1 DEF LoadReply, PoisonedIsFree
<1>2. CASE Add(a)
      BY <1>2 DEF Add, AddPreauthed, NotConfigured, CanLock, PoisonedIsFree
<1>3. CASE ~LoadReply(a) /\ ~Add(a)
  <2>1. poisoned' = poisoned
        BY <1>3 DEF Thread, Serve, Scanner, Registration, Reconnect, Accept, HandleIncoming,
             HandleClient, NextRequest, RouteLock, Prune, Find, Upgrade, Send, Auth,
             CheckSecret, StoreWrite, SaveReply, LoadKey, HandshakeStep, DropDrive, shared
  <2> QED BY <2>1 DEF PoisonedIsFree
<1> QED BY <1>1, <1>2, <1>3

LEMMA PoisonedStep ==
  TypeOK /\ MutexHeld /\ PoisonedIsFree /\ [Next]_vars => PoisonedIsFree'
<1> SUFFICES ASSUME TypeOK, MutexHeld, PoisonedIsFree, [Next]_vars PROVE PoisonedIsFree'
    OBVIOUS
<1>1. CASE Restart \/ UNCHANGED vars
      BY <1>1 DEF Restart, vars, PoisonedIsFree
<1>2. ASSUME NEW a \in Acceptor, Thread(a) PROVE PoisonedIsFree'
  <2>1. CASE poisoned
        BY <1>2, <2>1, PoisonedThread DEF PoisonedIsFree, CanLock
  <2>2. CASE ~poisoned
        BY <1>2, <2>2, PoisoningFrees
  <2> QED BY <2>1, <2>2
<1> QED BY <1>1, <1>2 DEF Next

(* One answer that the persistence loses takes the balancer out: with the  *)
(* mutex poisoned nothing is registered, loaded, authorised or routed any  *)
(* more, by any of any number of threads, until the process restarts.      *)
THEOREM PoisonTheorem == Spec => PoisonStopsAll
<1> DEFINE Stopped ==
             poisoned /\ restarts' = restarts =>
               /\ table' = table /\ poisoned' /\ lock' = {}
               /\ \A a \in Acceptor :
                    task'[a].pc \in {"save", "handshake", "added", "send"} =>
                      task'[a].pc = task[a].pc
<1>1. Init => PoisonedIsFree
      BY DEF Init, PoisonedIsFree
<1>2. TypeOK /\ MutexHeld /\ PoisonedIsFree /\ [Next]_vars => PoisonedIsFree'
      BY PoisonedStep
<1>3. TypeOK /\ MutexHeld /\ PoisonedIsFree /\ [Next]_vars => [Stopped]_vars
  <2> SUFFICES ASSUME TypeOK, MutexHeld, PoisonedIsFree, Next, poisoned,
                      restarts' = restarts
               PROVE  /\ table' = table /\ poisoned' /\ lock' = {}
                      /\ \A a \in Acceptor :
                           task'[a].pc \in {"save", "handshake", "added", "send"} =>
                             task'[a].pc = task[a].pc
      OBVIOUS
  <2>1. ~Restart
    <3>1. restarts \in Nat
          BY LoadBalancerAssumption DEF TypeOK
    <3> QED BY <3>1 DEF Restart
  <2>2. PICK a \in Acceptor : Thread(a)
        BY <2>1 DEF Next
  <2>3. OthersStay(a)
        BY <2>2, ThreadFrame
  <2>4. lock = {} /\ ~CanLock
        BY DEF PoisonedIsFree, CanLock
  <2>5. /\ UNCHANGED <<table, poisoned, lock>>
        /\ task'[a].pc \in {"save", "handshake", "added", "send"} =>
             task'[a].pc = task[a].pc
        BY <2>2, <2>4, PoisonedThread
  <2>6. table' = table /\ poisoned' /\ lock' = {}
        BY <2>4, <2>5
  <2> QED BY <2>3, <2>5, <2>6 DEF OthersStay
<1> QED BY <1>1, <1>2, <1>3, TypeCorrect, MutualExclusion, PTL DEF Spec, PoisonStopsAll

-------------------------------------------------------------------------------
(* The implementation of Router.  Its operators are the ones of RouteTable *)
(* under other names.                                                      *)

LEMMA SameCandidates ==
  \A t, cfg, q : R!Candidates(t, cfg, q) = Candidates(t, cfg, q)
  BY DEF R!Candidates, Candidates, R!Accepting, Accepting, R!BestDomain, BestDomain,
         R!Outranks, Outranks, R!NoAuthority, NoAuthority, R!IsSuffix, IsSuffix,
         R!IsPrefix, IsPrefix, R!Reverse, Reverse

LEMMA SameBest ==
  \A t, cfg, q : R!BestRoute(t, cfg, q) = BestRoute(t, cfg, q)
  BY SameCandidates DEF R!BestRoute, BestRoute

LEMMA SameFirst ==
  \A s, l : R!FirstLive(s, l) = FirstLive(s, l)
  BY DEF R!FirstLive, FirstLive

LEMMA SameRegistered ==
  \A t, r, c : R!Registered(t, r, c) = Registered(t, r, c)
  BY DEF R!Registered, Registered, R!Connections, Connections

LEMMA SameRemoveAt ==
  \A s, i : R!RemoveAt(s, i) = RemoveAt(s, i)
  BY DEF R!RemoveAt, RemoveAt

(* Taking connections out of lists changes no route and no choice of one.  *)
LEMMA SameRoutes ==
  ASSUME NEW t, NEW u, DOMAIN t = DOMAIN u, NEW cfg, NEW q
  PROVE  /\ Candidates(t, cfg, q) = Candidates(u, cfg, q)
         /\ BestRoute(t, cfg, q) = BestRoute(u, cfg, q)
<1>1. Candidates(t, cfg, q) = Candidates(u, cfg, q)
      BY DEF Candidates
<1> QED BY <1>1 DEF BestRoute

-------------------------------------------------------------------------------
(* A connection is alive until the thread that adds it has added it.       *)
AddedAlive == \A a \in Acceptor : At(a, "add") => task[a].conn \in strong

LEMMA AddedAliveStep == TypeOK /\ Owned /\ AddedAlive /\ [Next]_vars => AddedAlive'
<1> SUFFICES ASSUME TypeOK, Owned, AddedAlive, [Next]_vars PROVE AddedAlive'
    OBVIOUS
<1>0. task \in [Acceptor -> Task]
      BY DEF TypeOK
<1>1. CASE Restart
      BY <1>1 DEF Restart, AddedAlive, At
<1>2. ASSUME NEW a \in Acceptor, Thread(a) PROVE AddedAlive'
  <2>0. OthersStay(a)
        BY <1>2, ThreadFrame
  <2>1. CASE HandshakeStep(a)
    <3>1. CASE Finish(a) /\ UNCHANGED strong
      <4>1. ~At(a, "add")'
            BY <1>0, <3>1 DEF Finish, Goes, Becomes, At
      <4> QED BY <2>0, <3>1, <4>1 DEF AddedAlive, OthersStay, At
    <3>2. ASSUME NEW c \in Conn, strong' = strong \cup {c},
                 Becomes(a, [pc |-> "add", rec |-> task[a].rec, conn |-> c])
          PROVE  AddedAlive'
      <4>1. task'[a].conn = c
            BY <1>0, <3>2 DEF Becomes
      <4> QED BY <2>0, <3>2, <4>1 DEF AddedAlive, OthersStay, At
    <3> QED BY <2>1, <3>1, <3>2 DEF HandshakeStep
  <2>2. CASE Add(a) \/ DropDrive(a)
    <3>1. Owns(a) /\ strong \ {task[a].conn} \subseteq strong'
          BY <2>2 DEF Add, AddPreauthed, NotConfigured, DropDrive, At, Owns
    <3>2. ~At(a, "add")'
          BY <1>0, <2>2 DEF Add, AddPreauthed, NotConfigured, LockPanics, DropDrive, Finish,
               Goes, Becomes, At
    <3>3. \A b \in Acceptor : At(b, "add") /\ b # a => task[b].conn # task[a].conn
          BY <3>1 DEF Owned, Owns, At
    <3> QED BY <2>0, <3>1, <3>2, <3>3 DEF AddedAlive, OthersStay, At
  <2>3. CASE ~HandshakeStep(a) /\ ~Add(a) /\ ~DropDrive(a)
        BY <1>2, <2>3, OwnersStay DEF AddedAlive, Owns, At
  <2> QED BY <2>1, <2>2, <2>3
<1>3. CASE UNCHANGED vars
      BY <1>3 DEF vars, AddedAlive, At
<1> QED BY <1>1, <1>2, <1>3 DEF Next

-------------------------------------------------------------------------------
(* The scan.  While a thread scans, its route is the best one of its       *)
(* request, nothing alive is in front of where it looks for a connection,  *)
(* and what it found is there.                                             *)

OnBestRoute(a) ==
  /\ task[a].route \in DOMAIN table
  /\ Candidates(table, config, task[a].req) # {}
  /\ task[a].route = BestRoute(table, config, task[a].req)

DeadBefore(a, n) == \A i \in DOMAIN Conns(a) : i < n => Conns(a)[i] \notin strong

InScan(a) == task[a].pc \in {"prune", "find", "upgrade"}

ScanRight(a) ==
  /\ InScan(a) => OnBestRoute(a)
  /\ task[a].pc \in {"find", "upgrade"} => DeadBefore(a, task[a].at)
  /\ At(a, "upgrade") => task[a].at \in DOMAIN Conns(a)

ScansRight == \A a \in Acceptor : ScanRight(a)

(* The steps that are not of a scan: they start none, they change the      *)
(* table only when nobody holds the mutex, and only new connections rise.  *)
LEMMA OutsideScan ==
  ASSUME TypeOK, NEW a \in Acceptor, Thread(a), ~Scanner(a), ~RouteLock(a)
  PROVE  /\ ~InScan(a)' /\ config' = config
         /\ table' = table \/ lock = {}
         /\ \A c \in strong' : c \in strong \/ c \notin opened
<1>0. task \in [Acceptor -> Task]
      BY DEF TypeOK
<1>1. ~InScan(a)'
  <2>1. CASE Accept(a) \/ HandleIncoming(a) \/ HandleClient(a) \/ NextRequest(a) \/ Send(a)
        BY <1>0, <2>1 DEF Accept, HandleIncoming, HandleClient, NextRequest, Send, Finish,
             Goes, Becomes, InScan
  <2>2. CASE Registration(a)
    <3>1. CASE StoreWrite(a)
          BY <1>0, <3>1, StageOf DEF StoreWrite, Becomes, At, InScan, Saving
    <3>2. CASE Auth(a) \/ CheckSecret(a) \/ SaveReply(a)
          BY <1>0, <3>2 DEF Auth, CheckSecret, SaveReply, LockPanics, Finish, Goes, Becomes,
               InScan
    <3> QED BY <2>2, <3>1, <3>2 DEF Registration
  <2>3. CASE LoadKey(a)
        BY <1>0, <2>3, StageOf DEF LoadKey, LockPanics, Goes, Becomes, At, InScan, Loading
  <2>4. CASE LoadReply(a) \/ HandshakeStep(a)
        BY <1>0, <2>4 DEF LoadReply, Found, NotFound, LoadPanics, HandshakeStep, Finish,
             Goes, Becomes, InScan
  <2>5. CASE Add(a) \/ DropDrive(a)
        BY <1>0, <2>5 DEF Add, AddPreauthed, NotConfigured, DropDrive, LockPanics, Finish,
             Goes, Becomes, InScan
  <2> QED BY <2>1, <2>2, <2>3, <2>4, <2>5 DEF Thread, Serve, Reconnect
<1>2. config' = config /\ (table' = table \/ lock = {})
      BY DEF Thread, Serve, Registration, Reconnect, Accept, HandleIncoming, HandleClient,
           NextRequest, Send, Auth, CheckSecret, StoreWrite, SaveReply, LoadKey, LoadReply,
           HandshakeStep, Add, CanLock, DropDrive, shared
<1>3. \A c \in strong' : c \in strong \/ c \notin opened
  <2>1. CASE HandshakeStep(a)
        BY <2>1 DEF HandshakeStep
  <2>2. CASE Add(a) \/ DropDrive(a)
        BY <2>2 DEF Add, AddPreauthed, NotConfigured, DropDrive
  <2>3. CASE ~HandshakeStep(a) /\ ~Add(a) /\ ~DropDrive(a)
        BY <2>3, OwnersStay
  <2> QED BY <2>1, <2>2, <2>3
<1> QED BY <1>1, <1>2, <1>3

(* A scan that nobody disturbs stays right while connections die.          *)
LEMMA ScanUndisturbed ==
  ASSUME NEW b \in Acceptor, ScanRight(b), Entered,
         task'[b] = task[b], table' = table, config' = config,
         \A c \in strong' : c \in strong \/ c \notin opened
  PROVE  ScanRight(b)'
<1>1. ASSUME task[b].route \in DOMAIN table, DeadBefore(b, task[b].at)
      PROVE  DeadBefore(b, task[b].at)'
  <2> SUFFICES ASSUME NEW i \in DOMAIN Conns(b), i < task[b].at
               PROVE  Conns(b)[i] \notin strong'
      BY DEF DeadBefore, Conns
  <2>1. Conns(b)[i] \notin strong
        BY <1>1 DEF DeadBefore
  <2>2. Conns(b)[i] \in opened
        BY <1>1 DEF Entered, Listed, Conns
  <2> QED BY <2>1, <2>2
<1>2. InScan(b)' = InScan(b) /\ (OnBestRoute(b) => OnBestRoute(b)')
      BY DEF InScan, OnBestRoute
<1>3. task[b].pc \in {"find", "upgrade"} => DeadBefore(b, task[b].at)'
      BY <1>1 DEF ScanRight, InScan, OnBestRoute
<1>4. At(b, "upgrade") => (task[b].at \in DOMAIN Conns(b))'
      BY DEF ScanRight, Conns
<1> QED BY <1>2, <1>3, <1>4 DEF ScanRight, At

LEMMA ScansStep ==
  TypeOK /\ MutexHeld /\ Entered /\ ScansRight /\ [Next]_vars => ScansRight'
<1> SUFFICES ASSUME TypeOK, MutexHeld, Entered, ScansRight, [Next]_vars
             PROVE  ScansRight'
    OBVIOUS
<1>0. task \in [Acceptor -> Task]
      BY DEF TypeOK
<1>1. CASE Restart
      BY <1>1 DEF Restart, ScansRight, ScanRight, InScan, At
<1>2. ASSUME NEW a \in Acceptor, Thread(a) PROVE ScansRight'
  <2>0. OthersStay(a)
        BY <1>2, ThreadFrame
  <2>1. CASE ~Scanner(a) /\ ~RouteLock(a)
    <3>1. /\ ~InScan(a)' /\ config' = config
          /\ table' = table \/ lock = {}
          /\ \A c \in strong' : c \in strong \/ c \notin opened
          BY <1>2, <2>1, OutsideScan
    <3>2. ScanRight(a)'
          BY <3>1 DEF ScanRight, InScan, At
    <3>3. ASSUME NEW b \in Acceptor, b # a PROVE ScanRight(b)'
      <4>1. CASE table' = table
            BY <2>0, <3>1, <3>3, <4>1, ScanUndisturbed DEF OthersStay, ScansRight
      <4>2. CASE lock = {}
        <5>1. task'[b] = task[b] /\ task[b].pc \notin Holding
              BY <2>0, <3>3, <4>2 DEF OthersStay, MutexHeld
        <5> QED BY <5>1 DEF ScanRight, InScan, At, Holding
      <4> QED BY <3>1, <4>1, <4>2
    <3> QED BY <3>2, <3>3 DEF ScansRight
  <2>2. ASSUME table' = table, config' = config, strong' = strong, ScanRight(a)'
        PROVE  ScansRight'
    <3>1. ASSUME NEW b \in Acceptor, b # a PROVE ScanRight(b)'
          BY <2>0, <2>2, <3>1, ScanUndisturbed DEF OthersStay, ScansRight
    <3> QED BY <2>2, <3>1 DEF ScansRight
  <2>3. CASE RouteLock(a)
    <3>1. CASE LockPanics(a) \/ Finish(a)
      <4>1. ~InScan(a)'
            BY <1>0, <3>1 DEF LockPanics, Finish, Goes, Becomes, InScan
      <4>2. ScanRight(a)'
            BY <4>1 DEF ScanRight, InScan, At
      <4> QED BY <2>2, <2>3, <4>2 DEF RouteLock
    <3>2. CASE ~LockPanics(a) /\ ~Finish(a)
      <4>1. task[a] \in Routing
            BY <1>0, <2>3, StageOf DEF RouteLock, At
      <4>2. /\ Candidates(table, config, task[a].req) # {}
            /\ task'[a] = [pc |-> "prune", req |-> task[a].req, at |-> 1,
                           route |-> BestRoute(table, config, task[a].req)]
            BY <1>0, <2>3, <3>2 DEF RouteLock, Becomes
      <4>3. BestRoute(table, config, task[a].req) \in DOMAIN table
        <5>1. DOMAIN table \subseteq Preauthed /\ task[a].req \in Request
              BY <4>1 DEF TypeOK, Routing
        <5> QED BY <4>2, <5>1, BestRouteIsBest DEF Candidates
      <4>4. table' = table /\ config' = config
            BY <2>3 DEF RouteLock
      <4>5. ScanRight(a)'
            BY <4>2, <4>3, <4>4 DEF ScanRight, OnBestRoute, InScan, At
      <4> QED BY <2>2, <2>3, <4>4, <4>5 DEF RouteLock
    <3> QED BY <3>1, <3>2
  <2>4. CASE Scanner(a)
    <3>0. /\ task[a] \in Scanning /\ OnBestRoute(a)
          /\ Conns(a) \in Seq(Conn) /\ task[a].at \in Nat
      <4>1. task[a] \in Scanning /\ InScan(a)
            BY <1>0, <2>4, StageOf DEF Scanner, Prune, Find, Upgrade, At, InScan
      <4>2. OnBestRoute(a)
            BY <4>1 DEF ScansRight, ScanRight
      <4> QED BY <4>1, <4>2 DEF OnBestRoute, TypeOK, Conns, Scanning
    <3>1. ASSUME NEW stage \in {"prune", "find", "upgrade"}, NEW n, Scan(a, stage, n),
                 table' = table, config' = config, strong' = strong,
                 stage # "prune" => DeadBefore(a, n),
                 stage = "upgrade" => n \in DOMAIN Conns(a)
          PROVE  ScansRight'
      <4>1. /\ task'[a].pc = stage /\ task'[a].at = n
            /\ task'[a].req = task[a].req /\ task'[a].route = task[a].route
            BY <1>0, <3>0, <3>1 DEF Scan, Becomes, Scanning
      <4>2. OnBestRoute(a)' /\ Conns(a)' = Conns(a)
            BY <3>0, <3>1, <4>1 DEF OnBestRoute, Conns
      <4>3. DeadBefore(a, n) => DeadBefore(a, task[a].at)'
            BY <3>1, <4>1, <4>2 DEF DeadBefore
      <4>4. ScanRight(a)'
            BY <3>1, <4>1, <4>2, <4>3 DEF ScanRight, At
      <4> QED BY <2>2, <3>1, <4>4
    <3>2. ASSUME Finish(a) \/ Becomes(a, [pc |-> "send", conn |-> Conns(a)[task[a].at]]),
                 table' = table, config' = config, strong' = strong
          PROVE  ScansRight'
      <4>1. ~InScan(a)'
            BY <1>0, <3>2 DEF Finish, Goes, Becomes, InScan
      <4>2. ScanRight(a)'
            BY <4>1 DEF ScanRight, InScan, At
      <4> QED BY <2>2, <3>2, <4>2
    <3>3. CASE Prune(a)
      <4>0. config' = config /\ strong' = strong
            BY <3>3 DEF Prune
      <4>1. CASE table' = table /\ Scan(a, "prune", task[a].at + 1)
            BY <3>1, <4>0, <4>1
      <4>2. CASE table' = table /\ Scan(a, "find", 1)
        <5>1. DeadBefore(a, 1)
              BY <3>0 DEF DeadBefore
        <5> QED BY <3>1, <4>0, <4>2, <5>1
      <4>3. CASE table' = table /\ Finish(a)
            BY <3>2, <4>0, <4>3
      <4>4. CASE /\ table' = [table EXCEPT ![task[a].route] = RemoveAt(@, task[a].at)]
                 /\ UNCHANGED <<task, lock>>
        <5>1. DOMAIN table' = DOMAIN table
              BY <4>4 DEF TypeOK
        <5>2. OnBestRoute(a)'
          <6>1. /\ Candidates(table', config, task[a].req) =
                     Candidates(table, config, task[a].req)
                /\ BestRoute(table', config, task[a].req) =
                     BestRoute(table, config, task[a].req)
                BY <5>1, SameRoutes
          <6>2. task' = task /\ config' = config
                BY <4>0, <4>4
          <6> QED BY <3>0, <5>1, <6>1, <6>2 DEF OnBestRoute
        <5>3. ScanRight(a)'
              BY <3>3, <4>4, <5>2 DEF Prune, ScanRight, At
        <5>4. ASSUME NEW b \in Acceptor, b # a PROVE ScanRight(b)'
          <6>1. task[a].pc \in Holding
                BY <3>3 DEF Prune, At, Holding
          <6>2. task[b].pc \notin Holding
                BY <5>4, <6>1 DEF MutexHeld
          <6> QED BY <4>4, <6>2 DEF ScanRight, InScan, At, Holding
        <5> QED BY <5>3, <5>4 DEF ScansRight
      <4> QED BY <3>3, <4>1, <4>2, <4>3, <4>4 DEF Prune
    <3>4. CASE Find(a)
      <4>0. table' = table /\ config' = config /\ strong' = strong
            BY <3>4 DEF Find
      <4>1. DeadBefore(a, task[a].at)
            BY <3>4 DEF Find, At, ScansRight, ScanRight
      <4>2. CASE task[a].at \in DOMAIN Conns(a) /\ Scan(a, "upgrade", task[a].at)
            BY <3>1, <4>0, <4>1, <4>2
      <4>3. CASE ~IsLive(a) /\ Scan(a, "find", task[a].at + 1)
        <5>1. DeadBefore(a, task[a].at + 1)
          <6> SUFFICES ASSUME NEW i \in DOMAIN Conns(a), i < task[a].at + 1
                       PROVE  Conns(a)[i] \notin strong
              BY DEF DeadBefore
          <6>1. i < task[a].at \/ i = task[a].at
                BY <3>0
          <6> QED BY <4>1, <4>3, <6>1 DEF DeadBefore, IsLive
        <5> QED BY <3>1, <4>0, <4>3, <5>1
      <4>4. CASE Scan(a, "prune", 1)
            BY <3>1, <4>0, <4>4
      <4> QED BY <3>4, <4>2, <4>3, <4>4 DEF Find
    <3>5. CASE Upgrade(a)
      <4>0. table' = table /\ config' = config /\ strong' = strong
            BY <3>5 DEF Upgrade
      <4>1. CASE Scan(a, "prune", 1)
            BY <3>1, <4>0, <4>1
      <4>2. CASE ~Scan(a, "prune", 1)
            BY <3>2, <3>5, <4>0, <4>2 DEF Upgrade
      <4> QED BY <4>1, <4>2
    <3> QED BY <2>4, <3>3, <3>4, <3>5 DEF Scanner
  <2> QED BY <2>1, <2>3, <2>4
<1>3. CASE UNCHANGED vars
  <2>1. ASSUME NEW b \in Acceptor PROVE ScanRight(b)'
        BY <1>3, ScanUndisturbed DEF vars, ScansRight
  <2> QED BY <2>1 DEF ScansRight
<1> QED BY <1>1, <1>2, <1>3 DEF Next

-------------------------------------------------------------------------------
(* What Router sees of a thread.                                           *)
Stat == [a \in Acceptor |-> Status(a)]

(* A thread that has answered nothing and asks for nothing.                *)
Quiescent(t) == t.pc \notin {"route", "prune", "find", "upgrade", "send", "dead"}

LEMMA StatusIs ==
  ASSUME NEW a \in Acceptor
  PROVE  /\ At(a, "route") \/ InScan(a) =>
              Status(a) = [is |-> "asking", req |-> task[a].req]
         /\ At(a, "send") => Status(a) = [is |-> "given", conn |-> task[a].conn]
         /\ At(a, "dead") => Status(a) = [is |-> "dead"]
         /\ Quiescent(task[a]) => Status(a) = [is |-> "idle"]
  BY DEF Status, At, InScan, Quiescent

LEMMA StatusIsNext ==
  ASSUME NEW a \in Acceptor
  PROVE  /\ At(a, "route")' \/ InScan(a)' =>
              Status(a)' = [is |-> "asking", req |-> task'[a].req]
         /\ At(a, "send")' => Status(a)' = [is |-> "given", conn |-> task'[a].conn]
         /\ At(a, "dead")' => Status(a)' = [is |-> "dead"]
         /\ Quiescent(task'[a]) => Status(a)' = [is |-> "idle"]
  BY DEF Status, At, InScan, Quiescent

LEMMA StatMoves ==
  ASSUME NEW a \in Acceptor, OthersStay(a)
  PROVE  Stat' = [Stat EXCEPT ![a] = Status(a)']
<1>1. \A b \in Acceptor : b # a => Status(b)' = Status(b)
      BY DEF OthersStay, Status
<1> QED BY <1>1 DEF Stat

(* Steps that Router does not see.                                         *)
Seen == <<config, table, opened, strong, granted>>

LEMMA Stutters ==
  ASSUME NEW a \in Acceptor, OthersStay(a), Status(a)' = Status(a), UNCHANGED Seen
  PROVE  UNCHANGED R!vars
<1>1. Stat' = Stat
      BY StatMoves DEF Stat
<1> QED BY <1>1 DEF R!vars, Seen, Stat

(* A thread that panics, with the connection it was adding or without one. *)
LEMMA Panics ==
  ASSUME TypeOK, NEW a \in Acceptor, OthersStay(a), Goes(a, "dead"),
         UNCHANGED <<config, table, opened, granted>>,
         strong' = strong \/ \E c : strong' = strong \ {c}
  PROVE  R!Crash(a)
<1>1. Status(a)' = [is |-> "dead"]
  <2>1. At(a, "dead")'
        BY DEF Goes, Becomes, At, TypeOK
  <2> QED BY <2>1, StatusIsNext
<1>2. Stat' = [Stat EXCEPT ![a] = [is |-> "dead"]]
      BY <1>1, StatMoves
<1>3. strong' = strong \/ \E c \in strong : strong' = strong \ {c}
      OBVIOUS
<1> QED BY <1>2, <1>3 DEF R!Crash, R!Becomes, R!Dead, Stat

(* What a scan finds.                                                      *)
LEMMA AnswersOfScan ==
  ASSUME NEW a \in Acceptor, OnBestRoute(a)
  PROVE  R!Answers(task[a].req) = FirstLive(Conns(a), strong)
  BY SameCandidates, SameBest, SameFirst DEF R!Answers, OnBestRoute, Conns

LEMMA AnswersNone ==
  ASSUME NEW a \in Acceptor, Candidates(table, config, task[a].req) = {}
  PROVE  R!Answers(task[a].req) = {}
  BY SameCandidates DEF R!Answers

-------------------------------------------------------------------------------
(* Each step of a thread is a step of Router or none.                      *)
Simulates == R!Next \/ UNCHANGED R!vars

LEMMA ServeSimulates ==
  ASSUME TypeOK, ScansRight, NEW a \in Acceptor, Serve(a)
  PROVE  Simulates
<1>0. task \in [Acceptor -> Task]
      BY DEF TypeOK
<1>1. OthersStay(a)
      BY ThreadFrame DEF Thread
<1>2. Stat' = [Stat EXCEPT ![a] = Status(a)'] /\ Stat[a] = Status(a)
      BY <1>1, StatMoves DEF Stat
<1>3. CASE HandleClient(a)
  <2>1. Quiescent(task[a]) /\ Quiescent(task'[a])
        BY <1>0, <1>3 DEF HandleClient, At, Finish, Goes, Becomes, Quiescent
  <2>2. Status(a)' = Status(a)
        BY <2>1, StatusIs, StatusIsNext
  <2> QED BY <1>1, <1>3, <2>2, Stutters DEF HandleClient, shared, Seen, Simulates
<1>4. CASE NextRequest(a)
  <2>1. Status(a) = [is |-> "idle"]
    <3>1. Quiescent(task[a])
          BY <1>4 DEF NextRequest, At, Quiescent
    <3> QED BY <3>1, StatusIs
  <2>2. CASE Finish(a) \/ Goes(a, "auth")
    <3>1. Quiescent(task'[a])
          BY <1>0, <2>2 DEF Finish, Goes, Becomes, Quiescent
    <3>2. Status(a)' = Status(a)
          BY <2>1, <3>1, StatusIsNext
    <3> QED BY <1>1, <1>4, <3>2, Stutters DEF NextRequest, shared, Seen, Simulates
  <2>3. ASSUME NEW req \in Request, Becomes(a, [pc |-> "route", req |-> req])
        PROVE  Simulates
    <3>1. At(a, "route")' /\ task'[a].req = req
          BY <1>0, <2>3 DEF Becomes, At
    <3>2. Status(a)' = [is |-> "asking", req |-> req]
          BY <3>1, StatusIsNext
    <3>3. R!Ask(a, req)
          BY <1>2, <1>4, <2>1, <3>2 DEF NextRequest, shared, R!Ask, R!Becomes, R!Asking,
               R!Idle, Stat
    <3> QED BY <2>3, <3>3 DEF R!Next, Simulates
  <2> QED BY <1>4, <2>2, <2>3 DEF NextRequest
<1>5. CASE RouteLock(a)
  <2>1. task[a] \in Routing /\ Status(a) = [is |-> "asking", req |-> task[a].req]
    <3>1. At(a, "route")
          BY <1>5 DEF RouteLock
    <3> QED BY <1>0, <3>1, StageOf, StatusIs DEF At
  <2>2. CASE LockPanics(a)
    <3>1. R!Crash(a)
          BY <1>1, <1>5, <2>2, Panics DEF RouteLock, LockPanics
    <3> QED BY <3>1 DEF R!Next, Simulates
  <2>3. CASE Candidates(table, config, task[a].req) = {} /\ Finish(a)
    <3>1. Status(a)' = [is |-> "idle"]
      <4>1. Quiescent(task'[a])
            BY <1>0, <2>3 DEF Finish, Goes, Becomes, Quiescent
      <4> QED BY <4>1, StatusIsNext
    <3>2. R!Answers(task[a].req) = {}
          BY <2>3, AnswersNone
    <3>3. R!Refuse(a)
          BY <1>2, <1>5, <2>1, <3>1, <3>2 DEF RouteLock, R!Refuse, R!MayPrune, R!Becomes,
               R!Idle, Stat
    <3> QED BY <3>3 DEF R!Next, Simulates
  <2>4. CASE Becomes(a, [pc |-> "prune", req |-> task[a].req, at |-> 1,
                         route |-> BestRoute(table, config, task[a].req)])
    <3>1. InScan(a)' /\ task'[a].req = task[a].req
          BY <1>0, <2>4 DEF Becomes, InScan
    <3>2. Status(a)' = Status(a)
          BY <2>1, <3>1, StatusIsNext
    <3> QED BY <1>1, <1>5, <3>2, Stutters DEF RouteLock, Seen, Simulates
  <2> QED BY <1>5, <2>2, <2>3, <2>4 DEF RouteLock
<1>6. CASE Scanner(a)
  <2>0. /\ task[a] \in Scanning /\ OnBestRoute(a) /\ InScan(a)
        /\ Status(a) = [is |-> "asking", req |-> task[a].req]
    <3>1. InScan(a)
          BY <1>6 DEF Scanner, Prune, Find, Upgrade, At, InScan
    <3> QED BY <1>0, <3>1, StageOf, StatusIs DEF InScan, ScansRight, ScanRight
  <2>1. ASSUME NEW stage \in {"prune", "find", "upgrade"}, NEW n, Scan(a, stage, n),
               UNCHANGED Seen
        PROVE  Simulates
    <3>1. InScan(a)' /\ task'[a].req = task[a].req
          BY <1>0, <2>0, <2>1 DEF Scan, Becomes, InScan, Scanning
    <3>2. Status(a)' = Status(a)
          BY <2>0, <3>1, StatusIsNext
    <3> QED BY <1>1, <2>1, <3>2, Stutters DEF Simulates
  <2>2. CASE Prune(a)
    <3>0. UNCHANGED <<config, opened, strong, granted>>
          BY <2>2 DEF Prune
    <3>1. CASE table' = table /\ (Scan(a, "prune", task[a].at + 1) \/ Scan(a, "find", 1))
          BY <2>1, <3>0, <3>1 DEF Seen
    <3>2. CASE /\ task[a].at \in DOMAIN Conns(a) /\ ~IsLive(a)
               /\ table' = [table EXCEPT ![task[a].route] = RemoveAt(@, task[a].at)]
               /\ UNCHANGED <<task, lock>>
      <4>1. Stat' = Stat
            BY <3>2 DEF Stat, Status
      <4>2. table' = [table EXCEPT ![task[a].route] = R!RemoveAt(@, task[a].at)]
            BY <3>2, SameRemoveAt
      <4>3. R!Forget(task[a].route, task[a].at)
            BY <3>0, <3>2, <4>1, <4>2 DEF R!Forget, IsLive, Conns, Stat
      <4>4. task[a].route \in DOMAIN table /\ task[a].at \in DOMAIN table[task[a].route]
            BY <2>0, <3>2 DEF OnBestRoute, Conns
      <4> QED BY <4>3, <4>4 DEF R!Next, Simulates
    <3>3. CASE Conns(a) = <<>> /\ Finish(a) /\ table' = table
      <4>1. Status(a)' = [is |-> "idle"]
        <5>1. Quiescent(task'[a])
              BY <1>0, <3>3 DEF Finish, Goes, Becomes, Quiescent
        <5> QED BY <5>1, StatusIsNext
      <4>2. R!Answers(task[a].req) = {}
        <5>1. FirstLive(Conns(a), strong) = {}
              BY <3>3 DEF FirstLive
        <5> QED BY <2>0, <5>1, AnswersOfScan
      <4>3. R!Refuse(a)
            BY <1>2, <2>0, <3>0, <3>3, <4>1, <4>2 DEF R!Refuse, R!MayPrune, R!Becomes,
                 R!Idle, Stat
      <4> QED BY <4>3 DEF R!Next, Simulates
    <3> QED BY <2>2, <3>1, <3>2, <3>3 DEF Prune
  <2>3. CASE Find(a)
    <3>1. UNCHANGED Seen
          BY <2>3 DEF Find, Seen
    <3> QED BY <2>1, <2>3, <3>1 DEF Find
  <2>4. CASE Upgrade(a)
    <3>0. UNCHANGED <<config, table, opened, strong, granted>>
          BY <2>4 DEF Upgrade
    <3>1. CASE Scan(a, "prune", 1)
          BY <2>1, <3>0, <3>1 DEF Seen
    <3>2. CASE IsLive(a) /\ Becomes(a, [pc |-> "send", conn |-> Conns(a)[task[a].at]])
      <4>1. Status(a)' = [is |-> "given", conn |-> Conns(a)[task[a].at]]
        <5>1. At(a, "send")' /\ task'[a].conn = Conns(a)[task[a].at]
              BY <1>0, <3>2 DEF Becomes, At
        <5> QED BY <5>1, StatusIsNext
      <4>2. Conns(a)[task[a].at] \in R!Answers(task[a].req)
        <5>1. task[a].at \in DOMAIN Conns(a) /\ DeadBefore(a, task[a].at)
              BY <2>4 DEF Upgrade, At, ScansRight, ScanRight
        <5>2. Conns(a) \in Seq(Conn)
              BY <2>0 DEF OnBestRoute, Conns, TypeOK
        <5>3. \A n \in 1..(task[a].at - 1) : Conns(a)[n] \notin strong
              BY <5>1, <5>2 DEF DeadBefore
        <5>4. Conns(a)[task[a].at] \in FirstLive(Conns(a), strong)
              BY <3>2, <5>1, <5>3 DEF IsLive, FirstLive
        <5> QED BY <2>0, <5>4, AnswersOfScan
      <4>3. R!Answer(a)
        <5>1. Stat[a].is = "asking" /\ Stat[a].req = task[a].req
              BY <1>2, <2>0
        <5>2. R!MayPrune(Stat[a].req)
              BY <3>0 DEF R!MayPrune
        <5>3. \E c \in R!Answers(Stat[a].req) : Stat' = [Stat EXCEPT ![a] = R!Given(c)]
              BY <1>2, <4>1, <4>2, <5>1 DEF R!Given
        <5> QED BY <3>0, <5>1, <5>2, <5>3 DEF R!Answer, R!Becomes, Stat
      <4> QED BY <4>3 DEF R!Next, Simulates
    <3> QED BY <2>4, <3>1, <3>2 DEF Upgrade
  <2> QED BY <1>6, <2>2, <2>3, <2>4 DEF Scanner
<1>7. CASE Send(a)
  <2>1. Status(a).is = "given"
    <3>1. At(a, "send")
          BY <1>7 DEF Send
    <3> QED BY <3>1, StatusIs
  <2>2. CASE Goes(a, "dead")
    <3>1. UNCHANGED <<config, table, strong, opened, granted>>
          BY <1>7 DEF Send, shared
    <3>2. R!Crash(a)
          BY <1>1, <2>2, <3>1, Panics
    <3> QED BY <3>2 DEF R!Next, Simulates
  <2>3. CASE ~Goes(a, "dead")
    <3>1. Status(a)' = [is |-> "idle"]
      <4>1. Quiescent(task'[a])
            BY <1>0, <1>7, <2>3 DEF Send, Finish, Goes, Becomes, Quiescent
      <4> QED BY <4>1, StatusIsNext
    <3>2. R!Done(a)
          BY <1>2, <1>7, <2>1, <3>1 DEF Send, shared, R!Done, R!Becomes, R!Idle, Stat
    <3> QED BY <3>2 DEF R!Next, Simulates
  <2> QED BY <2>2, <2>3
<1> QED BY <1>3, <1>4, <1>5, <1>6, <1>7 DEF Serve

LEMMA RegistrationSimulates ==
  ASSUME TypeOK, NEW a \in Acceptor, Registration(a)
  PROVE  Simulates
<1>0. task \in [Acceptor -> Task]
      BY DEF TypeOK
<1>1. OthersStay(a)
      BY ThreadFrame DEF Thread
<1>2. ASSUME Quiescent(task[a]), Quiescent(task'[a]), UNCHANGED Seen
      PROVE  Simulates
  <2>1. Status(a)' = Status(a)
        BY <1>2, StatusIs, StatusIsNext
  <2> QED BY <1>1, <1>2, <2>1, Stutters DEF Simulates
<1>3. CASE Auth(a)
  <2>1. Quiescent(task[a]) /\ Quiescent(task'[a])
        BY <1>0, <1>3 DEF Auth, At, Finish, Goes, Becomes, Quiescent
  <2>2. CASE granted' = granted
        BY <1>2, <1>3, <2>1, <2>2 DEF Auth, Seen
  <2>3. ASSUME NEW rec \in Preauthed, granted' = granted \cup {rec}
        PROVE  Simulates
    <3>1. Stat' = Stat
      <4>1. Status(a)' = Status(a)
            BY <2>1, StatusIs, StatusIsNext
      <4> QED BY <1>1, <4>1, StatMoves DEF Stat
    <3>2. R!Grant(rec)
          BY <1>3, <2>3, <3>1 DEF Auth, R!Grant, Stat
    <3> QED BY <2>3, <3>2 DEF R!Next, Simulates
  <2> QED BY <1>3, <2>2, <2>3 DEF Auth
<1>4. CASE CheckSecret(a)
  <2>0. UNCHANGED <<config, table, opened, strong, granted>>
        BY <1>4 DEF CheckSecret, shared
  <2>1. CASE LockPanics(a)
    <3>1. R!Crash(a)
          BY <1>1, <2>0, <2>1, Panics DEF LockPanics
    <3> QED BY <3>1 DEF R!Next, Simulates
  <2>2. CASE ~LockPanics(a)
    <3>1. Quiescent(task[a]) /\ Quiescent(task'[a])
          BY <1>0, <1>4, <2>2 DEF CheckSecret, At, Finish, Goes, Becomes, Quiescent
    <3> QED BY <1>2, <2>0, <3>1 DEF Seen
  <2> QED BY <2>1, <2>2
<1>5. CASE StoreWrite(a)
  <2>1. task[a] \in Saving
        BY <1>0, <1>5, StageOf DEF StoreWrite, At
  <2>2. Quiescent(task[a]) /\ Quiescent(task'[a])
        BY <1>0, <1>5, <2>1 DEF StoreWrite, At, Becomes, Quiescent, Saving
  <2> QED BY <1>2, <1>5, <2>2 DEF StoreWrite, Seen
<1>6. CASE SaveReply(a)
  <2>0. UNCHANGED <<config, table, opened, strong, granted>>
        BY <1>6 DEF SaveReply, shared
  <2>1. CASE Goes(a, "dead")
    <3>1. R!Crash(a)
          BY <1>1, <2>0, <2>1, Panics
    <3> QED BY <3>1 DEF R!Next, Simulates
  <2>2. CASE Finish(a)
    <3>1. Quiescent(task[a]) /\ Quiescent(task'[a])
          BY <1>0, <1>6, <2>2 DEF SaveReply, Finish, Goes, Becomes, Quiescent
    <3> QED BY <1>2, <2>0, <3>1 DEF Seen
  <2> QED BY <1>6, <2>1, <2>2 DEF SaveReply
<1> QED BY <1>3, <1>4, <1>5, <1>6 DEF Registration

LEMMA ReconnectSimulates ==
  ASSUME TypeOK, Vouched, Entered, AddedAlive, NEW a \in Acceptor, Reconnect(a)
  PROVE  Simulates
<1>0. task \in [Acceptor -> Task]
      BY DEF TypeOK
<1>1. OthersStay(a)
      BY ThreadFrame DEF Thread
<1>2. ASSUME Quiescent(task[a]), Quiescent(task'[a]) PROVE Stat' = Stat
  <2>1. Status(a)' = Status(a)
        BY <1>2, StatusIs, StatusIsNext
  <2> QED BY <1>1, <2>1, StatMoves DEF Stat
<1>3. ASSUME Quiescent(task[a]), Quiescent(task'[a]), UNCHANGED Seen PROVE Simulates
      BY <1>2, <1>3 DEF Seen, Simulates, R!vars, Stat
<1>4. CASE LoadKey(a)
  <2>0. UNCHANGED <<config, table, opened, strong, granted>>
        BY <1>4 DEF LoadKey
  <2>1. CASE LockPanics(a)
    <3>1. R!Crash(a)
          BY <1>1, <2>0, <2>1, Panics DEF LockPanics
    <3> QED BY <3>1 DEF R!Next, Simulates
  <2>2. CASE ~LockPanics(a)
    <3>1. task[a] \in Loading
          BY <1>0, <1>4, StageOf DEF LoadKey, At
    <3>2. Quiescent(task[a]) /\ Quiescent(task'[a])
          BY <1>0, <1>4, <2>2, <3>1 DEF LoadKey, At, Becomes, Quiescent, Loading
    <3> QED BY <1>3, <2>0, <3>2 DEF Seen
  <2> QED BY <2>1, <2>2
<1>5. CASE LoadReply(a)
  <2>0. UNCHANGED <<config, table, opened, strong, granted>>
        BY <1>5 DEF LoadReply
  <2>1. CASE LoadPanics(a)
    <3>1. R!Crash(a)
          BY <1>1, <2>0, <2>1, Panics DEF LoadPanics
    <3> QED BY <3>1 DEF R!Next, Simulates
  <2>2. CASE Found(a) \/ NotFound(a)
    <3>1. Quiescent(task[a]) /\ Quiescent(task'[a])
          BY <1>0, <1>5, <2>2 DEF LoadReply, Found, NotFound, At, Finish, Goes, Becomes,
               Quiescent
    <3> QED BY <1>3, <2>0, <3>1 DEF Seen
  <2> QED BY <1>5, <2>1, <2>2 DEF LoadReply
<1>6. CASE HandshakeStep(a)
  <2>0. UNCHANGED <<config, table, granted>>
        BY <1>6 DEF HandshakeStep
  <2>1. Quiescent(task[a]) /\ Quiescent(task'[a])
        BY <1>0, <1>6 DEF HandshakeStep, At, Finish, Goes, Becomes, Quiescent
  <2>2. CASE UNCHANGED <<opened, strong>>
        BY <1>3, <2>0, <2>1, <2>2 DEF Seen
  <2>3. ASSUME NEW c \in Conn \ opened, opened' = opened \cup {c}, strong' = strong \cup {c}
        PROVE  Simulates
    <3>1. R!Open(c)
          BY <1>2, <2>0, <2>1, <2>3 DEF R!Open, Stat
    <3> QED BY <2>3, <3>1 DEF R!Next, Simulates
  <2> QED BY <1>6, <2>2, <2>3 DEF HandshakeStep
<1>7. CASE Add(a)
  <2>0. /\ task[a] \in Adding /\ At(a, "add")
        /\ UNCHANGED <<config, opened, granted>>
        BY <1>0, <1>7, StageOf DEF Add, At
  <2>1. CASE /\ Goes(a, "dead") /\ table' = table
             /\ strong' = strong \ {task[a].conn}
    <3>1. R!Crash(a)
          BY <1>1, <2>0, <2>1, Panics
    <3> QED BY <3>1 DEF R!Next, Simulates
  <2>2. CASE AddPreauthed(a)
    <3>1. Quiescent(task[a]) /\ Quiescent(task'[a])
          BY <1>0, <2>0, <2>2 DEF AddPreauthed, At, Becomes, Quiescent
    <3>2. task[a].rec \in granted /\ task[a].conn \in strong /\ ~R!Listed(task[a].conn)
          BY <2>0 DEF At, Vouched, VouchedHands, AddedAlive, Entered, Listed, R!Listed
    <3>3. table' = R!Registered(table, task[a].rec, task[a].conn)
          BY <2>2, SameRegistered DEF AddPreauthed
    <3>4. R!Register(task[a].rec, task[a].conn)
          BY <1>2, <2>0, <2>2, <3>1, <3>2, <3>3
          DEF AddPreauthed, R!Register, DomainsOf, R!DomainsOf, Stat
    <3>5. task[a].rec \in Preauthed /\ task[a].conn \in Conn
          BY <2>0 DEF Adding
    <3> QED BY <3>4, <3>5 DEF R!Next, Simulates
  <2> QED BY <1>7, <2>1, <2>2 DEF Add, LockPanics, NotConfigured
<1>8. CASE DropDrive(a)
  <2>0. /\ task[a] \in Added /\ strong' = strong \ {task[a].conn}
        /\ UNCHANGED <<config, table, opened, granted>>
        BY <1>0, <1>8, StageOf DEF DropDrive, At
  <2>1. Quiescent(task[a]) /\ Quiescent(task'[a])
        BY <1>0, <1>8 DEF DropDrive, At, Finish, Goes, Becomes, Quiescent
  <2>2. R!Close(task[a].conn)
        BY <1>2, <2>0, <2>1 DEF R!Close, Stat
  <2>3. task[a].conn \in Conn
        BY <2>0 DEF Added
  <2> QED BY <2>2, <2>3 DEF R!Next, Simulates
<1> QED BY <1>4, <1>5, <1>6, <1>7, <1>8 DEF Reconnect

-------------------------------------------------------------------------------
(* What the simulation needs of a state.                                   *)
Ready == TypeOK /\ Vouched /\ Entered /\ AddedAlive /\ ScansRight

LEMMA StepSimulates == Ready /\ [Next]_vars => Simulates
<1> SUFFICES ASSUME Ready, [Next]_vars PROVE Simulates
    OBVIOUS
<1>1. CASE Restart
  <2>1. Stat' = [a \in Acceptor |-> [is |-> "idle"]]
    <3>1. \A a \in Acceptor : Quiescent(task'[a])
          BY <1>1 DEF Restart, Quiescent
    <3>2. \A a \in Acceptor : Status(a)' = [is |-> "idle"]
          BY <3>1, StatusIsNext
    <3> QED BY <3>2 DEF Stat
  <2>2. R!Restart
        BY <1>1, <2>1 DEF Restart, R!Restart, R!NoRoutes, NoRoutes, R!Idle, Stat
  <2> QED BY <2>2 DEF R!Next, Simulates
<1>2. ASSUME NEW a \in Acceptor, Thread(a) PROVE Simulates
  <2>1. CASE Accept(a) \/ HandleIncoming(a)
    <3>0. task \in [Acceptor -> Task] /\ OthersStay(a)
          BY <1>2, ThreadFrame DEF Ready, TypeOK
    <3>1. Quiescent(task[a]) /\ Quiescent(task'[a])
          BY <2>1, <3>0 DEF Accept, HandleIncoming, At, Finish, Goes, Becomes, Quiescent
    <3>2. Status(a)' = Status(a)
          BY <3>1, StatusIs, StatusIsNext
    <3> QED BY <2>1, <3>0, <3>2, Stutters DEF Accept, HandleIncoming, shared, Seen, Simulates
  <2>2. CASE Serve(a)
        BY <2>2, ServeSimulates DEF Ready
  <2>3. CASE Registration(a)
        BY <2>3, RegistrationSimulates DEF Ready
  <2>4. CASE Reconnect(a)
        BY <2>4, ReconnectSimulates DEF Ready
  <2> QED BY <1>2, <2>1, <2>2, <2>3, <2>4 DEF Thread
<1>3. CASE UNCHANGED vars
      BY <1>3 DEF vars, Simulates, R!vars, Status
<1> QED BY <1>1, <1>2, <1>3 DEF Next

LEMMA ReadyAlways == Spec => []Ready
<1>1. Init => Vouched /\ AddedAlive /\ ScansRight
      BY DEF Init, NoRoutes, Vouched, VouchedStore, VouchedHands, OnlyAuthorised,
           AddedAlive, ScansRight, ScanRight, InScan, At
<1>2. TypeOK /\ Vouched /\ [Next]_vars => Vouched'
      BY VouchedStep
<1>3. TypeOK /\ Owned /\ AddedAlive /\ [Next]_vars => AddedAlive'
      BY AddedAliveStep
<1>4. TypeOK /\ MutexHeld /\ Entered /\ ScansRight /\ [Next]_vars => ScansRight'
      BY ScansStep
<1>5. TypeOK /\ Vouched /\ Entered /\ AddedAlive /\ ScansRight => Ready
      BY DEF Ready
<1> QED BY <1>1, <1>2, <1>3, <1>4, <1>5, TypeCorrect, OwnedAlways, EnteredAlways,
           MutualExclusion, PTL DEF Spec

(* The scan of a list in steps, by any number of threads whose connections *)
(* die while it runs, answers every request as an atomic look at the table *)
(* would: LoadBalancer implements Router.                                  *)
THEOREM Implementation == Spec => RoutesAtomically
<1>1. Init => R!Init
  <2> SUFFICES ASSUME Init PROVE R!Init
      OBVIOUS
  <2>1. \A a \in Acceptor : Status(a) = [is |-> "idle"]
    <3>1. \A a \in Acceptor : Quiescent(task[a])
          BY DEF Init, Quiescent
    <3> QED BY <3>1, StatusIs
  <2> QED BY <2>1 DEF Init, R!Init, R!NoRoutes, NoRoutes, R!Idle
<1>2. Ready /\ [Next]_vars => [R!Next]_(R!vars)
      BY StepSimulates DEF Simulates
<1> QED BY <1>1, <1>2, ReadyAlways, PTL DEF Spec, RoutesAtomically, R!Spec

===============================================================================
