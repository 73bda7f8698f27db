-------------------------- MODULE HttpBrokerProofs --------------------------
EXTENDS HttpBroker, FiniteSetTheorems, TLAPS

(***************************************************************************)
(* Proofs about HttpBroker, for any number of goroutines, subscribers,     *)
(* deliveries and ports.  Types and HandlerSubscribed are inductive        *)
(* together; OneListener rests on the number of Connects and is proved for *)
(* two, which is what the programs make.                                   *)
(***************************************************************************)

(* A call about a subscriber has one.                                      *)
Target ==
    \A u \in Users : op[u] \in {"subscribe", "unsubscribe"} => sub[u] \in Subs

(* A run goroutine has a listener's port and an address to put back.       *)
Equipped ==
    \A r \in Runs : run[r] # "none" => port[r] \in Ports /\ saved[r] \in Ports \cup {Configured}

LockInv == TypeOK /\ Target /\ Equipped /\ HandlerSubscribed

(* At the start.                                                           *)
LEMMA InitLock == Init => LockInv
  <1> SUFFICES ASSUME Init PROVE LockInv
    OBVIOUS
  <1> USE BrokerAssumption DEF Init
  <1>1. TypeOK
    <2>1. writer \notin Users /\ connects \in 0 .. MaxConnects /\ disconnects \in 0 .. MaxDisconnects
      OBVIOUS
    <2> QED
      BY <2>1 DEF TypeOK, Ops
  <1>2. Target /\ Equipped /\ HandlerSubscribed
    BY DEF Target, Equipped, HandlerSubscribed
  <1> QED
    BY <1>1, <1>2 DEF LockInv

(* Connect and Disconnect.                                                 *)
LEMMA ConnectLock ==
    ASSUME LockInv, NEW u \in Users,
           \/ ConnectCheck(u) \/ ConnectError(u)
           \/ \E r \in Runs, q \in Ports : Connect(u, r, q)
           \/ DisconnectCheck(u) \/ DisconnectLock(u) \/ \E r \in Runs : Exit(u, r)
           \/ CallLock(u)
    PROVE  LockInv'
  <1> USE BrokerAssumption DEF LockInv, TypeOK, Target, Equipped, HandlerSubscribed, Ops,
          Enter, Back, Holds, CanWrite, userVars, runVars, counters
  <1>1. CASE ConnectCheck(u)
    BY <1>1 DEF ConnectCheck
  <1>2. CASE CallLock(u)
    BY <1>2 DEF CallLock
  <1>3. ASSUME NEW r \in Runs, NEW q \in Ports, Connect(u, r, q) PROVE LockInv'
    <2>1. TypeOK'
      BY <1>3 DEF Connect
    <2> QED
      BY <1>3, <2>1 DEF Connect
  <1>4. CASE ConnectError(u)
    BY <1>4 DEF ConnectError
  <1>5. CASE DisconnectCheck(u)
    BY <1>5 DEF DisconnectCheck
  <1>6. CASE DisconnectLock(u)
    BY <1>6 DEF DisconnectLock
  <1>7. ASSUME NEW r \in Runs, Exit(u, r) PROVE LockInv'
    BY <1>7 DEF Exit
  <1> QED
    BY <1>1, <1>2, <1>3, <1>4, <1>5, <1>6, <1>7

(* Subscribe and Unsubscribe.  Unsubscribe has the lock for writing, and   *)
(* so no handler runs.                                                     *)
LEMMA SubscribeLock ==
    ASSUME LockInv, NEW u \in Users,
           \/ \E s \in Subs : Subscribe(u, s) \/ Unsubscribe(u, s)
           \/ Subscribed(u) \/ SubscribeError(u) \/ Unsubscribed(u)
    PROVE  LockInv'
  <1> USE BrokerAssumption DEF LockInv, TypeOK, Target, Equipped, HandlerSubscribed, Ops,
          Enter, Back, Holds, CanWrite, userVars, runVars, counters
  <1>1. ASSUME NEW s \in Subs, Subscribe(u, s) PROVE LockInv'
    BY <1>1 DEF Subscribe
  <1>2. CASE Subscribed(u)
    BY <1>2 DEF Subscribed
  <1>3. CASE SubscribeError(u)
    BY <1>3 DEF SubscribeError
  <1>4. ASSUME NEW s \in Subs, Unsubscribe(u, s) PROVE LockInv'
    BY <1>4 DEF Unsubscribe
  <1>5. CASE Unsubscribed(u)
    BY <1>5 DEF Unsubscribed
  <1> QED
    BY <1>1, <1>2, <1>3, <1>4, <1>5

(* Deliveries, run goroutines and the registry.                            *)
LEMMA RunLock ==
    ASSUME LockInv,
           \/ \E h \in Posts : Handled(h) \/ \E s \in Subs : Deliver(h, s)
           \/ \E r \in Runs : Tick(r) \/ RunStep(r)
           \/ \E s \in Subs : Expire(s)
    PROVE  LockInv'
  <1> USE BrokerAssumption DEF LockInv, TypeOK, Target, Equipped, HandlerSubscribed, Ops,
          CanWrite, userVars, runVars, counters, runFrame
  <1>1. ASSUME NEW h \in Posts, Handled(h) PROVE LockInv'
    BY <1>1 DEF Handled
  <1>2. ASSUME NEW h \in Posts, NEW s \in Subs, Deliver(h, s) PROVE LockInv'
    BY <1>2 DEF Deliver
  <1>3. ASSUME NEW r \in Runs, Tick(r) PROVE LockInv'
    BY <1>3 DEF Tick
  <1>4. ASSUME NEW r \in Runs, Refresh(r) PROVE LockInv'
    BY <1>4 DEF Refresh
  <1>5. ASSUME NEW r \in Runs, Leave(r) PROVE LockInv'
    BY <1>5 DEF Leave
  <1>6. ASSUME NEW r \in Runs, CallLockOfRun(r) PROVE LockInv'
    BY <1>6 DEF CallLockOfRun
  <1>7. ASSUME NEW r \in Runs, Restore(r) PROVE LockInv'
    BY <1>7 DEF Restore
  <1>8. ASSUME NEW s \in Subs, Expire(s) PROVE LockInv'
    BY <1>8 DEF Expire
  <1> QED
    BY <1>1, <1>2, <1>3, <1>4, <1>5, <1>6, <1>7, <1>8 DEF RunStep

(* Types and HandlerSubscribed are inductive.                              *)
LEMMA NextLock == LockInv /\ [Next]_vars => LockInv'
  <1> SUFFICES ASSUME LockInv, [Next]_vars PROVE LockInv'
    OBVIOUS
  <1>1. CASE UNCHANGED vars
    BY <1>1 DEF LockInv, TypeOK, Target, Equipped, HandlerSubscribed, vars, userVars, runVars,
                counters
  <1>2. ASSUME NEW u \in Users, Begin(u) \/ UserStep(u) PROVE LockInv'
    BY <1>2, ConnectLock, SubscribeLock DEF Begin, UserStep
  <1> QED
    BY <1>1, <1>2, RunLock DEF Next

(* They hold in every reachable state.                                     *)
LEMMA LockInvariant == Spec => []LockInv
  BY InitLock, NextLock, PTL DEF Spec

(* Every variable of the broker keeps its type, and only a Disconnect      *)
(* holds the lock across steps.                                            *)
THEOREM BrokerTypes == Spec => []TypeOK
  <1>1. LockInv => TypeOK
    BY DEF LockInv
  <1> QED
    BY <1>1, LockInvariant, PTL

(* A handler runs only while its subscriber is subscribed: Unsubscribe     *)
(* returns to no caller while a delivery is still in the handler.          *)
THEOREM HandlersSubscribed == Spec => []HandlerSubscribed
  <1>1. LockInv => HandlerSubscribed
    BY DEF LockInv
  <1> QED
    BY <1>1, LockInvariant, PTL

-----------------------------------------------------------------------------
(* A subscriber is made by one call of Subscribe, which takes the address  *)
(* for it first and makes it known at its end.                             *)
Made ==
    /\ \A s \in known : at[s] # Nobody
    /\ \A u \in Users : op[u] = "subscribe" => at[sub[u]] # Nobody /\ sub[u] \notin known
    /\ \A u, v \in Users : op[u] = "subscribe" /\ op[v] = "subscribe" /\ sub[u] = sub[v] => u = v

(* Steps of the callers.                                                   *)
LEMMA UserMade ==
    ASSUME LockInv, Made, NEW u \in Users, Begin(u) \/ UserStep(u)
    PROVE  Made'
  <1> USE DEF Enter, Back, Holds
  <1>1. /\ op \in [Users -> Ops] /\ sub \in [Users -> Subs \cup {Nobody}]
        /\ at \in [Subs -> Ports \cup {Configured, Nobody}] /\ known \subseteq Subs
        /\ address # Nobody
        /\ \A v \in Users : op[v] = "subscribe" => sub[v] \in Subs
    BY BrokerAssumption DEF LockInv, TypeOK, Target
  <1>2. ASSUME NEW s \in Subs, Subscribe(u, s) PROVE Made'
    <2>1. /\ at' = [at EXCEPT ![s] = address] /\ at[s] = Nobody /\ known' = known
          /\ op' = [op EXCEPT ![u] = "subscribe"] /\ sub' = [sub EXCEPT ![u] = s]
      BY <1>2 DEF Subscribe
    <2>2. s \notin known /\ \A v \in Users : op[v] = "subscribe" => sub[v] # s
      BY <2>1 DEF Made
    <2> QED
      BY <1>1, <2>1, <2>2 DEF Made
  <1>3. CASE Subscribed(u)
    <2>1. /\ op[u] = "subscribe" /\ known' = known \cup {sub[u]} /\ at' = at
          /\ op' = [op EXCEPT ![u] = "none"] /\ sub' = [sub EXCEPT ![u] = Nobody]
      BY <1>3 DEF Subscribed
    <2>2. \A v \in Users : op'[v] = "subscribe" =>
             v # u /\ op[v] = "subscribe" /\ sub'[v] = sub[v] /\ sub[v] # sub[u]
      BY <1>1, <2>1 DEF Made
    <2> QED
      BY <1>1, <2>1, <2>2 DEF Made
  <1>4. CASE ~Subscribed(u) /\ \A s \in Subs : ~Subscribe(u, s)
    <2>1. at' = at /\ known' = known
      BY <1>4 DEF Begin, UserStep, ConnectCheck, DisconnectCheck, Unsubscribe, CallLock, Connect,
                  ConnectError, DisconnectLock, Exit, SubscribeError, Unsubscribed
    <2>2. \A v \in Users : op'[v] = "subscribe" => op[v] = "subscribe" /\ sub'[v] = sub[v]
      <3>1. CASE Begin(u)
        BY <1>1, <1>4, <3>1 DEF Begin, ConnectCheck, DisconnectCheck, Unsubscribe
      <3>2. CASE UserStep(u)
        BY <1>1, <1>4, <3>2 DEF UserStep, CallLock, Connect, ConnectError, DisconnectLock, Exit,
                                SubscribeError, Unsubscribed
      <3> QED
        BY <3>1, <3>2
    <2> QED
      BY <2>1, <2>2 DEF Made
  <1> QED
    BY <1>2, <1>3, <1>4

(* It holds in every reachable state.                                      *)
LEMMA MadeInvariant == Spec => []Made
  <1>1. Init => Made
    BY DEF Init, Made
  <1>2. LockInv /\ Made /\ [Next]_vars => Made'
    <2> SUFFICES ASSUME LockInv, Made, [Next]_vars PROVE Made'
      OBVIOUS
    <2>1. ASSUME \A u \in Users : ~(Begin(u) \/ UserStep(u)) PROVE Made'
      <3>1. UNCHANGED <<at, known, op, sub>>
        BY <2>1 DEF Next, Handled, Deliver, Tick, RunStep, Refresh, Leave, CallLockOfRun,
                    Restore, Expire, runFrame, userVars, vars
      <3> QED
        BY <3>1 DEF Made
    <2> QED
      BY <2>1, UserMade
  <1> QED
    BY <1>1, <1>2, LockInvariant, PTL DEF Spec

(* A node new in the registry: its subscriber is subscribed, or its own    *)
(* Subscribe is under way and has not succeeded.                           *)
Wanted(s) ==
    \/ s \in subscribers'
    \/ s \notin known /\ \E u \in Users : op[u] = "subscribe" /\ sub[u] = s

(* No heartbeat, exit or late Subscribe brings back the node of a          *)
(* subscriber that has unsubscribed, or of one that never was subscribed.  *)
THEOREM NoGhosts == Spec => NoGhost
  <1>1. Made /\ [Next]_vars => [\A s \in registered' \ registered : Wanted(s)]_vars
    <2> SUFFICES ASSUME Made, Next PROVE \A s \in registered' \ registered : Wanted(s)
      OBVIOUS
    <2>1. ASSUME NEW u \in Users, Begin(u) \/ UserStep(u)
          PROVE  \A s \in registered' \ registered : Wanted(s)
      <3>1. CASE Subscribed(u)
        BY <3>1 DEF Subscribed, Wanted
      <3>2. CASE Unsubscribed(u)
        BY <3>2 DEF Unsubscribed
      <3>3. CASE Begin(u)
        BY <3>3 DEF Begin, ConnectCheck, DisconnectCheck, Subscribe, Unsubscribe
      <3>4. CASE SubscribeError(u)
        BY <3>4 DEF SubscribeError, Holds, Made, Wanted
      <3>5. CASE CallLock(u) \/ ConnectError(u) \/ DisconnectLock(u)
        BY <3>5 DEF CallLock, ConnectError, DisconnectLock
      <3>6. CASE \/ \E r \in Runs, q \in Ports : Connect(u, r, q)
                 \/ \E r \in Runs : Exit(u, r)
        BY <3>6 DEF Connect, Exit
      <3> QED
        BY <2>1, <3>1, <3>2, <3>3, <3>4, <3>5, <3>6 DEF UserStep
    <2>2. ASSUME NEW h \in Posts, Handled(h) \/ \E s \in Subs : Deliver(h, s)
          PROVE  \A s \in registered' \ registered : Wanted(s)
      BY <2>2 DEF Handled, Deliver
    <2>3. ASSUME NEW r \in Runs, Tick(r) \/ RunStep(r)
          PROVE  \A s \in registered' \ registered : Wanted(s)
      <3>1. CASE Refresh(r)
        BY <3>1 DEF Refresh, runFrame, Wanted
      <3>2. CASE Leave(r)
        BY <3>2 DEF Leave, runFrame
      <3>3. CASE Tick(r) \/ CallLockOfRun(r) \/ Restore(r)
        BY <3>3 DEF Tick, CallLockOfRun, Restore, runFrame
      <3> QED
        BY <2>3, <3>1, <3>2, <3>3 DEF RunStep
    <2>4. ASSUME NEW s \in Subs, Expire(s)
          PROVE  \A t \in registered' \ registered : Wanted(t)
      BY <2>4 DEF Expire, runFrame
    <2> QED
      BY <2>1, <2>2, <2>3, <2>4 DEF Next
  <1> QED
    BY <1>1, MadeInvariant, PTL DEF Spec, NoGhost, Wanted

-----------------------------------------------------------------------------
(* Calls of Connect under way, and run goroutines they have started.  Each *)
(* of them was counted when Connect found the broker not running.          *)
Connecting == {u \in Users : op[u] = "connect"}
Started == {r \in Runs : run[r] # "none"}

Counted ==
    /\ IsFiniteSet(Connecting) /\ IsFiniteSet(Started)
    /\ Cardinality(Connecting) + Cardinality(Started) <= connects

(* The listener belongs to the one goroutine in its loop.  As long as it   *)
(* is the only one ever started, its port is the broker's address: the     *)
(* next Connect has to listen there and cannot.                            *)
ListenInv ==
    /\ \A r, s \in Runs : Looping(r) /\ Looping(s) => r = s
    /\ live = {port[r] : r \in {s \in Runs : Looping(s)}}
    /\ running <=> \E r \in Runs : Looping(r)
    /\ \A r \in Runs : Looping(r) /\ Started = {r} => address = port[r]

(* At the start.                                                           *)
LEMMA InitListen == Init => Counted /\ ListenInv
  <1> SUFFICES ASSUME Init PROVE Counted /\ ListenInv
    OBVIOUS
  <1>1. Connecting = {} /\ Started = {}
    BY DEF Init, Connecting, Started
  <1>2. Counted
    BY <1>1, FS_EmptySet DEF Init, Counted
  <1>3. ListenInv
    BY DEF Init, ListenInv, Looping
  <1> QED
    BY <1>2, <1>3

(* A step that starts no run goroutine and leaves the listener as it is.   *)
LEMMA ListenSame ==
    ASSUME Counted, ListenInv, connects \in Nat, connects' = connects,
           Connecting' \subseteq Connecting, Started' = Started,
           \A r \in Runs : Looping(r)' = Looping(r),
           UNCHANGED <<running, address, live, port>>
    PROVE  Counted' /\ ListenInv'
  <1>1. Counted'
    <2>1. IsFiniteSet(Connecting') /\ Cardinality(Connecting') <= Cardinality(Connecting)
      BY FS_Subset DEF Counted
    <2>2. Cardinality(Connecting') \in Nat /\ Cardinality(Connecting) \in Nat
            /\ Cardinality(Started) \in Nat
      BY <2>1, FS_CardinalityType DEF Counted
    <2> QED
      BY <2>1, <2>2 DEF Counted
  <1>2. ListenInv'
    BY DEF ListenInv
  <1> QED
    BY <1>1, <1>2

(* Steps of the locks, of the subscribers, of heartbeats and of exits.     *)
LEMMA OthersListen ==
    ASSUME LockInv, Counted, ListenInv,
           \/ \E u \in Users :
                 \/ CallLock(u) \/ ConnectError(u) \/ DisconnectCheck(u) \/ DisconnectLock(u)
                 \/ \E s \in Subs : Subscribe(u, s) \/ Unsubscribe(u, s)
                 \/ Subscribed(u) \/ SubscribeError(u) \/ Unsubscribed(u)
           \/ \E h \in Posts : Handled(h) \/ \E s \in Subs : Deliver(h, s)
           \/ \E r \in Runs : Tick(r) \/ Refresh(r) \/ Leave(r) \/ CallLockOfRun(r)
           \/ \E s \in Subs : Expire(s)
           \/ UNCHANGED vars
    PROVE  Counted' /\ ListenInv'
  <1> USE DEF LockInv, TypeOK
  <1>1. UNCHANGED <<running, address, live, port, connects>>
    BY DEF CallLock, ConnectError, DisconnectCheck, DisconnectLock, Subscribe, Unsubscribe,
           Subscribed, SubscribeError, Unsubscribed, Handled, Deliver, Tick, Refresh, Leave,
           CallLockOfRun, Expire, Enter, runFrame, userVars, runVars, counters, vars
  <1>2. Connecting' \subseteq Connecting
    <2> SUFFICES ASSUME NEW u \in Users, op'[u] = "connect" PROVE op[u] = "connect"
      BY DEF Connecting
    <2> QED
      BY DEF CallLock, ConnectError, DisconnectCheck, DisconnectLock, Subscribe, Unsubscribe,
             Subscribed, SubscribeError, Unsubscribed, Handled, Deliver, Tick, Refresh, Leave,
             CallLockOfRun, Expire, Enter, Back, runFrame, userVars, vars
  <1>3. \A r \in Runs : Looping(r)' = Looping(r) /\ (run'[r] # "none" <=> run[r] # "none")
    BY DEF CallLock, ConnectError, DisconnectCheck, DisconnectLock, Subscribe, Unsubscribe,
           Subscribed, SubscribeError, Unsubscribed, Handled, Deliver, Tick, Refresh, Leave,
           CallLockOfRun, Expire, Enter, runFrame, userVars, runVars, vars, Looping
  <1>4. Started' = Started /\ connects \in Nat
    BY <1>3, BrokerAssumption DEF Started
  <1> QED
    BY <1>1, <1>2, <1>3, <1>4, ListenSame

(* Connect finds the broker not running: one more is counted.              *)
LEMMA CheckListen ==
    ASSUME LockInv, Counted, ListenInv, NEW u \in Users, ConnectCheck(u)
    PROVE  Counted' /\ ListenInv'
  <1> USE DEF LockInv, TypeOK, ConnectCheck, Enter, runVars
  <1>1. Connecting' = Connecting \cup {u} /\ Started' = Started
    BY DEF Connecting, Started
  <1>2. /\ IsFiniteSet(Connecting')
        /\ Cardinality(Connecting') <= Cardinality(Connecting) + 1
        /\ Cardinality(Connecting') \in Nat
    <2>1. /\ IsFiniteSet(Connecting')
          /\ Cardinality(Connecting') \in {Cardinality(Connecting), Cardinality(Connecting) + 1}
      BY <1>1, FS_AddElement DEF Counted
    <2>2. Cardinality(Connecting) \in Nat
      BY FS_CardinalityType DEF Counted
    <2> QED
      BY <2>1, <2>2
  <1>3. Cardinality(Connecting) \in Nat /\ Cardinality(Started) \in Nat /\ connects \in Nat
    BY FS_CardinalityType, BrokerAssumption DEF Counted
  <1>4. Counted'
    BY <1>1, <1>2, <1>3 DEF Counted
  <1>5. ListenInv'
    BY <1>1 DEF ListenInv, Looping
  <1> QED
    BY <1>4, <1>5

(* With two Connects, the second has the first one's goroutine at most     *)
(* beside it.  If that still loops, its port is the address, and Listen    *)
(* fails there.                                                            *)
LEMMA ConnectListen ==
    ASSUME MaxConnects <= 2, LockInv, Counted, ListenInv,
           NEW u \in Users, NEW r \in Runs, NEW q \in Ports, Connect(u, r, q)
    PROVE  Counted' /\ ListenInv'
  <1> USE BrokerAssumption DEF LockInv, TypeOK, Connect, Holds, Back
  <1>1. Connecting' = Connecting \ {u} /\ u \in Connecting
    BY DEF Connecting
  <1>2. Started' = Started \cup {r} /\ r \notin Started
    BY DEF Started
  <1>3. /\ IsFiniteSet(Connecting') /\ Cardinality(Connecting') = Cardinality(Connecting) - 1
        /\ IsFiniteSet(Started') /\ Cardinality(Started') = Cardinality(Started) + 1
    BY <1>1, <1>2, FS_AddElement, FS_RemoveElement DEF Counted
  <1>4. /\ Cardinality(Connecting) \in Nat /\ Cardinality(Started) \in Nat
        /\ Cardinality(Connecting') \in Nat /\ connects \in 0 .. 2
    BY <1>3, FS_CardinalityType DEF Counted
  <1>5. Counted'
    BY <1>3, <1>4 DEF Counted, counters
  <1>6. Cardinality(Started) <= 1
    BY <1>3, <1>4 DEF Counted
  <1>7. \A s \in Runs : ~Looping(s)
    <2> SUFFICES ASSUME NEW s \in Runs, Looping(s) PROVE FALSE
      OBVIOUS
    <2>1. s \in Started
      BY DEF Looping, Started
    <2>2. Cardinality(Started) = 1
      BY <1>4, <1>6, <2>1, FS_EmptySet DEF Counted
    <2>3. Started = {s}
      BY <2>1, <2>2, FS_Singleton DEF Counted
    <2>4. address = port[s] /\ port[s] \in live
      BY <2>3 DEF ListenInv
    <2> QED
      BY <2>4 DEF Listen
  <1>8. \A s \in Runs : Looping(s)' <=> s = r
    BY <1>7 DEF Looping
  <1>9. live = {}
    BY <1>7 DEF ListenInv
  <1>10. ListenInv'
    <2>1. live' = {q} /\ port'[r] = q /\ address' = q /\ running'
      BY <1>9
    <2>2. live' = {port'[s] : s \in {t \in Runs : Looping(t)'}}
      BY <1>8, <2>1
    <2> QED
      BY <1>8, <2>1, <2>2 DEF ListenInv
  <1> QED
    BY <1>5, <1>10

(* The goroutine that takes the exit closes the one listener.              *)
LEMMA ExitListen ==
    ASSUME LockInv, Counted, ListenInv, NEW u \in Users, NEW r \in Runs, Exit(u, r)
    PROVE  Counted' /\ ListenInv'
  <1> USE DEF LockInv, TypeOK, Exit
  <1>1. Looping(r) /\ ~Looping(r)' /\ \A s \in Runs : s # r => ~Looping(s)
    BY DEF Looping, ListenInv
  <1>2. \A s \in Runs : ~Looping(s)'
    <2>1. run' = [run EXCEPT ![r] = "leaving"]
      OBVIOUS
    <2> QED
      BY <1>1, <2>1 DEF Looping
  <1>3. live' = {}
    BY <1>1 DEF ListenInv
  <1>4. ListenInv'
    <2>1. {s \in Runs : Looping(s)'} = {} /\ ~running'
      BY <1>2
    <2>2. live' = {port'[s] : s \in {t \in Runs : Looping(t)'}}
      BY <1>3, <2>1
    <2> QED
      BY <1>2, <2>1, <2>2 DEF ListenInv
  <1>5. Connecting' \subseteq Connecting /\ Started' = Started
    <2>1. ASSUME NEW v \in Users, op'[v] = "connect" PROVE op[v] = "connect"
      BY <2>1 DEF Back
    <2>2. \A s \in Runs : run'[s] # "none" <=> run[s] # "none"
      OBVIOUS
    <2> QED
      BY <2>1, <2>2 DEF Connecting, Started
  <1>6. Counted'
    <2>1. IsFiniteSet(Connecting') /\ Cardinality(Connecting') <= Cardinality(Connecting)
      BY <1>5, FS_Subset DEF Counted
    <2>2. Cardinality(Connecting') \in Nat /\ Cardinality(Connecting) \in Nat
            /\ Cardinality(Started) \in Nat /\ connects \in Nat
      BY <2>1, FS_CardinalityType, BrokerAssumption DEF Counted
    <2> QED
      BY <1>5, <2>1, <2>2 DEF Counted, counters
  <1> QED
    BY <1>4, <1>6

(* The goroutine that puts the old address back is not the one that loops. *)
LEMMA RestoreListen ==
    ASSUME LockInv, Counted, ListenInv, NEW r \in Runs, Restore(r)
    PROVE  Counted' /\ ListenInv'
  <1> USE DEF LockInv, TypeOK, Restore
  <1>1. \A s \in Runs : Looping(s)' = Looping(s)
    BY DEF Looping
  <1>2. Started' = Started /\ Connecting' = Connecting /\ r \in Started /\ ~Looping(r)
    BY DEF Started, Connecting, userVars, Looping
  <1>3. Counted'
    BY <1>2 DEF Counted, counters
  <1>4. \A s \in Runs : Looping(s) => Started # {s}
    BY <1>2
  <1>5. ListenInv'
    BY <1>1, <1>2, <1>4 DEF ListenInv
  <1> QED
    BY <1>3, <1>5

(* For two Connects the invariant is inductive.                            *)
LEMMA NextListen ==
    LockInv /\ (MaxConnects <= 2 => Counted /\ ListenInv) /\ [Next]_vars
        => (MaxConnects <= 2 => Counted /\ ListenInv)'
  <1> SUFFICES ASSUME MaxConnects <= 2, LockInv, Counted, ListenInv, [Next]_vars
               PROVE  Counted' /\ ListenInv'
    OBVIOUS
  <1>1. ASSUME NEW u \in Users, Begin(u) \/ UserStep(u) PROVE Counted' /\ ListenInv'
    BY <1>1, OthersListen, CheckListen, ConnectListen, ExitListen DEF Begin, UserStep
  <1>2. ASSUME NEW r \in Runs, Tick(r) \/ RunStep(r) PROVE Counted' /\ ListenInv'
    BY <1>2, OthersListen, RestoreListen DEF RunStep
  <1> QED
    BY <1>1, <1>2, OthersListen DEF Next

(* However two Connects, Disconnects and the run goroutines race, the      *)
(* broker listens exactly while it is running, on one port, and one        *)
(* goroutine can close it.                                                 *)
THEOREM ListensOnce == Spec => [](MaxConnects <= 2 => OneListener)
  <1>1. LockInv /\ Counted /\ ListenInv => OneListener
    <2> SUFFICES ASSUME LockInv, ListenInv PROVE OneListener
      OBVIOUS
    <2>1. CASE \A r \in Runs : ~Looping(r)
      <3>1. live = {} /\ {r \in Runs : Looping(r)} = {} /\ ~running
        BY <2>1 DEF ListenInv
      <3> QED
        BY <2>1, <3>1, FS_EmptySet DEF OneListener
    <2>2. ASSUME NEW r \in Runs, Looping(r) PROVE OneListener
      <3>1. {s \in Runs : Looping(s)} = {r}
        BY <2>2 DEF ListenInv
      <3>2. live = {port[r]} /\ running
        BY <2>2, <3>1 DEF ListenInv
      <3>3. Cardinality(live) = 1 /\ Cardinality({s \in Runs : Looping(s)}) = 1
        BY <3>1, <3>2, FS_Singleton
      <3>4. \A s \in Runs : Looping(s) => port[s] \in live
        BY DEF ListenInv
      <3> QED
        BY <3>2, <3>3, <3>4 DEF OneListener
    <2> QED
      BY <2>1, <2>2
  <1>2. Init => (MaxConnects <= 2 => Counted /\ ListenInv)
    BY InitListen
  <1>3. LockInv /\ (MaxConnects <= 2 => Counted /\ ListenInv) => (MaxConnects <= 2 => OneListener)
    BY <1>1
  <1> QED
    BY <1>2, <1>3, LockInvariant, NextListen, PTL DEF Spec

-----------------------------------------------------------------------------
(* Disconnect waits inside the lock for a run goroutine to take its        *)
(* channel.  There is one: in its select, or on its way to the read lock   *)
(* with a heartbeat, which is the only way in which it can fail to come.   *)
DisconnectMet ==
    \A u \in Users : pc[u] = "exit" => writer = u /\ \E r \in Runs : Looping(r)

(* A single Disconnect finds the broker running until it is done.          *)
Alone ==
    /\ \A u \in Users : op[u] = "disconnect" => running /\ disconnects > 0
    /\ \A u, v \in Users : op[u] = "disconnect" /\ op[v] = "disconnect" => u = v
    /\ \A u \in Users : pc[u] = "exit" => op[u] = "disconnect" /\ writer = u

(* Steps of the callers.                                                   *)
LEMMA UserAlone ==
    ASSUME MaxDisconnects <= 1, LockInv, Alone, NEW u \in Users, Begin(u) \/ UserStep(u)
    PROVE  Alone'
  <1> USE DEF Enter, Back, Holds, CanWrite
  <1>1. /\ pc \in [Users -> {"idle", "checked", "lock", "exit"}] /\ op \in [Users -> Ops]
        /\ disconnects \in Nat /\ disconnects <= MaxDisconnects /\ MaxDisconnects \in Nat
        /\ Nobody \notin Users
    BY BrokerAssumption DEF LockInv, TypeOK
  <1>2. CASE ConnectCheck(u)
    BY <1>1, <1>2 DEF ConnectCheck, Alone
  <1>3. CASE DisconnectCheck(u)
    <2>1. disconnects = 0 /\ disconnects' = 1 /\ running /\ running' = running /\ writer' = writer
      BY <1>1, <1>3 DEF DisconnectCheck
    <2>2. \A v \in Users : op[v] # "disconnect" /\ pc[v] # "exit"
      BY <2>1 DEF Alone
    <2>3. \A v \in Users \ {u} : op'[v] = op[v] /\ pc'[v] = pc[v]
      BY <1>1, <1>3 DEF DisconnectCheck
    <2>4. pc'[u] = "checked"
      BY <1>1, <1>3 DEF DisconnectCheck
    <2> QED
      BY <2>1, <2>2, <2>3, <2>4 DEF Alone
  <1>4. ASSUME NEW s \in Subs, Subscribe(u, s) \/ Unsubscribe(u, s) PROVE Alone'
    BY <1>1, <1>4 DEF Subscribe, Unsubscribe, Alone, counters
  <1>5. CASE CallLock(u)
    BY <1>1, <1>5 DEF CallLock, Alone, counters
  <1>6. ASSUME NEW r \in Runs, NEW q \in Ports, Connect(u, r, q) PROVE Alone'
    BY <1>1, <1>6 DEF Connect, Alone, counters
  <1>7. CASE ConnectError(u) \/ Subscribed(u) \/ SubscribeError(u) \/ Unsubscribed(u)
    <2>1. /\ op' = [op EXCEPT ![u] = "none"] /\ pc' = [pc EXCEPT ![u] = "idle"]
          /\ UNCHANGED <<running, writer, disconnects>>
      BY <1>7 DEF ConnectError, Subscribed, SubscribeError, Unsubscribed, counters
    <2> QED
      BY <1>1, <2>1 DEF Alone
  <1>8. CASE DisconnectLock(u)
    BY <1>1, <1>8 DEF DisconnectLock, Alone, counters
  <1>9. ASSUME NEW r \in Runs, Exit(u, r) PROVE Alone'
    <2>1. op[u] = "disconnect"
      BY <1>9 DEF Exit, Alone
    <2>2. \A v \in Users : op'[v] # "disconnect" /\ pc'[v] # "exit"
      BY <1>1, <1>9, <2>1 DEF Exit, Alone
    <2> QED
      BY <2>2 DEF Alone
  <1> QED
    BY <1>2, <1>3, <1>4, <1>5, <1>6, <1>7, <1>8, <1>9 DEF Begin, UserStep

(* All steps.                                                              *)
LEMMA NextAlone ==
    LockInv /\ (MaxDisconnects <= 1 => Alone) /\ [Next]_vars => (MaxDisconnects <= 1 => Alone)'
  <1> SUFFICES ASSUME MaxDisconnects <= 1, LockInv, Alone, [Next]_vars PROVE Alone'
    OBVIOUS
  <1>1. ASSUME NEW h \in Posts, Handled(h) \/ \E s \in Subs : Deliver(h, s) PROVE Alone'
    BY <1>1 DEF Handled, Deliver, Alone, userVars, counters
  <1>2. ASSUME NEW r \in Runs, Tick(r) \/ RunStep(r) PROVE Alone'
    <2>1. UNCHANGED <<running, writer, op, pc, disconnects>>
      BY <1>2 DEF Tick, RunStep, Refresh, Leave, CallLockOfRun, Restore, runFrame, userVars,
                  counters
    <2> QED
      BY <2>1 DEF Alone
  <1>3. ASSUME NEW s \in Subs, Expire(s) PROVE Alone'
    BY <1>3 DEF Expire, Alone, runFrame, userVars, counters
  <1>4. CASE UNCHANGED vars
    BY <1>4 DEF vars, Alone, userVars, counters
  <1> QED
    BY <1>1, <1>2, <1>3, <1>4, UserAlone DEF Next

(* With the two Connects of the programs and one Disconnect, the latter    *)
(* never offers its channel to nobody: that its run goroutine is waiting   *)
(* for the read lock outside its select (http_broker.go:267, 444) is the   *)
(* only thing that can keep it from returning.                             *)
THEOREM DisconnectIsMet ==
    Spec => [](MaxConnects <= 2 /\ MaxDisconnects <= 1 => DisconnectMet)
  <1>1. Init => (MaxConnects <= 2 => Counted /\ ListenInv)
    BY InitListen
  <1>2. Init => (MaxDisconnects <= 1 => Alone)
    BY DEF Init, Alone
  <1>3. (MaxConnects <= 2 => Counted /\ ListenInv) /\ (MaxDisconnects <= 1 => Alone)
            => (MaxConnects <= 2 /\ MaxDisconnects <= 1 => DisconnectMet)
    BY DEF ListenInv, Alone, DisconnectMet
  <1> QED
    BY <1>1, <1>2, <1>3, LockInvariant, NextListen, NextAlone, PTL DEF Spec
=============================================================================
