----------------------------- MODULE HttpBroker -----------------------------
(***************************************************************************)
(* The life cycle of the default broker (broker/http_broker.go), which the *)
(* client and the server of a service share: Connect, Disconnect,          *)
(* Subscribe, Unsubscribe, the run goroutine of each Connect, and the HTTP *)
(* requests that deliver messages to subscribers.                          *)
(*                                                                         *)
(* All of them meet at the broker's RWMutex, whose pending writer keeps    *)
(* new readers out.  A critical section that does not wait inside is one   *)
(* step; Disconnect waits inside its own for the run goroutine, and a      *)
(* delivery runs the subscriber's handler inside a read lock.              *)
(***************************************************************************)
EXTENDS Integers, FiniteSets

CONSTANTS
    Users,          \* goroutines that call the broker
    Posts,          \* goroutines of net/http that serve a delivery
    Subs,           \* subscribers, each subscribed at most once
    Runs,           \* run goroutines, one per Connect that listens
    Ports,          \* addresses a listener may be given
    Configured,     \* the address before Connect, ":0"
    MaxConnects,    \* bound on calls of Connect that find it not running:
                    \* Start of the server and the once of the client are two
    MaxDisconnects, \* bound on calls of Disconnect
    Nobody

ASSUME BrokerAssumption ==
    /\ MaxConnects \in Nat /\ MaxDisconnects \in Nat
    /\ Configured \notin Ports
    /\ Nobody \notin Users \cup Subs \cup Ports \cup {Configured}

VARIABLES
    running, address, subscribers, \* the broker's fields
    writer,         \* who holds its lock for writing
    handling,       \* the subscriber whose handler a delivery runs, read-locked
    pc,             \* of a user: idle, checked, lock, exit
    op, sub,        \* the call it is in, and the subscriber
    run,            \* none, loop, tick, leaving, left, restore, done
    port, saved,    \* the listener of a run goroutine, the address before it
    live,           \* ports listened on
    registered,     \* Subs whose node the registry has
    at,             \* the address in a subscriber's node
    known,          \* subscribers Subscribe has returned
    connects, disconnects

userVars == <<pc, op, sub>>
runVars == <<run, port, saved>>
counters == <<connects, disconnects>>
vars == <<running, address, subscribers, writer, handling, userVars, runVars,
          live, registered, at, known, counters>>

Ops == {"none", "connect", "disconnect", "subscribe", "unsubscribe"}

Init ==
    /\ running = FALSE
    /\ address = Configured
    /\ subscribers = {}
    /\ writer = Nobody
    /\ handling = [h \in Posts |-> Nobody]
    /\ pc = [u \in Users |-> "idle"]
    /\ op = [u \in Users |-> "none"]
    /\ sub = [u \in Users |-> Nobody]
    /\ run = [r \in Runs |-> "none"]
    /\ port = [r \in Runs |-> Nobody]
    /\ saved = [r \in Runs |-> Nobody]
    /\ live = {}
    /\ registered = {}
    /\ at = [s \in Subs |-> Nobody]
    /\ known = {}
    /\ connects = 0
    /\ disconnects = 0

-----------------------------------------------------------------------------
(* sync.RWMutex.                                                           *)

CanRead ==
    /\ writer = Nobody
    /\ \A u \in Users : pc[u] # "lock"
    /\ \A r \in Runs : run[r] # "restore"

CanWrite == writer = Nobody /\ \A h \in Posts : handling[h] = Nobody

(* A user at "lock" has called Lock.                                       *)
CallLock(u) ==
    /\ pc[u] = "checked"
    /\ pc' = [pc EXCEPT ![u] = "lock"]
    /\ UNCHANGED <<running, address, subscribers, writer, handling, op, sub,
                   runVars, live, registered, at, known, counters>>

Holds(u, o) == pc[u] = "lock" /\ op[u] = o /\ CanWrite

Back(u) ==
    /\ pc' = [pc EXCEPT ![u] = "idle"]
    /\ op' = [op EXCEPT ![u] = "none"]
    /\ sub' = [sub EXCEPT ![u] = Nobody]

Enter(u, o, s, l) ==
    /\ pc[u] = "idle"
    /\ pc' = [pc EXCEPT ![u] = l]
    /\ op' = [op EXCEPT ![u] = o]
    /\ sub' = [sub EXCEPT ![u] = s]

-----------------------------------------------------------------------------
(* Connect.  The check and the work are under two locks: the listener, not *)
(* the flag, stops a second Connect, for h.address is then in use.         *)

ConnectCheck(u) ==
    /\ CanRead
    /\ ~running
    /\ connects < MaxConnects
    /\ connects' = connects + 1
    /\ Enter(u, "connect", Nobody, "checked")
    /\ UNCHANGED <<running, address, subscribers, writer, handling, runVars,
                   live, registered, at, known, disconnects>>

Listen(a, q) == q \notin live /\ a \in {q, Configured}

ConnectKeepsAddress(u, r, q) ==     \* faulty: h.address stays ":0"
    /\ Holds(u, "connect")
    /\ Listen(address, q)
    /\ run[r] = "none"
    /\ run' = [run EXCEPT ![r] = "loop"]
    /\ port' = [port EXCEPT ![r] = q]
    /\ saved' = [saved EXCEPT ![r] = address]
    /\ live' = live \cup {q}
    /\ running' = TRUE
    /\ Back(u)
    /\ UNCHANGED <<address, subscribers, writer, handling, registered, at, known, counters>>

Connect(u, r, q) ==
    /\ Holds(u, "connect")
    /\ Listen(address, q)
    /\ run[r] = "none"
    /\ run' = [run EXCEPT ![r] = "loop"]
    /\ port' = [port EXCEPT ![r] = q]
    /\ saved' = [saved EXCEPT ![r] = address]
    /\ live' = live \cup {q}
    /\ address' = q
    /\ running' = TRUE
    /\ Back(u)
    /\ UNCHANGED <<subscribers, writer, handling, registered, at, known, counters>>

(* Listen fails: always when the broker listens on h.address itself.       *)
ConnectError(u) ==
    /\ Holds(u, "connect")
    /\ Back(u)
    /\ UNCHANGED <<running, address, subscribers, writer, handling, runVars,
                   live, registered, at, known, counters>>

-----------------------------------------------------------------------------
(* Disconnect holds the lock while it offers its channel to a run          *)
(* goroutine and waits for the answer.                                     *)

DisconnectCheck(u) ==
    /\ CanRead
    /\ running
    /\ disconnects < MaxDisconnects
    /\ disconnects' = disconnects + 1
    /\ Enter(u, "disconnect", Nobody, "checked")
    /\ UNCHANGED <<running, address, subscribers, writer, handling, runVars,
                   live, registered, at, known, connects>>

DisconnectLock(u) ==
    /\ Holds(u, "disconnect")
    /\ writer' = u
    /\ pc' = [pc EXCEPT ![u] = "exit"]
    /\ UNCHANGED <<running, address, subscribers, handling, op, sub, runVars,
                   live, registered, at, known, counters>>

(* The run goroutine takes the channel in its select and closes its        *)
(* listener; Disconnect gets the result and unlocks.                       *)
Exit(u, r) ==
    /\ pc[u] = "exit"
    /\ run[r] = "loop"
    /\ run' = [run EXCEPT ![r] = "leaving"]
    /\ live' = live \ {port[r]}
    /\ running' = FALSE
    /\ writer' = Nobody
    /\ Back(u)
    /\ UNCHANGED <<address, subscribers, handling, port, saved, registered, at,
                   known, counters>>

-----------------------------------------------------------------------------
(* Subscribe takes the address first, and registers under the lock later.  *)

Subscribe(u, s) ==
    /\ CanRead
    /\ at[s] = Nobody
    /\ at' = [at EXCEPT ![s] = address]
    /\ Enter(u, "subscribe", s, "checked")
    /\ UNCHANGED <<running, address, subscribers, writer, handling, runVars,
                   live, registered, known, counters>>

Subscribed(u) ==
    /\ Holds(u, "subscribe")
    /\ registered' = registered \cup {sub[u]}
    /\ subscribers' = subscribers \cup {sub[u]}
    /\ known' = known \cup {sub[u]}
    /\ Back(u)
    /\ UNCHANGED <<running, address, writer, handling, runVars, live, at, counters>>

(* Register fails, and nobody is subscribed.  It has no effect in the      *)
(* registry, or it has come as far as the node: the agent has the service  *)
(* before its check is passed, and the answer to either can be lost.       *)
SubscribeError(u) ==
    /\ Holds(u, "subscribe")
    /\ \E reached \in SUBSET {sub[u]} : registered' = registered \cup reached
    /\ Back(u)
    /\ UNCHANGED <<running, address, subscribers, writer, handling, runVars,
                   live, at, known, counters>>

Unsubscribe(u, s) ==
    /\ s \in known
    /\ Enter(u, "unsubscribe", s, "lock")
    /\ UNCHANGED <<running, address, subscribers, writer, handling, runVars,
                   live, registered, at, known, counters>>

UnsubscribedUnderRLock(u) ==        \* faulty: does not keep readers out
    /\ pc[u] = "lock"
    /\ op[u] = "unsubscribe"
    /\ writer = Nobody
    /\ registered' = registered \ {sub[u]}
    /\ subscribers' = subscribers \ {sub[u]}
    /\ Back(u)
    /\ UNCHANGED <<running, address, writer, handling, runVars, live, at,
                   known, counters>>

(* What the registry answers to Deregister is ignored.                     *)
Unsubscribed(u) ==
    /\ Holds(u, "unsubscribe")
    /\ \E refused \in BOOLEAN :
         registered' = IF refused THEN registered
                        ELSE registered \ (subscribers \cap {sub[u]})
    /\ subscribers' = subscribers \ {sub[u]}
    /\ Back(u)
    /\ UNCHANGED <<running, address, writer, handling, runVars, live, at,
                   known, counters>>

-----------------------------------------------------------------------------
(* ServeHTTP: a request names its subscriber, or nobody any more.  The     *)
(* connections of a closed listener are served on.                         *)

Deliver(h, s) ==
    /\ handling[h] = Nobody
    /\ \E r \in Runs : run[r] # "none"
    /\ CanRead
    /\ s \in subscribers
    /\ handling' = [handling EXCEPT ![h] = s]
    /\ UNCHANGED <<running, address, subscribers, writer, userVars, runVars,
                   live, registered, at, known, counters>>

HandledAfterPublish(h) ==           \* faulty: the handler takes the read lock again
    /\ handling[h] # Nobody
    /\ CanRead
    /\ handling' = [handling EXCEPT ![h] = Nobody]
    /\ UNCHANGED <<running, address, subscribers, writer, userVars, runVars,
                   live, registered, at, known, counters>>

Handled(h) ==
    /\ handling[h] # Nobody
    /\ handling' = [handling EXCEPT ![h] = Nobody]
    /\ UNCHANGED <<running, address, subscribers, writer, userVars, runVars,
                   live, registered, at, known, counters>>

-----------------------------------------------------------------------------
(* The run goroutine: the ticker fires, and it waits for the read lock out *)
(* of its select.                                                          *)

runFrame == <<running, address, subscribers, writer, handling, userVars, port,
              saved, live, at, known, counters>>

Tick(r) ==
    /\ run[r] = "loop"
    /\ run' = [run EXCEPT ![r] = "tick"]
    /\ UNCHANGED <<runFrame, registered>>

RefreshKnown(r) ==                  \* faulty: keeps a list of its own
    /\ run[r] = "tick"
    /\ CanRead
    /\ registered' = registered \cup known
    /\ run' = [run EXCEPT ![r] = "loop"]
    /\ UNCHANGED runFrame

(* The registry may refuse any of them, here and in Leave, unheard.        *)
Refresh(r) ==
    /\ run[r] = "tick"
    /\ CanRead
    /\ \E S \in SUBSET subscribers : registered' = registered \cup S
    /\ run' = [run EXCEPT ![r] = "loop"]
    /\ UNCHANGED runFrame

(* After the exit: deregister everybody, then put back the old address.    *)
Leave(r) ==
    /\ run[r] = "leaving"
    /\ CanRead
    /\ \E S \in SUBSET subscribers : registered' = registered \ S
    /\ run' = [run EXCEPT ![r] = "left"]
    /\ UNCHANGED runFrame

CallLockOfRun(r) ==
    /\ run[r] = "left"
    /\ run' = [run EXCEPT ![r] = "restore"]
    /\ UNCHANGED <<runFrame, registered>>

Restore(r) ==
    /\ run[r] = "restore"
    /\ CanWrite
    /\ address' = saved[r]
    /\ run' = [run EXCEPT ![r] = "done"]
    /\ UNCHANGED <<running, subscribers, writer, handling, userVars, port, saved,
                   live, registered, at, known, counters>>

(* The registry drops a node that has not been registered for a minute.    *)
Expire(s) ==
    /\ s \in registered
    /\ registered' = registered \ {s}
    /\ UNCHANGED <<runFrame, run>>

-----------------------------------------------------------------------------
Begin(u) ==
    \/ ConnectCheck(u)
    \/ DisconnectCheck(u)
    \/ \E s \in Subs : Subscribe(u, s) \/ Unsubscribe(u, s)

UserStep(u) ==
    \/ CallLock(u)
    \/ \E r \in Runs, q \in Ports : Connect(u, r, q)
    \/ ConnectError(u)
    \/ DisconnectLock(u)
    \/ \E r \in Runs : Exit(u, r)
    \/ Subscribed(u) \/ SubscribeError(u)
    \/ Unsubscribed(u)

RunStep(r) == Refresh(r) \/ Leave(r) \/ CallLockOfRun(r) \/ Restore(r)

Next ==
    \/ \E u \in Users : Begin(u) \/ UserStep(u)
    \/ \E h \in Posts : Handled(h) \/ \E s \in Subs : Deliver(h, s)
    \/ \E r \in Runs : Tick(r) \/ RunStep(r)
    \/ \E s \in Subs : Expire(s)

Spec == Init /\ [][Next]_vars

(* Goroutines that can run do, and subscribers' handlers return.           *)
Fairness ==
    /\ \A u \in Users : WF_vars(UserStep(u))
    /\ \A r \in Runs : WF_vars(RunStep(r))
    /\ \A h \in Posts : WF_vars(Handled(h))

FairSpec == Spec /\ Fairness

-----------------------------------------------------------------------------
(* Every variable has its type, and the lock is only held by a Disconnect. *)
TypeOK ==
    /\ running \in BOOLEAN
    /\ address \in Ports \cup {Configured}
    /\ subscribers \in SUBSET Subs
    /\ writer \in Users \cup {Nobody}
    /\ writer \in Users => pc[writer] = "exit"
    /\ handling \in [Posts -> Subs \cup {Nobody}]
    /\ pc \in [Users -> {"idle", "checked", "lock", "exit"}]
    /\ op \in [Users -> Ops]
    /\ sub \in [Users -> Subs \cup {Nobody}]
    /\ run \in [Runs -> {"none", "loop", "tick", "leaving", "left", "restore", "done"}]
    /\ port \in [Runs -> Ports \cup {Nobody}]
    /\ saved \in [Runs -> Ports \cup {Configured, Nobody}]
    /\ live \in SUBSET Ports
    /\ registered \in SUBSET Subs
    /\ at \in [Subs -> Ports \cup {Configured, Nobody}]
    /\ known \in SUBSET Subs
    /\ connects \in 0 .. MaxConnects
    /\ disconnects \in 0 .. MaxDisconnects

Looping(r) == run[r] \in {"loop", "tick"}

(* However Connects and Disconnects race, the broker listens exactly when  *)
(* it is running, on one port, with one run goroutine that can close it.   *)
OneListener ==
    /\ running <=> live # {}
    /\ Cardinality(live) <= 1
    /\ Cardinality({r \in Runs : Looping(r)}) = Cardinality(live)
    /\ \A r \in Runs : Looping(r) => port[r] \in live

(* No ghosts: the node of whoever was subscribed comes back into the       *)
(* registry only while it still is, even if a heartbeat or an exit races   *)
(* with Unsubscribe; and the node of a Subscribe that has failed comes     *)
(* with that call and never again.  What the registry refused to drop, or  *)
(* took from a call that failed, is gone when it expires.                  *)
NoGhost ==
    [][\A s \in registered' \ registered :
          \/ s \in subscribers'
          \/ s \notin known /\ \E u \in Users : op[u] = "subscribe" /\ sub[u] = s]_vars

(* A handler runs only while it is subscribed: once Unsubscribe has        *)
(* returned, no delivery is still in it.                                   *)
HandlerSubscribed ==
    \A h \in Posts : handling[h] # Nobody => handling[h] \in subscribers

(* Unless somebody disconnects, every call gets the lock and returns,      *)
(* however many deliveries and heartbeats read.                            *)
CallsReturn ==
    \A u \in Users : pc[u] # "idle" ~> (pc[u] = "idle" \/ disconnects > 0)

(* grpcexample/learn/broker.go:14: Disconnect closes the broker service.   *)
DisconnectCloses ==
    \A u \in Users : op[u] = "disconnect" ~> (pc[u] = "idle" /\ live = {})
=============================================================================
