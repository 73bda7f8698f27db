--------------------------- MODULE ServerLifecycle ---------------------------
(***************************************************************************)
(* The life of a server process such as example2/srv: service.Run          *)
(* (service.go), rpcServer's Start, Register, Deregister and Stop          *)
(* (server/rpc_server.go), and the consul registry they call               *)
(* (registry/consul/consul.go) with the agent behind it.                   *)
(*                                                                         *)
(* Start listens, registers once and leaves a goroutine that registers     *)
(* again at every tick, until Stop hands it a channel; then that goroutine *)
(* deregisters, closes the listener and answers.  Register and Deregister  *)
(* are never run by two goroutines at once, but each is several calls of   *)
(* the registry and the broker, any of which can fail half done, while the *)
(* agent counts the time since it last heard of the node.                  *)
(***************************************************************************)
EXTENDS Integers, FiniteSets

CONSTANTS
    Procs,          \* server processes; a restart has a new node id
    Topics,         \* topics the program subscribes to
    Ttl,            \* RegisterTTL, in units of time
    Interval,       \* RegisterInterval
    DeregisterAfter,\* DeregisterCriticalServiceAfter
    MaxFaults       \* bound on failed calls, late ticks and agent restarts

ASSUME LifecycleAssumption ==
    /\ Ttl \in Nat /\ Interval \in 1 .. Ttl - 1
    /\ DeregisterAfter \in Nat /\ MaxFaults \in Nat

VARIABLES
    main,       \* of Run: init, listening, announcing, waiting, stopping, returned, dead
    loop,       \* Start's goroutine: none, select, leaving, closed, done
    op,         \* what runs of Register (pass, register, confirm, subscribe) or deregister
    todo,       \* subscribers Register's loop has not come to
    registered, \* rpcServer.registered
    held,       \* subscribers whose broker.Subscriber the server holds
    hash,       \* consulRegistry.register has the service
    healthy,    \* what RegisterCheck said last
    refused,    \* the last Deregister failed
    listening,  \* the transport's listener is open
    subs,       \* subscriptions the broker has, per topic
    ticker, due,\* time to the next tick; a tick waits in the channel
    known, age, \* nodes of the agent, and time since their check passed
    nodes,      \* topics of which the agent has a node of the process's broker
    missed,     \* topics for which a call of the broker to the agent has failed
    faults

mainVars == <<main, healthy>>
serverVars == <<registered, held, subs>>
clockVars == <<ticker, due>>
topicVars == <<nodes, missed>>
agentVars == <<known, age, topicVars>>
vars == <<mainVars, loop, op, todo, serverVars, hash, refused, listening,
          clockVars, agentVars, faults>>

Init ==
    /\ main = [p \in Procs |-> "init"]
    /\ loop = [p \in Procs |-> "none"]
    /\ op = [p \in Procs |-> "none"]
    /\ todo = [p \in Procs |-> {}]
    /\ registered = [p \in Procs |-> FALSE]
    /\ held = [p \in Procs |-> {}]
    /\ hash = [p \in Procs |-> FALSE]
    /\ healthy = [p \in Procs |-> TRUE]
    /\ refused = [p \in Procs |-> FALSE]
    /\ listening = [p \in Procs |-> FALSE]
    /\ subs = [p \in Procs |-> [t \in Topics |-> 0]]
    /\ ticker = [p \in Procs |-> Interval]
    /\ due = [p \in Procs |-> FALSE]
    /\ known = {}
    /\ age = [p \in Procs |-> Ttl]
    /\ nodes = [p \in Procs |-> {}]
    /\ missed = [p \in Procs |-> {}]
    /\ faults = 0

Fault == faults < MaxFaults /\ faults' = faults + 1
FaultUnless(natural) == IF natural THEN UNCHANGED faults ELSE Fault

Goto(p, l) == op' = [op EXCEPT ![p] = l]

(* The agent lists a node to clients while its check passes.               *)
Passing(p) == p \in known /\ age[p] < Ttl
Heard(p) == age' = [age EXCEPT ![p] = 0]

-----------------------------------------------------------------------------
(* consulRegistry.Register: a known service only has its check passed; if  *)
(* that fails, or it is new, it is registered and then its check passed.   *)

BeginRegister(p) == Goto(p, IF hash[p] THEN "pass" ELSE "register")

(* The registry has answered: subscribe, the first time.                   *)
Registered(p) ==
    /\ registered' = [registered EXCEPT ![p] = TRUE]
    /\ todo' = IF registered[p] THEN todo ELSE [todo EXCEPT ![p] = Topics]
    /\ Goto(p, IF registered[p] \/ Topics = {} THEN "none" ELSE "subscribe")

registryFrame == <<mainVars, loop, held, subs, refused, listening, clockVars>>

(* PassTTL, of a known service or of one just registered.                  *)
Pass(p) ==
    /\ op[p] \in {"pass", "confirm"}
    /\ p \in known
    /\ Heard(p)
    /\ Registered(p)
    /\ UNCHANGED <<registryFrame, hash, known, topicVars, faults>>

PassFailGivesUp(p) ==       \* faulty: the error is returned
    /\ op[p] = "pass"
    /\ FaultUnless(p \notin known)
    /\ Goto(p, "none")
    /\ UNCHANGED <<registryFrame, todo, registered, hash, agentVars>>

PassFail(p) ==
    /\ op[p] = "pass"
    /\ FaultUnless(p \notin known)
    /\ Goto(p, "register")
    /\ UNCHANGED <<registryFrame, todo, registered, hash, agentVars>>

(* ServiceRegister: the check of a new node has not passed yet.            *)
RegisterNode(p) ==
    /\ op[p] = "register"
    /\ known' = known \cup {p}
    /\ age' = IF p \in known THEN age ELSE [age EXCEPT ![p] = Ttl]
    /\ hash' = [hash EXCEPT ![p] = TRUE]
    /\ Goto(p, "confirm")
    /\ UNCHANGED <<registryFrame, todo, registered, topicVars, faults>>

(* It fails, or only its answer is lost.                                   *)
RegisterFail(p) ==
    /\ op[p] = "register"
    /\ Fault
    /\ known' \in {known, known \cup {p}}
    /\ age' = IF p \in known THEN age ELSE [age EXCEPT ![p] = Ttl]
    /\ Goto(p, "none")
    /\ UNCHANGED <<registryFrame, todo, registered, hash, topicVars>>

ConfirmFail(p) ==
    /\ op[p] = "confirm"
    /\ FaultUnless(p \notin known)
    /\ Goto(p, "none")
    /\ UNCHANGED <<registryFrame, todo, registered, hash, agentVars>>

(* The loop over the subscribers, in any order: broker.Subscribe registers *)
(* a node of the topic at the agent, each time a new one.                  *)
Subscribe(p, t) ==
    /\ op[p] = "subscribe"
    /\ t \in todo[p]
    /\ nodes' = [nodes EXCEPT ![p] = @ \cup {t}]
    /\ subs' = [subs EXCEPT ![p][t] = @ + 1]
    /\ held' = [held EXCEPT ![p] = @ \cup {t}]
    /\ todo' = [todo EXCEPT ![p] = @ \ {t}]
    /\ Goto(p, IF todo[p] = {t} THEN "none" ELSE "subscribe")
    /\ UNCHANGED <<mainVars, loop, registered, hash, refused, listening, clockVars,
                   known, age, missed, faults>>

(* broker.Subscribe fails, maybe with its node already at the agent:       *)
(* Register returns, the rest is left out.                                 *)
SubscribeFail(p) ==
    /\ op[p] = "subscribe"
    /\ Fault
    /\ \E t \in todo[p] :
         /\ nodes' \in {nodes, [nodes EXCEPT ![p] = @ \cup {t}]}
         /\ missed' = [missed EXCEPT ![p] = @ \cup {t}]
    /\ todo' = [todo EXCEPT ![p] = {}]
    /\ Goto(p, "none")
    /\ UNCHANGED <<registryFrame, registered, hash, known, age>>

-----------------------------------------------------------------------------
(* Deregister: the hash goes first, then the node, then the subscriptions, *)
(* each with its node at the agent.                                        *)

DeregisterForgets(p) ==     \* faulty: does not unsubscribe
    /\ op[p] = "deregister"
    /\ known' = known \ {p}
    /\ hash' = [hash EXCEPT ![p] = FALSE]
    /\ refused' = [refused EXCEPT ![p] = FALSE]
    /\ registered' = [registered EXCEPT ![p] = FALSE]
    /\ held' = [held EXCEPT ![p] = {}]
    /\ Goto(p, "none")
    /\ UNCHANGED <<mainVars, loop, todo, subs, listening, clockVars, age, topicVars, faults>>

(* Unsubscribe ignores what the agent says: a node it has not dropped, or  *)
(* one that a failed Subscribe has left, is not asked about again.         *)
Withdraw(p, T) ==
    \E F \in SUBSET (T \cap nodes[p]) :
        /\ FaultUnless(F = {})
        /\ missed' = [missed EXCEPT ![p] = @ \cup F]
        /\ nodes' = [nodes EXCEPT ![p] = @ \ (T \ missed'[p])]

Deregister(p) ==
    /\ op[p] = "deregister"
    /\ known' = known \ {p}
    /\ hash' = [hash EXCEPT ![p] = FALSE]
    /\ refused' = [refused EXCEPT ![p] = FALSE]
    /\ IF registered[p]
         THEN /\ registered' = [registered EXCEPT ![p] = FALSE]
              /\ held' = [held EXCEPT ![p] = {}]
              /\ subs' = [subs EXCEPT ![p] =
                            [t \in Topics |-> IF t \in held[p] THEN @[t] - 1 ELSE @[t]]]
         ELSE UNCHANGED <<registered, held, subs>>
    /\ Withdraw(p, held[p])
    /\ Goto(p, "none")
    /\ UNCHANGED <<mainVars, loop, todo, listening, clockVars, age>>

(* It fails, or only its answer is lost, or the agent knows of no node.    *)
DeregisterFail(p) ==
    /\ op[p] = "deregister"
    /\ FaultUnless(p \notin known)
    /\ known' \in {known, known \ {p}}
    /\ hash' = [hash EXCEPT ![p] = FALSE]
    /\ refused' = [refused EXCEPT ![p] = TRUE]
    /\ Goto(p, "none")
    /\ UNCHANGED <<mainVars, loop, todo, serverVars, listening, clockVars, age, topicVars>>

-----------------------------------------------------------------------------
(* service.Run and rpcServer.Start.                                        *)

Step(p, from, to) == main[p] = from /\ main' = [main EXCEPT ![p] = to]

Listen(p) ==
    /\ Step(p, "init", "listening")
    /\ listening' = [listening EXCEPT ![p] = TRUE]
    /\ UNCHANGED <<healthy, loop, op, todo, serverVars, hash, refused, clockVars,
                   agentVars, faults>>

(* The transport does not listen, or the broker cannot be connected: Start *)
(* and Run return the error, which ends the program.                       *)
StartFail(p) ==
    /\ main[p] \in {"init", "listening"}
    /\ main' = [main EXCEPT ![p] = "dead"]
    /\ loop' = [loop EXCEPT ![p] = "done"]
    /\ listening' = [listening EXCEPT ![p] = FALSE]
    /\ UNCHANGED <<healthy, op, todo, serverVars, hash, refused, clockVars,
                   agentVars, faults>>

(* The broker is connected; RegisterCheck decides about the first Register. *)
Announce(p, h) ==
    /\ Step(p, "listening", "announcing")
    /\ healthy' = [healthy EXCEPT ![p] = h]
    /\ IF h THEN BeginRegister(p) ELSE UNCHANGED op
    /\ UNCHANGED <<loop, todo, serverVars, hash, refused, listening, clockVars,
                   agentVars, faults>>

(* Whatever Register said, Start leaves its goroutine and Run waits.       *)
Spawn(p) ==
    /\ op[p] = "none"
    /\ Step(p, "announcing", "waiting")
    /\ loop' = [loop EXCEPT ![p] = "select"]
    /\ ticker' = [ticker EXCEPT ![p] = Interval]
    /\ UNCHANGED <<healthy, op, todo, serverVars, hash, refused, listening, due,
                   agentVars, faults>>

HeartbeatOnce(p, h) ==      \* faulty: registered is registered
    /\ loop[p] = "select" /\ op[p] = "none" /\ due[p]
    /\ due' = [due EXCEPT ![p] = FALSE]
    /\ healthy' = [healthy EXCEPT ![p] = h]
    /\ IF ~h /\ registered[p] THEN Goto(p, "deregister")
         ELSE IF ~registered[p] THEN BeginRegister(p) ELSE UNCHANGED op
    /\ UNCHANGED <<main, loop, todo, serverVars, hash, refused, listening, ticker,
                   agentVars, faults>>

(* A tick: deregister if the check fails and the server is registered,     *)
(* register otherwise.                                                     *)
Heartbeat(p, h) ==
    /\ loop[p] = "select" /\ op[p] = "none" /\ due[p]
    /\ due' = [due EXCEPT ![p] = FALSE]
    /\ healthy' = [healthy EXCEPT ![p] = h]
    /\ IF ~h /\ registered[p] THEN Goto(p, "deregister") ELSE BeginRegister(p)
    /\ UNCHANGED <<main, loop, todo, serverVars, hash, refused, listening, ticker,
                   agentVars, faults>>

(* A signal, or the end of the context: Stop offers its channel.           *)
Signal(p) ==
    /\ Step(p, "waiting", "stopping")
    /\ UNCHANGED <<healthy, loop, op, todo, serverVars, hash, refused, listening,
                   clockVars, agentVars, faults>>

LeaveClosing(p) ==          \* faulty: closes the listener before deregistering
    /\ main[p] = "stopping"
    /\ loop[p] = "select" /\ op[p] = "none"
    /\ loop' = [loop EXCEPT ![p] = "leaving"]
    /\ listening' = [listening EXCEPT ![p] = FALSE]
    /\ Goto(p, "deregister")
    /\ UNCHANGED <<mainVars, todo, serverVars, hash, refused, clockVars, agentVars, faults>>

Leave(p) ==
    /\ main[p] = "stopping"
    /\ loop[p] = "select" /\ op[p] = "none"
    /\ loop' = [loop EXCEPT ![p] = "leaving"]
    /\ Goto(p, "deregister")
    /\ UNCHANGED <<mainVars, todo, serverVars, hash, refused, listening, clockVars,
                   agentVars, faults>>

CloseDeregistered(p) ==     \* faulty: returns when Deregister has failed
    /\ loop[p] = "leaving" /\ op[p] = "none"
    /\ ~refused[p]
    /\ listening' = [listening EXCEPT ![p] = FALSE]
    /\ loop' = [loop EXCEPT ![p] = "closed"]
    /\ UNCHANGED <<mainVars, op, todo, serverVars, hash, refused, clockVars,
                   agentVars, faults>>

(* ts.Close, whatever Deregister said.                                     *)
Close(p) ==
    /\ loop[p] = "leaving" /\ op[p] = "none"
    /\ listening' = [listening EXCEPT ![p] = FALSE]
    /\ loop' = [loop EXCEPT ![p] = "closed"]
    /\ UNCHANGED <<mainVars, op, todo, serverVars, hash, refused, clockVars,
                   agentVars, faults>>

(* Stop has its answer and Run returns, and main with it; the goroutine's  *)
(* broker.Disconnect may or may not still be run.                          *)
Answer(p) ==
    /\ loop[p] = "closed"
    /\ loop' = [loop EXCEPT ![p] = "done"]
    /\ Step(p, "stopping", "returned")
    /\ UNCHANGED <<healthy, op, todo, serverVars, hash, refused, listening, clockVars,
                   agentVars, faults>>

-----------------------------------------------------------------------------
(* The world around the process.                                           *)

(* The process dies: what the agent has of it stays.                       *)
Crash(p) ==
    /\ main[p] \notin {"init", "returned", "dead"}
    /\ main' = [main EXCEPT ![p] = "dead"]
    /\ loop' = [loop EXCEPT ![p] = "done"]
    /\ Goto(p, "none")
    /\ todo' = [todo EXCEPT ![p] = {}]
    /\ listening' = [listening EXCEPT ![p] = FALSE]
    /\ subs' = [subs EXCEPT ![p] = [t \in Topics |-> 0]]
    /\ held' = [held EXCEPT ![p] = {}]
    /\ due' = [due EXCEPT ![p] = FALSE]
    /\ UNCHANGED <<healthy, registered, hash, refused, ticker, agentVars, faults>>

(* The agent forgets all of its nodes.                                     *)
AgentRestart ==
    /\ known # {} \/ \E p \in Procs : nodes[p] # {}
    /\ Fault
    /\ known' = {}
    /\ nodes' = [p \in Procs |-> {}]
    /\ UNCHANGED <<mainVars, loop, op, todo, serverVars, hash, refused, listening,
                   clockVars, age, missed>>

(* The broker's run goroutine registers the subscriptions it has again, of *)
(* which the agent may refuse some.                                        *)
Renew(p) ==
    /\ main[p] \notin {"init", "returned", "dead"}
    /\ \E T \in SUBSET {t \in Topics : subs[p][t] > 0} :
         nodes' = [nodes EXCEPT ![p] = @ \cup T]
    /\ UNCHANGED <<mainVars, loop, op, todo, serverVars, hash, refused, listening,
                   clockVars, known, age, missed, faults>>

(* The agent drops a node that has not been registered again in time.      *)
Lapse(p, t) ==
    /\ t \in nodes[p]
    /\ nodes' = [nodes EXCEPT ![p] = @ \ {t}]
    /\ UNCHANGED <<mainVars, loop, op, todo, serverVars, hash, refused, listening,
                   clockVars, known, age, missed, faults>>

(* Start, calls and ticks are late only by a fault.                        *)
Prompt == \A p \in Procs : op[p] = "none" /\ ~due[p] /\ main[p] # "announcing"

Ticking(p) == loop[p] = "select"

(* Time passes: tickers run, and the agent drops a node that is critical   *)
(* for long enough.                                                        *)
Tick ==
    /\ FaultUnless(Prompt)
    /\ ticker' = [p \in Procs |->
                    IF ~Ticking(p) THEN ticker[p]
                    ELSE IF ticker[p] = 1 THEN Interval ELSE ticker[p] - 1]
    /\ due' = [p \in Procs |-> due[p] \/ (Ticking(p) /\ ticker[p] = 1)]
    /\ known' = {p \in known : age[p] < Ttl + DeregisterAfter}
    /\ age' = [p \in Procs |->
                 IF p \in known /\ age[p] < Ttl + DeregisterAfter THEN age[p] + 1 ELSE Ttl]
    /\ UNCHANGED <<mainVars, loop, op, todo, serverVars, hash, refused, listening, topicVars>>

-----------------------------------------------------------------------------
OpStep(p) ==
    \/ Pass(p) \/ PassFail(p) \/ RegisterNode(p) \/ RegisterFail(p) \/ ConfirmFail(p)
    \/ \E t \in Topics : Subscribe(p, t)
    \/ SubscribeFail(p)
    \/ Deregister(p) \/ DeregisterFail(p)

RunStep(p) ==
    \/ \E h \in BOOLEAN : Announce(p, h) \/ Heartbeat(p, h)
    \/ Spawn(p) \/ Close(p) \/ Answer(p)

Next ==
    \/ \E p \in Procs : OpStep(p) \/ RunStep(p) \/ Leave(p)
    \/ \E p \in Procs : Listen(p) \/ StartFail(p) \/ Signal(p) \/ Crash(p)
    \/ \E p \in Procs : Renew(p) \/ \E t \in Topics : Lapse(p, t)
    \/ AgentRestart
    \/ Tick

Spec == Init /\ [][Next]_vars

(* Time passes, goroutines that can run do and calls of the agent end; the *)
(* select takes its exit case again and again offered it.                  *)
Fairness ==
    /\ WF_vars(Tick)
    /\ \A p \in Procs : WF_vars(OpStep(p)) /\ WF_vars(RunStep(p)) /\ SF_vars(Leave(p))

FairSpec == Spec /\ Fairness

-----------------------------------------------------------------------------
(* Every variable has its type; the broker has at most one subscription of *)
(* a subscriber.                                                           *)
TypeOK ==
    /\ main \in [Procs -> {"init", "listening", "announcing", "waiting", "stopping",
                           "returned", "dead"}]
    /\ loop \in [Procs -> {"none", "select", "leaving", "closed", "done"}]
    /\ op \in [Procs -> {"none", "pass", "register", "confirm", "subscribe", "deregister"}]
    /\ todo \in [Procs -> SUBSET Topics]
    /\ registered \in [Procs -> BOOLEAN]
    /\ held \in [Procs -> SUBSET Topics]
    /\ hash \in [Procs -> BOOLEAN]
    /\ healthy \in [Procs -> BOOLEAN]
    /\ refused \in [Procs -> BOOLEAN]
    /\ listening \in [Procs -> BOOLEAN]
    /\ subs \in [Procs -> [Topics -> 0 .. 1]]
    /\ ticker \in [Procs -> 1 .. Interval]
    /\ due \in [Procs -> BOOLEAN]
    /\ known \in SUBSET Procs
    /\ age \in [Procs -> 0 .. Ttl + DeregisterAfter]
    /\ nodes \in [Procs -> SUBSET Topics]
    /\ missed \in [Procs -> SUBSET Topics]
    /\ faults \in 0 .. MaxFaults

(* The server can give up every subscription the broker has of it, however *)
(* many times Register and Deregister fail half done: none is doubled, and *)
(* none is forgotten while a new one is made.                              *)
OneSubscription ==
    \A p \in Procs, t \in Topics : subs[p][t] = 1 <=> t \in held[p]

(* A node that clients are given listens: from before it is registered to  *)
(* after it has left, unless its process has died or the agent has not     *)
(* taken its farewell.                                                     *)
AdvertisedListens ==
    \A p \in Procs :
        Passing(p) => listening[p] \/ main[p] = "dead" \/ refused[p]

(* When Run returns, and the last Deregister was not refused, the agent    *)
(* has no node of the server and the broker no subscription, whatever      *)
(* calls failed before, and nothing comes back.  Of the topics the agent   *)
(* has at most those nodes for which a call of the broker's own has failed *)
(* and which no heartbeat renews: they are left to lapse.                  *)
CleanExit ==
    \A p \in Procs : main[p] = "returned" /\ ~refused[p] =>
        /\ p \notin known
        /\ \A t \in Topics : subs[p][t] = 0
        /\ nodes[p] \subseteq missed[p]

(* A registered server keeps its place: heartbeats come often enough for   *)
(* the ttl as long as no call fails and none is late.                      *)
StaysPassing ==
    faults = 0 => \A p \in Procs :
        registered[p] /\ loop[p] = "select" => Passing(p)

(* A signal ends the process, even if the agent refuses everything.        *)
StopReturns ==
    \A p \in Procs : main[p] = "stopping" ~> main[p] \in {"returned", "dead"}

(* A running server whose check passes is listed again, after failed or    *)
(* late heartbeats and after the agent has forgotten it.                   *)
Recovers ==
    \A p \in Procs :
        main[p] = "waiting" ~> (Passing(p) \/ ~healthy[p] \/ main[p] # "waiting")
=============================================================================
