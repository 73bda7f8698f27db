------------------------ MODULE ServerLifecycleProofs ------------------------
EXTENDS ServerLifecycle, TLAPS

(***************************************************************************)
(* Proofs about ServerLifecycle, for any number of processes and topics,   *)
(* any ttl and interval and any number of faults.  One invariant, SafeInv, *)
(* carries the safety properties; Punctual, of a run without faults,       *)
(* carries StaysPassing.                                                   *)
(***************************************************************************)

(* What is still to be subscribed is not, and only Register's loop has     *)
(* something to do; a server that is not registered holds no subscriber.   *)
TodoApart ==
    \A p \in Procs :
        /\ todo[p] \cap held[p] = {}
        /\ todo[p] # {} => op[p] = "subscribe" /\ registered[p]
        /\ ~registered[p] => held[p] = {}

(* Where Run, Start's goroutine and what runs of Register stand.           *)
Phases ==
    \A p \in Procs :
        /\ main[p] \in {"init", "listening"} =>
              loop[p] = "none" /\ op[p] = "none" /\ p \notin known
        /\ main[p] = "announcing" => loop[p] = "none"
        /\ main[p] = "waiting" => loop[p] = "select"
        /\ main[p] = "stopping" => loop[p] \in {"select", "leaving", "closed"}
        /\ main[p] \in {"returned", "dead"} => loop[p] = "done" /\ op[p] = "none"
        /\ loop[p] = "leaving" => op[p] \in {"deregister", "none"}
        /\ loop[p] = "closed" => op[p] = "none"

(* The listener is open from Listen to Close.                              *)
Open ==
    \A p \in Procs :
        main[p] \in {"listening", "announcing", "waiting", "stopping"} /\ loop[p] # "closed"
            => listening[p]

(* Once the exit has deregistered, nothing is left of the process.         *)
Gone(p) == (loop[p] = "leaving" /\ op[p] = "none") \/ loop[p] = "closed" \/ main[p] = "returned"

Farewell ==
    \A p \in Procs : Gone(p) /\ ~refused[p] => p \notin known /\ held[p] = {}

SafeInv == TypeOK /\ OneSubscription /\ TodoApart /\ Phases /\ Open /\ Farewell

(* Without faults no time passes between a tick and the end of what it     *)
(* starts, and the age of a registered node is the time since its last     *)
(* heartbeat.                                                              *)
Punctual ==
    faults = 0 => \A p \in Procs :
        /\ main[p] \in {"init", "listening"} => ~registered[p]
        /\ main[p] \in {"init", "listening", "announcing"} => ticker[p] = Interval /\ ~due[p]
        /\ loop[p] = "select" /\ (due[p] \/ op[p] # "none") => ticker[p] = Interval
        /\ op[p] \in {"pass", "confirm"} => hash[p]
        /\ registered[p] /\ (loop[p] = "select" \/ main[p] = "announcing") =>
              /\ p \in known /\ hash[p]
              /\ op[p] \notin {"register", "confirm"}
              /\ IF due[p] \/ op[p] \in {"pass", "deregister"}
                    THEN loop[p] = "select" /\ age[p] <= Interval
                    ELSE age[p] + ticker[p] <= Interval

-----------------------------------------------------------------------------
(* At the start.                                                           *)
LEMMA InitSafe == Init => SafeInv /\ Punctual
  <1> SUFFICES ASSUME Init PROVE SafeInv /\ Punctual
    OBVIOUS
  <1> USE LifecycleAssumption DEF Init
  <1>1. TypeOK
    BY DEF TypeOK
  <1>2. OneSubscription /\ TodoApart
    BY DEF OneSubscription, TodoApart
  <1>3. Phases /\ Open /\ Farewell
    BY DEF Phases, Open, Farewell, Gone
  <1>4. Punctual
    BY DEF Punctual
  <1> QED
    BY <1>1, <1>2, <1>3, <1>4 DEF SafeInv

(* A check that passes.                                                    *)
LEMMA PassSafe ==
    ASSUME SafeInv, Punctual, NEW p \in Procs, Pass(p) PROVE SafeInv' /\ Punctual'
  <1> USE LifecycleAssumption DEF SafeInv, registryFrame, mainVars, serverVars,
      clockVars, agentVars, topicVars, Goto, Step, Pass, Registered, Heard
  <1>1. TypeOK'
    BY DEF TypeOK, OneSubscription, TodoApart
  <1>2. OneSubscription' /\ TodoApart'
    BY DEF TypeOK, OneSubscription, TodoApart, Phases
  <1>3. Phases' /\ Open'
    BY DEF TypeOK, Phases, Open
  <1>4. Farewell'
    BY DEF TypeOK, TodoApart, Phases, Farewell, Gone
  <1>5. Punctual'
    BY DEF TypeOK, Phases, TodoApart, Punctual
  <1> QED
    BY <1>1, <1>2, <1>3, <1>4, <1>5

(* A check that cannot be passed.                                          *)
LEMMA PassFailSafe ==
    ASSUME SafeInv, Punctual, NEW p \in Procs, PassFail(p) PROVE SafeInv' /\ Punctual'
  <1> USE LifecycleAssumption DEF SafeInv, registryFrame, mainVars, serverVars,
      clockVars, agentVars, topicVars, Goto, Step, PassFail, FaultUnless, Fault
  <1>1. TypeOK'
    BY DEF TypeOK, OneSubscription, TodoApart
  <1>2. OneSubscription' /\ TodoApart'
    BY DEF TypeOK, OneSubscription, TodoApart, Phases
  <1>3. Phases' /\ Open'
    BY DEF TypeOK, Phases, Open
  <1>4. Farewell'
    BY DEF TypeOK, TodoApart, Phases, Farewell, Gone
  <1>5. Punctual'
    BY DEF TypeOK, Phases, TodoApart, Punctual
  <1> QED
    BY <1>1, <1>2, <1>3, <1>4, <1>5

(* A new registration.                                                     *)
LEMMA RegisterNodeSafe ==
    ASSUME SafeInv, Punctual, NEW p \in Procs, RegisterNode(p) PROVE SafeInv' /\ Punctual'
  <1> USE LifecycleAssumption DEF SafeInv, registryFrame, mainVars, serverVars,
      clockVars, agentVars, topicVars, Goto, Step, RegisterNode
  <1>1. TypeOK'
    BY DEF TypeOK, OneSubscription, TodoApart
  <1>2. OneSubscription' /\ TodoApart'
    BY DEF TypeOK, OneSubscription, TodoApart, Phases
  <1>3. Phases' /\ Open'
    BY DEF TypeOK, Phases, Open
  <1>4. Farewell'
    BY DEF TypeOK, TodoApart, Phases, Farewell, Gone
  <1>5. Punctual'
    BY DEF TypeOK, Phases, TodoApart, Punctual
  <1> QED
    BY <1>1, <1>2, <1>3, <1>4, <1>5

(* A registration that fails, or whose answer is lost.                     *)
LEMMA RegisterFailSafe ==
    ASSUME SafeInv, Punctual, NEW p \in Procs, RegisterFail(p) PROVE SafeInv' /\ Punctual'
  <1> USE LifecycleAssumption DEF SafeInv, registryFrame, mainVars, serverVars,
      clockVars, agentVars, topicVars, Goto, Step, RegisterFail, Fault
  <1>1. TypeOK'
    BY DEF TypeOK, OneSubscription, TodoApart
  <1>2. OneSubscription' /\ TodoApart'
    BY DEF TypeOK, OneSubscription, TodoApart, Phases
  <1>3. Phases' /\ Open'
    BY DEF TypeOK, Phases, Open
  <1>4. Farewell'
    BY DEF TypeOK, TodoApart, Phases, Farewell, Gone
  <1>5. Punctual'
    BY DEF TypeOK, Phases, TodoApart, Punctual
  <1> QED
    BY <1>1, <1>2, <1>3, <1>4, <1>5

(* A new registration that is not confirmed.                               *)
LEMMA ConfirmFailSafe ==
    ASSUME SafeInv, Punctual, NEW p \in Procs, ConfirmFail(p) PROVE SafeInv' /\ Punctual'
  <1> USE LifecycleAssumption DEF SafeInv, registryFrame, mainVars, serverVars,
      clockVars, agentVars, topicVars, Goto, Step, ConfirmFail, FaultUnless, Fault
  <1>1. TypeOK'
    BY DEF TypeOK, OneSubscription, TodoApart
  <1>2. OneSubscription' /\ TodoApart'
    BY DEF TypeOK, OneSubscription, TodoApart, Phases
  <1>3. Phases' /\ Open'
    BY DEF TypeOK, Phases, Open
  <1>4. Farewell'
    BY DEF TypeOK, TodoApart, Phases, Farewell, Gone
  <1>5. Punctual'
    BY DEF TypeOK, Phases, TodoApart, Punctual
  <1> QED
    BY <1>1, <1>2, <1>3, <1>4, <1>5

(* One more subscription.                                                  *)
LEMMA SubscribeSafe ==
    ASSUME SafeInv, Punctual, NEW p \in Procs, NEW t \in Topics, Subscribe(p, t)
    PROVE  SafeInv' /\ Punctual'
  <1> USE LifecycleAssumption DEF SafeInv, registryFrame, mainVars, serverVars,
      clockVars, agentVars, topicVars, Goto, Step, Subscribe
  <1>1. TypeOK'
    <2>1. subs[p] \in [Topics -> 0 .. 1] /\ subs[p][t] = 0
      BY DEF TypeOK, OneSubscription, TodoApart
    <2>2. [subs[p] EXCEPT ![t] = @ + 1] \in [Topics -> 0 .. 1]
      BY <2>1
    <2>3. subs' \in [Procs -> [Topics -> 0 .. 1]]
      BY <2>2 DEF TypeOK
    <2> QED
      BY <2>3 DEF TypeOK
  <1>2. OneSubscription' /\ TodoApart'
    <2>1. subs[p] \in [Topics -> 0 .. 1] /\ subs[p][t] = 0
      BY DEF TypeOK, OneSubscription, TodoApart
    <2>2. \A q \in Procs, v \in Topics :
            subs'[q][v] = IF q = p /\ v = t THEN 1 ELSE subs[q][v]
      BY <2>1 DEF TypeOK
    <2>3. \A q \in Procs, v \in Topics : v \in held'[q] <=> v \in held[q] \/ (q = p /\ v = t)
      BY DEF TypeOK
    <2>4. OneSubscription'
      BY <2>2, <2>3 DEF OneSubscription
    <2>5. TodoApart'
      BY DEF TypeOK, TodoApart, Phases
    <2> QED
      BY <2>4, <2>5
  <1>3. Phases' /\ Open'
    BY DEF TypeOK, Phases, Open
  <1>4. Farewell'
    BY DEF TypeOK, TodoApart, Phases, Farewell, Gone
  <1>5. Punctual'
    BY DEF TypeOK, Phases, TodoApart, Punctual
  <1> QED
    BY <1>1, <1>2, <1>3, <1>4, <1>5

(* One that the broker refuses.                                            *)
LEMMA SubscribeFailSafe ==
    ASSUME SafeInv, Punctual, NEW p \in Procs, SubscribeFail(p) PROVE SafeInv' /\ Punctual'
  <1> USE LifecycleAssumption DEF SafeInv, registryFrame, mainVars, serverVars,
      clockVars, agentVars, topicVars, Goto, Step, SubscribeFail, Fault
  <1>1. TypeOK'
    <2>1. nodes' \in [Procs -> SUBSET Topics] /\ missed' \in [Procs -> SUBSET Topics]
      BY DEF TypeOK
    <2> QED
      BY <2>1 DEF TypeOK
  <1>2. OneSubscription' /\ TodoApart'
    BY DEF TypeOK, OneSubscription, TodoApart, Phases
  <1>3. Phases' /\ Open'
    BY DEF TypeOK, Phases, Open
  <1>4. Farewell'
    BY DEF TypeOK, TodoApart, Phases, Farewell, Gone
  <1>5. Punctual'
    BY DEF TypeOK, Phases, TodoApart, Punctual
  <1> QED
    BY <1>1, <1>2, <1>3, <1>4, <1>5

(* Deregister, done.                                                       *)
LEMMA DeregisterSafe ==
    ASSUME SafeInv, Punctual, NEW p \in Procs, Deregister(p) PROVE SafeInv' /\ Punctual'
  <1> USE LifecycleAssumption DEF SafeInv, registryFrame, mainVars, serverVars,
      clockVars, agentVars, topicVars, Goto, Step, Deregister
  <1>1. TypeOK'
    <2>1. ASSUME registered[p]
          PROVE  subs' \in [Procs -> [Topics -> 0 .. 1]]
      <3>1. \A v \in Topics : subs[p][v] \in 0 .. 1 /\ (v \in held[p] => subs[p][v] = 1)
        BY DEF TypeOK, OneSubscription
      <3>2. [v \in Topics |-> IF v \in held[p] THEN subs[p][v] - 1 ELSE subs[p][v]]
              \in [Topics -> 0 .. 1]
        BY <3>1
      <3> QED
        BY <2>1, <3>2 DEF TypeOK
    <2>2. subs' \in [Procs -> [Topics -> 0 .. 1]] /\ held' \in [Procs -> SUBSET Topics]
      BY <2>1 DEF TypeOK
    <2>3. PICK F \in SUBSET (held[p] \cap nodes[p]) :
             /\ FaultUnless(F = {})
             /\ missed' = [missed EXCEPT ![p] = @ \cup F]
             /\ nodes' = [nodes EXCEPT ![p] = @ \ (held[p] \ missed'[p])]
      BY DEF Withdraw
    <2>4. nodes' \in [Procs -> SUBSET Topics] /\ missed' \in [Procs -> SUBSET Topics]
      BY <2>3 DEF TypeOK
    <2>5. faults' \in 0 .. MaxFaults
      BY <2>3 DEF FaultUnless, Fault, TypeOK
    <2> QED
      BY <2>2, <2>4, <2>5 DEF TypeOK
  <1>2. OneSubscription'
    <2>1. ASSUME registered[p], NEW q \in Procs, NEW v \in Topics
          PROVE  subs'[q][v] = (IF q = p /\ v \in held[p] THEN subs[q][v] - 1 ELSE subs[q][v])
      BY <2>1 DEF TypeOK
    <2>2. ASSUME registered[p], NEW q \in Procs, NEW v \in Topics
          PROVE  /\ subs[q][v] \in 0 .. 1
                 /\ v \in held'[q] <=> v \in held[q] /\ q # p
      BY <2>2 DEF TypeOK
    <2> QED
      BY <2>1, <2>2 DEF OneSubscription
  <1>6. TodoApart'
    BY DEF TypeOK, TodoApart, Phases
  <1>3. Phases' /\ Open'
    BY DEF TypeOK, Phases, Open
  <1>4. Farewell'
    BY DEF TypeOK, TodoApart, Phases, Farewell, Gone
  <1>5. Punctual'
    <2>1. faults' = 0 => faults = 0
      BY DEF Withdraw, FaultUnless, Fault, TypeOK
    <2> QED
      BY <2>1 DEF TypeOK, Phases, TodoApart, Punctual
  <1> QED
    BY <1>1, <1>2, <1>3, <1>4, <1>5, <1>6

(* Deregister, failed.                                                     *)
LEMMA DeregisterFailSafe ==
    ASSUME SafeInv, Punctual, NEW p \in Procs, DeregisterFail(p) PROVE SafeInv' /\ Punctual'
  <1> USE LifecycleAssumption DEF SafeInv, registryFrame, mainVars, serverVars,
      clockVars, agentVars, topicVars, Goto, Step, DeregisterFail, FaultUnless, Fault
  <1>1. TypeOK'
    BY DEF TypeOK, OneSubscription, TodoApart
  <1>2. OneSubscription' /\ TodoApart'
    BY DEF TypeOK, OneSubscription, TodoApart, Phases
  <1>3. Phases' /\ Open'
    BY DEF TypeOK, Phases, Open
  <1>4. Farewell'
    BY DEF TypeOK, TodoApart, Phases, Farewell, Gone
  <1>5. Punctual'
    BY DEF TypeOK, Phases, TodoApart, Punctual
  <1> QED
    BY <1>1, <1>2, <1>3, <1>4, <1>5

(* The listener.                                                           *)
LEMMA ListenSafe ==
    ASSUME SafeInv, Punctual, NEW p \in Procs, Listen(p) PROVE SafeInv' /\ Punctual'
  <1> USE LifecycleAssumption DEF SafeInv, registryFrame, mainVars, serverVars,
      clockVars, agentVars, topicVars, Goto, Step, Listen
  <1>1. TypeOK'
    BY DEF TypeOK, OneSubscription, TodoApart
  <1>2. OneSubscription' /\ TodoApart'
    BY DEF TypeOK, OneSubscription, TodoApart, Phases
  <1>3. Phases' /\ Open'
    BY DEF TypeOK, Phases, Open
  <1>4. Farewell'
    BY DEF TypeOK, TodoApart, Phases, Farewell, Gone
  <1>5. Punctual'
    BY DEF TypeOK, Phases, TodoApart, Punctual
  <1> QED
    BY <1>1, <1>2, <1>3, <1>4, <1>5

(* The first registration.                                                 *)
LEMMA AnnounceSafe ==
    ASSUME SafeInv, Punctual, NEW p \in Procs, NEW h \in BOOLEAN, Announce(p, h)
    PROVE  SafeInv' /\ Punctual'
  <1> USE LifecycleAssumption DEF SafeInv, registryFrame, mainVars, serverVars,
      clockVars, agentVars, topicVars, Goto, Step, Announce, BeginRegister
  <1>1. TypeOK'
    BY DEF TypeOK, OneSubscription, TodoApart
  <1>2. OneSubscription' /\ TodoApart'
    BY DEF TypeOK, OneSubscription, TodoApart, Phases
  <1>3. Phases' /\ Open'
    BY DEF TypeOK, Phases, Open
  <1>4. Farewell'
    BY DEF TypeOK, TodoApart, Phases, Farewell, Gone
  <1>5. Punctual'
    BY DEF TypeOK, Phases, TodoApart, Punctual
  <1> QED
    BY <1>1, <1>2, <1>3, <1>4, <1>5

(* Start's goroutine begins.                                               *)
LEMMA SpawnSafe ==
    ASSUME SafeInv, Punctual, NEW p \in Procs, Spawn(p) PROVE SafeInv' /\ Punctual'
  <1> USE LifecycleAssumption DEF SafeInv, registryFrame, mainVars, serverVars,
      clockVars, agentVars, topicVars, Goto, Step, Spawn
  <1>1. TypeOK'
    BY DEF TypeOK, OneSubscription, TodoApart
  <1>2. OneSubscription' /\ TodoApart'
    BY DEF TypeOK, OneSubscription, TodoApart, Phases
  <1>3. Phases' /\ Open'
    BY DEF TypeOK, Phases, Open
  <1>4. Farewell'
    BY DEF TypeOK, TodoApart, Phases, Farewell, Gone
  <1>5. Punctual'
    BY DEF TypeOK, Phases, TodoApart, Punctual
  <1> QED
    BY <1>1, <1>2, <1>3, <1>4, <1>5

(* A tick.                                                                 *)
LEMMA HeartbeatSafe ==
    ASSUME SafeInv, Punctual, NEW p \in Procs, NEW h \in BOOLEAN, Heartbeat(p, h)
    PROVE  SafeInv' /\ Punctual'
  <1> USE LifecycleAssumption DEF SafeInv, registryFrame, mainVars, serverVars,
      clockVars, agentVars, topicVars, Goto, Step, Heartbeat, BeginRegister
  <1>1. TypeOK'
    <2>1. \E l \in {"pass", "register", "deregister"} : op' = [op EXCEPT ![p] = l]
      OBVIOUS
    <2>2. op' \in [Procs -> {"none", "pass", "register", "confirm", "subscribe", "deregister"}]
      BY <2>1 DEF TypeOK
    <2>3. due' \in [Procs -> BOOLEAN] /\ healthy' \in [Procs -> BOOLEAN]
      BY DEF TypeOK
    <2> QED
      BY <2>2, <2>3 DEF TypeOK
  <1>2. OneSubscription' /\ TodoApart'
    BY DEF TypeOK, OneSubscription, TodoApart, Phases
  <1>3. Phases' /\ Open'
    BY DEF TypeOK, Phases, Open
  <1>4. Farewell'
    BY DEF TypeOK, TodoApart, Phases, Farewell, Gone
  <1>5. Punctual'
    <2>1. main[p] \notin {"init", "listening", "announcing"}
      BY DEF TypeOK, Phases
    <2>2. ASSUME NEW q \in Procs, q # p
          PROVE  op'[q] = op[q] /\ due'[q] = due[q]
      BY <2>2 DEF TypeOK
    <2>3. op'[p] \in {"pass", "register", "deregister"} /\ ~due'[p]
      BY DEF TypeOK
    <2>4. faults = 0 /\ registered[p] => op'[p] \in {"pass", "deregister"}
      BY DEF TypeOK, Punctual
    <2>5. op'[p] = "pass" => hash[p]
      BY DEF TypeOK
    <2> QED
      BY <2>1, <2>2, <2>3, <2>4, <2>5 DEF TypeOK, Punctual
  <1> QED
    BY <1>1, <1>2, <1>3, <1>4, <1>5

(* The signal.                                                             *)
LEMMA SignalSafe ==
    ASSUME SafeInv, Punctual, NEW p \in Procs, Signal(p) PROVE SafeInv' /\ Punctual'
  <1> USE LifecycleAssumption DEF SafeInv, registryFrame, mainVars, serverVars,
      clockVars, agentVars, topicVars, Goto, Step, Signal
  <1>1. TypeOK'
    BY DEF TypeOK, OneSubscription, TodoApart
  <1>2. OneSubscription' /\ TodoApart'
    BY DEF TypeOK, OneSubscription, TodoApart, Phases
  <1>3. Phases' /\ Open'
    BY DEF TypeOK, Phases, Open
  <1>4. Farewell'
    BY DEF TypeOK, TodoApart, Phases, Farewell, Gone
  <1>5. Punctual'
    BY DEF TypeOK, Phases, TodoApart, Punctual
  <1> QED
    BY <1>1, <1>2, <1>3, <1>4, <1>5

(* The goroutine takes the exit.                                           *)
LEMMA LeaveSafe ==
    ASSUME SafeInv, Punctual, NEW p \in Procs, Leave(p) PROVE SafeInv' /\ Punctual'
  <1> USE LifecycleAssumption DEF SafeInv, registryFrame, mainVars, serverVars,
      clockVars, agentVars, topicVars, Goto, Step, Leave
  <1>1. TypeOK'
    BY DEF TypeOK, OneSubscription, TodoApart
  <1>2. OneSubscription' /\ TodoApart'
    BY DEF TypeOK, OneSubscription, TodoApart, Phases
  <1>3. Phases' /\ Open'
    BY DEF TypeOK, Phases, Open
  <1>4. Farewell'
    BY DEF TypeOK, TodoApart, Phases, Farewell, Gone
  <1>5. Punctual'
    BY DEF TypeOK, Phases, TodoApart, Punctual
  <1> QED
    BY <1>1, <1>2, <1>3, <1>4, <1>5

(* The listener closes.                                                    *)
LEMMA CloseSafe ==
    ASSUME SafeInv, Punctual, NEW p \in Procs, Close(p) PROVE SafeInv' /\ Punctual'
  <1> USE LifecycleAssumption DEF SafeInv, registryFrame, mainVars, serverVars,
      clockVars, agentVars, topicVars, Goto, Step, Close
  <1>1. TypeOK'
    BY DEF TypeOK, OneSubscription, TodoApart
  <1>2. OneSubscription' /\ TodoApart'
    BY DEF TypeOK, OneSubscription, TodoApart, Phases
  <1>3. Phases' /\ Open'
    BY DEF TypeOK, Phases, Open
  <1>4. Farewell'
    BY DEF TypeOK, TodoApart, Phases, Farewell, Gone
  <1>5. Punctual'
    BY DEF TypeOK, Phases, TodoApart, Punctual
  <1> QED
    BY <1>1, <1>2, <1>3, <1>4, <1>5

(* Run returns.                                                            *)
LEMMA AnswerSafe ==
    ASSUME SafeInv, Punctual, NEW p \in Procs, Answer(p) PROVE SafeInv' /\ Punctual'
  <1> USE LifecycleAssumption DEF SafeInv, registryFrame, mainVars, serverVars,
      clockVars, agentVars, topicVars, Goto, Step, Answer
  <1>1. TypeOK'
    BY DEF TypeOK, OneSubscription, TodoApart
  <1>2. OneSubscription' /\ TodoApart'
    BY DEF TypeOK, OneSubscription, TodoApart, Phases
  <1>3. Phases' /\ Open'
    BY DEF TypeOK, Phases, Open
  <1>4. Farewell'
    BY DEF TypeOK, TodoApart, Phases, Farewell, Gone
  <1>5. Punctual'
    BY DEF TypeOK, Phases, TodoApart, Punctual
  <1> QED
    BY <1>1, <1>2, <1>3, <1>4, <1>5

(* The process dies.                                                       *)
LEMMA CrashSafe ==
    ASSUME SafeInv, Punctual, NEW p \in Procs, Crash(p) PROVE SafeInv' /\ Punctual'
  <1> USE LifecycleAssumption DEF SafeInv, registryFrame, mainVars, serverVars,
      clockVars, agentVars, topicVars, Goto, Step, Crash
  <1>1. TypeOK'
    BY DEF TypeOK, OneSubscription, TodoApart
  <1>2. OneSubscription' /\ TodoApart'
    BY DEF TypeOK, OneSubscription, TodoApart, Phases
  <1>3. Phases' /\ Open'
    BY DEF TypeOK, Phases, Open
  <1>4. Farewell'
    BY DEF TypeOK, TodoApart, Phases, Farewell, Gone
  <1>5. Punctual'
    BY DEF TypeOK, Phases, TodoApart, Punctual
  <1> QED
    BY <1>1, <1>2, <1>3, <1>4, <1>5

(* The agent forgets its nodes.                                            *)
LEMMA AgentRestartSafe ==
    ASSUME SafeInv, Punctual, AgentRestart PROVE SafeInv' /\ Punctual'
  <1> USE LifecycleAssumption DEF SafeInv, registryFrame, mainVars, serverVars,
      clockVars, agentVars, topicVars, Goto, Step, AgentRestart, Fault
  <1>1. TypeOK'
    BY DEF TypeOK, OneSubscription, TodoApart
  <1>2. OneSubscription' /\ TodoApart'
    BY DEF TypeOK, OneSubscription, TodoApart, Phases
  <1>3. Phases' /\ Open'
    BY DEF TypeOK, Phases, Open
  <1>4. Farewell'
    BY DEF TypeOK, TodoApart, Phases, Farewell, Gone
  <1>5. Punctual'
    BY DEF TypeOK, Phases, TodoApart, Punctual
  <1> QED
    BY <1>1, <1>2, <1>3, <1>4, <1>5

(* Start fails.                                                            *)
LEMMA StartFailSafe ==
    ASSUME SafeInv, Punctual, NEW p \in Procs, StartFail(p) PROVE SafeInv' /\ Punctual'
  <1> USE LifecycleAssumption DEF SafeInv, registryFrame, mainVars, serverVars,
      clockVars, agentVars, topicVars, Goto, Step, StartFail
  <1>1. TypeOK'
    BY DEF TypeOK, OneSubscription, TodoApart
  <1>2. OneSubscription' /\ TodoApart'
    BY DEF TypeOK, OneSubscription, TodoApart, Phases
  <1>3. Phases' /\ Open'
    BY DEF TypeOK, Phases, Open
  <1>4. Farewell'
    BY DEF TypeOK, TodoApart, Phases, Farewell, Gone
  <1>5. Punctual'
    BY DEF TypeOK, Phases, TodoApart, Punctual
  <1> QED
    BY <1>1, <1>2, <1>3, <1>4, <1>5

(* The agent's nodes of topics come and go.                                *)
LEMMA TopicSafe ==
    ASSUME SafeInv, Punctual, NEW p \in Procs, Renew(p) \/ \E t \in Topics : Lapse(p, t)
    PROVE  SafeInv' /\ Punctual'
  <1> USE LifecycleAssumption DEF SafeInv, registryFrame, mainVars, serverVars,
      clockVars, agentVars, topicVars, Goto, Step, Renew, Lapse
  <1>1. TypeOK'
    <2>1. CASE Renew(p)
      <3>1. PICK T \in SUBSET Topics : nodes' = [nodes EXCEPT ![p] = @ \cup T]
        BY <2>1
      <3>2. nodes' \in [Procs -> SUBSET Topics]
        BY <3>1 DEF TypeOK
      <3> QED
        BY <2>1, <3>2 DEF TypeOK
    <2>2. ASSUME NEW t \in Topics, Lapse(p, t) PROVE TypeOK'
      <3>1. nodes' \in [Procs -> SUBSET Topics]
        BY <2>2 DEF TypeOK
      <3> QED
        BY <2>2, <3>1 DEF TypeOK
    <2> QED
      BY <2>1, <2>2
  <1>2. OneSubscription' /\ TodoApart'
    BY DEF TypeOK, OneSubscription, TodoApart, Phases
  <1>3. Phases' /\ Open'
    BY DEF TypeOK, Phases, Open
  <1>4. Farewell'
    BY DEF TypeOK, TodoApart, Phases, Farewell, Gone
  <1>5. Punctual'
    BY DEF TypeOK, Phases, TodoApart, Punctual
  <1> QED
    BY <1>1, <1>2, <1>3, <1>4, <1>5

(* Time passes.                                                            *)
LEMMA TickSafe ==
    ASSUME SafeInv, Punctual, Tick PROVE SafeInv' /\ Punctual'
  <1> USE LifecycleAssumption DEF SafeInv, registryFrame, mainVars, serverVars,
      clockVars, agentVars, topicVars, Goto, Step, Tick, FaultUnless, Fault, Prompt, Ticking
  <1>1. TypeOK'
    BY DEF TypeOK, OneSubscription, TodoApart
  <1>2. OneSubscription' /\ TodoApart'
    BY DEF TypeOK, OneSubscription, TodoApart, Phases
  <1>3. Phases' /\ Open'
    BY DEF TypeOK, Phases, Open
  <1>4. Farewell'
    BY DEF TypeOK, TodoApart, Phases, Farewell, Gone
  <1>5. Punctual'
    BY DEF TypeOK, Phases, TodoApart, Punctual
  <1> QED
    BY <1>1, <1>2, <1>3, <1>4, <1>5

-----------------------------------------------------------------------------
(* Both invariants are inductive.                                          *)
LEMMA NextSafe == ASSUME SafeInv, Punctual, [Next]_vars PROVE SafeInv' /\ Punctual'
  <1>1. CASE UNCHANGED vars
    BY <1>1 DEF vars, mainVars, serverVars, clockVars, agentVars, topicVars, SafeInv, TypeOK,
                OneSubscription, TodoApart, Phases, Open, Farewell, Gone, Punctual
  <1>2. ASSUME NEW p \in Procs, OpStep(p) PROVE SafeInv' /\ Punctual'
    BY <1>2, PassSafe, PassFailSafe, RegisterNodeSafe, RegisterFailSafe, ConfirmFailSafe,
       SubscribeSafe, SubscribeFailSafe, DeregisterSafe, DeregisterFailSafe DEF OpStep
  <1>3. ASSUME NEW p \in Procs, RunStep(p) PROVE SafeInv' /\ Punctual'
    BY <1>3, AnnounceSafe, HeartbeatSafe, SpawnSafe, CloseSafe, AnswerSafe DEF RunStep
  <1>4. ASSUME NEW p \in Procs, Leave(p) \/ Listen(p) \/ StartFail(p) \/ Signal(p) \/ Crash(p)
        PROVE  SafeInv' /\ Punctual'
    BY <1>4, LeaveSafe, ListenSafe, StartFailSafe, SignalSafe, CrashSafe
  <1> QED
    BY <1>1, <1>2, <1>3, <1>4, TopicSafe, AgentRestartSafe, TickSafe DEF Next

(* They hold in every reachable state.                                     *)
LEMMA LifecycleInvariant == Spec => [](SafeInv /\ Punctual)
  BY InitSafe, NextSafe, PTL DEF Spec

-----------------------------------------------------------------------------
(* Every variable of the life cycle keeps its type, and the broker never   *)
(* has two subscriptions of one subscriber.                                *)
THEOREM LifecycleTypes == Spec => []TypeOK
  <1>1. SafeInv => TypeOK
    BY DEF SafeInv
  <1> QED
    BY <1>1, LifecycleInvariant, PTL

(* However often Register and Deregister fail half done, the server holds  *)
(* exactly the subscriptions the broker has of it.                         *)
THEOREM SubscriptionsHeld == Spec => []OneSubscription
  <1>1. SafeInv => OneSubscription
    BY DEF SafeInv
  <1> QED
    BY <1>1, LifecycleInvariant, PTL

(* The agent gives clients no node that does not listen, unless its        *)
(* process has died or the agent has refused its farewell.                 *)
THEOREM NodesListen == Spec => []AdvertisedListens
  <1>1. SafeInv => AdvertisedListens
    BY DEF SafeInv, TypeOK, AdvertisedListens, Passing, Phases, Open, Farewell, Gone
  <1> QED
    BY <1>1, LifecycleInvariant, PTL

(* The agent has nodes of a living process's topics only for the           *)
(* subscriptions it holds, and where a call of its broker has failed.      *)
Topical ==
    \A p \in Procs : main[p] # "dead" => nodes[p] \subseteq held[p] \cup missed[p]

(* Steps of Register and Deregister.                                       *)
LEMMA OpTopical ==
    ASSUME SafeInv, Topical, NEW p \in Procs, OpStep(p) PROVE Topical'
  <1> USE DEF Topical
  <1>1. /\ main \in [Procs -> {"init", "listening", "announcing", "waiting", "stopping",
                               "returned", "dead"}]
        /\ held \in [Procs -> SUBSET Topics]
        /\ nodes \in [Procs -> SUBSET Topics] /\ missed \in [Procs -> SUBSET Topics]
    BY DEF SafeInv, TypeOK
  <1>2. CASE Pass(p) \/ PassFail(p) \/ RegisterNode(p) \/ RegisterFail(p) \/ ConfirmFail(p)
             \/ DeregisterFail(p)
    <2>1. UNCHANGED <<main, held, nodes, missed>>
      BY <1>2 DEF Pass, PassFail, RegisterNode, RegisterFail, ConfirmFail, DeregisterFail,
                  registryFrame, mainVars, serverVars, agentVars, topicVars
    <2> QED
      BY <2>1
  <1>3. ASSUME NEW t \in Topics, Subscribe(p, t) PROVE Topical'
    BY <1>1, <1>3 DEF Subscribe, mainVars
  <1>4. CASE SubscribeFail(p)
    BY <1>1, <1>4 DEF SubscribeFail, registryFrame, mainVars
  <1>5. CASE Deregister(p)
    <2>1. PICK F \in SUBSET (held[p] \cap nodes[p]) :
             /\ missed' = [missed EXCEPT ![p] = @ \cup F]
             /\ nodes' = [nodes EXCEPT ![p] = @ \ (held[p] \ missed'[p])]
      BY <1>5 DEF Deregister, Withdraw
    <2>2. main' = main /\ \A q \in Procs : q # p => held'[q] = held[q]
      BY <1>1, <1>5 DEF Deregister, mainVars
    <2>3. \A q \in Procs : q # p => missed'[q] = missed[q] /\ nodes'[q] = nodes[q]
      BY <1>1, <2>1
    <2>4. missed'[p] = missed[p] \cup F /\ nodes'[p] = nodes[p] \ (held[p] \ missed'[p])
      BY <1>1, <2>1
    <2>5. main[p] # "dead" => nodes'[p] \subseteq missed'[p]
      BY <2>4
    <2> QED
      BY <2>2, <2>3, <2>5
  <1> QED
    BY <1>2, <1>3, <1>4, <1>5 DEF OpStep

(* All steps: heartbeats renew what the broker has and the server holds.   *)
LEMMA NextTopical == ASSUME SafeInv, Topical, [Next]_vars PROVE Topical'
  <1> USE DEF Topical, SafeInv, TypeOK
  <1>1. CASE UNCHANGED vars
    BY <1>1 DEF vars, mainVars, serverVars, agentVars, topicVars
  <1>2. ASSUME NEW p \in Procs, RunStep(p) \/ Leave(p) \/ Listen(p) \/ StartFail(p) \/ Signal(p)
        PROVE  Topical'
    <2>1. /\ UNCHANGED <<held, nodes, missed>>
          /\ \A q \in Procs : main'[q] # "dead" => main[q] # "dead"
      BY <1>2 DEF RunStep, Announce, Heartbeat, Spawn, Close, Answer, Leave, Listen, StartFail,
                  Signal, Step, Phases, mainVars, serverVars, agentVars, topicVars
    <2> QED
      BY <2>1
  <1>3. ASSUME NEW p \in Procs, Crash(p) PROVE Topical'
    BY <1>3 DEF Crash, agentVars, topicVars
  <1>4. ASSUME NEW p \in Procs, Renew(p) PROVE Topical'
    <2>1. PICK T \in SUBSET {t \in Topics : subs[p][t] > 0} :
             nodes' = [nodes EXCEPT ![p] = @ \cup T]
      BY <1>4 DEF Renew
    <2>2. T \subseteq held[p]
      <3>1. \A t \in Topics : subs[p][t] \in 0 .. 1
        OBVIOUS
      <3>2. \A t \in Topics : subs[p][t] > 0 => t \in held[p]
        BY <3>1 DEF OneSubscription
      <3> QED
        BY <3>2
    <2> QED
      BY <1>4, <2>1, <2>2 DEF Renew, mainVars, serverVars
  <1>5. ASSUME NEW p \in Procs, NEW t \in Topics, Lapse(p, t) PROVE Topical'
    BY <1>5 DEF Lapse, mainVars, serverVars
  <1>6. CASE AgentRestart \/ Tick
    BY <1>6 DEF AgentRestart, Tick, mainVars, serverVars, topicVars
  <1> QED
    BY <1>1, <1>2, <1>3, <1>4, <1>5, <1>6, OpTopical DEF Next

(* A process whose last Deregister was accepted leaves no node of its own  *)
(* at the agent and no subscription at the broker; of its topics the agent *)
(* has only what a failed call of the broker has left, which nothing       *)
(* renews.                                                                 *)
THEOREM ExitsClean == Spec => []CleanExit
  <1>1. SafeInv /\ Topical => CleanExit
    <2> SUFFICES ASSUME SafeInv, Topical, NEW p \in Procs, main[p] = "returned", ~refused[p]
                 PROVE  /\ p \notin known
                        /\ \A t \in Topics : subs[p][t] = 0
                        /\ nodes[p] \subseteq missed[p]
      BY DEF CleanExit
    <2>1. p \notin known /\ held[p] = {}
      BY DEF SafeInv, Farewell, Gone
    <2>2. \A t \in Topics : subs[p][t] = 0
      BY <2>1 DEF SafeInv, TypeOK, OneSubscription
    <2>3. nodes[p] \subseteq missed[p]
      BY <2>1 DEF Topical
    <2> QED
      BY <2>1, <2>2, <2>3
  <1>2. Init => Topical
    BY DEF Init, Topical
  <1>3. SafeInv /\ Topical /\ [Next]_vars => Topical'
    BY NextTopical
  <1> QED
    BY <1>1, <1>2, <1>3, LifecycleInvariant, PTL DEF Spec

(* Without faults a heartbeat every Interval keeps the node passing, for   *)
(* every ttl longer than the interval.                                     *)
THEOREM NodesStayPassing == Spec => []StaysPassing
  <1>1. SafeInv /\ Punctual => StaysPassing
    <2> SUFFICES ASSUME SafeInv, Punctual, faults = 0,
                        NEW p \in Procs, registered[p], loop[p] = "select"
                 PROVE  Passing(p)
      BY DEF StaysPassing
    <2>1. age[p] \in 0 .. Ttl + DeregisterAfter /\ ticker[p] \in 1 .. Interval
      BY DEF SafeInv, TypeOK
    <2>2. p \in known /\ (age[p] <= Interval \/ age[p] + ticker[p] <= Interval)
      BY DEF Punctual
    <2> QED
      BY <2>1, <2>2, LifecycleAssumption DEF Passing
  <1> QED
    BY <1>1, LifecycleInvariant, PTL

-----------------------------------------------------------------------------
(* Nobody is left waiting by the other goroutine: Run, once it waits, has  *)
(* Start's goroutine at its select, Stop has it on the way to its answer,  *)
(* which is given to nobody else; and a Register or Deregister that runs   *)
(* is run for one of the two and has a call to make.                       *)
StopHeard ==
    \A p \in Procs :
        /\ main[p] = "waiting" => loop[p] = "select"
        /\ main[p] = "stopping" <=> loop[p] \in {"leaving", "closed"} \/
                                    (loop[p] = "select" /\ main[p] # "waiting")
        /\ op[p] # "none" => main[p] = "announcing" \/ loop[p] \in {"select", "leaving"}
        /\ op[p] = "subscribe" => todo[p] # {}

(* What that adds to Phases.                                               *)
Attentive ==
    \A p \in Procs :
        /\ loop[p] = "select" => main[p] \in {"waiting", "stopping"}
        /\ loop[p] \in {"leaving", "closed"} => main[p] = "stopping"
        /\ op[p] = "subscribe" => todo[p] # {}

(* At the start.                                                           *)
LEMMA InitAttentive == Init => Attentive
  BY DEF Init, Attentive

(* Steps of Register and Deregister.                                       *)
LEMMA OpAttentive ==
    ASSUME SafeInv, Attentive, NEW p \in Procs, OpStep(p) PROVE Attentive'
  <1> USE DEF SafeInv, TypeOK, Phases, TodoApart, Attentive, registryFrame, mainVars, Goto
  <1>1. CASE Pass(p)
    BY <1>1 DEF Pass, Registered
  <1>2. CASE PassFail(p)
    BY <1>2 DEF PassFail
  <1>3. CASE RegisterNode(p)
    BY <1>3 DEF RegisterNode
  <1>4. CASE RegisterFail(p)
    BY <1>4 DEF RegisterFail
  <1>5. CASE ConfirmFail(p)
    BY <1>5 DEF ConfirmFail
  <1>6. ASSUME NEW t \in Topics, Subscribe(p, t) PROVE Attentive'
    BY <1>6 DEF Subscribe
  <1>7. CASE SubscribeFail(p)
    BY <1>7 DEF SubscribeFail
  <1>8. CASE Deregister(p)
    BY <1>8 DEF Deregister
  <1>9. CASE DeregisterFail(p)
    BY <1>9 DEF DeregisterFail
  <1> QED
    BY <1>1, <1>2, <1>3, <1>4, <1>5, <1>6, <1>7, <1>8, <1>9 DEF OpStep

(* Steps of Run and of Start's goroutine.                                  *)
LEMMA RunAttentive ==
    ASSUME SafeInv, Attentive, NEW p \in Procs, RunStep(p) \/ Leave(p) PROVE Attentive'
  <1> USE DEF SafeInv, TypeOK, Phases, TodoApart, Attentive, mainVars, Goto, Step
  <1>1. ASSUME NEW h \in BOOLEAN, Announce(p, h) PROVE Attentive'
    BY <1>1 DEF Announce, BeginRegister
  <1>2. ASSUME NEW h \in BOOLEAN, Heartbeat(p, h) PROVE Attentive'
    <2>1. UNCHANGED <<main, loop, todo>>
      BY <1>2 DEF Heartbeat
    <2>2. \E l \in {"pass", "register", "deregister"} : op' = [op EXCEPT ![p] = l]
      BY <1>2 DEF Heartbeat, BeginRegister
    <2> QED
      BY <2>1, <2>2
  <1>3. CASE Spawn(p)
    BY <1>3 DEF Spawn
  <1>4. CASE Close(p)
    BY <1>4 DEF Close
  <1>5. CASE Answer(p)
    BY <1>5 DEF Answer
  <1>6. CASE Leave(p)
    BY <1>6 DEF Leave
  <1> QED
    BY <1>1, <1>2, <1>3, <1>4, <1>5, <1>6 DEF RunStep

(* Steps of the world, and every other.                                    *)
LEMMA NextAttentive == ASSUME SafeInv, Attentive, [Next]_vars PROVE Attentive'
  <1>1. CASE UNCHANGED vars
    BY <1>1 DEF vars, mainVars, Attentive
  <1>2. ASSUME NEW p \in Procs, Listen(p) PROVE Attentive'
    BY <1>2 DEF Listen, Step, SafeInv, TypeOK, Phases, Attentive
  <1>3. ASSUME NEW p \in Procs, Signal(p) PROVE Attentive'
    BY <1>3 DEF Signal, Step, SafeInv, TypeOK, Phases, Attentive
  <1>4. ASSUME NEW p \in Procs, Crash(p) PROVE Attentive'
    BY <1>4 DEF Crash, Goto, SafeInv, TypeOK, Attentive
  <1>5. ASSUME NEW p \in Procs, StartFail(p) PROVE Attentive'
    BY <1>5 DEF StartFail, SafeInv, TypeOK, Phases, Attentive
  <1>6. CASE \/ AgentRestart \/ Tick
             \/ \E p \in Procs : Renew(p) \/ \E t \in Topics : Lapse(p, t)
    BY <1>6 DEF AgentRestart, Tick, Renew, Lapse, mainVars, Attentive
  <1> QED
    BY <1>1, <1>2, <1>3, <1>4, <1>5, <1>6, OpAttentive, RunAttentive DEF Next

(* So Stop is always heard, whatever calls fail: between a signal and the  *)
(* end of the process there is a goroutine that can move, no Register runs *)
(* out of work without ending, and nothing answers a Stop nobody called.   *)
THEOREM StopIsHeard == Spec => []StopHeard
  <1>1. SafeInv /\ Attentive => StopHeard
    <2> SUFFICES ASSUME SafeInv, Attentive, NEW p \in Procs
                 PROVE  /\ main[p] = "waiting" => loop[p] = "select"
                        /\ main[p] = "stopping" <=> loop[p] \in {"leaving", "closed"} \/
                                                    (loop[p] = "select" /\ main[p] # "waiting")
                        /\ op[p] # "none" => main[p] = "announcing" \/ loop[p] \in {"select", "leaving"}
                        /\ op[p] = "subscribe" => todo[p] # {}
      BY DEF StopHeard
    <2> QED
      BY DEF SafeInv, TypeOK, Phases, Attentive
  <1>2. SafeInv /\ Attentive /\ [Next]_vars => Attentive'
    BY NextAttentive
  <1> QED
    BY <1>1, <1>2, InitAttentive, LifecycleInvariant, PTL DEF Spec
=============================================================================
