---------------------------- MODULE BrokerInbox ----------------------------
(***************************************************************************)
(* Publishing over the HTTP broker: the inbox of one topic, the goroutine  *)
(* each Publish starts, the posts to the subscribers the registry knows,   *)
(* and what is saved again when a post fails.  Subscribers without a queue *)
(* all get a message; of those that share a queue one does.  A post is a   *)
(* success when it has been answered, whatever the answer: the subscriber  *)
(* may be gone by then, and nobody has heard it.                           *)
(* A message stands for one Publish and for the goroutine it starts.       *)
(***************************************************************************)
EXTENDS Naturals, Sequences, FiniteSets

CONSTANTS Messages,     \* the messages published, each once
          Everyone,     \* subscribers without a queue (version broadcast)
          Queue,        \* subscribers that share one queue
          AtStart,      \* those registered at the start
          Limit,        \* the inbox keeps this many messages (64 in the code)
          Batch,        \* a goroutine takes up to this many (8 in the code)
          MaxFaults,    \* bound: posts and lookups that fail
          MaxChanges    \* bound: subscriptions that begin, end or expire

ASSUME SubscriberAssumption == /\ Everyone \cap Queue = {}
                               /\ AtStart \subseteq Everyone \cup Queue
ASSUME NumberAssumption == /\ Limit \in Nat \ {0}
                           /\ Batch \in Nat \ {0}
                           /\ MaxFaults \in Nat
                           /\ MaxChanges \in Nat

VARIABLES inbox,        \* h.inbox[topic]
          pc,           \* pc[m]: where the Publish of m, later its goroutine, is
          view,         \* view[m]: the nodes GetService returned to it
          batch,        \* batch[m]: what its getMessage returned, the current one first
          versions,     \* versions[m]: services the current message has still to go to
          current,      \* current[m]: the service it is being posted to
          nodes,        \* nodes[m]: the nodes of that service still to be tried
          success,      \* success[m]: a post to that service has been answered
          status,       \* status[n]: the node of n as the registry has it
          handlers,     \* those subscribed at their own broker
          past,         \* what the registry, and then its cache, have answered so far
          got,          \* got[n][m]: how often the handler of n was given m
          failed,       \* history: messages one of whose posts has failed
          excused,      \* history: <<m, v>> that met a full inbox, no subscriber, or one
                        \* that was gone when its post came
          faults, changes

goVars  == <<view, batch, versions, current, nodes, success>>
regVars == <<status, handlers, past, changes>>
vars == <<inbox, pc, goVars, regVars, got, failed, excused, faults>>

Nodes    == Everyone \cup Queue
Versions == {"broadcast", "queue"}
Of(v)    == IF v = "broadcast" THEN Everyone ELSE Queue
Elems(s) == {s[i] : i \in 1..Len(s)}

Init == /\ inbox = <<>>
        /\ pc = [m \in Messages |-> "new"]
        /\ view = [m \in Messages |-> {}]
        /\ batch = [m \in Messages |-> <<>>]
        /\ versions = [m \in Messages |-> {}]
        /\ current = [m \in Messages |-> "none"]
        /\ nodes = [m \in Messages |-> {}]
        /\ success = [m \in Messages |-> FALSE]
        /\ status = [n \in Nodes |-> IF n \in AtStart THEN "passing" ELSE "absent"]
        /\ handlers = AtStart
        /\ past = {}
        /\ got = [n \in Nodes |-> [m \in Messages |-> 0]]
        /\ failed = {}
        /\ excused = {}
        /\ faults = 0
        /\ changes = 0

(***************************************************************************)
(* saveMessage keeps the oldest Limit messages: the one just appended to a *)
(* full inbox is cut off, without an error.                                *)
(***************************************************************************)
SaveMessage(m) ==
  /\ inbox' = IF Len(inbox) < Limit THEN Append(inbox, m) ELSE inbox
  /\ excused' = IF Len(inbox) < Limit THEN excused
                ELSE excused \cup ({m} \X Versions)

\* Publish up to its lookup: the message is encoded and saved first.
Publish(m) == /\ pc[m] = "new"
              /\ pc' = [pc EXCEPT ![m] = "saved"]
              /\ SaveMessage(m)
              /\ UNCHANGED <<goVars, regVars, got, failed, faults>>

\* GetService: a critical node is left out of its service, the service is not.
Listed == \E n \in Nodes : status[n] \in {"passing", "critical"}
Answers == past \cup IF Listed THEN {{n \in Nodes : status[n] = "passing"}} ELSE {}

\* The answer is the registry's, or one that its cache still has.
Lookup(m) ==
  /\ pc[m] = "saved"
  /\ \E S \in Answers : view' = [view EXCEPT ![m] = S]
  /\ pc' = [pc EXCEPT ![m] = "found"]
  /\ UNCHANGED <<inbox, batch, versions, current, nodes, success, regVars, got,
                 failed, excused, faults>>

\* No service, or no answer: Publish ends, its message stays in the inbox.
LookupFail(m) ==
  /\ pc[m] = "saved"
  /\ \/ ~Listed /\ UNCHANGED faults
     \/ faults < MaxFaults /\ faults' = faults + 1
  /\ pc' = [pc EXCEPT ![m] = "done"]
  /\ UNCHANGED <<inbox, goVars, regVars, got, failed, excused>>

\* The goroutine turns to the first message of b: services without nodes are skipped.
Turn(m, b) ==
  LET known == {v \in Versions : Of(v) \cap view[m] # {}}
  IN /\ batch' = [batch EXCEPT ![m] = b]
     /\ versions' = [versions EXCEPT ![m] = IF b = <<>> THEN {} ELSE known]
     /\ pc' = [pc EXCEPT ![m] = IF b = <<>> THEN "done" ELSE "next"]
     /\ view' = IF b = <<>> THEN [view EXCEPT ![m] = {}] ELSE view
     /\ excused' = IF b = <<>> THEN excused
                   ELSE excused \cup ({Head(b)} \X (Versions \ known))

First(n) == SubSeq(inbox, 1, n)
Rest(n)  == SubSeq(inbox, n + 1, Len(inbox))
Share    == IF Len(inbox) < Batch THEN Len(inbox) ELSE Batch
Fetch(m, taken, left) ==
  /\ pc[m] = "found"
  /\ Turn(m, taken)
  /\ inbox' = left
  /\ UNCHANGED <<current, nodes, success, regVars, got, failed, faults>>

\* Faults for the mutants: the backlog is reset, kept, or taken from its other end.
GetMessageResets(m) == Fetch(m, First(Share), <<>>)
GetMessageKeeps(m)  == Fetch(m, First(Share), inbox)
GetMessageNewest(m) == Fetch(m, Rest(Len(inbox) - Share), First(Len(inbox) - Share))

\* getMessage: up to Batch of the oldest messages leave the inbox.
GetMessage(m) == Fetch(m, First(Share), Rest(Share))

\* The next service: a broadcast goes to all its nodes, a queue to one of them.
Serve(m) ==
  /\ pc[m] = "next"
  /\ \E v \in versions[m], n \in view[m] :
       /\ n \in Of(v)
       /\ nodes' = [nodes EXCEPT ![m] = IF v = "broadcast" THEN Of(v) \cap view[m]
                                        ELSE {n}]
       /\ versions' = [versions EXCEPT ![m] = @ \ {v}]
       /\ current' = [current EXCEPT ![m] = v]
  /\ pc' = [pc EXCEPT ![m] = "post"]
  /\ UNCHANGED <<inbox, view, batch, success, regVars, got, failed, excused, faults>>

\* One post has returned; after the last one a service without success saves again.
Posted(m, n, ok) ==
  LET more == nodes[m] \ {n}
      yes  == ok \/ success[m]
  IN /\ nodes' = [nodes EXCEPT ![m] = more]
     /\ success' = [success EXCEPT ![m] = yes /\ more # {}]
     /\ current' = [current EXCEPT ![m] = IF more = {} /\ yes THEN "none" ELSE @]
     /\ pc' = [pc EXCEPT ![m] = IF more # {} THEN "post"
                                ELSE IF yes THEN "next" ELSE "save"]
     /\ UNCHANGED <<inbox, view, batch, versions, regVars>>

\* The handler of n gets the message; what it returns is not reported.
PostOk(m) ==
  /\ pc[m] = "post"
  /\ \E n \in nodes[m] \cap handlers :
       /\ Posted(m, n, TRUE)
       /\ got' = [got EXCEPT ![n][Head(batch[m])] = @ + 1]
  /\ UNCHANGED <<failed, excused, faults>>

\* ServeHTTP answers without a handler: none has that id any more, or, by a fault, it
\* cannot read the request.  pub does not look at the answer, and the message is given up.
PostUnheard(m) ==
  /\ pc[m] = "post"
  /\ \E n \in nodes[m] :
       /\ Posted(m, n, TRUE)
       /\ \/ n \notin handlers /\ UNCHANGED faults
          \/ n \in handlers /\ faults < MaxFaults /\ faults' = faults + 1
  /\ excused' = excused \cup {<<Head(batch[m]), current[m]>>}
  /\ UNCHANGED <<failed, got>>

\* A post fails before its request has arrived, or after: its answer is lost.
PostFail(m) ==
  /\ pc[m] = "post"
  /\ faults < MaxFaults
  /\ faults' = faults + 1
  /\ \E n \in nodes[m], arrived \in BOOLEAN :
       /\ Posted(m, n, FALSE)
       /\ got' = IF arrived /\ n \in handlers
                 THEN [got EXCEPT ![n][Head(batch[m])] = @ + 1] ELSE got
  /\ failed' = failed \cup {Head(batch[m])}
  /\ UNCHANGED excused

SaveAgain(m) ==
  /\ pc[m] = "save"
  /\ SaveMessage(Head(batch[m]))
  /\ pc' = [pc EXCEPT ![m] = "next"]
  /\ current' = [current EXCEPT ![m] = "none"]
  /\ UNCHANGED <<view, batch, versions, nodes, success, regVars, got, failed, faults>>

\* All services are served: the next message of the batch, or the end.
Served(m) ==
  /\ pc[m] = "next"
  /\ versions[m] = {}
  /\ Turn(m, Tail(batch[m]))
  /\ UNCHANGED <<inbox, current, nodes, success, regVars, got, failed, faults>>

(***************************************************************************)
(* The registry and the brokers of the subscribers.  Every subscription    *)
(* has a node of its own, which does not come back once it is gone.        *)
(***************************************************************************)
Changed(n, new) ==
  /\ changes < MaxChanges
  /\ changes' = changes + 1
  /\ status' = [status EXCEPT ![n] = new]
  /\ past' = Answers
  /\ UNCHANGED <<inbox, pc, goVars, got, failed, excused, faults>>

Subscribe(n) ==
  /\ status[n] = "absent"
  /\ Changed(n, "passing")
  /\ handlers' = handlers \cup {n}

\* Its Register fails with the node in the registry, confirmed or not.
SubscribeFail(n) ==
  /\ status[n] = "absent"
  /\ \E new \in {"passing", "critical"} : Changed(n, new)
  /\ UNCHANGED handlers

\* What Deregister returns is ignored: the node may stay.
Unsubscribe(n) ==
  /\ n \in handlers
  /\ \E new \in {status[n], "gone"} : Changed(n, new)
  /\ handlers' = handlers \ {n}

\* Nobody has refreshed the node, or the registry has forgotten it: left out, then gone.
Expire(n) ==
  /\ status[n] \in {"passing", "critical"}
  /\ \E new \in {"critical", "gone"} : Changed(n, new)
  /\ UNCHANGED handlers

Goroutine(m) == \/ Lookup(m) \/ LookupFail(m) \/ GetMessage(m) \/ Serve(m)
                \/ PostOk(m) \/ PostUnheard(m) \/ PostFail(m)
                \/ SaveAgain(m) \/ Served(m)
Registry == \E n \in Nodes :
  Subscribe(n) \/ SubscribeFail(n) \/ Unsubscribe(n) \/ Expire(n)
Next == \/ \E m \in Messages : Publish(m) \/ Goroutine(m)
        \/ Registry

Spec == Init /\ [][Next]_vars
\* Goroutines are scheduled and a post returns, as the handlers of the programs do.
FairSpec == Spec /\ \A m \in Messages : WF_vars(Goroutine(m))

----------------------------------------------------------------------------
Statuses == {"absent", "passing", "critical", "gone"}
Stages   == {"new", "saved", "found", "next", "post", "save", "done"}
TypeOK == /\ inbox \in Seq(Messages)
          /\ pc \in [Messages -> Stages]
          /\ view \in [Messages -> SUBSET Nodes]
          /\ batch \in [Messages -> Seq(Messages)]
          /\ versions \in [Messages -> SUBSET Versions]
          /\ current \in [Messages -> Versions \cup {"none"}]
          /\ nodes \in [Messages -> SUBSET Nodes]
          /\ success \in [Messages -> BOOLEAN]
          /\ status \in [Nodes -> Statuses]
          /\ handlers \in SUBSET Nodes
          /\ past \in SUBSET SUBSET Nodes
          /\ got \in [Nodes -> [Messages -> Nat]]
          /\ failed \in SUBSET Messages
          /\ excused \in SUBSET (Messages \X Versions)
          /\ faults \in Nat /\ changes \in Nat

Got(m, v) == \E n \in Of(v) : got[n][m] > 0
\* The goroutine of g still owes message m to service v.
Owes(g, m, v) ==
  \/ m \in Elems(Tail(batch[g]))
  \/ /\ m = Head(batch[g])
     /\ \/ v \in versions[g]
        \/ pc[g] \in {"post", "save"} /\ current[g] = v
Held(m, v) == \/ m \in Elems(inbox)
              \/ \E g \in Messages : batch[g] # <<>> /\ Owes(g, m, v)

(***************************************************************************)
(* A published message is in the inbox, in the hands of a goroutine, or    *)
(* has reached a subscriber of each version: failing posts, overlapping    *)
(* Publishes and the splitting of the backlog lose none.  It is let off    *)
(* only where the code gives it up: a full inbox, a version nobody has, a  *)
(* post that was answered though no handler of that id was there to run.   *)
(***************************************************************************)
AtLeastOnce == \A m \in Messages, v \in Versions :
  pc[m] # "new" => Got(m, v) \/ Held(m, v) \/ <<m, v>> \in excused

(***************************************************************************)
(* No subscriber, and no two of a queue, get a message twice unless a post *)
(* of that very message has failed.                                        *)
(***************************************************************************)
NoNeedlessCopy == \A m \in Messages \ failed :
  /\ \A n \in Nodes : got[n][m] < 2
  /\ \A n1, n2 \in Queue : got[n1][m] > 0 /\ got[n2][m] > 0 => n1 = n2

(***************************************************************************)
(* A backlog is worked off by the next Publish: what is among the first    *)
(* Batch messages of the inbox when a Publish has found subscribers gets   *)
(* to all of them, once posts have stopped failing, unless the code gives  *)
(* it up as above.                                                         *)
(***************************************************************************)
Due(m) == /\ faults = MaxFaults
          /\ \E i \in 1..Len(inbox) : i <= Batch /\ inbox[i] = m
          /\ \E g \in Messages : pc[g] = "found"
Retried == \A m \in Messages :
  Due(m) ~> \A v \in Versions : Got(m, v) \/ <<m, v>> \in excused
=============================================================================
