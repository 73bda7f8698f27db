--------------------------- MODULE RegistryCache ---------------------------
(***************************************************************************)
(* The cache through which a selector looks a service up                   *)
(* (registry/cache/rcache.go), the consul watchers that keep it up to date *)
(* (registry/consul/watcher.go) and the agent they watch; one service of   *)
(* one version.                                                            *)
(*                                                                         *)
(* The cache, a watcher's list of what it has seen and the results on      *)
(* their way between them hold pointers to records of the service, and to  *)
(* the same ones: what update appends to a record, and what serviceHandler *)
(* puts in its place, all of them see.  So the records are a heap here.    *)
(***************************************************************************)
EXTENDS Naturals, Sequences, FiniteSets

CONSTANTS
    Nodes,          \* nodes of the service
    Steady,         \* those that never stop passing
    Getters,        \* goroutines that call GetService
    Watchers,       \* run goroutines of the cache, each with its consulWatcher
    Records,        \* *registry.Service
    Ttl,            \* the cache's TTL
    Cap,            \* capacity of a watcher's channel (10)
    MaxChanges,     \* bound: changes at the agent
    None, NoServices \* no entry; an entry that is the empty list

ASSUME CacheAssumption ==
    /\ Ttl \in Nat /\ Cap \in Nat \ {0} /\ MaxChanges \in Nat
    /\ Steady \subseteq Nodes
    /\ {None, NoServices} \cap Records = {} /\ None # NoServices

VARIABLES
    status,         \* at the agent: passing, critical, absent
    changes,
    nodes,          \* nodes[r]: the nodes of record r
    entry,          \* cache.cache["service"]
    age,            \* time since set wrote cache.ttls["service"]
    run,            \* a run goroutine: none, spawned, watching
    get, reply,     \* a getter: idle, asking, answered; what the agent told it
    plan, last,     \* a watcher's plan for the service runs; its lastResult
    known,          \* cw.services["service"]
    pending,        \* the record serviceHandler will store there
    out,            \* what the two handlers have still to send
    next            \* cw.next

agentVars == <<status, changes>>
getVars   == <<get, reply>>
planVars  == <<plan, last, known, pending>>
vars == <<agentVars, nodes, entry, age, run, getVars, planVars, out, next>>

Handlers == {"catalogue", "service"}
Passing == {n \in Nodes : status[n] = "passing"}
Listed  == {n \in Nodes : status[n] # "absent"}
Watched == \E w \in Watchers : run[w] = "watching"

Put(r)    == [action |-> "put", record |-> r]       \* "create" or "update"
Delete(r) == [action |-> "delete", record |-> r]

In(s) == {s[i].record : i \in 1 .. Len(s)}
Held == {entry} \cup UNION {{known[w], pending[w]} \cup In(next[w])
          \cup In(out[w]["catalogue"]) \cup In(out[w]["service"]) : w \in Watchers}
New == CHOOSE r \in Records \ Held : TRUE

\* The nodes of the records after a step; those nobody holds are collected.
Heap(new) == \E held \in {Held'} :
               nodes' = [r \in Records |-> IF r \in held THEN new[r] ELSE {}]

Init ==
    /\ status \in [Nodes -> {"passing", "absent"}]
    /\ Steady \subseteq Passing
    /\ changes = 0
    /\ nodes = [r \in Records |-> {}]
    /\ entry = None
    /\ age = 0
    /\ run = [w \in Watchers |-> "none"]
    /\ get = [g \in Getters |-> "idle"]
    /\ reply = [g \in Getters |-> None]
    /\ plan = [w \in Watchers |-> FALSE]
    /\ last = [w \in Watchers |-> None]
    /\ known = [w \in Watchers |-> None]
    /\ pending = [w \in Watchers |-> None]
    /\ out = [w \in Watchers |-> [h \in Handlers |-> <<>>]]
    /\ next = [w \in Watchers |-> <<>>]

-----------------------------------------------------------------------------
(* The agent, and time.                                                    *)

Change(n) ==
    /\ changes < MaxChanges
    /\ changes' = changes + 1
    /\ \E s \in {"passing", "critical", "absent"} \ {status[n]} :
         status' = [status EXCEPT ![n] = s]
    /\ UNCHANGED <<nodes, entry, age, run, getVars, planVars, out, next>>

Tick ==
    /\ entry \in Records
    /\ age <= 2 * Ttl
    /\ age' = age + 1
    /\ UNCHANGED <<agentVars, nodes, entry, run, getVars, planVars, out, next>>

-----------------------------------------------------------------------------
(* GetService.  set stamps the entry with now + TTL, and isValid compares  *)
(* the time since then with TTL.                                           *)

ValidForEver == entry \in Records       \* faulty: the ttl is not looked at
Valid == entry \in Records /\ age <= 2 * Ttl

(* With a valid entry GetService returns a copy of it and changes nothing. *)
(* The watcher's goroutine says it watches only once it is scheduled.      *)
Miss(g) ==
    /\ get[g] = "idle"
    /\ ~Valid
    /\ IF Watched THEN UNCHANGED run
       ELSE \E w \in Watchers : run[w] = "none" /\ run' = [run EXCEPT ![w] = "spawned"]
    /\ get' = [get EXCEPT ![g] = "asking"]
    /\ UNCHANGED <<agentVars, nodes, entry, age, reply, planVars, out, next>>

Answer(g) ==
    /\ get[g] = "asking"
    /\ get' = [get EXCEPT ![g] = "answered"]
    /\ reply' = [reply EXCEPT ![g] = IF Listed = {} THEN NoServices ELSE Passing]
    /\ UNCHANGED <<agentVars, nodes, entry, age, run, planVars, out, next>>

Error(g) ==
    /\ get[g] = "asking"
    /\ get' = [get EXCEPT ![g] = "idle"]
    /\ UNCHANGED <<agentVars, nodes, entry, age, run, reply, planVars, out, next>>

(* What the agent said is stored whatever has been stored since.           *)
Store(g) ==
    /\ get[g] = "answered"
    /\ get' = [get EXCEPT ![g] = "idle"]
    /\ reply' = [reply EXCEPT ![g] = None]
    /\ age' = 0
    /\ UNCHANGED <<agentVars, run, planVars, out, next>>
    /\ \/ reply[g] = NoServices /\ entry' = NoServices /\ Heap(nodes)
       \/ /\ reply[g] # NoServices
          /\ entry' = New
          /\ Heap([nodes EXCEPT ![entry'] = reply[g]])

-----------------------------------------------------------------------------
(* A consulWatcher: a plan on the catalogue, whose handler starts and      *)
(* stops the plan on the service, and that plan's serviceHandler.          *)

Watch(w) ==
    /\ run[w] = "spawned"
    /\ run' = [run EXCEPT ![w] = "watching"]
    /\ UNCHANGED <<agentVars, nodes, entry, age, getVars, planVars, out, next>>

Idle(w, h) == run[w] = "watching" /\ out[w][h] = <<>>

(* handle meets the service: a bare "create", which changes no entry.      *)
(* (Bound: a stopped plan has ended before the service gets another.)      *)
Appear(w) ==
    /\ \A h \in Handlers : Idle(w, h)
    /\ pending[w] = None
    /\ ~plan[w] /\ Listed # {}
    /\ plan' = [plan EXCEPT ![w] = TRUE]
    /\ last' = [last EXCEPT ![w] = None]
    /\ out' = [out EXCEPT ![w]["catalogue"] = <<Put(None)>>]
    /\ UNCHANGED <<agentVars, nodes, entry, age, run, getVars, known, pending, next>>

Vanish(w) ==
    /\ Idle(w, "catalogue")
    /\ plan[w] /\ Listed = {}
    /\ plan' = [plan EXCEPT ![w] = FALSE]
    /\ known' = [known EXCEPT ![w] = None]
    /\ last' = [last EXCEPT ![w] = None]
    /\ out' = [out EXCEPT ![w]["catalogue"] =
                 (IF known[w] = None THEN <<>> ELSE <<Delete(known[w])>>)
                   \o <<Delete(None)>>]
    /\ UNCHANGED <<agentVars, nodes, entry, age, run, getVars, pending, next>>

(* serviceHandler: the old record now lists the nodes that are gone.       *)
Differ(w) ==
    /\ Idle(w, "service") /\ pending[w] = None
    /\ plan[w] /\ last[w] # status
    /\ last' = [last EXCEPT ![w] = status]
    /\ UNCHANGED <<agentVars, entry, age, run, getVars, plan, known, next>>
    /\ LET old  == known[w]
           gone == IF old = None THEN {} ELSE nodes[old] \ Passing
       IN  \/ Listed = {} /\ UNCHANGED <<pending, out, nodes>>
           \/ /\ Listed # {}
              /\ pending' = [pending EXCEPT ![w] = New]
              /\ out' = [out EXCEPT ![w]["service"] =
                           (IF gone = {} THEN <<>> ELSE <<Delete(old)>>) \o <<Put(New)>>]
              /\ Heap([r \in Records |->
                         IF r = pending'[w] THEN Passing
                         ELSE IF r = old /\ gone # {} THEN gone ELSE nodes[r]])

Send(w, h) ==
    /\ out[w][h] # <<>>
    /\ Len(next[w]) < Cap
    /\ next' = [next EXCEPT ![w] = Append(@, Head(out[w][h]))]
    /\ out' = [out EXCEPT ![w][h] = Tail(@)]
    /\ UNCHANGED <<agentVars, nodes, entry, age, run, getVars, planVars>>

Learn(w) ==
    /\ out[w]["service"] = <<>>
    /\ pending[w] # None
    /\ known' = [known EXCEPT ![w] = pending[w]]
    /\ pending' = [pending EXCEPT ![w] = None]
    /\ UNCHANGED <<agentVars, entry, age, run, getVars, plan, last, out, next>>
    /\ Heap(nodes)

-----------------------------------------------------------------------------
(* update, for what the watcher's Next returns.                            *)

Ignore == UNCHANGED <<entry, age>> /\ Heap(nodes)
Drop   == entry' = None /\ age' = 0 /\ Heap(nodes)

(* The nodes of the entry are added to the new record, which replaces it.  *)
Merge(r) ==
    /\ entry' = r
    /\ age' = 0
    /\ Heap([nodes EXCEPT ![r] = @ \cup (IF entry = NoServices THEN {} ELSE nodes[entry])])

Keep(r) ==
    /\ entry' = entry
    /\ age' = 0
    /\ Heap([nodes EXCEPT ![entry] = @ \ nodes[r]])

Update(w) ==
    /\ next[w] # <<>>
    /\ next' = [next EXCEPT ![w] = Tail(@)]
    /\ UNCHANGED <<agentVars, run, getVars, planVars, out>>
    /\ LET r     == Head(next[w]).record
           del   == Head(next[w]).action = "delete"
           empty == r = None \/ (r # None /\ nodes[r] = {})
       IN  \/ (entry = None \/ (empty /\ ~del)) /\ Ignore
           \/ entry # None /\ empty /\ del /\ Drop
           \/ entry # None /\ ~empty /\ ~del /\ Merge(r)
           \/ entry = NoServices /\ ~empty /\ del /\ Ignore
           \/ entry \in Records /\ ~empty /\ del /\ nodes[entry] \subseteq nodes[r] /\ Drop
           \/ entry \in Records /\ ~empty /\ del /\ ~(nodes[entry] \subseteq nodes[r]) /\ Keep(r)

-----------------------------------------------------------------------------
WatcherStep(w) == Watch(w) \/ Appear(w) \/ Vanish(w) \/ Differ(w) \/ Learn(w) \/ Update(w)
GetStep(g) == Answer(g) \/ Error(g) \/ Store(g)

Next ==
    \/ Tick
    \/ \E n \in Nodes \ Steady : Change(n)
    \/ \E g \in Getters : Miss(g) \/ GetStep(g)
    \/ \E w \in Watchers : WatcherStep(w) \/ \E h \in Handlers : Send(w, h)

Spec == Init /\ [][Next]_vars

(* Time passes, calls of the agent end, goroutines run; nobody has to ask. *)
Fairness ==
    /\ WF_vars(Tick)
    /\ \A g \in Getters : WF_vars(GetStep(g))
    /\ \A w \in Watchers : WF_vars(WatcherStep(w)) /\ \A h \in Handlers : WF_vars(Send(w, h))

FairSpec == Spec /\ Fairness

-----------------------------------------------------------------------------
(* However answers of the agent, results of the watchers and calls cross,  *)
(* once the agent has come to rest the cache ends up with what the agent   *)
(* has, or with nothing it would still give out.                           *)
Converges == <>[](Valid => nodes[entry] = Passing)

(* rcache.go:232 "keep the nodes that need not be deleted, and put them    *)
(* back into the cache": a node that never stops passing is in whatever    *)
(* the cache gives out.                                                    *)
SteadyServed == Valid => Steady \subseteq nodes[entry]
=============================================================================
