--------------------------- MODULE RpcCallProofs ---------------------------
EXTENDS RpcCall, TLAPS

(***************************************************************************)
(* Proofs about RpcCall, for any number of calls, tries, nodes and         *)
(* connections.  The tries use the pool as ConnPool allows (PoolStep), so  *)
(* the pool's invariant holds (PoolSafe).  On it rest two invariants of    *)
(* the calls, the second on the first:                                     *)
(*   Quiet   a connection carries one exchange at a time, an idle one      *)
(*           none;                                                         *)
(*   Honest  what is under way belongs to the try that waits for it, and   *)
(*           whatever reports a handler's outcome reports the right one;   *)
(* and on both a third:                                                    *)
(*   Kept    a waiting Call has something to wait for, and an application  *)
(*           error is on its way to it until the deadline passes or the    *)
(*           connection breaks.                                            *)
(* Each is proved for one operation at a time.  With them every step is a  *)
(* step of CallPromise or a stutter.                                       *)
(***************************************************************************)

(* The pool of a Call, with what is proved about it.                       *)
Borrowed == INSTANCE ConnPoolProofs WITH Users <- Attempts

(* Every step of a call is a step of the pool, or leaves the pool alone.   *)
LEMMA PoolStep == [Next]_vars => [Pool!Next]_poolVars
  <1> SUFFICES ASSUME Next PROVE [Pool!Next]_poolVars
    BY DEF vars
  <1> USE DEF poolVars
  <1>1. ASSUME NEW k \in Calls, Deadline(k) \/ CallStep(k)
        PROVE  UNCHANGED poolVars
    BY <1>1 DEF Deadline, CallStep, CallTimeout, CallResult
  <1>2. ASSUME NEW k \in Calls, NEW kind, CallRefused(k, kind)
        PROVE  UNCHANGED poolVars
    BY <1>2 DEF CallRefused
  <1>3. ASSUME NEW k \in Calls, NEW v \in Views, CallBegin(k, v)
        PROVE  UNCHANGED poolVars
    BY <1>3 DEF CallBegin
  <1>4. ASSUME NEW a \in Attempts, AttemptStep(a)
        PROVE  [Pool!Next]_poolVars
    <2>1. CASE NoNode(a) \/ SelectAnswer(a) \/ SelectDeadline(a)
      BY <2>1 DEF NoNode, SelectAnswer, SelectDeadline
    <2>2. ASSUME NEW n \in Addrs, Reuse(a, n) \/ StartDial(a, n)
          PROVE  Pool!Next
      BY <2>2 DEF Reuse, StartDial, Pool!Next, Pool!GetConn
    <2>3. CASE DialError(a)
      BY <2>3 DEF DialError, Pool!Next
    <2>4. CASE GiveBack(a)
      <3>1. Failed(a) \in BOOLEAN /\ Pool!Release(a, Failed(a))
        BY <2>4 DEF GiveBack, Failed
      <3> QED
        BY <3>1 DEF Pool!Next
    <2> QED
      BY <1>4, <2>1, <2>2, <2>3, <2>4 DEF AttemptStep
  <1>5. ASSUME NEW a \in Attempts, InnerStep(a)
        PROVE  UNCHANGED poolVars
    BY <1>5 DEF InnerStep, InnerSend, InnerSendError, InnerRecvBegin, InnerRecv,
                InnerRecvError, Deliver
  <1>6. ASSUME NEW a \in Attempts, NEW c \in Conns, DialOk(a, c)
        PROVE  Pool!Next
    BY <1>6 DEF DialOk, Pool!Next
  <1>7. ASSUME NEW c \in Conns, ServerStep(c)
        PROVE  UNCHANGED poolVars
    BY <1>7 DEF ServerStep, Serve, HandlerOk, HandlerError, HandlerPanic, Hangup,
                EndJob, serverFrame
  <1>8. ASSUME NEW n \in Addrs, NEW unread \in BOOLEAN, Restart(n) \/ Crash(n, unread)
        PROVE  UNCHANGED poolVars
    BY <1>8 DEF Restart, Crash, serverFrame
  <1>9. ASSUME NEW c \in Conns, NEW drop \in BOOLEAN, Break(c, drop)
        PROVE  UNCHANGED poolVars
    BY <1>9 DEF Break, serverFrame
  <1>10. CASE Tick
    BY <1>10 DEF Tick, Pool!Next
  <1> QED
    BY <1>1, <1>2, <1>3, <1>4, <1>5, <1>6, <1>7, <1>8, <1>9, <1>10 DEF Next

(* The tries of all calls together use the pool as its specification       *)
(* allows: every behaviour of RpcCall is one of ConnPool.                  *)
THEOREM PoolImplemented == Spec => PoolSpec
  <1>1. Init => Pool!Init
    BY DEF Init
  <1>2. [Next]_vars => [Pool!Next]_(Pool!poolVars)
    BY PoolStep DEF Pool!poolVars, poolVars
  <1> QED
    BY <1>1, <1>2, PTL DEF Spec, PoolSpec, Pool!Spec

(* So what ConnPoolProofs proves of the pool holds of the pool of a Call:  *)
(* the two instances of ConnPool differ in nothing but their names.        *)
LEMMA PoolSafe == Spec => []Borrowed!PoolInv
  <1>1. Borrowed!PoolAssumption
    BY CallAssumption DEF Borrowed!PoolAssumption
  <1>2. Init => Borrowed!Init
    BY DEF Init, Pool!Init, Borrowed!Init
  <1>3. [Pool!Next]_poolVars => [Borrowed!Next]_(Borrowed!poolVars)
    BY DEF Pool!Slots, Borrowed!Slots, Pool!Expired, Borrowed!Expired, Pool!GetPooled,
           Borrowed!GetPooled, Pool!GetMiss, Borrowed!GetMiss, Pool!GetConn,
           Borrowed!GetConn, Pool!Below, Borrowed!Below, Pool!Dial, Borrowed!Dial,
           Pool!DialFail, Borrowed!DialFail, Pool!Keep, Borrowed!Keep, Pool!Release,
           Borrowed!Release, Pool!Configure, Borrowed!Configure, Pool!Tick,
           Borrowed!Tick, Pool!Next, Borrowed!Next, Pool!poolVars, Borrowed!poolVars,
           poolVars
  <1>4. Borrowed!Spec => []Borrowed!PoolInv
    BY <1>1, Borrowed!PoolInvariant
  <1> QED
    BY <1>2, <1>3, <1>4, PoolStep, PTL DEF Spec, Borrowed!Spec
-----------------------------------------------------------------------------
(* The first invariant: what IdleQuiet needs to be inductive.              *)

PoolFacts == Pool!TypeOK /\ Pool!Exclusive /\ Pool!Usable

Responses == [for : Attempts, kind : Kinds]

Types ==
    /\ phase \in [Calls -> {"idle", "waiting", "returned"}]
    /\ try \in [Calls -> 0 .. Retries]
    /\ task \in [Attempts -> {"none", "backoff", "calling", "closing", "done"}]
    /\ outcome \in [Attempts -> Kinds \cup {"none"}]
    /\ inner \in [Attempts -> {"none", "send", "sent", "recv", "done"}]
    /\ line \in [Attempts -> Conns \cup {NoConn}]
    /\ answer \in [Attempts -> Seq(Responses)]
    /\ serving \in SUBSET Conns
    /\ job \in [Conns -> Attempts \cup {Nobody}]
    /\ c2s \in [Conns -> Seq(Attempts)]
    /\ s2c \in [Conns -> Seq(Responses)]

(* A try that has not been started is not running.                         *)
Unstarted ==
    \A k \in Calls, i \in 0 .. Retries :
        phase[k] = "idle" \/ i > try[k] => task[<<k, i>>] = "none"

(* Where a try stands with the pool, and what it starts with.              *)
Stages ==
    \A a \in Attempts :
        /\ task[a] = "closing" => stage[a] = "using"
        /\ task[a] = "calling" => stage[a] # "idle"
        /\ task[a] \in {"none", "backoff", "done"} => stage[a] = "idle"
        /\ task[a] \in {"none", "backoff"} \/ stage[a] = "dialing" =>
              inner[a] = "none" /\ answer[a] = <<>> /\ outcome[a] = "none"

Empty(c) == c2s[c] = <<>> /\ s2c[c] = <<>> /\ job[c] = Nobody

(* A connection carries one exchange at a time: a request, its handler, or *)
(* its response.                                                           *)
OneExchange ==
    \A c \in Conns :
        /\ Len(c2s[c]) <= 1 /\ Len(s2c[c]) <= 1
        /\ c2s[c] # <<>> => s2c[c] = <<>> /\ job[c] = Nobody
        /\ job[c] # Nobody => s2c[c] = <<>>

(* Nothing is left for a server that does not read the connection.         *)
Left == \A c \in Conns \ serving : c2s[c] = <<>> /\ job[c] = Nobody

(* An inner goroutine that still uses a connection has it to itself, and   *)
(* has told nothing yet; before it sends, the connection is empty.         *)
InnerAlone ==
    \A a \in Attempts : Busy(a) =>
        /\ line[a] \in Conns
        /\ answer[a] = <<>> /\ outcome[a] # "ok"
        /\ \A c \in open : line[a] = c => held[a] = c /\ (inner[a] = "send" => Empty(c))

(* A success says that the exchange is over.                               *)
OkIsOver ==
    \A a \in Attempts, c \in Conns :
        /\ held[a] = c
        /\ outcome[a] = "ok" \/ (answer[a] # <<>> /\ Head(answer[a]).kind = "ok")
        => Empty(c)

(* An idle connection carries nothing.                                     *)
IdleEmpty == \A c \in Conns : Pool!Pooled(c) => Empty(c)

Quiet ==
    /\ Types /\ Unstarted /\ Stages
    /\ OneExchange /\ Left /\ InnerAlone /\ OkIsOver /\ IdleEmpty

-----------------------------------------------------------------------------
(* What the invariant below needs to know of the pool.                     *)
Owners ==
    /\ open \subseteq Conns
    /\ stage \in [Attempts -> {"idle", "dialing", "using"}]
    /\ held \in [Attempts -> Conns \cup {NoConn}]
    /\ \A a \in Attempts : held[a] \in Conns <=> stage[a] = "using"
    /\ \A a \in Attempts : held[a] \in Conns => held[a] \in open
    /\ \A a, b \in Attempts : held[a] \in Conns /\ held[a] = held[b] => a = b
    /\ \A c \in Conns : Pool!Pooled(c) => c \in open /\ \A a \in Attempts : held[a] # c

(* The pool's invariant says what Owners says.                             *)
LEMMA PoolOwners == PoolFacts => Owners
  <1> SUFFICES ASSUME PoolFacts PROVE Owners
    OBVIOUS
  <1> USE CallAssumption DEF PoolFacts, Pool!TypeOK
  <1>1. \A a \in Attempts : held[a] \in Conns <=> held[a] # NoConn
    OBVIOUS
  <1>2. \A a \in Attempts : held[a] \in Conns => held[a] \in open
    BY <1>1 DEF Pool!Usable
  <1>3. \A a, b \in Attempts : held[a] \in Conns /\ held[a] = held[b] => a = b
    BY <1>1 DEF Pool!Exclusive, Pool!LentOnce
  <1>4. \A c \in Conns : Pool!Pooled(c) => c \in open /\ \A a \in Attempts : held[a] # c
    BY DEF Pool!Exclusive, Pool!NotBoth, Pool!Usable, Pool!Pooled
  <1> QED
    BY <1>1, <1>2, <1>3, <1>4 DEF Owners

(* getConn from the pool: the try gets an idle connection, and no other    *)
(* becomes idle.                                                           *)
LEMMA PooledMove ==
    ASSUME PoolFacts, NEW a \in Attempts, NEW n \in Addrs, Pool!GetPooled(a, n)
    PROVE  /\ stage[a] = "idle" /\ stage' = [stage EXCEPT ![a] = "using"]
           /\ open' \subseteq open
           /\ \E c \in Conns : Pool!Pooled(c) /\ held' = [held EXCEPT ![a] = c]
           /\ \A c \in Conns : Pool!Pooled(c)' => Pool!Pooled(c)
  <1>1. PICK k \in Pool!Slots(n) :
          /\ open' = open \ {conns[n][j] : j \in (k + 1) .. Len(conns[n])}
          /\ conns' = [conns EXCEPT ![n] = SubSeq(conns[n], 1, k - 1)]
          /\ held' = [held EXCEPT ![a] = conns[n][k]]
    BY DEF Pool!GetPooled, Pool!Below
  <1>2. /\ conns \in [Addrs -> Seq(Conns)] /\ conns[n] \in Seq(Conns)
        /\ k \in 1 .. Len(conns[n]) /\ conns[n][k] \in Conns
    BY DEF PoolFacts, Pool!TypeOK, Pool!Slots
  <1>3. /\ conns'[n] = SubSeq(conns[n], 1, k - 1)
        /\ \A m \in Addrs : m # n => conns'[m] = conns[m]
    BY <1>1, <1>2
  <1>4. /\ Len(conns'[n]) = k - 1
        /\ \A i \in 1 .. (k - 1) : conns'[n][i] = conns[n][i]
    BY <1>2, <1>3
  <1>5. \A m \in Addrs : \A i \in 1 .. Len(conns'[m]) :
           i \in 1 .. Len(conns[m]) /\ conns'[m][i] = conns[m][i]
    BY <1>2, <1>3, <1>4
  <1>6. \A c \in Conns : Pool!Pooled(c)' => Pool!Pooled(c)
    BY <1>5 DEF Pool!Pooled, Pool!Slots
  <1>7. Pool!Pooled(conns[n][k])
    BY <1>1 DEF Pool!Pooled
  <1> QED
    BY <1>1, <1>2, <1>6, <1>7 DEF Pool!GetPooled

(* getConn that has to dial closes idle connections at most.               *)
LEMMA MissMove ==
    ASSUME PoolFacts, NEW a \in Attempts, NEW n \in Addrs, Pool!GetMiss(a, n)
    PROVE  /\ stage[a] = "idle" /\ stage' = [stage EXCEPT ![a] = "dialing"]
           /\ open' \subseteq open /\ held' = held
           /\ \A c \in Conns : Pool!Pooled(c)' => Pool!Pooled(c)
  <1>1. conns \in [Addrs -> Seq(Conns)] /\ conns' = [conns EXCEPT ![n] = <<>>]
    BY DEF PoolFacts, Pool!TypeOK, Pool!GetMiss
  <1>2. \A m \in Addrs : \A i \in 1 .. Len(conns'[m]) :
           i \in 1 .. Len(conns[m]) /\ conns'[m][i] = conns[m][i]
    BY <1>1
  <1> QED
    BY <1>2 DEF Pool!Pooled, Pool!Slots, Pool!GetMiss

(* release: what becomes idle is the connection of a call that succeeded,  *)
(* and a failed one is closed.                                             *)
LEMMA ReleaseMove ==
    ASSUME PoolFacts, NEW a \in Attempts, NEW failed \in BOOLEAN, Pool!Release(a, failed)
    PROVE  /\ stage[a] = "using" /\ stage' = [stage EXCEPT ![a] = "idle"]
           /\ held' = [held EXCEPT ![a] = NoConn]
           /\ open' \subseteq open
           /\ failed => held[a] \notin open'
           /\ \A c \in Conns : Pool!Pooled(c)' =>
                 Pool!Pooled(c) \/ (c = held[a] /\ ~failed)
  <1>1. CASE Pool!Keep(a, failed)
    <2>1. PICK n \in Addrs, h \in Conns : n = addr[a] /\ h = held[a]
      BY DEF PoolFacts, Pool!TypeOK, Pool!Release
    <2>2. /\ ~failed /\ open' = open
          /\ conns \in [Addrs -> Seq(Conns)] /\ conns[n] \in Seq(Conns)
          /\ conns' = [conns EXCEPT ![n] = Append(conns[n], h)]
      BY <1>1, <2>1 DEF PoolFacts, Pool!TypeOK, Pool!Release, Pool!Keep
    <2>3. /\ conns'[n] = Append(conns[n], h)
          /\ \A m \in Addrs : m # n => conns'[m] = conns[m]
      BY <2>2
    <2>4. /\ Len(conns'[n]) = Len(conns[n]) + 1
          /\ conns'[n][Len(conns[n]) + 1] = h
          /\ \A i \in 1 .. Len(conns[n]) : conns'[n][i] = conns[n][i]
      BY <2>2, <2>3
    <2>5. \A m \in Addrs : \A i \in 1 .. Len(conns'[m]) :
             \/ i \in 1 .. Len(conns[m]) /\ conns'[m][i] = conns[m][i]
             \/ conns'[m][i] = h
      BY <2>2, <2>3, <2>4
    <2>6. \A c \in Conns : Pool!Pooled(c)' => Pool!Pooled(c) \/ c = h
      BY <2>5 DEF Pool!Pooled, Pool!Slots
    <2> QED
      BY <2>1, <2>2, <2>6 DEF Pool!Release
  <1>2. CASE ~Pool!Keep(a, failed)
    <2>1. open' = open \ {held[a]} /\ conns' = conns
      BY <1>2 DEF Pool!Release
    <2>2. \A c \in Conns : Pool!Pooled(c)' = Pool!Pooled(c)
      BY <2>1 DEF Pool!Pooled, Pool!Slots
    <2> QED
      BY <2>1, <2>2 DEF Pool!Release
  <1> QED
    BY <1>1, <1>2

(* Whatever leaves the stacks alone leaves the same connections idle.      *)
LEMMA SamePooled ==
    ASSUME conns' = conns
    PROVE  \A c \in Conns : Pool!Pooled(c)' <=> Pool!Pooled(c)
  BY DEF Pool!Pooled, Pool!Slots

-----------------------------------------------------------------------------
(* At the start every connection is empty and no try runs.                 *)
LEMMA InitQuiet == Init => Quiet
  <1> SUFFICES ASSUME Init PROVE Quiet
    OBVIOUS
  <1> USE CallAssumption DEF Init, Pool!Init
  <1>1. Types /\ Unstarted /\ Stages
    BY DEF Types, Unstarted, Stages, Attempts
  <1>2. OneExchange /\ Left /\ InnerAlone /\ OkIsOver /\ IdleEmpty
    BY DEF OneExchange, Left, InnerAlone, OkIsOver, IdleEmpty, Busy, Empty
  <1> QED
    BY <1>1, <1>2 DEF Quiet

(* What the facts about connections depend on, but for the pool's stacks.  *)
wires == <<open, held, inner, line, answer, outcome, serving, job, c2s, s2c>>

(* A step that leaves all of it alone keeps those facts.                   *)
LEMMA WiresSame ==
    ASSUME Quiet, conns' = conns, UNCHANGED wires
    PROVE  OneExchange' /\ Left' /\ InnerAlone' /\ OkIsOver' /\ IdleEmpty'
  <1>1. \A c \in Conns : Empty(c)' = Empty(c)
    BY DEF Empty, wires
  <1>2. \A a \in Attempts : Busy(a)' = Busy(a)
    BY DEF Busy, wires
  <1>3. OneExchange' /\ Left'
    BY DEF Quiet, OneExchange, Left, wires
  <1>4. InnerAlone' /\ OkIsOver'
    BY <1>1, <1>2 DEF Quiet, InnerAlone, OkIsOver, wires
  <1>5. IdleEmpty'
    BY <1>1, SamePooled DEF Quiet, IdleEmpty
  <1> QED
    BY <1>3, <1>4, <1>5

(* The goroutine of Call, its deadline, a refusal or a start move nothing  *)
(* on the connections.                                                     *)
LEMMA CallQuiet ==
    ASSUME Quiet, NEW k \in Calls,
           \/ Deadline(k) \/ CallStep(k)
           \/ \E kind \in {"notfound", "internal", "timeout"} : CallRefused(k, kind)
           \/ \E v \in Views : CallBegin(k, v)
    PROVE  Quiet'
  <1> USE CallAssumption DEF Quiet
  <1>0. conns' = conns /\ UNCHANGED wires /\ UNCHANGED <<stage>>
    BY DEF Deadline, CallStep, CallTimeout, CallResult, CallRefused, CallBegin,
           wires, poolVars, innerVars, taskVars, serverVars, linkVars, wireVars
  <1>1. OneExchange' /\ Left' /\ InnerAlone' /\ OkIsOver' /\ IdleEmpty'
    BY <1>0, WiresSame
  <1>2. CASE Deadline(k) \/ CallTimeout(k) \/ \E kind \in {"notfound", "internal", "timeout"} : CallRefused(k, kind)
    <2>1. UNCHANGED <<try, task>> /\ (phase' = phase \/ phase' = [phase EXCEPT ![k] = "returned"])
      BY <1>2 DEF Deadline, CallTimeout, CallRefused, Return, taskVars
    <2>2. Types'
      BY <1>0, <2>1 DEF Types, wires
    <2>3. Unstarted' /\ Stages'
      BY <1>0, <2>1 DEF Types, Unstarted, Stages, wires
    <2> QED
      BY <1>1, <2>2, <2>3
  <1>3. ASSUME NEW v \in Views, CallBegin(k, v) PROVE Quiet'
    <2>1. /\ try' = try /\ task' = [task EXCEPT ![<<k, 0>>] = "backoff"]
          /\ phase' = [phase EXCEPT ![k] = "waiting"] /\ phase[k] = "idle"
          /\ <<k, 0>> \in Attempts /\ task[<<k, 0>>] = "none"
      BY <1>3 DEF CallBegin, Attempts, Unstarted
    <2>2. Types'
      BY <1>0, <2>1 DEF Types, wires
    <2>3. Unstarted'
      <3> SUFFICES ASSUME NEW m \in Calls, NEW i \in 0 .. Retries,
                          phase'[m] = "idle" \/ i > try[m]
                   PROVE  task'[<<m, i>>] = "none"
        BY <2>1 DEF Unstarted
      <3>1. <<m, i>> # <<k, 0>>
        BY <2>1 DEF Types
      <3> QED
        BY <2>1, <3>1 DEF Unstarted, Types, Attempts
    <2>4. Stages'
      BY <1>0, <2>1 DEF Types, Stages, wires
    <2> QED
      BY <1>1, <2>2, <2>3, <2>4
  <1>4. CASE CallResult(k)
    <2>1. CASE Retryable(Head(results[k])) /\ MoreTries(k)
      <3>1. /\ try' = [try EXCEPT ![k] = try[k] + 1] /\ phase' = phase
            /\ task' = [task EXCEPT ![<<k, try[k] + 1>>] = "backoff"]
            /\ phase[k] = "waiting"
        BY <1>4, <2>1 DEF CallResult
      <3>2. /\ try[k] + 1 \in 0 .. Retries /\ try[k] \in 0 .. Retries
            /\ <<k, try[k] + 1>> \in Attempts
            /\ task[<<k, try[k] + 1>>] = "none"
        <4>1. try[k] \in 0 .. Retries /\ try[k] + 1 \in 0 .. Retries
          BY <2>1 DEF MoreTries, Types
        <4>2. try[k] + 1 > try[k]
          BY <4>1
        <4> QED
          BY <4>1, <4>2 DEF Attempts, Unstarted
      <3>3. Types'
        BY <1>0, <3>1, <3>2 DEF Types, wires
      <3>4. Unstarted'
        <4> SUFFICES ASSUME NEW m \in Calls, NEW i \in 0 .. Retries,
                            phase[m] = "idle" \/ i > try'[m]
                     PROVE  task'[<<m, i>>] = "none"
          BY <3>1 DEF Unstarted
        <4>1. <<m, i>> # <<k, try[k] + 1>> /\ <<m, i>> \in Attempts
          BY <3>1, <3>2 DEF Types, Attempts
        <4>2. phase[m] = "idle" \/ i > try[m]
          BY <3>1, <3>2 DEF Types
        <4> QED
          BY <3>1, <4>1, <4>2 DEF Unstarted, Types
      <3>5. Stages'
        BY <1>0, <3>1, <3>2 DEF Types, Stages, wires
      <3> QED
        BY <1>1, <3>3, <3>4, <3>5
    <2>2. CASE ~(Retryable(Head(results[k])) /\ MoreTries(k))
      <3>1. UNCHANGED <<try, task>> /\ phase' = [phase EXCEPT ![k] = "returned"]
        BY <1>4, <2>2 DEF CallResult, Return
      <3>2. Types'
        BY <1>0, <3>1 DEF Types, wires
      <3>3. Unstarted' /\ Stages'
        BY <1>0, <3>1 DEF Types, Unstarted, Stages, wires
      <3> QED
        BY <1>1, <3>2, <3>3
    <2> QED
      BY <2>1, <2>2
  <1> QED
    BY <1>2, <1>3, <1>4 DEF CallStep

-----------------------------------------------------------------------------
(* What a step of a try does to itself; nothing else of a try changes.     *)
LEMMA OthersUnstarted ==
    ASSUME Types, Unstarted, NEW a \in Attempts, task[a] # "none",
           \A b \in Attempts : b # a => task'[b] = task[b],
           UNCHANGED <<phase, try>>
    PROVE  Unstarted'
  <1> SUFFICES ASSUME NEW m \in Calls, NEW i \in 0 .. Retries,
                      phase[m] = "idle" \/ i > try[m]
               PROVE  task'[<<m, i>>] = "none"
    BY DEF Unstarted
  <1>1. task[<<m, i>>] = "none" /\ <<m, i>> \in Attempts
    BY DEF Unstarted, Attempts
  <1> QED
    BY <1>1

(* A try that gets no node ends before it touches the pool.                *)
LEMMA NoNodeQuiet ==
    ASSUME Quiet, NEW a \in Attempts, NoNode(a)
    PROVE  Quiet'
  <1> USE DEF Quiet
  <1>1. /\ task[a] = "backoff" /\ task' = [task EXCEPT ![a] = "done"]
        /\ outcome' = [outcome EXCEPT ![a] = "none"]
        /\ UNCHANGED <<phase, try, stage, conns, open, held, inner, line, answer,
                       serving, job, c2s, s2c>>
    BY DEF NoNode, Finish, poolVars, innerVars, serverVars, linkVars, wireVars
  <1>2. Types'
    BY <1>1 DEF Types
  <1>3. Unstarted'
    BY <1>1, OthersUnstarted DEF Types
  <1>4. Stages'
    BY <1>1 DEF Types, Stages
  <1>5. outcome' = outcome
    BY <1>1 DEF Types, Stages
  <1> QED
    BY <1>1, <1>2, <1>3, <1>4, <1>5, WiresSame DEF wires

(* A try that reuses an idle connection finds it empty (IdleEmpty), which  *)
(* is what its inner goroutine needs.                                      *)
LEMMA ReuseQuiet ==
    ASSUME PoolFacts, Owners, Owners', Quiet, NEW a \in Attempts, NEW n \in Addrs, Reuse(a, n)
    PROVE  Quiet'
  <1> USE DEF Quiet
  <1>1. PICK c \in Conns :
          /\ Pool!Pooled(c) /\ held' = [held EXCEPT ![a] = c]
          /\ stage[a] = "idle" /\ stage' = [stage EXCEPT ![a] = "using"]
          /\ open' \subseteq open
          /\ \A d \in Conns : Pool!Pooled(d)' => Pool!Pooled(d)
    BY PooledMove DEF Reuse
  <1>2. /\ task[a] = "backoff" /\ task' = [task EXCEPT ![a] = "calling"]
        /\ inner' = [inner EXCEPT ![a] = "send"]
        /\ line' = [line EXCEPT ![a] = c]
        /\ UNCHANGED <<phase, try, outcome, answer, serving, job, c2s, s2c>>
    BY <1>1 DEF Reuse, Launch, callVars, serverVars, linkVars, wireVars, Owners
  <1>3. /\ Empty(c) /\ c \in open
        /\ \A b \in Attempts : held[b] # c
        /\ \A d \in Conns : Empty(d)' = Empty(d)
        /\ answer[a] = <<>> /\ outcome[a] = "none"
    BY <1>1, <1>2 DEF Owners, IdleEmpty, Empty, Stages
  <1>4. Types'
    BY <1>2 DEF Types
  <1>5. Unstarted'
    BY <1>2, OthersUnstarted DEF Types
  <1>6. Stages'
    BY <1>1, <1>2 DEF Types, Stages, Owners
  <1>7. OneExchange' /\ Left'
    BY <1>2 DEF OneExchange, Left
  <1>8. InnerAlone'
    <2> SUFFICES ASSUME NEW b \in Attempts, Busy(b)'
                 PROVE  /\ line'[b] \in Conns
                        /\ answer'[b] = <<>> /\ outcome'[b] # "ok"
                        /\ \A d \in open' : line'[b] = d =>
                              held'[b] = d /\ (inner'[b] = "send" => Empty(d)')
      BY DEF InnerAlone
    <2>1. CASE b = a
      BY <2>1, <1>1, <1>2, <1>3 DEF Types, Owners
    <2>2. CASE b # a
      <3>1. Busy(b) /\ line'[b] = line[b] /\ held'[b] = held[b] /\ inner'[b] = inner[b]
        BY <2>2, <1>1, <1>2 DEF Busy, Types, Owners
      <3> QED
        BY <3>1, <1>1, <1>2, <1>3 DEF InnerAlone
    <2> QED
      BY <2>1, <2>2
  <1>9. OkIsOver'
    <2> SUFFICES ASSUME NEW b \in Attempts, NEW d \in Conns, held'[b] = d,
                        outcome[b] = "ok" \/ (answer[b] # <<>> /\ Head(answer[b]).kind = "ok")
                 PROVE  Empty(d)
      BY <1>1, <1>2, <1>3 DEF OkIsOver
    <2>1. b # a /\ held'[b] = held[b]
      BY <1>1, <1>3 DEF Owners
    <2> QED
      BY <2>1 DEF OkIsOver
  <1>10. IdleEmpty'
    BY <1>1, <1>3 DEF IdleEmpty
  <1> QED
    BY <1>4, <1>5, <1>6, <1>7, <1>8, <1>9, <1>10

(* A try that has to dial touches no connection in use.                    *)
LEMMA StartDialQuiet ==
    ASSUME PoolFacts, Owners, Owners', Quiet, NEW a \in Attempts, NEW n \in Addrs,
           StartDial(a, n)
    PROVE  Quiet'
  <1> USE DEF Quiet
  <1>1. /\ held' = held
        /\ stage[a] = "idle" /\ stage' = [stage EXCEPT ![a] = "dialing"]
        /\ open' \subseteq open
        /\ \A d \in Conns : Pool!Pooled(d)' => Pool!Pooled(d)
    BY MissMove DEF StartDial
  <1>2. /\ task[a] = "backoff" /\ task' = [task EXCEPT ![a] = "calling"]
        /\ UNCHANGED <<phase, try, outcome, inner, line, answer, serving, job, c2s, s2c>>
    BY DEF StartDial, callVars, innerVars, serverVars, linkVars, wireVars
  <1>3. /\ \A d \in Conns : Empty(d)' = Empty(d)
        /\ \A b \in Attempts : Busy(b)' = Busy(b)
    BY <1>2 DEF Empty, Busy
  <1>4. Types'
    BY <1>2 DEF Types
  <1>5. Unstarted'
    BY <1>2, OthersUnstarted DEF Types
  <1>6. Stages'
    BY <1>1, <1>2 DEF Types, Stages, Owners
  <1>7. OneExchange' /\ Left' /\ InnerAlone' /\ OkIsOver' /\ IdleEmpty'
    BY <1>1, <1>2, <1>3 DEF OneExchange, Left, InnerAlone, OkIsOver, IdleEmpty
  <1> QED
    BY <1>4, <1>5, <1>6, <1>7

(* A fresh connection is empty and nobody else's.                          *)
LEMMA DialOkQuiet ==
    ASSUME Owners, Owners', Quiet, NEW a \in Attempts, NEW c \in Conns, DialOk(a, c)
    PROVE  Quiet'
  <1> USE DEF Quiet
  <1>1. /\ c \notin open /\ c \notin serving
        /\ \A b \in Attempts : Busy(b) => line[b] # c
        /\ open' = open \cup {c} /\ conns' = conns
        /\ held' = [held EXCEPT ![a] = c]
        /\ stage[a] = "dialing" /\ stage' = [stage EXCEPT ![a] = "using"]
        /\ task' = [task EXCEPT ![a] = "calling"]
        /\ inner' = [inner EXCEPT ![a] = "send"]
        /\ line' = [line EXCEPT ![a] = c]
        /\ serving' = serving \cup {c}
        /\ c2s' = [c2s EXCEPT ![c] = <<>>]
        /\ s2c' = [s2c EXCEPT ![c] = <<>>]
        /\ UNCHANGED <<phase, try, outcome, answer, job>>
    BY DEF DialOk, Fresh, Launch, Pool!Dial, callVars
  <1>2. /\ task[a] # "none" /\ answer[a] = <<>> /\ outcome[a] = "none"
    BY <1>1 DEF Stages, Types
  <1>3. /\ Empty(c)'
        /\ \A d \in Conns : Empty(d) => Empty(d)'
    BY <1>1 DEF Empty, Left, Types
  <1>4. Types'
    BY <1>1 DEF Types
  <1>5. Unstarted'
    BY <1>1, <1>2, OthersUnstarted DEF Types
  <1>6. Stages'
    BY <1>1, <1>2 DEF Types, Stages, Owners
  <1>7. OneExchange' /\ Left'
    BY <1>1 DEF OneExchange, Left, Types
  <1>8. InnerAlone'
    <2> SUFFICES ASSUME NEW b \in Attempts, Busy(b)'
                 PROVE  /\ line'[b] \in Conns
                        /\ answer'[b] = <<>> /\ outcome'[b] # "ok"
                        /\ \A d \in open' : line'[b] = d =>
                              held'[b] = d /\ (inner'[b] = "send" => Empty(d)')
      BY DEF InnerAlone
    <2>1. CASE b = a
      <3>1. line'[b] = c /\ held'[b] = c
        BY <2>1, <1>1 DEF Types, Owners
      <3> QED
        BY <2>1, <3>1, <1>1, <1>2, <1>3
    <2>2. CASE b # a
      <3>1. Busy(b) /\ line'[b] = line[b] /\ held'[b] = held[b] /\ inner'[b] = inner[b]
        BY <2>2, <1>1 DEF Busy, Types, Owners
      <3>2. line[b] # c
        BY <3>1, <1>1
      <3> QED
        BY <3>1, <3>2, <1>1, <1>3 DEF InnerAlone
    <2> QED
      BY <2>1, <2>2
  <1>9. OkIsOver'
    <2> SUFFICES ASSUME NEW b \in Attempts, NEW d \in Conns, held'[b] = d,
                        outcome[b] = "ok" \/ (answer[b] # <<>> /\ Head(answer[b]).kind = "ok")
                 PROVE  Empty(d)'
      BY <1>1 DEF OkIsOver
    <2>1. b # a /\ held'[b] = held[b]
      BY <1>1, <1>2 DEF Owners
    <2> QED
      BY <2>1, <1>3 DEF OkIsOver
  <1>10. IdleEmpty'
    BY <1>1, <1>3, SamePooled DEF IdleEmpty
  <1> QED
    BY <1>4, <1>5, <1>6, <1>7, <1>8, <1>9, <1>10

(* A failed dial ends the try.                                             *)
LEMMA DialErrorQuiet ==
    ASSUME Owners, Quiet, NEW a \in Attempts, DialError(a)
    PROVE  Quiet'
  <1> USE DEF Quiet
  <1>1. /\ stage[a] = "dialing" /\ stage' = [stage EXCEPT ![a] = "idle"]
        /\ task' = [task EXCEPT ![a] = "done"]
        /\ outcome' = [outcome EXCEPT ![a] = "none"]
        /\ UNCHANGED <<phase, try, conns, open, held, inner, line, answer,
                       serving, job, c2s, s2c>>
    BY DEF DialError, Finish, Pool!DialFail, innerVars, serverVars, linkVars, wireVars
  <1>2. task[a] # "none" /\ outcome' = outcome
    BY <1>1 DEF Stages, Types
  <1>3. Types'
    BY <1>1 DEF Types
  <1>4. Unstarted'
    BY <1>1, <1>2, OthersUnstarted DEF Types
  <1>5. Stages'
    BY <1>1, <1>2 DEF Types, Stages, Owners
  <1> QED
    BY <1>1, <1>2, <1>3, <1>4, <1>5, WiresSame DEF wires

(* The select of rpcClient.call takes the answer or the deadline.          *)
LEMMA SelectQuiet ==
    ASSUME Owners, Quiet, NEW a \in Attempts, SelectAnswer(a) \/ SelectDeadline(a)
    PROVE  Quiet'
  <1> USE DEF Quiet
  <1>1. /\ task[a] = "calling" /\ task' = [task EXCEPT ![a] = "closing"]
        /\ UNCHANGED <<phase, try, conns, stage, open, held, inner, line, serving, job, c2s, s2c>>
    BY DEF SelectAnswer, SelectDeadline, poolVars, callVars, innerVars, serverVars, linkVars, wireVars
  <1>2. /\ \A d \in Conns : Empty(d)' = Empty(d)
        /\ \A b \in Attempts : Busy(b)' = Busy(b)
    BY <1>1 DEF Empty, Busy
  <1>3. Unstarted'
    BY <1>1, OthersUnstarted DEF Types
  <1>4. OneExchange' /\ Left'
    BY <1>1 DEF OneExchange, Left
  <1>5. IdleEmpty'
    BY <1>1, <1>2, SamePooled DEF IdleEmpty
  <1>6. CASE SelectAnswer(a)
    <2> DEFINE k == Head(answer[a]).kind
    <2>1. /\ answer[a] # <<>> /\ answer' = [answer EXCEPT ![a] = <<>>]
          /\ outcome' = [outcome EXCEPT ![a] = k]
      BY <1>6 DEF SelectAnswer
    <2>2. k \in Kinds
      <3>1. answer[a] \in Seq(Responses)
        BY DEF Types
      <3>2. Head(answer[a]) \in Responses
        BY <2>1, <3>1
      <3> QED
        BY <3>2 DEF Responses
    <2>3. stage[a] = "using" /\ ~Busy(a)
      BY <1>1, <2>1 DEF Stages, Owners, InnerAlone
    <2> HIDE DEF k
    <2>4. Types'
      BY <1>1, <2>1, <2>2 DEF Types
    <2>5. Stages'
      BY <1>1, <2>1, <2>3 DEF Types, Stages
    <2>6. InnerAlone'
      <3> SUFFICES ASSUME NEW b \in Attempts, Busy(b)
                   PROVE  answer'[b] = <<>> /\ outcome'[b] # "ok"
        BY <1>1, <1>2 DEF InnerAlone
      <3>1. b # a
        BY <2>3
      <3> QED
        BY <2>1, <3>1 DEF InnerAlone, Types
    <2>7. OkIsOver'
      <3> SUFFICES ASSUME NEW b \in Attempts, NEW d \in Conns, held[b] = d,
                          outcome'[b] = "ok" \/ (answer'[b] # <<>> /\ Head(answer'[b]).kind = "ok")
                   PROVE  Empty(d)
        BY <1>1, <1>2 DEF OkIsOver
      <3>1. CASE b = a
        <4>1. k = "ok"
          BY <3>1, <2>1 DEF Types
        <4> QED
          BY <3>1, <4>1, <2>1 DEF OkIsOver, k
      <3>2. CASE b # a
        BY <3>2, <2>1 DEF OkIsOver, Types
      <3> QED
        BY <3>1, <3>2
    <2> QED
      BY <1>3, <1>4, <1>5, <2>4, <2>5, <2>6, <2>7
  <1>7. CASE SelectDeadline(a)
    <2>1. /\ answer' = answer /\ outcome' = [outcome EXCEPT ![a] = "timeout"]
          /\ stage[a] = "using"
      BY <1>7 DEF SelectDeadline, innerVars
    <2>2. Types'
      BY <1>1, <2>1 DEF Types, Kinds
    <2>3. Stages'
      BY <1>1, <2>1 DEF Types, Stages
    <2>4. InnerAlone' /\ OkIsOver'
      BY <1>1, <1>2, <2>1 DEF InnerAlone, OkIsOver, Types
    <2> QED
      BY <1>3, <1>4, <1>5, <2>2, <2>3, <2>4
  <1> QED
    BY <1>6, <1>7

(* A connection comes back to the pool only after a success, and then it   *)
(* is empty; after any failure it is closed.                               *)
LEMMA GiveBackQuiet ==
    ASSUME PoolFacts, Owners, Owners', Quiet, NEW a \in Attempts, GiveBack(a)
    PROVE  Quiet'
  <1> USE DEF Quiet
  <1>1. /\ held' = [held EXCEPT ![a] = NoConn]
        /\ stage[a] = "using" /\ stage' = [stage EXCEPT ![a] = "idle"]
        /\ open' \subseteq open
        /\ outcome[a] # "ok" => held[a] \notin open'
        /\ \A d \in Conns : Pool!Pooled(d)' =>
              Pool!Pooled(d) \/ (d = held[a] /\ outcome[a] = "ok")
    <2>1. Failed(a) \in BOOLEAN /\ Pool!Release(a, Failed(a))
      BY DEF GiveBack, Failed
    <2> QED
      BY <2>1, ReleaseMove DEF Failed
  <1>2. /\ task[a] = "closing" /\ task' = [task EXCEPT ![a] = "done"]
        /\ outcome' = [outcome EXCEPT ![a] = "none"]
        /\ answer' = [answer EXCEPT ![a] = <<>>]
        /\ s2c' = [c \in Conns |-> IF c \in open' THEN s2c[c] ELSE <<>>]
        /\ UNCHANGED <<phase, try, inner, line, serving, job, c2s>>
    BY DEF GiveBack, Finish, serverVars, linkVars
  <1>3. /\ \A d \in Conns : Empty(d) => Empty(d)'
        /\ \A b \in Attempts : Busy(b)' = Busy(b)
    BY <1>2 DEF Empty, Busy
  <1>4. Types'
    BY <1>2 DEF Types
  <1>5. Unstarted'
    BY <1>2, OthersUnstarted DEF Types
  <1>6. Stages'
    BY <1>1, <1>2 DEF Types, Stages, Owners
  <1>7. OneExchange' /\ Left'
    BY <1>2 DEF OneExchange, Left, Types
  <1>8. InnerAlone'
    <2> SUFFICES ASSUME NEW b \in Attempts, Busy(b)
                 PROVE  /\ line[b] \in Conns
                        /\ answer'[b] = <<>> /\ outcome'[b] # "ok"
                        /\ \A d \in open' : line[b] = d =>
                              held'[b] = d /\ (inner[b] = "send" => Empty(d)')
      BY <1>2, <1>3 DEF InnerAlone
    <2>1. CASE b = a
      <3>1. outcome[a] # "ok" /\ held[a] \notin open'
        BY <2>1, <1>1 DEF InnerAlone
      <3>2. line[b] \notin open'
        BY <2>1, <3>1, <1>1 DEF InnerAlone
      <3> QED
        BY <2>1, <3>2, <1>2 DEF InnerAlone, Types
    <2>2. CASE b # a
      BY <2>2, <1>1, <1>2, <1>3 DEF InnerAlone, Types, Owners
    <2> QED
      BY <2>1, <2>2
  <1>9. OkIsOver'
    <2> SUFFICES ASSUME NEW b \in Attempts, NEW d \in Conns, held'[b] = d,
                        outcome'[b] = "ok" \/ (answer'[b] # <<>> /\ Head(answer'[b]).kind = "ok")
                 PROVE  Empty(d)'
      BY DEF OkIsOver
    <2>1. b # a
      BY <1>2 DEF Types
    <2>2. held'[b] = held[b] /\ outcome'[b] = outcome[b] /\ answer'[b] = answer[b]
      BY <2>1, <1>1, <1>2 DEF Owners, Types
    <2> QED
      BY <2>2, <1>3 DEF OkIsOver
  <1>10. IdleEmpty'
    <2> SUFFICES ASSUME NEW d \in Conns, Pool!Pooled(d)' PROVE Empty(d)'
      BY DEF IdleEmpty
    <2>1. CASE Pool!Pooled(d)
      BY <2>1, <1>3 DEF IdleEmpty
    <2>2. CASE d = held[a] /\ outcome[a] = "ok"
      BY <2>2, <1>3 DEF OkIsOver
    <2> QED
      BY <2>1, <2>2, <1>1
  <1> QED
    BY <1>4, <1>5, <1>6, <1>7, <1>8, <1>9, <1>10

-----------------------------------------------------------------------------
(* The first element of an empty channel.                                  *)
LEMMA FirstIn ==
    ASSUME NEW S, NEW s \in Seq(S), s = <<>>, NEW x \in S
    PROVE  \E q \in Seq(S) : q = Append(s, x) /\ Len(q) = 1 /\ q # <<>> /\ Head(q) = x
  <1>1. Append(s, x) \in Seq(S) /\ Len(Append(s, x)) = 1 /\ Append(s, x)[1] = x
    OBVIOUS
  <1>2. Append(s, x) # <<>> /\ Head(Append(s, x)) = x
    BY <1>1
  <1> QED
    BY <1>1, <1>2

(* One connection changes, and carries one exchange at most afterwards.    *)
LEMMA OneChanged ==
    ASSUME OneExchange, NEW c \in Conns,
           \A d \in Conns : d # c => c2s'[d] = c2s[d] /\ s2c'[d] = s2c[d] /\ job'[d] = job[d],
           Len(c2s'[c]) <= 1, Len(s2c'[c]) <= 1,
           c2s'[c] # <<>> => s2c'[c] = <<>> /\ job'[c] = Nobody,
           job'[c] # Nobody => s2c'[c] = <<>>
    PROVE  OneExchange'
  BY DEF OneExchange

(* The inner goroutine tells how the exchange ended, and ends.             *)
LEMMA DeliverQuiet ==
    ASSUME Owners, Quiet, NEW a \in Attempts, NEW r \in Responses, Busy(a), Deliver(a, r),
           c2s' = c2s, s2c' \in [Conns -> Seq(Responses)], OneExchange',
           \A d \in Conns : Empty(d) => Empty(d)',
           \A d \in Conns : held[a] = d /\ r.kind = "ok" => Empty(d)'
    PROVE  Quiet'
  <1> USE DEF Quiet
  <1>1. /\ inner' = [inner EXCEPT ![a] = "done"]
        /\ line' = [line EXCEPT ![a] = NoConn]
        /\ \/ answer' = answer
           \/ answer' = [answer EXCEPT ![a] = Append(<<>>, r)]
        /\ UNCHANGED <<conns, open, stage, held, phase, try, task, outcome, serving, job>>
    BY DEF Deliver, poolVars, callVars, taskVars, serverVars, linkVars, InnerAlone
  <1>2. /\ Append(<<>>, r) \in Seq(Responses)
        /\ Append(<<>>, r) # <<>> /\ Head(Append(<<>>, r)) = r
    OBVIOUS
  <1>3. Types'
    BY <1>1, <1>2 DEF Types
  <1>4. Unstarted'
    BY <1>1 DEF Unstarted
  <1>5. Stages'
    <2>1. inner[a] # "none"
      BY DEF Busy
    <2> QED
      BY <2>1, <1>1 DEF Stages, Types
  <1>6. Left'
    BY <1>1 DEF Left
  <1>7. InnerAlone'
    <2> SUFFICES ASSUME NEW b \in Attempts, Busy(b)'
                 PROVE  /\ line'[b] \in Conns
                        /\ answer'[b] = <<>> /\ outcome'[b] # "ok"
                        /\ \A d \in open' : line'[b] = d =>
                              held'[b] = d /\ (inner'[b] = "send" => Empty(d)')
      BY DEF InnerAlone
    <2>1. b # a
      BY <1>1 DEF Busy, Types
    <2>2. /\ Busy(b) /\ line'[b] = line[b] /\ answer'[b] = answer[b] /\ inner'[b] = inner[b]
      BY <2>1, <1>1 DEF Busy, Types
    <2>3. \A d \in open : d \in Conns
      BY DEF Owners
    <2> QED
      BY <2>2, <2>3, <1>1 DEF InnerAlone
  <1>8. OkIsOver'
    <2> SUFFICES ASSUME NEW b \in Attempts, NEW d \in Conns, held[b] = d,
                        outcome[b] = "ok" \/ (answer'[b] # <<>> /\ Head(answer'[b]).kind = "ok")
                 PROVE  Empty(d)'
      BY <1>1 DEF OkIsOver
    <2>1. CASE answer'[b] = answer[b] \/ outcome[b] = "ok"
      BY <2>1 DEF OkIsOver
    <2>2. CASE answer'[b] # answer[b] /\ outcome[b] # "ok"
      <3>1. b = a /\ answer'[b] = Append(<<>>, r)
        BY <2>2, <1>1 DEF Types
      <3> QED
        BY <2>2, <3>1, <1>2
    <2> QED
      BY <2>1, <2>2
  <1>9. IdleEmpty'
    BY <1>1, SamePooled DEF IdleEmpty
  <1> QED
    BY <1>3, <1>4, <1>5, <1>6, <1>7, <1>8, <1>9

(* The request goes out on an empty connection.                            *)
LEMMA InnerSendQuiet ==
    ASSUME Owners, Quiet, NEW a \in Attempts, InnerSend(a)
    PROVE  Quiet'
  <1> USE DEF Quiet
  <1>1. PICK c \in Conns : c = line[a]
    BY DEF InnerSend, InnerAlone, Busy
  <1>2. /\ inner[a] = "send" /\ inner' = [inner EXCEPT ![a] = "sent"]
        /\ c \in open
        /\ UNCHANGED <<conns, open, stage, held, phase, try, task, outcome, line,
                       answer, serving, job, s2c>>
    BY <1>1 DEF InnerSend, poolVars, callVars, taskVars, serverVars, linkVars
  <1>3. Busy(a) /\ held[a] = c /\ Empty(c) /\ answer[a] = <<>> /\ outcome[a] # "ok"
    BY <1>1, <1>2 DEF Busy, InnerAlone
  <1>4. PICK q \in Seq(Attempts) : q = Append(c2s[c], a) /\ Len(q) = 1
    BY <1>3, FirstIn DEF Empty, Types
  <1>14. \/ c2s' = c2s
         \/ c \in serving /\ c2s' = [c2s EXCEPT ![c] = q]
    <2>0. c \in Linked => c \in serving
      BY DEF Linked
    <2>1. c2s' = IF c \in Linked THEN [c2s EXCEPT ![c] = Append(c2s[c], a)] ELSE c2s
      BY <1>1 DEF InnerSend
    <2> QED
      BY <1>4, <2>0, <2>1, Zenon
  <1>5. Types'
    BY <1>2, <1>14 DEF Types
  <1>6. Unstarted'
    BY <1>2 DEF Unstarted
  <1>7. Stages'
    BY <1>2 DEF Stages, Types
  <1>8. OneExchange' /\ Left'
    <2>1. /\ s2c[c] = <<>> /\ job[c] = Nobody /\ c2s[c] = <<>>
          /\ \A d \in Conns : d # c => c2s'[d] = c2s[d]
          /\ c2s'[c] = <<>> \/ c2s'[c] = q
      BY <1>3, <1>14 DEF Empty, Types
    <2>2. Len(c2s'[c]) <= 1 /\ Len(s2c[c]) <= 1
      <3>1. Len(c2s[c]) <= 1 /\ Len(s2c[c]) <= 1 /\ Len(q) <= 1
        BY <1>4 DEF OneExchange
      <3>2. c2s'[c] = c2s[c] \/ c2s'[c] = q
        BY <2>1
      <3> QED
        BY <3>1, <3>2
    <2>3. OneExchange'
      BY <2>1, <2>2, <1>2, OneChanged
    <2> QED
      BY <2>1, <2>3, <1>2, <1>14 DEF Left
  <1>9. \A d \in Conns : d # c => Empty(d)' = Empty(d)
    BY <1>2, <1>14 DEF Empty, Types
  <1>10. \A b \in Attempts : b # a => held[b] # c
    BY <1>3 DEF Owners
  <1>11. InnerAlone'
    <2> SUFFICES ASSUME NEW b \in Attempts, Busy(b)'
                 PROVE  /\ line[b] \in Conns
                        /\ answer[b] = <<>> /\ outcome[b] # "ok"
                        /\ \A d \in open : line[b] = d =>
                              held[b] = d /\ (inner'[b] = "send" => Empty(d)')
      BY <1>2 DEF InnerAlone
    <2>1. CASE b = a
      BY <2>1, <1>1, <1>2, <1>3 DEF Types
    <2>2. CASE b # a
      <3>1. Busy(b) /\ inner'[b] = inner[b]
        BY <2>2, <1>2 DEF Busy, Types
      <3>2. \A d \in open : line[b] = d => held[b] = d /\ d \in Conns /\ d # c
        BY <2>2, <3>1, <1>10 DEF InnerAlone, Owners
      <3> QED
        BY <3>1, <3>2, <1>9 DEF InnerAlone
    <2> QED
      BY <2>1, <2>2
  <1>12. OkIsOver'
    BY <1>2, <1>3, <1>9, <1>10 DEF OkIsOver
  <1>13. IdleEmpty'
    <2>1. ~Pool!Pooled(c)
      BY <1>3 DEF Owners
    <2> QED
      BY <2>1, <1>2, <1>9, SamePooled DEF IdleEmpty
  <1> QED
    BY <1>5, <1>6, <1>7, <1>8, <1>11, <1>12, <1>13

(* The steps of the inner goroutine together.                              *)
LEMMA InnerQuiet ==
    ASSUME Owners, Quiet, NEW a \in Attempts, InnerStep(a)
    PROVE  Quiet'
  <1> USE DEF Quiet
  <1>1. Response(a, "internal") \in Responses /\ Response(a, "internal").kind = "internal"
    BY DEF Response, Responses, Kinds
  <1>2. ASSUME Busy(a), Deliver(a, Response(a, "internal")), UNCHANGED wireVars
        PROVE  Quiet'
    <2>1. c2s' = c2s /\ s2c' = s2c /\ job' = job
      BY <1>2 DEF wireVars, Deliver, serverVars, linkVars
    <2>2. \A d \in Conns : Empty(d) => Empty(d)'
      BY <2>1 DEF Empty
    <2>3. OneExchange' /\ s2c' \in [Conns -> Seq(Responses)]
      BY <2>1 DEF OneExchange, Types
    <2> QED
      BY <1>1, <1>2, <2>1, <2>2, <2>3, DeliverQuiet
  <1>3. CASE InnerSend(a)
    BY <1>3, InnerSendQuiet
  <1>4. CASE InnerSendError(a)
    BY <1>2, <1>4 DEF InnerSendError, Busy
  <1>5. CASE InnerRecvBegin(a)
    <2>1. CASE task[a] # "calling"
      BY <1>2, <1>5, <2>1 DEF InnerRecvBegin, Busy
    <2>2. CASE task[a] = "calling"
      <3>1. /\ inner[a] = "sent" /\ inner' = [inner EXCEPT ![a] = "recv"]
            /\ UNCHANGED <<conns, open, stage, held, phase, try, task, outcome, line,
                           answer, serving, job, c2s, s2c>>
        BY <1>5, <2>2 DEF InnerRecvBegin, poolVars, callVars, taskVars, serverVars, linkVars, wireVars
      <3>2. /\ \A d \in Conns : Empty(d)' = Empty(d)
            /\ \A b \in Attempts : Busy(b)' = Busy(b)
        BY <3>1 DEF Empty, Busy, Types
      <3>3. Types' /\ Unstarted' /\ Stages'
        BY <3>1 DEF Types, Unstarted, Stages
      <3>4. OneExchange' /\ Left' /\ OkIsOver'
        BY <3>1, <3>2 DEF OneExchange, Left, OkIsOver
      <3>5. InnerAlone'
        BY <3>1, <3>2 DEF InnerAlone, Types, Owners
      <3>6. IdleEmpty'
        BY <3>1, <3>2, SamePooled DEF IdleEmpty
      <3> QED
        BY <3>3, <3>4, <3>5, <3>6
    <2> QED
      BY <2>1, <2>2
  <1>6. CASE InnerRecv(a)
    <2>1. PICK c \in Conns : c = line[a]
      BY <1>6 DEF InnerRecv, InnerAlone, Busy
    <2>2. /\ Busy(a) /\ c \in open /\ s2c[c] # <<>> /\ held[a] = c
          /\ Deliver(a, Head(s2c[c])) /\ c2s' = c2s /\ job' = job
          /\ s2c' = [s2c EXCEPT ![c] = Tail(s2c[c])]
      BY <1>6, <2>1 DEF InnerRecv, Busy, Deliver, serverVars, linkVars, InnerAlone
    <2>3. s2c[c] \in Seq(Responses) /\ Len(s2c[c]) <= 1
      BY DEF Types, OneExchange
    <2>4. Head(s2c[c]) \in Responses /\ Tail(s2c[c]) = <<>>
      BY <2>2, <2>3
    <2>5. Empty(c)' /\ \A d \in Conns : Empty(d) => Empty(d)'
      BY <2>2, <2>4 DEF Empty, Types, OneExchange
    <2>6. OneExchange' /\ s2c' \in [Conns -> Seq(Responses)]
      BY <2>2, <2>4 DEF OneExchange, Types
    <2> QED
      BY <2>2, <2>4, <2>5, <2>6, DeliverQuiet
  <1>7. CASE InnerRecvError(a)
    BY <1>2, <1>7 DEF InnerRecvError, Busy
  <1> QED
    BY <1>3, <1>4, <1>5, <1>6, <1>7 DEF InnerStep

-----------------------------------------------------------------------------
(* The server moves an exchange along and never begins one.                *)
LEMMA ServerMove ==
    ASSUME Owners, Quiet, UNCHANGED serverFrame,
           serving' \subseteq serving,
           job' \in [Conns -> Attempts \cup {Nobody}],
           c2s' \in [Conns -> Seq(Attempts)],
           s2c' \in [Conns -> Seq(Responses)],
           OneExchange', Left',
           \A d \in Conns : Empty(d) => Empty(d)'
    PROVE  Quiet'
  <1> USE DEF Quiet
  <1>1. UNCHANGED <<conns, open, stage, held, phase, try, task, outcome, inner, line, answer>>
    BY DEF serverFrame, poolVars, callVars, taskVars, innerVars
  <1>2. Types'
    BY <1>1 DEF Types
  <1>3. Unstarted' /\ Stages'
    BY <1>1 DEF Unstarted, Stages
  <1>4. \A b \in Attempts : Busy(b)' = Busy(b)
    BY <1>1 DEF Busy
  <1>5. InnerAlone'
    BY <1>1, <1>4 DEF InnerAlone, Owners
  <1>6. OkIsOver'
    BY <1>1 DEF OkIsOver
  <1>7. IdleEmpty'
    BY <1>1, SamePooled DEF IdleEmpty
  <1> QED
    BY <1>2, <1>3, <1>5, <1>6, <1>7

(* ServeConn and the handlers keep one exchange on a connection.           *)
LEMMA ServerQuiet ==
    ASSUME Owners, Quiet, NEW c \in Conns, ServerStep(c)
    PROVE  Quiet'
  <1> USE NobodyAssumption DEF Quiet
  <1>0. /\ c2s[c] \in Seq(Attempts) /\ s2c[c] \in Seq(Responses)
        /\ job \in [Conns -> Attempts \cup {Nobody}]
        /\ c2s \in [Conns -> Seq(Attempts)] /\ s2c \in [Conns -> Seq(Responses)]
    BY DEF Types
  <1>1. CASE Serve(c)
    <2>1. /\ c \in serving /\ job[c] = Nobody /\ c2s[c] # <<>>
          /\ job' = [job EXCEPT ![c] = Head(c2s[c])]
          /\ c2s' = [c2s EXCEPT ![c] = Tail(c2s[c])]
          /\ UNCHANGED <<serverFrame, serving, s2c>>
      BY <1>1 DEF Serve
    <2>2. Head(c2s[c]) \in Attempts /\ Tail(c2s[c]) = <<>>
      <3>1. Len(c2s[c]) <= 1
        BY DEF OneExchange
      <3> QED
        BY <3>1, <2>1, <1>0
    <2>3. OneExchange' /\ Left'
      BY <1>0, <2>1, <2>2 DEF OneExchange, Left
    <2>4. \A d \in Conns : Empty(d) => Empty(d)'
      BY <1>0, <2>1 DEF Empty
    <2> QED
      BY <1>0, <2>1, <2>2, <2>3, <2>4, ServerMove
  <1>2. ASSUME NEW kind \in Kinds, EndJob(c, kind), Respond(c, kind) \/ s2c' = s2c,
               \/ serving' = serving /\ c2s' = c2s
               \/ serving' = serving \ {c} /\ c2s' = [c2s EXCEPT ![c] = <<>>]
        PROVE  Quiet'
    <2>1. /\ c \in serving /\ job[c] # Nobody /\ job[c] \in Attempts
          /\ job' = [job EXCEPT ![c] = Nobody] /\ UNCHANGED serverFrame
      BY <1>0, <1>2 DEF EndJob
    <2>2. c2s[c] = <<>> /\ s2c[c] = <<>>
      BY <2>1 DEF OneExchange
    <2>3. PICK r \in Responses : r = Response(job[c], kind)
      BY <2>1 DEF Response, Responses
    <2>4. PICK q \in Seq(Responses) : q = Append(s2c[c], r) /\ Len(q) = 1
      BY <2>2, <1>0, FirstIn
    <2>5. /\ s2c' = s2c \/ s2c' = [s2c EXCEPT ![c] = q]
          /\ \/ serving' = serving /\ c2s' = c2s
             \/ serving' = serving \ {c} /\ c2s' = [c2s EXCEPT ![c] = <<>>]
      BY <1>2, <2>3, <2>4 DEF Respond
    <2>6. s2c' \in [Conns -> Seq(Responses)] /\ c2s' \in [Conns -> Seq(Attempts)]
      <3>1. <<>> \in Seq(Attempts)
        OBVIOUS
      <3> QED
        BY <3>1, <1>0, <2>5
    <2>7. OneExchange' /\ Left'
      <3>1. /\ c2s'[c] = <<>> /\ job'[c] = Nobody
            /\ s2c'[c] = <<>> \/ s2c'[c] = q
            /\ \A d \in Conns : d # c => c2s'[d] = c2s[d] /\ s2c'[d] = s2c[d] /\ job'[d] = job[d]
        BY <1>0, <2>1, <2>2, <2>5
      <3>2. Len(c2s'[c]) <= 1 /\ Len(s2c'[c]) <= 1
        BY <3>1, <2>4
      <3>3. OneExchange'
        BY <3>1, <3>2, OneChanged
      <3> QED
        BY <3>1, <3>3, <2>5 DEF Left
    <2>8. \A d \in Conns : Empty(d) => Empty(d)'
      BY <1>0, <2>1, <2>5 DEF Empty
    <2> QED
      BY <1>0, <2>1, <2>5, <2>6, <2>7, <2>8, ServerMove
  <1>3. CASE HandlerOk(c)
    BY <1>2, <1>3 DEF HandlerOk, Kinds
  <1>4. ASSUME NEW kind \in {"app", "internal"}, HandlerError(c, kind) PROVE Quiet'
    BY <1>2, <1>4 DEF HandlerError, Kinds
  <1>5. CASE HandlerPanic(c)
    BY <1>2, <1>5 DEF HandlerPanic, Kinds
  <1>6. CASE Hangup(c)
    <2>1. /\ job[c] = Nobody /\ serving' = serving \ {c}
          /\ c2s' = [c2s EXCEPT ![c] = <<>>]
          /\ UNCHANGED <<serverFrame, job, s2c>>
      BY <1>6 DEF Hangup
    <2>2. OneExchange' /\ Left'
      BY <1>0, <2>1 DEF OneExchange, Left
    <2>3. \A d \in Conns : Empty(d) => Empty(d)'
      BY <1>0, <2>1 DEF Empty
    <2> QED
      BY <1>0, <2>1, <2>2, <2>3, ServerMove
  <1> QED
    BY <1>1, <1>3, <1>4, <1>5, <1>6 DEF ServerStep

(* A crash only empties connections.                                       *)
LEMMA CrashQuiet ==
    ASSUME Owners, Quiet, NEW n \in Addrs, NEW unread \in BOOLEAN, Crash(n, unread)
    PROVE  Quiet'
  <1> USE DEF Quiet
  <1>1. /\ serving' = serving \ Of(n)
        /\ job' = [c \in Conns |-> IF c \in Of(n) THEN Nobody ELSE job[c]]
        /\ c2s' = [c \in Conns |-> IF c \in Of(n) THEN <<>> ELSE c2s[c]]
        /\ s2c' = [c \in Conns |-> IF unread /\ c \in Of(n) THEN <<>> ELSE s2c[c]]
        /\ UNCHANGED serverFrame
    BY DEF Crash
  <1>2. /\ job' \in [Conns -> Attempts \cup {Nobody}]
        /\ c2s' \in [Conns -> Seq(Attempts)]
        /\ s2c' \in [Conns -> Seq(Responses)]
    BY <1>1 DEF Types
  <1>3. OneExchange' /\ Left'
    BY <1>1 DEF OneExchange, Left, Types
  <1>4. \A d \in Conns : Empty(d) => Empty(d)'
    BY <1>1 DEF Empty
  <1> QED
    BY <1>1, <1>2, <1>3, <1>4, ServerMove

(* So does a break.                                                        *)
LEMMA BreakQuiet ==
    ASSUME Owners, Quiet, NEW c \in Conns, NEW drop \in BOOLEAN, Break(c, drop)
    PROVE  Quiet'
  <1> USE DEF Quiet
  <1>1. /\ UNCHANGED <<serverFrame, serving, job>>
        /\ c2s' = c2s \/ c2s' = [c2s EXCEPT ![c] = <<>>]
        /\ s2c' = s2c \/ s2c' = [s2c EXCEPT ![c] = <<>>]
    <2>1. CASE drop
      BY <2>1 DEF Break
    <2>2. CASE ~drop
      BY <2>2 DEF Break
    <2> QED
      BY <2>1, <2>2
  <1>2. c2s' \in [Conns -> Seq(Attempts)] /\ s2c' \in [Conns -> Seq(Responses)]
    <2>1. <<>> \in Seq(Attempts) /\ <<>> \in Seq(Responses)
      OBVIOUS
    <2> QED
      BY <1>1, <2>1 DEF Types
  <1>3. OneExchange' /\ Left'
    BY <1>1 DEF OneExchange, Left, Types
  <1>4. \A d \in Conns : Empty(d) => Empty(d)'
    BY <1>1 DEF Empty, Types
  <1> QED
    BY <1>1, <1>2, <1>3, <1>4, ServerMove DEF Types

-----------------------------------------------------------------------------
(* The first invariant is inductive, given the pool's.                     *)
LEMMA NextQuiet ==
    ASSUME PoolFacts, Owners, Owners', Quiet, [Next]_vars PROVE Quiet'
  <1>1. ASSUME UNCHANGED <<conns, stage, phase, try, task, wires>> PROVE Quiet'
    <2>1. Types' /\ Unstarted' /\ Stages'
      BY <1>1 DEF Quiet, Types, Unstarted, Stages, wires
    <2> QED
      BY <1>1, <2>1, WiresSame DEF Quiet
  <1>2. CASE UNCHANGED vars \/ Tick \/ \E n \in Addrs : Restart(n)
    BY <1>1, <1>2 DEF vars, poolVars, callVars, taskVars, innerVars, serverVars, linkVars,
                      wireVars, wires, Tick, Pool!Tick, Restart, serverFrame
  <1>3. ASSUME NEW a \in Attempts, AttemptStep(a) PROVE Quiet'
    BY <1>3, NoNodeQuiet, ReuseQuiet, StartDialQuiet, DialErrorQuiet, SelectQuiet,
       GiveBackQuiet DEF AttemptStep
  <1> QED
    BY <1>2, <1>3, CallQuiet, InnerQuiet, DialOkQuiet, ServerQuiet, CrashQuiet, BreakQuiet
    DEF Next

(* It says what IdleQuiet says.                                            *)
LEMMA QuietImplies == Owners /\ Quiet => IdleQuiet
  BY DEF Owners, Quiet, IdleQuiet, IdleEmpty, InnerAlone, Empty

(* The pool's invariant, read in the terms of this module.                 *)
LEMMA PoolRenamed == Borrowed!PoolInv => PoolFacts
  BY DEF PoolFacts, Borrowed!PoolInv, Borrowed!TypeOK, Pool!TypeOK,
         Borrowed!Exclusive, Pool!Exclusive, Borrowed!PooledOnce, Pool!PooledOnce,
         Borrowed!LentOnce, Pool!LentOnce, Borrowed!NotBoth, Pool!NotBoth,
         Borrowed!Usable, Pool!Usable, Borrowed!Slots, Pool!Slots

(* No response is ever left on an idle connection, and nobody reads one:   *)
(* whoever borrows it next gets the answer to its own request.             *)
THEOREM IdleConnectionsQuiet == Spec => []IdleQuiet
  <1>1. Borrowed!PoolInv => PoolFacts
    BY PoolRenamed
  <1>2. PoolFacts => Owners
    BY PoolOwners
  <1>3. PoolFacts /\ Owners /\ Owners' /\ Quiet /\ [Next]_vars => Quiet'
    BY NextQuiet
  <1> QED
    BY <1>1, <1>2, <1>3, InitQuiet, QuietImplies, PoolSafe, PTL DEF Spec
-----------------------------------------------------------------------------
(* What Truthful, Settled and OneAtATime need besides.                     *)

Told(kind) == kind \in {"ok", "app"}
Running(a) == task[a] \in {"backoff", "calling", "closing"}
(* The second invariant: what Truthful, Settled and OneAtATime need.  A    *)
(* request is with the server when it is the next one on the connection or *)
(* its handler runs.                                                       *)
Asked(a, c) == job[c] = a \/ (c2s[c] # <<>> /\ Head(c2s[c]) = a)

MoreTypes ==
    /\ expired \in [Calls -> BOOLEAN]
    /\ view \in [Calls -> SUBSET Addrs]
    /\ results \in [Calls -> Seq(Kinds)]
    /\ \A k \in Calls : Len(results[k]) <= 1
    /\ reply \in [Calls -> Kinds \cup {"none", "notfound"}]
    /\ \A a \in Attempts : Len(answer[a]) <= 1
    /\ up \in SUBSET Addrs
    /\ ran \in [Attempts -> {"no", "ok", "app", "internal"}]
    /\ cut \in SUBSET Conns /\ lost \in SUBSET Attempts
    /\ crashes \in 0 .. MaxCrashes /\ breaks \in 0 .. MaxBreaks

(* Call has one try running while it waits, and none once it has answered  *)
(* before the deadline; only Call's last result is ever in its channel.    *)
OneTry ==
    /\ \A k \in Calls :
          /\ phase[k] = "idle" => try[k] = 0
          /\ phase[k] # "waiting" => results[k] = <<>>
          /\ phase[k] # "returned" => reply[k] = "none"
    /\ \A k \in Calls, i \in 0 .. Retries :
          Running(<<k, i>>) /\ (phase[k] = "waiting" \/ ~expired[k]) =>
              phase[k] = "waiting" /\ i = try[k] /\ results[k] = <<>>

(* Whatever says ok or app, wherever it is, says what the handler did.     *)
Truth ==
    /\ \A a \in Attempts : Told(outcome[a]) => ran[a] = outcome[a]
    /\ \A a \in Attempts : answer[a] # <<>> /\ Told(Head(answer[a]).kind) =>
          ran[a] = Head(answer[a]).kind
    /\ \A k \in Calls : results[k] # <<>> /\ Told(Head(results[k])) =>
          ran[<<k, try[k]>>] = Head(results[k])
    /\ \A k \in Calls : Told(reply[k]) => ran[<<k, try[k]>>] = reply[k]
    /\ \A c \in Conns : s2c[c] # <<>> /\ Told(Head(s2c[c]).kind) =>
          ran[Head(s2c[c]).for] = Head(s2c[c]).kind

(* What is on a borrowed connection is its borrower's.                     *)
Belongs ==
    \A a \in Attempts, c \in Conns : held[a] = c =>
        /\ \A b \in Attempts : Asked(b, c) => b = a
        /\ s2c[c] # <<>> => Head(s2c[c]).for = a

(* A try asks once, and its handler ends once.                             *)
Once ==
    /\ \A a \in Attempts : inner[a] \in {"none", "send"} => ran[a] = "no"
    /\ \A a \in Attempts, c \in Conns : Asked(a, c) =>
          /\ ran[a] = "no" /\ inner[a] \notin {"none", "send"}
          /\ \A d \in Conns : Asked(a, d) => d = c

(* Before the deadline nothing outlives the wait for it, but requests on   *)
(* connections that have broken.                                           *)
Prompt ==
    \A a \in Attempts : ~expired[a[1]] =>
        /\ Busy(a) => task[a] = "calling" /\ held[a] = line[a]
        /\ \A c \in Conns : Asked(a, c) /\ a \notin lost =>
              Busy(a) /\ line[a] = c /\ c \notin cut

(* A try that closes has an outcome to report.                             *)
OutcomeSet == \A a \in Attempts : task[a] = "closing" => outcome[a] \in Kinds

Honest == OutcomeSet /\ MoreTypes /\ OneTry /\ Truth /\ Belongs /\ Once /\ Prompt

-----------------------------------------------------------------------------
(* A try is a Call and the number of the try.                              *)
LEMMA Whose == \A a \in Attempts :
                 a[1] \in Calls /\ a[2] \in 0 .. Retries /\ a = <<a[1], a[2]>>
  BY DEF Attempts

(* A channel with one element.                                             *)
LEMMA OnlyOne ==
    ASSUME NEW S, NEW s \in Seq(S), s # <<>>, Len(s) <= 1
    PROVE  Head(s) \in S /\ Tail(s) = <<>>
  OBVIOUS

(* At the start nothing has been asked or told.                            *)
LEMMA InitHonest == Init => Honest
  <1> SUFFICES ASSUME Init PROVE Honest
    OBVIOUS
  <1> USE CallAssumption, NobodyAssumption DEF Init, Pool!Init
  <1>1. MoreTypes
    BY DEF MoreTypes
  <1>2. OneTry
    BY DEF OneTry, Running, Attempts
  <1>3. Truth
    BY DEF Truth, Told
  <1>4. \A a \in Attempts, c \in Conns : ~Asked(a, c)
    BY DEF Asked
  <1>5. Belongs /\ Once
    BY <1>4 DEF Belongs, Once
  <1>6. Prompt
    BY <1>4 DEF Prompt, Busy
  <1>7. OutcomeSet
    BY DEF OutcomeSet
  <1> QED
    BY <1>1, <1>2, <1>3, <1>5, <1>6, <1>7 DEF Honest

(* What has been asked depends on the connections alone.                   *)
LEMMA AskedSame ==
    ASSUME UNCHANGED <<job, c2s>>
    PROVE  \A a \in Attempts, c \in Conns : Asked(a, c)' = Asked(a, c)
  BY DEF Asked

(* Steps that move nothing on the connections.                             *)
LEMMA ExchangeSame ==
    ASSUME Belongs, Once, UNCHANGED <<held, job, c2s, s2c, inner, ran>>
    PROVE  Belongs' /\ Once'
  BY AskedSame DEF Belongs, Once

(* Steps that keep the inner goroutines where they are, and end no try     *)
(* that is waited for, keep Prompt.                                        *)
LEMMA PromptSame ==
    ASSUME Prompt, UNCHANGED <<held, job, c2s, inner, line, cut, lost>>,
           \A a \in Attempts : ~expired'[a[1]] => ~expired[a[1]],
           \A a \in Attempts : Busy(a) /\ ~expired[a[1]] => task'[a] = task[a]
    PROVE  Prompt'
  BY AskedSame DEF Prompt, Busy

(* The goroutine of Call returns what the last try reported.               *)
LEMMA CallHonest ==
    ASSUME Quiet, Honest, NEW k \in Calls,
           \/ Deadline(k) \/ CallStep(k)
           \/ \E kind \in {"notfound", "internal", "timeout"} : CallRefused(k, kind)
           \/ \E v \in Views : CallBegin(k, v)
    PROVE  Honest'
  <1> USE CallAssumption DEF Quiet, Honest
  <1>0. UNCHANGED <<held, job, c2s, s2c, inner, line, answer, outcome, ran, up, crashes, cut, lost, breaks>>
    BY DEF Deadline, CallStep, CallTimeout, CallResult, CallRefused, CallBegin,
           poolVars, innerVars, taskVars, serverVars, linkVars, wireVars
  <1>1. Belongs' /\ Once'
    BY <1>0, ExchangeSame
  <1>8. ASSUME \A a \in Attempts : task'[a] = task[a] \/ task'[a] = "backoff"
        PROVE  OutcomeSet'
    BY <1>0, <1>8 DEF OutcomeSet
  <1>2. CASE Deadline(k)
    <2>1. /\ expired' = [expired EXCEPT ![k] = TRUE]
          /\ UNCHANGED <<phase, view, try, results, reply, task>>
      BY <1>2 DEF Deadline, taskVars
    <2>2. MoreTypes' /\ OneTry'
      BY <1>0, <2>1 DEF MoreTypes, OneTry, Running
    <2>3. Truth'
      BY <1>0, <2>1 DEF Truth
    <2>4. Prompt'
      BY <1>0, <2>1, Whose, PromptSame DEF MoreTypes
    <2> QED
      BY <1>1, <1>8, <2>1, <2>2, <2>3, <2>4
  <1>3. ASSUME NEW v \in Views, CallBegin(k, v) PROVE Honest'
    <2>1. /\ phase[k] = "idle" /\ phase' = [phase EXCEPT ![k] = "waiting"]
          /\ view' = [view EXCEPT ![k] = v]
          /\ task' = [task EXCEPT ![<<k, 0>>] = "backoff"]
          /\ UNCHANGED <<expired, try, results, reply>>
      BY <1>3 DEF CallBegin
    <2>2. <<k, 0>> \in Attempts /\ task[<<k, 0>>] = "none"
      BY <2>1 DEF Attempts, Unstarted
    <2>3. MoreTypes' /\ Truth'
      BY <1>0, <2>1 DEF MoreTypes, Truth
    <2>4. OneTry'
      <3>1. ASSUME NEW m \in Calls, NEW i \in 0 .. Retries, Running(<<m, i>>)',
                   phase'[m] = "waiting" \/ ~expired[m]
            PROVE  phase'[m] = "waiting" /\ i = try[m] /\ results[m] = <<>>
        <4>0. <<m, i>> \in Attempts
          BY DEF Attempts
        <4>1. CASE m = k
          <5>1. task[<<k, i>>] = "none"
            BY <2>1, <4>1 DEF Unstarted
          <5>2. i = 0
            BY <2>1, <3>1, <4>1, <5>1 DEF Running, Types
          <5> QED
            BY <2>1, <4>1, <5>2 DEF OneTry, Types
        <4>2. CASE m # k
          <5>1. task'[<<m, i>>] = task[<<m, i>>]
            BY <2>1, <2>2, <4>0, <4>2 DEF Types
          <5>2. Running(<<m, i>>) /\ phase'[m] = phase[m]
            BY <2>1, <3>1, <4>2, <5>1 DEF Running, Types
          <5> QED
            BY <3>1, <5>2 DEF OneTry
        <4> QED
          BY <4>1, <4>2
      <3>2. \A m \in Calls :
              /\ phase'[m] = "idle" => try[m] = 0
              /\ phase'[m] # "waiting" => results[m] = <<>>
              /\ phase'[m] # "returned" => reply[m] = "none"
        BY <2>1 DEF OneTry, Types
      <3> QED
        BY <2>1, <3>1, <3>2 DEF OneTry
    <2>5. Prompt'
      <3>1. ~Busy(<<k, 0>>)
        BY <2>2 DEF Stages, Busy
      <3> QED
        BY <1>0, <2>1, <3>1, PromptSame DEF Types
    <2>6. OutcomeSet'
      BY <1>8, <2>1, <2>2 DEF Types
    <2> QED
      BY <1>1, <2>3, <2>4, <2>5, <2>6
  <1>4. ASSUME NEW kind \in Kinds \cup {"notfound"}, Return(k, kind),
               UNCHANGED <<expired, view, try, task>>,
               Told(kind) => ran[<<k, try[k]>>] = kind,
               ~expired[k] => \A i \in 0 .. Retries : ~Running(<<k, i>>)
        PROVE  Honest'
    <2>1. /\ phase' = [phase EXCEPT ![k] = "returned"]
          /\ reply' = [reply EXCEPT ![k] = kind]
          /\ results' = [results EXCEPT ![k] = <<>>]
      BY <1>4 DEF Return
    <2>2. MoreTypes'
      <3>1. <<>> \in Seq(Kinds) /\ Len(<<>>) <= 1
        OBVIOUS
      <3>2. results' \in [Calls -> Seq(Kinds)]
        BY <2>1, <3>1 DEF MoreTypes
      <3>3. \A m \in Calls : Len(results'[m]) <= 1
        BY <2>1 DEF MoreTypes
      <3> QED
        BY <1>0, <1>4, <2>1, <3>2, <3>3 DEF MoreTypes
    <2>3. Truth'
      BY <1>0, <1>4, <2>1 DEF MoreTypes, Truth
    <2>4. OneTry'
      BY <1>4, <2>1 DEF OneTry, Types, MoreTypes, Running
    <2>5. Prompt'
      BY <1>0, <1>4, PromptSame
    <2> QED
      BY <1>1, <1>4, <1>8, <2>2, <2>3, <2>4, <2>5
  <1>5. ASSUME NEW kind \in {"notfound", "internal", "timeout"}, CallRefused(k, kind) PROVE Honest'
    <2>1. \A i \in 0 .. Retries : ~Running(<<k, i>>)
      BY <1>5 DEF CallRefused, Unstarted, Running
    <2> QED
      BY <1>4, <1>5, <2>1 DEF CallRefused, Kinds, Told, taskVars
  <1>6. CASE CallTimeout(k)
    BY <1>4, <1>6 DEF CallTimeout, Kinds, Told, taskVars
  <1>7. CASE CallResult(k)
    <2>1. /\ phase[k] = "waiting" /\ results[k] # <<>> /\ UNCHANGED <<expired, view>>
          /\ Head(results[k]) \in Kinds /\ Tail(results[k]) = <<>>
      BY <1>7, OnlyOne DEF CallResult, MoreTypes
    <2>2. \A i \in 0 .. Retries : ~Running(<<k, i>>)
      BY <2>1 DEF OneTry
    <2>3. CASE Retryable(Head(results[k])) /\ MoreTries(k)
      <3>1. /\ results' = [results EXCEPT ![k] = <<>>]
            /\ try' = [try EXCEPT ![k] = try[k] + 1]
            /\ task' = [task EXCEPT ![<<k, try[k] + 1>>] = "backoff"]
            /\ UNCHANGED <<phase, reply>>
        BY <1>7, <2>1, <2>3 DEF CallResult
      <3>2. /\ try[k] \in Nat /\ try[k] + 1 \in 0 .. Retries
            /\ <<k, try[k] + 1>> \in Attempts
            /\ task[<<k, try[k] + 1>>] = "none"
        <4>1. try[k] \in 0 .. Retries /\ try[k] + 1 \in 0 .. Retries
          BY <2>3 DEF MoreTries, Types
        <4>2. try[k] + 1 > try[k]
          BY <4>1
        <4> QED
          BY <4>1, <4>2 DEF Attempts, Unstarted
      <3>3. MoreTypes'
        <4>1. <<>> \in Seq(Kinds)
          OBVIOUS
        <4>2. results' \in [Calls -> Seq(Kinds)]
          BY <3>1, <4>1 DEF MoreTypes
        <4>3. \A m \in Calls : Len(results'[m]) <= 1
          BY <3>1 DEF MoreTypes
        <4> QED
          BY <1>0, <2>1, <3>1, <4>2, <4>3 DEF MoreTypes
      <3>4. Truth'
        <4>1. reply[k] = "none" /\ ~Told("none")
          BY <2>1 DEF OneTry, Told
        <4> QED
          BY <1>0, <3>1, <4>1 DEF MoreTypes, Truth, Types
      <3>5. OneTry'
        <4>1. ASSUME NEW m \in Calls, NEW i \in 0 .. Retries, Running(<<m, i>>)',
                     phase[m] = "waiting" \/ ~expired[m]
              PROVE  phase[m] = "waiting" /\ i = try'[m] /\ results'[m] = <<>>
          <5>0. <<m, i>> \in Attempts
            BY DEF Attempts
          <5>1. CASE m = k
            <6>1. i = try[k] + 1
              BY <2>2, <3>1, <3>2, <4>1, <5>0, <5>1 DEF Running, Types
            <6> QED
              BY <2>1, <3>1, <5>1, <6>1 DEF Types, MoreTypes
          <5>2. CASE m # k
            <6>1. Running(<<m, i>>) /\ try'[m] = try[m] /\ results'[m] = results[m]
              BY <3>1, <3>2, <4>1, <5>0, <5>2 DEF Running, Types, MoreTypes
            <6> QED
              BY <4>1, <6>1 DEF OneTry
          <5> QED
            BY <5>1, <5>2
        <4>2. \A m \in Calls :
                /\ phase[m] = "idle" => try'[m] = 0
                /\ phase[m] # "waiting" => results'[m] = <<>>
                /\ phase[m] # "returned" => reply[m] = "none"
          BY <2>1, <3>1 DEF OneTry, Types, MoreTypes
        <4> QED
          BY <2>1, <3>1, <4>1, <4>2 DEF OneTry
      <3>6. Prompt'
        <4>1. ~Busy(<<k, try[k] + 1>>)
          BY <3>2 DEF Stages, Busy
        <4> QED
          BY <1>0, <2>1, <3>1, <3>2, <4>1, PromptSame DEF Types
      <3>7. OutcomeSet'
        BY <1>8, <3>1, <3>2 DEF Types
      <3> QED
        BY <1>1, <3>3, <3>4, <3>5, <3>6, <3>7
    <2>4. CASE ~(Retryable(Head(results[k])) /\ MoreTries(k))
      <3>1. Return(k, Head(results[k])) /\ UNCHANGED <<try, task>>
        BY <1>7, <2>4 DEF CallResult
      <3>2. Told(Head(results[k])) => ran[<<k, try[k]>>] = Head(results[k])
        BY <2>1 DEF Truth
      <3> QED
        BY <1>4, <2>1, <2>2, <3>1, <3>2
    <2> QED
      BY <2>3, <2>4
  <1> QED
    BY <1>2, <1>3, <1>5, <1>6, <1>7 DEF CallStep

-----------------------------------------------------------------------------
(* A try ends with its answer in Call's channel, if Call still waits.      *)
LEMMA FinishHonest ==
    ASSUME Types, Unstarted, MoreTypes, OneTry, Truth,
           NEW a \in Attempts, NEW kind \in Kinds, Running(a), Finish(a, kind),
           Told(kind) => ran[a] = kind,
           UNCHANGED <<phase, expired, view, try, reply, ran>>
    PROVE  /\ results' \in [Calls -> Seq(Kinds)]
           /\ \A k \in Calls : Len(results'[k]) <= 1
           /\ OneTry'
           /\ \A k \in Calls : results'[k] # <<>> /\ Told(Head(results'[k])) =>
                 ran[<<k, try[k]>>] = Head(results'[k])
  <1> PICK k \in Calls, i \in 0 .. Retries : a = <<k, i>> /\ a[1] = k
    BY Whose
  <1>1. /\ phase[k] # "idle"
        /\ task' = [task EXCEPT ![a] = "done"]
        /\ \A b \in Attempts : Running(b)' => b # a /\ Running(b)
    BY DEF Finish, Unstarted, Running, Types
  <1>2. CASE phase[k] = "returned"
    <2>1. results' = results
      BY <1>2 DEF Finish
    <2>2. OneTry'
      BY <1>1, <2>1 DEF OneTry, Attempts
    <2> QED
      BY <2>1, <2>2 DEF MoreTypes, Truth
  <1>3. CASE phase[k] = "waiting"
    <2>1. i = try[k] /\ results[k] = <<>>
      BY <1>3 DEF OneTry
    <2>2. PICK q \in Seq(Kinds) : q = Append(results[k], kind) /\ Len(q) = 1 /\ Head(q) = kind
      BY <2>1, FirstIn DEF MoreTypes
    <2>3. results' = [results EXCEPT ![k] = q]
      <3>1. results' = [results EXCEPT ![k] = Append(results[k], kind)]
        BY <1>3 DEF Finish
      <3> QED
        BY <2>2, <3>1, Zenon
    <2>4. OneTry'
      <3>1. ASSUME NEW m \in Calls, NEW j \in 0 .. Retries, Running(<<m, j>>)',
                   phase[m] = "waiting" \/ ~expired[m]
            PROVE  phase[m] = "waiting" /\ j = try[m] /\ results'[m] = <<>>
        <4>1. <<m, j>> \in Attempts /\ Running(<<m, j>>) /\ <<m, j>> # <<k, i>>
          BY <1>1, <3>1 DEF Attempts
        <4>2. m # k
          BY <1>3, <2>1, <3>1, <4>1 DEF OneTry
        <4> QED
          BY <2>3, <3>1, <4>1, <4>2 DEF OneTry, MoreTypes
      <3>2. \A m \in Calls :
              /\ phase[m] = "idle" => try[m] = 0
              /\ phase[m] # "waiting" => results'[m] = <<>>
              /\ phase[m] # "returned" => reply[m] = "none"
        BY <1>3, <2>3 DEF OneTry, MoreTypes
      <3> QED
        BY <3>1, <3>2 DEF OneTry
    <2>5. \A m \in Calls : Len(results'[m]) <= 1
      BY <2>2, <2>3 DEF MoreTypes
    <2>6. \A m \in Calls : results'[m] # <<>> /\ Told(Head(results'[m])) =>
             ran[<<m, try[m]>>] = Head(results'[m])
      BY <2>1, <2>2, <2>3 DEF MoreTypes, Truth
    <2> QED
      BY <2>2, <2>3, <2>4, <2>5, <2>6 DEF MoreTypes
  <1> QED
    BY <1>1, <1>2, <1>3 DEF Types

(* A try that ends before it has a connection reports no more than an      *)
(* error.                                                                  *)
LEMMA StartHonest ==
    ASSUME Types, OneTry, NEW a \in Attempts, Running(a), Running(a)',
           \A b \in Attempts : b # a => task'[b] = task[b],
           UNCHANGED <<phase, expired, try, results, reply>>
    PROVE  OneTry'
  <1>1. \A b \in Attempts : Running(b)' => Running(b)
    BY DEF Running
  <1> QED
    BY <1>1 DEF OneTry, Attempts

(* The same for a try without a node and for a failed dial.                *)
LEMMA BrokenDialHonest ==
    ASSUME Owners, Quiet, Honest, NEW a \in Attempts, NoNode(a) \/ DialError(a)
    PROVE  Honest'
  <1> USE DEF Quiet, Honest
  <1>1. /\ Finish(a, "internal") /\ Running(a) /\ inner[a] = "none"
        /\ UNCHANGED <<phase, expired, view, try, reply, ran, held, job, c2s, s2c, inner,
                       line, answer, up, crashes, cut, lost, breaks>>
    <2>1. CASE NoNode(a)
      BY <2>1 DEF NoNode, Running, Stages, poolVars, innerVars, serverVars, linkVars, wireVars
    <2>2. CASE DialError(a)
      <3>1. stage[a] = "dialing"
        BY <2>2 DEF DialError, Pool!DialFail
      <3>2. task[a] = "calling" /\ inner[a] = "none"
        BY <3>1 DEF Stages, Types
      <3> QED
        BY <2>2, <3>2 DEF DialError, Pool!DialFail, Running, innerVars, serverVars, linkVars, wireVars
    <2> QED
      BY <2>1, <2>2
  <1>2. "internal" \in Kinds /\ ~Told("internal")
    BY DEF Kinds, Told
  <1>3. /\ results' \in [Calls -> Seq(Kinds)]
        /\ \A k \in Calls : Len(results'[k]) <= 1
        /\ OneTry'
        /\ \A k \in Calls : results'[k] # <<>> /\ Told(Head(results'[k])) =>
              ran[<<k, try[k]>>] = Head(results'[k])
    BY <1>1, <1>2, FinishHonest
  <1>4. MoreTypes'
    BY <1>1, <1>3 DEF MoreTypes
  <1>5. Truth'
    <2>1. \A b \in Attempts : outcome'[b] = outcome[b] \/ ~Told(outcome'[b])
      BY <1>1 DEF Finish, Types, Told
    <2> QED
      BY <1>1, <1>3, <2>1 DEF Truth
  <1>6. Belongs' /\ Once'
    BY <1>1, ExchangeSame
  <1>7. Prompt'
    <2>1. ~Busy(a) /\ task' = [task EXCEPT ![a] = "done"]
      BY <1>1 DEF Busy, Finish
    <2> QED
      BY <1>1, <2>1, PromptSame DEF Types
  <1>8. OutcomeSet'
    BY <1>1 DEF Finish, OutcomeSet, Types
  <1> QED
    BY <1>3, <1>4, <1>5, <1>6, <1>7, <1>8

(* A try that gets a connection finds nothing on it.                       *)
LEMMA LaunchHonest ==
    ASSUME Types, Stages, Honest, NEW a \in Attempts, NEW c \in Conns, Running(a), Launch(a, c),
           held \in [Attempts -> Conns \cup {NoConn}], NoConn \notin Conns,
           held' = [held EXCEPT ![a] = c], \A b \in Attempts : held[b] # c,
           inner[a] = "none", Empty(c)',
           UNCHANGED <<phase, expired, view, try, results, reply, outcome, answer, up, ran, crashes, lost,
                       breaks>>,
           job' = job, cut' \subseteq cut,
           \A d \in Conns : d # c => c2s'[d] = c2s[d] /\ s2c'[d] = s2c[d]
    PROVE  Honest'
  <1> USE DEF Honest
  <1>1. /\ task' = [task EXCEPT ![a] = "calling"]
        /\ inner' = [inner EXCEPT ![a] = "send"]
        /\ line' = [line EXCEPT ![a] = c]
    BY DEF Launch
  <1>2. /\ \A b \in Attempts : ~Asked(b, c)'
        /\ \A b \in Attempts, d \in Conns : Asked(b, d)' => d # c /\ Asked(b, d)
        /\ s2c'[c] = <<>>
    BY NobodyAssumption DEF Empty, Asked
  <1>3. MoreTypes'
    BY DEF MoreTypes
  <1>4. OneTry'
    BY <1>1, StartHonest DEF Types, Running
  <1>5. Truth'
    BY <1>2 DEF Truth
  <1>6. Belongs'
    BY <1>2 DEF Belongs
  <1>7. Once'
    BY <1>1, <1>2 DEF Once, Types
  <1>8. Prompt'
    <2> SUFFICES ASSUME NEW b \in Attempts, ~expired[b[1]]
                 PROVE  /\ Busy(b)' => task'[b] = "calling" /\ held'[b] = line'[b]
                        /\ \A d \in Conns : Asked(b, d)' /\ b \notin lost =>
                              Busy(b)' /\ line'[b] = d /\ d \notin cut'
      BY DEF Prompt
    <2>1. CASE b = a
      <3>1. \A d \in Conns : ~Asked(a, d)
        BY DEF Once
      <3> QED
        BY <2>1, <3>1, <1>1, <1>2 DEF Types
    <2>2. CASE b # a
      <3>1. /\ Busy(b)' = Busy(b) /\ task'[b] = task[b]
            /\ held'[b] = held[b] /\ line'[b] = line[b]
        BY <2>2, <1>1 DEF Busy, Types
      <3> QED
        BY <3>1, <1>2 DEF Prompt
    <2> QED
      BY <2>1, <2>2
  <1>9. OutcomeSet'
    BY <1>1 DEF OutcomeSet, Types
  <1> QED
    BY <1>3, <1>4, <1>5, <1>6, <1>7, <1>8, <1>9

(* A try that reuses a connection finds no old request or response on it.  *)
LEMMA ReuseHonest ==
    ASSUME PoolFacts, Owners, Quiet, Honest, NEW a \in Attempts, NEW n \in Addrs, Reuse(a, n)
    PROVE  Honest'
  <1> USE CallAssumption DEF Quiet
  <1>1. PICK c \in Conns : Pool!Pooled(c) /\ held' = [held EXCEPT ![a] = c]
    BY PooledMove DEF Reuse
  <1>2. /\ Running(a) /\ inner[a] = "none" /\ Launch(a, c)
        /\ UNCHANGED <<phase, expired, view, try, results, reply, outcome, answer, up, ran,
                       crashes, cut, lost, breaks, job, c2s, s2c>>
    BY <1>1 DEF Reuse, Stages, Running, Owners, callVars, serverVars, linkVars, wireVars
  <1>3. Empty(c)' /\ \A b \in Attempts : held[b] # c
    BY <1>1, <1>2 DEF IdleEmpty, Empty, Owners
  <1> QED
    BY <1>1, <1>2, <1>3, LaunchHonest DEF Owners

(* Nor does one that has dialled.                                          *)
LEMMA DialOkHonest ==
    ASSUME Owners, Quiet, Honest, NEW a \in Attempts, NEW c \in Conns, DialOk(a, c)
    PROVE  Honest'
  <1> USE CallAssumption DEF Quiet
  <1>1. /\ c \notin open /\ c \notin serving /\ stage[a] = "dialing"
        /\ held' = [held EXCEPT ![a] = c] /\ Launch(a, c)
        /\ c2s' = [c2s EXCEPT ![c] = <<>>] /\ s2c' = [s2c EXCEPT ![c] = <<>>]
        /\ UNCHANGED <<phase, expired, view, try, results, reply, outcome, answer, up, ran,
                       crashes, lost, breaks, job>>
        /\ cut' \subseteq cut
    BY DEF DialOk, Fresh, Pool!Dial, callVars
  <1>2. Running(a) /\ inner[a] = "none"
    BY <1>1 DEF Stages, Types, Running
  <1>3. /\ Empty(c)' /\ \A b \in Attempts : held[b] # c
        /\ \A d \in Conns : d # c => c2s'[d] = c2s[d] /\ s2c'[d] = s2c[d]
    BY <1>1 DEF Left, Empty, Owners, Types
  <1> QED
    BY <1>1, <1>2, <1>3, LaunchHonest DEF Owners

(* A dial asks nothing.                                                    *)
LEMMA StartDialHonest ==
    ASSUME PoolFacts, Owners, Quiet, Honest, NEW a \in Attempts, NEW n \in Addrs, StartDial(a, n)
    PROVE  Honest'
  <1> USE DEF Quiet, Honest
  <1>1. /\ held' = held /\ Running(a) /\ ~Busy(a)
        /\ task' = [task EXCEPT ![a] = "calling"]
        /\ UNCHANGED <<phase, expired, view, try, results, reply, outcome, inner, line, answer,
                       up, ran, crashes, cut, lost, breaks, job, c2s, s2c>>
    BY MissMove DEF StartDial, Running, Stages, Busy, callVars, innerVars, serverVars, linkVars, wireVars
  <1>2. MoreTypes' /\ Truth'
    BY <1>1 DEF MoreTypes, Truth
  <1>3. OneTry'
    BY <1>1, StartHonest DEF Types, Running
  <1>4. Belongs' /\ Once'
    BY <1>1, ExchangeSame
  <1>5. Prompt'
    BY <1>1, PromptSame DEF Types
  <1>6. OutcomeSet'
    BY <1>1 DEF OutcomeSet, Types
  <1> QED
    BY <1>2, <1>3, <1>4, <1>5, <1>6

(* The outcome of a try is what its inner goroutine told, or the deadline. *)
LEMMA SelectHonest ==
    ASSUME Owners, Quiet, Honest, NEW a \in Attempts, SelectAnswer(a) \/ SelectDeadline(a)
    PROVE  Honest'
  <1> USE DEF Quiet, Honest
  <1>1. /\ Running(a) /\ task' = [task EXCEPT ![a] = "closing"]
        /\ UNCHANGED <<held, phase, expired, view, try, results, reply, inner, line,
                       up, ran, crashes, cut, lost, breaks, job, c2s, s2c>>
        /\ answer' = answer \/ answer' = [answer EXCEPT ![a] = <<>>]
    BY DEF SelectAnswer, SelectDeadline, Running, poolVars, callVars, innerVars, serverVars, linkVars,
           wireVars
  <1>2. MoreTypes'
    <2>1. \A b \in Attempts : answer'[b] = answer[b] \/ Len(answer'[b]) <= 1
      BY <1>1 DEF Types
    <2> QED
      BY <1>1, <2>1 DEF MoreTypes
  <1>3. OneTry'
    BY <1>1, StartHonest DEF Types, Running
  <1>4. Belongs' /\ Once'
    BY <1>1, ExchangeSame
  <1>5. Truth'
    <2>1. \A b \in Attempts : Told(outcome'[b]) => ran[b] = outcome'[b]
      <3>1. CASE SelectAnswer(a)
        <4>1. answer[a] # <<>> /\ outcome' = [outcome EXCEPT ![a] = Head(answer[a]).kind]
          BY <3>1 DEF SelectAnswer
        <4> QED
          BY <4>1 DEF Truth, Types
      <3>2. CASE SelectDeadline(a)
        BY <3>2 DEF SelectDeadline, Truth, Types, Told
      <3> QED
        BY <3>1, <3>2
    <2>2. \A b \in Attempts : answer'[b] # <<>> => answer'[b] = answer[b]
      BY <1>1 DEF Types
    <2> QED
      BY <1>1, <2>1, <2>2 DEF Truth
  <1>6. Prompt'
    <2>1. Busy(a) => expired[a[1]]
      BY DEF SelectAnswer, SelectDeadline, InnerAlone
    <2> QED
      BY <1>1, <2>1, PromptSame DEF Types
  <1>7. OutcomeSet'
    <2>1. outcome'[a] \in Kinds /\ \A b \in Attempts : b # a => outcome'[b] = outcome[b]
      <3>1. CASE SelectAnswer(a)
        <4>1. answer[a] \in Seq(Responses) /\ answer[a] # <<>>
              /\ outcome' = [outcome EXCEPT ![a] = Head(answer[a]).kind]
          BY <3>1 DEF SelectAnswer, Types
        <4>2. Head(answer[a]) \in Responses
          BY <4>1
        <4>3. Head(answer[a]).kind \in Kinds
          BY <4>2 DEF Responses
        <4> QED
          BY <4>1, <4>3 DEF Types
      <3>2. CASE SelectDeadline(a)
        BY <3>2 DEF SelectDeadline, Types, Kinds
      <3> QED
        BY <3>1, <3>2
    <2> QED
      BY <1>1, <2>1 DEF OutcomeSet, Types
  <1> QED
    BY <1>2, <1>3, <1>4, <1>5, <1>6, <1>7

(* A try closes with its answer in Call's channel.                         *)
LEMMA GiveBackHonest ==
    ASSUME PoolFacts, Owners, Quiet, Honest, NEW a \in Attempts, GiveBack(a)
    PROVE  Honest'
  <1> USE CallAssumption DEF Quiet, Honest
  <1>1. held' = [held EXCEPT ![a] = NoConn]
    <2>1. Failed(a) \in BOOLEAN /\ Pool!Release(a, Failed(a))
      BY DEF GiveBack, Failed
    <2> QED
      BY <2>1, ReleaseMove
  <1>2. /\ task[a] = "closing" /\ Running(a) /\ Finish(a, outcome[a])
        /\ task' = [task EXCEPT ![a] = "done"]
        /\ outcome' = [outcome EXCEPT ![a] = "none"]
        /\ answer' = [answer EXCEPT ![a] = <<>>]
        /\ s2c' = [c \in Conns |-> IF c \in open' THEN s2c[c] ELSE <<>>]
        /\ UNCHANGED <<phase, expired, view, try, reply, inner, line, up, ran, crashes, cut, lost, breaks, job, c2s>>
    BY DEF GiveBack, Finish, Running, serverVars, linkVars
  <1>3. outcome[a] \in Kinds
    BY <1>2 DEF OutcomeSet
  <1>4. /\ results' \in [Calls -> Seq(Kinds)]
        /\ \A k \in Calls : Len(results'[k]) <= 1
        /\ OneTry'
        /\ \A k \in Calls : results'[k] # <<>> /\ Told(Head(results'[k])) =>
              ran[<<k, try[k]>>] = Head(results'[k])
    BY <1>2, <1>3, FinishHonest DEF Truth
  <1>5. \A b \in Attempts, c \in Conns : Asked(b, c)' = Asked(b, c)
    BY <1>2, AskedSame
  <1>6. MoreTypes'
    <2>1. \A b \in Attempts : answer'[b] = answer[b] \/ Len(answer'[b]) <= 1
      BY <1>2 DEF Types
    <2> QED
      BY <1>2, <1>4, <2>1 DEF MoreTypes
  <1>7. Truth'
    <2>1. /\ \A b \in Attempts : outcome'[b] = outcome[b] \/ ~Told(outcome'[b])
          /\ \A b \in Attempts : answer'[b] # <<>> => answer'[b] = answer[b]
          /\ \A c \in Conns : s2c'[c] # <<>> => s2c'[c] = s2c[c]
      BY <1>2 DEF Types, Told
    <2> QED
      BY <1>2, <1>4, <2>1 DEF Truth
  <1>8. Belongs'
    <2>1. \A b \in Attempts, c \in Conns : held'[b] = c => held[b] = c
      BY <1>1 DEF Owners
    <2>2. \A c \in Conns : s2c'[c] # <<>> => s2c'[c] = s2c[c]
      BY <1>2
    <2> QED
      BY <1>5, <2>1, <2>2 DEF Belongs
  <1>9. Once'
    BY <1>2, <1>5 DEF Once
  <1>10. Prompt'
    <2>1. ~expired[a[1]] => ~Busy(a)
      BY <1>2 DEF Prompt
    <2>2. \A b \in Attempts : Busy(b)' = Busy(b)
      BY <1>2 DEF Busy
    <2> QED
      BY <1>1, <1>2, <1>5, <2>1, <2>2 DEF Prompt, Types, Owners
  <1>11. OutcomeSet'
    BY <1>2 DEF OutcomeSet, Types
  <1> QED
    BY <1>4, <1>6, <1>7, <1>8, <1>9, <1>10, <1>11

-----------------------------------------------------------------------------
(* The inner goroutine tells its own try what it has read.                 *)
LEMMA DeliverHonest ==
    ASSUME Quiet, Honest, NEW a \in Attempts, NEW r \in Responses, Busy(a), Deliver(a, r),
           c2s' = c2s, \A c \in Conns : s2c'[c] = s2c[c] \/ s2c'[c] = <<>>,
           Told(r.kind) => ran[a] = r.kind,
           ~expired[a[1]] /\ a \notin lost => \A c \in Conns : ~Asked(a, c)
    PROVE  Honest'
  <1> USE DEF Quiet, Honest
  <1>1. /\ inner' = [inner EXCEPT ![a] = "done"]
        /\ line' = [line EXCEPT ![a] = NoConn]
        /\ UNCHANGED <<held, phase, expired, view, try, results, reply, task, outcome, up, ran,
                       crashes, cut, lost, breaks, job>>
    BY DEF Deliver, poolVars, callVars, taskVars, serverVars, linkVars
  <1>2. PICK q \in Seq(Responses) : q = Append(answer[a], r) /\ Len(q) = 1 /\ Head(q) = r
    <2>1. answer[a] \in Seq(Responses) /\ answer[a] = <<>>
      BY DEF InnerAlone, Types
    <2> QED
      BY <2>1, FirstIn
  <1>3. answer' = answer \/ answer' = [answer EXCEPT ![a] = q]
    <2>1. answer' = answer \/ answer' = [answer EXCEPT ![a] = Append(answer[a], r)]
      BY DEF Deliver
    <2> QED
      BY <1>2, <2>1, Zenon
  <1>4. \A b \in Attempts, c \in Conns : Asked(b, c)' = Asked(b, c)
    BY <1>1, AskedSame
  <1>5. MoreTypes'
    <2>1. \A b \in Attempts : answer'[b] = answer[b] \/ Len(answer'[b]) <= 1
      BY <1>2, <1>3 DEF Types
    <2> QED
      BY <1>1, <2>1 DEF MoreTypes
  <1>6. OneTry' /\ OutcomeSet'
    BY <1>1 DEF OneTry, OutcomeSet, Running
  <1>7. Truth'
    <2>1. \A b \in Attempts : answer'[b] # <<>> /\ Told(Head(answer'[b]).kind) =>
             ran[b] = Head(answer'[b]).kind
      <3>1. CASE answer' = answer
        BY <3>1 DEF Truth
      <3>2. CASE answer' = [answer EXCEPT ![a] = q]
        BY <3>2, <1>2 DEF Truth, Types
      <3> QED
        BY <3>1, <3>2, <1>3
    <2> QED
      BY <1>1, <2>1 DEF Truth
  <1>8. Belongs'
    BY <1>1, <1>4 DEF Belongs
  <1>9. Once'
    <2>1. \A b \in Attempts : inner'[b] \in {"none", "send"} => inner[b] \in {"none", "send"}
      BY <1>1 DEF Types
    <2>2. \A b \in Attempts : inner[b] \notin {"none", "send"} => inner'[b] \notin {"none", "send"}
      BY <1>1 DEF Types
    <2> QED
      BY <1>1, <1>4, <2>1, <2>2 DEF Once
  <1>10. Prompt'
    <2>1. ~Busy(a)'
      BY <1>1 DEF Busy, Types
    <2>2. \A b \in Attempts : b # a => Busy(b)' = Busy(b) /\ line'[b] = line[b]
      BY <1>1 DEF Busy, Types
    <2> QED
      BY <1>1, <1>4, <2>1, <2>2 DEF Prompt
  <1> QED
    BY <1>5, <1>6, <1>7, <1>8, <1>9, <1>10

(* A request is sent once, on a connection that carries no other.          *)
LEMMA InnerSendHonest ==
    ASSUME Owners, Quiet, Honest, NEW a \in Attempts, InnerSend(a)
    PROVE  Honest'
  <1> USE NobodyAssumption DEF Quiet, Honest
  <1>1. PICK c \in Conns : c = line[a]
    BY DEF InnerSend, InnerAlone, Busy
  <1>2. /\ inner[a] = "send" /\ inner' = [inner EXCEPT ![a] = "sent"] /\ c \in open
        /\ UNCHANGED <<held, phase, expired, view, try, results, reply, task, outcome, line,
                       answer, up, ran, crashes, cut, lost, breaks, job, s2c>>
    BY <1>1 DEF InnerSend, poolVars, callVars, taskVars, serverVars, linkVars
  <1>3. Busy(a) /\ held[a] = c /\ Empty(c) /\ ran[a] = "no"
    BY <1>1, <1>2 DEF Busy, InnerAlone, Once
  <1>4. PICK q \in Seq(Attempts) : q = Append(c2s[c], a) /\ Head(q) = a
    BY <1>3, FirstIn DEF Empty, Types
  <1>5. c2s' = c2s \/ (c \in Linked /\ c2s' = [c2s EXCEPT ![c] = q])
    <2>1. c2s' = IF c \in Linked THEN [c2s EXCEPT ![c] = Append(c2s[c], a)] ELSE c2s
      BY <1>1 DEF InnerSend
    <2> QED
      BY <1>4, <2>1, Zenon
  <1>6. /\ \A d \in Conns : ~Asked(a, d)
        /\ \A b \in Attempts : ~Asked(b, c)
    BY <1>2, <1>3 DEF Once, Asked, Empty
  <1>7. \A b \in Attempts, d \in Conns : Asked(b, d)' => (b = a /\ d = c) \/ (Asked(b, d) /\ b # a /\ d # c)
    <2> SUFFICES ASSUME NEW b \in Attempts, NEW d \in Conns, Asked(b, d)'
                 PROVE  (b = a /\ d = c) \/ (Asked(b, d) /\ b # a /\ d # c)
      OBVIOUS
    <2>1. CASE d # c
      <3>1. Asked(b, d)
        BY <2>1, <1>2, <1>5 DEF Asked, Types
      <3> QED
        BY <2>1, <3>1, <1>6
    <2>2. CASE d = c
      <3>1. job'[c] = Nobody
        BY <1>2, <1>3 DEF Empty
      <3>2. c2s'[c] # <<>> /\ Head(c2s'[c]) = b
        BY <2>2, <3>1 DEF Asked
      <3>3. c2s'[c] = q
        BY <3>2, <1>3, <1>5 DEF Empty, Types
      <3> QED
        BY <2>2, <3>2, <3>3, <1>4
    <2> QED
      BY <2>1, <2>2
  <1>8. MoreTypes' /\ OneTry' /\ Truth' /\ OutcomeSet'
    <2>1. MoreTypes' /\ Truth'
      BY <1>2 DEF MoreTypes, Truth
    <2>2. OneTry' /\ OutcomeSet'
      BY <1>2 DEF OneTry, OutcomeSet, Running
    <2> QED
      BY <2>1, <2>2
  <1>9. Belongs'
    BY <1>2, <1>3, <1>7 DEF Belongs, Owners
  <1>10. Once'
    BY <1>2, <1>3, <1>7 DEF Once, Types
  <1>11. Prompt'
    <2>1. \A b \in Attempts : Busy(b)' = Busy(b)
      BY <1>2 DEF Busy, Types
    <2>2. Asked(a, c)' => c \notin cut
      BY <1>2, <1>5, <1>6, AskedSame DEF Linked
    <2> QED
      BY <1>1, <1>2, <1>3, <1>7, <2>1, <2>2 DEF Prompt
  <1> QED
    BY <1>8, <1>9, <1>10, <1>11

(* The steps of the inner goroutine together.                              *)
LEMMA InnerHonest ==
    ASSUME Owners, Quiet, Honest, NEW a \in Attempts, InnerStep(a)
    PROVE  Honest'
  <1> USE NobodyAssumption DEF Quiet, Honest
  <1>1. /\ Response(a, "internal") \in Responses
        /\ ~Told(Response(a, "internal").kind)
    BY DEF Response, Responses, Kinds, Told
  <1>2. ASSUME Busy(a), Deliver(a, Response(a, "internal")), UNCHANGED wireVars,
               ~expired[a[1]] /\ a \notin lost => \A c \in Conns : ~Asked(a, c)
        PROVE  Honest'
    BY <1>1, <1>2, DeliverHonest DEF wireVars
  <1>3. CASE InnerSend(a)
    BY <1>3, InnerSendHonest
  <1>4. CASE InnerSendError(a)
    BY <1>2, <1>4 DEF InnerSendError, Busy, Once
  <1>5. CASE InnerRecvBegin(a)
    <2>1. CASE task[a] # "calling"
      BY <1>2, <1>5, <2>1 DEF InnerRecvBegin, Busy, Prompt
    <2>2. CASE task[a] = "calling"
      <3>1. /\ inner[a] = "sent" /\ inner' = [inner EXCEPT ![a] = "recv"]
            /\ UNCHANGED <<held, phase, expired, view, try, results, reply, task, outcome, line,
                           answer, up, ran, crashes, cut, lost, breaks, job, c2s, s2c>>
        BY <1>5, <2>2 DEF InnerRecvBegin, poolVars, callVars, taskVars, serverVars, linkVars, wireVars
      <3>2. \A b \in Attempts, d \in Conns : Asked(b, d)' = Asked(b, d)
        BY <3>1, AskedSame
      <3>3. MoreTypes' /\ OneTry' /\ Truth' /\ OutcomeSet' /\ Belongs'
        BY <3>1, <3>2 DEF MoreTypes, OneTry, Truth, OutcomeSet, Running, Belongs
      <3>4. Once'
        BY <3>1, <3>2 DEF Once, Types
      <3>5. Prompt'
        <4>1. \A b \in Attempts : Busy(b)' = Busy(b)
          BY <3>1 DEF Busy, Types
        <4> QED
          BY <3>1, <3>2, <4>1 DEF Prompt
      <3> QED
        BY <3>3, <3>4, <3>5
    <2> QED
      BY <2>1, <2>2
  <1>6. CASE InnerRecv(a)
    <2>1. PICK c \in Conns : c = line[a]
      BY <1>6 DEF InnerRecv, InnerAlone, Busy
    <2>2. /\ Busy(a) /\ s2c[c] # <<>> /\ held[a] = c
          /\ Deliver(a, Head(s2c[c])) /\ c2s' = c2s
          /\ s2c' = [s2c EXCEPT ![c] = Tail(s2c[c])]
      BY <1>6, <2>1 DEF InnerRecv, Busy, InnerAlone
    <2>3. Head(s2c[c]) \in Responses /\ Tail(s2c[c]) = <<>>
      BY <2>2, OnlyOne DEF Types, OneExchange
    <2>4. Told(Head(s2c[c]).kind) => ran[a] = Head(s2c[c]).kind
      BY <2>2 DEF Belongs, Truth
    <2>5. \A d \in Conns : s2c'[d] = s2c[d] \/ s2c'[d] = <<>>
      BY <2>2, <2>3 DEF Types
    <2>6. ~Asked(a, c)
      BY <2>2 DEF Asked, OneExchange
    <2>7. ~expired[a[1]] /\ a \notin lost => \A d \in Conns : ~Asked(a, d)
      BY <2>1, <2>6 DEF Prompt
    <2> QED
      BY <2>2, <2>3, <2>4, <2>5, <2>7, DeliverHonest
  <1>7. CASE InnerRecvError(a)
    <2>1. Busy(a) /\ line[a] \in Conns
      BY <1>7 DEF InnerRecvError, Busy, InnerAlone
    <2>2. ASSUME ~expired[a[1]], a \notin lost, NEW c \in Conns, Asked(a, c) PROVE FALSE
      <3>1. line[a] = c /\ held[a] = c /\ c \notin cut
        BY <2>1, <2>2 DEF Prompt
      <3>2. c \notin serving
        BY <1>7, <3>1 DEF InnerRecvError, Owners, Linked
      <3> QED
        BY <2>2, <3>2 DEF Left, Asked
    <2> QED
      BY <1>2, <1>7, <2>1, <2>2 DEF InnerRecvError
  <1> QED
    BY <1>3, <1>4, <1>5, <1>6, <1>7 DEF InnerStep

-----------------------------------------------------------------------------
(* A server that loses or forwards what it has tells no lie.               *)
LEMMA ServerLoses ==
    ASSUME Honest, UNCHANGED serverFrame, ran' = ran,
           up' \in SUBSET Addrs, crashes' \in 0 .. MaxCrashes,
           lost \subseteq lost', lost' \subseteq Attempts,
           cut' \subseteq Conns, breaks' \in 0 .. MaxBreaks,
           \A a \in Attempts, c \in cut' \ cut :
              ~expired[a[1]] /\ a \notin lost' => ~Asked(a, c),
           \A a \in Attempts, c \in Conns : Asked(a, c)' => Asked(a, c),
           \A c \in Conns : s2c'[c] = s2c[c] \/ s2c'[c] = <<>>
    PROVE  Honest'
  <1> USE DEF Honest
  <1>1. UNCHANGED <<held, phase, expired, view, try, results, reply, task, outcome, inner, line,
                    answer>>
    BY DEF serverFrame, poolVars, callVars, taskVars, innerVars
  <1>2. MoreTypes' /\ OneTry' /\ Truth' /\ OutcomeSet'
    <2>1. MoreTypes'
      BY <1>1 DEF MoreTypes
    <2>2. OneTry' /\ OutcomeSet'
      BY <1>1 DEF OneTry, OutcomeSet, Running
    <2>3. Truth'
      <3>1. \A c \in Conns : s2c'[c] # <<>> => s2c'[c] = s2c[c]
        OBVIOUS
      <3> QED
        BY <1>1, <3>1 DEF Truth
    <2> QED
      BY <2>1, <2>2, <2>3
  <1>3. Belongs'
    BY <1>1 DEF Belongs
  <1>4. Once'
    BY <1>1 DEF Once
  <1>5. Prompt'
    BY <1>1 DEF Prompt, Busy
  <1> QED
    BY <1>2, <1>3, <1>4, <1>5

(* A handler runs once for a request, and the response says what it did.   *)
LEMMA ServerHonest ==
    ASSUME Owners, Quiet, Honest, NEW c \in Conns, ServerStep(c)
    PROVE  Honest'
  <1> USE NobodyAssumption DEF Quiet, Honest
  <1>1. CASE Serve(c)
    <2>1. /\ job[c] = Nobody /\ c2s[c] # <<>>
          /\ job' = [job EXCEPT ![c] = Head(c2s[c])]
          /\ c2s' = [c2s EXCEPT ![c] = Tail(c2s[c])]
          /\ UNCHANGED <<serverFrame, up, ran, crashes, cut, lost, breaks, s2c>>
      BY <1>1 DEF Serve, linkVars
    <2>2. Tail(c2s[c]) = <<>>
      BY <2>1, OnlyOne DEF Types, OneExchange
    <2>3. \A a \in Attempts, d \in Conns : Asked(a, d)' => Asked(a, d)
      BY <2>1, <2>2 DEF Asked, Types
    <2> QED
      BY <2>1, <2>3, ServerLoses DEF MoreTypes
  <1>2. ASSUME NEW kind \in {"ok", "app", "internal"}, EndJob(c, kind),
               Respond(c, kind) \/ s2c' = s2c,
               c2s' = c2s \/ c2s' = [c2s EXCEPT ![c] = <<>>]
        PROVE  Honest'
    <2>1. PICK b \in Attempts : b = job[c]
      BY <1>2 DEF EndJob, Types
    <2>2. /\ ran' = [ran EXCEPT ![b] = kind] /\ job' = [job EXCEPT ![c] = Nobody]
          /\ UNCHANGED <<held, phase, expired, view, try, results, reply, task, outcome, inner,
                         line, answer, up, crashes, cut, lost, breaks>>
      BY <1>2, <2>1 DEF EndJob, linkVars, serverFrame, poolVars, callVars, taskVars, innerVars
    <2>3. Asked(b, c) /\ ran[b] = "no" /\ inner[b] \notin {"none", "send"}
      BY <2>1 DEF Asked, Once
    <2>4. c2s[c] = <<>> /\ s2c[c] = <<>>
      BY <2>1 DEF OneExchange
    <2>5. PICK r \in Responses : r = Response(b, kind) /\ r.for = b /\ r.kind = kind
      <3>1. kind \in Kinds
        BY DEF Kinds
      <3>2. /\ Response(b, kind) \in Responses
            /\ Response(b, kind).for = b /\ Response(b, kind).kind = kind
        BY <3>1 DEF Response, Responses
      <3> QED
        BY <3>2
    <2>6. PICK q \in Seq(Responses) : q = Append(s2c[c], r) /\ Head(q) = r
      BY <2>4, FirstIn DEF Types
    <2>7. s2c' = s2c \/ s2c' = [s2c EXCEPT ![c] = q]
      BY <1>2, <2>1, <2>5, <2>6 DEF Respond
    <2>8. \A a \in Attempts, d \in Conns : Asked(a, d)' => Asked(a, d) /\ a # b
      <3> SUFFICES ASSUME NEW a \in Attempts, NEW d \in Conns, Asked(a, d)'
                   PROVE  Asked(a, d) /\ a # b
        OBVIOUS
      <3>1. d # c
        BY <1>2, <2>2, <2>4 DEF Asked, Types
      <3>2. Asked(a, d)
        BY <1>2, <2>2, <3>1 DEF Asked, Types
      <3> QED
        BY <2>3, <3>1, <3>2 DEF Once
    <2>9. MoreTypes' /\ OneTry' /\ OutcomeSet'
      BY <2>2 DEF MoreTypes, OneTry, OutcomeSet, Running
    <2>10. Truth'
      <3>1. \A a \in Attempts : ran[a] # "no" => ran'[a] = ran[a]
        BY <2>2, <2>3 DEF MoreTypes
      <3>2. /\ \A a \in Attempts : Told(outcome[a]) => ran'[a] = outcome[a]
            /\ \A a \in Attempts : answer[a] # <<>> /\ Told(Head(answer[a]).kind) =>
                  ran'[a] = Head(answer[a]).kind
        BY <3>1 DEF Truth, Told
      <3>3. /\ \A k \in Calls : results[k] # <<>> /\ Told(Head(results[k])) =>
                  ran'[<<k, try[k]>>] = Head(results[k])
            /\ \A k \in Calls : Told(reply[k]) => ran'[<<k, try[k]>>] = reply[k]
        <4>1. \A k \in Calls : <<k, try[k]>> \in Attempts
          BY DEF Attempts, Types
        <4> QED
          BY <3>1, <4>1 DEF Truth, Told
      <3>4. ASSUME NEW d \in Conns, s2c'[d] # <<>>, Told(Head(s2c'[d]).kind)
            PROVE  ran'[Head(s2c'[d]).for] = Head(s2c'[d]).kind
        <4>1. CASE d = c
          <5>1. s2c'[d] = q
            BY <2>4, <2>7, <3>4, <4>1 DEF Types
          <5> QED
            BY <2>2, <2>5, <2>6, <5>1 DEF MoreTypes
        <4>2. CASE d # c
          <5>1. s2c'[d] = s2c[d]
            BY <2>7, <4>2 DEF Types
          <5>2. Head(s2c[d]) \in Responses
            BY <3>4, <5>1, OnlyOne DEF Types, OneExchange
          <5>3. Head(s2c[d]).for \in Attempts
            BY <5>2 DEF Responses
          <5> QED
            BY <3>1, <3>4, <5>1, <5>3 DEF Truth, Told
        <4> QED
          BY <4>1, <4>2
      <3> QED
        BY <2>2, <3>2, <3>3, <3>4 DEF Truth
    <2>11. Belongs'
      <3> SUFFICES ASSUME NEW a \in Attempts, NEW d \in Conns, held[a] = d
                   PROVE  /\ \A b1 \in Attempts : Asked(b1, d)' => b1 = a
                          /\ s2c'[d] # <<>> => Head(s2c'[d]).for = a
        BY <2>2 DEF Belongs
      <3>1. \A b1 \in Attempts : Asked(b1, d)' => b1 = a
        BY <2>8 DEF Belongs
      <3>2. ASSUME s2c'[d] # <<>> PROVE Head(s2c'[d]).for = a
        <4>1. CASE d = c
          <5>1. b = a
            BY <2>3, <4>1 DEF Belongs
          <5>2. s2c'[d] = q
            BY <2>4, <2>7, <3>2, <4>1 DEF Types
          <5> QED
            BY <2>5, <2>6, <5>1, <5>2
        <4>2. CASE d # c
          BY <2>7, <3>2, <4>2 DEF Types, Belongs
        <4> QED
          BY <4>1, <4>2
      <3> QED
        BY <3>1, <3>2
    <2>12. Once'
      BY <2>2, <2>3, <2>8 DEF Once, MoreTypes
    <2>13. Prompt'
      BY <2>2, <2>8 DEF Prompt, Busy
    <2> QED
      BY <2>9, <2>10, <2>11, <2>12, <2>13
  <1>3. CASE HandlerOk(c)
    BY <1>2, <1>3 DEF HandlerOk
  <1>4. ASSUME NEW kind \in {"app", "internal"}, HandlerError(c, kind) PROVE Honest'
    BY <1>2, <1>4 DEF HandlerError
  <1>5. CASE HandlerPanic(c)
    BY <1>2, <1>5 DEF HandlerPanic
  <1>6. CASE Hangup(c)
    <2>1. /\ c2s' = [c2s EXCEPT ![c] = <<>>]
          /\ UNCHANGED <<serverFrame, up, job, ran, crashes, cut, lost, breaks, s2c>>
      BY <1>6 DEF Hangup, linkVars
    <2>2. \A a \in Attempts, d \in Conns : Asked(a, d)' => Asked(a, d)
      BY <2>1 DEF Asked, Types
    <2> QED
      BY <2>1, <2>2, ServerLoses DEF MoreTypes
  <1> QED
    BY <1>1, <1>3, <1>4, <1>5, <1>6 DEF ServerStep

(* A crash loses requests and responses and makes none up.                 *)
LEMMA CrashHonest ==
    ASSUME Quiet, Honest, NEW n \in Addrs,
           Restart(n) \/ \E unread \in BOOLEAN : Crash(n, unread)
    PROVE  Honest'
  <1> USE NobodyAssumption, CallAssumption DEF Quiet, Honest
  <1>1. CASE Restart(n)
    <2>1. /\ up' = up \cup {n}
          /\ UNCHANGED <<serverFrame, job, ran, crashes, cut, lost, breaks, c2s, s2c>>
      BY <1>1 DEF Restart, linkVars, wireVars
    <2> QED
      BY <2>1, AskedSame, ServerLoses DEF MoreTypes
  <1>2. ASSUME NEW unread \in BOOLEAN, Crash(n, unread) PROVE Honest'
    <2>1. /\ crashes < MaxCrashes /\ crashes' = crashes + 1 /\ up' = up \ {n}
          /\ job' = [c \in Conns |-> IF c \in Of(n) THEN Nobody ELSE job[c]]
          /\ c2s' = [c \in Conns |-> IF c \in Of(n) THEN <<>> ELSE c2s[c]]
          /\ s2c' = [c \in Conns |-> IF unread /\ c \in Of(n) THEN <<>> ELSE s2c[c]]
          /\ UNCHANGED <<serverFrame, ran, cut, lost, breaks>>
      BY <1>2 DEF Crash, linkVars
    <2>2. \A a \in Attempts, d \in Conns : Asked(a, d)' => Asked(a, d)
      BY <2>1 DEF Asked
    <2>3. up' \in SUBSET Addrs /\ crashes' \in 0 .. MaxCrashes
      BY <2>1 DEF MoreTypes
    <2> QED
      BY <2>1, <2>2, <2>3, ServerLoses DEF MoreTypes
  <1> QED
    BY <1>1, <1>2

(* A break loses nothing of a try that does not hold the connection.       *)
LEMMA BreakHonest ==
    ASSUME Quiet, Honest, NEW c \in Conns, NEW drop \in BOOLEAN, Break(c, drop)
    PROVE  Honest'
  <1> USE NobodyAssumption, CallAssumption DEF Quiet, Honest
  <1>1. /\ breaks < MaxBreaks /\ breaks' = breaks + 1 /\ cut' = cut \cup {c}
        /\ lost' = lost \cup {a \in Attempts : held[a] = c}
        /\ UNCHANGED <<serverFrame, up, job, ran, crashes>>
    BY DEF Break
  <1>2. /\ c2s' = c2s \/ c2s' = [c2s EXCEPT ![c] = <<>>]
        /\ s2c' = s2c \/ s2c' = [s2c EXCEPT ![c] = <<>>]
    <2>1. CASE drop
      BY <2>1 DEF Break
    <2>2. CASE ~drop
      BY <2>2 DEF Break
    <2> QED
      BY <2>1, <2>2
  <1>3. \A a \in Attempts, d \in Conns : Asked(a, d)' => Asked(a, d)
    BY <1>1, <1>2 DEF Asked, Types
  <1>4. \A d \in Conns : s2c'[d] = s2c[d] \/ s2c'[d] = <<>>
    BY <1>2 DEF Types
  <1>5. \A a \in Attempts : ~expired[a[1]] /\ a \notin lost' => ~Asked(a, c)
    BY <1>1 DEF Prompt
  <1>6. /\ lost \subseteq lost' /\ lost' \subseteq Attempts /\ cut' \subseteq Conns
        /\ breaks' \in 0 .. MaxBreaks /\ cut' \ cut \subseteq {c}
    BY <1>1 DEF MoreTypes
  <1>7. up' \in SUBSET Addrs /\ crashes' \in 0 .. MaxCrashes
    BY <1>1 DEF MoreTypes
  <1> QED
    BY <1>1, <1>3, <1>4, <1>5, <1>6, <1>7, ServerLoses

-----------------------------------------------------------------------------
(* The second invariant is inductive, given the pool's and the first.      *)
LEMMA NextHonest ==
    ASSUME PoolFacts, Owners, Quiet, Honest, [Next]_vars PROVE Honest'
  <1>1. CASE UNCHANGED vars \/ Tick
    <2>1. UNCHANGED <<held, callVars, taskVars, innerVars, serverVars, wireVars>>
      BY <1>1 DEF vars, poolVars, Tick, Pool!Tick
    <2>2. MoreTypes' /\ OneTry' /\ Truth' /\ OutcomeSet'
      BY <2>1 DEF Honest, MoreTypes, OneTry, Truth, OutcomeSet, Running, callVars, taskVars,
                  innerVars, serverVars, linkVars, wireVars
    <2>3. Belongs' /\ Once' /\ Prompt'
      BY <2>1, ExchangeSame, PromptSame
      DEF Honest, callVars, taskVars, innerVars, serverVars, linkVars, wireVars
    <2> QED
      BY <2>2, <2>3 DEF Honest
  <1>2. ASSUME NEW a \in Attempts, AttemptStep(a) PROVE Honest'
    BY <1>2, BrokenDialHonest, ReuseHonest, StartDialHonest, SelectHonest, GiveBackHonest
    DEF AttemptStep
  <1> QED
    BY <1>1, <1>2, CallHonest, InnerHonest, DialOkHonest, ServerHonest, CrashHonest, BreakHonest
    DEF Next

(* The whole invariant of the composition holds in every reachable state.  *)
LEMMA CallInvariant == Spec => [](Pool!TypeOK /\ Quiet /\ Honest)
  <1>1. Borrowed!PoolInv => PoolFacts
    BY PoolRenamed
  <1>2. PoolFacts => Owners /\ Pool!TypeOK
    BY PoolOwners DEF PoolFacts
  <1>3. PoolFacts /\ Owners /\ Owners' /\ Quiet /\ [Next]_vars => Quiet'
    BY NextQuiet
  <1>4. PoolFacts /\ Owners /\ Quiet /\ Honest /\ [Next]_vars => Honest'
    BY NextHonest
  <1> QED
    BY <1>1, <1>2, <1>3, <1>4, InitQuiet, InitHonest, PoolSafe, PTL DEF Spec

(* Every variable of a call keeps its type and no channel overflows: no    *)
(* goroutine of Call ever blocks on sending its answer.                    *)
THEOREM CallTypes == Spec => []TypeOK
  <1>1. Pool!TypeOK /\ Quiet /\ Honest => TypeOK
    <2> SUFFICES ASSUME Pool!TypeOK, Quiet, Honest PROVE TypeOK
      OBVIOUS
    <2>1. \A k \in Calls : AtMost(Retries + 1, results[k])
      <3> SUFFICES ASSUME NEW k \in Calls PROVE Len(results[k]) <= Retries + 1
        BY DEF AtMost
      <3>1. results[k] \in Seq(Kinds) /\ Len(results[k]) <= 1
        BY DEF Honest, MoreTypes
      <3>2. Len(results[k]) \in Nat
        BY <3>1
      <3> QED
        BY <3>1, <3>2, CallAssumption
    <2>2. \A a \in Attempts : AtMost(1, answer[a])
      BY DEF AtMost, Honest, MoreTypes
    <2> QED
      BY <2>1, <2>2 DEF TypeOK, Quiet, Types, Honest, MoreTypes, Responses
  <1> QED
    BY <1>1, CallInvariant, PTL

(* A Call that reports success or an application error reports what the    *)
(* handler did with the request of its last try, for any number of calls,  *)
(* tries, connections and nodes and whatever is lost, late or cut off.     *)
THEOREM CallsTruthful == Spec => []Truthful
  <1>1. Honest => Truthful
    BY DEF Honest, Truth, Told, Truthful
  <1> QED
    BY <1>1, CallInvariant, PTL

(* A try with anything left of it before the deadline is the one its Call  *)
(* waits for.                                                              *)
LEMMA AliveIsRunning ==
    ASSUME Quiet, Honest, NEW k \in Calls, NEW i \in 0 .. Retries, ~expired[k], Alive(<<k, i>>)
    PROVE  phase[k] = "waiting" /\ i = try[k]
  <1> USE DEF Quiet, Honest
  <1>1. PICK a \in Attempts : a = <<k, i>> /\ a[1] = k
    BY DEF Attempts
  <1>2. Busy(a) => Running(a)
    BY <1>1 DEF Prompt, Running
  <1>3. ASSUME a \notin lost,
               NEW c \in Conns, job[c] = a \/ \E j \in 1 .. Len(c2s[c]) : c2s[c][j] = a
        PROVE  Busy(a)
    <2>1. Asked(a, c)
      <3>1. CASE job[c] = a
        BY <3>1 DEF Asked
      <3>2. CASE job[c] # a
        <4>1. c2s[c] \in Seq(Attempts) /\ Len(c2s[c]) <= 1
          BY DEF Types, OneExchange
        <4>2. Len(c2s[c]) \in Nat
          BY <4>1
        <4>3. PICK j \in 1 .. Len(c2s[c]) : c2s[c][j] = a
          BY <1>3, <3>2
        <4>4. j = 1
          BY <4>1, <4>2, <4>3
        <4>5. c2s[c] # <<>> /\ Head(c2s[c]) = a
          BY <4>1, <4>2, <4>3, <4>4
        <4> QED
          BY <4>5 DEF Asked
      <3> QED
        BY <3>1, <3>2
    <2> QED
      BY <1>1, <1>3, <2>1 DEF Prompt
  <1>4. Running(a)
    <2>1. task[a] \notin {"none", "done"} => Running(a)
      BY DEF Types, Running
    <2> QED
      BY <1>1, <1>2, <1>3, <2>1 DEF Alive, AtClient, AtServer
  <1> QED
    BY <1>1, <1>4 DEF OneTry

(* A Call that returns before its deadline leaves none of its goroutines   *)
(* behind, and no request or handler but those of a try whose connection   *)
(* broke under it.                                                         *)
THEOREM CallsSettled == Spec => []Settled
  <1>1. Quiet /\ Honest => Settled
    BY AliveIsRunning DEF Settled
  <1> QED
    BY <1>1, CallInvariant, PTL

(* Until its deadline a Call has one try alive, at the client and at the   *)
(* servers: a retry overlaps the try before it only in a handler whose     *)
(* connection broke.                                                       *)
THEOREM TriesOneAtATime == Spec => []OneAtATime
  <1>1. Quiet /\ Honest => OneAtATime
    BY AliveIsRunning DEF OneAtATime
  <1> QED
    BY <1>1, CallInvariant, PTL
-----------------------------------------------------------------------------
(* The third invariant: what CallPromise and NobodyStuck need besides.     *)

(* A timeout is only reported when the deadline has passed.                *)
Timed ==
    /\ \A a \in Attempts : outcome[a] = "timeout" => expired[a[1]]
    /\ \A a \in Attempts : answer[a] # <<>> => Head(answer[a]).kind # "timeout"
    /\ \A c \in Conns : s2c[c] # <<>> => Head(s2c[c]).kind # "timeout"
    /\ \A k \in Calls : results[k] # <<>> /\ Head(results[k]) = "timeout" => expired[k]

(* The server has left a connection on which it sent an application error. *)
Hungup == \A c \in serving : s2c[c] # <<>> => Head(s2c[c]).kind # "app"

(* A Call that waits has something to wait for.                            *)
Awaited ==
    \A k \in Calls : phase[k] = "waiting" => results[k] # <<>> \/ Running(<<k, try[k]>>)

(* Where the application error of a try is until its Call has returned.    *)
OnWire(a) == Busy(a) /\ s2c[line[a]] # <<>> /\ Head(s2c[line[a]]).kind = "app"
Read(a) == answer[a] # <<>> /\ Head(answer[a]).kind = "app"
Reported(a) ==
    LET k == a[1] IN
    /\ phase[k] = "waiting" /\ a[2] = try[k]
    /\ results[k] # <<>> /\ Head(results[k]) = "app"

OnItsWay(a) ==
    \/ task[a] = "calling" /\ (OnWire(a) \/ Read(a))
    \/ task[a] = "closing" /\ outcome[a] = "app"
    \/ Reported(a)
    \/ phase[a[1]] = "returned"

(* Before the deadline no application error is lost but by a break.        *)
ErrorKept == \A a \in Attempts : ran[a] = "app" /\ ~expired[a[1]] /\ a \notin lost => OnItsWay(a)

Kept == Timed /\ Hungup /\ Awaited /\ ErrorKept

-----------------------------------------------------------------------------
(* Nothing has been asked at the start.                                    *)
LEMMA InitKept == Init => Kept
  BY DEF Init, Pool!Init, Kept, Timed, Hungup, Awaited, ErrorKept

(* A Call that waits for a try whose handler has ended with an application *)
(* error gets that error before its deadline, and nothing else.            *)
LEMMA FinalIsTold ==
    ASSUME Quiet, Honest, Kept, NEW k \in Calls, phase[k] = "waiting", results[k] # <<>>,
           ~expired[k], <<k, try[k]>> \notin lost, ran[<<k, try[k]>>] = "app"
    PROVE  Head(results[k]) = "app"
  <1> PICK a \in Attempts : a = <<k, try[k]>> /\ a[1] = k
    BY DEF Attempts, Quiet, Types
  <1>1. ~Running(a)
    BY DEF Honest, OneTry, Quiet, Types
  <1> QED
    BY <1>1 DEF Kept, ErrorKept, OnItsWay, Reported, Running

(* Steps that leave the tries and what is said to them alone.              *)
LEMMA KeptSame ==
    ASSUME Kept, UNCHANGED <<phase, try, results, task, outcome, line, answer, ran>>,
           expired' = expired, lost \subseteq lost', serving' \subseteq serving,
           \A a \in Attempts : Busy(a) => Busy(a)',
           \A c \in Conns : s2c'[c] = s2c[c] \/ s2c'[c] = <<>>,
           \A a \in Attempts \ lost' :
              ~expired[a[1]] /\ task[a] = "calling" /\ OnWire(a) => s2c'[line[a]] = s2c[line[a]],
           serving \subseteq Conns
    PROVE  Kept'
  <1> USE DEF Kept
  <1>1. Timed'
    BY DEF Timed
  <1>2. Hungup'
    BY DEF Hungup
  <1>3. Awaited'
    BY DEF Awaited, Running
  <1>4. ErrorKept'
    BY DEF ErrorKept, OnItsWay, OnWire, Read, Reported, Busy
  <1> QED
    BY <1>1, <1>2, <1>3, <1>4

-----------------------------------------------------------------------------
(* The goroutine of Call retries only what may be retried.                 *)
LEMMA CallKeeps ==
    ASSUME Quiet, Honest, Honest', Kept, NEW k \in Calls,
           \/ Deadline(k) \/ CallStep(k)
           \/ \E kind \in {"notfound", "internal", "timeout"} : CallRefused(k, kind)
           \/ \E v \in Views : CallBegin(k, v)
    PROVE  Kept'
  <1> USE CallAssumption DEF Kept, Quiet, Honest
  <1>0. UNCHANGED <<s2c, serving, inner, line, answer, outcome, ran, lost>>
    BY DEF Deadline, CallStep, CallTimeout, CallResult, CallRefused, CallBegin,
           innerVars, taskVars, serverVars, linkVars, wireVars
  <1>1. Hungup'
    BY <1>0 DEF Hungup
  <1>2. \A a \in Attempts : (OnWire(a) => OnWire(a)') /\ (Read(a) => Read(a)')
    BY <1>0 DEF OnWire, Read, Busy
  <1>3. CASE Deadline(k)
    <2>1. /\ expired' = [expired EXCEPT ![k] = TRUE]
          /\ UNCHANGED <<phase, try, results, task>>
      BY <1>3 DEF Deadline, taskVars
    <2>2. \A m \in Calls : expired[m] => expired'[m]
      BY <2>1 DEF MoreTypes
    <2>3. Timed'
      BY <1>0, <2>1, <2>2, Whose DEF Timed
    <2>4. Awaited'
      BY <2>1 DEF Awaited, Running
    <2>5. ErrorKept'
      BY <1>0, <1>2, <2>1, <2>2, Whose DEF ErrorKept, OnItsWay, Reported
    <2> QED
      BY <1>1, <2>3, <2>4, <2>5
  <1>4. ASSUME NEW v \in Views, CallBegin(k, v) PROVE Kept'
    <2>1. /\ phase[k] = "idle" /\ phase' = [phase EXCEPT ![k] = "waiting"]
          /\ task' = [task EXCEPT ![<<k, 0>>] = "backoff"]
          /\ UNCHANGED <<expired, try, results>>
      BY <1>4 DEF CallBegin
    <2>2. Timed'
      BY <1>0, <2>1 DEF Timed
    <2>3. Awaited'
      <3>1. <<k, try[k]>> = <<k, 0>> /\ <<k, 0>> \in Attempts
        BY <2>1 DEF OneTry, Attempts
      <3>2. Running(<<k, try[k]>>)'
        BY <2>1, <3>1 DEF Running, Types
      <3>3. ASSUME NEW m \in Calls, m # k, phase'[m] = "waiting"
            PROVE  results'[m] # <<>> \/ Running(<<m, try[m]>>)'
        <4>1. phase[m] = "waiting" /\ <<m, try[m]>> \in Attempts
          BY <2>1, <3>3 DEF Types, Attempts
        <4>2. Running(<<m, try[m]>>) => Running(<<m, try[m]>>)'
          BY <2>1, <4>1 DEF Running, Types
        <4> QED
          BY <2>1, <4>1, <4>2 DEF Awaited
      <3> QED
        BY <2>1, <3>2, <3>3 DEF Awaited
    <2>4. ErrorKept'
      <3> SUFFICES ASSUME NEW a \in Attempts, ran[a] = "app", ~expired[a[1]], a \notin lost PROVE OnItsWay(a)'
        BY <1>0, <2>1 DEF ErrorKept
      <3>1. OnItsWay(a)
        BY DEF ErrorKept
      <3>2. a[1] # k
        BY <2>1, <3>1, Whose DEF OnItsWay, Reported, Unstarted
      <3>3. task'[a] = task[a] /\ phase'[a[1]] = phase[a[1]]
        BY <2>1, <3>2, Whose DEF Types
      <3> QED
        BY <1>0, <1>2, <2>1, <3>1, <3>3 DEF OnItsWay, Reported
    <2> QED
      BY <1>1, <2>2, <2>3, <2>4
  <1>5. ASSUME phase' = [phase EXCEPT ![k] = "returned"], results' = [results EXCEPT ![k] = <<>>],
               UNCHANGED <<expired, try, task>>
        PROVE  Kept'
    <2>1. Timed'
      BY <1>0, <1>5 DEF Timed, MoreTypes
    <2>2. Awaited'
      BY <1>5 DEF Awaited, Running, Types, MoreTypes
    <2>3. ErrorKept'
      <3> SUFFICES ASSUME NEW a \in Attempts, ran[a] = "app", ~expired[a[1]], a \notin lost PROVE OnItsWay(a)'
        BY <1>0, <1>5 DEF ErrorKept
      <3>1. CASE a[1] = k
        BY <1>5, <3>1 DEF OnItsWay, Types
      <3>2. CASE a[1] # k
        <4>1. phase'[a[1]] = phase[a[1]] /\ results'[a[1]] = results[a[1]]
          BY <1>5, <3>2, Whose DEF Types, MoreTypes
        <4>2. OnItsWay(a)
          BY DEF ErrorKept
        <4> QED
          BY <1>0, <1>2, <1>5, <4>1, <4>2 DEF OnItsWay, Reported
      <3> QED
        BY <3>1, <3>2
    <2> QED
      BY <1>1, <2>1, <2>2, <2>3
  <1>6. ASSUME CallTimeout(k) \/ \E kind \in {"notfound", "internal", "timeout"} : CallRefused(k, kind)
        PROVE  Kept'
    BY <1>5, <1>6 DEF CallTimeout, CallRefused, Return, taskVars
  <1>7. CASE CallResult(k)
    <2>1. CASE Retryable(Head(results[k])) /\ MoreTries(k)
      <3>1. /\ phase[k] = "waiting" /\ results[k] # <<>> /\ Head(results[k]) # "app"
            /\ results' = [results EXCEPT ![k] = Tail(results[k])]
            /\ try' = [try EXCEPT ![k] = try[k] + 1]
            /\ task' = [task EXCEPT ![<<k, try[k] + 1>>] = "backoff"]
            /\ UNCHANGED <<phase, expired>>
        BY <1>7, <2>1 DEF CallResult, Retryable
      <3>2. Tail(results[k]) = <<>> /\ results'[k] = <<>>
        BY <3>1, OnlyOne DEF MoreTypes
      <3>3. <<k, try[k] + 1>> \in Attempts /\ try[k] \in Nat
        BY <2>1 DEF MoreTries, Attempts, Types
      <3>4. task[<<k, try[k] + 1>>] = "none"
        BY <2>1, <3>3 DEF Unstarted, MoreTries, Types
      <3>5. Timed'
        BY <1>0, <3>1, <3>2 DEF Timed, MoreTypes
      <3>6. Awaited'
        <4>1. Running(<<k, try[k]>>)'
          BY <3>1, <3>3 DEF Running, Types
        <4>2. ASSUME NEW m \in Calls, m # k, phase[m] = "waiting"
              PROVE  results'[m] # <<>> \/ Running(<<m, try[m]>>)'
          <5>1. results'[m] = results[m] /\ try'[m] = try[m] /\ <<m, try[m]>> \in Attempts
            BY <3>1, <4>2 DEF MoreTypes, Types, Attempts
          <5>2. task'[<<m, try[m]>>] = task[<<m, try[m]>>]
            BY <3>1, <4>2, <5>1 DEF Types
          <5> QED
            BY <4>2, <5>1, <5>2 DEF Awaited, Running
        <4> QED
          BY <3>1, <4>1, <4>2 DEF Awaited
      <3>7. ErrorKept'
        <4> SUFFICES ASSUME NEW a \in Attempts, ran[a] = "app", ~expired[a[1]], a \notin lost PROVE OnItsWay(a)'
          BY <1>0, <3>1 DEF ErrorKept
        <4>1. OnItsWay(a)
          BY DEF ErrorKept
        <4>2. PICK i \in 0 .. Retries : a = <<a[1], i>> /\ a[1] \in Calls
          BY Whose
        <4>3. a[1] # k
          <5> SUFFICES ASSUME a[1] = k PROVE FALSE
            OBVIOUS
          <5>1. Running(a) => FALSE
            BY <3>1, <4>2 DEF OneTry
          <5>2. ~Reported(a)
            BY <3>1, <4>2 DEF Reported
          <5> QED
            BY <3>1, <4>1, <5>1, <5>2 DEF OnItsWay, Running
        <4>4. /\ results'[a[1]] = results[a[1]] /\ try'[a[1]] = try[a[1]]
              /\ task'[a] = task[a]
          BY <3>1, <4>2, <4>3 DEF MoreTypes, Types
        <4> QED
          BY <1>0, <1>2, <3>1, <4>1, <4>4 DEF OnItsWay, Reported
      <3> QED
        BY <1>1, <3>5, <3>6, <3>7
    <2>2. CASE ~(Retryable(Head(results[k])) /\ MoreTries(k))
      BY <1>5, <1>7, <2>2 DEF CallResult, Return
    <2> QED
      BY <2>1, <2>2
  <1> QED
    BY <1>3, <1>4, <1>6, <1>7 DEF CallStep

-----------------------------------------------------------------------------
(* A try ends: what it reports is in the channel of the Call that waits.   *)
LEMMA FinishKeeps ==
    ASSUME Quiet, Honest, Kept, NEW a \in Attempts, NEW kind \in Kinds,
           Running(a), Finish(a, kind),
           ran[a] = "app" /\ ~expired[a[1]] /\ a \notin lost => kind = "app",
           kind = "timeout" => expired[a[1]],
           UNCHANGED <<phase, expired, try, inner, line, ran, lost>>, serving' = serving,
           \A b \in Attempts : b # a => answer'[b] = answer[b],
           answer'[a] = answer[a] \/ answer'[a] = <<>>,
           \A c \in Conns : s2c'[c] = s2c[c] \/ s2c'[c] = <<>>,
           \A b \in Attempts : b # a /\ ~expired[b[1]] /\ task[b] = "calling" /\ OnWire(b) =>
              s2c'[line[b]] = s2c[line[b]]
    PROVE  Kept'
  <1> USE DEF Kept, Quiet, Honest
  <1> PICK k \in Calls, i \in 0 .. Retries : a = <<k, i>> /\ a[1] = k
    BY Whose
  <1>1. /\ phase[k] # "idle"
        /\ task' = [task EXCEPT ![a] = "done"]
        /\ outcome' = [outcome EXCEPT ![a] = "none"]
    BY DEF Finish, Unstarted, Running, Types
  <1>2. \A m \in Calls : m # k => results'[m] = results[m]
    BY DEF Finish, MoreTypes
  <1>3. phase[k] = "waiting" =>
          /\ i = try[k] /\ results[k] = <<>>
          /\ results'[k] # <<>> /\ Head(results'[k]) = kind
    <2> SUFFICES ASSUME phase[k] = "waiting"
                 PROVE  /\ i = try[k] /\ results[k] = <<>>
                        /\ results'[k] # <<>> /\ Head(results'[k]) = kind
      OBVIOUS
    <2>1. i = try[k] /\ results[k] = <<>>
      BY DEF OneTry
    <2>2. results' = [results EXCEPT ![k] = Append(results[k], kind)]
      BY DEF Finish
    <2>3. results'[k] = Append(results[k], kind)
      BY <2>2 DEF MoreTypes
    <2>4. PICK q \in Seq(Kinds) : q = Append(results[k], kind) /\ q # <<>> /\ Head(q) = kind
      BY <2>1, FirstIn DEF MoreTypes
    <2> QED
      BY <2>1, <2>3, <2>4
  <1>4. phase[k] # "waiting" => phase[k] = "returned" /\ results'[k] = results[k] /\ results[k] = <<>>
    BY <1>1 DEF Finish, Types, OneTry
  <1>5. Timed'
    <2>1. /\ \A b \in Attempts : outcome'[b] = "timeout" => outcome[b] = "timeout"
          /\ \A b \in Attempts : answer'[b] # <<>> => answer'[b] = answer[b]
          /\ \A c \in Conns : s2c'[c] # <<>> => s2c'[c] = s2c[c]
      BY <1>1 DEF Types
    <2>2. \A m \in Calls : results'[m] # <<>> /\ Head(results'[m]) = "timeout" => expired[m]
      BY <1>2, <1>3, <1>4 DEF Timed
    <2> QED
      BY <2>1, <2>2 DEF Timed
  <1>6. Hungup'
    BY DEF Hungup, Types
  <1>7. Awaited'
    <2> SUFFICES ASSUME NEW m \in Calls, phase[m] = "waiting", m # k
                 PROVE  results'[m] # <<>> \/ Running(<<m, try[m]>>)'
      BY <1>3 DEF Awaited
    <2>1. <<m, try[m]>> \in Attempts /\ <<m, try[m]>> # a
      BY DEF Attempts, Types
    <2>2. task'[<<m, try[m]>>] = task[<<m, try[m]>>]
      BY <1>1, <2>1 DEF Types
    <2> QED
      BY <1>2, <2>2 DEF Awaited, Running
  <1>8. ErrorKept'
    <2> SUFFICES ASSUME NEW b \in Attempts, ran[b] = "app", ~expired[b[1]], b \notin lost PROVE OnItsWay(b)'
      BY DEF ErrorKept
    <2>1. OnItsWay(b)
      BY DEF ErrorKept
    <2>2. CASE b = a
      BY <2>2, <1>3, <1>4 DEF OnItsWay, Reported
    <2>3. CASE b # a
      <3>1. task'[b] = task[b] /\ outcome'[b] = outcome[b] /\ answer'[b] = answer[b]
        BY <2>3, <1>1 DEF Types
      <3>2. Reported(b) => Reported(b)'
        BY <1>2, <1>3, <1>4, Whose DEF Reported
      <3>3. task[b] = "calling" /\ OnWire(b) => OnWire(b)'
        BY <2>3 DEF OnWire, Busy
      <3>4. Read(b) => Read(b)'
        BY <3>1 DEF Read
      <3> QED
        BY <2>1, <3>1, <3>2, <3>3, <3>4 DEF OnItsWay
    <2> QED
      BY <2>2, <2>3
  <1> QED
    BY <1>5, <1>6, <1>7, <1>8

(* A try without a node, a failed dial, and the release of a connection:   *)
(* another try's answer on the wire is not lost with it.                   *)
LEMMA EndKeeps ==
    ASSUME PoolFacts, Owners, Owners', Quiet, Honest, Kept, NEW a \in Attempts,
           NoNode(a) \/ DialError(a) \/ GiveBack(a)
    PROVE  Kept'
  <1> USE DEF Quiet, Honest, Kept
  <1>1. CASE NoNode(a) \/ DialError(a)
    <2>1. /\ Running(a) /\ inner[a] = "none" /\ Finish(a, "internal")
          /\ UNCHANGED <<phase, expired, try, inner, line, answer, ran, lost, serving, s2c>>
      BY <1>1 DEF NoNode, DialError, Pool!DialFail, Running, Stages, Types, innerVars, serverVars, linkVars,
                  wireVars
    <2>2. ran[a] = "no" /\ "internal" \in Kinds
      BY <2>1 DEF Once, Kinds
    <2> QED
      BY <2>1, <2>2, FinishKeeps
  <1>2. CASE GiveBack(a)
    <2>1. /\ task[a] = "closing" /\ Running(a) /\ Finish(a, outcome[a])
          /\ answer' = [answer EXCEPT ![a] = <<>>]
          /\ s2c' = [c \in Conns |-> IF c \in open' THEN s2c[c] ELSE <<>>]
          /\ UNCHANGED <<phase, expired, try, inner, line, ran, lost, serving>>
      BY <1>2 DEF GiveBack, Running, serverVars, linkVars
    <2>2. held' = [held EXCEPT ![a] = NoConn]
      <3>1. Failed(a) \in BOOLEAN /\ Pool!Release(a, Failed(a))
        BY <1>2 DEF GiveBack, Failed
      <3> QED
        BY <3>1, ReleaseMove
    <2>3. outcome[a] \in Kinds
      BY <2>1 DEF OutcomeSet
    <2>4. ran[a] = "app" /\ ~expired[a[1]] /\ a \notin lost => outcome[a] = "app"
      <3> SUFFICES ASSUME ran[a] = "app", ~expired[a[1]], a \notin lost PROVE outcome[a] = "app"
        OBVIOUS
      <3>1. phase[a[1]] = "waiting" /\ results[a[1]] = <<>>
        BY <2>1, Whose DEF OneTry
      <3> QED
        BY <2>1, <3>1 DEF ErrorKept, OnItsWay, Reported
    <2>5. outcome[a] = "timeout" => expired[a[1]]
      BY DEF Timed
    <2>6. ASSUME NEW b \in Attempts, b # a, ~expired[b[1]], OnWire(b)
          PROVE  s2c'[line[b]] = s2c[line[b]]
      <3>1. held[b] = line[b] /\ line[b] \in Conns
        BY <2>6 DEF OnWire, Prompt, InnerAlone
      <3>2. held'[b] = line[b]
        BY <2>2, <2>6, <3>1 DEF Owners
      <3>3. line[b] \in open'
        BY <3>1, <3>2 DEF Owners
      <3> QED
        BY <2>1, <3>1, <3>3
    <2>7. \A b \in Attempts : IF b = a THEN answer'[b] = <<>> ELSE answer'[b] = answer[b]
      BY <2>1 DEF Types
    <2> QED
      BY <2>1, <2>3, <2>4, <2>5, <2>6, <2>7, FinishKeeps
  <1> QED
    BY <1>1, <1>2

(* A try that gets a connection, or starts to dial, has not been handled.  *)
LEMMA LaunchKeeps ==
    ASSUME PoolFacts, Owners, Quiet, Honest, Kept, NEW a \in Attempts,
           \/ \E n \in Addrs : Reuse(a, n) \/ StartDial(a, n)
           \/ \E c \in Conns : DialOk(a, c)
    PROVE  Kept'
  <1> USE DEF Quiet, Honest, Kept
  <1>1. /\ Running(a) /\ inner[a] = "none"
        /\ task' = [task EXCEPT ![a] = "calling"]
        /\ UNCHANGED <<phase, expired, try, results, outcome, answer, ran, lost>>
        /\ inner' = inner \/ inner' = [inner EXCEPT ![a] = "send"]
        /\ \A b \in Attempts : b # a => line'[b] = line[b]
    <2>1. ASSUME NEW n \in Addrs, Reuse(a, n) \/ StartDial(a, n) PROVE <1>1!:
      BY <2>1 DEF Reuse, StartDial, Launch, Running, Stages, Types, callVars, innerVars, serverVars, linkVars
    <2>2. ASSUME NEW c \in Conns, DialOk(a, c) PROVE <1>1!:
      <3>1. /\ stage[a] = "dialing" /\ Launch(a, c)
            /\ UNCHANGED <<phase, expired, try, results, outcome, answer, ran, lost>>
        BY <2>2 DEF DialOk, Pool!Dial, callVars
      <3>2. Running(a) /\ inner[a] = "none"
        BY <3>1 DEF Running, Stages, Types
      <3> QED
        BY <3>1, <3>2 DEF Launch, Types
    <2> QED
      BY <2>1, <2>2
  <1>2. /\ \A c \in serving' : c \in serving \/ s2c'[c] = <<>>
        /\ \A c \in Conns : s2c'[c] = s2c[c] \/ s2c'[c] = <<>>
        /\ \A b \in Attempts : Busy(b) /\ line[b] \in Conns => s2c'[line[b]] = s2c[line[b]]
    <2>1. ASSUME NEW n \in Addrs, Reuse(a, n) \/ StartDial(a, n) PROVE UNCHANGED <<serving, s2c>>
      BY <2>1 DEF Reuse, StartDial, serverVars, linkVars, wireVars
    <2>2. ASSUME NEW c \in Conns, DialOk(a, c) PROVE <1>2!:
      BY <2>2 DEF DialOk, Fresh, Types
    <2> QED
      BY <2>1, <2>2
  <1>3. Timed'
    <2>1. \A c \in Conns : s2c'[c] # <<>> => s2c'[c] = s2c[c]
      BY <1>2
    <2> QED
      BY <1>1, <2>1 DEF Timed
  <1>4. Hungup'
    BY <1>2 DEF Hungup, Types
  <1>5. Awaited'
    <2>1. \A b \in Attempts : Running(b) => Running(b)'
      BY <1>1 DEF Running, Types
    <2>2. \A m \in Calls : <<m, try[m]>> \in Attempts
      BY DEF Attempts, Types
    <2> QED
      BY <1>1, <2>1, <2>2 DEF Awaited, Running
  <1>6. ErrorKept'
    <2> SUFFICES ASSUME NEW b \in Attempts, ran[b] = "app", ~expired[b[1]], b \notin lost PROVE OnItsWay(b)'
      BY <1>1 DEF ErrorKept
    <2>1. b # a
      BY <1>1 DEF Once
    <2>2. OnItsWay(b)
      BY DEF ErrorKept
    <2>3. task'[b] = task[b] /\ line'[b] = line[b] /\ inner'[b] = inner[b]
      BY <1>1, <2>1 DEF Types
    <2>4. OnWire(b) => OnWire(b)'
      BY <1>2, <2>3 DEF OnWire, Busy, InnerAlone
    <2> QED
      BY <1>1, <2>2, <2>3, <2>4 DEF OnItsWay, Read, Reported
  <1> QED
    BY <1>3, <1>4, <1>5, <1>6

(* Before the deadline the outcome of a try is what was read.              *)
LEMMA SelectKeeps ==
    ASSUME Quiet, Honest, Kept, NEW a \in Attempts, SelectAnswer(a) \/ SelectDeadline(a)
    PROVE  Kept'
  <1> USE DEF Quiet, Honest, Kept
  <1>1. /\ task[a] = "calling" /\ task' = [task EXCEPT ![a] = "closing"]
        /\ UNCHANGED <<phase, expired, try, results, inner, line, ran, lost, serving, s2c>>
        /\ \A b \in Attempts : b # a => answer'[b] = answer[b] /\ outcome'[b] = outcome[b]
        /\ answer'[a] = answer[a] \/ answer'[a] = <<>>
    BY DEF SelectAnswer, SelectDeadline, callVars, innerVars, serverVars, linkVars, wireVars, Types
  <1>2. expired[a[1]] \/ (answer[a] # <<>> /\ outcome'[a] = Head(answer[a]).kind)
    BY DEF SelectAnswer, SelectDeadline, Types
  <1>3. Timed'
    BY <1>1, <1>2 DEF Timed
  <1>4. Hungup' /\ Awaited'
    <2>1. \A b \in Attempts : Running(b) => Running(b)'
      BY <1>1 DEF Running, Types
    <2>2. \A m \in Calls : <<m, try[m]>> \in Attempts
      BY DEF Attempts, Types
    <2> QED
      BY <1>1, <2>1, <2>2 DEF Hungup, Awaited, Running
  <1>5. ErrorKept'
    <2> SUFFICES ASSUME NEW b \in Attempts, ran[b] = "app", ~expired[b[1]], b \notin lost PROVE OnItsWay(b)'
      BY <1>1 DEF ErrorKept
    <2>1. OnItsWay(b)
      BY DEF ErrorKept
    <2>2. CASE b = a
      <3>1. answer[a] # <<>> /\ outcome'[a] = Head(answer[a]).kind /\ ~OnWire(a)
        BY <1>2, <2>2 DEF OnWire, InnerAlone
      <3> QED
        BY <1>1, <2>1, <2>2, <3>1 DEF OnItsWay, Read, Reported, Types
    <2>3. CASE b # a
      <3>1. task'[b] = task[b]
        BY <1>1, <2>3 DEF Types
      <3> QED
        BY <1>1, <2>1, <2>3, <3>1 DEF OnItsWay, OnWire, Read, Reported, Busy
    <2> QED
      BY <2>2, <2>3
  <1> QED
    BY <1>3, <1>4, <1>5

-----------------------------------------------------------------------------
(* What the inner goroutine reads of an application error it tells.        *)
LEMMA DeliverKeeps ==
    ASSUME Quiet, Honest, Kept, NEW a \in Attempts, NEW r \in Responses, Busy(a), Deliver(a, r),
           r.kind # "timeout",
           ran[a] = "app" /\ ~expired[a[1]] /\ a \notin lost => r.kind = "app",
           \A c \in Conns : s2c'[c] = s2c[c] \/ s2c'[c] = <<>>,
           \A b \in Attempts : b # a /\ ~expired[b[1]] /\ OnWire(b) => s2c'[line[b]] = s2c[line[b]]
    PROVE  Kept'
  <1> USE DEF Quiet, Honest, Kept
  <1>1. /\ inner' = [inner EXCEPT ![a] = "done"]
        /\ line' = [line EXCEPT ![a] = NoConn]
        /\ UNCHANGED <<phase, expired, try, results, task, outcome, serving, ran, lost>>
    BY DEF Deliver, callVars, taskVars, serverVars, linkVars
  <1>2. PICK q \in Seq(Responses) : q = Append(answer[a], r) /\ q # <<>> /\ Head(q) = r
    <2>1. answer[a] \in Seq(Responses) /\ answer[a] = <<>>
      BY DEF InnerAlone, Types
    <2> QED
      BY <2>1, FirstIn
  <1>3. /\ answer' = answer \/ answer' = [answer EXCEPT ![a] = q]
        /\ task[a] # "done" => answer' = [answer EXCEPT ![a] = q]
    <2>1. answer' = IF task[a] = "done" THEN answer
                      ELSE [answer EXCEPT ![a] = Append(answer[a], r)]
      BY DEF Deliver
    <2> QED
      BY <1>2, <2>1, Zenon
  <1>4. Timed'
    <2>1. \A b \in Attempts : answer'[b] # <<>> => Head(answer'[b]).kind # "timeout"
      <3>1. CASE answer' = answer
        BY <3>1 DEF Timed
      <3>2. CASE answer' = [answer EXCEPT ![a] = q]
        BY <3>2, <1>2 DEF Timed, Types
      <3> QED
        BY <3>1, <3>2, <1>3
    <2>2. \A c \in Conns : s2c'[c] # <<>> => s2c'[c] = s2c[c]
      OBVIOUS
    <2> QED
      BY <1>1, <2>1, <2>2 DEF Timed
  <1>5. Hungup' /\ Awaited'
    BY <1>1 DEF Hungup, Awaited, Running, Types
  <1>6. ErrorKept'
    <2> SUFFICES ASSUME NEW b \in Attempts, ran[b] = "app", ~expired[b[1]], b \notin lost PROVE OnItsWay(b)'
      BY <1>1 DEF ErrorKept
    <2>1. OnItsWay(b)
      BY DEF ErrorKept
    <2>2. CASE b = a
      <3>1. task[a] = "calling"
        BY <2>2 DEF Prompt
      <3>2. Read(a)'
        <4>1. r.kind = "app" /\ answer' = [answer EXCEPT ![a] = q]
          BY <1>3, <2>2, <3>1
        <4>2. answer'[a] = q
          BY <4>1 DEF Types
        <4> QED
          BY <1>2, <4>1, <4>2 DEF Read
      <3> QED
        BY <1>1, <2>2, <3>1, <3>2 DEF OnItsWay
    <2>3. CASE b # a
      <3>1. inner'[b] = inner[b] /\ line'[b] = line[b] /\ answer'[b] = answer[b]
        BY <1>1, <1>3, <2>3 DEF Types
      <3> QED
        BY <1>1, <2>1, <2>3, <3>1 DEF OnItsWay, OnWire, Read, Reported, Busy
    <2> QED
      BY <2>2, <2>3
  <1> QED
    BY <1>4, <1>5, <1>6

(* The steps of the inner goroutine together.                              *)
LEMMA InnerKeeps ==
    ASSUME Owners, Quiet, Honest, Kept, NEW a \in Attempts, InnerStep(a)
    PROVE  Kept'
  <1> USE DEF Quiet, Honest, Kept
  <1>1. /\ Response(a, "internal") \in Responses
        /\ Response(a, "internal").kind = "internal"
    BY DEF Response, Responses, Kinds
  <1>2. ASSUME Busy(a), Deliver(a, Response(a, "internal")), UNCHANGED wireVars,
               ran[a] # "app" \/ expired[a[1]] \/ a \in lost
        PROVE  Kept'
    BY <1>1, <1>2, DeliverKeeps DEF wireVars
  <1>3. CASE InnerSend(a) \/ (InnerRecvBegin(a) /\ task[a] = "calling")
    <2>1. /\ inner[a] \in {"send", "sent"}
          /\ inner' = [inner EXCEPT ![a] = "sent"] \/ inner' = [inner EXCEPT ![a] = "recv"]
          /\ UNCHANGED <<phase, expired, try, results, task, outcome, line, answer, ran, lost, serving, s2c>>
      BY <1>3 DEF InnerSend, InnerRecvBegin, callVars, taskVars, serverVars, linkVars, wireVars
    <2>2. \A b \in Attempts : Busy(b) => Busy(b)'
      BY <2>1 DEF Busy, Types
    <2> QED
      BY <2>1, <2>2, KeptSame DEF Types
  <1>4. CASE InnerSendError(a)
    BY <1>2, <1>4 DEF InnerSendError, Busy, Once
  <1>5. CASE InnerRecvBegin(a) /\ task[a] # "calling"
    BY <1>2, <1>5 DEF InnerRecvBegin, Busy, Prompt
  <1>6. ASSUME Busy(a), ran[a] = "app", ~expired[a[1]], a \notin lost
        PROVE  OnWire(a) /\ line[a] \in open
    <2>1. task[a] = "calling" /\ held[a] = line[a] /\ line[a] \in Conns /\ ~Read(a)
      BY <1>6 DEF Prompt, InnerAlone, Read
    <2>2. phase[a[1]] = "waiting" /\ results[a[1]] = <<>>
      BY <1>6, <2>1, Whose DEF OneTry, Running
    <2> QED
      BY <1>6, <2>1, <2>2 DEF ErrorKept, OnItsWay, Reported, Owners
  <1>7. CASE InnerRecv(a)
    <2>1. PICK c \in Conns : c = line[a]
      BY <1>7 DEF InnerRecv, InnerAlone, Busy
    <2>2. /\ Busy(a) /\ s2c[c] # <<>> /\ held[a] = c
          /\ Deliver(a, Head(s2c[c]))
          /\ s2c' = [s2c EXCEPT ![c] = Tail(s2c[c])]
      BY <1>7, <2>1 DEF InnerRecv, Busy, InnerAlone
    <2>3. Head(s2c[c]) \in Responses /\ Tail(s2c[c]) = <<>>
      BY <2>2, OnlyOne DEF Types, OneExchange
    <2>4. Head(s2c[c]).kind # "timeout"
      BY <2>2 DEF Timed
    <2>5. ran[a] = "app" /\ ~expired[a[1]] /\ a \notin lost => Head(s2c[c]).kind = "app"
      BY <1>6, <2>1, <2>2 DEF OnWire
    <2>6. \A d \in Conns : s2c'[d] = s2c[d] \/ s2c'[d] = <<>>
      BY <2>2, <2>3 DEF Types
    <2>7. ASSUME NEW b \in Attempts, b # a, ~expired[b[1]], OnWire(b)
          PROVE  s2c'[line[b]] = s2c[line[b]]
      <3>1. held[b] = line[b] /\ line[b] \in Conns
        BY <2>7 DEF OnWire, Prompt, InnerAlone
      <3>2. line[b] # c
        BY <2>2, <2>7, <3>1 DEF Owners
      <3> QED
        BY <2>2, <3>1, <3>2 DEF Types
    <2> QED
      BY <2>2, <2>3, <2>4, <2>5, <2>6, <2>7, DeliverKeeps
  <1>8. CASE InnerRecvError(a)
    <2>1. Busy(a) /\ ~(OnWire(a) /\ line[a] \in open)
      BY <1>8 DEF InnerRecvError, Busy, OnWire
    <2> QED
      BY <1>2, <1>6, <1>8, <2>1 DEF InnerRecvError
  <1> QED
    BY <1>3, <1>4, <1>5, <1>7, <1>8 DEF InnerStep

-----------------------------------------------------------------------------
(* An application error is answered on a connection that is open.          *)
LEMMA ServerKeeps ==
    ASSUME Owners, Quiet, Honest, Kept, NEW c \in Conns, ServerStep(c)
    PROVE  Kept'
  <1> USE NobodyAssumption DEF Quiet, Honest, Kept
  <1>1. CASE Serve(c) \/ Hangup(c)
    <2>1. /\ UNCHANGED <<phase, expired, try, results, task, outcome, inner, line, answer, ran, lost, s2c>>
          /\ serving' \subseteq serving
      BY <1>1 DEF Serve, Hangup, linkVars, serverFrame, callVars, taskVars, innerVars
    <2>2. \A a \in Attempts : Busy(a) => Busy(a)'
      BY <2>1 DEF Busy
    <2> QED
      BY <2>1, <2>2, KeptSame DEF Types
  <1>2. ASSUME NEW kind \in {"ok", "app", "internal"}, EndJob(c, kind),
               Respond(c, kind) \/ (s2c' = s2c /\ kind # "app"),
               serving' \subseteq serving, kind = "app" => c \notin serving'
        PROVE  Kept'
    <2>1. PICK b \in Attempts : b = job[c]
      BY <1>2 DEF EndJob, Types
    <2>2. /\ ran' = [ran EXCEPT ![b] = kind]
          /\ UNCHANGED <<phase, expired, try, results, task, outcome, inner, line, answer, lost>>
      BY <1>2, <2>1 DEF EndJob, linkVars, serverFrame, callVars, taskVars, innerVars
    <2>3. Asked(b, c) /\ s2c[c] = <<>>
      BY <2>1 DEF Asked, OneExchange
    <2>4. PICK r \in Responses : r = Response(b, kind) /\ r.kind = kind
      <3>1. kind \in Kinds
        BY DEF Kinds
      <3>2. Response(b, kind) \in Responses /\ Response(b, kind).kind = kind
        BY <3>1 DEF Response, Responses
      <3> QED
        BY <3>2
    <2>5. PICK q \in Seq(Responses) : q = Append(s2c[c], r) /\ q # <<>> /\ Head(q) = r
      BY <2>3, FirstIn DEF Types
    <2>6. /\ s2c' = s2c \/ s2c' = [s2c EXCEPT ![c] = q]
          /\ kind = "app" /\ c \in open \ cut => s2c' = [s2c EXCEPT ![c] = q]
      BY <1>2, <2>1, <2>4, <2>5 DEF Respond
    <2>7. \A d \in Conns : d # c => s2c'[d] = s2c[d]
      BY <2>6 DEF Types
    <2>8. s2c'[c] # <<>> => Head(s2c'[c]).kind = kind
      BY <2>3, <2>4, <2>5, <2>6 DEF Types
    <2>9. Timed'
      BY <2>2, <2>7, <2>8 DEF Timed
    <2>10. Hungup'
      BY <1>2, <2>7, <2>8 DEF Hungup, Types
    <2>11. Awaited'
      BY <2>2 DEF Awaited, Running
    <2>12. ErrorKept'
      <3> SUFFICES ASSUME NEW a \in Attempts, ran'[a] = "app", ~expired[a[1]], a \notin lost PROVE OnItsWay(a)'
        BY <2>2 DEF ErrorKept
      <3>1. CASE a = b
        <4>1. kind = "app"
          BY <2>2, <3>1 DEF MoreTypes
        <4>2. Busy(a) /\ line[a] = c /\ task[a] = "calling" /\ held[a] = c /\ c \notin cut
          BY <2>3, <3>1 DEF Prompt
        <4>3. s2c'[c] = q
          BY <2>6, <4>1, <4>2 DEF Owners, Types
        <4>4. OnWire(a)'
          BY <2>2, <2>4, <2>5, <4>1, <4>2, <4>3 DEF OnWire, Busy
        <4> QED
          BY <2>2, <4>2, <4>4 DEF OnItsWay
      <3>2. CASE a # b
        <4>1. OnItsWay(a)
          BY <2>2, <3>2 DEF ErrorKept, MoreTypes
        <4>2. OnWire(a) => OnWire(a)'
          BY <2>2, <2>3, <2>7 DEF OnWire, Busy, InnerAlone
        <4> QED
          BY <2>2, <4>1, <4>2 DEF OnItsWay, Read, Reported
      <3> QED
        BY <3>1, <3>2
    <2> QED
      BY <2>9, <2>10, <2>11, <2>12
  <1>3. CASE HandlerOk(c)
    BY <1>2, <1>3 DEF HandlerOk
  <1>4. ASSUME NEW kind \in {"app", "internal"}, HandlerError(c, kind) PROVE Kept'
    BY <1>2, <1>4 DEF HandlerError
  <1>5. CASE HandlerPanic(c)
    BY <1>2, <1>5 DEF HandlerPanic
  <1> QED
    BY <1>1, <1>3, <1>4, <1>5 DEF ServerStep

(* A crash cannot take back an error whose connection the server has left. *)
LEMMA CrashKeeps ==
    ASSUME Quiet, Honest, Kept, NEW n \in Addrs,
           Restart(n) \/ \E unread \in BOOLEAN : Crash(n, unread)
    PROVE  Kept'
  <1> USE DEF Quiet, Honest, Kept
  <1>1. /\ UNCHANGED <<phase, expired, try, results, task, outcome, inner, line, answer, ran, lost>>
        /\ serving' \subseteq serving
        /\ \A c \in Conns : s2c'[c] = s2c[c] \/ (s2c'[c] = <<>> /\ c \in serving)
    BY DEF Restart, Crash, Of, linkVars, serverFrame, callVars, taskVars, innerVars, wireVars
  <1>2. \A a \in Attempts : Busy(a) => Busy(a)'
    BY <1>1 DEF Busy
  <1>3. \A a \in Attempts : OnWire(a) => s2c'[line[a]] = s2c[line[a]]
    BY <1>1 DEF OnWire, InnerAlone, Hungup
  <1> QED
    BY <1>1, <1>2, <1>3, KeptSame DEF Types

(* Nor can a break, but one of the connection the error comes on.          *)
LEMMA BreakKeeps ==
    ASSUME Owners, Quiet, Honest, Kept, NEW c \in Conns, NEW drop \in BOOLEAN, Break(c, drop)
    PROVE  Kept'
  <1> USE DEF Quiet, Honest, Kept
  <1>1. /\ UNCHANGED <<phase, expired, try, results, task, outcome, inner, line, answer, ran,
                       serving>>
        /\ lost' = lost \cup {a \in Attempts : held[a] = c}
    BY DEF Break, serverFrame, callVars, taskVars, innerVars
  <1>2. s2c' = s2c \/ s2c' = [s2c EXCEPT ![c] = <<>>]
    <2>1. CASE drop
      BY <2>1 DEF Break
    <2>2. CASE ~drop
      BY <2>2 DEF Break
    <2> QED
      BY <2>1, <2>2
  <1>3. \A d \in Conns : s2c'[d] = s2c[d] \/ s2c'[d] = <<>>
    BY <1>2 DEF Types
  <1>4. ASSUME NEW a \in Attempts \ lost', ~expired[a[1]], OnWire(a)
        PROVE  s2c'[line[a]] = s2c[line[a]]
    <2>1. held[a] = line[a] /\ line[a] \in Conns
      BY <1>4 DEF OnWire, Prompt, InnerAlone
    <2>2. line[a] # c
      BY <1>1, <1>4, <2>1
    <2> QED
      BY <1>2, <2>1, <2>2 DEF Types
  <1>5. \A a \in Attempts : Busy(a) => Busy(a)'
    BY <1>1 DEF Busy
  <1>6. lost \subseteq lost'
    BY <1>1
  <1> QED
    BY <1>1, <1>3, <1>4, <1>5, <1>6, KeptSame DEF Types

(* The third invariant is inductive, given the pool's and the other two.   *)
LEMMA NextKept ==
    ASSUME PoolFacts, Owners, Owners', Quiet, Honest, Honest', Kept, [Next]_vars
    PROVE  Kept'
  <1>1. CASE UNCHANGED vars \/ Tick
    <2>1. UNCHANGED <<callVars, taskVars, innerVars, serverVars, wireVars>>
      BY <1>1 DEF vars, Tick
    <2>2. \A a \in Attempts : Busy(a) => Busy(a)'
      BY <2>1 DEF Busy, innerVars
    <2> QED
      BY <2>1, <2>2, KeptSame DEF callVars, taskVars, innerVars, serverVars, linkVars, wireVars, Quiet, Types
  <1>2. ASSUME NEW a \in Attempts, AttemptStep(a) PROVE Kept'
    BY <1>2, EndKeeps, LaunchKeeps, SelectKeeps DEF AttemptStep
  <1> QED
    BY <1>1, <1>2, CallKeeps, InnerKeeps, LaunchKeeps, ServerKeeps, CrashKeeps, BreakKeeps
    DEF Next

(* All three invariants hold in every reachable state.                     *)
LEMMA KeptInvariant == Spec => [](Owners /\ Quiet /\ Honest /\ Kept)
  <1>1. Borrowed!PoolInv => PoolFacts
    BY PoolRenamed
  <1>2. PoolFacts => Owners
    BY PoolOwners
  <1>3. PoolFacts /\ Owners /\ Owners' /\ Quiet /\ [Next]_vars => Quiet'
    BY NextQuiet
  <1>4. PoolFacts /\ Owners /\ Quiet /\ Honest /\ [Next]_vars => Honest'
    BY NextHonest
  <1>5. PoolFacts /\ Owners /\ Owners' /\ Quiet /\ Honest /\ Honest' /\ Kept /\ [Next]_vars => Kept'
    BY NextKept
  <1> QED
    BY <1>1, <1>2, <1>3, <1>4, <1>5, InitQuiet, InitHonest, InitKept, PoolSafe, PTL DEF Spec

(* No goroutine of the client waits in vain, for any number of calls and   *)
(* tries: a waiting Call has a try under way or its answer, no channel is  *)
(* full, and no abandoned goroutine is left on an open connection.         *)
THEOREM NobodyIsStuck == Spec => []NobodyStuck
  <1>1. Owners /\ Quiet /\ Honest /\ Kept => NobodyStuck
    <2> SUFFICES ASSUME Owners, Quiet, Honest, Kept PROVE NobodyStuck
      OBVIOUS
    <2> USE DEF Quiet, Honest, Kept
    <2>1. \A k \in Calls : phase[k] = "waiting" =>
            \/ results[k] # <<>>
            \/ task[<<k, try[k]>>] \in {"backoff", "calling", "closing"}
      BY DEF Awaited, Running
    <2>2. ASSUME NEW a \in Attempts, Running(a) PROVE Len(results[a[1]]) <= Retries
      <3>1. results[a[1]] = <<>>
        BY <2>2, Whose DEF OneTry
      <3>2. Len(results[a[1]]) = 0
        BY <3>1
      <3> QED
        BY <3>2, CallAssumption
    <2>3. ASSUME NEW a \in Attempts, Busy(a)
          PROVE  answer[a] = <<>> /\ (task[a] = "done" => line[a] \notin open)
      BY <2>3 DEF InnerAlone, Stages, Owners
    <2> QED
      BY <2>1, <2>2, <2>3 DEF NobodyStuck, Running
  <1> QED
    BY <1>1, KeptInvariant, PTL

-----------------------------------------------------------------------------
(* Every step of a Call is one that CallPromise allows its caller.         *)
LEMMA CallStepKept ==
    ASSUME Quiet, Honest, Kept, NEW k \in Calls,
           \/ Deadline(k) \/ CallStep(k)
           \/ \E kind \in {"notfound", "internal", "timeout"} : CallRefused(k, kind)
           \/ \E v \in Views : CallBegin(k, v)
    PROVE  Promise!Next
  <1> USE CallAssumption DEF Kept, Quiet, Honest, Promise!Next
  <1>1. ran' = ran /\ lost' = lost
    BY DEF Deadline, CallStep, CallTimeout, CallResult, CallRefused, CallBegin, serverVars, linkVars
  <1>2. CASE Deadline(k)
    BY <1>1, <1>2 DEF Deadline, Promise!Expire
  <1>3. ASSUME NEW v \in Views, CallBegin(k, v) PROVE Promise!Begin(k)
    BY <1>1, <1>3 DEF CallBegin, Promise!Begin
  <1>4. ASSUME NEW kind \in {"notfound", "internal", "timeout"}, CallRefused(k, kind) PROVE Promise!Refuse(k)
    BY <1>1, <1>4 DEF CallRefused, Return, Promise!Refuse
  <1>5. ASSUME phase[k] = "waiting", NEW kind \in Kinds, Return(k, kind),
               UNCHANGED <<expired, try>>, Promise!MayReport(k, kind)
        PROVE  Promise!Report(k)
    BY <1>1, <1>5 DEF Return, Promise!Report, Kinds
  <1>6. CASE CallTimeout(k)
    BY <1>5, <1>6 DEF CallTimeout, Promise!MayReport, Kinds
  <1>7. CASE CallResult(k)
    <2>1. PICK kind \in Kinds : kind = Head(results[k])
      BY <1>7, OnlyOne DEF CallResult, MoreTypes
    <2>2. phase[k] = "waiting" /\ results[k] # <<>> /\ expired' = expired
      BY <1>7 DEF CallResult
    <2>3. ~expired[k] /\ <<k, try[k]>> \notin lost /\ ran[<<k, try[k]>>] = "app" => kind = "app"
      BY <2>1, <2>2, FinalIsTold
    <2>4. CASE Retryable(kind) /\ MoreTries(k)
      <3>1. try' = [try EXCEPT ![k] = try[k] + 1] /\ UNCHANGED <<phase, reply>>
        BY <1>7, <2>1, <2>4 DEF CallResult
      <3>2. ~Promise!Final(k)
        BY <2>3, <2>4 DEF Promise!Final, Promise!Last, Retryable
      <3>3. Promise!Retry(k)
        BY <1>1, <2>2, <2>4, <3>1, <3>2 DEF Promise!Retry, MoreTries
      <3> QED
        BY <3>3
    <2>5. CASE ~(Retryable(kind) /\ MoreTries(k))
      <3>1. Return(k, kind) /\ try' = try
        BY <1>7, <2>1, <2>5 DEF CallResult
      <3>2. kind \in {"ok", "app"} => ran[<<k, try[k]>>] = kind
        BY <2>1, <2>2 DEF Truth, Told
      <3>3. kind = "timeout" => expired[k]
        BY <2>1, <2>2 DEF Timed
      <3>4. kind = "internal" => try[k] = Retries /\ ~Promise!Final(k)
        BY <2>3, <2>5 DEF Retryable, MoreTries, Types, Promise!Final, Promise!Last
      <3>5. Promise!MayReport(k, kind)
        BY <3>2, <3>3, <3>4 DEF Promise!MayReport, Promise!Final, Promise!Last, Kinds
      <3> QED
        BY <1>5, <2>2, <3>1, <3>5
    <2> QED
      BY <2>4, <2>5
  <1> QED
    BY <1>2, <1>3, <1>4, <1>6, <1>7 DEF CallStep

(* A handler that ends is that of the try its Call waits for, or the       *)
(* deadline has passed; and it is the first that try has.                  *)
LEMMA HandlerKept ==
    ASSUME Quiet, Honest, NEW c \in Conns, NEW kind \in {"ok", "app", "internal"}, EndJob(c, kind)
    PROVE  Promise!Next
  <1> USE NobodyAssumption DEF Quiet, Honest
  <1>1. PICK a \in Attempts : job[c] = a
    BY DEF EndJob, Types
  <1>2. PICK k \in Calls, i \in 0 .. Retries : a = <<k, i>> /\ a[1] = k
    BY Whose
  <1>3. Asked(a, c) /\ ran[a] = "no" /\ inner[a] \notin {"none", "send"}
    BY <1>1 DEF Asked, Once
  <1>4. task[a] # "none"
    BY <1>3 DEF Stages
  <1>5. phase[k] # "idle" /\ i <= try[k]
    BY <1>2, <1>4 DEF Unstarted, Types
  <1>6. ~expired[k] /\ <<k, i>> \notin lost => phase[k] = "waiting" /\ i = try[k]
    BY <1>2, <1>3 DEF Prompt, OneTry, Running
  <1>7. ran' = [ran EXCEPT ![<<k, i>>] = kind] /\ UNCHANGED <<phase, expired, try, lost, reply>>
    BY <1>1, <1>2 DEF EndJob, linkVars, serverFrame, callVars
  <1>8. Promise!Handle(k, i)
    BY <1>2, <1>3, <1>5, <1>6, <1>7 DEF Promise!Handle
  <1> QED
    BY <1>8 DEF Promise!Next

(* A break loses one try at most: a connection is held by one.             *)
LEMMA BreakKept ==
    ASSUME Owners, Quiet, NEW c \in Conns, NEW drop \in BOOLEAN, Break(c, drop)
    PROVE  [Promise!Next]_(Promise!promiseVars)
  <1> USE DEF Quiet, Promise!promiseVars
  <1>1. /\ lost' = lost \cup {a \in Attempts : held[a] = c}
        /\ UNCHANGED <<phase, expired, try, ran, reply>>
    BY DEF Break, serverFrame, callVars
  <1>2. CASE \A a \in Attempts : held[a] # c
    BY <1>1, <1>2
  <1>3. ASSUME NEW a \in Attempts, held[a] = c PROVE Promise!Next
    <2>1. PICK k \in Calls, i \in 0 .. Retries : a = <<k, i>>
      BY Whose
    <2>2. stage[a] = "using"
      BY <1>3 DEF Owners
    <2>3. task[a] # "none"
      BY <2>2 DEF Stages
    <2>4. phase[k] # "idle" /\ i <= try[k]
      BY <2>1, <2>3 DEF Unstarted, Types
    <2>5. lost' = lost \cup {<<k, i>>}
      BY <1>1, <1>3, <2>1 DEF Owners
    <2>6. Promise!Lose(k, i)
      BY <1>1, <2>4, <2>5 DEF Promise!Lose
    <2> QED
      BY <2>6 DEF Promise!Next
  <1> QED
    BY <1>2, <1>3

(* Every step keeps the promise or does not concern it.                    *)
LEMMA StepKept ==
    ASSUME Owners, Quiet, Honest, Kept, [Next]_vars PROVE [Promise!Next]_(Promise!promiseVars)
  <1> USE DEF Promise!promiseVars
  <1>1. CASE UNCHANGED vars \/ Tick
    BY <1>1 DEF vars, Tick, callVars, serverVars, linkVars
  <1>2. ASSUME NEW a \in Attempts,
               \/ AttemptStep(a) \/ InnerStep(a)
               \/ \E c \in Conns : DialOk(a, c)
        PROVE  UNCHANGED Promise!promiseVars
    BY <1>2 DEF AttemptStep, NoNode, Reuse, StartDial, DialError, SelectAnswer, SelectDeadline,
                GiveBack, InnerStep, InnerSend, InnerSendError, InnerRecvBegin, InnerRecv,
                InnerRecvError, Deliver, DialOk, callVars, serverVars, linkVars
  <1>3. ASSUME NEW c \in Conns, ServerStep(c) PROVE [Promise!Next]_(Promise!promiseVars)
    <2>1. CASE Serve(c) \/ Hangup(c)
      BY <2>1 DEF Serve, Hangup, linkVars, serverFrame, callVars
    <2>2. CASE \E kind \in {"ok", "app", "internal"} : EndJob(c, kind)
      BY <2>2, HandlerKept
    <2> QED
      BY <1>3, <2>1, <2>2 DEF ServerStep, HandlerOk, HandlerError, HandlerPanic
  <1>4. ASSUME NEW n \in Addrs, Restart(n) \/ \E unread \in BOOLEAN : Crash(n, unread)
        PROVE  UNCHANGED Promise!promiseVars
    BY <1>4 DEF Restart, Crash, linkVars, serverFrame, callVars
  <1> QED
    BY <1>1, <1>2, <1>3, <1>4, CallStepKept, BreakKept DEF Next

(* A Call keeps what CallPromise promises its caller, for any number of    *)
(* calls, tries, connections and nodes: one try after the other, each      *)
(* handled at most once; before the deadline none handled behind the       *)
(* caller's back and an application error final, but for tries whose       *)
(* connection broke; and no answer mixed up.                               *)
THEOREM CallsKeepPromise == Spec => CallKept
  <1>1. Init => Promise!Init
    BY DEF Init, Promise!Init, Attempts
  <1>2. Owners /\ Quiet /\ Honest /\ Kept /\ [Next]_vars => [Promise!Next]_(Promise!promiseVars)
    BY StepKept
  <1> QED
    BY <1>1, <1>2, KeptInvariant, PTL DEF Spec, CallKept, Promise!Spec
=============================================================================
