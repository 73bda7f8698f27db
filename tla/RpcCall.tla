------------------------------- MODULE RpcCall -------------------------------
(***************************************************************************)
(* A unary call from end to end: rpcClient.Call and rpcClient.call         *)
(* (client/rpc_client.go), the rpcStream and rpcCodec under them, the      *)
(* connection pool (ConnPool), the HTTP transport's connections, and       *)
(* rpcServer.ServeConn with its router at the other end.                   *)
(*                                                                         *)
(* Call spawns one goroutine per try and waits for its answer or for the   *)
(* deadline, which all tries share.  A try borrows a connection, starts an *)
(* inner goroutine that sends the request and waits for the response, and  *)
(* itself waits for that goroutine or for the deadline.  Responses carry   *)
(* no check of whose they are: a connection must come back to the pool     *)
(* only when nothing is left on it.                                        *)
(***************************************************************************)
EXTENDS Integers, Sequences

CONSTANTS
    Calls,                          \* invocations of Call
    Retries,                        \* CallOptions.Retries
    Views,                          \* node sets a selector may hand to a Call
    MaxCrashes,                     \* bound on the crashes of server processes
    MaxBreaks,                      \* bound on the connections that break
    Addrs, Conns, Sizes, Ttls, MaxTime, NoConn, \* of ConnPool
    Nobody                          \* "the connection's server goroutine waits"

ASSUME CallAssumption ==
    /\ Retries \in Nat
    /\ MaxCrashes \in Nat /\ MaxBreaks \in Nat
    /\ Views \subseteq SUBSET Addrs
    /\ Sizes \subseteq Nat /\ Ttls \subseteq Nat /\ MaxTime \in Nat
    /\ NoConn \notin Conns

Attempts == Calls \X (0 .. Retries)

ASSUME NobodyAssumption == Nobody \notin Attempts

VARIABLES
    conns, size, ttl, open, created, peer, stage, addr, held, now, \* ConnPool
    phase,      \* of a Call: idle, waiting in its select, returned
    expired,    \* its context is done
    view,       \* the nodes its selector.Next draws from
    try,        \* the loop variable i
    results,    \* its channel of capacity Retries + 1
    reply,      \* what it returned
    task,       \* a try: none, backoff, calling, closing, done
    outcome,    \* what its rcall is about to return
    inner,      \* its inner goroutine: none, send, sent, recv, done
    line,       \* the connection the inner goroutine uses
    answer,     \* the inner channel, of capacity 1
    up,         \* server processes that run
    serving,    \* connections a ServeConn loop reads
    job,        \* the request a ServeConn goroutine handles
    c2s, s2c,   \* requests and responses on a connection
    ran,        \* how the handler of a try's request ended
    cut,        \* connections that have broken
    lost,       \* history: tries whose connection broke while they held it
    crashes, breaks

poolVars == <<conns, size, ttl, open, created, peer, stage, addr, held, now>>
callVars == <<phase, expired, view, try, results, reply>>
taskVars == <<task, outcome>>
innerVars == <<inner, line, answer>>
linkVars == <<cut, lost, breaks>>
serverVars == <<up, serving, job, ran, crashes, linkVars>>
wireVars == <<c2s, s2c>>
vars == <<poolVars, callVars, taskVars, innerVars, serverVars, wireVars>>

Pool == INSTANCE ConnPool WITH Users <- Attempts

Kinds == {"ok", "app", "internal", "timeout"}

(* RetryOnError: 408 and 500 are tried again, an application error is not. *)
(* "timeout" is the client's own 408; "internal" is every other error that *)
(* is tried again, a 408 that a handler answers itself included.           *)
RetryAlways(kind) == kind # "ok"        \* faulty here: the other RetryFunc
Retryable(kind) == kind \in {"internal", "timeout"}

Response(a, kind) == [for |-> a, kind |-> kind]

Init ==
    /\ Pool!Init
    /\ phase = [k \in Calls |-> "idle"]
    /\ expired = [k \in Calls |-> FALSE]
    /\ view = [k \in Calls |-> {}]
    /\ try = [k \in Calls |-> 0]
    /\ results = [k \in Calls |-> <<>>]
    /\ reply = [k \in Calls |-> "none"]
    /\ task = [a \in Attempts |-> "none"]
    /\ outcome = [a \in Attempts |-> "none"]
    /\ inner = [a \in Attempts |-> "none"]
    /\ line = [a \in Attempts |-> NoConn]
    /\ answer = [a \in Attempts |-> <<>>]
    /\ up = Addrs
    /\ serving = {}
    /\ job = [c \in Conns |-> Nobody]
    /\ c2s = [c \in Conns |-> <<>>]
    /\ s2c = [c \in Conns |-> <<>>]
    /\ ran = [a \in Attempts |-> "no"]
    /\ cut = {} /\ lost = {}
    /\ crashes = 0 /\ breaks = 0

-----------------------------------------------------------------------------
(* The goroutine of Call.                                                  *)

(* The channel of a Call that has returned has no reader: what it holds,   *)
(* or will be sent, is dropped here.                                       *)
Return(k, kind) ==
    /\ phase' = [phase EXCEPT ![k] = "returned"]
    /\ reply' = [reply EXCEPT ![k] = kind]
    /\ results' = [results EXCEPT ![k] = <<>>]

(* Call selects the nodes once, finds the context alive, starts try 0.     *)
CallBegin(k, v) ==
    /\ phase[k] = "idle"
    /\ phase' = [phase EXCEPT ![k] = "waiting"]
    /\ view' = [view EXCEPT ![k] = v]
    /\ task' = [task EXCEPT ![<<k, 0>>] = "backoff"]
    /\ UNCHANGED <<poolVars, expired, try, results, reply, outcome, innerVars,
                   serverVars, wireVars>>

(* No try is made: Select finds no such service or fails (the registry's   *)
(* error, no node left by a filter), or the caller's context is done.      *)
CallRefused(k, kind) ==
    /\ phase[k] = "idle"
    /\ Return(k, kind)
    /\ UNCHANGED <<poolVars, expired, view, try, taskVars, innerVars,
                   serverVars, wireVars>>

DeadlineOfCallerOnly(k) ==     \* faulty: no timeout when the caller has none
    /\ FALSE
    /\ expired' = [expired EXCEPT ![k] = TRUE]
    /\ UNCHANGED <<poolVars, phase, view, try, results, reply, taskVars,
                   innerVars, serverVars, wireVars>>

Deadline(k) ==
    /\ phase[k] = "waiting"
    /\ ~expired[k]
    /\ expired' = [expired EXCEPT ![k] = TRUE]
    /\ UNCHANGED <<poolVars, phase, view, try, results, reply, taskVars,
                   innerVars, serverVars, wireVars>>

(* The deadline case of Call's select: the running try is abandoned.       *)
CallTimeout(k) ==
    /\ phase[k] = "waiting"
    /\ expired[k]
    /\ Return(k, "timeout")
    /\ UNCHANGED <<poolVars, expired, view, try, taskVars, innerVars,
                   serverVars, wireVars>>

(* The channel case: return, or start the next try, whatever the deadline. *)
MoreTries(k) == try[k] < Retries

CallResult(k) ==
    /\ phase[k] = "waiting"
    /\ results[k] # <<>>
    /\ IF Retryable(Head(results[k])) /\ MoreTries(k)
         THEN /\ results' = [results EXCEPT ![k] = Tail(@)]
              /\ try' = [try EXCEPT ![k] = @ + 1]
              /\ task' = [task EXCEPT ![<<k, try[k] + 1>>] = "backoff"]
              /\ UNCHANGED <<phase, reply>>
         ELSE /\ Return(k, Head(results[k]))
              /\ UNCHANGED <<try, task>>
    /\ UNCHANGED <<poolVars, expired, view, outcome, innerVars, serverVars, wireVars>>

-----------------------------------------------------------------------------
(* The goroutine of a try.                                                 *)

Finish(a, kind) ==
    /\ task' = [task EXCEPT ![a] = "done"]
    /\ results' = IF phase[a[1]] = "returned" THEN results
                    ELSE [results EXCEPT ![a[1]] = Append(@, kind)]
    /\ outcome' = [outcome EXCEPT ![a] = "none"]

Launch(a, c) ==
    /\ task' = [task EXCEPT ![a] = "calling"]
    /\ inner' = [inner EXCEPT ![a] = "send"]
    /\ line' = [line EXCEPT ![a] = c]

(* next() has no node to give: a 500, tried again like any other.          *)
NoNode(a) ==
    /\ task[a] = "backoff"
    /\ view[a[1]] = {}
    /\ Finish(a, "internal")
    /\ UNCHANGED <<poolVars, phase, expired, view, try, reply, innerVars,
                   serverVars, wireVars>>

Reuse(a, n) ==
    /\ task[a] = "backoff"
    /\ n \in view[a[1]]
    /\ Pool!GetPooled(a, n)
    /\ Launch(a, held'[a])
    /\ UNCHANGED <<callVars, outcome, answer, serverVars, wireVars>>

StartDial(a, n) ==
    /\ task[a] = "backoff"
    /\ n \in view[a[1]]
    /\ Pool!GetMiss(a, n)
    /\ task' = [task EXCEPT ![a] = "calling"]
    /\ UNCHANGED <<callVars, outcome, innerVars, serverVars, wireVars>>

(* Connections whose server end a client can still reach.                  *)
Linked == serving \ cut

(* An identity nobody uses any more stands for a new connection.           *)
Busy(a) == inner[a] \in {"send", "sent", "recv"}

Fresh(c) ==
    /\ c \notin open \cup serving
    /\ \A a \in Attempts : Busy(a) => line[a] # c

DialOk(a, c) ==
    /\ Fresh(c)
    /\ addr[a] \in up
    /\ Pool!Dial(a, c)
    /\ Launch(a, c)
    /\ serving' = serving \cup {c}
    /\ c2s' = [c2s EXCEPT ![c] = <<>>]
    /\ s2c' = [s2c EXCEPT ![c] = <<>>]
    /\ cut' = cut \ {c}
    /\ UNCHANGED <<callVars, outcome, answer, up, job, ran, lost, crashes, breaks>>

DialError(a) ==
    /\ Pool!DialFail(a)
    /\ Finish(a, "internal")
    /\ UNCHANGED <<phase, expired, view, try, reply, innerVars, serverVars,
                   wireVars>>

(* The select of rpcClient.call: the inner goroutine's error, or ctx.Err;  *)
(* either way the stream is closed, which on a pooled connection closes    *)
(* nothing else.                                                           *)
SelectAnswerEarly(a) ==     \* faulty: answers Call before it releases
    /\ task[a] = "calling"
    /\ answer[a] # <<>>
    /\ answer' = [answer EXCEPT ![a] = <<>>]
    /\ outcome' = [outcome EXCEPT ![a] = Head(answer[a]).kind]
    /\ task' = [task EXCEPT ![a] = "closing"]
    /\ results' = [results EXCEPT ![a[1]] = Append(@, Head(answer[a]).kind)]
    /\ UNCHANGED <<poolVars, phase, expired, view, try, reply, inner, line,
                   serverVars, wireVars>>

SelectAnswer(a) ==
    /\ task[a] = "calling"
    /\ answer[a] # <<>>
    /\ answer' = [answer EXCEPT ![a] = <<>>]
    /\ outcome' = [outcome EXCEPT ![a] = Head(answer[a]).kind]
    /\ task' = [task EXCEPT ![a] = "closing"]
    /\ UNCHANGED <<poolVars, callVars, inner, line, serverVars, wireVars>>

SelectDeadlineOfTry(a) ==   \* faulty: a timer of its own for every try
    /\ task[a] = "calling"
    /\ stage[a] = "using"
    /\ outcome' = [outcome EXCEPT ![a] = "timeout"]
    /\ task' = [task EXCEPT ![a] = "closing"]
    /\ UNCHANGED <<poolVars, callVars, innerVars, serverVars, wireVars>>

SelectDeadline(a) ==
    /\ task[a] = "calling"
    /\ stage[a] = "using"
    /\ expired[a[1]]
    /\ outcome' = [outcome EXCEPT ![a] = "timeout"]
    /\ task' = [task EXCEPT ![a] = "closing"]
    /\ UNCHANGED <<poolVars, callVars, innerVars, serverVars, wireVars>>

(* The deferred release: with grr set the connection is closed, and what   *)
(* the server sent on it is lost; nothing will read the inner channel.     *)
FailedNotByDeadline(a) == outcome[a] \notin {"ok", "timeout"} \* faulty: no grr
Failed(a) == outcome[a] # "ok"

GiveBackNothing(a) ==       \* faulty: forgets the connection
    /\ task[a] = "closing"
    /\ stage' = [stage EXCEPT ![a] = "idle"]
    /\ held' = [held EXCEPT ![a] = NoConn]
    /\ Finish(a, outcome[a])
    /\ UNCHANGED <<conns, size, ttl, open, created, peer, addr, now, phase, expired,
                   view, try, reply, innerVars, serverVars, wireVars>>

GiveBack(a) ==
    /\ task[a] = "closing"
    /\ Pool!Release(a, Failed(a))
    /\ Finish(a, outcome[a])
    /\ answer' = [answer EXCEPT ![a] = <<>>]
    /\ s2c' = [c \in Conns |-> IF c \in open' THEN s2c[c] ELSE <<>>]
    /\ UNCHANGED <<phase, expired, view, try, reply, inner, line, serverVars, c2s>>

-----------------------------------------------------------------------------
(* The inner goroutine of a try.  An error on a dead connection, a closed  *)
(* stream and a recovered panic are all internal errors.                   *)

Deliver(a, r) ==
    /\ inner' = [inner EXCEPT ![a] = "done"]
    /\ line' = [line EXCEPT ![a] = NoConn]
    /\ answer' = IF task[a] = "done" THEN answer
                   ELSE [answer EXCEPT ![a] = Append(@, r)]
    /\ UNCHANGED <<poolVars, callVars, taskVars, serverVars>>

(* A write to a connection the server has left, or that has broken, may    *)
(* succeed all the same.                                                   *)
InnerSend(a) ==
    /\ inner[a] = "send"
    /\ line[a] \in open
    /\ inner' = [inner EXCEPT ![a] = "sent"]
    /\ c2s' = IF line[a] \in Linked
                THEN [c2s EXCEPT ![line[a]] = Append(@, a)] ELSE c2s
    /\ UNCHANGED <<poolVars, callVars, taskVars, line, answer, serverVars, s2c>>

InnerSendError(a) ==
    /\ inner[a] = "send"
    /\ line[a] \notin open \cap Linked \/ task[a] # "calling"
    /\ Deliver(a, Response(a, "internal"))
    /\ UNCHANGED wireVars

(* Recv starts with isClosed; once it reads, only the connection ends it.  *)
InnerRecvBegin(a) ==
    /\ inner[a] = "sent"
    /\ IF task[a] = "calling"
         THEN /\ inner' = [inner EXCEPT ![a] = "recv"]
              /\ UNCHANGED <<poolVars, callVars, taskVars, line, answer, serverVars>>
         ELSE Deliver(a, Response(a, "internal"))
    /\ UNCHANGED wireVars

InnerRecv(a) ==
    /\ inner[a] = "recv"
    /\ line[a] \in open
    /\ s2c[line[a]] # <<>>
    /\ Deliver(a, Head(s2c[line[a]]))
    /\ s2c' = [s2c EXCEPT ![line[a]] = Tail(@)]
    /\ UNCHANGED c2s

InnerRecvError(a) ==
    /\ inner[a] = "recv"
    /\ \/ line[a] \notin open
       \/ line[a] \notin Linked /\ s2c[line[a]] = <<>>
    /\ Deliver(a, Response(a, "internal"))
    /\ UNCHANGED wireVars

-----------------------------------------------------------------------------
(* The server: ServeConn reads a request, runs the handler, answers.       *)

serverFrame == <<poolVars, callVars, taskVars, innerVars>>

Serve(c) ==
    /\ c \in serving
    /\ job[c] = Nobody
    /\ c2s[c] # <<>>
    /\ job' = [job EXCEPT ![c] = Head(c2s[c])]
    /\ c2s' = [c2s EXCEPT ![c] = Tail(@)]
    /\ UNCHANGED <<serverFrame, up, serving, ran, crashes, linkVars, s2c>>

(* What is sent on a connection that the client has closed, or that has    *)
(* broken, goes nowhere.                                                   *)
Respond(c, kind) ==
    s2c' = IF c \in open \ cut
             THEN [s2c EXCEPT ![c] = Append(@, Response(job[c], kind))] ELSE s2c

EndJob(c, kind) ==
    /\ c \in serving
    /\ job[c] # Nobody
    /\ ran' = [ran EXCEPT ![job[c]] = kind]
    /\ job' = [job EXCEPT ![c] = Nobody]
    /\ UNCHANGED <<serverFrame, up, crashes, linkVars>>

(* A success is sent and the loop goes on.                                 *)
HandlerOk(c) ==
    /\ EndJob(c, "ok")
    /\ Respond(c, "ok")
    /\ UNCHANGED <<serving, c2s>>

(* An error is sent and the connection closed.                             *)
HandlerError(c, kind) ==
    /\ EndJob(c, kind)
    /\ Respond(c, kind)
    /\ serving' = serving \ {c}
    /\ c2s' = [c2s EXCEPT ![c] = <<>>]

(* A panic is recovered: the connection is closed without a response.      *)
HandlerPanic(c) ==
    /\ EndJob(c, "internal")
    /\ serving' = serving \ {c}
    /\ c2s' = [c2s EXCEPT ![c] = <<>>]
    /\ UNCHANGED s2c

(* Recv or a write fails because the client has closed the connection or   *)
(* it has broken; what was sent before may be read first or not at all.    *)
Hangup(c) ==
    /\ c \in serving
    /\ c \notin open \ cut
    /\ job[c] = Nobody
    /\ serving' = serving \ {c}
    /\ c2s' = [c2s EXCEPT ![c] = <<>>]
    /\ UNCHANGED <<serverFrame, up, job, ran, crashes, linkVars, s2c>>

(* A server process dies: its connections close, and a response that has   *)
(* not been read may be lost with them (unread: by a reset).               *)
Of(n) == {c \in serving : peer[c] = n}

Crash(n, unread) ==
    /\ n \in up
    /\ crashes < MaxCrashes
    /\ crashes' = crashes + 1
    /\ up' = up \ {n}
    /\ serving' = serving \ Of(n)
    /\ job' = [c \in Conns |-> IF c \in Of(n) THEN Nobody ELSE job[c]]
    /\ c2s' = [c \in Conns |-> IF c \in Of(n) THEN <<>> ELSE c2s[c]]
    /\ s2c' = [c \in Conns |-> IF unread /\ c \in Of(n) THEN <<>> ELSE s2c[c]]
    /\ UNCHANGED <<serverFrame, ran, linkVars>>

Restart(n) ==
    /\ n \in Addrs \ up
    /\ up' = up \cup {n}
    /\ UNCHANGED <<serverFrame, serving, job, ran, crashes, linkVars, wireVars>>

(* One connection breaks between two processes that go on: a reset, or a   *)
(* deadline of the transport.  What is under way on it may be lost with    *)
(* it; a handler that has begun ends all the same.                         *)
Break(c, drop) ==
    /\ c \in open \ cut
    /\ breaks < MaxBreaks
    /\ breaks' = breaks + 1
    /\ cut' = cut \cup {c}
    /\ lost' = lost \cup {a \in Attempts : held[a] = c}
    /\ c2s' = IF drop THEN [c2s EXCEPT ![c] = <<>>] ELSE c2s
    /\ s2c' = IF drop THEN [s2c EXCEPT ![c] = <<>>] ELSE s2c
    /\ UNCHANGED <<serverFrame, up, serving, job, ran, crashes>>

Tick ==
    /\ Pool!Tick
    /\ UNCHANGED <<callVars, taskVars, innerVars, serverVars, wireVars>>

-----------------------------------------------------------------------------
CallStep(k) == CallTimeout(k) \/ CallResult(k)

AttemptStep(a) ==
    \/ NoNode(a)
    \/ \E n \in Addrs : Reuse(a, n) \/ StartDial(a, n)
    \/ DialError(a)
    \/ SelectAnswer(a)
    \/ SelectDeadline(a)
    \/ GiveBack(a)

InnerStep(a) ==
    \/ InnerSend(a) \/ InnerSendError(a)
    \/ InnerRecvBegin(a) \/ InnerRecv(a) \/ InnerRecvError(a)

ServerStep(c) ==
    \/ Serve(c)
    \/ HandlerOk(c)
    \/ \E kind \in {"app", "internal"} : HandlerError(c, kind)
    \/ HandlerPanic(c)
    \/ Hangup(c)

Next ==
    \/ \E k \in Calls : Deadline(k) \/ CallStep(k)
    \/ \E k \in Calls, kind \in {"notfound", "internal", "timeout"} : CallRefused(k, kind)
    \/ \E k \in Calls, v \in Views : CallBegin(k, v)
    \/ \E a \in Attempts : AttemptStep(a) \/ InnerStep(a)
    \/ \E a \in Attempts, c \in Conns : DialOk(a, c)
    \/ \E c \in Conns : ServerStep(c) \/ \E drop \in BOOLEAN : Break(c, drop)
    \/ \E n \in Addrs : Restart(n) \/ \E unread \in BOOLEAN : Crash(n, unread)
    \/ Tick

Spec == Init /\ [][Next]_vars

(* Timers fire, and the client's goroutines are scheduled; nothing is      *)
(* promised of handlers, servers or new calls.                             *)
Fairness ==
    /\ \A k \in Calls : WF_vars(Deadline(k)) /\ WF_vars(CallStep(k))
    /\ \A a \in Attempts : WF_vars(AttemptStep(a)) /\ WF_vars(InnerStep(a))

FairSpec == Spec /\ Fairness

-----------------------------------------------------------------------------
AtMost(n, s) == Len(s) <= n

(* Every variable has its type; the channels of Call and of its tries      *)
(* never hold more than their capacity, so no goroutine blocks sending.    *)
TypeOK ==
    /\ Pool!TypeOK
    /\ phase \in [Calls -> {"idle", "waiting", "returned"}]
    /\ expired \in [Calls -> BOOLEAN]
    /\ view \in [Calls -> SUBSET Addrs]
    /\ try \in [Calls -> 0 .. Retries]
    /\ results \in [Calls -> Seq(Kinds)]
    /\ \A k \in Calls : AtMost(Retries + 1, results[k])
    /\ reply \in [Calls -> Kinds \cup {"none", "notfound"}]
    /\ task \in [Attempts -> {"none", "backoff", "calling", "closing", "done"}]
    /\ outcome \in [Attempts -> Kinds \cup {"none"}]
    /\ inner \in [Attempts -> {"none", "send", "sent", "recv", "done"}]
    /\ line \in [Attempts -> Conns \cup {NoConn}]
    /\ answer \in [Attempts -> Seq([for : Attempts, kind : Kinds])]
    /\ \A a \in Attempts : AtMost(1, answer[a])
    /\ up \in SUBSET Addrs
    /\ serving \in SUBSET Conns
    /\ job \in [Conns -> Attempts \cup {Nobody}]
    /\ c2s \in [Conns -> Seq(Attempts)]
    /\ s2c \in [Conns -> Seq([for : Attempts, kind : Kinds])]
    /\ ran \in [Attempts -> {"no", "ok", "app", "internal"}]
    /\ cut \in SUBSET Conns /\ lost \in SUBSET Attempts
    /\ crashes \in 0 .. MaxCrashes /\ breaks \in 0 .. MaxBreaks

(* A pooled connection is quiet: no request, no response and no handler is *)
(* left on it, and no inner goroutine still reads or writes it.  This is   *)
(* what lets a response go unchecked to whoever reads the connection next. *)
IdleQuiet ==
    \A c \in Conns : Pool!Pooled(c) =>
        /\ c2s[c] = <<>> /\ s2c[c] = <<>> /\ job[c] = Nobody
        /\ \A a \in Attempts : Busy(a) => line[a] # c

(* A Call that reports success, or an application error, reports what the  *)
(* handler did with the request of its last try: never the response to     *)
(* another call or try, whatever was lost, retried or cut off before.      *)
Truthful ==
    \A k \in Calls : reply[k] \in {"ok", "app"} => ran[<<k, try[k]>>] = reply[k]

AtClient(a) == task[a] \notin {"none", "done"} \/ Busy(a)

AtServer(a) ==
    \E c \in Conns : job[c] = a \/ \E i \in 1 .. Len(c2s[c]) : c2s[c][i] = a

(* A try that runs, or whose request may still be answered.                *)
Alive(a) == AtClient(a) \/ (AtServer(a) /\ a \notin lost)

(* A Call that returns before its deadline leaves nothing behind: none of  *)
(* its goroutines runs, and no request of it is on its way or being        *)
(* handled, but for that of a try whose connection broke under it.  (The   *)
(* server does not learn of the break until it writes: its handler goes on *)
(* beside whatever the caller does next.)                                  *)
Settled ==
    \A k \in Calls : phase[k] = "returned" /\ ~expired[k] =>
        \A i \in 0 .. Retries : ~Alive(<<k, i>>)

(* Until the deadline the tries of a Call follow one another, at the       *)
(* client and at the servers: a retry overlaps the try before it only when *)
(* the connection of that try broke, and then only in its handler.  (After *)
(* the deadline it may: Call's select can prefer the failed try's answer   *)
(* and start another while the server still runs the first.)               *)
OneAtATime ==
    \A k \in Calls : ~expired[k] =>
        \A i, j \in 0 .. Retries : Alive(<<k, i>>) /\ Alive(<<k, j>>) => i = j

(* The tries use the pool as it is meant to be used: every behaviour of    *)
(* the composition is a behaviour of the pool's specification.             *)
PoolSpec == Pool!Spec

(* A Call keeps what CallPromise promises its caller, however its tries    *)
(* share connections and whatever is lost, late or cut off.                *)
Promise == INSTANCE CallPromise WITH late <- expired
CallKept == Promise!Spec

(* No goroutine of the client waits in vain, even if no deadline passes: a *)
(* Call that waits has a try under way or its answer in the channel, every *)
(* channel has room for whoever sends on it, and an inner goroutine that   *)
(* its try has left behind is woken by the close of its connection.        *)
NobodyStuck ==
    /\ \A k \in Calls : phase[k] = "waiting" =>
         \/ results[k] # <<>>
         \/ task[<<k, try[k]>>] \in {"backoff", "calling", "closing"}
    /\ \A a \in Attempts :
         /\ task[a] \in {"backoff", "calling", "closing"} => Len(results[a[1]]) <= Retries
         /\ Busy(a) => answer[a] = <<>>
         /\ Busy(a) /\ task[a] = "done" => line[a] \notin open

(* Every Call returns, handlers that never answer and servers that crash   *)
(* included.                                                               *)
Returns == \A k \in Calls : phase[k] = "waiting" ~> phase[k] = "returned"

(* No try is left behind: its two goroutines end and its connection goes   *)
(* back to the pool or is closed, even when Call has long returned.        *)
NothingLeft ==
    \A a \in Attempts :
        task[a] # "none" ~> (task[a] = "done" /\ ~Busy(a) /\ held[a] = NoConn)
=============================================================================
