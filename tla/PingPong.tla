------------------------------ MODULE PingPong ------------------------------
(***************************************************************************)
(* The HTTP transport (transport/http_transport.go) under the two programs *)
(* that use it bare: the demo, httpServer.go, and the tests of             *)
(* learn/transport.go, TestMemoryTransport and then TestListener.  Each    *)
(* listens, serves its own client from a goroutine, plays ping-pong with   *)
(* it and tidies up; several processes on one host compete for the ports.  *)
(* A response carries nothing of its request: the client end keeps its     *)
(* requests in a queue and reads each response as that to the oldest.      *)
(***************************************************************************)
EXTENDS Naturals, Sequences

CONSTANTS
    Procs,
    Rounds,         \* 3
    MaxFaults,      \* bound: failed dials and broken connections
    Nobody

ASSUME RoundAssumption == Rounds \in Nat \ {0} /\ MaxFaults \in Nat /\ Nobody \notin Procs

VARIABLES
    program,        \* demo or test
    main,           \* where main, or the test, is
    verdict,        \* how it went
    holder,         \* holder[q]: the process that listens on port q
    acceptor,       \* the goroutine in Accept: none, accepting, stopped
    conn,           \* the client's connection: none, open, closed, cut
    bl, r, req,     \* httpTransportClient: requests waiting, in the channel, taken by Recv
    c2s, s2c,       \* pings and pongs on their way, by number
    handler, ping,  \* SockHandler: none, recv, send, ended; the ping it answers
    round,          \* the loop variable i
    paired,         \* history: every response was read as that to its request
    blocked,        \* history: the process that had the port a listen was refused
    faults

clientVars == <<conn, bl, r, req, round, paired>>
serverVars == <<acceptor, handler, ping>>
wire == <<c2s, s2c>>
ends == <<main, verdict, holder, blocked>>
vars == <<program, ends, clientVars, serverVars, wire, faults>>

Port(p) == IF program[p] = "demo" THEN 6969 ELSE 8080

Init ==
    /\ program \in [Procs -> {"demo", "test"}]
    /\ main = [p \in Procs |-> "start"]
    /\ verdict = [p \in Procs |-> "none"]
    /\ holder = [q \in {6969, 8080} |-> Nobody]
    /\ acceptor = [p \in Procs |-> "none"]
    /\ conn = [p \in Procs |-> "none"]
    /\ bl = [p \in Procs |-> <<>>]
    /\ r = [p \in Procs |-> <<>>]
    /\ req = [p \in Procs |-> 0]
    /\ c2s = [p \in Procs |-> <<>>]
    /\ s2c = [p \in Procs |-> <<>>]
    /\ handler = [p \in Procs |-> "none"]
    /\ ping = [p \in Procs |-> 0]
    /\ round = [p \in Procs |-> 0]
    /\ paired = [p \in Procs |-> TRUE]
    /\ blocked = [p \in Procs |-> Nobody]
    /\ faults = 0

To(p, l) == main' = [main EXCEPT ![p] = l]
Fault == faults < MaxFaults /\ faults' = faults + 1
Running(p) == main[p] # "over"

-----------------------------------------------------------------------------
(* main, and TestMemoryTransport.                                          *)

Fails(p, how) == verdict' = [verdict EXCEPT ![p] = how]

(* Without its port the demo prints and returns, the test is fatal.        *)
Listen(p) ==
    /\ main[p] = "start"
    /\ UNCHANGED <<program, clientVars, handler, ping, wire, faults>>
    /\ \/ /\ holder[Port(p)] = Nobody
          /\ holder' = [holder EXCEPT ![Port(p)] = p]
          /\ acceptor' = [acceptor EXCEPT ![p] = "accepting"]
          /\ To(p, "dial")
          /\ UNCHANGED <<verdict, blocked>>
       \/ /\ holder[Port(p)] # Nobody
          /\ blocked' = [blocked EXCEPT ![p] = holder[Port(p)]]
          /\ IF program[p] = "demo" THEN Fails(p, "refused") /\ To(p, "over")
             ELSE Fails(p, "failed") /\ To(p, "listener")
          /\ UNCHANGED <<holder, acceptor>>

Dial(p) ==
    /\ main[p] = "dial"
    /\ conn' = [conn EXCEPT ![p] = "open"]
    /\ To(p, "send")
    /\ UNCHANGED <<program, verdict, holder, blocked, bl, r, req, round, paired,
                   serverVars, wire, faults>>

(* The demo prints the error and uses the nil client: it panics.           *)
DialFail(p) ==
    /\ main[p] = "dial"
    /\ Fault
    /\ Fails(p, IF program[p] = "demo" THEN "panicked" ELSE "failed")
    /\ To(p, "unlisten")
    /\ UNCHANGED <<program, holder, blocked, clientVars, serverVars, wire>>

(* httpTransportClient.Send: r has room for one request.                   *)
EnqueueKeeps(p, n) ==           \* faulty: the request stays in bl as well
    /\ bl' = [bl EXCEPT ![p] = Append(@, n)]
    /\ r' = IF r[p] = <<>> THEN [r EXCEPT ![p] = <<Head(bl'[p])>>] ELSE r

EnqueueNot(p, n) ==             \* faulty: the request never reaches r
    /\ bl' = [bl EXCEPT ![p] = Append(@, n)]
    /\ r' = r

Enqueue(p, n) ==
    LET all == Append(bl[p], n)
    IN  \/ r[p] = <<>> /\ r' = [r EXCEPT ![p] = <<Head(all)>>]
                       /\ bl' = [bl EXCEPT ![p] = Tail(all)]
        \/ r[p] # <<>> /\ bl' = [bl EXCEPT ![p] = all] /\ UNCHANGED r

Send(p) ==
    /\ main[p] = "send"
    /\ Enqueue(p, round[p])
    /\ UNCHANGED <<program, verdict, holder, blocked, conn, req, round, paired,
                   serverVars, s2c, faults>>
    /\ \/ conn[p] = "open" /\ c2s' = [c2s EXCEPT ![p] = Append(@, round[p])] /\ To(p, "recv")
       \/ conn[p] = "cut" /\ To(p, "close") /\ UNCHANGED c2s

(* Recv takes a request, then reads the response.                          *)
RecvRequest(p) ==
    /\ main[p] = "recv"
    /\ r[p] # <<>>
    /\ req' = [req EXCEPT ![p] = Head(r[p])]
    /\ r' = [r EXCEPT ![p] = Tail(@)]
    /\ To(p, "read")
    /\ UNCHANGED <<program, verdict, holder, blocked, conn, bl, round, paired,
                   serverVars, wire, faults>>

RecvResponse(p) ==
    /\ main[p] = "read"
    /\ s2c[p] # <<>>
    /\ s2c' = [s2c EXCEPT ![p] = Tail(@)]
    /\ paired' = [paired EXCEPT ![p] = @ /\ Head(s2c[p]) = req[p]]
    /\ round' = [round EXCEPT ![p] = @ + 1]
    /\ To(p, IF round[p] + 1 = Rounds THEN "close" ELSE "send")
    /\ UNCHANGED <<program, verdict, holder, blocked, conn, bl, r, req, serverVars,
                   c2s, faults>>

RecvError(p) ==
    /\ main[p] = "read"
    /\ conn[p] = "cut"
    /\ To(p, "close")
    /\ UNCHANGED <<program, verdict, holder, blocked, clientVars, serverVars, wire, faults>>

-----------------------------------------------------------------------------
(* The deferred calls, in their order.                                     *)

CloseNot(p) ==                  \* faulty: the connection is left open
    /\ main[p] = "close"
    /\ To(p, "unlisten")
    /\ UNCHANGED <<program, verdict, holder, blocked, clientVars, serverVars, wire, faults>>

Close(p) ==
    /\ main[p] = "close"
    /\ conn' = [conn EXCEPT ![p] = "closed"]
    /\ s2c' = [s2c EXCEPT ![p] = <<>>]
    /\ To(p, "unlisten")
    /\ UNCHANGED <<program, verdict, holder, blocked, bl, r, req, round, paired,
                   serverVars, c2s, faults>>

(* What a process leaves running ends with it.                             *)
Exit(p) ==
    /\ To(p, "over")
    /\ acceptor' = [acceptor EXCEPT ![p] = "none"]
    /\ handler' = [handler EXCEPT ![p] = IF @ = "none" THEN @ ELSE "ended"]

Outcome(p) == verdict' = [verdict EXCEPT ![p] = IF @ = "none" THEN "ok" ELSE @]

UnlistenNot(p) ==               \* faulty: the test leaves its listener open
    /\ main[p] = "unlisten"
    /\ UNCHANGED <<program, blocked, clientVars, ping, wire, faults>>
    /\ \/ /\ program[p] = "demo" /\ Exit(p) /\ Outcome(p)
          /\ holder' = [holder EXCEPT ![Port(p)] = Nobody]
       \/ /\ program[p] = "test" /\ To(p, "finish")
          /\ UNCHANGED <<holder, verdict, acceptor, handler>>

Unlisten(p) ==
    /\ main[p] = "unlisten"
    /\ holder' = [holder EXCEPT ![Port(p)] = Nobody]
    /\ UNCHANGED <<program, blocked, clientVars, ping, wire, faults>>
    /\ \/ program[p] = "demo" /\ Exit(p) /\ Outcome(p)
       \/ program[p] = "test" /\ To(p, "finish") /\ UNCHANGED <<verdict, acceptor, handler>>

(* The test is over, the process goes on with TestListener.                *)
Finish(p) ==
    /\ main[p] = "finish"
    /\ Outcome(p)
    /\ To(p, "listener")
    /\ UNCHANGED <<program, holder, blocked, clientVars, serverVars, wire, faults>>

(* Accept returns the error of the closed listener: t.Fatalf fails the     *)
(* test, or panics when the test has completed.                            *)
AcceptError(p) ==
    /\ acceptor[p] = "accepting"
    /\ main[p] \in {"finish", "listener", "again"}
    /\ UNCHANGED <<program, blocked, clientVars, ping, wire, faults>>
    /\ \/ /\ main[p] = "finish"
          /\ Fails(p, "failed")
          /\ acceptor' = [acceptor EXCEPT ![p] = "stopped"]
          /\ UNCHANGED <<main, holder, handler>>
       \/ /\ main[p] # "finish"
          /\ Fails(p, "panicked")
          /\ holder' = [holder EXCEPT ![8080] = IF @ = p THEN Nobody ELSE @]
          /\ Exit(p)

(* TestListener: two listeners on ports of their own, one on 8080, and a   *)
(* second one there, which has to fail.                                    *)
TestListener(p) ==
    /\ main[p] = "listener"
    /\ UNCHANGED <<program, clientVars, ping, wire, faults>>
    /\ \/ /\ holder[8080] = Nobody
          /\ holder' = [holder EXCEPT ![8080] = p]
          /\ To(p, "again")
          /\ UNCHANGED <<verdict, blocked, acceptor, handler>>
       \/ /\ holder[8080] # Nobody
          /\ blocked' = [blocked EXCEPT ![p] = holder[8080]]
          /\ Fails(p, "failed")
          /\ Exit(p)
          /\ UNCHANGED holder

ListenAgain(p) ==
    /\ main[p] = "again"
    /\ IF holder[8080] = Nobody THEN Fails(p, "failed") ELSE UNCHANGED verdict
    /\ holder' = [holder EXCEPT ![8080] = Nobody]
    /\ Exit(p)
    /\ UNCHANGED <<program, blocked, clientVars, ping, wire, faults>>

-----------------------------------------------------------------------------
(* The server: Accept calls SockHandler with the first request.            *)

serverFrame == <<program, ends, clientVars, faults>>

Accept(p) ==
    /\ acceptor[p] = "accepting"
    /\ handler[p] = "none"
    /\ c2s[p] # <<>>
    /\ handler' = [handler EXCEPT ![p] = "recv"]
    /\ UNCHANGED <<serverFrame, acceptor, ping, wire>>

HandlerRecv(p) ==
    /\ handler[p] = "recv"
    /\ c2s[p] # <<>>
    /\ ping' = [ping EXCEPT ![p] = Head(c2s[p])]
    /\ c2s' = [c2s EXCEPT ![p] = Tail(@)]
    /\ handler' = [handler EXCEPT ![p] = "send"]
    /\ UNCHANGED <<serverFrame, acceptor, s2c>>

HandlerSend(p) ==
    /\ handler[p] = "send"
    /\ conn[p] = "open"
    /\ s2c' = [s2c EXCEPT ![p] = Append(@, ping[p])]
    /\ handler' = [handler EXCEPT ![p] = "recv"]
    /\ UNCHANGED <<serverFrame, acceptor, ping, c2s>>

(* Recv or Send fails: the client has closed, or the connection broke.     *)
HandlerEnd(p) ==
    /\ handler[p] \in {"recv", "send"}
    /\ conn[p] # "open"
    /\ handler' = [handler EXCEPT ![p] = "ended"]
    /\ UNCHANGED <<serverFrame, acceptor, ping, wire>>

(* The network breaks a connection; what is on it may be lost.             *)
Cut(p) ==
    /\ Running(p) /\ conn[p] = "open"
    /\ Fault
    /\ conn' = [conn EXCEPT ![p] = "cut"]
    /\ s2c' \in {s2c, [s2c EXCEPT ![p] = <<>>]}
    /\ UNCHANGED <<program, ends, bl, r, req, round, paired, serverVars, c2s>>

-----------------------------------------------------------------------------
ProgramStep(p) ==
    \/ Listen(p) \/ Dial(p) \/ Send(p) \/ RecvRequest(p) \/ RecvResponse(p) \/ RecvError(p)
    \/ Close(p) \/ Unlisten(p) \/ Finish(p)
SockHandler(p) == Accept(p) \/ HandlerRecv(p) \/ HandlerSend(p) \/ HandlerEnd(p)

Next == \E p \in Procs : ProgramStep(p) \/ SockHandler(p) \/ DialFail(p) \/ Cut(p)
                      \/ AcceptError(p) \/ TestListener(p) \/ ListenAgain(p)

Spec == Init /\ [][Next]_vars

(* Goroutines that can run do; faults are never forced, and neither is     *)
(* TestListener: a test binary may have other tests to run first.          *)
Fairness == \A p \in Procs : WF_vars(ProgramStep(p)) /\ WF_vars(SockHandler(p))
FairSpec == Spec /\ Fairness

-----------------------------------------------------------------------------
(* Every response is read as the response to the request it answers,       *)
(* though only the order of a queue of capacity one says which that is.    *)
Paired == \A p \in Procs : paired[p]

(* The tests of one process follow one another on the same port: a listen  *)
(* is only refused for the listener of another process.                    *)
PortsPassOn == \A p \in Procs : blocked[p] # p

(* The demo and TestMemoryTransport come to their end, whatever fails or   *)
(* breaks.                                                                 *)
ProgramsEnd == \A p \in Procs : <>(main[p] \in {"listener", "again", "over"})

(* The handler of a test's connection ends with its client, though the     *)
(* process lives on and no timeout is set.                                 *)
HandlersEnd == \A p \in Procs : main[p] = "finish" ~> handler[p] \in {"none", "ended"}
=============================================================================
