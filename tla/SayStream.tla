------------------------------ MODULE SayStream ------------------------------
(***************************************************************************)
(* The two streams of example2: GetStreamValues and TsBidirectionalStream  *)
(* in cli/main.go, Say.Stream and Say.BidirectionalStream in               *)
(* handler/sayhello.go, the generated wrappers between them                *)
(* (proto/rpcapi/rpcapi.micro.go), and the library underneath: the streams *)
(* of client and server, ServeConn, and the HTTP transport's sockets.      *)
(*                                                                         *)
(* A client process runs the two streams one after the other, each on a    *)
(* connection of its own, with one server goroutine per connection.  The   *)
(* server's rpcStream.Send reports no error, a reader learns of the end of *)
(* a stream from a last message (EOS), and a socket closed with unread     *)
(* data is reset, which its peer does not read as io.EOF.                  *)
(***************************************************************************)
EXTENDS Integers, Sequences

CONSTANTS
    Clients,    \* client processes
    Count,      \* SRequest.Count asked of Say.Stream (10 in the example)
    Rounds,     \* request/response rounds of the other stream (7)
    Retries,    \* CallOptions.Retries (3)
    MaxFaults   \* bound on failures of processes and connections

ASSUME StreamAssumption ==
    Count \in Nat /\ Rounds \in Nat /\ Retries \in Nat /\ MaxFaults \in Nat

Kinds == {"values", "bidi"}
Sessions == Clients \X Kinds

VARIABLES
    pc,         \* where a client process stands
    tries,      \* its failed attempts to open the current stream
    round,      \* the loop variable i of TsBidirectionalStream
    got,        \* responses received on a stream
    status,     \* how the client left a stream: reading, eof, broken
    clientEnd,  \* the client's end of the connection: none, open, closed
    serverEnd,  \* the server's
    reset,      \* the connection was reset: the server's reads fail
    toServer,   \* messages on their way
    toClient,
    handler,    \* where the server goroutine of a connection stands
    sent,       \* responses it has sent
    serverUp,   \* the server process runs
    faults

clientVars == <<pc, tries, round, got, status>>
wireVars == <<clientEnd, serverEnd, reset, toServer, toClient>>
serverVars == <<handler, sent>>
vars == <<clientVars, wireVars, serverVars, serverUp, faults>>

EOS == 0            \* lastStreamResponseError; a value is a positive number

Values(p) == <<p, "values">>
Bidi(p) == <<p, "bidi">>
Current(p) == IF pc[p] \in {"open values", "ask", "read"} THEN Values(p) ELSE Bidi(p)

Init ==
    /\ pc = [p \in Clients |-> "open values"]
    /\ tries = [p \in Clients |-> 0]
    /\ round = [p \in Clients |-> 0]
    /\ got = [s \in Sessions |-> <<>>]
    /\ status = [s \in Sessions |-> "reading"]
    /\ clientEnd = [s \in Sessions |-> "none"]
    /\ serverEnd = [s \in Sessions |-> "none"]
    /\ reset = [s \in Sessions |-> FALSE]
    /\ toServer = [s \in Sessions |-> <<>>]
    /\ toClient = [s \in Sessions |-> <<>>]
    /\ handler = [s \in Sessions |-> "none"]
    /\ sent = [s \in Sessions |-> 0]
    /\ serverUp = TRUE
    /\ faults = 0

-----------------------------------------------------------------------------
(* The client.                                                             *)

Goto(p, l) == pc' = [pc EXCEPT ![p] = l]

(* Closing a socket with unread data resets the connection.                *)
CloseClient(s) ==
    /\ clientEnd' = [clientEnd EXCEPT ![s] = "closed"]
    /\ reset' = [reset EXCEPT ![s] = @ \/ toClient[s] # <<>>]
    /\ toClient' = [toClient EXCEPT ![s] = <<>>]

(* panic(err), or the end of the process: the kernel closes its sockets.   *)
Die(p) ==
    /\ Goto(p, "dead")
    /\ clientEnd' = [s \in Sessions |->
          IF s[1] = p /\ clientEnd[s] = "open" THEN "closed" ELSE clientEnd[s]]
    /\ reset' = [s \in Sessions |->
          reset[s] \/ (s[1] = p /\ clientEnd[s] = "open" /\ toClient[s] # <<>>)]
    /\ toClient' = [s \in Sessions |->
          IF s[1] = p /\ clientEnd[s] = "open" THEN <<>> ELSE toClient[s]]

AfterOpen(p) == IF pc[p] = "open values" THEN "ask" ELSE "send"

(* rpcClient.Stream: dial and send the empty first request.                *)
Open(p) ==
    /\ pc[p] \in {"open values", "open bidi"}
    /\ serverUp
    /\ Goto(p, AfterOpen(p))
    /\ tries' = [tries EXCEPT ![p] = 0]
    /\ clientEnd' = [clientEnd EXCEPT ![Current(p)] = "open"]
    /\ serverEnd' = [serverEnd EXCEPT ![Current(p)] = "open"]
    /\ toServer' = [toServer EXCEPT ![Current(p)] = <<0>>]
    /\ handler' = [handler EXCEPT ![Current(p)] = "accepted"]
    /\ UNCHANGED <<round, got, status, reset, toClient, sent, serverUp, faults>>

MoreTries(p) == tries[p] < Retries

OpenFailUncounted(p) ==     \* faulty: the loop variable is not advanced
    /\ pc[p] \in {"open values", "open bidi"}
    /\ faults < MaxFaults \/ ~serverUp
    /\ faults' = IF serverUp THEN faults + 1 ELSE faults
    /\ UNCHANGED <<clientVars, wireVars, serverVars, serverUp>>

(* The dial or the first write fails: tried again, Retries times.  Stream  *)
(* returns at once when the selector finds no node, before its first try.  *)
OpenFail(p) ==
    /\ pc[p] \in {"open values", "open bidi"}
    /\ faults < MaxFaults \/ ~serverUp
    /\ faults' = IF serverUp THEN faults + 1 ELSE faults
    /\ \/ /\ MoreTries(p)
          /\ tries' = [tries EXCEPT ![p] = @ + 1]
          /\ UNCHANGED <<pc, status, clientEnd, reset, toClient>>
       \/ /\ tries[p] = 0 \/ ~MoreTries(p)
          /\ Die(p)
          /\ status' = [status EXCEPT ![Current(p)] = "broken"]
          /\ UNCHANGED tries
    /\ UNCHANGED <<round, got, serverEnd, toServer, serverVars, serverUp>>

Reaches(s) == serverEnd[s] = "open" /\ ~reset[s]
Write(s, m) ==
    toServer' = IF Reaches(s) THEN [toServer EXCEPT ![s] = Append(@, m)] ELSE toServer

(* sayService.Stream sends the request proper; a failed write panics.      *)
Ask(p) ==
    /\ pc[p] = "ask"
    /\ Write(Values(p), Count)
    /\ Goto(p, "read")
    /\ UNCHANGED <<tries, round, got, status, clientEnd, serverEnd, reset, toClient,
                   serverVars, serverUp, faults>>

AskFail(p) ==
    /\ pc[p] = "ask"
    /\ ~Reaches(Values(p))
    /\ Die(p)
    /\ status' = [status EXCEPT ![Values(p)] = "broken"]
    /\ UNCHANGED <<tries, round, got, serverEnd, toServer, serverVars, serverUp, faults>>

(* rpcStream.Recv returns a value.                                         *)
Receive(s) ==
    /\ toClient[s] # <<>>
    /\ Head(toClient[s]) # EOS
    /\ got' = [got EXCEPT ![s] = Append(@, Head(toClient[s]))]
    /\ toClient' = [toClient EXCEPT ![s] = Tail(@)]

ReadValue(p) ==
    /\ pc[p] = "read"
    /\ Receive(Values(p))
    /\ UNCHANGED <<pc, tries, round, status, clientEnd, serverEnd, reset, toServer,
                   serverVars, serverUp, faults>>

(* EOS is io.EOF: the loop ends and the stream is closed.                  *)
ReadEof(p) ==
    /\ pc[p] = "read"
    /\ toClient[Values(p)] # <<>>
    /\ Head(toClient[Values(p)]) = EOS
    /\ status' = [status EXCEPT ![Values(p)] = "eof"]
    /\ clientEnd' = [clientEnd EXCEPT ![Values(p)] = "closed"]
    /\ toClient' = [toClient EXCEPT ![Values(p)] = <<>>]
    /\ Goto(p, "open bidi")
    /\ UNCHANGED <<tries, round, got, serverEnd, reset, toServer, serverVars,
                   serverUp, faults>>

RecvFailIsEof(p) ==         \* faulty: io.EOF is not made io.ErrUnexpectedEOF
    /\ pc[p] = "read"
    /\ toClient[Values(p)] = <<>>
    /\ ~Reaches(Values(p))
    /\ status' = [status EXCEPT ![Values(p)] = "eof"]
    /\ CloseClient(Values(p))
    /\ Goto(p, "open bidi")
    /\ UNCHANGED <<tries, round, got, serverEnd, toServer, serverVars, serverUp, faults>>

(* Recv on a connection the server has left is an error, and both loops    *)
(* panic on an error.                                                      *)
RecvFail(p) ==
    /\ pc[p] \in {"read", "recv"}
    /\ toClient[Current(p)] = <<>>
    /\ ~Reaches(Current(p))
    /\ Die(p)
    /\ status' = [status EXCEPT ![Current(p)] = "broken"]
    /\ UNCHANGED <<tries, round, got, serverEnd, toServer, serverVars, serverUp, faults>>

SendAhead(p) ==             \* faulty: does not wait for the response
    /\ pc[p] = "send"
    /\ round[p] < Rounds
    /\ Write(Bidi(p), round[p])
    /\ round' = [round EXCEPT ![p] = @ + 1]
    /\ UNCHANGED <<pc, tries, got, status, clientEnd, serverEnd, reset, toClient,
                   serverVars, serverUp, faults>>

Send(p) ==
    /\ pc[p] = "send"
    /\ round[p] < Rounds
    /\ Write(Bidi(p), round[p])
    /\ Goto(p, "recv")
    /\ UNCHANGED <<tries, round, got, status, clientEnd, serverEnd, reset, toClient,
                   serverVars, serverUp, faults>>

RecvRound(p) ==
    /\ pc[p] = "recv"
    /\ Receive(Bidi(p))
    /\ round' = [round EXCEPT ![p] = @ + 1]
    /\ Goto(p, "send")
    /\ UNCHANGED <<tries, status, clientEnd, serverEnd, reset, toServer, serverVars,
                   serverUp, faults>>

(* After the last round, or a failed write, the stream is closed and main  *)
(* waits for a signal.                                                     *)
Over(p) == round[p] = Rounds \/ ~Reaches(Bidi(p))

Finish(p) ==
    /\ pc[p] = "send"
    /\ Over(p)
    /\ status' = [status EXCEPT ![Bidi(p)] = IF round[p] = Rounds THEN "eof" ELSE "broken"]
    /\ CloseClient(Bidi(p))
    /\ Goto(p, "waiting")
    /\ UNCHANGED <<tries, round, got, serverEnd, toServer, serverVars, serverUp, faults>>

-----------------------------------------------------------------------------
(* The server goroutine of a connection.                                   *)

serverFrame == <<clientVars, clientEnd, serverUp, faults>>

HandlerTo(s, l) == handler' = [handler EXCEPT ![s] = l]

CloseServer(s) == serverEnd' = [serverEnd EXCEPT ![s] = "closed"]

(* A write is never reported as failed; one to a closed socket resets it.  *)
SendToClient(s, m) ==
    IF clientEnd[s] = "open" /\ ~reset[s]
      THEN toClient' = [toClient EXCEPT ![s] = Append(@, m)] /\ UNCHANGED reset
      ELSE reset' = [reset EXCEPT ![s] = TRUE] /\ UNCHANGED toClient

Arrived(s) == toServer[s] # <<>>
Eof(s) == toServer[s] = <<>> /\ clientEnd[s] = "closed" /\ ~reset[s]
Broken(s) == reset[s]

Take(s) == toServer' = [toServer EXCEPT ![s] = Tail(@)]

(* ServeConn reads the first request and the router calls the handler.     *)
Accept(s) ==
    /\ handler[s] = "accepted"
    /\ Arrived(s)
    /\ Take(s)
    /\ HandlerTo(s, IF s[2] = "values" THEN "request" ELSE "recv")
    /\ UNCHANGED <<serverFrame, serverEnd, reset, toClient, sent>>

(* sayHandler.Stream reads the request before Say.Stream runs.             *)
ReadRequest(s) ==
    /\ handler[s] = "request"
    /\ Arrived(s)
    /\ Take(s)
    /\ HandlerTo(s, "stream")
    /\ UNCHANGED <<serverFrame, serverEnd, reset, toClient, sent>>

(* A read fails: ServeConn returns, the wrapper's error goes to nobody.    *)
ReadFail(s) ==
    /\ handler[s] \in {"accepted", "request"}
    /\ Eof(s) \/ Broken(s)
    /\ HandlerTo(s, "done")
    /\ CloseServer(s)
    /\ UNCHANGED <<serverFrame, reset, toServer, toClient, sent>>

(* Say.Stream: one response per turn of its loop.                          *)
SendValue(s) ==
    /\ handler[s] = "stream"
    /\ sent[s] < Count
    /\ SendToClient(s, sent[s] + 1)
    /\ sent' = [sent EXCEPT ![s] = @ + 1]
    /\ UNCHANGED <<serverFrame, serverEnd, toServer, handler>>

(* It returns nil: ServeConn writes EOS as an error and closes.            *)
SendEos(s) ==
    /\ handler[s] = "stream"
    /\ sent[s] = Count
    /\ SendToClient(s, EOS)
    /\ HandlerTo(s, "done")
    /\ CloseServer(s)
    /\ UNCHANGED <<serverFrame, toServer, sent>>

(* Say.BidirectionalStream: a request, then its response.                  *)
RecvRequest(s) ==
    /\ handler[s] = "recv"
    /\ Arrived(s)
    /\ Take(s)
    /\ HandlerTo(s, "reply")
    /\ UNCHANGED <<serverFrame, serverEnd, reset, toClient, sent>>

Reply(s) ==
    /\ handler[s] = "reply"
    /\ SendToClient(s, sent[s] + 1)
    /\ sent' = [sent EXCEPT ![s] = @ + 1]
    /\ HandlerTo(s, "recv")
    /\ UNCHANGED <<serverFrame, serverEnd, toServer>>

RecvEofUnchecked(s) ==      \* faulty: io.EOF is an error like any other
    /\ handler[s] = "recv"
    /\ Eof(s)
    /\ HandlerTo(s, "panicked")
    /\ CloseServer(s)
    /\ UNCHANGED <<serverFrame, reset, toServer, toClient, sent>>

(* io.EOF ends the loop, and ServeConn reads EOF once more and returns.    *)
RecvEof(s) ==
    /\ handler[s] = "recv"
    /\ Eof(s)
    /\ HandlerTo(s, "done")
    /\ CloseServer(s)
    /\ UNCHANGED <<serverFrame, reset, toServer, toClient, sent>>

RecvPanicIgnored(s) ==      \* faulty: prints the error and goes on
    /\ handler[s] = "recv"
    /\ Broken(s)
    /\ UNCHANGED vars

(* Any other error is printed and the nil request dereferenced: a panic,   *)
(* recovered by ServeConn, which closes the socket.                        *)
RecvPanic(s) ==
    /\ handler[s] = "recv"
    /\ Broken(s)
    /\ HandlerTo(s, "panicked")
    /\ CloseServer(s)
    /\ UNCHANGED <<serverFrame, reset, toServer, toClient, sent>>

-----------------------------------------------------------------------------
(* Failures.                                                               *)

KillClient(p) ==
    /\ faults < MaxFaults
    /\ pc[p] # "dead"
    /\ faults' = faults + 1
    /\ Die(p)
    /\ UNCHANGED <<tries, round, got, status, serverEnd, toServer, serverVars, serverUp>>

(* The connection breaks: neither end gets what is on its way.             *)
Cut(s) ==
    /\ faults < MaxFaults
    /\ serverEnd[s] = "open"
    /\ ~reset[s]
    /\ faults' = faults + 1
    /\ reset' = [reset EXCEPT ![s] = TRUE]
    /\ toServer' = [toServer EXCEPT ![s] = <<>>]
    /\ toClient' = [toClient EXCEPT ![s] = <<>>]
    /\ UNCHANGED <<clientVars, clientEnd, serverEnd, serverVars, serverUp>>

CrashServer ==
    /\ faults < MaxFaults
    /\ serverUp
    /\ faults' = faults + 1
    /\ serverUp' = FALSE
    /\ handler' = [s \in Sessions |-> IF serverEnd[s] = "open" THEN "killed" ELSE handler[s]]
    /\ serverEnd' = [s \in Sessions |-> IF serverEnd[s] = "open" THEN "closed" ELSE serverEnd[s]]
    /\ UNCHANGED <<clientVars, clientEnd, reset, toServer, toClient, sent>>

RestartServer ==
    /\ ~serverUp
    /\ serverUp' = TRUE
    /\ UNCHANGED <<clientVars, wireVars, serverVars, faults>>

-----------------------------------------------------------------------------
ClientStep(p) ==
    \/ Open(p) \/ OpenFail(p)
    \/ Ask(p) \/ AskFail(p) \/ ReadValue(p) \/ ReadEof(p)
    \/ Send(p) \/ RecvRound(p) \/ Finish(p)
    \/ RecvFail(p)

ServerStep(s) ==
    \/ Accept(s) \/ ReadRequest(s) \/ ReadFail(s) \/ SendValue(s) \/ SendEos(s)
    \/ RecvRequest(s) \/ Reply(s) \/ RecvEof(s) \/ RecvPanic(s)

Next ==
    \/ \E p \in Clients : ClientStep(p) \/ KillClient(p)
    \/ \E s \in Sessions : ServerStep(s) \/ Cut(s)
    \/ CrashServer
    \/ RestartServer

Spec == Init /\ [][Next]_vars

(* Goroutines and processes that can run do.                               *)
Fairness ==
    /\ \A p \in Clients : WF_vars(ClientStep(p))
    /\ \A s \in Sessions : WF_vars(ServerStep(s))

FairSpec == Spec /\ Fairness

-----------------------------------------------------------------------------
Running == {"accepted", "request", "stream", "recv", "reply"}
Idle(p) == pc[p] \in {"waiting", "dead"}

(* Every variable has its type, and a client tries to open a stream at     *)
(* most Retries + 1 times.                                                 *)
TypeOK ==
    /\ pc \in [Clients -> {"open values", "ask", "read", "open bidi", "send",
                           "recv", "waiting", "dead"}]
    /\ tries \in [Clients -> 0 .. Retries]
    /\ round \in [Clients -> 0 .. Rounds]
    /\ got \in [Sessions -> Seq(Nat)]
    /\ status \in [Sessions -> {"reading", "eof", "broken"}]
    /\ clientEnd \in [Sessions -> {"none", "open", "closed"}]
    /\ serverEnd \in [Sessions -> {"none", "open", "closed"}]
    /\ reset \in [Sessions -> BOOLEAN]
    /\ toServer \in [Sessions -> Seq(Nat)]
    /\ toClient \in [Sessions -> Seq(Nat)]
    /\ handler \in [Sessions -> Running \cup {"none", "done", "panicked", "killed"}]
    /\ sent \in [Sessions -> Nat]
    /\ serverUp \in BOOLEAN
    /\ faults \in 0 .. MaxFaults

(* Each stream, as its client sees it, is a stream as StreamPromise        *)
(* describes it: all the answers in order, then the end, or else an error; *)
(* a broken connection or a dead server is never taken for the end.  The   *)
(* other stream has an answer for each round.                              *)
Due(s) == IF s[2] = "values" THEN Count ELSE Rounds
Promise(s) == INSTANCE StreamPromise
                WITH Count <- Due(s), got <- got[s], status <- status[s]

StreamKept ==
    /\ \A s \in Sessions : Promise(s)!Init
    /\ [][\A s \in Sessions :
             [Promise(s)!Next]_<<got[s], status[s]>>]_<<got, status>>

(* The two sides of the other stream stay in step although a response says *)
(* nothing of its request: the i-th response goes to the round that sent   *)
(* the i-th request, and once the empty request that opens the stream is   *)
(* read, never more than one message is on its way.                        *)
InStep ==
    \A p \in Clients : LET s == Bidi(p) IN
        /\ got[s] = [i \in 1 .. round[p] |-> i]
        /\ handler[s] \in {"recv", "reply"} => Len(toServer[s]) + Len(toClient[s]) <= 1
        /\ pc[p] = "send" /\ serverEnd[s] = "open" => sent[s] = round[p]

(* When nothing fails, no client and no handler panics: a client that      *)
(* finishes a stream and closes it does not break the server's side.       *)
NoHarm ==
    faults = 0 =>
        /\ \A p \in Clients : pc[p] # "dead"
        /\ \A s \in Sessions : handler[s] # "panicked"

(* Every client comes to its end: it waits for its signal, or it panics.   *)
ClientsEnd == \A p \in Clients : <>Idle(p)

(* No handler outlives its client: when the client's end of the connection *)
(* is closed, its server goroutine ends and closes the other end.          *)
HandlersEnd ==
    \A s \in Sessions :
        clientEnd[s] = "closed" ~> (handler[s] \notin Running /\ serverEnd[s] = "closed")
=============================================================================
