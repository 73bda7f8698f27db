----------------------------- MODULE RpcPromise -----------------------------
(***************************************************************************)
(* What a server promises the clients of its service, with nothing said of *)
(* the router, its request objects or the goroutines that share them.  The *)
(* methods it answers are fixed before it serves.  A client with a         *)
(* connection of its own makes one call after the other; each is answered  *)
(* at most once, with the reply of the method it named under the number of *)
(* the call itself, or its connection is closed and never used again.      *)
(***************************************************************************)
EXTENDS Naturals

CONSTANTS
    Clients,
    Endpoints,      \* the methods a client may name
    Replies,        \* what each of them answers
    None

VARIABLES
    server,         \* starting, serving, or down
    answered,       \* the methods it answers
    conn,           \* of a client: idle, asking, or closed
    asked,          \* the method of its last call
    calls,          \* the number of that call
    answer,         \* the response it has not read yet
    client          \* what it does: ready, waiting, panicked

promiseVars == <<server, answered, conn, asked, calls, answer, client>>

Init ==
    /\ server = "starting"
    /\ answered = {}
    /\ conn = [c \in Clients |-> "idle"]
    /\ asked = [c \in Clients |-> None]
    /\ calls = [c \in Clients |-> 0]
    /\ answer = [c \in Clients |-> None]
    /\ client = [c \in Clients |-> "ready"]

(* main hands the object to the router, then serves or gives up.           *)
Install ==
    /\ server = "starting"
    /\ answered' \in SUBSET Endpoints
    /\ UNCHANGED <<server, conn, asked, calls, answer, client>>

Serve ==
    /\ server = "starting"
    /\ server' \in {"serving", "down"}
    /\ UNCHANGED <<answered, conn, asked, calls, answer, client>>

(* A process that serves may die, and does not come back.                  *)
Die ==
    /\ server = "serving"
    /\ server' = "down"
    /\ UNCHANGED <<answered, conn, asked, calls, answer, client>>

Call(c) ==
    /\ server = "serving"
    /\ client[c] = "ready" /\ conn[c] = "idle"
    /\ calls' = [calls EXCEPT ![c] = @ + 1]
    /\ \E m \in Endpoints : asked' = [asked EXCEPT ![c] = m]
    /\ conn' = [conn EXCEPT ![c] = "asking"]
    /\ client' = [client EXCEPT ![c] = "waiting"]
    /\ UNCHANGED <<server, answered, answer>>

Answer(c) ==
    /\ server = "serving"
    /\ conn[c] = "asking"
    /\ asked[c] \in answered
    /\ conn' = [conn EXCEPT ![c] = "idle"]
    /\ answer' = [answer EXCEPT ![c] =
                    [call |-> <<c, calls[c]>>, value |-> Replies[asked[c]]]]
    /\ UNCHANGED <<server, answered, asked, calls, client>>

Refuse(c) ==
    /\ server = "serving"
    /\ conn[c] = "asking"
    /\ conn' = [conn EXCEPT ![c] = "closed"]
    /\ UNCHANGED <<server, answered, asked, calls, answer, client>>

Read(c) ==
    /\ client[c] = "waiting" /\ answer[c] # None
    /\ client' = [client EXCEPT ![c] = "ready"]
    /\ answer' = [answer EXCEPT ![c] = None]
    /\ UNCHANGED <<server, answered, conn, asked, calls>>

(* The call fails only with its connection or the server.                  *)
Fail(c) ==
    /\ client[c] = "waiting"
    /\ conn[c] = "closed" \/ server = "down"
    /\ client' = [client EXCEPT ![c] = "panicked"]
    /\ UNCHANGED <<server, answered, conn, asked, calls, answer>>

Next ==
    \/ Install \/ Serve \/ Die
    \/ \E c \in Clients : Call(c) \/ Answer(c) \/ Refuse(c) \/ Read(c) \/ Fail(c)

Spec == Init /\ [][Next]_promiseVars
=============================================================================
