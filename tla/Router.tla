------------------------------- MODULE Router -------------------------------
(***************************************************************************)
(* A server program from main to its handlers: it hands its object to the  *)
(* router and its function to a topic, then serves requests, a goroutine   *)
(* per connection, and messages, a goroutine per handler.  The router      *)
(* recycles the objects that stand for requests through one free list.     *)
(* example1 and example2 are the programs of the repository; "other"       *)
(* offers one method, or one function, of any signature.                   *)
(***************************************************************************)
EXTENDS Naturals, Sequences, FiniteSets

CONSTANTS Clients,      \* client programs, each with a connection of its own
          Objects,      \* request objects the process may come to allocate
          MaxCalls,     \* bound: calls of a client
          None

ASSUME CallAssumption == MaxCalls \in Nat
ASSUME NoneAssumption == None \notin Clients \cup Objects

VARIABLES program,      \* which program is run
          shape,        \* the signature "other" offers
          main,         \* where main is
          methods,      \* router.serviceMap["Say"].method; {} when there is no service
          free,         \* router.freeReq, a stack of request objects
          made,         \* request objects allocated so far
          stage,        \* stage[c]: the goroutine serving the connection of c
          using,        \* using[c]: the request object it has
          msg,          \* msg[o]: the call in the message object o carries
          asked,        \* asked[c]: the method named by the endpoint of c's request
          calls,        \* calls[c]: calls c has made
          answer,       \* answer[c]: [call, value] of the response to c's call
          client,       \* client[c]: what the client program is doing
          mismatch      \* history: a method was called with arguments not of its types

serverVars == <<free, made, stage, using, msg, mismatch>>
mainVars   == <<program, shape, main, methods>>
clientVars == <<asked, calls, answer, client>>
vars == <<serverVars, mainVars, clientVars>>

----------------------------------------------------------------------------
(***************************************************************************)
(* Signatures.  ins counts the receiver of a method; ctx is the parameter  *)
(* after it, arg and reply the next two; "Stream" is the interface,        *)
(* "*MyStream" a type that implements it, a leading small letter a type    *)
(* that is not exported.                                                   *)
(***************************************************************************)
Shapes == [ins   : 1..5,
           ctx   : {"Context", "string"},
           arg   : {"*Param", "*param", "Stream", "*MyStream"},
           reply : {"*Reply", "*reply", "Reply"},
           out   : {"error", "string", "none"}]

Unary  == [ins |-> 4, ctx |-> "Context", arg |-> "*Param", reply |-> "*Reply", out |-> "error"]
Stream == [ins |-> 3, ctx |-> "Context", arg |-> "Stream", reply |-> "*Reply", out |-> "error"]
Event  == [Unary EXCEPT !.ins = 2]

Hidden(t)     == t \in {"*param", "*reply"}
Implements(t) == t \in {"Stream", "*MyStream"}
Pointer(t)    == t # "Reply"
Interface(t)  == t = "Stream"

\* Faulty: a reply that is no pointer passes.
PrepareMethodAnyReply(s) ==
  /\ \/ s.ins = 3 /\ Implements(s.arg)
     \/ s.ins = 4 /\ ~Hidden(s.arg) /\ ~Hidden(s.reply)
  /\ s.out = "error"

\* prepareMethod returns a method type and not nil.
PrepareMethod(s) ==
  /\ \/ s.ins = 3 /\ Implements(s.arg)
     \/ s.ins = 4 /\ ~Hidden(s.arg) /\ Pointer(s.reply) /\ ~Hidden(s.reply)
  /\ s.out = "error"

\* validateSubscriber finds nothing wrong with a function, or with the method of an
\* object, whose receiver is one more.
ValidateSubscriber(s) == s.ins \in {2, 3} /\ ~Hidden(s.arg) /\ s.out = "error"

\* Values of type t may be passed for a parameter of type p.
Assignable(t, p) == t = p \/ (t = "*rpcStream" /\ p = "Stream")

Takes(s, args) == \A i \in 1..Len(args) : Assignable(args[i], <<s.ctx, s.arg, s.reply>>[i])

\* The argument decoded from a body is a new value of its type.  No codec puts a value
\* into a nil interface: the body is empty, null or refused, and reflect.ValueOf(nil) is
\* a value of no type.
Decoded(t) == IF Interface(t) THEN "nil" ELSE t

\* What service.call passes after the receiver; the reply is a new value of what the
\* reply type points to.
Arguments(s) == IF s.ins = 3 THEN <<"Context", "*rpcStream">>
                ELSE <<"Context", Decoded(s.arg), IF Pointer(s.reply) THEN s.reply ELSE "none">>
Fits(s) == Takes(s, Arguments(s))

\* What the closure of createSubHandler passes.
Payload(s) == <<"Context", Decoded(s.arg)>>

\* The methods of the object handed to the router.
Offered == CASE program = "example1" -> [m \in {"Hello"} |-> Unary]
             [] program = "example2" -> [m \in {"Hello", "MyName", "Stream", "BidirectionalStream"} |->
                                           IF m \in {"Hello", "MyName"} THEN Unary ELSE Stream]
             [] OTHER -> [m \in {"Hello"} |-> shape]
Subscriber == IF program = "other" THEN shape ELSE Event

\* What the methods of Say put into their replies.
Hello    == "hello world"
MyName   == "lp"
Reply(m) == IF m = "MyName" THEN MyName ELSE Hello
Endpoints == {"Hello", "MyName", "Stream", "BidirectionalStream", "Nothing"}

----------------------------------------------------------------------------
Init == /\ program \in {"example1", "example2", "other"}
        /\ shape \in IF program = "other" THEN Shapes ELSE {Unary}
        /\ main = "start"
        /\ methods = {}
        /\ free = <<>>
        /\ made = {}
        /\ stage = [c \in Clients |-> "idle"]
        /\ using = [c \in Clients |-> None]
        /\ msg = [o \in Objects |-> None]
        /\ asked = [c \in Clients |-> None]
        /\ calls = [c \in Clients |-> 0]
        /\ answer = [c \in Clients |-> None]
        /\ client = [c \in Clients |-> "ready"]
        /\ mismatch = FALSE

(***************************************************************************)
(* main.  Handle installs the suitable methods and fails when there are    *)
(* none; example1 and example2 do not look at its error, example2 panics   *)
(* on that of server.Subscribe.                                            *)
(***************************************************************************)
Handle == /\ main = "start"
          /\ methods' = {m \in DOMAIN Offered : PrepareMethod(Offered[m])}
          /\ main' = "handled"
          /\ UNCHANGED <<serverVars, clientVars, program, shape>>

Run(to) == /\ main' = to
           /\ UNCHANGED <<serverVars, clientVars, program, shape, methods>>
Example1Main == main = "handled" /\ program = "example1" /\ Run("running")
Example2Main == main = "handled" /\ program = "example2"
                  /\ Run(IF ValidateSubscriber(Subscriber) THEN "subscribed" ELSE "panicked")
OtherMain    == main = "handled" /\ program = "other"
                  /\ Run(IF ValidateSubscriber(Subscriber) THEN "subscribed" ELSE "running")

Up == main \in {"running", "subscribed"}

(***************************************************************************)
(* A client program calls a method of "Say" by the generated sayService,   *)
(* and prints the response or panics on the error.                         *)
(***************************************************************************)
Call(c) == /\ Up
           /\ client[c] = "ready" /\ stage[c] = "idle"
           /\ calls[c] < MaxCalls
           /\ calls' = [calls EXCEPT ![c] = @ + 1]
           /\ \E m \in Endpoints : asked' = [asked EXCEPT ![c] = m]
           /\ client' = [client EXCEPT ![c] = "waiting"]
           /\ stage' = [stage EXCEPT ![c] = "received"]
           /\ UNCHANGED <<free, made, using, msg, mismatch, mainVars, answer>>

ShowReply(c) == /\ client[c] = "waiting"
                /\ answer[c] # None
                /\ client' = [client EXCEPT ![c] = "ready"]
                /\ answer' = [answer EXCEPT ![c] = None]
                /\ UNCHANGED <<serverVars, mainVars, asked, calls>>

PanicOnError(c) == /\ client[c] = "waiting"
                   /\ stage[c] = "closed" \/ main = "crashed"
                   /\ client' = [client EXCEPT ![c] = "panicked"]
                   /\ UNCHANGED <<serverVars, mainVars, asked, calls, answer>>

\* getRequest takes an object off the free list or makes one; it gets the message.
Take(c, o, rest) ==
  /\ free' = rest
  /\ made' = made \cup {o}
  /\ using' = [using EXCEPT ![c] = o]
  /\ msg' = [msg EXCEPT ![o] = <<c, calls[c]>>]

\* Faulty: the head of the free list is used and stays there.
GetRequestPeeks(c) == IF free # <<>> THEN Take(c, Head(free), free)
                      ELSE \E o \in Objects \ made : Take(c, o, <<>>)

GetRequest(c) == IF free # <<>> THEN Take(c, Head(free), Tail(free))
                 ELSE \E o \in Objects \ made : Take(c, o, <<>>)

ReadHeader(c) == /\ Up
                 /\ stage[c] = "received"
                 /\ GetRequest(c)
                 /\ stage' = [stage EXCEPT ![c] = "read"]
                 /\ UNCHANGED <<mismatch, mainVars, clientVars>>

\* A header that cannot be decoded: the object is not put back.
BadHeader(c) == /\ Up
                /\ stage[c] = "received"
                /\ IF free # <<>> THEN free' = Tail(free) /\ UNCHANGED made
                   ELSE \E o \in Objects \ made : made' = made \cup {o} /\ UNCHANGED free
                /\ stage' = [stage EXCEPT ![c] = "closed"]
                /\ UNCHANGED <<using, msg, mismatch, mainVars, clientVars>>

FreeRequest(c) == /\ free' = <<using[c]>> \o free
                  /\ using' = [using EXCEPT ![c] = None]

\* An error of ServeRequest is written to the client and ends ServeConn.
Refuse(c) == /\ FreeRequest(c)
             /\ stage' = [stage EXCEPT ![c] = "closed"]
             /\ UNCHANGED <<made, msg, mainVars, clientVars>>

\* No such service or method, or a body that is no argument for it.
Unknown(c) == /\ Up
              /\ stage[c] = "read"
              /\ Refuse(c)
              /\ UNCHANGED mismatch

Dispatch(c) == /\ Up
               /\ stage[c] = "read"
               /\ asked[c] \in methods
               /\ stage' = [stage EXCEPT ![c] = "called"]
               /\ UNCHANGED <<free, made, using, msg, mismatch, mainVars, clientVars>>

\* reflect.Value.Call panics before the method runs, or the method does itself;
\* call's deferred freeRequest runs, ServeConn recovers and closes.
Panic(c) == /\ Up
            /\ stage[c] = "called"
            /\ Refuse(c)
            /\ mismatch' = (mismatch \/ ~Fits(Offered[asked[c]]))

\* Faulty: ServeRequest frees the object of a failed call once more.
CallErrorFreesAgain(c) == /\ Up
                          /\ stage[c] = "called"
                          /\ Fits(Offered[asked[c]])
                          /\ free' = <<using[c], using[c]>> \o free
                          /\ using' = [using EXCEPT ![c] = None]
                          /\ stage' = [stage EXCEPT ![c] = "closed"]
                          /\ UNCHANGED <<made, msg, mismatch, mainVars, clientVars>>

\* The method returns an error.  A stream ends here whatever its method returns: with
\* the end-of-stream error, or with nil to a client that has closed.
CallError(c) == /\ Up
                /\ stage[c] = "called"
                /\ Fits(Offered[asked[c]])
                /\ Refuse(c)
                /\ UNCHANGED mismatch

\* The method returns nil: sendResponse answers with the id in the request object.
CallOk(c) == /\ Up
             /\ stage[c] = "called"
             /\ Fits(Offered[asked[c]])
             /\ Offered[asked[c]].ins = 4
             /\ answer' = [answer EXCEPT ![c] = [call |-> msg[using[c]], value |-> Reply(asked[c])]]
             /\ stage' = [stage EXCEPT ![c] = "sent"]
             /\ UNCHANGED <<free, made, using, msg, mismatch, mainVars, asked, calls, client>>

\* call's deferred freeRequest; ServeConn waits for the next request.
Done(c) == /\ Up
           /\ stage[c] = "sent"
           /\ FreeRequest(c)
           /\ stage' = [stage EXCEPT ![c] = "idle"]
           /\ UNCHANGED <<made, msg, mismatch, mainVars, clientVars>>

(***************************************************************************)
(* A message of the topic: nothing recovers in the goroutine that calls    *)
(* the function, so arguments that do not fit end the process.             *)
(***************************************************************************)
Message == main = "subscribed" /\ ~Takes(Subscriber, Payload(Subscriber)) /\ Run("crashed")

ServeConn(c) == \/ ReadHeader(c) \/ BadHeader(c) \/ Unknown(c) \/ Dispatch(c)
                \/ Panic(c) \/ CallError(c) \/ CallOk(c) \/ Done(c)
Next == \/ Handle \/ Example1Main \/ Example2Main \/ OtherMain \/ Message
        \/ \E c \in Clients : Call(c) \/ ShowReply(c) \/ PanicOnError(c) \/ ServeConn(c)
Spec == Init /\ [][Next]_vars

----------------------------------------------------------------------------
Elems(s) == {s[i] : i \in 1..Len(s)}

(***************************************************************************)
(* A request object is on the free list once, or with one connection, or   *)
(* lost to the collector: no two requests share one.                       *)
(***************************************************************************)
OneOwner == /\ \A i, j \in 1..Len(free) : free[i] = free[j] => i = j
            /\ \A c \in Clients : using[c] \notin Elems(free)
            /\ \A c, d \in Clients : using[c] = using[d] /\ using[c] # None => c = d

(***************************************************************************)
(* A client prints the reply to its own call: the response carries the id  *)
(* of the call its client is waiting for, though that id is read from a    *)
(* recycled object after the method has run.                               *)
(***************************************************************************)
Matched == \A c \in Clients :
  answer[c] # None => answer[c] = [call |-> <<c, calls[c]>>, value |-> Reply(asked[c])]

(***************************************************************************)
(* What Handle and Subscribe have let pass can be called with what the     *)
(* server passes, but for three parameters they do not look at: a first    *)
(* one that is no context, a stream that is not the interface itself, and  *)
(* a decoded argument that is an interface.  Nothing else lets a request   *)
(* panic in reflect or a message end the process.                          *)
(***************************************************************************)
LooseMethod(s)   == \/ s.ctx # "Context"
                    \/ s.ins = 3 /\ s.arg # "Stream"
                    \/ s.ins = 4 /\ Interface(s.arg)
LooseFunction(s) == s.ctx # "Context" \/ Interface(s.arg)
SignaturesHold == /\ mismatch => LooseMethod(shape)
                  /\ main = "crashed" => LooseFunction(shape)

(***************************************************************************)
(* The clients see a server that gives each request an object of its own,  *)
(* as RpcPromise has it: the free list, its order, lost objects and late   *)
(* frees make no difference to what is answered, refused and closed.       *)
(***************************************************************************)
Answered == {m \in methods : Offered[m].ins = 4}
Server   == IF Up THEN "serving" ELSE IF main \in {"start", "handled"} THEN "starting" ELSE "down"
Seen(s)  == IF s \in {"received", "read", "called"} THEN "asking"
            ELSE IF s = "closed" THEN s ELSE "idle"
Conn     == [c \in Clients |-> Seen(stage[c])]
Promise  == INSTANCE RpcPromise WITH server <- Server, answered <- Answered, conn <- Conn,
              Replies <- [m \in Endpoints |-> Reply(m)]
Recycled == Promise!Spec
=============================================================================
