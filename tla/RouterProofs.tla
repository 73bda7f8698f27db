----------------------------- MODULE RouterProofs -----------------------------
EXTENDS Router, SequenceTheorems, TLAPS

(***************************************************************************)
(* Proofs about Router, for any number of clients, calls and request       *)
(* objects: requests share no object, a client reads the reply to its own  *)
(* call, and only three parameters nobody looks at can make a registered   *)
(* method or function be called with the wrong arguments.                  *)
(***************************************************************************)

Distinct(q) == \A i, j \in 1..Len(q) : q[i] = q[j] => i = j

Types ==
  /\ program \in {"example1", "example2", "other"}
  /\ shape \in Shapes
  /\ program # "other" => shape = Unary
  /\ free \in Seq(Objects)
  /\ made \in SUBSET Objects
  /\ stage \in [Clients -> {"idle", "received", "read", "called", "sent", "closed"}]
  /\ using \in [Clients -> Objects \cup {None}]
  /\ msg \in [Objects -> (Clients \X Nat) \cup {None}]
  /\ asked \in [Clients -> Endpoints \cup {None}]
  /\ calls \in [Clients -> Nat]
  /\ answer = [c \in Clients |-> answer[c]]
  /\ client \in [Clients -> {"ready", "waiting", "panicked"}]
  /\ mismatch \in BOOLEAN

\* Who has the request objects: the free list or one connection.
Owned ==
  /\ Distinct(free)
  /\ Elems(free) \subseteq made
  /\ \A c \in Clients : using[c] # None => using[c] \in made /\ using[c] \notin Elems(free)
  /\ \A c, d \in Clients : using[c] = using[d] /\ using[c] # None => c = d

\* A connection and its client: the object in use carries the current call.
Serving(c) ==
  /\ using[c] # None <=> stage[c] \in {"read", "called", "sent"}
  /\ using[c] # None => msg[using[c]] = <<c, calls[c]>>
  /\ client[c] = "ready" => answer[c] = None /\ stage[c] \in {"idle", "sent", "closed"}
  /\ answer[c] # None => stage[c] \in {"idle", "sent", "closed"}
  /\ answer[c] # None => answer[c] = [call |-> <<c, calls[c]>>, value |-> Reply(asked[c])]

\* What is called has been looked at when it was registered.
Suited ==
  /\ \A m \in methods : m \in DOMAIN Offered /\ PrepareMethod(Offered[m])
  /\ \A c \in Clients : stage[c] = "called" => asked[c] \in methods /\ main # "start"
  /\ SignaturesHold

RouterInv == Types /\ Owned /\ (\A c \in Clients : Serving(c)) /\ Suited

-----------------------------------------------------------------------------
\* One object more in front of a list that does not have it.
LEMMA Pushed ==
  ASSUME NEW S, NEW q \in Seq(S), NEW o \in S
  PROVE  /\ <<o>> \o q \in Seq(S)
         /\ Elems(<<o>> \o q) = Elems(q) \cup {o}
         /\ Distinct(q) /\ o \notin Elems(q) => Distinct(<<o>> \o q)
  <1> DEFINE r == <<o>> \o q
  <1>1. r \in Seq(S) /\ Len(r) = Len(q) + 1 /\ Len(q) \in Nat
    BY ConcatProperties
  <1>2. r[1] = o /\ \A i \in 1..Len(q) : r[i + 1] = q[i]
    <2>1. \A i \in 1..Len(<<o>>) + Len(q) :
            r[i] = IF i <= Len(<<o>>) THEN <<o>>[i] ELSE q[i - Len(<<o>>)]
      BY ConcatProperties
    <2>2. \A i \in 1..1 + Len(q) : r[i] = IF i <= 1 THEN o ELSE q[i - 1]
      BY <2>1
    <2> QED
      BY <1>1, <2>2
  <1> HIDE DEF r
  <1>3. \A i \in 1..Len(r) : i = 1 \/ (i - 1 \in 1..Len(q) /\ r[i] = q[i - 1])
    <2> SUFFICES ASSUME NEW i \in 1..Len(r), i # 1
                 PROVE  i - 1 \in 1..Len(q) /\ r[i] = q[i - 1]
      OBVIOUS
    <2>1. i - 1 \in 1..Len(q) /\ (i - 1) + 1 = i
      BY <1>1
    <2> QED
      BY <1>2, <2>1
  <1>4. Elems(r) = Elems(q) \cup {o}
    <2>1. \A i \in 1..Len(r) : r[i] \in Elems(q) \cup {o}
      BY <1>2, <1>3 DEF Elems
    <2>2. \A i \in 1..Len(q) : i + 1 \in 1..Len(r)
      BY <1>1
    <2>3. 1 \in 1..Len(r)
      BY <1>1
    <2> QED
      BY <1>2, <2>1, <2>2, <2>3 DEF Elems
  <1>5. ASSUME Distinct(q), o \notin Elems(q) PROVE Distinct(r)
    <2> SUFFICES ASSUME NEW i \in 1..Len(r), NEW j \in 1..Len(r), r[i] = r[j]
                 PROVE  i = j
      BY DEF Distinct
    <2>1. CASE i = 1
      BY <1>2, <1>3, <1>5, <2>1 DEF Elems
    <2>2. CASE j = 1
      BY <1>2, <1>3, <1>5, <2>2 DEF Elems
    <2>3. CASE i # 1 /\ j # 1
      <3>1. i - 1 \in 1..Len(q) /\ j - 1 \in 1..Len(q) /\ q[i - 1] = q[j - 1]
        BY <1>3, <2>3
      <3>2. i - 1 = j - 1
        BY <1>5, <3>1 DEF Distinct
      <3> QED
        BY <1>1, <3>2
    <2> QED
      BY <2>1, <2>2, <2>3
  <1> QED
    BY <1>1, <1>4, <1>5 DEF r

\* And the first taken away.
LEMMA Popped ==
  ASSUME NEW S, NEW q \in Seq(S), q # <<>>
  PROVE  /\ Tail(q) \in Seq(S) /\ Head(q) \in S
         /\ Head(q) \in Elems(q)
         /\ Elems(Tail(q)) \subseteq Elems(q)
         /\ Distinct(q) => Distinct(Tail(q)) /\ Head(q) \notin Elems(Tail(q))
  <1> DEFINE r == Tail(q)
  <1>1. r \in Seq(S) /\ Len(r) = Len(q) - 1 /\ Len(q) \in Nat /\ Len(q) # 0
    OBVIOUS
  <1>2. Head(q) = q[1] /\ 1 \in 1..Len(q) /\ Head(q) \in S
    BY <1>1
  <1>3. \A i \in 1..Len(r) : r[i] = q[i + 1]
    BY <1>1
  <1> HIDE DEF r
  <1>4. \A i \in 1..Len(r) : i + 1 \in 1..Len(q) /\ i + 1 # 1
    BY <1>1
  <1>5. Elems(r) \subseteq Elems(q) /\ Head(q) \in Elems(q)
    BY <1>2, <1>3, <1>4 DEF Elems
  <1>6. ASSUME Distinct(q) PROVE Distinct(r) /\ Head(q) \notin Elems(r)
    <2>1. \A i, j \in 1..Len(r) : i + 1 = j + 1 => i = j
      BY <1>1
    <2>2. Distinct(r)
      BY <1>3, <1>4, <1>6, <2>1 DEF Distinct
    <2>3. Head(q) \notin Elems(r)
      BY <1>2, <1>3, <1>4, <1>6 DEF Distinct, Elems
    <2> QED
      BY <2>2, <2>3
  <1> QED
    BY <1>1, <1>2, <1>5, <1>6 DEF r

\* What passes prepareMethod takes what the server passes, but for the parameters that it
\* does not look at.
LEMMA Passes ==
  ASSUME NEW s \in Shapes, PrepareMethod(s), ~Fits(s)
  PROVE  LooseMethod(s)
  <1> SUFFICES ASSUME ~LooseMethod(s) PROVE FALSE
    OBVIOUS
  <1>0. s.ctx = "Context"
    BY DEF LooseMethod
  <1>1. CASE s.ins = 3
    <2>1. s.arg = "Stream"
      BY <1>1 DEF LooseMethod
    <2>2. Arguments(s) = <<"Context", "*rpcStream">>
      BY <1>1 DEF Arguments
    <2> QED
      BY <1>0, <2>1, <2>2 DEF Fits, Takes, Assignable
  <1>2. CASE s.ins # 3
    <2>1. s.ins = 4 /\ Pointer(s.reply)
      BY <1>2 DEF PrepareMethod
    <2>2. Decoded(s.arg) = s.arg
      BY <2>1 DEF LooseMethod, Decoded
    <2>3. Arguments(s) = <<"Context", s.arg, s.reply>>
      BY <1>2, <2>1, <2>2 DEF Arguments
    <2> QED
      BY <1>0, <2>3 DEF Fits, Takes, Assignable
  <1> QED
    BY <1>1, <1>2

\* What a program offers: one of the repository's two signatures, which fit, or the shape.
LEMMA OfferedShapes ==
  ASSUME Types, NEW m \in DOMAIN Offered
  PROVE  Offered[m] \in Shapes /\ (Offered[m] = shape \/ Fits(Offered[m]))
  <1>1. Unary \in Shapes /\ Stream \in Shapes
    BY DEF Unary, Stream, Shapes
  <1>2. Fits(Unary) /\ Fits(Stream)
    <2>1. Arguments(Unary) = <<"Context", "*Param", "*Reply">>
      BY DEF Arguments, Unary, Pointer, Decoded, Interface
    <2>2. Arguments(Stream) = <<"Context", "*rpcStream">>
      BY DEF Arguments, Stream, Unary
    <2>3. Fits(Unary)
      BY <2>1 DEF Fits, Takes, Assignable, Unary
    <2>4. Fits(Stream)
      BY <2>2 DEF Fits, Takes, Assignable, Stream, Unary
    <2> QED
      BY <2>3, <2>4
  <1>3. Offered[m] \in {Unary, Stream, shape} /\ (program # "other" => Offered[m] \in {Unary, Stream})
    BY DEF Types, Offered
  <1> QED
    BY <1>1, <1>2, <1>3 DEF Types

-----------------------------------------------------------------------------
\* The invariant holds when main starts.
LEMMA InitRouter == Init => RouterInv
  <1> SUFFICES ASSUME Init PROVE RouterInv
    OBVIOUS
  <1>1. Types
    <2>1. Unary \in Shapes
      BY DEF Unary, Shapes
    <2>2. program \in {"example1", "example2", "other"} /\ shape \in Shapes
          /\ (program # "other" => shape = Unary)
      BY <2>1 DEF Init
    <2>3. <<>> \in Seq(Objects) /\ 0 \in Nat
      OBVIOUS
    <2>4. answer = [c \in Clients |-> answer[c]]
      BY DEF Init
    <2> QED
      BY <2>2, <2>3, <2>4 DEF Init, Types
  <1>2. Owned
    BY DEF Init, Owned, Distinct, Elems
  <1>3. \A c \in Clients : Serving(c)
    BY DEF Init, Serving
  <1>4. Suited
    BY DEF Init, Suited, SignaturesHold
  <1> QED
    BY <1>1, <1>2, <1>3, <1>4 DEF RouterInv

\* What a step leaves alone of a connection.
SameClient(c) == /\ stage'[c] = stage[c] /\ using'[c] = using[c]
                 /\ (using[c] # None => msg'[using[c]] = msg[using[c]])
                 /\ asked'[c] = asked[c] /\ calls'[c] = calls[c]
                 /\ answer'[c] = answer[c] /\ client'[c] = client[c]

\* A connection whose own state a step leaves alone.
LEMMA ServingFrame ==
  ASSUME NEW c \in Clients, Serving(c), SameClient(c)
  PROVE  Serving(c)'
  BY DEF Serving, SameClient

\* Main and its messages.
LEMMA MainStep ==
  ASSUME RouterInv, Handle \/ Example1Main \/ Example2Main \/ OtherMain \/ Message
  PROVE  RouterInv'
  <1> USE DEF RouterInv
  <1>1. UNCHANGED <<serverVars, clientVars, program, shape>>
    BY DEF Handle, Example1Main, Example2Main, OtherMain, Message, Run
  <1>2. Types'
    BY <1>1 DEF Types, serverVars, clientVars
  <1>3. Owned'
    BY <1>1 DEF Owned, Distinct, serverVars, clientVars
  <1>4. \A c \in Clients : Serving(c)'
    BY <1>1 DEF Serving, serverVars, clientVars
  <1>5. Suited'
    <2>1. Offered' = Offered
      BY <1>1 DEF Offered
    <2>2. CASE Handle
      <3>1. methods' = {m \in DOMAIN Offered : PrepareMethod(Offered[m])} /\ main' = "handled"
        BY <2>2 DEF Handle
      <3>2. \A c \in Clients : stage'[c] # "called"
        BY <1>1, <2>2 DEF Handle, Suited, serverVars
      <3>3. SignaturesHold'
        BY <1>1, <3>1 DEF Suited, SignaturesHold, serverVars
      <3> QED
        BY <2>1, <3>1, <3>2, <3>3 DEF Suited
    <2>3. CASE Example1Main \/ Example2Main \/ OtherMain
      <3>1. methods' = methods /\ main' \in {"running", "subscribed", "panicked"}
        BY <2>3 DEF Example1Main, Example2Main, OtherMain, Run
      <3> QED
        BY <1>1, <2>1, <3>1 DEF Suited, SignaturesHold, serverVars, clientVars
    <2>4. CASE Message
      <3>1. methods' = methods /\ main' = "crashed" /\ ~Takes(Subscriber, Payload(Subscriber))
        BY <2>4 DEF Message, Run
      <3>2. LooseFunction(Subscriber)
        BY <3>1 DEF Takes, Payload, Decoded, Assignable, LooseFunction
      <3>3. Subscriber = shape
        BY <3>2 DEF Subscriber, Event, Unary, LooseFunction, Interface
      <3>4. SignaturesHold'
        BY <1>1, <3>2, <3>3 DEF Suited, SignaturesHold, serverVars
      <3> QED
        BY <1>1, <2>1, <3>1, <3>4 DEF Suited, serverVars, clientVars
    <2> QED
      BY <2>2, <2>3, <2>4
  <1> QED
    BY <1>2, <1>3, <1>4, <1>5

\* A step of one client or its connection that leaves the rest as it is.
LEMMA OneClient ==
  ASSUME RouterInv, NEW c \in Clients, Types', Owned', Serving(c)', Suited',
         \A d \in Clients \ {c} : SameClient(d)
  PROVE  RouterInv'
  BY ServingFrame DEF RouterInv

\* A client calls ...
LEMMA CallStep ==
  ASSUME RouterInv, NEW c \in Clients, Call(c)
  PROVE  RouterInv'
  <1> USE DEF RouterInv
  <1>1. PICK m \in Endpoints : asked' = [asked EXCEPT ![c] = m]
    BY DEF Call
  <1>2. /\ client[c] = "ready" /\ stage[c] = "idle"
        /\ calls' = [calls EXCEPT ![c] = @ + 1]
        /\ client' = [client EXCEPT ![c] = "waiting"]
        /\ stage' = [stage EXCEPT ![c] = "received"]
        /\ UNCHANGED <<free, made, using, msg, mismatch, mainVars, answer>>
    BY DEF Call
  <1>3. Types'
    BY <1>1, <1>2 DEF Types, mainVars
  <1>4. Owned'
    BY <1>2 DEF Owned
  <1>5. using[c] = None /\ answer[c] = None
    BY <1>2 DEF Serving
  <1>6. Serving(c)'
    BY <1>2, <1>5 DEF Serving, Types
  <1>7. Suited'
    <2>1. Offered' = Offered /\ (SignaturesHold' <=> SignaturesHold)
      BY <1>2 DEF Offered, SignaturesHold, mainVars
    <2>2. \A d \in Clients : stage'[d] = "called" => stage[d] = "called" /\ asked'[d] = asked[d]
      BY <1>1, <1>2 DEF Types
    <2> QED
      BY <1>2, <2>1, <2>2 DEF Suited, mainVars
  <1>8. \A d \in Clients \ {c} : SameClient(d)
    BY <1>1, <1>2 DEF SameClient, Types
  <1> QED
    BY <1>3, <1>4, <1>6, <1>7, <1>8, OneClient

\* ... shows the reply, or panics.
LEMMA ClientStep ==
  ASSUME RouterInv, NEW c \in Clients, ShowReply(c) \/ PanicOnError(c)
  PROVE  RouterInv'
  <1> USE DEF RouterInv
  <1>1. UNCHANGED <<serverVars, mainVars, asked, calls>>
    BY DEF ShowReply, PanicOnError
  <1>2. \/ answer' = [answer EXCEPT ![c] = None] /\ client' = [client EXCEPT ![c] = "ready"]
           /\ answer[c] # None
        \/ answer' = answer /\ client' = [client EXCEPT ![c] = "panicked"]
    BY DEF ShowReply, PanicOnError
  <1>3. Types'
    BY <1>1, <1>2 DEF Types, serverVars, mainVars
  <1>4. Owned'
    BY <1>1 DEF Owned, serverVars
  <1>5. Suited'
    BY <1>1 DEF Suited, Offered, SignaturesHold, serverVars, mainVars
  <1>6. \A d \in Clients \ {c} : SameClient(d)
    BY <1>1, <1>2 DEF SameClient, Types, serverVars
  <1>7. Serving(c)'
    <2>1. stage'[c] = stage[c] /\ using'[c] = using[c] /\ calls'[c] = calls[c]
          /\ asked'[c] = asked[c] /\ msg'[using'[c]] = msg[using[c]]
      BY <1>1 DEF serverVars
    <2>2. CASE ShowReply(c)
      <3>1. answer'[c] = None /\ client[c] = "waiting"
        BY <2>2 DEF ShowReply, Types
      <3>2. stage[c] \in {"idle", "sent", "closed"}
        BY <2>2 DEF ShowReply, Serving
      <3> QED
        BY <2>1, <3>1, <3>2 DEF Serving
    <2>3. CASE PanicOnError(c)
      <3>1. answer'[c] = answer[c] /\ client'[c] = "panicked"
        BY <2>3 DEF PanicOnError, Types
      <3> QED
        BY <2>1, <3>1 DEF Serving
    <2> QED
      BY <2>2, <2>3
  <1> QED
    BY <1>3, <1>4, <1>5, <1>6, <1>7, OneClient

-----------------------------------------------------------------------------
\* What a connection's step must leave true of the methods.
LEMMA StillSuited ==
  ASSUME RouterInv, UNCHANGED <<mainVars, asked>>, mismatch' => mismatch \/ LooseMethod(shape),
         \A d \in Clients : stage'[d] = "called" =>
            stage[d] = "called" \/ (asked[d] \in methods /\ main # "start")
  PROVE  Suited'
  <1>1. Offered' = Offered /\ SignaturesHold'
    BY DEF Offered, SignaturesHold, mainVars, RouterInv, Suited
  <1> QED
    BY <1>1 DEF RouterInv, Suited, mainVars

\* getRequest.
LEMMA ReadHeaderStep ==
  ASSUME RouterInv, NEW c \in Clients, ReadHeader(c)
  PROVE  RouterInv'
  <1> USE DEF RouterInv
  <1>1. /\ stage[c] = "received" /\ stage' = [stage EXCEPT ![c] = "read"]
        /\ UNCHANGED <<mismatch, mainVars, clientVars>>
    BY DEF ReadHeader
  <1>2. using[c] = None /\ answer[c] = None /\ client[c] # "ready"
    BY <1>1 DEF Serving
  <1>3. PICK o \in Objects :
          /\ Take(c, o, free')
          /\ free' \in Seq(Objects)
          /\ Elems(free') \subseteq Elems(free)
          /\ Distinct(free') /\ o \notin Elems(free')
          /\ \A d \in Clients : using[d] # o
    <2>1. CASE free # <<>>
      <3>1. Take(c, Head(free), Tail(free)) /\ free' = Tail(free)
        BY <2>1 DEF ReadHeader, GetRequest, Take
      <3>2. /\ Tail(free) \in Seq(Objects) /\ Head(free) \in Objects
            /\ Head(free) \in Elems(free)
            /\ Elems(Tail(free)) \subseteq Elems(free)
            /\ Distinct(Tail(free)) /\ Head(free) \notin Elems(Tail(free))
        BY <2>1, Popped DEF Types, Owned
      <3>3. \A d \in Clients : using[d] # Head(free)
        BY <3>2, NoneAssumption DEF Owned
      <3> QED
        BY <3>1, <3>2, <3>3
    <2>2. CASE free = <<>>
      <3>1. PICK o \in Objects \ made : Take(c, o, <<>>) /\ free' = <<>>
        BY <2>2 DEF ReadHeader, GetRequest, Take
      <3>2. Elems(<<>>) = {} /\ Distinct(<<>>) /\ <<>> \in Seq(Objects)
        BY DEF Elems, Distinct
      <3>3. \A d \in Clients : using[d] # o
        BY <3>1, NoneAssumption DEF Owned
      <3> QED
        BY <3>1, <3>2, <3>3
    <2> QED
      BY <2>1, <2>2
  <1>4. /\ made' = made \cup {o} /\ using' = [using EXCEPT ![c] = o]
        /\ msg' = [msg EXCEPT ![o] = <<c, calls[c]>>]
    BY <1>3 DEF Take
  <1>5. Types'
    BY <1>1, <1>3, <1>4 DEF Types, mainVars, clientVars
  <1>6. Owned'
    <2>1. Elems(free)' = Elems(free') /\ Distinct(free)' = Distinct(free')
      BY DEF Elems, Distinct
    <2>2. \A d \in Clients : using'[d] = IF d = c THEN o ELSE using[d]
      BY <1>4 DEF Types
    <2> QED
      BY <1>3, <1>4, <2>1, <2>2 DEF Owned
  <1>7. Serving(c)'
    <2>1. using'[c] = o /\ msg'[o] = <<c, calls[c]>> /\ stage'[c] = "read" /\ o # None
      BY <1>1, <1>4, NoneAssumption DEF Types
    <2> QED
      BY <1>1, <1>2, <2>1 DEF Serving, clientVars
  <1>8. Suited'
    <2>1. \A d \in Clients : stage'[d] = "called" => stage[d] = "called"
      BY <1>1 DEF Types
    <2> QED
      BY <1>1, <2>1, StillSuited DEF clientVars
  <1>9. \A d \in Clients \ {c} : SameClient(d)
    <2> SUFFICES ASSUME NEW d \in Clients \ {c} PROVE SameClient(d)
      OBVIOUS
    <2>1. stage'[d] = stage[d] /\ using'[d] = using[d]
      BY <1>1, <1>4 DEF Types
    <2>2. using[d] # None => msg'[using[d]] = msg[using[d]]
      BY <1>3, <1>4 DEF Types
    <2> QED
      BY <1>1, <2>1, <2>2 DEF SameClient, clientVars
  <1> QED
    BY <1>5, <1>6, <1>7, <1>8, <1>9, OneClient

\* A header that cannot be decoded: its object is lost, not shared.
LEMMA BadHeaderStep ==
  ASSUME RouterInv, NEW c \in Clients, BadHeader(c)
  PROVE  RouterInv'
  <1> USE DEF RouterInv
  <1>1. /\ stage[c] = "received" /\ stage' = [stage EXCEPT ![c] = "closed"]
        /\ UNCHANGED <<using, msg, mismatch, mainVars, clientVars>>
    BY DEF BadHeader
  <1>2. /\ free' \in Seq(Objects) /\ made' \in SUBSET Objects /\ made \subseteq made'
        /\ Elems(free') \subseteq Elems(free) /\ Distinct(free')
    <2>1. CASE free # <<>>
      <3>1. free' = Tail(free) /\ made' = made
        BY <2>1 DEF BadHeader
      <3> QED
        BY <2>1, <3>1, Popped DEF Types, Owned
    <2>2. CASE free = <<>>
      <3>1. free' = free /\ \E o \in Objects \ made : made' = made \cup {o}
        BY <2>2 DEF BadHeader
      <3> QED
        BY <3>1 DEF Types, Owned
    <2> QED
      BY <2>1, <2>2
  <1>3. Types'
    BY <1>1, <1>2 DEF Types, mainVars, clientVars
  <1>4. Owned'
    <2>1. Elems(free)' = Elems(free') /\ Distinct(free)' = Distinct(free')
      BY DEF Elems, Distinct
    <2> QED
      BY <1>1, <1>2, <2>1 DEF Owned
  <1>5. Serving(c)'
    <2>1. stage'[c] = "closed"
      BY <1>1 DEF Types
    <2> QED
      BY <1>1, <2>1 DEF Serving, clientVars
  <1>6. Suited'
    <2>1. \A d \in Clients : stage'[d] = "called" => stage[d] = "called"
      BY <1>1 DEF Types
    <2> QED
      BY <1>1, <2>1, StillSuited DEF clientVars
  <1>7. \A d \in Clients \ {c} : SameClient(d)
    BY <1>1 DEF SameClient, Types, clientVars
  <1> QED
    BY <1>3, <1>4, <1>5, <1>6, <1>7, OneClient

\* The four ends of a request: its object goes back to the free list.
LEMMA FreedStep ==
  ASSUME RouterInv, NEW c \in Clients, stage[c] \in {"read", "called", "sent"},
         FreeRequest(c), NEW to \in {"idle", "closed"},
         stage' = [stage EXCEPT ![c] = to],
         UNCHANGED <<made, msg, mainVars, clientVars>>,
         mismatch' \in BOOLEAN, mismatch' => mismatch \/ LooseMethod(shape)
  PROVE  RouterInv'
  <1> USE DEF RouterInv
  <1>1. /\ using[c] # None /\ using[c] \in Objects
        /\ using[c] \in made /\ using[c] \notin Elems(free)
    BY DEF Serving, Owned, Types
  <1>2. free' = <<using[c]>> \o free /\ using' = [using EXCEPT ![c] = None]
    BY DEF FreeRequest
  <1>3. /\ free' \in Seq(Objects) /\ Elems(free') = Elems(free) \cup {using[c]}
        /\ Distinct(free')
    BY <1>1, <1>2, Pushed DEF Types, Owned
  <1>4. \A d \in Clients : using'[d] = IF d = c THEN None ELSE using[d]
    BY <1>2 DEF Types
  <1>5. Types'
    BY <1>2, <1>3 DEF Types, mainVars, clientVars
  <1>6. Owned'
    <2>1. Elems(free)' = Elems(free') /\ Distinct(free)' = Distinct(free')
      BY DEF Elems, Distinct
    <2>2. \A d \in Clients \ {c} : using[d] # using[c]
      BY <1>1 DEF Owned
    <2> QED
      BY <1>1, <1>3, <1>4, <2>1, <2>2 DEF Owned
  <1>7. Serving(c)'
    <2>1. stage'[c] = to /\ using'[c] = None
      BY <1>4 DEF Types
    <2> QED
      BY <2>1 DEF Serving, clientVars
  <1>8. Suited'
    <2>1. \A d \in Clients : stage'[d] = "called" => stage[d] = "called"
      BY DEF Types
    <2> QED
      BY <2>1, StillSuited DEF clientVars
  <1>9. \A d \in Clients \ {c} : SameClient(d)
    BY <1>4 DEF SameClient, Types, clientVars
  <1> QED
    BY <1>5, <1>6, <1>7, <1>8, <1>9, OneClient

\* The four ends, one by one; reflect refuses only what LooseMethod allows.
LEMMA EndsStep ==
  ASSUME RouterInv, NEW c \in Clients, Unknown(c) \/ Panic(c) \/ CallError(c) \/ Done(c)
  PROVE  RouterInv'
  <1>1. mismatch \in BOOLEAN
    BY DEF RouterInv, Types
  <1>2. CASE Unknown(c)
    BY <1>1, <1>2, FreedStep DEF Unknown, Refuse
  <1>3. CASE Panic(c)
    <2>1. stage[c] = "called" /\ Refuse(c) /\ mismatch' = (mismatch \/ ~Fits(Offered[asked[c]]))
      BY <1>3 DEF Panic
    <2>2. ~Fits(Offered[asked[c]]) => LooseMethod(shape)
      <3>1. asked[c] \in DOMAIN Offered /\ PrepareMethod(Offered[asked[c]])
        BY <2>1 DEF RouterInv, Suited
      <3>2. /\ Offered[asked[c]] \in Shapes
            /\ Offered[asked[c]] = shape \/ Fits(Offered[asked[c]])
        BY <3>1, OfferedShapes DEF RouterInv
      <3> QED
        BY <3>1, <3>2, Passes
    <2>3. mismatch' \in BOOLEAN
      BY <1>1, <2>1
    <2> QED
      BY <2>1, <2>2, <2>3, FreedStep DEF Refuse
  <1>4. CASE CallError(c)
    BY <1>1, <1>4, FreedStep DEF CallError, Refuse
  <1>5. CASE Done(c)
    BY <1>1, <1>5, FreedStep DEF Done
  <1> QED
    BY <1>2, <1>3, <1>4, <1>5

\* ServeRequest finds the method among those that were installed.
LEMMA DispatchStep ==
  ASSUME RouterInv, NEW c \in Clients, Dispatch(c)
  PROVE  RouterInv'
  <1> USE DEF RouterInv
  <1>1. /\ main # "start" /\ stage[c] = "read" /\ asked[c] \in methods
        /\ stage' = [stage EXCEPT ![c] = "called"]
        /\ UNCHANGED <<free, made, using, msg, mismatch, mainVars, clientVars>>
    BY DEF Dispatch, Up
  <1>2. Types'
    BY <1>1 DEF Types, mainVars, clientVars
  <1>3. Owned'
    BY <1>1 DEF Owned
  <1>4. Serving(c)'
    BY <1>1 DEF Serving, Types, clientVars
  <1>5. Suited'
    <2>1. \A d \in Clients : stage'[d] = "called" =>
            stage[d] = "called" \/ (asked[d] \in methods /\ main # "start")
      BY <1>1 DEF Types
    <2> QED
      BY <1>1, <2>1, StillSuited DEF clientVars
  <1>6. \A d \in Clients \ {c} : SameClient(d)
    BY <1>1 DEF SameClient, Types, clientVars
  <1> QED
    BY <1>2, <1>3, <1>4, <1>5, <1>6, OneClient

\* The response: the id is that of the call in the object in use.
LEMMA CallOkStep ==
  ASSUME RouterInv, NEW c \in Clients, CallOk(c)
  PROVE  RouterInv'
  <1> USE DEF RouterInv
  <1>1. /\ stage[c] = "called" /\ stage' = [stage EXCEPT ![c] = "sent"]
        /\ answer' = [answer EXCEPT ![c] =
                        [call |-> msg[using[c]], value |-> Reply(asked[c])]]
        /\ UNCHANGED <<free, made, using, msg, mismatch, mainVars, asked, calls, client>>
    BY DEF CallOk
  <1>2. Types'
    BY <1>1 DEF Types, mainVars
  <1>3. Owned'
    BY <1>1 DEF Owned
  <1>4. Serving(c)'
    <2>1. using[c] # None /\ msg[using[c]] = <<c, calls[c]>> /\ client[c] # "ready"
      BY <1>1 DEF Serving
    <2>2. answer'[c] = [call |-> <<c, calls[c]>>, value |-> Reply(asked[c])]
          /\ stage'[c] = "sent"
      BY <1>1, <2>1 DEF Types
    <2>3. Reply(asked[c])' = Reply(asked[c])
      BY <1>1 DEF Reply
    <2> QED
      BY <1>1, <2>1, <2>2, <2>3 DEF Serving
  <1>5. Suited'
    <2>1. \A d \in Clients : stage'[d] = "called" => stage[d] = "called"
      BY <1>1 DEF Types
    <2> QED
      BY <1>1, <2>1, StillSuited
  <1>6. \A d \in Clients \ {c} : SameClient(d)
    BY <1>1 DEF SameClient, Types
  <1> QED
    BY <1>2, <1>3, <1>4, <1>5, <1>6, OneClient

-----------------------------------------------------------------------------
\* Every step keeps the invariant.
LEMMA NextRouter == RouterInv /\ [Next]_vars => RouterInv'
  <1> SUFFICES ASSUME RouterInv, [Next]_vars PROVE RouterInv'
    OBVIOUS
  <1>1. CASE Handle \/ Example1Main \/ Example2Main \/ OtherMain \/ Message
    BY <1>1, MainStep
  <1>2. CASE \E c \in Clients : Call(c) \/ ShowReply(c) \/ PanicOnError(c) \/ ServeConn(c)
    BY <1>2, CallStep, ClientStep, ReadHeaderStep, BadHeaderStep, EndsStep, DispatchStep,
       CallOkStep DEF ServeConn
  <1>3. CASE UNCHANGED vars
    <2> USE <1>3 DEF vars, serverVars, mainVars, clientVars, RouterInv
    <2>1. Types'
      BY DEF Types
    <2>2. Owned'
      BY DEF Owned
    <2>3. \A c \in Clients : Serving(c)'
      BY DEF Serving
    <2>4. Suited'
      BY DEF Suited, Offered, SignaturesHold
    <2> QED
      BY <2>1, <2>2, <2>3, <2>4
  <1> QED
    BY <1>1, <1>2, <1>3 DEF Next

\* So it always holds.
LEMMA AlwaysRouter == Spec => []RouterInv
  BY InitRouter, NextRouter, PTL DEF Spec

\* A request object is on the free list once, or with one connection: router.freeReq is
\* pushed by the four ends of a request and popped by getRequest, whoever runs them.
THEOREM RequestsOwned == Spec => []OneOwner
  <1>1. RouterInv => OneOwner
    <2> SUFFICES ASSUME RouterInv PROVE OneOwner
      OBVIOUS
    <2>1. Owned /\ \A c \in Clients : using[c] \in Objects \cup {None}
      BY DEF RouterInv, Types
    <2>2. \A c \in Clients : using[c] \notin Elems(free)
      <3>1. Elems(free) \subseteq Objects
        BY <2>1 DEF RouterInv, Owned, Types
      <3>2. None \notin Elems(free)
        BY <3>1, NoneAssumption
      <3> QED
        BY <2>1, <3>2 DEF Owned
    <2> QED
      BY <2>1, <2>2 DEF OneOwner, Owned, Distinct
  <1> QED
    BY <1>1, AlwaysRouter, PTL

\* The response a client finds carries the id of the call it is waiting for, though
\* sendResponse reads the id from a recycled request object after the method has run.
THEOREM AnswersMatched == Spec => []Matched
  <1>1. RouterInv => Matched
    BY DEF RouterInv, Serving, Matched
  <1> QED
    BY <1>1, AlwaysRouter, PTL

\* prepareMethod and validateSubscriber let nothing pass that reflect then refuses, but
\* for a first parameter that is no context, a stream of another type and an argument
\* that is an interface.
THEOREM SignaturesSuffice == Spec => []SignaturesHold
  <1>1. RouterInv => SignaturesHold
    BY DEF RouterInv, Suited
  <1> QED
    BY <1>1, AlwaysRouter, PTL

-----------------------------------------------------------------------------
(***************************************************************************)
(* The server implements RpcPromise: what a client sees of its connection  *)
(* does not depend on the request objects behind it.                       *)
(***************************************************************************)

\* While main rests, the server is what it was.
LEMMA SameServer ==
  ASSUME UNCHANGED mainVars
  PROVE  UNCHANGED <<Server, Answered>>
  BY DEF mainVars, Server, Answered, Offered, Up

\* So is a connection whose goroutine rests.
LEMMA SameConn ==
  ASSUME UNCHANGED stage
  PROVE  UNCHANGED Conn
  BY DEF Conn

\* A step of one goroutine is one of its own connection.
LEMMA ConnMoves ==
  ASSUME Types, NEW c \in Clients, NEW s, stage' = [stage EXCEPT ![c] = s]
  PROVE  /\ Conn[c] = Seen(stage[c])
         /\ Conn' = [Conn EXCEPT ![c] = Seen(s)]
  BY DEF Types, Conn

\* A goroutine runs only while the server serves.
LEMMA UpServes == Up => Server = "serving"
  BY DEF Up, Server

\* main installs the methods, then serves; a message may end the process.
LEMMA MainKept ==
  ASSUME RouterInv, Handle \/ Example1Main \/ Example2Main \/ OtherMain \/ Message
  PROVE  Promise!Install \/ Promise!Serve \/ Promise!Die
  <1>1. UNCHANGED <<Conn, asked, calls, answer, client>>
    <2>1. UNCHANGED stage /\ UNCHANGED clientVars
      BY DEF Handle, Example1Main, Example2Main, OtherMain, Message, Run, serverVars
    <2> QED
      BY <2>1, SameConn DEF clientVars
  <1>2. CASE Handle
    <2>1. Server = "starting" /\ Server' = "starting"
      BY <1>2 DEF Handle, Server, Up
    <2>2. Answered' \in SUBSET Endpoints
      BY <1>2 DEF Handle, Answered, Offered, Endpoints
    <2> QED
      BY <1>1, <2>1, <2>2 DEF Promise!Install
  <1>3. CASE Example1Main \/ Example2Main \/ OtherMain
    <2>1. Server = "starting" /\ Server' \in {"serving", "down"}
      BY <1>3 DEF Example1Main, Example2Main, OtherMain, Run, Server, Up
    <2>2. UNCHANGED Answered
      BY <1>3 DEF Example1Main, Example2Main, OtherMain, Run, Answered, Offered
    <2> QED
      BY <1>1, <2>1, <2>2 DEF Promise!Serve
  <1>4. CASE Message
    <2>1. Server = "serving" /\ Server' = "down"
      BY <1>4 DEF Message, Run, Server, Up
    <2>2. UNCHANGED Answered
      BY <1>4 DEF Message, Run, Answered, Offered
    <2> QED
      BY <1>1, <2>1, <2>2 DEF Promise!Die
  <1> QED
    BY <1>2, <1>3, <1>4

\* The client programs.
LEMMA ClientKept ==
  ASSUME RouterInv, NEW c \in Clients, Call(c) \/ ShowReply(c) \/ PanicOnError(c)
  PROVE  Promise!Call(c) \/ Promise!Read(c) \/ Promise!Fail(c)
  <1>1. UNCHANGED <<Server, Answered>>
    BY SameServer DEF Call, ShowReply, PanicOnError
  <1>2. CASE Call(c)
    <2>1. Conn[c] = "idle" /\ Conn' = [Conn EXCEPT ![c] = "asking"]
      BY <1>2, ConnMoves DEF Call, RouterInv, Seen
    <2> QED
      BY <1>1, <1>2, <2>1, UpServes DEF Call, Promise!Call
  <1>3. CASE ShowReply(c)
    <2>1. UNCHANGED Conn
      BY <1>3, SameConn DEF ShowReply, serverVars
    <2> QED
      BY <1>1, <1>3, <2>1 DEF ShowReply, Promise!Read
  <1>4. CASE PanicOnError(c)
    <2>1. UNCHANGED Conn
      BY <1>4, SameConn DEF PanicOnError, serverVars
    <2>2. stage[c] = "closed" => Conn[c] = "closed"
      BY DEF Conn, Seen
    <2>3. main = "crashed" => Server = "down"
      BY DEF Server, Up
    <2> QED
      BY <1>1, <1>4, <2>1, <2>2, <2>3 DEF PanicOnError, Promise!Fail
  <1> QED
    BY <1>2, <1>3, <1>4

\* The goroutine of a connection: only CallOk answers, and the object it reads the id from
\* carries the call of its own client (Serving).
LEMMA ConnectionKept ==
  ASSUME RouterInv, NEW c \in Clients, ServeConn(c)
  PROVE  Promise!Answer(c) \/ Promise!Refuse(c) \/ UNCHANGED Promise!promiseVars
  <1>1. UNCHANGED <<Server, Answered>> /\ Server = "serving"
    BY SameServer, UpServes
       DEF ServeConn, ReadHeader, BadHeader, Unknown, Dispatch, Panic, CallError, CallOk, Done, Refuse
  <1>2. UNCHANGED <<asked, calls, client>>
    BY DEF ServeConn, ReadHeader, BadHeader, Unknown, Dispatch, Panic, CallError, CallOk, Done,
           Refuse, clientVars
  <1>3. Types
    BY DEF RouterInv
  <1>4. CASE ReadHeader(c) \/ Dispatch(c) \/ Done(c)
    <2>1. PICK s : stage' = [stage EXCEPT ![c] = s] /\ Seen(s) = Seen(stage[c])
      BY <1>4 DEF ReadHeader, Dispatch, Done, Seen
    <2>2. Conn' = [Conn EXCEPT ![c] = Conn[c]]
      BY <1>3, <2>1, ConnMoves
    <2>3. UNCHANGED <<Conn, answer>>
      BY <1>4, <2>2 DEF Conn, ReadHeader, Dispatch, Done, clientVars
    <2> QED
      BY <1>1, <1>2, <2>3 DEF Promise!promiseVars
  <1>5. CASE BadHeader(c) \/ Unknown(c) \/ Panic(c) \/ CallError(c)
    <2>1. stage[c] \in {"received", "read", "called"} /\ stage' = [stage EXCEPT ![c] = "closed"]
      BY <1>5 DEF BadHeader, Unknown, Panic, CallError, Refuse
    <2>2. Conn[c] = "asking" /\ Conn' = [Conn EXCEPT ![c] = "closed"]
      BY <1>3, <2>1, ConnMoves DEF Seen
    <2>3. UNCHANGED answer
      BY <1>5 DEF BadHeader, Unknown, Panic, CallError, Refuse, clientVars
    <2> QED
      BY <1>1, <1>2, <2>2, <2>3 DEF Promise!Refuse
  <1>6. CASE CallOk(c)
    <2>1. Conn[c] = "asking" /\ Conn' = [Conn EXCEPT ![c] = "idle"]
      <3>1. stage[c] = "called" /\ stage' = [stage EXCEPT ![c] = "sent"]
        BY <1>6 DEF CallOk
      <3>2. Seen("called") = "asking" /\ Seen("sent") = "idle"
        BY DEF Seen
      <3> QED
        BY <1>3, <3>1, <3>2, ConnMoves
    <2>2. asked[c] \in Answered
      BY <1>6 DEF CallOk, RouterInv, Suited, Answered
    <2>3. msg[using[c]] = <<c, calls[c]>>
      BY <1>6 DEF CallOk, RouterInv, Serving
    <2>4. asked[c] \in Endpoints
      BY <2>2 DEF RouterInv, Suited, Answered, Offered, Endpoints
    <2>5. [m \in Endpoints |-> Reply(m)][asked[c]] = Reply(asked[c])
      BY <2>4
    <2>6. answer' = [answer EXCEPT ![c] =
            [call |-> <<c, calls[c]>>, value |-> [m \in Endpoints |-> Reply(m)][asked[c]]]]
      BY <1>6, <2>3, <2>5 DEF CallOk
    <2> QED
      BY <1>1, <1>2, <2>1, <2>2, <2>6 DEF Promise!Answer
  <1> QED
    BY <1>4, <1>5, <1>6 DEF ServeConn

\* Every step of the server and its clients is one that RpcPromise allows.
LEMMA StepKept == RouterInv /\ [Next]_vars => [Promise!Next]_Promise!promiseVars
  <1> SUFFICES ASSUME RouterInv, [Next]_vars
               PROVE  Promise!Next \/ UNCHANGED Promise!promiseVars
    OBVIOUS
  <1>1. CASE Handle \/ Example1Main \/ Example2Main \/ OtherMain \/ Message
    BY <1>1, MainKept DEF Promise!Next
  <1>2. ASSUME NEW c \in Clients, Call(c) \/ ShowReply(c) \/ PanicOnError(c)
        PROVE  Promise!Next
    BY <1>2, ClientKept DEF Promise!Next
  <1>3. ASSUME NEW c \in Clients, ServeConn(c)
        PROVE  Promise!Next \/ UNCHANGED Promise!promiseVars
    BY <1>3, ConnectionKept DEF Promise!Next
  <1>4. CASE UNCHANGED vars
    <2>1. UNCHANGED <<Server, Answered, Conn>>
      BY <1>4, SameServer, SameConn DEF vars, serverVars
    <2> QED
      BY <1>4, <2>1 DEF vars, clientVars, Promise!promiseVars
  <1> QED
    BY <1>1, <1>2, <1>3, <1>4 DEF Next

(***************************************************************************)
(* The server keeps RpcPromise: recycling request objects is invisible to  *)
(* its clients, for any number of them (router.getRequest, freeRequest).   *)
(***************************************************************************)
THEOREM RecyclingInvisible == Spec => Recycled
  <1>1. Init => Promise!Init
    BY DEF Init, Promise!Init, Server, Up, Answered, Conn, Seen
  <1> QED
    BY <1>1, StepKept, AlwaysRouter, PTL DEF Spec, Recycled, Promise!Spec
=============================================================================
