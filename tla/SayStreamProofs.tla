-------------------------- MODULE SayStreamProofs ---------------------------
EXTENDS SayStream, SequenceTheorems, TLAPS

(***************************************************************************)
(* Proofs about SayStream, for any number of clients, values, rounds,      *)
(* tries and failures: each stream keeps what StreamPromise promises, the  *)
(* two sides of the second stay in step, they never wait for each other,   *)
(* and nothing panics unless something has failed.                         *)
(***************************************************************************)

(* The two ends of a connection.  Nothing is on the way to a client that   *)
(* has closed, nor on a connection broken under an open client.            *)
Ends(s) ==
    /\ serverEnd[s] = "open" <=> handler[s] \in Running
    /\ clientEnd[s] # "open" => toClient[s] = <<>>
    /\ clientEnd[s] = "open" /\ reset[s] => toClient[s] = <<>> /\ toServer[s] = <<>>
    /\ clientEnd[s] = "none" =>
          /\ serverEnd[s] = "none" /\ ~reset[s] /\ handler[s] = "none"
          /\ toServer[s] = <<>> /\ toClient[s] = <<>>
          /\ sent[s] = 0 /\ got[s] = <<>>

(* Where a client stands with a stream, and the handlers the stream has.   *)
ValuesPlace(p) == LET s == Values(p) IN
    /\ pc[p] = "open values" <=> clientEnd[s] = "none" /\ pc[p] # "dead"
    /\ pc[p] \in {"ask", "read"} <=> clientEnd[s] = "open"
    /\ pc[p] \in {"open values", "ask", "read"} => status[s] = "reading"
    /\ handler[s] \in {"none", "accepted", "request", "stream", "done", "killed"}

BidiPlace(p) == LET s == Bidi(p) IN
    /\ pc[p] \in {"open values", "ask", "read", "open bidi"} => clientEnd[s] = "none"
    /\ pc[p] \in {"send", "recv"} <=> clientEnd[s] = "open"
    /\ handler[s] \in {"none", "accepted", "recv", "reply", "done", "panicked", "killed"}

(* The values on their way continue those received, without a gap, as far  *)
(* as they have been sent; EOS is the last message and follows the last    *)
(* value.                                                                  *)
Ordered(q, received, n, h) ==
    \A i \in 1 .. Len(q) :
        \/ q[i] = received + i /\ received + i <= n
        \/ q[i] = EOS /\ i = Len(q) /\ received + i = Count + 1 /\ h = "done"

InOrder(s) ==
    /\ sent[s] <= Count
    /\ Ordered(toClient[s], Len(got[s]), sent[s], handler[s])
    /\ handler[s] = "stream" /\ clientEnd[s] = "open" /\ ~reset[s] =>
          Len(got[s]) + Len(toClient[s]) = sent[s]
    /\ handler[s] \in {"accepted", "request"} =>
          sent[s] = 0 /\ toClient[s] = <<>> /\ got[s] = <<>>

(* Until it has asked, the client has not made the handler run.            *)
Asking(p) == LET s == Values(p) IN pc[p] = "ask" =>
    /\ handler[s] # "stream"
    /\ handler[s] = "accepted" => Len(toServer[s]) <= 1
    /\ handler[s] = "request" => toServer[s] = <<>>

Counted(n) == [i \in 1 .. n |-> i]

(* The two sides of the other stream take turns: what has been answered,   *)
(* what the handler has to read, and what it has sent.                     *)
Answers(p) == LET s == Bidi(p) IN
    /\ got[s] = Counted(round[p])
    /\ pc[p] \in {"send", "waiting"} => toClient[s] = <<>>
    /\ pc[p] = "recv" =>
          \/ toClient[s] = <<>>
          \/ Len(toClient[s]) = 1 /\ toClient[s][1] = round[p] + 1
    /\ pc[p] = "recv" => round[p] < Rounds
    /\ clientEnd[s] = "none" => round[p] = 0

Requests(p) == LET s == Bidi(p) IN
    /\ handler[s] = "accepted" =>
          /\ sent[s] = 0 /\ round[p] = 0 /\ toClient[s] = <<>>
          /\ Len(toServer[s]) <= 2
          /\ pc[p] \in {"send", "waiting"} => Len(toServer[s]) <= 1
    /\ handler[s] = "recv" =>
          /\ Len(toServer[s]) + Len(toClient[s]) <= 1
          /\ pc[p] \in {"send", "waiting"} => toServer[s] = <<>>
    /\ handler[s] = "reply" =>
          /\ toServer[s] = <<>> /\ toClient[s] = <<>>
          /\ pc[p] \notin {"send", "waiting"}

Counts(p) == LET s == Bidi(p) IN
    /\ pc[p] = "send" /\ handler[s] \in Running => sent[s] = round[p]
    /\ pc[p] = "recv" /\ handler[s] \in Running /\ ~reset[s] =>
          sent[s] = round[p] + Len(toClient[s])

(* Without faults a server closes its end last, but for the end of the     *)
(* values stream.                                                          *)
ValuesCalm(p) == LET s == Values(p) IN faults = 0 =>
    /\ serverUp /\ pc[p] # "dead"
    /\ ~reset[s] /\ handler[s] # "killed"
    /\ clientEnd[s] = "open" =>
          \/ handler[s] \in Running
          \/ /\ handler[s] = "done" /\ pc[p] = "read"
             /\ toClient[s] # <<>> /\ toClient[s][Len(toClient[s])] = EOS
    /\ clientEnd[s] = "closed" => handler[s] = "done"

BidiCalm(p) == LET s == Bidi(p) IN faults = 0 =>
    /\ ~reset[s] /\ handler[s] \notin {"killed", "panicked"}
    /\ clientEnd[s] = "open" => handler[s] \in Running

ValuesInv(p) ==
    /\ Ends(Values(p)) /\ ValuesPlace(p) /\ InOrder(Values(p)) /\ Asking(p)
    /\ ValuesCalm(p)

BidiInv(p) == Ends(Bidi(p)) /\ BidiPlace(p) /\ BidiCalm(p)
              /\ Answers(p) /\ Requests(p) /\ Counts(p)

StreamInv == TypeOK /\ \A p \in Clients : ValuesInv(p) /\ BidiInv(p)

-----------------------------------------------------------------------------
(* The two streams of a client are two sessions.                           *)
LEMMA TwoStreams ==
  \A p \in Clients :
     /\ Values(p) \in Sessions /\ Values(p)[1] = p /\ Values(p)[2] = "values"
     /\ Bidi(p) \in Sessions /\ Bidi(p)[1] = p /\ Bidi(p)[2] = "bidi"
  BY DEF Values, Bidi, Sessions, Kinds

(* And a session is one of its client's two.                               *)
LEMMA OneOfTwo ==
  ASSUME NEW s \in Sessions
  PROVE  s[1] \in Clients /\ (s = Values(s[1]) \/ s = Bidi(s[1]))
  BY DEF Values, Bidi, Sessions, Kinds

(* The streams are all different.                                          *)
LEMMA Apart ==
  ASSUME NEW p \in Clients, NEW q \in Clients
  PROVE  /\ Values(p) # Bidi(q)
         /\ p # q => Values(p) # Values(q) /\ Bidi(p) # Bidi(q)
  BY DEF Values, Bidi

(* Sequences of messages, one that is another and one message more, and    *)
(* one that is another without its first.                                  *)
Messages(q) == q \in Seq(Nat) /\ Len(q) \in Nat /\ (q = <<>> <=> Len(q) = 0)

(* The empty sequence is the one of length zero.                           *)
LEMMA NoneNat ==
  ASSUME NEW q \in Seq(Nat)
  PROVE  Len(q) \in Nat /\ (q = <<>> <=> Len(q) = 0)
  OBVIOUS

More(r, q, n) ==
    /\ Messages(r) /\ Len(r) = Len(q) + 1
    /\ r[Len(q) + 1] = n
    /\ \A i \in 1 .. Len(q) : r[i] = q[i]

Less(r, q) ==
    /\ Messages(r) /\ Len(q) = Len(r) + 1
    /\ \A i \in 1 .. Len(r) : r[i] = q[i + 1]

(* Values in order stay so when one more is sent, when EOS is sent after   *)
(* the last, and when the first is received.                               *)
LEMMA OrderedNone ==
  ASSUME NEW g, NEW n, NEW h
  PROVE  Ordered(<<>>, g, n, h)
  BY DEF Ordered

(* One value more.                                                         *)
LEMMA OrderedMore ==
  ASSUME NEW q, NEW r, NEW g \in Nat, NEW n \in Nat, NEW h, Messages(q),
         Ordered(q, g, n, h), h # "done", g + Len(q) = n, More(r, q, n + 1)
  PROVE  Ordered(r, g, n + 1, h)
  <1> SUFFICES ASSUME NEW i \in 1 .. Len(r)
               PROVE  r[i] = g + i /\ g + i <= n + 1
    BY DEF Ordered
  <1>1. CASE i \in 1 .. Len(q)
    BY <1>1 DEF Ordered, More, Messages
  <1>2. CASE i = Len(q) + 1
    BY <1>2 DEF More, Messages
  <1> QED
    BY <1>1, <1>2 DEF More, Messages

(* EOS after the last value.                                               *)
LEMMA OrderedLast ==
  ASSUME NEW q, NEW r, NEW g \in Nat, NEW h, Messages(q),
         Ordered(q, g, Count, h), h # "done", g + Len(q) = Count, More(r, q, EOS)
  PROVE  Ordered(r, g, Count, "done")
  <1> SUFFICES ASSUME NEW i \in 1 .. Len(r)
               PROVE  \/ r[i] = g + i /\ g + i <= Count
                      \/ r[i] = EOS /\ i = Len(r) /\ g + i = Count + 1
    BY DEF Ordered
  <1>1. CASE i \in 1 .. Len(q)
    BY <1>1 DEF Ordered, More, Messages
  <1>2. CASE i = Len(q) + 1
    <2>1. r[i] = EOS
      BY <1>2 DEF More
    <2>2. i = Len(r) /\ g + i = Count + 1
      BY <1>2 DEF More, Messages
    <2> QED
      BY <2>1, <2>2
  <1> QED
    BY <1>1, <1>2 DEF More, Messages

(* More may have been sent than is on its way.                             *)
LEMMA OrderedLonger ==
  ASSUME NEW q, NEW g \in Nat, NEW n \in Nat, NEW m \in Nat, n <= m, Messages(q),
         NEW h, NEW k, h # "done", Ordered(q, g, n, h)
  PROVE  Ordered(q, g, m, k)
  BY DEF Ordered, Messages

(* The first is received: it is the next value.                            *)
LEMMA OrderedLess ==
  ASSUME NEW q, NEW r, NEW g \in Nat, NEW n \in Nat, NEW h, Messages(q),
         Ordered(q, g, n, h), q[1] # EOS, Less(r, q)
  PROVE  Ordered(r, g + 1, n, h) /\ q[1] = g + 1 /\ g + 1 <= n
  <1>1. q[1] = g + 1 /\ g + 1 <= n
    BY DEF Ordered, Less, Messages
  <1>2. ASSUME NEW i \in 1 .. Len(r)
        PROVE  \/ r[i] = (g + 1) + i /\ (g + 1) + i <= n
               \/ r[i] = EOS /\ i = Len(r) /\ (g + 1) + i = Count + 1 /\ h = "done"
    <2>1. i + 1 \in 1 .. Len(q) /\ r[i] = q[i + 1] /\ Len(q) = Len(r) + 1
      BY DEF Less, Messages
    <2>2. \/ q[i + 1] = g + (i + 1) /\ g + (i + 1) <= n
          \/ q[i + 1] = EOS /\ i + 1 = Len(q) /\ g + (i + 1) = Count + 1 /\ h = "done"
      BY <2>1 DEF Ordered
    <2> QED
      BY <2>1, <2>2, StreamAssumption DEF Less, Messages
  <1> QED
    BY <1>1, <1>2 DEF Ordered

(* What a write appends.                                                   *)
LEMMA AppendIsMore ==
  ASSUME NEW q \in Seq(Nat), NEW n \in Nat
  PROVE  More(Append(q, n), q, n)
  BY DEF More, Messages

(* What a read takes.                                                      *)
LEMMA TailIsLess ==
  ASSUME NEW q \in Seq(Nat), q # <<>>
  PROVE  Less(Tail(q), q) /\ Head(q) = q[1] /\ Head(q) \in Nat
  <1>1. Tail(q) \in Seq(Nat) /\ Len(Tail(q)) = Len(q) - 1 /\ Len(q) \in Nat /\ Len(q) # 0
    OBVIOUS
  <1>2. \A i \in 1 .. Len(q) - 1 : Tail(q)[i] = q[i + 1]
    OBVIOUS
  <1>3. Head(q) = q[1] /\ Head(q) \in Nat
    OBVIOUS
  <1>4. Messages(Tail(q))
    BY <1>1, NoneNat DEF Messages
  <1> QED
    BY <1>1, <1>2, <1>3, <1>4 DEF Less

(* Counting on by one.                                                     *)
LEMMA CountOn ==
  ASSUME NEW n \in Nat
  PROVE  Append(Counted(n), n + 1) = Counted(n + 1)
  <1> DEFINE f == [i \in 1 .. n |-> i]
             g == [i \in 1 .. n + 1 |-> i]
  <1>1. f \in Seq(Nat) /\ Len(f) = n
    OBVIOUS
  <1>2. g \in Seq(Nat) /\ Len(g) = n + 1
    OBVIOUS
  <1>3. Append(f, n + 1) \in Seq(Nat) /\ Len(Append(f, n + 1)) = n + 1
    BY <1>1
  <1>4. \A i \in 1 .. n + 1 : Append(f, n + 1)[i] = g[i]
    BY <1>1
  <1> HIDE DEF f, g
  <1>5. Append(f, n + 1) = g
    BY <1>2, <1>3, <1>4, SeqEqual
  <1> QED
    BY <1>5 DEF f, g, Counted

(* Counting from nothing.                                                  *)
LEMMA CountNone == Counted(0) = <<>>
  <1>1. [i \in 1 .. 0 |-> i] \in Seq(Nat) /\ Len([i \in 1 .. 0 |-> i]) = 0
    OBVIOUS
  <1> QED
    BY <1>1, NoneNat DEF Counted

(* The types at a stream and at a client.                                  *)
StreamType(s) ==
    /\ Messages(got[s]) /\ Messages(toServer[s]) /\ Messages(toClient[s])
    /\ sent[s] \in Nat /\ reset[s] \in BOOLEAN
    /\ status[s] \in {"reading", "eof", "broken"}
    /\ clientEnd[s] \in {"none", "open", "closed"}
    /\ serverEnd[s] \in {"none", "open", "closed"}

(* They follow from the type invariant, now ...                            *)
LEMMA Types ==
  ASSUME TypeOK, NEW s \in Sessions
  PROVE  StreamType(s)
  <1> USE DEF TypeOK
  <1>1. Messages(got[s])
    <2>1. got[s] \in Seq(Nat)
      OBVIOUS
    <2> QED
      BY <2>1, NoneNat DEF Messages
  <1>2. Messages(toServer[s])
    <2>1. toServer[s] \in Seq(Nat)
      OBVIOUS
    <2> QED
      BY <2>1, NoneNat DEF Messages
  <1>3. Messages(toClient[s])
    <2>1. toClient[s] \in Seq(Nat)
      OBVIOUS
    <2> QED
      BY <2>1, NoneNat DEF Messages
  <1> QED
    BY <1>1, <1>2, <1>3 DEF StreamType

(* ... and after a step.                                                   *)
LEMMA TypesNext ==
  ASSUME TypeOK', NEW s \in Sessions
  PROVE  StreamType(s)'
  <1> USE DEF TypeOK
  <1>1. Messages(got[s])'
    <2>1. got'[s] \in Seq(Nat)
      OBVIOUS
    <2> QED
      BY <2>1, NoneNat DEF Messages
  <1>2. Messages(toServer[s])'
    <2>1. toServer'[s] \in Seq(Nat)
      OBVIOUS
    <2> QED
      BY <2>1, NoneNat DEF Messages
  <1>3. Messages(toClient[s])'
    <2>1. toClient'[s] \in Seq(Nat)
      OBVIOUS
    <2> QED
      BY <2>1, NoneNat DEF Messages
  <1> QED
    BY <1>1, <1>2, <1>3 DEF StreamType

(* The domains, for the provers.                                           *)
Domains ==
    /\ DOMAIN got = Sessions /\ DOMAIN sent = Sessions
    /\ DOMAIN toServer = Sessions /\ DOMAIN toClient = Sessions
    /\ DOMAIN clientEnd = Sessions /\ DOMAIN serverEnd = Sessions
    /\ DOMAIN reset = Sessions /\ DOMAIN handler = Sessions /\ DOMAIN status = Sessions
    /\ DOMAIN pc = Clients /\ DOMAIN round = Clients

(* They, too, follow from it.                                              *)
LEMMA DomainTypes == TypeOK => Domains
  BY DEF TypeOK, Domains

(* And after a step.                                                       *)
LEMMA DomainTypesNext == TypeOK' => Domains'
  BY DEF TypeOK, Domains

(* The types of a client, as numbers.                                      *)
LEMMA PlaceTypes ==
  ASSUME TypeOK
  PROVE  /\ faults \in Nat
         /\ \A p \in Clients : round[p] \in Nat /\ tries[p] \in Nat
         /\ \A p \in Clients : pc[p] \in {"open values", "ask", "read", "open bidi", "send",
                                       "recv", "waiting", "dead"}
  <1>1. faults \in 0 .. MaxFaults
    BY DEF TypeOK
  <1>2. round \in [Clients -> 0 .. Rounds] /\ tries \in [Clients -> 0 .. Retries]
    BY DEF TypeOK
  <1>3. \A p \in Clients : pc[p] \in {"open values", "ask", "read", "open bidi", "send",
                                    "recv", "waiting", "dead"}
    BY DEF TypeOK
  <1>4. \A p \in Clients : round[p] \in 0 .. Rounds /\ tries[p] \in 0 .. Retries
    BY <1>2
  <1>5. faults \in Nat
    BY <1>1, StreamAssumption
  <1>6. \A p \in Clients : round[p] \in Nat /\ tries[p] \in Nat
    <2>1. 0 .. Rounds \subseteq Nat /\ 0 .. Retries \subseteq Nat
      BY StreamAssumption
    <2> QED
      BY <1>4, <2>1
  <1> QED
    BY <1>3, <1>5, <1>6

(* What the helpers of the actions do to the wires.                        *)
LEMMA SendEffect ==
  ASSUME TypeOK, NEW s \in Sessions, NEW m \in Nat, SendToClient(s, m)
  PROVE  /\ toClient' \in [Sessions -> Seq(Nat)] /\ reset' \in [Sessions -> BOOLEAN]
         /\ \A t \in Sessions : t # s => toClient'[t] = toClient[t] /\ reset'[t] = reset[t]
         /\ \/ /\ clientEnd[s] = "open" /\ ~reset[s] /\ ~reset'[s]
               /\ More(toClient'[s], toClient[s], m)
            \/ /\ clientEnd[s] # "open" \/ reset[s]
               /\ reset'[s] /\ toClient'[s] = toClient[s]
  <1>1. CASE clientEnd[s] = "open" /\ ~reset[s]
    <2> DEFINE q == Append(toClient[s], m)
    <2>1. toClient' = [toClient EXCEPT ![s] = q] /\ reset' = reset
      BY <1>1 DEF SendToClient
    <2>2. More(q, toClient[s], m) /\ q \in Seq(Nat)
      <3>1. toClient[s] \in Seq(Nat)
        BY Types DEF StreamType, Messages
      <3> QED
        BY <3>1, AppendIsMore DEF Messages, More
    <2> HIDE DEF q
    <2> QED
      BY <1>1, <2>1, <2>2 DEF TypeOK
  <1>2. CASE ~(clientEnd[s] = "open" /\ ~reset[s])
    BY <1>2 DEF SendToClient, TypeOK
  <1> QED
    BY <1>1, <1>2

(* A wire replaced by a sequence of messages is still one.                 *)
LEMMA Emptied ==
  ASSUME TypeOK, NEW s \in Sessions, NEW q \in Seq(Nat)
  PROVE  /\ [toServer EXCEPT ![s] = q] \in [Sessions -> Seq(Nat)]
         /\ [toClient EXCEPT ![s] = q] \in [Sessions -> Seq(Nat)]
  BY DEF TypeOK

(* A few facts of small sequences and numbers.                             *)
LEMMA OneMessage ==
  <<0>> \in Seq(Nat) /\ <<0>> # <<>> /\ Len(<<0>>) <= 1 /\ Len(<<0>>) <= 2
  OBVIOUS

(* Zero is a number of tries and no more than Count.                       *)
LEMMA LeastCounts == 0 \in 0 .. Retries /\ 0 <= Count
  BY StreamAssumption

(* One message more, where there is none or at most one.                   *)
LEMMA AtMostTwo ==
  ASSUME NEW m \in Nat, NEW n \in Nat, n = m \/ n = m + 1
  PROVE  (m <= 1 => n <= 2) /\ (m = 0 => n + 0 <= 1)
  OBVIOUS

(* One message less.                                                       *)
LEMMA NotNone ==
  ASSUME NEW m \in Nat, NEW n \in Nat, n = m + 1
  PROVE  n # 0 /\ (n = 1 => m = 0)
  OBVIOUS

(* Nothing instead of something.                                           *)
LEMMA NoMore ==
  ASSUME NEW m \in Nat, NEW n \in Nat, m + n <= 1
  PROVE  m + 0 <= 1
  OBVIOUS

(* No message at all.                                                      *)
LEMMA NoMessage == <<>> \in Seq(Nat) /\ Len(<<>>) = 0
  OBVIOUS

(* The server reads a message.                                             *)
LEMMA TakeEffect ==
  ASSUME TypeOK, NEW s \in Sessions, Arrived(s), Take(s)
  PROVE  /\ toServer' \in [Sessions -> Seq(Nat)]
         /\ \A t \in Sessions : t # s => toServer'[t] = toServer[t]
         /\ Less(toServer'[s], toServer[s])
  <1> DEFINE q == Tail(toServer[s])
  <1>1. toServer' = [toServer EXCEPT ![s] = q]
    BY DEF Take
  <1>2. Less(q, toServer[s]) /\ q \in Seq(Nat)
    BY Types, TailIsLess DEF StreamType, Messages, Less, Arrived
  <1> HIDE DEF q
  <1> QED
    BY <1>1, <1>2 DEF TypeOK

(* The client writes one.                                                  *)
LEMMA WriteEffect ==
  ASSUME TypeOK, NEW s \in Sessions, NEW m \in Nat, Write(s, m)
  PROVE  /\ toServer' \in [Sessions -> Seq(Nat)]
         /\ \A t \in Sessions : t # s => toServer'[t] = toServer[t]
         /\ \/ serverEnd[s] = "open" /\ ~reset[s] /\ More(toServer'[s], toServer[s], m)
            \/ (serverEnd[s] # "open" \/ reset[s]) /\ toServer'[s] = toServer[s]
  <1> DEFINE q == Append(toServer[s], m)
  <1>1. toServer' = IF Reaches(s) THEN [toServer EXCEPT ![s] = q] ELSE toServer
    BY DEF Write
  <1>2. More(q, toServer[s], m) /\ q \in Seq(Nat)
    <2>1. toServer[s] \in Seq(Nat)
      BY Types DEF StreamType, Messages
    <2> QED
      BY <2>1, AppendIsMore DEF Messages, More
  <1> HIDE DEF q
  <1> QED
    BY <1>1, <1>2 DEF TypeOK, Reaches

(* The client reads one.                                                   *)
LEMMA ReceiveEffect ==
  ASSUME TypeOK, NEW s \in Sessions, Receive(s)
  PROVE  /\ toClient' \in [Sessions -> Seq(Nat)] /\ got' \in [Sessions -> Seq(Nat)]
         /\ \A t \in Sessions : t # s => toClient'[t] = toClient[t] /\ got'[t] = got[t]
         /\ toClient[s][1] # EOS /\ Less(toClient'[s], toClient[s])
         /\ got'[s] = Append(got[s], toClient[s][1])
         /\ More(got'[s], got[s], toClient[s][1])
  <1> DEFINE q == Tail(toClient[s])
             m == Head(toClient[s])
             g == Append(got[s], m)
  <1>1. toClient' = [toClient EXCEPT ![s] = q] /\ got' = [got EXCEPT ![s] = g] /\ m # EOS
    BY DEF Receive
  <1>2. Less(q, toClient[s]) /\ q \in Seq(Nat) /\ m \in Nat /\ m = toClient[s][1]
    BY Types, TailIsLess DEF StreamType, Messages, Less, Receive
  <1> HIDE DEF q, m
  <1>3. More(g, got[s], m) /\ g \in Seq(Nat)
    <2>1. got[s] \in Seq(Nat)
      BY Types DEF StreamType, Messages
    <2> QED
      BY <1>2, <2>1, AppendIsMore DEF Messages, More
  <1>4. g = Append(got[s], toClient[s][1])
    BY <1>2
  <1> HIDE DEF g
  <1> QED
    BY <1>1, <1>2, <1>3, <1>4 DEF TypeOK

-----------------------------------------------------------------------------
(* A stream no step has touched, and the invariant of what is untouched.   *)
SameStream(s) ==
    /\ clientEnd'[s] = clientEnd[s] /\ serverEnd'[s] = serverEnd[s]
    /\ reset'[s] = reset[s] /\ handler'[s] = handler[s] /\ sent'[s] = sent[s]
    /\ toServer'[s] = toServer[s] /\ toClient'[s] = toClient[s]
    /\ got'[s] = got[s] /\ status'[s] = status[s]

SamePlace(p) == pc'[p] = pc[p] /\ round'[p] = round[p]

FaultsOnly == faults' = 0 => faults = 0 /\ (serverUp => serverUp')

(* An untouched values stream.                                             *)
LEMMA ValuesFrame ==
  ASSUME NEW p \in Clients, ValuesInv(p), SameStream(Values(p)), SamePlace(p), FaultsOnly
  PROVE  ValuesInv(p)'
  BY DEF ValuesInv, Ends, ValuesPlace, InOrder, Asking, ValuesCalm,
         SameStream, SamePlace, FaultsOnly

(* An untouched stream of the other kind.                                  *)
LEMMA BidiFrame ==
  ASSUME NEW p \in Clients, BidiInv(p), SameStream(Bidi(p)), SamePlace(p), FaultsOnly
  PROVE  BidiInv(p)'
  BY
     DEF BidiInv, Ends, BidiPlace, Answers, Requests, Counts, BidiCalm, SameStream,
         SamePlace, FaultsOnly

(* A step of a client is about its two streams ...                         *)
LEMMA ClientFrame ==
  ASSUME StreamInv, TypeOK', NEW p \in Clients, ValuesInv(p)', BidiInv(p)', FaultsOnly,
         \A q \in Clients \ {p} : SamePlace(q),
         \A s \in Sessions : s # Values(p) /\ s # Bidi(p) => SameStream(s)
  PROVE  StreamInv'
  <1>1. ASSUME NEW q \in Clients, q # p PROVE ValuesInv(q)' /\ BidiInv(q)'
    <2>1. SameStream(Values(q)) /\ SameStream(Bidi(q)) /\ SamePlace(q)
      BY <1>1, Apart, TwoStreams
    <2>2. ValuesInv(q) /\ BidiInv(q)
      BY DEF StreamInv
    <2> QED
      BY <2>1, <2>2, ValuesFrame, BidiFrame
  <1> QED
    BY <1>1 DEF StreamInv

(* ... and one of a connection about one.                                  *)
LEMMA SessionFrame ==
  ASSUME StreamInv, TypeOK', NEW s \in Sessions, FaultsOnly,
         \A p \in Clients : s = Values(p) => ValuesInv(p)',
         \A p \in Clients : s = Bidi(p) => BidiInv(p)',
         \A p \in Clients : SamePlace(p),
         \A t \in Sessions : t # s => SameStream(t)
  PROVE  StreamInv'
  <1>1. ASSUME NEW p \in Clients PROVE ValuesInv(p)' /\ BidiInv(p)'
    <2>1. ValuesInv(p) /\ BidiInv(p) /\ SamePlace(p)
      BY DEF StreamInv
    <2>2. ValuesInv(p)'
      BY <2>1, TwoStreams, ValuesFrame
    <2>3. BidiInv(p)'
      BY <2>1, TwoStreams, BidiFrame
    <2> QED
      BY <2>2, <2>3
  <1> QED
    BY <1>1 DEF StreamInv

-----------------------------------------------------------------------------
(* A step that touches no stream.                                          *)
LEMMA AllFrame ==
  ASSUME StreamInv, TypeOK', FaultsOnly, \A s \in Sessions : SameStream(s),
         \A p \in Clients : SamePlace(p)
  PROVE  StreamInv'
  <1>1. ASSUME NEW p \in Clients PROVE ValuesInv(p)' /\ BidiInv(p)'
    <2>1. SameStream(Values(p)) /\ SameStream(Bidi(p)) /\ SamePlace(p)
      BY TwoStreams
    <2>2. ValuesInv(p) /\ BidiInv(p)
      BY DEF StreamInv
    <2> QED
      BY <2>1, <2>2, ValuesFrame, BidiFrame
  <1> QED
    BY <1>1 DEF StreamInv

(* At the start.                                                           *)
LEMMA InitInv == Init => StreamInv
  <1> SUFFICES ASSUME Init PROVE StreamInv
    OBVIOUS
  <1>1. TypeOK
    <2>1. <<>> \in Seq(Nat) /\ 0 \in 0 .. Retries /\ 0 \in 0 .. Rounds /\ 0 \in 0 .. MaxFaults
      BY StreamAssumption
    <2>2. /\ got \in [Sessions -> Seq(Nat)] /\ toServer \in [Sessions -> Seq(Nat)]
          /\ toClient \in [Sessions -> Seq(Nat)]
      BY <2>1 DEF Init
    <2> QED
      BY <2>1, <2>2 DEF Init, TypeOK, Running
  <1>2. ASSUME NEW p \in Clients PROVE ValuesInv(p)
    <2>1. Len(<<>>) = 0 /\ Values(p) \in Sessions
      BY TwoStreams
    <2>2. InOrder(Values(p))
      <3>1. /\ toClient[Values(p)] = <<>> /\ sent[Values(p)] = 0
            /\ handler[Values(p)] = "none"
        BY <2>1 DEF Init
      <3> QED
        BY <3>1, OrderedNone, StreamAssumption DEF InOrder
    <2> QED
      BY <2>1, <2>2 DEF Init, ValuesInv, Ends, ValuesPlace, Asking, ValuesCalm, Running
  <1>3. ASSUME NEW p \in Clients PROVE BidiInv(p)
    BY TwoStreams, CountNone
       DEF Init, BidiInv, Ends, BidiPlace, Answers, Requests, Counts, BidiCalm, Running
  <1> QED
    BY <1>1, <1>2, <1>3 DEF StreamInv

(* A connection's first request.                                           *)
LEMMA AcceptKeeps ==
  ASSUME StreamInv, NEW s \in Sessions, Accept(s)
  PROVE  StreamInv'
  <1>1. TypeOK
    BY DEF StreamInv
  <1>2. StreamType(s)
    BY <1>1, Types
  <1>3. /\ handler[s] = "accepted" /\ toServer[s] # <<>>
        /\ handler'[s] = (IF s[2] = "values" THEN "request" ELSE "recv")
        /\ clientEnd'[s] = clientEnd[s] /\ serverEnd'[s] = serverEnd[s] /\ reset'[s] = reset[s]
        /\ toClient'[s] = toClient[s] /\ sent'[s] = sent[s] /\ got'[s] = got[s]
        /\ status'[s] = status[s]
    BY <1>1 DEF TypeOK, Accept, Arrived, serverFrame, clientVars, HandlerTo
  <1>4. Less(toServer'[s], toServer[s])
    BY <1>1, <1>2, TakeEffect, StreamAssumption
       DEF StreamType, Accept, Arrived, serverFrame, clientVars, HandlerTo
  <1>5. TypeOK'
    BY <1>1, <1>2, TakeEffect, StreamAssumption
       DEF StreamType, TypeOK, Running, Accept, Arrived, serverFrame, clientVars,
           HandlerTo
  <1>6. StreamType(s)'
    BY <1>5, TypesNext
  <1>7. /\ \A t \in Sessions : t # s => SameStream(t)
        /\ \A p \in Clients : SamePlace(p)
        /\ FaultsOnly
    <2>1. \A t \in Sessions : t # s => SameStream(t)
      BY <1>1, <1>2, TakeEffect, StreamAssumption
         DEF StreamType, TypeOK, SameStream, Accept, Arrived, serverFrame, clientVars,
             HandlerTo
    <2>2. \A p \in Clients : SamePlace(p)
      BY DEF SamePlace, Accept, Arrived, serverFrame, clientVars, HandlerTo
    <2>3. FaultsOnly
      BY DEF FaultsOnly, Accept, Arrived, serverFrame, clientVars, HandlerTo
    <2> QED
      BY <2>1, <2>2, <2>3
  <1>8. ASSUME NEW p \in Clients, s = Values(p) PROVE ValuesInv(p)'
    <2>1. ValuesInv(p) /\ SamePlace(p) /\ FaultsOnly /\ s[2] = "values"
      BY <1>7, <1>8, TwoStreams DEF StreamInv
    <2>2. Ends(Values(p))'
      BY <1>2, <1>3, <1>4, <1>6, <1>8, <2>1, StreamAssumption
         DEF SamePlace, FaultsOnly, ValuesInv, StreamType, Messages, Ends, ValuesPlace,
             Running
    <2>3. ValuesPlace(p)'
      BY <1>2, <1>3, <1>4, <1>6, <1>8, <2>1, StreamAssumption
         DEF SamePlace, FaultsOnly, ValuesInv, StreamType, Messages, ValuesPlace, Ends
    <2>4. InOrder(Values(p))'
      <3>1. Ordered(toClient[s], Len(got[s]), sent[s], handler[s])
        BY <1>3, <1>8, <2>1 DEF ValuesInv, InOrder
      <3>2. Ordered(toClient'[s], Len(got'[s]), sent'[s], handler'[s])
        BY <1>2, <1>3, <1>4, <1>6, <1>8, <2>1, <3>1, OrderedLonger
           DEF StreamType, Messages
      <3> QED
        BY <1>2, <1>3, <1>4, <1>6, <1>8, <2>1, <3>2 DEF ValuesInv, InOrder
    <2>5. Asking(p)'
      BY <1>2, <1>3, <1>4, <1>6, <1>8, <2>1, StreamAssumption
         DEF SamePlace, FaultsOnly, ValuesInv, StreamType, Messages, Asking, Less
    <2>6. ValuesCalm(p)'
      BY <1>2, <1>3, <1>4, <1>6, <1>8, <2>1, StreamAssumption
         DEF SamePlace, FaultsOnly, ValuesInv, StreamType, Messages, ValuesCalm, Ends,
             ValuesPlace, Running
    <2> QED
      BY <2>2, <2>3, <2>4, <2>5, <2>6 DEF ValuesInv
  <1>9. ASSUME NEW p \in Clients, s = Bidi(p) PROVE BidiInv(p)'
    <2>1. BidiInv(p) /\ SamePlace(p) /\ FaultsOnly /\ s[2] = "bidi"
      BY <1>7, <1>9, TwoStreams DEF StreamInv
    <2>2. Ends(Bidi(p))'
      BY <1>2, <1>3, <1>4, <1>6, <1>9, <2>1, StreamAssumption
         DEF SamePlace, FaultsOnly, BidiInv, StreamType, Messages, Ends, BidiPlace,
             Running
    <2>3. BidiPlace(p)'
      BY <1>2, <1>3, <1>4, <1>6, <1>9, <2>1, StreamAssumption
         DEF SamePlace, FaultsOnly, BidiInv, StreamType, Messages, BidiPlace, Ends
    <2>4. Answers(p)'
      BY <1>2, <1>3, <1>4, <1>6, <1>9, <2>1, StreamAssumption
         DEF SamePlace, FaultsOnly, BidiInv, StreamType, Messages, Answers, BidiPlace,
             Ends
    <2>5. Requests(p)'
      <3>1. Len(toServer[s]) <= 2 /\ toClient'[s] = <<>> /\ Len(toClient'[s]) = 0
        BY <1>2, <1>3, <1>4, <1>6, <1>9, <2>1
           DEF BidiInv, Requests, StreamType, Messages
      <3>2. Len(toServer[s]) = Len(toServer'[s]) + 1 /\ Len(toServer'[s]) \in Nat
        BY <1>4 DEF Less, Messages
      <3>3. ASSUME pc[p] \in {"send", "waiting"} PROVE toServer'[s] = <<>>
        <4>1. Len(toServer[s]) <= 1
          BY <1>3, <1>9, <2>1, <3>3 DEF BidiInv, Requests
        <4> QED
          BY <1>4, <3>2, <4>1 DEF Less, Messages
      <3>4. handler'[s] = "recv" /\ Len(toServer'[s]) + Len(toClient'[s]) <= 1
        <4>1. Len(toServer'[s]) + 0 <= 1
          BY <3>1, <3>2
        <4>2. handler'[s] = "recv"
          BY <1>3, <2>1
        <4> QED
          BY <3>1, <4>1, <4>2
      <3> QED
        BY <1>9, <2>1, <3>3, <3>4 DEF Requests, SamePlace
    <2>6. Counts(p)'
      <3>1. sent'[s] = 0 /\ round'[p] = 0 /\ toClient'[s] = <<>>
        BY <1>3, <1>9, <2>1 DEF BidiInv, Requests, SamePlace
      <3>2. Len(toClient'[s]) = 0
        BY <3>1, NoMessage
      <3>3. 0 = 0 + 0
        OBVIOUS
      <3> QED
        BY <1>9, <3>1, <3>2, <3>3 DEF Counts
    <2>7. BidiCalm(p)'
      BY <1>2, <1>3, <1>4, <1>6, <1>9, <2>1, StreamAssumption
         DEF SamePlace, FaultsOnly, BidiInv, StreamType, Messages, BidiCalm, Ends,
             BidiPlace, Running
    <2> QED
      BY <2>2, <2>3, <2>4, <2>5, <2>6, <2>7 DEF BidiInv
  <1> QED
    BY <1>5, <1>7, <1>8, <1>9, SessionFrame

(* The request of the values stream.                                       *)
LEMMA ReadRequestKeeps ==
  ASSUME StreamInv, NEW s \in Sessions, ReadRequest(s)
  PROVE  StreamInv'
  <1>1. TypeOK
    BY DEF StreamInv
  <1>2. StreamType(s)
    BY <1>1, Types
  <1>3. /\ handler[s] = "request" /\ toServer[s] # <<>>
        /\ handler'[s] = "stream"
        /\ clientEnd'[s] = clientEnd[s] /\ serverEnd'[s] = serverEnd[s] /\ reset'[s] = reset[s]
        /\ toClient'[s] = toClient[s] /\ sent'[s] = sent[s] /\ got'[s] = got[s]
        /\ status'[s] = status[s]
    BY <1>1 DEF TypeOK, ReadRequest, Arrived, serverFrame, clientVars, HandlerTo
  <1>4. Less(toServer'[s], toServer[s])
    BY <1>1, <1>2, TakeEffect, StreamAssumption
       DEF StreamType, ReadRequest, Arrived, serverFrame, clientVars, HandlerTo
  <1>5. TypeOK'
    BY <1>1, <1>2, TakeEffect, StreamAssumption
       DEF StreamType, TypeOK, Running, ReadRequest, Arrived, serverFrame, clientVars,
           HandlerTo
  <1>6. StreamType(s)'
    BY <1>5, TypesNext
  <1>7. /\ \A t \in Sessions : t # s => SameStream(t)
        /\ \A p \in Clients : SamePlace(p)
        /\ FaultsOnly
    <2>1. \A t \in Sessions : t # s => SameStream(t)
      BY <1>1, <1>2, TakeEffect, StreamAssumption
         DEF StreamType, TypeOK, SameStream, ReadRequest, Arrived, serverFrame,
             clientVars, HandlerTo
    <2>2. \A p \in Clients : SamePlace(p)
      BY DEF SamePlace, ReadRequest, Arrived, serverFrame, clientVars, HandlerTo
    <2>3. FaultsOnly
      BY DEF FaultsOnly, ReadRequest, Arrived, serverFrame, clientVars, HandlerTo
    <2> QED
      BY <2>1, <2>2, <2>3
  <1>8. ASSUME NEW p \in Clients, s = Values(p) PROVE ValuesInv(p)'
    <2>1. ValuesInv(p) /\ SamePlace(p) /\ FaultsOnly /\ s[2] = "values"
      BY <1>7, <1>8, TwoStreams DEF StreamInv
    <2>2. Ends(Values(p))'
      BY <1>2, <1>3, <1>4, <1>6, <1>8, <2>1, StreamAssumption
         DEF SamePlace, FaultsOnly, ValuesInv, StreamType, Messages, Ends, ValuesPlace,
             Running
    <2>3. ValuesPlace(p)'
      BY <1>2, <1>3, <1>4, <1>6, <1>8, <2>1, StreamAssumption
         DEF SamePlace, FaultsOnly, ValuesInv, StreamType, Messages, ValuesPlace, Ends
    <2>4. InOrder(Values(p))'
      <3>1. toClient'[s] = <<>> /\ got'[s] = <<>> /\ sent'[s] = 0 /\ Len(<<>>) = 0
        BY <1>2, <1>3, <1>4, <1>6, <1>8, <2>1 DEF ValuesInv, InOrder
      <3> QED
        BY <1>2, <1>3, <1>4, <1>6, <1>8, <2>1, <3>1, OrderedNone, StreamAssumption
           DEF InOrder
    <2>5. Asking(p)'
      BY <1>2, <1>3, <1>4, <1>6, <1>8, <2>1, StreamAssumption
         DEF SamePlace, FaultsOnly, ValuesInv, StreamType, Messages, Asking, Ends,
             ValuesPlace, InOrder
    <2>6. ValuesCalm(p)'
      BY <1>2, <1>3, <1>4, <1>6, <1>8, <2>1, StreamAssumption
         DEF SamePlace, FaultsOnly, ValuesInv, StreamType, Messages, ValuesCalm, Ends,
             ValuesPlace, Running
    <2> QED
      BY <2>2, <2>3, <2>4, <2>5, <2>6 DEF ValuesInv
  <1>9. ASSUME NEW p \in Clients, s = Bidi(p) PROVE BidiInv(p)'
    BY <1>3, <1>9 DEF StreamInv, BidiInv, BidiPlace
  <1> QED
    BY <1>5, <1>7, <1>8, <1>9, SessionFrame

(* A read of the server that fails.                                        *)
LEMMA ReadFailKeeps ==
  ASSUME StreamInv, NEW s \in Sessions, ReadFail(s)
  PROVE  StreamInv'
  <1>1. TypeOK
    BY DEF StreamInv
  <1>2. StreamType(s)
    BY <1>1, Types
  <1>3. /\ handler[s] \in {"accepted", "request"}
        /\ serverEnd'[s] = "closed"
        /\ handler'[s] = "done"
        /\ clientEnd'[s] = clientEnd[s] /\ reset'[s] = reset[s] /\ toServer'[s] = toServer[s]
        /\ toClient'[s] = toClient[s] /\ sent'[s] = sent[s] /\ got'[s] = got[s]
        /\ status'[s] = status[s]
        /\ reset[s] \/ clientEnd[s] = "closed"
    BY <1>1
       DEF TypeOK, ReadFail, CloseServer, Eof, Broken, serverFrame, clientVars,
           HandlerTo
  <1>5. TypeOK'
    BY <1>1, StreamAssumption
       DEF StreamType, TypeOK, Running, ReadFail, CloseServer, Eof, Broken, serverFrame,
           clientVars, HandlerTo
  <1>6. StreamType(s)'
    BY <1>5, TypesNext
  <1>7. /\ \A t \in Sessions : t # s => SameStream(t)
        /\ \A p \in Clients : SamePlace(p)
        /\ FaultsOnly
    <2>1. \A t \in Sessions : t # s => SameStream(t)
      BY <1>1, StreamAssumption
         DEF StreamType, TypeOK, SameStream, ReadFail, CloseServer, Eof, Broken,
             serverFrame, clientVars, HandlerTo
    <2>2. \A p \in Clients : SamePlace(p)
      BY
         DEF SamePlace, ReadFail, CloseServer, Eof, Broken, serverFrame, clientVars,
             HandlerTo
    <2>3. FaultsOnly
      BY
         DEF FaultsOnly, ReadFail, CloseServer, Eof, Broken, serverFrame, clientVars,
             HandlerTo
    <2> QED
      BY <2>1, <2>2, <2>3
  <1>8. ASSUME NEW p \in Clients, s = Values(p) PROVE ValuesInv(p)'
    <2>1. ValuesInv(p) /\ SamePlace(p) /\ FaultsOnly /\ s[2] = "values"
      BY <1>7, <1>8, TwoStreams DEF StreamInv
    <2>2. Ends(Values(p))'
      BY <1>2, <1>3, <1>6, <1>8, <2>1, StreamAssumption
         DEF SamePlace, FaultsOnly, ValuesInv, StreamType, Messages, Ends, ValuesPlace,
             Running
    <2>3. ValuesPlace(p)'
      BY <1>2, <1>3, <1>6, <1>8, <2>1, StreamAssumption
         DEF SamePlace, FaultsOnly, ValuesInv, StreamType, Messages, ValuesPlace, Ends
    <2>4. InOrder(Values(p))'
      <3>1. Ordered(toClient[s], Len(got[s]), sent[s], handler[s])
        BY <1>3, <1>8, <2>1 DEF ValuesInv, InOrder
      <3>2. Ordered(toClient'[s], Len(got'[s]), sent'[s], handler'[s])
        BY <1>2, <1>3, <1>6, <1>8, <2>1, <3>1, OrderedLonger DEF StreamType, Messages
      <3> QED
        BY <1>2, <1>3, <1>6, <1>8, <2>1, <3>2 DEF ValuesInv, InOrder
    <2>5. Asking(p)'
      BY <1>2, <1>3, <1>6, <1>8, <2>1, StreamAssumption
         DEF SamePlace, FaultsOnly, ValuesInv, StreamType, Messages, Asking, Ends,
             ValuesPlace, InOrder
    <2>6. ValuesCalm(p)'
      BY <1>2, <1>3, <1>6, <1>8, <2>1, StreamAssumption
         DEF SamePlace, FaultsOnly, ValuesInv, StreamType, Messages, ValuesCalm, Ends,
             ValuesPlace, Running
    <2> QED
      BY <2>2, <2>3, <2>4, <2>5, <2>6 DEF ValuesInv
  <1>9. ASSUME NEW p \in Clients, s = Bidi(p) PROVE BidiInv(p)'
    <2>1. BidiInv(p) /\ SamePlace(p) /\ FaultsOnly /\ s[2] = "bidi"
      BY <1>7, <1>9, TwoStreams DEF StreamInv
    <2>2. Ends(Bidi(p))'
      BY <1>2, <1>3, <1>6, <1>9, <2>1, StreamAssumption
         DEF SamePlace, FaultsOnly, BidiInv, StreamType, Messages, Ends, BidiPlace,
             Running
    <2>3. BidiPlace(p)'
      BY <1>2, <1>3, <1>6, <1>9, <2>1, StreamAssumption
         DEF SamePlace, FaultsOnly, BidiInv, StreamType, Messages, BidiPlace, Ends
    <2>4. Answers(p)'
      BY <1>2, <1>3, <1>6, <1>9, <2>1, StreamAssumption
         DEF SamePlace, FaultsOnly, BidiInv, StreamType, Messages, Answers, BidiPlace,
             Ends
    <2>5. Requests(p)'
      BY <1>2, <1>3, <1>6, <1>9, <2>1, StreamAssumption
         DEF SamePlace, FaultsOnly, BidiInv, StreamType, Messages, Requests, BidiPlace,
             Ends
    <2>6. Counts(p)'
      BY <1>2, <1>3, <1>6, <1>9, <2>1, StreamAssumption
         DEF SamePlace, FaultsOnly, BidiInv, StreamType, Messages, Counts, BidiPlace,
             Ends, Requests, Running
    <2>7. BidiCalm(p)'
      BY <1>2, <1>3, <1>6, <1>9, <2>1, StreamAssumption
         DEF SamePlace, FaultsOnly, BidiInv, StreamType, Messages, BidiCalm, Ends,
             BidiPlace, Running
    <2> QED
      BY <2>2, <2>3, <2>4, <2>5, <2>6, <2>7 DEF BidiInv
  <1> QED
    BY <1>5, <1>7, <1>8, <1>9, SessionFrame

(* A value is sent.                                                        *)
LEMMA SendValueKeeps ==
  ASSUME StreamInv, NEW s \in Sessions, SendValue(s)
  PROVE  StreamInv'
  <1>1. TypeOK
    BY DEF StreamInv
  <1>2. StreamType(s)
    BY <1>1, Types
  <1>3. /\ handler[s] = "stream" /\ sent[s] < Count
        /\ sent'[s] = sent[s] + 1
        /\ clientEnd'[s] = clientEnd[s] /\ serverEnd'[s] = serverEnd[s] /\ toServer'[s] = toServer[s]
        /\ handler'[s] = handler[s] /\ got'[s] = got[s] /\ status'[s] = status[s]
    BY <1>1 DEF TypeOK, SendValue, serverFrame, clientVars, HandlerTo
  <1>4. \/ /\ clientEnd[s] = "open" /\ ~reset[s] /\ ~reset'[s]
           /\ More(toClient'[s], toClient[s], sent[s] + 1)
        \/ /\ clientEnd[s] # "open" \/ reset[s]
           /\ reset'[s] /\ toClient'[s] = toClient[s]
    BY <1>1, <1>2, SendEffect, StreamAssumption
       DEF StreamType, SendValue, serverFrame, clientVars, HandlerTo
  <1>5. TypeOK'
    <2>1. sent \in [Sessions -> Nat] /\ sent' = [sent EXCEPT ![s] = sent[s] + 1]
      BY <1>1 DEF TypeOK, SendValue
    <2>2. sent' \in [Sessions -> Nat]
      BY <2>1
    <2>3. sent[s] + 1 \in Nat /\ SendToClient(s, sent[s] + 1)
      BY <2>1 DEF SendValue
    <2>4. toClient' \in [Sessions -> Seq(Nat)] /\ reset' \in [Sessions -> BOOLEAN]
      BY <1>1, <2>3, SendEffect
    <2> QED
      BY <1>1, <2>2, <2>4
         DEF TypeOK, Running, SendValue, serverFrame, clientVars, HandlerTo
  <1>6. StreamType(s)'
    BY <1>5, TypesNext
  <1>7. /\ \A t \in Sessions : t # s => SameStream(t)
        /\ \A p \in Clients : SamePlace(p)
        /\ FaultsOnly
    <2>1. \A t \in Sessions : t # s => SameStream(t)
      <3>1. sent[s] + 1 \in Nat /\ SendToClient(s, sent[s] + 1)
        BY <1>2 DEF StreamType, SendValue
      <3>2. \A t \in Sessions : t # s => toClient'[t] = toClient[t] /\ reset'[t] = reset[t]
        BY <1>1, <3>1, SendEffect
      <3> QED
        BY <1>1, <3>2
           DEF TypeOK, SameStream, SendValue, serverFrame, clientVars, HandlerTo
    <2>2. \A p \in Clients : SamePlace(p)
      BY DEF SamePlace, SendValue, serverFrame, clientVars, HandlerTo
    <2>3. FaultsOnly
      BY DEF FaultsOnly, SendValue, serverFrame, clientVars, HandlerTo
    <2> QED
      BY <2>1, <2>2, <2>3
  <1>8. ASSUME NEW p \in Clients, s = Values(p) PROVE ValuesInv(p)'
    <2>1. ValuesInv(p) /\ SamePlace(p) /\ FaultsOnly /\ s[2] = "values"
      BY <1>7, <1>8, TwoStreams DEF StreamInv
    <2>2. Ends(Values(p))'
      BY <1>2, <1>3, <1>4, <1>6, <1>8, <2>1, StreamAssumption
         DEF SamePlace, FaultsOnly, ValuesInv, StreamType, Messages, Ends, More
    <2>3. ValuesPlace(p)'
      BY <1>2, <1>3, <1>4, <1>6, <1>8, <2>1, StreamAssumption
         DEF SamePlace, FaultsOnly, ValuesInv, StreamType, Messages, ValuesPlace, Ends
    <2>4. InOrder(Values(p))'
      <3>1. Ordered(toClient[s], Len(got[s]), sent[s], handler[s])
        BY <1>3, <1>8, <2>1 DEF ValuesInv, InOrder
      <3>2. Ordered(toClient'[s], Len(got'[s]), sent'[s], handler'[s])
        <4>1. CASE toClient'[s] = toClient[s]
          BY <1>2, <1>3, <1>4, <1>6, <1>8, <2>1, <3>1, <4>1, OrderedLonger
             DEF StreamType, Messages
        <4>2. CASE clientEnd[s] = "open" /\ ~reset[s]
          <5>1. More(toClient'[s], toClient[s], sent[s] + 1)
            BY <1>4, <4>2 DEF EOS
          <5>2. Len(got[s]) + Len(toClient[s]) = sent[s] /\ Len(got[s]) \in Nat /\ Messages(toClient[s])
            BY <1>2, <1>3, <1>8, <2>1, <4>2 DEF ValuesInv, InOrder, StreamType, Messages
          <5> QED
            BY <1>2, <1>3, <3>1, <5>1, <5>2, OrderedMore DEF StreamType
        <4> QED
          BY <1>4, <4>1, <4>2
      <3>3. sent'[s] <= Count
        BY <1>2, <1>3, StreamAssumption DEF StreamType
      <3>4. ASSUME clientEnd'[s] = "open", ~reset'[s]
            PROVE  Len(got'[s]) + Len(toClient'[s]) = sent'[s]
        <4>1. ~reset[s] /\ clientEnd[s] = "open" /\ Len(toClient'[s]) = Len(toClient[s]) + 1
          BY <1>3, <1>4, <3>4 DEF More
        <4>2. Len(got[s]) + Len(toClient[s]) = sent[s]
          BY <1>3, <1>8, <2>1, <4>1 DEF ValuesInv, InOrder
        <4>3. Len(got[s]) \in Nat /\ Len(toClient[s]) \in Nat
          BY <1>2 DEF StreamType, Messages
        <4>4. Len(got'[s]) = Len(got[s]) /\ sent'[s] = sent[s] + 1
          BY <1>3
        <4>5. Len(toClient'[s]) = Len(toClient[s]) + 1
          BY <4>1
        <4> QED
          BY <1>1, <1>5, <4>2, <4>3, <4>4, <4>5, DomainTypes, DomainTypesNext
             DEF Domains
      <3> QED
        BY <1>3, <1>8, <3>2, <3>3, <3>4 DEF InOrder
    <2>5. Asking(p)'
      BY <1>2, <1>3, <1>4, <1>6, <1>8, <2>1, StreamAssumption
         DEF SamePlace, FaultsOnly, ValuesInv, StreamType, Messages, Asking, Ends,
             ValuesPlace, InOrder
    <2>6. ValuesCalm(p)'
      BY <1>2, <1>3, <1>4, <1>6, <1>8, <2>1, StreamAssumption
         DEF SamePlace, FaultsOnly, ValuesInv, StreamType, Messages, ValuesCalm, Ends,
             ValuesPlace, Running, SamePlace, FaultsOnly
    <2> QED
      BY <2>2, <2>3, <2>4, <2>5, <2>6 DEF ValuesInv
  <1>9. ASSUME NEW p \in Clients, s = Bidi(p) PROVE BidiInv(p)'
    BY <1>3, <1>9 DEF StreamInv, BidiInv, BidiPlace
  <1> QED
    BY <1>5, <1>7, <1>8, <1>9, SessionFrame

(* The handler of the values stream returns.                               *)
LEMMA SendEosKeeps ==
  ASSUME StreamInv, NEW s \in Sessions, SendEos(s)
  PROVE  StreamInv'
  <1>1. TypeOK
    BY DEF StreamInv
  <1>2. StreamType(s)
    BY <1>1, Types
  <1>3. /\ handler[s] = "stream" /\ sent[s] = Count
        /\ serverEnd'[s] = "closed"
        /\ handler'[s] = "done"
        /\ clientEnd'[s] = clientEnd[s] /\ toServer'[s] = toServer[s] /\ sent'[s] = sent[s]
        /\ got'[s] = got[s] /\ status'[s] = status[s]
    BY <1>1 DEF TypeOK, SendEos, CloseServer, EOS, serverFrame, clientVars, HandlerTo
  <1>4. \/ /\ clientEnd[s] = "open" /\ ~reset[s] /\ ~reset'[s]
           /\ More(toClient'[s], toClient[s], 0)
        \/ /\ clientEnd[s] # "open" \/ reset[s]
           /\ reset'[s] /\ toClient'[s] = toClient[s]
    BY <1>1, <1>2, SendEffect, StreamAssumption
       DEF StreamType, SendEos, CloseServer, EOS, serverFrame, clientVars, HandlerTo
  <1>5. TypeOK'
    BY <1>1, <1>2, SendEffect, StreamAssumption
       DEF StreamType, TypeOK, Running, SendEos, CloseServer, EOS, serverFrame,
           clientVars, HandlerTo
  <1>6. StreamType(s)'
    BY <1>5, TypesNext
  <1>7. /\ \A t \in Sessions : t # s => SameStream(t)
        /\ \A p \in Clients : SamePlace(p)
        /\ FaultsOnly
    <2>1. \A t \in Sessions : t # s => SameStream(t)
      <3>1. EOS \in Nat /\ SendToClient(s, EOS)
        BY <1>2 DEF StreamType, SendEos, EOS
      <3>2. \A t \in Sessions : t # s => toClient'[t] = toClient[t] /\ reset'[t] = reset[t]
        BY <1>1, <3>1, SendEffect
      <3> QED
        BY <1>1, <3>2
           DEF TypeOK, SameStream, SendEos, CloseServer, EOS, serverFrame, clientVars,
               HandlerTo
    <2>2. \A p \in Clients : SamePlace(p)
      BY DEF SamePlace, SendEos, CloseServer, EOS, serverFrame, clientVars, HandlerTo
    <2>3. FaultsOnly
      BY DEF FaultsOnly, SendEos, CloseServer, EOS, serverFrame, clientVars, HandlerTo
    <2> QED
      BY <2>1, <2>2, <2>3
  <1>8. ASSUME NEW p \in Clients, s = Values(p) PROVE ValuesInv(p)'
    <2>1. ValuesInv(p) /\ SamePlace(p) /\ FaultsOnly /\ s[2] = "values"
      BY <1>7, <1>8, TwoStreams DEF StreamInv
    <2>2. Ends(Values(p))'
      BY <1>2, <1>3, <1>4, <1>6, <1>8, <2>1, StreamAssumption
         DEF SamePlace, FaultsOnly, ValuesInv, StreamType, Messages, Ends, More, Running
    <2>3. ValuesPlace(p)'
      BY <1>2, <1>3, <1>4, <1>6, <1>8, <2>1, StreamAssumption
         DEF SamePlace, FaultsOnly, ValuesInv, StreamType, Messages, ValuesPlace, Ends
    <2>4. InOrder(Values(p))'
      <3>1. Ordered(toClient[s], Len(got[s]), Count, handler[s]) /\ sent[s] = Count
        BY <1>3, <1>8, <2>1 DEF ValuesInv, InOrder
      <3>2. Ordered(toClient'[s], Len(got'[s]), Count, handler'[s])
        <4>1. CASE toClient'[s] = toClient[s]
          BY <1>2, <1>3, <1>4, <1>6, <1>8, <2>1, <3>1, <4>1, OrderedLonger
             DEF StreamType, Messages
        <4>2. CASE clientEnd[s] = "open" /\ ~reset[s]
          <5>1. More(toClient'[s], toClient[s], EOS)
            BY <1>4, <4>2 DEF EOS
          <5>2. Len(got[s]) + Len(toClient[s]) = Count /\ Len(got[s]) \in Nat /\ Messages(toClient[s])
            BY <1>2, <1>3, <1>8, <2>1, <4>2 DEF ValuesInv, InOrder, StreamType, Messages
          <5> QED
            BY <1>2, <1>3, <3>1, <5>1, <5>2, OrderedLast DEF StreamType
        <4> QED
          BY <1>4, <4>1, <4>2
      <3> QED
        <4>1. sent'[s] <= Count
          BY <1>3, <3>1, StreamAssumption
        <4> QED
          BY <1>3, <1>8, <3>1, <3>2, <4>1 DEF InOrder
    <2>5. Asking(p)'
      BY <1>2, <1>3, <1>4, <1>6, <1>8, <2>1, StreamAssumption
         DEF SamePlace, FaultsOnly, ValuesInv, StreamType, Messages, Asking, Ends,
             ValuesPlace, InOrder
    <2>6. ValuesCalm(p)'
      <3>1. clientEnd[s] = "open" /\ ~reset[s] =>
              toClient'[s] # <<>> /\ toClient'[s][Len(toClient'[s])] = EOS
        <4>1. Domains /\ Domains'
          BY <1>1, <1>5, DomainTypes, DomainTypesNext
        <4> QED
          BY <1>2, <1>3, <1>4, <1>6, <1>8, <2>1, <4>1
             DEF More, StreamType, Messages, Domains, EOS
      <3>2. clientEnd[s] = "open" => pc[p] = "read"
        BY <1>3, <1>8, <2>1 DEF ValuesInv, ValuesPlace, Asking
      <3>3. faults = 0 => ~reset[s] /\ clientEnd[s] = "open"
        BY <1>2, <1>3, <1>8, <2>1 DEF ValuesInv, ValuesCalm, Ends, StreamType
      <3>4. faults = 0 => ~reset'[s]
        BY <1>4, <3>3
      <3> QED
        BY <1>3, <1>8, <2>1, <3>1, <3>2, <3>3, <3>4
           DEF ValuesInv, ValuesCalm, SamePlace, FaultsOnly
    <2> QED
      BY <2>2, <2>3, <2>4, <2>5, <2>6 DEF ValuesInv
  <1>9. ASSUME NEW p \in Clients, s = Bidi(p) PROVE BidiInv(p)'
    BY <1>3, <1>9 DEF StreamInv, BidiInv, BidiPlace
  <1> QED
    BY <1>5, <1>7, <1>8, <1>9, SessionFrame

(* A round's request is received ...                                       *)
LEMMA RecvRequestKeeps ==
  ASSUME StreamInv, NEW s \in Sessions, RecvRequest(s)
  PROVE  StreamInv'
  <1>1. TypeOK
    BY DEF StreamInv
  <1>2. StreamType(s)
    BY <1>1, Types
  <1>3. /\ handler[s] = "recv" /\ toServer[s] # <<>>
        /\ handler'[s] = "reply"
        /\ clientEnd'[s] = clientEnd[s] /\ serverEnd'[s] = serverEnd[s] /\ reset'[s] = reset[s]
        /\ toClient'[s] = toClient[s] /\ sent'[s] = sent[s] /\ got'[s] = got[s]
        /\ status'[s] = status[s]
    BY <1>1 DEF TypeOK, RecvRequest, Arrived, serverFrame, clientVars, HandlerTo
  <1>4. Less(toServer'[s], toServer[s])
    BY <1>1, <1>2, TakeEffect, StreamAssumption
       DEF StreamType, RecvRequest, Arrived, serverFrame, clientVars, HandlerTo
  <1>5. TypeOK'
    BY <1>1, <1>2, TakeEffect, StreamAssumption
       DEF StreamType, TypeOK, Running, RecvRequest, Arrived, serverFrame, clientVars,
           HandlerTo
  <1>6. StreamType(s)'
    BY <1>5, TypesNext
  <1>7. /\ \A t \in Sessions : t # s => SameStream(t)
        /\ \A p \in Clients : SamePlace(p)
        /\ FaultsOnly
    <2>1. \A t \in Sessions : t # s => SameStream(t)
      BY <1>1, <1>2, TakeEffect, StreamAssumption
         DEF StreamType, TypeOK, SameStream, RecvRequest, Arrived, serverFrame,
             clientVars, HandlerTo
    <2>2. \A p \in Clients : SamePlace(p)
      BY DEF SamePlace, RecvRequest, Arrived, serverFrame, clientVars, HandlerTo
    <2>3. FaultsOnly
      BY DEF FaultsOnly, RecvRequest, Arrived, serverFrame, clientVars, HandlerTo
    <2> QED
      BY <2>1, <2>2, <2>3
  <1>8. ASSUME NEW p \in Clients, s = Values(p) PROVE ValuesInv(p)'
    BY <1>3, <1>8 DEF StreamInv, ValuesInv, ValuesPlace
  <1>9. ASSUME NEW p \in Clients, s = Bidi(p) PROVE BidiInv(p)'
    <2>1. BidiInv(p) /\ SamePlace(p) /\ FaultsOnly /\ s[2] = "bidi"
      BY <1>7, <1>9, TwoStreams DEF StreamInv
    <2>2. Ends(Bidi(p))'
      BY <1>2, <1>3, <1>4, <1>6, <1>9, <2>1, StreamAssumption
         DEF SamePlace, FaultsOnly, BidiInv, StreamType, Messages, Ends, BidiPlace,
             Running
    <2>3. BidiPlace(p)'
      BY <1>2, <1>3, <1>4, <1>6, <1>9, <2>1, StreamAssumption
         DEF SamePlace, FaultsOnly, BidiInv, StreamType, Messages, BidiPlace, Ends
    <2>4. Answers(p)'
      BY <1>3, <1>9, <2>1 DEF BidiInv, Answers, SamePlace
    <2>5. Requests(p)'
      <3>1. Len(toServer[s]) + Len(toClient[s]) <= 1 /\ pc[p] \notin {"send", "waiting"}
        BY <1>2, <1>3, <1>4, <1>6, <1>9, <2>1 DEF BidiInv, Requests
      <3>2. Len(toServer[s]) = Len(toServer'[s]) + 1 /\ Len(toServer'[s]) \in Nat
        BY <1>4 DEF Less, Messages
      <3>3. Len(toServer'[s]) = 0 /\ Len(toClient'[s]) = 0
        <4>1. Len(toClient[s]) \in Nat
          BY <1>2 DEF StreamType, Messages
        <4>2. Len(toClient'[s]) = Len(toClient[s])
          BY <1>3
        <4>3. Len(toServer[s]) + Len(toClient[s]) <= 1
          BY <3>1
        <4> QED
          BY <1>1, <1>5, <3>2, <4>1, <4>2, <4>3, DomainTypes, DomainTypesNext
             DEF Domains
      <3>4. toServer'[s] = <<>> /\ toClient'[s] = <<>> /\ handler'[s] = "reply"
        BY <1>3, <1>6, <3>3 DEF StreamType, Messages
      <3> QED
        BY <1>9, <2>1, <3>1, <3>4 DEF Requests, SamePlace
    <2>6. Counts(p)'
      BY <1>2, <1>3, <1>4, <1>6, <1>9, <2>1, StreamAssumption
         DEF SamePlace, FaultsOnly, BidiInv, StreamType, Messages, Counts, SamePlace,
             Running
    <2>7. BidiCalm(p)'
      BY <1>2, <1>3, <1>4, <1>6, <1>9, <2>1, StreamAssumption
         DEF SamePlace, FaultsOnly, BidiInv, StreamType, Messages, BidiCalm, Ends,
             BidiPlace, Running
    <2> QED
      BY <2>2, <2>3, <2>4, <2>5, <2>6, <2>7 DEF BidiInv
  <1> QED
    BY <1>5, <1>7, <1>8, <1>9, SessionFrame

(* ... and answered.                                                       *)
LEMMA ReplyKeeps ==
  ASSUME StreamInv, NEW s \in Sessions, Reply(s)
  PROVE  StreamInv'
  <1>1. TypeOK
    BY DEF StreamInv
  <1>2. StreamType(s)
    BY <1>1, Types
  <1>3. /\ handler[s] = "reply"
        /\ handler'[s] = "recv"
        /\ sent'[s] = sent[s] + 1
        /\ clientEnd'[s] = clientEnd[s] /\ serverEnd'[s] = serverEnd[s] /\ toServer'[s] = toServer[s]
        /\ got'[s] = got[s] /\ status'[s] = status[s]
    BY <1>1 DEF TypeOK, Reply, serverFrame, clientVars, HandlerTo
  <1>4. \/ /\ clientEnd[s] = "open" /\ ~reset[s] /\ ~reset'[s]
           /\ More(toClient'[s], toClient[s], sent[s] + 1)
        \/ /\ clientEnd[s] # "open" \/ reset[s]
           /\ reset'[s] /\ toClient'[s] = toClient[s]
    BY <1>1, <1>2, SendEffect, StreamAssumption
       DEF StreamType, Reply, serverFrame, clientVars, HandlerTo
  <1>5. TypeOK'
    <2>1. sent \in [Sessions -> Nat] /\ sent' = [sent EXCEPT ![s] = sent[s] + 1]
      BY <1>1 DEF TypeOK, Reply
    <2>2. sent' \in [Sessions -> Nat]
      BY <2>1
    <2>3. sent[s] + 1 \in Nat /\ SendToClient(s, sent[s] + 1)
      BY <2>1 DEF Reply
    <2>4. toClient' \in [Sessions -> Seq(Nat)] /\ reset' \in [Sessions -> BOOLEAN]
      BY <1>1, <2>3, SendEffect
    <2> QED
      BY <1>1, <2>2, <2>4 DEF TypeOK, Running, Reply, serverFrame, clientVars, HandlerTo
  <1>6. StreamType(s)'
    BY <1>5, TypesNext
  <1>7. /\ \A t \in Sessions : t # s => SameStream(t)
        /\ \A p \in Clients : SamePlace(p)
        /\ FaultsOnly
    <2>1. \A t \in Sessions : t # s => SameStream(t)
      <3>1. sent[s] + 1 \in Nat /\ SendToClient(s, sent[s] + 1)
        BY <1>2 DEF StreamType, Reply
      <3>2. \A t \in Sessions : t # s => toClient'[t] = toClient[t] /\ reset'[t] = reset[t]
        BY <1>1, <3>1, SendEffect
      <3> QED
        BY <1>1, <3>2 DEF TypeOK, SameStream, Reply, serverFrame, clientVars, HandlerTo
    <2>2. \A p \in Clients : SamePlace(p)
      BY DEF SamePlace, Reply, serverFrame, clientVars, HandlerTo
    <2>3. FaultsOnly
      BY DEF FaultsOnly, Reply, serverFrame, clientVars, HandlerTo
    <2> QED
      BY <2>1, <2>2, <2>3
  <1>8. ASSUME NEW p \in Clients, s = Values(p) PROVE ValuesInv(p)'
    BY <1>3, <1>8 DEF StreamInv, ValuesInv, ValuesPlace
  <1>9. ASSUME NEW p \in Clients, s = Bidi(p) PROVE BidiInv(p)'
    <2>1. BidiInv(p) /\ SamePlace(p) /\ FaultsOnly /\ s[2] = "bidi"
      BY <1>7, <1>9, TwoStreams DEF StreamInv
    <2>2. Ends(Bidi(p))'
      BY <1>2, <1>3, <1>4, <1>6, <1>9, <2>1, StreamAssumption
         DEF SamePlace, FaultsOnly, BidiInv, StreamType, Messages, Ends, More, Running
    <2>3. BidiPlace(p)'
      BY <1>2, <1>3, <1>4, <1>6, <1>9, <2>1, StreamAssumption
         DEF SamePlace, FaultsOnly, BidiInv, StreamType, Messages, BidiPlace, Ends
    <2>4. Answers(p)'
      <3>1. /\ toServer[s] = <<>> /\ toClient[s] = <<>> /\ Len(toServer[s]) = 0 /\ Len(toClient[s]) = 0
            /\ pc[p] \notin {"send", "waiting"}
        BY <1>2, <1>3, <1>9, <2>1 DEF BidiInv, Requests, StreamType, Messages
      <3>2. ASSUME clientEnd[s] = "open", ~reset[s], pc[p] = "recv"
            PROVE  Len(toClient'[s]) = 1 /\ toClient'[s][1] = round[p] + 1
        <4>1. sent[s] = round[p] + Len(toClient[s]) /\ round[p] \in Nat
          BY <1>1, <1>3, <1>9, <2>1, <3>2, PlaceTypes DEF BidiInv, Counts, Running
        <4>2. Len(toClient'[s]) = Len(toClient[s]) + 1 /\ toClient'[s][Len(toClient[s]) + 1] = sent[s] + 1
          BY <1>4, <3>2 DEF More
        <4> QED
          BY <3>1, <4>1, <4>2
      <3>3. pc[p] = "recv" => clientEnd[s] = "open"
        BY <1>9, <2>1 DEF BidiInv, BidiPlace
      <3> QED
        BY <1>3, <1>4, <1>9, <2>1, <3>1, <3>2, <3>3 DEF BidiInv, Answers, SamePlace
    <2>5. Requests(p)'
      <3>1. /\ toServer[s] = <<>> /\ toClient[s] = <<>> /\ Len(toServer[s]) = 0 /\ Len(toClient[s]) = 0
            /\ pc[p] \notin {"send", "waiting"}
        BY <1>2, <1>3, <1>9, <2>1 DEF BidiInv, Requests, StreamType, Messages
      <3>2. Len(toClient'[s]) <= 1 /\ Len(toServer'[s]) = 0
        <4>1. CASE toClient'[s] = toClient[s]
          BY <1>3, <3>1, <4>1
        <4>2. CASE Len(toClient'[s]) = Len(toClient[s]) + 1
          BY <1>3, <3>1, <4>2
        <4> QED
          BY <1>4, <4>1, <4>2 DEF More
      <3>3. Len(toServer'[s]) + Len(toClient'[s]) <= 1
        BY <1>6, <3>2 DEF StreamType, Messages
      <3> QED
        BY <1>3, <1>9, <2>1, <3>1, <3>3 DEF Requests, SamePlace
    <2>6. Counts(p)'
      <3>1. /\ toServer[s] = <<>> /\ toClient[s] = <<>> /\ Len(toServer[s]) = 0 /\ Len(toClient[s]) = 0
            /\ pc[p] \notin {"send", "waiting"}
        BY <1>2, <1>3, <1>9, <2>1 DEF BidiInv, Requests, StreamType, Messages
      <3>2. ASSUME pc[p] = "recv", ~reset'[s]
            PROVE  sent'[s] = round[p] + Len(toClient'[s])
        <4>1. ~reset[s] /\ Len(toClient'[s]) = Len(toClient[s]) + 1
          BY <1>4, <3>2 DEF More
        <4>2. sent[s] = round[p] + Len(toClient[s]) /\ round[p] \in Nat
          BY <1>1, <1>3, <1>9, <2>1, <3>2, <4>1, PlaceTypes DEF BidiInv, Counts, Running
        <4> QED
          BY <1>3, <3>1, <4>1, <4>2
      <3> QED
        BY <1>9, <2>1, <3>1, <3>2 DEF Counts, SamePlace
    <2>7. BidiCalm(p)'
      <3>1. /\ toServer[s] = <<>> /\ toClient[s] = <<>> /\ Len(toServer[s]) = 0 /\ Len(toClient[s]) = 0
            /\ pc[p] \notin {"send", "waiting"}
        BY <1>2, <1>3, <1>9, <2>1 DEF BidiInv, Requests, StreamType, Messages
      <3>2. faults = 0 => clientEnd[s] = "open"
        <4>1. pc[p] # "dead" \/ faults # 0
          BY DEF StreamInv, ValuesInv, ValuesCalm
        <4> QED
          BY <1>1, <1>3, <1>9, <2>1, <3>1, <4>1, PlaceTypes DEF BidiInv, BidiPlace, Ends
      <3> QED
        BY <1>3, <1>4, <1>9, <2>1, <3>2 DEF BidiInv, BidiCalm, FaultsOnly, Running
    <2> QED
      BY <2>2, <2>3, <2>4, <2>5, <2>6, <2>7 DEF BidiInv
  <1> QED
    BY <1>5, <1>7, <1>8, <1>9, SessionFrame

(* The client has closed the second stream.                                *)
LEMMA RecvEofKeeps ==
  ASSUME StreamInv, NEW s \in Sessions, RecvEof(s)
  PROVE  StreamInv'
  <1>1. TypeOK
    BY DEF StreamInv
  <1>2. StreamType(s)
    BY <1>1, Types
  <1>3. /\ handler[s] = "recv" /\ clientEnd[s] = "closed"
        /\ serverEnd'[s] = "closed"
        /\ handler'[s] = "done"
        /\ clientEnd'[s] = clientEnd[s] /\ reset'[s] = reset[s] /\ toServer'[s] = toServer[s]
        /\ toClient'[s] = toClient[s] /\ sent'[s] = sent[s] /\ got'[s] = got[s]
        /\ status'[s] = status[s]
    BY <1>1 DEF TypeOK, RecvEof, Eof, CloseServer, serverFrame, clientVars, HandlerTo
  <1>5. TypeOK'
    BY <1>1, StreamAssumption
       DEF StreamType, TypeOK, Running, RecvEof, Eof, CloseServer, serverFrame,
           clientVars, HandlerTo
  <1>6. StreamType(s)'
    BY <1>5, TypesNext
  <1>7. /\ \A t \in Sessions : t # s => SameStream(t)
        /\ \A p \in Clients : SamePlace(p)
        /\ FaultsOnly
    <2>1. \A t \in Sessions : t # s => SameStream(t)
      BY <1>1, StreamAssumption
         DEF StreamType, TypeOK, SameStream, RecvEof, Eof, CloseServer, serverFrame,
             clientVars, HandlerTo
    <2>2. \A p \in Clients : SamePlace(p)
      BY DEF SamePlace, RecvEof, Eof, CloseServer, serverFrame, clientVars, HandlerTo
    <2>3. FaultsOnly
      BY DEF FaultsOnly, RecvEof, Eof, CloseServer, serverFrame, clientVars, HandlerTo
    <2> QED
      BY <2>1, <2>2, <2>3
  <1>8. ASSUME NEW p \in Clients, s = Values(p) PROVE ValuesInv(p)'
    BY <1>3, <1>8 DEF StreamInv, ValuesInv, ValuesPlace
  <1>9. ASSUME NEW p \in Clients, s = Bidi(p) PROVE BidiInv(p)'
    <2>1. BidiInv(p) /\ SamePlace(p) /\ FaultsOnly /\ s[2] = "bidi"
      BY <1>7, <1>9, TwoStreams DEF StreamInv
    <2>2. Ends(Bidi(p))'
      BY <1>2, <1>3, <1>6, <1>9, <2>1, StreamAssumption
         DEF SamePlace, FaultsOnly, BidiInv, StreamType, Messages, Ends, BidiPlace,
             Running
    <2>3. BidiPlace(p)'
      BY <1>2, <1>3, <1>6, <1>9, <2>1, StreamAssumption
         DEF SamePlace, FaultsOnly, BidiInv, StreamType, Messages, BidiPlace, Ends
    <2>4. Answers(p)'
      BY <1>3, <1>9, <2>1 DEF BidiInv, Answers, SamePlace
    <2>5. Requests(p)'
      BY <1>2, <1>3, <1>6, <1>9, <2>1, StreamAssumption
         DEF SamePlace, FaultsOnly, BidiInv, StreamType, Messages, Requests, BidiPlace,
             Ends
    <2>6. Counts(p)'
      BY <1>2, <1>3, <1>6, <1>9, <2>1, StreamAssumption
         DEF SamePlace, FaultsOnly, BidiInv, StreamType, Messages, Counts, BidiPlace,
             Ends, Requests, Running
    <2>7. BidiCalm(p)'
      BY <1>2, <1>3, <1>6, <1>9, <2>1, StreamAssumption
         DEF SamePlace, FaultsOnly, BidiInv, StreamType, Messages, BidiCalm, Ends,
             BidiPlace, Running
    <2> QED
      BY <2>2, <2>3, <2>4, <2>5, <2>6, <2>7 DEF BidiInv
  <1> QED
    BY <1>5, <1>7, <1>8, <1>9, SessionFrame

(* The connection was reset: the handler panics.                           *)
LEMMA RecvPanicKeeps ==
  ASSUME StreamInv, NEW s \in Sessions, RecvPanic(s)
  PROVE  StreamInv'
  <1>1. TypeOK
    BY DEF StreamInv
  <1>2. StreamType(s)
    BY <1>1, Types
  <1>3. /\ handler[s] = "recv" /\ reset[s]
        /\ serverEnd'[s] = "closed"
        /\ handler'[s] = "panicked"
        /\ clientEnd'[s] = clientEnd[s] /\ reset'[s] = reset[s] /\ toServer'[s] = toServer[s]
        /\ toClient'[s] = toClient[s] /\ sent'[s] = sent[s] /\ got'[s] = got[s]
        /\ status'[s] = status[s]
    BY <1>1
       DEF TypeOK, RecvPanic, Broken, CloseServer, serverFrame, clientVars, HandlerTo
  <1>5. TypeOK'
    BY <1>1, StreamAssumption
       DEF StreamType, TypeOK, Running, RecvPanic, Broken, CloseServer, serverFrame,
           clientVars, HandlerTo
  <1>6. StreamType(s)'
    BY <1>5, TypesNext
  <1>7. /\ \A t \in Sessions : t # s => SameStream(t)
        /\ \A p \in Clients : SamePlace(p)
        /\ FaultsOnly
    <2>1. \A t \in Sessions : t # s => SameStream(t)
      BY <1>1, StreamAssumption
         DEF StreamType, TypeOK, SameStream, RecvPanic, Broken, CloseServer, serverFrame,
             clientVars, HandlerTo
    <2>2. \A p \in Clients : SamePlace(p)
      BY
         DEF SamePlace, RecvPanic, Broken, CloseServer, serverFrame, clientVars,
             HandlerTo
    <2>3. FaultsOnly
      BY
         DEF FaultsOnly, RecvPanic, Broken, CloseServer, serverFrame, clientVars,
             HandlerTo
    <2> QED
      BY <2>1, <2>2, <2>3
  <1>8. ASSUME NEW p \in Clients, s = Values(p) PROVE ValuesInv(p)'
    BY <1>3, <1>8 DEF StreamInv, ValuesInv, ValuesPlace
  <1>9. ASSUME NEW p \in Clients, s = Bidi(p) PROVE BidiInv(p)'
    <2>1. BidiInv(p) /\ SamePlace(p) /\ FaultsOnly /\ s[2] = "bidi"
      BY <1>7, <1>9, TwoStreams DEF StreamInv
    <2>2. Ends(Bidi(p))'
      BY <1>2, <1>3, <1>6, <1>9, <2>1, StreamAssumption
         DEF SamePlace, FaultsOnly, BidiInv, StreamType, Messages, Ends, BidiPlace,
             Running
    <2>3. BidiPlace(p)'
      BY <1>2, <1>3, <1>6, <1>9, <2>1, StreamAssumption
         DEF SamePlace, FaultsOnly, BidiInv, StreamType, Messages, BidiPlace, Ends
    <2>4. Answers(p)'
      BY <1>3, <1>9, <2>1 DEF BidiInv, Answers, SamePlace
    <2>5. Requests(p)'
      BY <1>2, <1>3, <1>6, <1>9, <2>1, StreamAssumption
         DEF SamePlace, FaultsOnly, BidiInv, StreamType, Messages, Requests, BidiPlace,
             Ends
    <2>6. Counts(p)'
      BY <1>2, <1>3, <1>6, <1>9, <2>1, StreamAssumption
         DEF SamePlace, FaultsOnly, BidiInv, StreamType, Messages, Counts, BidiPlace,
             Ends, Requests, Running
    <2>7. BidiCalm(p)'
      BY <1>2, <1>3, <1>6, <1>9, <2>1, StreamAssumption
         DEF SamePlace, FaultsOnly, BidiInv, StreamType, Messages, BidiCalm, Ends,
             BidiPlace, Running
    <2> QED
      BY <2>2, <2>3, <2>4, <2>5, <2>6, <2>7 DEF BidiInv
  <1> QED
    BY <1>5, <1>7, <1>8, <1>9, SessionFrame

(* A connection breaks.                                                    *)
LEMMA CutKeeps ==
  ASSUME StreamInv, NEW s \in Sessions, Cut(s)
  PROVE  StreamInv'
  <1>1. TypeOK
    BY DEF StreamInv
  <1>2. StreamType(s)
    BY <1>1, Types
  <1>3. /\ serverEnd[s] = "open"
        /\ reset'[s] = TRUE
        /\ toServer'[s] = <<>>
        /\ toClient'[s] = <<>>
        /\ clientEnd'[s] = clientEnd[s] /\ serverEnd'[s] = serverEnd[s] /\ handler'[s] = handler[s]
        /\ sent'[s] = sent[s] /\ got'[s] = got[s] /\ status'[s] = status[s]
    BY <1>1 DEF TypeOK, Cut, clientVars, serverVars
  <1>5. TypeOK'
    <2> DEFINE none == <<>>
    <2>1. none \in Seq(Nat)
      OBVIOUS
    <2>2. toServer' = [toServer EXCEPT ![s] = none] /\ toClient' = [toClient EXCEPT ![s] = none]
      BY DEF Cut
    <2> HIDE DEF none
    <2>3. toServer' \in [Sessions -> Seq(Nat)] /\ toClient' \in [Sessions -> Seq(Nat)]
      BY <1>1, <2>1, <2>2 DEF TypeOK
    <2>4. faults \in 0 .. MaxFaults
      BY <1>1 DEF TypeOK
    <2>5. faults' \in 0 .. MaxFaults
      BY <2>4, StreamAssumption DEF Cut
    <2> QED
      BY <1>1, <2>3, <2>5 DEF TypeOK, Cut, clientVars, serverVars
  <1>6. StreamType(s)'
    BY <1>5, TypesNext
  <1>7. /\ \A t \in Sessions : t # s => SameStream(t)
        /\ \A p \in Clients : SamePlace(p)
        /\ FaultsOnly
    <2>1. \A t \in Sessions : t # s => SameStream(t)
      BY <1>1, StreamAssumption
         DEF StreamType, TypeOK, SameStream, Cut, clientVars, serverVars
    <2>2. \A p \in Clients : SamePlace(p)
      BY DEF SamePlace, Cut, clientVars, serverVars
    <2>3. FaultsOnly
      <3>1. faults \in Nat
        BY <1>1, PlaceTypes
      <3>2. faults' = faults + 1
        BY DEF Cut
      <3> QED
        BY <3>1, <3>2 DEF FaultsOnly
    <2> QED
      BY <2>1, <2>2, <2>3
  <1>8. ASSUME NEW p \in Clients, s = Values(p) PROVE ValuesInv(p)'
    <2>1. ValuesInv(p) /\ SamePlace(p) /\ FaultsOnly /\ s[2] = "values"
      BY <1>7, <1>8, TwoStreams DEF StreamInv
    <2>2. Ends(Values(p))'
      BY <1>2, <1>3, <1>6, <1>8, <2>1, StreamAssumption
         DEF SamePlace, FaultsOnly, ValuesInv, StreamType, Messages, Ends, ValuesPlace,
             Running
    <2>3. ValuesPlace(p)'
      BY <1>2, <1>3, <1>6, <1>8, <2>1, StreamAssumption
         DEF SamePlace, FaultsOnly, ValuesInv, StreamType, Messages, ValuesPlace, Ends
    <2>4. InOrder(Values(p))'
      BY <1>2, <1>3, <1>6, <1>8, <2>1, OrderedNone
         DEF ValuesInv, InOrder, Ends, ValuesPlace
    <2>5. Asking(p)'
      BY <1>2, <1>3, <1>6, <1>8, <2>1, StreamAssumption
         DEF SamePlace, FaultsOnly, ValuesInv, StreamType, Messages, Asking, Ends,
             ValuesPlace, InOrder
    <2>6. ValuesCalm(p)'
      <3>1. faults \in Nat
        BY <1>1, PlaceTypes
      <3>2. faults' = faults + 1
        BY DEF Cut
      <3> QED
        BY <3>1, <3>2 DEF ValuesCalm
    <2> QED
      BY <2>2, <2>3, <2>4, <2>5, <2>6 DEF ValuesInv
  <1>9. ASSUME NEW p \in Clients, s = Bidi(p) PROVE BidiInv(p)'
    <2>1. BidiInv(p) /\ SamePlace(p) /\ FaultsOnly /\ s[2] = "bidi"
      BY <1>7, <1>9, TwoStreams DEF StreamInv
    <2>2. Ends(Bidi(p))'
      BY <1>2, <1>3, <1>6, <1>9, <2>1, StreamAssumption
         DEF SamePlace, FaultsOnly, BidiInv, StreamType, Messages, Ends, BidiPlace,
             Running
    <2>3. BidiPlace(p)'
      BY <1>2, <1>3, <1>6, <1>9, <2>1, StreamAssumption
         DEF SamePlace, FaultsOnly, BidiInv, StreamType, Messages, BidiPlace, Ends
    <2>4. Answers(p)'
      BY <1>2, <1>3, <1>6, <1>9, <2>1, StreamAssumption
         DEF SamePlace, FaultsOnly, BidiInv, StreamType, Messages, Answers, BidiPlace,
             Ends
    <2>5. Requests(p)'
      <3>1. Len(toServer'[s]) = 0 /\ Len(toClient'[s]) = 0
        BY <1>3, <1>6 DEF StreamType, Messages
      <3> QED
        BY <1>3, <1>9, <2>1, <3>1 DEF BidiInv, Requests, SamePlace
    <2>6. Counts(p)'
      BY <1>2, <1>3, <1>6, <1>9, <2>1, StreamAssumption
         DEF SamePlace, FaultsOnly, BidiInv, StreamType, Messages, Counts, BidiPlace,
             Ends, Requests, Running
    <2>7. BidiCalm(p)'
      <3>1. faults \in Nat
        BY <1>1, PlaceTypes
      <3>2. faults' = faults + 1
        BY DEF Cut
      <3> QED
        BY <3>1, <3>2 DEF BidiCalm
    <2> QED
      BY <2>2, <2>3, <2>4, <2>5, <2>6, <2>7 DEF BidiInv
  <1> QED
    BY <1>5, <1>7, <1>8, <1>9, SessionFrame

(* The request of the values stream is written.                            *)
LEMMA AskKeeps ==
  ASSUME StreamInv, NEW p \in Clients, Ask(p)
  PROVE  StreamInv'
  <1> DEFINE s == Values(p)
  <1>1. TypeOK /\ s \in Sessions /\ Bidi(p) \in Sessions /\ s # Bidi(p)
    BY TwoStreams, Apart DEF StreamInv
  <1>2. StreamType(s) /\ StreamType(Bidi(p)) /\ Domains
    BY <1>1, Types, DomainTypes
  <1>3. /\ pc[p] = "ask"
        /\ pc'[p] = "read"
        /\ round'[p] = round[p]
        /\ faults' = faults /\ serverUp' = serverUp
        /\ clientEnd'[s] = clientEnd[s] /\ serverEnd'[s] = serverEnd[s] /\ reset'[s] = reset[s]
        /\ toClient'[s] = toClient[s] /\ handler'[s] = handler[s] /\ sent'[s] = sent[s]
        /\ got'[s] = got[s] /\ status'[s] = status[s]
    BY <1>1 DEF TypeOK, Ask, Goto, serverVars
  <1>4. \/ serverEnd[s] = "open" /\ ~reset[s] /\ More(toServer'[s], toServer[s], Count)
        \/ (serverEnd[s] # "open" \/ reset[s]) /\ toServer'[s] = toServer[s]
    BY <1>1, WriteEffect, PlaceTypes, StreamAssumption DEF Ask, Goto, serverVars
  <1>5. TypeOK'
    BY <1>1, WriteEffect, PlaceTypes, StreamAssumption
       DEF TypeOK, Running, Ask, Goto, serverVars
  <1>6. StreamType(s)' /\ StreamType(Bidi(p))' /\ Domains'
    BY <1>1, <1>5, TypesNext, DomainTypesNext
  <1>7. /\ \A t \in Sessions : t # s => SameStream(t)
        /\ \A q \in Clients \ {p} : SamePlace(q)
        /\ FaultsOnly
    <2>1. ASSUME NEW t \in Sessions, t # s PROVE SameStream(t)
      <3>1. Count \in Nat /\ Write(s, Count)
        BY <1>1, PlaceTypes, StreamAssumption DEF Ask
      <3>2. toServer'[t] = toServer[t]
        BY <1>1, <2>1, <3>1, WriteEffect
      <3> QED
        BY <3>2 DEF SameStream, Ask, Goto, serverVars
    <2>2. \A q \in Clients \ {p} : SamePlace(q)
      BY <1>1 DEF TypeOK, SamePlace, Ask, Goto, serverVars
    <2>3. FaultsOnly
      BY <1>3 DEF FaultsOnly
    <2> QED
      BY <2>1, <2>2, <2>3
  <1>8. ValuesInv(p)'
    <2>1. ValuesInv(p)
      BY DEF StreamInv
    <2>2. Ends(Values(p))'
      BY <1>1, <1>2, <1>3, <1>4, <1>6, <2>1
         DEF ValuesInv, FaultsOnly, StreamType, Messages, Domains, Ends, ValuesPlace,
             Running
    <2>3. ValuesPlace(p)'
      BY <1>1, <1>2, <1>3, <1>4, <1>6, <2>1
         DEF ValuesInv, FaultsOnly, StreamType, Messages, Domains, ValuesPlace, Ends
    <2>4. InOrder(Values(p))'
      BY <1>1, <1>2, <1>3, <1>4, <1>6, <2>1
         DEF ValuesInv, FaultsOnly, StreamType, Messages, Domains, InOrder, Ends,
             ValuesPlace, Running
    <2>5. Asking(p)'
      BY <1>1, <1>2, <1>3, <1>4, <1>6, <2>1
         DEF ValuesInv, FaultsOnly, StreamType, Messages, Domains, Asking, Ends,
             ValuesPlace, InOrder
    <2>6. ValuesCalm(p)'
      BY <1>1, <1>2, <1>3, <1>4, <1>6, <2>1
         DEF ValuesInv, FaultsOnly, StreamType, Messages, Domains, ValuesCalm, Ends,
             ValuesPlace, Running
    <2> QED
      BY <2>2, <2>3, <2>4, <2>5, <2>6 DEF ValuesInv
  <1>9. BidiInv(p)'
    <2>0. SameStream(Bidi(p))
      BY <1>1, <1>7
    <2>1. BidiInv(p)
      BY DEF StreamInv
    <2>2. Ends(Bidi(p))'
      BY <1>1, <1>2, <1>3, <1>6, <2>0, <2>1
         DEF BidiInv, SameStream, FaultsOnly, StreamType, Messages, Domains, Ends,
             BidiPlace, Running
    <2>3. BidiPlace(p)'
      BY <1>1, <1>2, <1>3, <1>6, <2>0, <2>1
         DEF BidiInv, SameStream, FaultsOnly, StreamType, Messages, Domains, BidiPlace,
             Ends
    <2>4. Answers(p)'
      BY <1>1, <1>2, <1>3, <1>6, <2>0, <2>1
         DEF BidiInv, SameStream, FaultsOnly, StreamType, Messages, Domains, Answers,
             BidiPlace, Ends
    <2>5. Requests(p)'
      BY <1>1, <1>2, <1>3, <1>6, <2>0, <2>1
         DEF BidiInv, SameStream, FaultsOnly, StreamType, Messages, Domains, Requests,
             BidiPlace, Ends
    <2>6. Counts(p)'
      BY <1>1, <1>2, <1>3, <1>6, <2>0, <2>1
         DEF BidiInv, SameStream, FaultsOnly, StreamType, Messages, Domains, Counts,
             BidiPlace, Ends, Requests, Running
    <2>7. BidiCalm(p)'
      BY <1>1, <1>2, <1>3, <1>6, <2>0, <2>1
         DEF BidiInv, SameStream, FaultsOnly, StreamType, Messages, Domains, BidiCalm,
             Ends, BidiPlace, Running
    <2> QED
      BY <2>2, <2>3, <2>4, <2>5, <2>6, <2>7 DEF BidiInv
  <1> HIDE DEF s
  <1> QED
    BY <1>5, <1>7, <1>8, <1>9, ClientFrame DEF s

(* A value is received.                                                    *)
LEMMA ReadValueKeeps ==
  ASSUME StreamInv, NEW p \in Clients, ReadValue(p)
  PROVE  StreamInv'
  <1> DEFINE s == Values(p)
  <1>1. TypeOK /\ s \in Sessions /\ Bidi(p) \in Sessions /\ s # Bidi(p)
    BY TwoStreams, Apart DEF StreamInv
  <1>2. StreamType(s) /\ StreamType(Bidi(p)) /\ Domains
    BY <1>1, Types, DomainTypes
  <1>3. /\ pc[p] = "read"
        /\ pc'[p] = "read"
        /\ round'[p] = round[p]
        /\ faults' = faults /\ serverUp' = serverUp
        /\ clientEnd'[s] = clientEnd[s] /\ serverEnd'[s] = serverEnd[s] /\ reset'[s] = reset[s]
        /\ toServer'[s] = toServer[s] /\ handler'[s] = handler[s] /\ sent'[s] = sent[s]
        /\ status'[s] = status[s]
    BY <1>1 DEF TypeOK, ReadValue, serverVars
  <1>4. /\ toClient[s][1] # EOS /\ Less(toClient'[s], toClient[s])
        /\ got'[s] = Append(got[s], toClient[s][1]) /\ More(got'[s], got[s], toClient[s][1])
    BY <1>1, ReceiveEffect, PlaceTypes, StreamAssumption DEF ReadValue, serverVars
  <1>5. TypeOK'
    BY <1>1, ReceiveEffect, PlaceTypes, StreamAssumption
       DEF TypeOK, Running, ReadValue, serverVars
  <1>6. StreamType(s)' /\ StreamType(Bidi(p))' /\ Domains'
    BY <1>1, <1>5, TypesNext, DomainTypesNext
  <1>7. /\ \A t \in Sessions : t # s => SameStream(t)
        /\ \A q \in Clients \ {p} : SamePlace(q)
        /\ FaultsOnly
    <2>1. ASSUME NEW t \in Sessions, t # s PROVE SameStream(t)
      <3>1. Receive(s)
        BY DEF ReadValue
      <3>2. toClient'[t] = toClient[t] /\ got'[t] = got[t]
        BY <1>1, <2>1, <3>1, ReceiveEffect
      <3> QED
        BY <1>1, <2>1, <3>2 DEF TypeOK, SameStream, ReadValue, serverVars
    <2>2. \A q \in Clients \ {p} : SamePlace(q)
      BY <1>1 DEF TypeOK, SamePlace, ReadValue, serverVars
    <2>3. FaultsOnly
      BY <1>3 DEF FaultsOnly
    <2> QED
      BY <2>1, <2>2, <2>3
  <1>8. ValuesInv(p)'
    <2>1. ValuesInv(p)
      BY DEF StreamInv
    <2>2. Ends(Values(p))'
      <3>1. toClient[s] # <<>>
        BY <1>2, <1>4 DEF Less, StreamType, Messages, Domains
      <3> QED
        BY <1>1, <1>2, <1>3, <1>4, <1>6, <2>1, <3>1 DEF ValuesInv, ValuesPlace, Ends
    <2>3. ValuesPlace(p)'
      BY <1>1, <1>2, <1>3, <1>4, <1>6, <2>1
         DEF ValuesInv, FaultsOnly, StreamType, Messages, Domains, ValuesPlace, Ends
    <2>4. InOrder(Values(p))'
      <3>1. Ordered(toClient[s], Len(got[s]), sent[s], handler[s]) /\ Len(got[s]) \in Nat
        BY <1>2, <2>1 DEF ValuesInv, InOrder, StreamType, Messages, Domains
      <3>2. /\ Ordered(toClient'[s], Len(got[s]) + 1, sent[s], handler[s])
            /\ toClient[s][1] = Len(got[s]) + 1
        BY <1>2, <1>4, <3>1, OrderedLess DEF StreamType
      <3>3. Len(got'[s]) = Len(got[s]) + 1 /\ Len(toClient[s]) = Len(toClient'[s]) + 1
        BY <1>4 DEF More, Less
      <3>4. toClient[s] # <<>>
        BY <1>2, <1>4 DEF Less, StreamType, Messages, Domains
      <3>5. Ordered(toClient'[s], Len(got'[s]), sent'[s], handler'[s])
        BY <1>3, <3>2, <3>3
      <3>6. ASSUME handler[s] = "stream", clientEnd[s] = "open", ~reset[s]
            PROVE  Len(got'[s]) + Len(toClient'[s]) = sent'[s]
        <4>1. Len(got[s]) + Len(toClient[s]) = sent[s]
          BY <2>1, <3>6 DEF ValuesInv, InOrder
        <4> QED
          BY <1>1, <1>2, <1>3, <1>6, <3>1, <3>3, <4>1 DEF StreamType, Messages, Domains
      <3> QED
        BY <1>3, <2>1, <3>4, <3>5, <3>6 DEF ValuesInv, InOrder
    <2>5. Asking(p)'
      BY <1>1, <1>2, <1>3, <1>4, <1>6, <2>1
         DEF ValuesInv, FaultsOnly, StreamType, Messages, Domains, Asking, Ends,
             ValuesPlace, InOrder
    <2>6. ValuesCalm(p)'
      <3>1. ASSUME toClient[s][Len(toClient[s])] = EOS
            PROVE  toClient'[s] # <<>> /\ toClient'[s][Len(toClient'[s])] = EOS
        <4>1. Len(toClient[s]) # 1
          BY <1>4, <3>1
        <4>2. Len(toClient[s]) = Len(toClient'[s]) + 1 /\ Len(toClient'[s]) \in Nat
          BY <1>4 DEF Less, Messages
        <4>3. Len(toClient'[s]) \in 1 .. Len(toClient'[s])
          BY <1>1, <1>2, <1>6, <4>1, <4>2 DEF Domains
        <4>4. toClient'[s][Len(toClient'[s])] = toClient[s][Len(toClient'[s]) + 1]
          BY <1>4, <4>3 DEF Less
        <4>5. toClient'[s] # <<>>
          BY <1>1, <1>2, <1>6, <4>1, <4>2 DEF StreamType, Messages, Domains
        <4> QED
          BY <1>1, <1>2, <1>6, <3>1, <4>2, <4>4, <4>5 DEF Domains
      <3> QED
        BY <1>3, <2>1, <3>1 DEF ValuesInv, ValuesCalm
    <2> QED
      BY <2>2, <2>3, <2>4, <2>5, <2>6 DEF ValuesInv
  <1>9. BidiInv(p)'
    <2>0. SameStream(Bidi(p))
      BY <1>1, <1>7
    <2>1. BidiInv(p)
      BY DEF StreamInv
    <2>2. Ends(Bidi(p))'
      BY <1>1, <1>2, <1>3, <1>6, <2>0, <2>1
         DEF BidiInv, SameStream, FaultsOnly, StreamType, Messages, Domains, Ends,
             BidiPlace, Running
    <2>3. BidiPlace(p)'
      BY <1>1, <1>2, <1>3, <1>6, <2>0, <2>1
         DEF BidiInv, SameStream, FaultsOnly, StreamType, Messages, Domains, BidiPlace,
             Ends
    <2>4. Answers(p)'
      BY <1>1, <1>2, <1>3, <1>6, <2>0, <2>1
         DEF BidiInv, SameStream, FaultsOnly, StreamType, Messages, Domains, Answers,
             BidiPlace, Ends
    <2>5. Requests(p)'
      BY <1>1, <1>2, <1>3, <1>6, <2>0, <2>1
         DEF BidiInv, SameStream, FaultsOnly, StreamType, Messages, Domains, Requests,
             BidiPlace, Ends
    <2>6. Counts(p)'
      BY <1>1, <1>2, <1>3, <1>6, <2>0, <2>1
         DEF BidiInv, SameStream, FaultsOnly, StreamType, Messages, Domains, Counts,
             BidiPlace, Ends, Requests, Running
    <2>7. BidiCalm(p)'
      BY <1>1, <1>2, <1>3, <1>6, <2>0, <2>1
         DEF BidiInv, SameStream, FaultsOnly, StreamType, Messages, Domains, BidiCalm,
             Ends, BidiPlace, Running
    <2> QED
      BY <2>2, <2>3, <2>4, <2>5, <2>6, <2>7 DEF BidiInv
  <1> HIDE DEF s
  <1> QED
    BY <1>5, <1>7, <1>8, <1>9, ClientFrame DEF s

(* The end of the values is received.                                      *)
LEMMA ReadEofKeeps ==
  ASSUME StreamInv, NEW p \in Clients, ReadEof(p)
  PROVE  StreamInv'
  <1> DEFINE s == Values(p)
  <1>1. TypeOK /\ s \in Sessions /\ Bidi(p) \in Sessions /\ s # Bidi(p)
    BY TwoStreams, Apart DEF StreamInv
  <1>2. StreamType(s) /\ StreamType(Bidi(p)) /\ Domains
    BY <1>1, Types, DomainTypes
  <1>3. /\ pc[p] = "read" /\ toClient[s] # <<>> /\ Head(toClient[s]) = EOS
        /\ pc'[p] = "open bidi"
        /\ round'[p] = round[p]
        /\ faults' = faults /\ serverUp' = serverUp
        /\ clientEnd'[s] = "closed"
        /\ toClient'[s] = <<>>
        /\ status'[s] = "eof"
        /\ serverEnd'[s] = serverEnd[s] /\ reset'[s] = reset[s] /\ toServer'[s] = toServer[s]
        /\ handler'[s] = handler[s] /\ sent'[s] = sent[s] /\ got'[s] = got[s]
    BY <1>1 DEF TypeOK, ReadEof, Goto, serverVars
  <1>5. TypeOK'
    <2>1. toClient' = [toClient EXCEPT ![s] = <<>>]
      BY DEF ReadEof
    <2>2. toClient' \in [Sessions -> Seq(Nat)]
      BY <1>1, <2>1, Emptied, NoMessage
    <2> QED
      BY <1>1, <2>2 DEF TypeOK, ReadEof, Goto, serverVars
  <1>6. StreamType(s)' /\ StreamType(Bidi(p))' /\ Domains'
    BY <1>1, <1>5, TypesNext, DomainTypesNext
  <1>7. /\ \A t \in Sessions : t # s => SameStream(t)
        /\ \A q \in Clients \ {p} : SamePlace(q)
        /\ FaultsOnly
    <2>1. ASSUME NEW t \in Sessions, t # s PROVE SameStream(t)
      BY <1>1, <2>1 DEF TypeOK, SameStream, ReadEof, Goto, serverVars
    <2>2. \A q \in Clients \ {p} : SamePlace(q)
      BY <1>1 DEF TypeOK, SamePlace, ReadEof, Goto, serverVars
    <2>3. FaultsOnly
      BY <1>3 DEF FaultsOnly
    <2> QED
      BY <2>1, <2>2, <2>3
  <1>8. ValuesInv(p)'
    <2>1. ValuesInv(p)
      BY DEF StreamInv
    <2>2. Ends(Values(p))'
      BY <1>1, <1>2, <1>3, <1>6, <2>1
         DEF ValuesInv, FaultsOnly, StreamType, Messages, Domains, Ends, ValuesPlace,
             Running
    <2>3. ValuesPlace(p)'
      BY <1>1, <1>2, <1>3, <1>6, <2>1
         DEF ValuesInv, FaultsOnly, StreamType, Messages, Domains, ValuesPlace, Ends
    <2>4. InOrder(Values(p))'
      BY <1>1, <1>2, <1>3, <1>6, <2>1, OrderedNone, NoMessage DEF ValuesInv, InOrder
    <2>5. Asking(p)'
      BY <1>1, <1>2, <1>3, <1>6, <2>1
         DEF ValuesInv, FaultsOnly, StreamType, Messages, Domains, Asking, Ends,
             ValuesPlace, InOrder
    <2>6. ValuesCalm(p)'
      <3>1. toClient[s][1] = 0 /\ 1 \in 1 .. Len(toClient[s])
        <4>1. toClient[s] \in Seq(Nat) /\ toClient[s] # <<>> /\ Head(toClient[s]) = 0
          BY <1>2, <1>3 DEF StreamType, Messages, EOS
        <4>2. Less(Tail(toClient[s]), toClient[s]) /\ Head(toClient[s]) = toClient[s][1]
          BY <4>1, TailIsLess
        <4>3. 1 \in 1 .. Len(toClient[s])
          BY <4>2 DEF Less, Messages
        <4> QED
          BY <4>1, <4>2, <4>3
      <3>2. Len(got[s]) \in Nat /\ Ordered(toClient[s], Len(got[s]), sent[s], handler[s])
        BY <1>2, <2>1 DEF ValuesInv, InOrder, StreamType, Messages
      <3>3. handler[s] = "done"
        BY <1>1, <1>2, <3>1, <3>2 DEF Ordered, Domains
      <3> QED
        BY <1>3, <2>1, <3>3 DEF ValuesInv, ValuesCalm
    <2> QED
      BY <2>2, <2>3, <2>4, <2>5, <2>6 DEF ValuesInv
  <1>9. BidiInv(p)'
    <2>0. SameStream(Bidi(p))
      BY <1>1, <1>7
    <2>1. BidiInv(p)
      BY DEF StreamInv
    <2>2. Ends(Bidi(p))'
      BY <1>1, <1>2, <1>3, <1>6, <2>0, <2>1
         DEF BidiInv, SameStream, FaultsOnly, StreamType, Messages, Domains, Ends,
             BidiPlace, Running
    <2>3. BidiPlace(p)'
      BY <1>1, <1>2, <1>3, <1>6, <2>0, <2>1
         DEF BidiInv, SameStream, FaultsOnly, StreamType, Messages, Domains, BidiPlace,
             Ends
    <2>4. Answers(p)'
      BY <1>1, <1>2, <1>3, <1>6, <2>0, <2>1
         DEF BidiInv, SameStream, FaultsOnly, StreamType, Messages, Domains, Answers,
             BidiPlace, Ends
    <2>5. Requests(p)'
      BY <1>1, <1>2, <1>3, <1>6, <2>0, <2>1
         DEF BidiInv, SameStream, FaultsOnly, StreamType, Messages, Domains, Requests,
             BidiPlace, Ends
    <2>6. Counts(p)'
      BY <1>1, <1>2, <1>3, <1>6, <2>0, <2>1
         DEF BidiInv, SameStream, FaultsOnly, StreamType, Messages, Domains, Counts,
             BidiPlace, Ends, Requests, Running
    <2>7. BidiCalm(p)'
      BY <1>1, <1>2, <1>3, <1>6, <2>0, <2>1
         DEF BidiInv, SameStream, FaultsOnly, StreamType, Messages, Domains, BidiCalm,
             Ends, BidiPlace, Running
    <2> QED
      BY <2>2, <2>3, <2>4, <2>5, <2>6, <2>7 DEF BidiInv
  <1> HIDE DEF s
  <1> QED
    BY <1>5, <1>7, <1>8, <1>9, ClientFrame DEF s

(* A round's request is written.                                           *)
LEMMA SendKeeps ==
  ASSUME StreamInv, NEW p \in Clients, Send(p)
  PROVE  StreamInv'
  <1> DEFINE s == Bidi(p)
  <1>1. TypeOK /\ s \in Sessions /\ Values(p) \in Sessions /\ s # Values(p)
    BY TwoStreams, Apart DEF StreamInv
  <1>2. StreamType(s) /\ StreamType(Values(p)) /\ Domains
    BY <1>1, Types, DomainTypes
  <1>3. /\ pc[p] = "send" /\ round[p] < Rounds
        /\ pc'[p] = "recv"
        /\ round'[p] = round[p]
        /\ faults' = faults /\ serverUp' = serverUp
        /\ clientEnd'[s] = clientEnd[s] /\ serverEnd'[s] = serverEnd[s] /\ reset'[s] = reset[s]
        /\ toClient'[s] = toClient[s] /\ handler'[s] = handler[s] /\ sent'[s] = sent[s]
        /\ got'[s] = got[s] /\ status'[s] = status[s]
    BY <1>1 DEF TypeOK, Send, Goto, serverVars
  <1>4. \/ serverEnd[s] = "open" /\ ~reset[s] /\ More(toServer'[s], toServer[s], round[p])
        \/ (serverEnd[s] # "open" \/ reset[s]) /\ toServer'[s] = toServer[s]
    BY <1>1, WriteEffect, PlaceTypes, StreamAssumption DEF Send, Goto, serverVars
  <1>5. TypeOK'
    BY <1>1, WriteEffect, PlaceTypes, StreamAssumption
       DEF TypeOK, Running, Send, Goto, serverVars
  <1>6. StreamType(s)' /\ StreamType(Values(p))' /\ Domains'
    BY <1>1, <1>5, TypesNext, DomainTypesNext
  <1>7. /\ \A t \in Sessions : t # s => SameStream(t)
        /\ \A q \in Clients \ {p} : SamePlace(q)
        /\ FaultsOnly
    <2>1. ASSUME NEW t \in Sessions, t # s PROVE SameStream(t)
      <3>1. round[p] \in Nat /\ Write(s, round[p])
        BY <1>1, PlaceTypes, StreamAssumption DEF Send
      <3>2. toServer'[t] = toServer[t]
        BY <1>1, <2>1, <3>1, WriteEffect
      <3> QED
        BY <3>2 DEF SameStream, Send, Goto, serverVars
    <2>2. \A q \in Clients \ {p} : SamePlace(q)
      BY <1>1 DEF TypeOK, SamePlace, Send, Goto, serverVars
    <2>3. FaultsOnly
      BY <1>3 DEF FaultsOnly
    <2> QED
      BY <2>1, <2>2, <2>3
  <1>8. ValuesInv(p)'
    <2>0. SameStream(Values(p))
      BY <1>1, <1>7
    <2>1. ValuesInv(p)
      BY DEF StreamInv
    <2>2. Ends(Values(p))'
      BY <1>1, <1>2, <1>3, <1>6, <2>0, <2>1
         DEF ValuesInv, SameStream, FaultsOnly, StreamType, Messages, Domains, Ends,
             ValuesPlace, Running
    <2>3. ValuesPlace(p)'
      BY <1>1, <1>2, <1>3, <1>6, <2>0, <2>1
         DEF ValuesInv, SameStream, FaultsOnly, StreamType, Messages, Domains,
             ValuesPlace, Ends
    <2>4. InOrder(Values(p))'
      BY <1>1, <1>2, <1>3, <1>6, <2>0, <2>1
         DEF ValuesInv, SameStream, FaultsOnly, StreamType, Messages, Domains, InOrder,
             Ends, ValuesPlace, Running
    <2>5. Asking(p)'
      BY <1>1, <1>2, <1>3, <1>6, <2>0, <2>1
         DEF ValuesInv, SameStream, FaultsOnly, StreamType, Messages, Domains, Asking,
             Ends, ValuesPlace, InOrder
    <2>6. ValuesCalm(p)'
      BY <1>1, <1>2, <1>3, <1>6, <2>0, <2>1
         DEF ValuesInv, SameStream, FaultsOnly, StreamType, Messages, Domains,
             ValuesCalm, Ends, ValuesPlace, Running
    <2> QED
      BY <2>2, <2>3, <2>4, <2>5, <2>6 DEF ValuesInv
  <1>9. BidiInv(p)'
    <2>1. BidiInv(p)
      BY DEF StreamInv
    <2>2. Ends(Bidi(p))'
      BY <1>1, <1>2, <1>3, <1>4, <1>6, <2>1
         DEF BidiInv, FaultsOnly, StreamType, Messages, Domains, Ends, BidiPlace,
             Running
    <2>3. BidiPlace(p)'
      BY <1>1, <1>2, <1>3, <1>4, <1>6, <2>1
         DEF BidiInv, FaultsOnly, StreamType, Messages, Domains, BidiPlace, Ends
    <2>4. Answers(p)'
      BY <1>1, <1>2, <1>3, <1>4, <1>6, <2>1
         DEF BidiInv, FaultsOnly, StreamType, Messages, Domains, Answers, BidiPlace,
             Ends
    <2>5. Requests(p)'
      <3>1. toClient[s] = <<>> /\ Len(toClient[s]) = 0
        BY <1>2, <1>3, <2>1 DEF BidiInv, Answers, StreamType, Messages, Domains
      <3>2. Len(toServer'[s]) = Len(toServer[s]) \/ Len(toServer'[s]) = Len(toServer[s]) + 1
        BY <1>4 DEF More
      <3>3. handler[s] = "accepted" => Len(toServer[s]) <= 1
        BY <1>3, <2>1 DEF BidiInv, Requests
      <3>4. handler[s] = "recv" => Len(toServer[s]) = 0
        BY <1>2, <1>3, <2>1 DEF BidiInv, Requests, StreamType, Messages, Domains
      <3>5. Len(toServer[s]) \in Nat /\ Len(toServer'[s]) \in Nat
        BY <1>2, <1>6 DEF StreamType, Messages
      <3>6. Len(toClient'[s]) = 0
        BY <1>3, <3>1
      <3>7. handler[s] = "accepted" => Len(toServer'[s]) <= 2
        BY <3>2, <3>3, <3>5, AtMostTwo
      <3>8. handler[s] = "recv" => Len(toServer'[s]) + Len(toClient'[s]) <= 1
        BY <3>2, <3>4, <3>5, <3>6, AtMostTwo
      <3> QED
        BY <1>3, <2>1, <3>1, <3>7, <3>8 DEF BidiInv, Requests
    <2>6. Counts(p)'
      <3>1. toClient[s] = <<>> /\ Len(toClient[s]) = 0
        BY <1>2, <1>3, <2>1 DEF BidiInv, Answers, StreamType, Messages, Domains
      <3>2. round[p] \in Nat
        BY <1>1, PlaceTypes
      <3> QED
        BY <1>1, <1>2, <1>3, <1>6, <2>1, <3>1, <3>2 DEF BidiInv, Counts, Domains
    <2>7. BidiCalm(p)'
      BY <1>1, <1>2, <1>3, <1>4, <1>6, <2>1
         DEF BidiInv, FaultsOnly, StreamType, Messages, Domains, BidiCalm, Ends,
             BidiPlace, Running
    <2> QED
      BY <2>2, <2>3, <2>4, <2>5, <2>6, <2>7 DEF BidiInv
  <1> HIDE DEF s
  <1> QED
    BY <1>5, <1>7, <1>8, <1>9, ClientFrame DEF s

(* A round's response is received.                                         *)
LEMMA RecvRoundKeeps ==
  ASSUME StreamInv, NEW p \in Clients, RecvRound(p)
  PROVE  StreamInv'
  <1> DEFINE s == Bidi(p)
  <1>1. TypeOK /\ s \in Sessions /\ Values(p) \in Sessions /\ s # Values(p)
    BY TwoStreams, Apart DEF StreamInv
  <1>2. StreamType(s) /\ StreamType(Values(p)) /\ Domains
    BY <1>1, Types, DomainTypes
  <1>3. /\ pc[p] = "recv"
        /\ pc'[p] = "send"
        /\ round'[p] = round[p] + 1
        /\ faults' = faults /\ serverUp' = serverUp
        /\ clientEnd'[s] = clientEnd[s] /\ serverEnd'[s] = serverEnd[s] /\ reset'[s] = reset[s]
        /\ toServer'[s] = toServer[s] /\ handler'[s] = handler[s] /\ sent'[s] = sent[s]
        /\ status'[s] = status[s]
    BY <1>1 DEF TypeOK, RecvRound, Goto, serverVars
  <1>4. /\ toClient[s][1] # EOS /\ Less(toClient'[s], toClient[s])
        /\ got'[s] = Append(got[s], toClient[s][1]) /\ More(got'[s], got[s], toClient[s][1])
    BY <1>1, ReceiveEffect, PlaceTypes, StreamAssumption DEF RecvRound, Goto, serverVars
  <1>5. TypeOK'
    <2>1. Receive(s)
      BY DEF RecvRound
    <2>2. toClient' \in [Sessions -> Seq(Nat)] /\ got' \in [Sessions -> Seq(Nat)]
      BY <1>1, <2>1, ReceiveEffect
    <2>3. round[p] < Rounds /\ round[p] \in Nat
      BY <1>1, <1>3, PlaceTypes DEF StreamInv, BidiInv, Answers
    <2>4. round' \in [Clients -> 0 .. Rounds]
      <3>1. round[p] + 1 \in 0 .. Rounds
        BY <2>3, StreamAssumption
      <3> QED
        BY <1>1, <3>1 DEF TypeOK, RecvRound
    <2> QED
      BY <1>1, <2>2, <2>4 DEF TypeOK, RecvRound, Goto, serverVars
  <1>6. StreamType(s)' /\ StreamType(Values(p))' /\ Domains'
    BY <1>1, <1>5, TypesNext, DomainTypesNext
  <1>7. /\ \A t \in Sessions : t # s => SameStream(t)
        /\ \A q \in Clients \ {p} : SamePlace(q)
        /\ FaultsOnly
    <2>1. ASSUME NEW t \in Sessions, t # s PROVE SameStream(t)
      <3>1. Receive(s)
        BY DEF RecvRound
      <3>2. toClient'[t] = toClient[t] /\ got'[t] = got[t]
        BY <1>1, <2>1, <3>1, ReceiveEffect
      <3> QED
        BY <1>1, <2>1, <3>2 DEF TypeOK, SameStream, RecvRound, Goto, serverVars
    <2>2. \A q \in Clients \ {p} : SamePlace(q)
      BY <1>1 DEF TypeOK, SamePlace, RecvRound, Goto, serverVars
    <2>3. FaultsOnly
      BY <1>3 DEF FaultsOnly
    <2> QED
      BY <2>1, <2>2, <2>3
  <1>8. ValuesInv(p)'
    <2>0. SameStream(Values(p))
      BY <1>1, <1>7
    <2>1. ValuesInv(p)
      BY DEF StreamInv
    <2>2. Ends(Values(p))'
      BY <1>1, <1>2, <1>3, <1>6, <2>0, <2>1
         DEF ValuesInv, SameStream, FaultsOnly, StreamType, Messages, Domains, Ends,
             ValuesPlace, Running
    <2>3. ValuesPlace(p)'
      BY <1>1, <1>2, <1>3, <1>6, <2>0, <2>1
         DEF ValuesInv, SameStream, FaultsOnly, StreamType, Messages, Domains,
             ValuesPlace, Ends
    <2>4. InOrder(Values(p))'
      BY <1>1, <1>2, <1>3, <1>6, <2>0, <2>1
         DEF ValuesInv, SameStream, FaultsOnly, StreamType, Messages, Domains, InOrder,
             Ends, ValuesPlace, Running
    <2>5. Asking(p)'
      BY <1>1, <1>2, <1>3, <1>6, <2>0, <2>1
         DEF ValuesInv, SameStream, FaultsOnly, StreamType, Messages, Domains, Asking,
             Ends, ValuesPlace, InOrder
    <2>6. ValuesCalm(p)'
      BY <1>1, <1>2, <1>3, <1>6, <2>0, <2>1
         DEF ValuesInv, SameStream, FaultsOnly, StreamType, Messages, Domains,
             ValuesCalm, Ends, ValuesPlace, Running
    <2> QED
      BY <2>2, <2>3, <2>4, <2>5, <2>6 DEF ValuesInv
  <1>9. BidiInv(p)'
    <2>1. BidiInv(p)
      BY DEF StreamInv
    <2>2. Ends(Bidi(p))'
      <3>1. toClient[s] # <<>> /\ round[p] \in Nat
        <4>1. Len(toClient[s]) = Len(toClient'[s]) + 1 /\ Len(toClient'[s]) \in Nat
          BY <1>4 DEF Less, Messages
        <4>2. toClient[s] # <<>>
          BY <1>2, <4>1, NotNone DEF StreamType, Messages
        <4> QED
          BY <1>1, <4>2, PlaceTypes
      <3> QED
        BY <1>1, <1>2, <1>3, <1>4, <1>6, <2>1, <3>1 DEF BidiInv, BidiPlace, Ends
    <2>3. BidiPlace(p)'
      BY <1>1, <1>2, <1>3, <1>4, <1>6, <2>1
         DEF BidiInv, FaultsOnly, StreamType, Messages, Domains, BidiPlace, Ends
    <2>4. Answers(p)'
      <3>1. toClient[s] # <<>> /\ round[p] \in Nat
        <4>1. Len(toClient[s]) = Len(toClient'[s]) + 1 /\ Len(toClient'[s]) \in Nat
          BY <1>4 DEF Less, Messages
        <4>2. toClient[s] # <<>>
          BY <1>2, <4>1, NotNone DEF StreamType, Messages
        <4> QED
          BY <1>1, <4>2, PlaceTypes
      <3>2. Len(toClient[s]) = 1 /\ toClient[s][1] = round[p] + 1 /\ got[s] = Counted(round[p])
        BY <1>3, <2>1, <3>1 DEF BidiInv, Answers
      <3>3. Len(toClient'[s]) = 0 /\ toClient'[s] = <<>>
        <4>1. Len(toClient[s]) = Len(toClient'[s]) + 1 /\ Len(toClient'[s]) \in Nat
          BY <1>4 DEF Less, Messages
        <4> QED
          BY <1>6, <3>2, <4>1, NotNone DEF StreamType, Messages
      <3>4. got'[s] = Counted(round[p] + 1)
        BY <1>4, <3>1, <3>2, CountOn
      <3>5. clientEnd'[s] # "none"
        BY <1>3, <2>1 DEF BidiInv, BidiPlace
      <3> QED
        BY <1>3, <3>3, <3>4, <3>5 DEF Answers
    <2>5. Requests(p)'
      <3>1. toClient[s] # <<>> /\ round[p] \in Nat
        <4>1. Len(toClient[s]) = Len(toClient'[s]) + 1 /\ Len(toClient'[s]) \in Nat
          BY <1>4 DEF Less, Messages
        <4>2. toClient[s] # <<>>
          BY <1>2, <4>1, NotNone DEF StreamType, Messages
        <4> QED
          BY <1>1, <4>2, PlaceTypes
      <3>2. Len(toClient[s]) = 1 /\ toClient[s][1] = round[p] + 1 /\ got[s] = Counted(round[p])
        BY <1>3, <2>1, <3>1 DEF BidiInv, Answers
      <3>3. Len(toClient'[s]) = 0 /\ toClient'[s] = <<>>
        <4>1. Len(toClient[s]) = Len(toClient'[s]) + 1 /\ Len(toClient'[s]) \in Nat
          BY <1>4 DEF Less, Messages
        <4> QED
          BY <1>6, <3>2, <4>1, NotNone DEF StreamType, Messages
      <3>4. handler[s] \notin {"accepted", "reply"}
        BY <2>1, <3>1 DEF BidiInv, Requests
      <3>5. handler[s] = "recv" => Len(toServer[s]) + Len(toClient[s]) <= 1
        BY <2>1 DEF BidiInv, Requests
      <3>6. handler[s] = "recv" => Len(toServer[s]) = 0
        BY <1>1, <1>2, <3>2, <3>5 DEF StreamType, Messages, Domains
      <3>7. handler[s] = "recv" =>
              toServer'[s] = <<>> /\ Len(toServer'[s]) + Len(toClient'[s]) <= 1
        BY <1>1, <1>2, <1>3, <1>6, <3>3, <3>6 DEF StreamType, Messages, Domains
      <3> QED
        BY <1>3, <3>4, <3>7 DEF Requests
    <2>6. Counts(p)'
      <3>1. toClient[s] # <<>> /\ round[p] \in Nat
        <4>1. Len(toClient[s]) = Len(toClient'[s]) + 1 /\ Len(toClient'[s]) \in Nat
          BY <1>4 DEF Less, Messages
        <4>2. toClient[s] # <<>>
          BY <1>2, <4>1, NotNone DEF StreamType, Messages
        <4> QED
          BY <1>1, <4>2, PlaceTypes
      <3>2. Len(toClient[s]) = 1 /\ toClient[s][1] = round[p] + 1 /\ got[s] = Counted(round[p])
        BY <1>3, <2>1, <3>1 DEF BidiInv, Answers
      <3>3. Len(toClient'[s]) = 0 /\ toClient'[s] = <<>>
        <4>1. Len(toClient[s]) = Len(toClient'[s]) + 1 /\ Len(toClient'[s]) \in Nat
          BY <1>4 DEF Less, Messages
        <4> QED
          BY <1>6, <3>2, <4>1, NotNone DEF StreamType, Messages
      <3>4. ~reset[s]
        BY <1>3, <2>1, <3>1 DEF BidiInv, BidiPlace, Ends
      <3>5. handler[s] \in Running => sent[s] = round[p] + Len(toClient[s])
        BY <1>3, <2>1, <3>4 DEF BidiInv, Counts
      <3> QED
        BY <1>1, <1>2, <1>3, <1>6, <3>1, <3>2, <3>5 DEF Counts, Domains
    <2>7. BidiCalm(p)'
      BY <1>1, <1>2, <1>3, <1>4, <1>6, <2>1
         DEF BidiInv, FaultsOnly, StreamType, Messages, Domains, BidiCalm, Ends,
             BidiPlace, Running
    <2> QED
      BY <2>2, <2>3, <2>4, <2>5, <2>6, <2>7 DEF BidiInv
  <1> HIDE DEF s
  <1> QED
    BY <1>5, <1>7, <1>8, <1>9, ClientFrame DEF s

(* The client closes the second stream.                                    *)
LEMMA FinishKeeps ==
  ASSUME StreamInv, NEW p \in Clients, Finish(p)
  PROVE  StreamInv'
  <1> DEFINE s == Bidi(p)
  <1>1. TypeOK /\ s \in Sessions /\ Values(p) \in Sessions /\ s # Values(p)
    BY TwoStreams, Apart DEF StreamInv
  <1>2. StreamType(s) /\ StreamType(Values(p)) /\ Domains
    BY <1>1, Types, DomainTypes
  <1>3. /\ pc[p] = "send" /\ Over(p)
        /\ pc'[p] = "waiting"
        /\ round'[p] = round[p]
        /\ faults' = faults /\ serverUp' = serverUp
        /\ clientEnd'[s] = "closed"
        /\ reset'[s] = (reset[s] \/ toClient[s] # <<>>)
        /\ toClient'[s] = <<>>
        /\ status'[s] = IF round[p] = Rounds THEN "eof" ELSE "broken"
        /\ serverEnd'[s] = serverEnd[s] /\ toServer'[s] = toServer[s] /\ handler'[s] = handler[s]
        /\ sent'[s] = sent[s] /\ got'[s] = got[s]
    BY <1>1 DEF TypeOK, Finish, CloseClient, Goto, serverVars
  <1>5. TypeOK'
    <2>1. toClient' = [toClient EXCEPT ![s] = <<>>]
      BY DEF Finish, CloseClient
    <2>2. toClient' \in [Sessions -> Seq(Nat)]
      BY <1>1, <2>1, Emptied, NoMessage
    <2> QED
      BY <1>1, <2>2 DEF TypeOK, Finish, CloseClient, Goto, serverVars
  <1>6. StreamType(s)' /\ StreamType(Values(p))' /\ Domains'
    BY <1>1, <1>5, TypesNext, DomainTypesNext
  <1>7. /\ \A t \in Sessions : t # s => SameStream(t)
        /\ \A q \in Clients \ {p} : SamePlace(q)
        /\ FaultsOnly
    <2>1. ASSUME NEW t \in Sessions, t # s PROVE SameStream(t)
      BY <1>1, <2>1 DEF TypeOK, SameStream, Finish, CloseClient, Goto, serverVars
    <2>2. \A q \in Clients \ {p} : SamePlace(q)
      BY <1>1 DEF TypeOK, SamePlace, Finish, CloseClient, Goto, serverVars
    <2>3. FaultsOnly
      BY <1>3 DEF FaultsOnly
    <2> QED
      BY <2>1, <2>2, <2>3
  <1>8. ValuesInv(p)'
    <2>0. SameStream(Values(p))
      BY <1>1, <1>7
    <2>1. ValuesInv(p)
      BY DEF StreamInv
    <2>2. Ends(Values(p))'
      BY <1>1, <1>2, <1>3, <1>6, <2>0, <2>1
         DEF ValuesInv, SameStream, FaultsOnly, StreamType, Messages, Domains, Ends,
             ValuesPlace, Running
    <2>3. ValuesPlace(p)'
      BY <1>1, <1>2, <1>3, <1>6, <2>0, <2>1
         DEF ValuesInv, SameStream, FaultsOnly, StreamType, Messages, Domains,
             ValuesPlace, Ends
    <2>4. InOrder(Values(p))'
      BY <1>1, <1>2, <1>3, <1>6, <2>0, <2>1
         DEF ValuesInv, SameStream, FaultsOnly, StreamType, Messages, Domains, InOrder,
             Ends, ValuesPlace, Running
    <2>5. Asking(p)'
      BY <1>1, <1>2, <1>3, <1>6, <2>0, <2>1
         DEF ValuesInv, SameStream, FaultsOnly, StreamType, Messages, Domains, Asking,
             Ends, ValuesPlace, InOrder
    <2>6. ValuesCalm(p)'
      BY <1>1, <1>2, <1>3, <1>6, <2>0, <2>1
         DEF ValuesInv, SameStream, FaultsOnly, StreamType, Messages, Domains,
             ValuesCalm, Ends, ValuesPlace, Running
    <2> QED
      BY <2>2, <2>3, <2>4, <2>5, <2>6 DEF ValuesInv
  <1>9. BidiInv(p)'
    <2>1. BidiInv(p)
      BY DEF StreamInv
    <2>2. Ends(Bidi(p))'
      BY <1>1, <1>2, <1>3, <1>6, <2>1
         DEF BidiInv, FaultsOnly, StreamType, Messages, Domains, Ends, BidiPlace,
             Running
    <2>3. BidiPlace(p)'
      BY <1>1, <1>2, <1>3, <1>6, <2>1
         DEF BidiInv, FaultsOnly, StreamType, Messages, Domains, BidiPlace, Ends
    <2>4. Answers(p)'
      BY <1>1, <1>2, <1>3, <1>6, <2>1
         DEF BidiInv, FaultsOnly, StreamType, Messages, Domains, Answers, BidiPlace,
             Ends
    <2>5. Requests(p)'
      BY <1>1, <1>2, <1>3, <1>6, <2>1
         DEF BidiInv, FaultsOnly, StreamType, Messages, Domains, Requests, BidiPlace,
             Ends
    <2>6. Counts(p)'
      BY <1>1, <1>2, <1>3, <1>6, <2>1
         DEF BidiInv, FaultsOnly, StreamType, Messages, Domains, Counts, BidiPlace, Ends,
             Requests, Running
    <2>7. BidiCalm(p)'
      BY <1>1, <1>2, <1>3, <1>6, <2>1
         DEF BidiInv, FaultsOnly, StreamType, Messages, Domains, BidiCalm, Answers
    <2> QED
      BY <2>2, <2>3, <2>4, <2>5, <2>6, <2>7 DEF BidiInv
  <1> HIDE DEF s
  <1> QED
    BY <1>5, <1>7, <1>8, <1>9, ClientFrame DEF s

(* The values stream is opened ...                                         *)
LEMMA OpenValuesKeeps ==
  ASSUME StreamInv, NEW p \in Clients, Open(p), pc[p] = "open values"
  PROVE  StreamInv'
  <1> DEFINE s == Values(p)
  <1>1. TypeOK /\ s \in Sessions /\ Bidi(p) \in Sessions /\ s # Bidi(p)
    BY TwoStreams, Apart DEF StreamInv
  <1>2. StreamType(s) /\ StreamType(Bidi(p)) /\ Domains
    BY <1>1, Types, DomainTypes
  <1>3. /\ pc[p] = "open values" /\ serverUp
        /\ pc'[p] = "ask"
        /\ round'[p] = round[p]
        /\ faults' = faults /\ serverUp' = serverUp
        /\ clientEnd'[s] = "open"
        /\ serverEnd'[s] = "open"
        /\ toServer'[s] = <<0>>
        /\ handler'[s] = "accepted"
        /\ reset'[s] = reset[s] /\ toClient'[s] = toClient[s] /\ sent'[s] = sent[s]
        /\ got'[s] = got[s] /\ status'[s] = status[s]
    BY <1>1 DEF TypeOK, Open, Goto, AfterOpen, Current
  <1>5. TypeOK'
    <2>1. toServer' = [toServer EXCEPT ![s] = <<0>>]
      BY <1>3 DEF Open, Current
    <2>2. toServer' \in [Sessions -> Seq(Nat)]
      BY <1>1, <2>1, Emptied, OneMessage
    <2>3. tries' \in [Clients -> 0 .. Retries]
      <3>1. 0 \in 0 .. Retries
        BY LeastCounts
      <3> QED
        BY <1>1, <3>1 DEF TypeOK, Open
    <2> QED
      BY <1>1, <1>3, <2>2, <2>3 DEF TypeOK, Running, Open, Goto, AfterOpen, Current
  <1>6. StreamType(s)' /\ StreamType(Bidi(p))' /\ Domains'
    BY <1>1, <1>5, TypesNext, DomainTypesNext
  <1>7. /\ \A t \in Sessions : t # s => SameStream(t)
        /\ \A q \in Clients \ {p} : SamePlace(q)
        /\ FaultsOnly
    <2>1. ASSUME NEW t \in Sessions, t # s PROVE SameStream(t)
      BY <1>1, <2>1 DEF TypeOK, SameStream, Open, Goto, AfterOpen, Current
    <2>2. \A q \in Clients \ {p} : SamePlace(q)
      BY <1>1 DEF TypeOK, SamePlace, Open, Goto, AfterOpen, Current
    <2>3. FaultsOnly
      BY <1>3 DEF FaultsOnly
    <2> QED
      BY <2>1, <2>2, <2>3
  <1>8. ValuesInv(p)'
    <2>1. ValuesInv(p)
      BY DEF StreamInv
    <2>2. Ends(Values(p))'
      BY <1>1, <1>2, <1>3, <1>6, <2>1
         DEF ValuesInv, FaultsOnly, StreamType, Messages, Domains, Ends, ValuesPlace,
             Running
    <2>3. ValuesPlace(p)'
      BY <1>1, <1>2, <1>3, <1>6, <2>1
         DEF ValuesInv, FaultsOnly, StreamType, Messages, Domains, ValuesPlace, Ends
    <2>4. InOrder(Values(p))'
      <3>1. /\ toClient'[s] = <<>> /\ got'[s] = <<>> /\ sent'[s] = 0
        BY <1>3, <2>1 DEF ValuesInv, ValuesPlace, Ends
      <3> QED
        BY <1>3, <3>1, OrderedNone, LeastCounts DEF InOrder
    <2>5. Asking(p)'
      <3>1. Len(toServer'[s]) <= 1 /\ Len(toServer'[s]) <= 2
        BY <1>3, OneMessage
      <3> QED
        BY <1>3, <3>1 DEF Asking
    <2>6. ValuesCalm(p)'
      BY <1>1, <1>2, <1>3, <1>6, <2>1
         DEF ValuesInv, FaultsOnly, StreamType, Messages, Domains, ValuesCalm, Ends,
             ValuesPlace, Running
    <2> QED
      BY <2>2, <2>3, <2>4, <2>5, <2>6 DEF ValuesInv
  <1>9. BidiInv(p)'
    <2>0. SameStream(Bidi(p))
      BY <1>1, <1>7
    <2>1. BidiInv(p)
      BY DEF StreamInv
    <2>2. Ends(Bidi(p))'
      BY <1>1, <1>2, <1>3, <1>6, <2>0, <2>1
         DEF BidiInv, SameStream, FaultsOnly, StreamType, Messages, Domains, Ends,
             BidiPlace, Running
    <2>3. BidiPlace(p)'
      BY <1>1, <1>2, <1>3, <1>6, <2>0, <2>1
         DEF BidiInv, SameStream, FaultsOnly, StreamType, Messages, Domains, BidiPlace,
             Ends
    <2>4. Answers(p)'
      BY <1>1, <1>2, <1>3, <1>6, <2>0, <2>1
         DEF BidiInv, SameStream, FaultsOnly, StreamType, Messages, Domains, Answers,
             BidiPlace, Ends
    <2>5. Requests(p)'
      BY <1>1, <1>2, <1>3, <1>6, <2>0, <2>1
         DEF BidiInv, SameStream, FaultsOnly, StreamType, Messages, Domains, Requests,
             BidiPlace, Ends
    <2>6. Counts(p)'
      BY <1>1, <1>2, <1>3, <1>6, <2>0, <2>1
         DEF BidiInv, SameStream, FaultsOnly, StreamType, Messages, Domains, Counts,
             BidiPlace, Ends, Requests, Running
    <2>7. BidiCalm(p)'
      BY <1>1, <1>2, <1>3, <1>6, <2>0, <2>1
         DEF BidiInv, SameStream, FaultsOnly, StreamType, Messages, Domains, BidiCalm,
             Ends, BidiPlace, Running
    <2> QED
      BY <2>2, <2>3, <2>4, <2>5, <2>6, <2>7 DEF BidiInv
  <1> HIDE DEF s
  <1> QED
    BY <1>5, <1>7, <1>8, <1>9, ClientFrame DEF s

(* ... and the other.                                                      *)
LEMMA OpenBidiKeeps ==
  ASSUME StreamInv, NEW p \in Clients, Open(p), pc[p] # "open values"
  PROVE  StreamInv'
  <1> DEFINE s == Bidi(p)
  <1>1. TypeOK /\ s \in Sessions /\ Values(p) \in Sessions /\ s # Values(p)
    BY TwoStreams, Apart DEF StreamInv
  <1>2. StreamType(s) /\ StreamType(Values(p)) /\ Domains
    BY <1>1, Types, DomainTypes
  <1>3. /\ pc[p] = "open bidi" /\ serverUp
        /\ pc'[p] = "send"
        /\ round'[p] = round[p]
        /\ faults' = faults /\ serverUp' = serverUp
        /\ clientEnd'[s] = "open"
        /\ serverEnd'[s] = "open"
        /\ toServer'[s] = <<0>>
        /\ handler'[s] = "accepted"
        /\ reset'[s] = reset[s] /\ toClient'[s] = toClient[s] /\ sent'[s] = sent[s]
        /\ got'[s] = got[s] /\ status'[s] = status[s]
    BY <1>1 DEF TypeOK, Open, Goto, AfterOpen, Current
  <1>5. TypeOK'
    <2>1. toServer' = [toServer EXCEPT ![s] = <<0>>]
      BY <1>3 DEF Open, Current
    <2>2. toServer' \in [Sessions -> Seq(Nat)]
      BY <1>1, <2>1, Emptied, OneMessage
    <2>3. tries' \in [Clients -> 0 .. Retries]
      <3>1. 0 \in 0 .. Retries
        BY LeastCounts
      <3> QED
        BY <1>1, <3>1 DEF TypeOK, Open
    <2> QED
      BY <1>1, <1>3, <2>2, <2>3 DEF TypeOK, Running, Open, Goto, AfterOpen, Current
  <1>6. StreamType(s)' /\ StreamType(Values(p))' /\ Domains'
    BY <1>1, <1>5, TypesNext, DomainTypesNext
  <1>7. /\ \A t \in Sessions : t # s => SameStream(t)
        /\ \A q \in Clients \ {p} : SamePlace(q)
        /\ FaultsOnly
    <2>1. ASSUME NEW t \in Sessions, t # s PROVE SameStream(t)
      BY <1>1, <2>1 DEF TypeOK, SameStream, Open, Goto, AfterOpen, Current
    <2>2. \A q \in Clients \ {p} : SamePlace(q)
      BY <1>1 DEF TypeOK, SamePlace, Open, Goto, AfterOpen, Current
    <2>3. FaultsOnly
      BY <1>3 DEF FaultsOnly
    <2> QED
      BY <2>1, <2>2, <2>3
  <1>8. ValuesInv(p)'
    <2>0. SameStream(Values(p))
      BY <1>1, <1>7
    <2>1. ValuesInv(p)
      BY DEF StreamInv
    <2>2. Ends(Values(p))'
      BY <1>1, <1>2, <1>3, <1>6, <2>0, <2>1
         DEF ValuesInv, SameStream, FaultsOnly, StreamType, Messages, Domains, Ends,
             ValuesPlace, Running
    <2>3. ValuesPlace(p)'
      BY <1>1, <1>2, <1>3, <1>6, <2>0, <2>1
         DEF ValuesInv, SameStream, FaultsOnly, StreamType, Messages, Domains,
             ValuesPlace, Ends
    <2>4. InOrder(Values(p))'
      BY <1>1, <1>2, <1>3, <1>6, <2>0, <2>1
         DEF ValuesInv, SameStream, FaultsOnly, StreamType, Messages, Domains, InOrder,
             Ends, ValuesPlace, Running
    <2>5. Asking(p)'
      BY <1>1, <1>2, <1>3, <1>6, <2>0, <2>1
         DEF ValuesInv, SameStream, FaultsOnly, StreamType, Messages, Domains, Asking,
             Ends, ValuesPlace, InOrder
    <2>6. ValuesCalm(p)'
      BY <1>1, <1>2, <1>3, <1>6, <2>0, <2>1
         DEF ValuesInv, SameStream, FaultsOnly, StreamType, Messages, Domains,
             ValuesCalm, Ends, ValuesPlace, Running
    <2> QED
      BY <2>2, <2>3, <2>4, <2>5, <2>6 DEF ValuesInv
  <1>9. BidiInv(p)'
    <2>1. BidiInv(p)
      BY DEF StreamInv
    <2>2. Ends(Bidi(p))'
      BY <1>1, <1>2, <1>3, <1>6, <2>1
         DEF BidiInv, FaultsOnly, StreamType, Messages, Domains, Ends, BidiPlace,
             Running
    <2>3. BidiPlace(p)'
      BY <1>1, <1>2, <1>3, <1>6, <2>1
         DEF BidiInv, FaultsOnly, StreamType, Messages, Domains, BidiPlace, Ends
    <2>4. Answers(p)'
      BY <1>1, <1>2, <1>3, <1>6, <2>1
         DEF BidiInv, FaultsOnly, StreamType, Messages, Domains, Answers, BidiPlace,
             Ends
    <2>5. Requests(p)'
      <3>1. Len(toServer'[s]) <= 1 /\ Len(toServer'[s]) <= 2
        BY <1>3, OneMessage
      <3>2. clientEnd[s] = "none"
        BY <1>3, <2>1 DEF BidiInv, BidiPlace
      <3>3. toClient'[s] = <<>> /\ sent'[s] = 0 /\ round'[p] = 0
        BY <1>3, <2>1, <3>2 DEF BidiInv, Ends, Answers
      <3> QED
        BY <1>3, <3>1, <3>3 DEF Requests
    <2>6. Counts(p)'
      <3>2. clientEnd[s] = "none"
        BY <1>3, <2>1 DEF BidiInv, BidiPlace
      <3>3. sent'[s] = 0 /\ round'[p] = 0
        BY <1>3, <2>1, <3>2 DEF BidiInv, Ends, Answers
      <3> QED
        BY <1>3, <3>3 DEF Counts
    <2>7. BidiCalm(p)'
      BY <1>1, <1>2, <1>3, <1>6, <2>1
         DEF BidiInv, FaultsOnly, StreamType, Messages, Domains, BidiCalm, Ends,
             BidiPlace, Running
    <2> QED
      BY <2>2, <2>3, <2>4, <2>5, <2>6, <2>7 DEF BidiInv
  <1> HIDE DEF s
  <1> QED
    BY <1>5, <1>7, <1>8, <1>9, ClientFrame DEF s

-----------------------------------------------------------------------------
(* A client dies: what that does to a stream of its own ...                *)
Died(s) ==
    /\ clientEnd'[s] # "open" /\ (clientEnd'[s] = "none" <=> clientEnd[s] = "none")
    /\ toClient'[s] = <<>> /\ (clientEnd[s] = "none" => reset'[s] = reset[s])
    /\ serverEnd'[s] = serverEnd[s] /\ handler'[s] = handler[s] /\ sent'[s] = sent[s]
    /\ toServer'[s] = toServer[s] /\ got'[s] = got[s]

(* By the end of its sockets.                                              *)
LEMMA DieEffect ==
  ASSUME TypeOK, NEW p \in Clients, Die(p), NEW s \in Sessions, s[1] = p, Ends(s),
         UNCHANGED <<got, serverEnd, toServer, serverVars>>
  PROVE  Died(s)
  <1>1. clientEnd'[s] = IF clientEnd[s] = "open" THEN "closed" ELSE clientEnd[s]
    BY DEF Die
  <1>2. reset'[s] = (reset[s] \/ (clientEnd[s] = "open" /\ toClient[s] # <<>>))
    BY DEF Die
  <1>3. toClient'[s] = IF clientEnd[s] = "open" THEN <<>> ELSE toClient[s]
    BY DEF Die
  <1>4. clientEnd[s] # "open" => toClient[s] = <<>>
    BY DEF Ends
  <1>5. reset[s] \in BOOLEAN
    BY Types DEF StreamType
  <1>6. clientEnd[s] = "none" => reset'[s] = reset[s]
    BY <1>2, <1>5
  <1> QED
    BY <1>1, <1>3, <1>4, <1>6 DEF Died, serverVars

(* ... to those of the others ...                                          *)
LEMMA DieOthers ==
  ASSUME TypeOK, NEW p \in Clients, Die(p), NEW s \in Sessions, s[1] # p,
         status'[s] = status[s], UNCHANGED <<got, serverEnd, toServer, serverVars>>
  PROVE  SameStream(s)
  <1>1. clientEnd'[s] = clientEnd[s] /\ toClient'[s] = toClient[s]
    BY DEF Die
  <1>2. reset'[s] = reset[s]
    <2>1. reset'[s] = (reset[s] \/ FALSE) /\ reset[s] \in BOOLEAN
      BY Types DEF Die, StreamType
    <2> QED
      BY <2>1
  <1> QED
    BY <1>1, <1>2 DEF SameStream, serverVars

(* ... and to the types of all.                                            *)
LEMMA DieTypes ==
  ASSUME TypeOK, NEW p \in Clients, Die(p), UNCHANGED <<got, serverEnd, toServer, serverVars>>
  PROVE  /\ pc' \in [Clients -> {"open values", "ask", "read", "open bidi", "send",
                                 "recv", "waiting", "dead"}]
         /\ clientEnd' \in [Sessions -> {"none", "open", "closed"}]
         /\ reset' \in [Sessions -> BOOLEAN]
         /\ toClient' \in [Sessions -> Seq(Nat)]
  <1>1. pc' = [pc EXCEPT ![p] = "dead"]
    BY DEF Die, Goto
  <1>2. \A s \in Sessions : clientEnd[s] \in {"none", "open", "closed"} /\ toClient[s] \in Seq(Nat)
    BY DEF TypeOK
  <1>3. clientEnd' \in [Sessions -> {"none", "open", "closed"}]
    BY <1>2 DEF Die
  <1>4. toClient' \in [Sessions -> Seq(Nat)]
    BY <1>2, NoMessage DEF Die
  <1>5. reset' \in [Sessions -> BOOLEAN]
    BY DEF Die, TypeOK
  <1> QED
    BY <1>1, <1>3, <1>4, <1>5 DEF TypeOK

(* A client dies only of a fault.                                          *)
LEMMA DieKeeps ==
  ASSUME StreamInv, TypeOK', NEW p \in Clients, Die(p), faults' # 0,
         UNCHANGED <<round, got, serverEnd, toServer, serverVars, serverUp>>,
         \A s \in Sessions : s[1] # p => status'[s] = status[s]
  PROVE  StreamInv'
  <1>1. TypeOK /\ ValuesInv(p) /\ BidiInv(p)
    BY DEF StreamInv
  <1>2. Died(Values(p)) /\ Died(Bidi(p))
    <2>1. Ends(Values(p)) /\ Values(p) \in Sessions /\ Values(p)[1] = p
      BY <1>1, TwoStreams DEF ValuesInv
    <2>2. Ends(Bidi(p)) /\ Bidi(p) \in Sessions /\ Bidi(p)[1] = p
      BY <1>1, TwoStreams DEF BidiInv
    <2> QED
      BY <1>1, <2>1, <2>2, DieEffect
  <1>3. pc'[p] = "dead" /\ round'[p] = round[p]
    <2>1. pc' = [pc EXCEPT ![p] = "dead"]
      BY DEF Die, Goto
    <2>2. p \in DOMAIN pc
      BY <1>1 DEF TypeOK
    <2>3. round' = round
      OBVIOUS
    <2> QED
      BY <2>1, <2>2, <2>3
  <1>4. Domains /\ Domains' /\ Values(p) \in Sessions /\ Bidi(p) \in Sessions
    BY <1>1, DomainTypes, DomainTypesNext, TwoStreams
  <1>5. \A s \in Sessions : s # Values(p) /\ s # Bidi(p) => SameStream(s)
    BY <1>1, OneOfTwo, DieOthers
  <1>6. \A q \in Clients \ {p} : SamePlace(q)
    <2>1. pc' = [pc EXCEPT ![p] = "dead"]
      BY DEF Die, Goto
    <2>2. round' = round /\ pc \in [Clients -> {"open values", "ask", "read", "open bidi",
                                               "send", "recv", "waiting", "dead"}]
      BY <1>1 DEF TypeOK
    <2> QED
      BY <2>1, <2>2 DEF SamePlace
  <1>7. ValuesInv(p)'
    <2>1. Ends(Values(p))'
      BY <1>1, <1>2, <1>4 DEF ValuesInv, Died, Ends
    <2>2. ValuesPlace(p)'
      BY <1>1, <1>2, <1>3 DEF ValuesInv, Died, ValuesPlace
    <2>3. InOrder(Values(p))'
      <3>1. Ordered(toClient'[Values(p)], Len(got'[Values(p)]), sent'[Values(p)], handler'[Values(p)])
        BY <1>2, OrderedNone DEF Died
      <3> QED
        BY <1>1, <1>2, <3>1 DEF ValuesInv, Died, InOrder
    <2>4. Asking(p)' /\ ValuesCalm(p)'
      BY <1>3 DEF Asking, ValuesCalm
    <2> QED
      BY <2>1, <2>2, <2>3, <2>4 DEF ValuesInv
  <1>8. BidiInv(p)'
    <2>1. Ends(Bidi(p))'
      BY <1>1, <1>2, <1>4 DEF BidiInv, Died, Ends
    <2>2. BidiPlace(p)'
      BY <1>1, <1>2, <1>3 DEF BidiInv, Died, BidiPlace
    <2>3. Answers(p)'
      BY <1>1, <1>2, <1>3 DEF BidiInv, Died, Answers
    <2>4. Requests(p)'
      <3>1. Len(toClient'[Bidi(p)]) = 0 /\ toClient'[Bidi(p)] = <<>>
        BY <1>2, NoMessage DEF Died
      <3>2. handler[Bidi(p)] = "recv" =>
              Len(toServer'[Bidi(p)]) + Len(toClient'[Bidi(p)]) <= 1
        <4>1. Len(toServer[Bidi(p)]) \in Nat /\ Len(toClient[Bidi(p)]) \in Nat
          BY <1>1, <1>4, Types DEF StreamType, Messages
        <4>2. handler[Bidi(p)] = "recv" => Len(toServer[Bidi(p)]) + Len(toClient[Bidi(p)]) <= 1
          BY <1>1 DEF BidiInv, Requests
        <4>3. handler[Bidi(p)] = "recv" => Len(toServer[Bidi(p)]) + 0 <= 1
          BY <4>1, <4>2, NoMore
        <4>4. Len(toServer'[Bidi(p)]) = Len(toServer[Bidi(p)])
          BY <1>2 DEF Died
        <4> QED
          BY <3>1, <4>3, <4>4
      <3> QED
        BY <1>1, <1>2, <1>3, <3>1, <3>2 DEF BidiInv, Died, Requests
    <2>5. Counts(p)' /\ BidiCalm(p)'
      BY <1>3 DEF Counts, BidiCalm
    <2> QED
      BY <2>1, <2>2, <2>3, <2>4, <2>5 DEF BidiInv
  <1> QED
    BY <1>5, <1>6, <1>7, <1>8, ClientFrame DEF FaultsOnly

(* The request of the values stream fails.                                 *)
LEMMA AskFailKeeps ==
  ASSUME StreamInv, NEW p \in Clients, AskFail(p)
  PROVE  StreamInv'
  <1>1. TypeOK /\ Values(p) \in Sessions /\ Bidi(p) \in Sessions
    BY TwoStreams DEF StreamInv
  <1>2. Die(p) /\ UNCHANGED <<round, got, serverEnd, toServer, serverVars, serverUp>>
    BY DEF AskFail
  <1>3. TypeOK'
    <2>1. /\ pc' \in [Clients -> {"open values", "ask", "read", "open bidi", "send",
                                 "recv", "waiting", "dead"}]
          /\ clientEnd' \in [Sessions -> {"none", "open", "closed"}]
          /\ reset' \in [Sessions -> BOOLEAN]
          /\ toClient' \in [Sessions -> Seq(Nat)]
      BY <1>1, <1>2, DieTypes
    <2>2. status' \in [Sessions -> {"reading", "eof", "broken"}]
      BY <1>1 DEF TypeOK, AskFail, Current
    <2>3. UNCHANGED <<tries, round, got, serverEnd, toServer, handler, sent, serverUp, faults>>
      BY DEF AskFail, serverVars
    <2> QED
      BY <1>1, <2>1, <2>2, <2>3 DEF TypeOK
  <1>4. \A s \in Sessions : s[1] # p => status'[s] = status[s]
    <2>1. PICK t \in {Values(p), Bidi(p)} : status' = [status EXCEPT ![t] = "broken"]
      BY DEF AskFail, Current
    <2>2. t[1] = p
      BY TwoStreams
    <2> QED
      BY <1>1, <2>1, <2>2 DEF TypeOK
  <1>5. faults' # 0
    <2>1. ValuesInv(p)
      BY DEF StreamInv
    <2> SUFFICES ASSUME faults = 0 PROVE FALSE
      BY DEF AskFail
    <2>2. clientEnd[Values(p)] = "open" /\ ~(serverEnd[Values(p)] = "open" /\ ~reset[Values(p)])
      BY <2>1 DEF AskFail, Reaches, ValuesInv, ValuesPlace
    <2>3. handler[Values(p)] \in Running /\ ~reset[Values(p)]
      BY <2>1, <2>2 DEF AskFail, ValuesInv, ValuesCalm
    <2> QED
      BY <2>1, <2>2, <2>3 DEF ValuesInv, Ends
  <1> QED
    BY <1>2, <1>3, <1>4, <1>5, DieKeeps

(* A read of the client fails.                                             *)
LEMMA RecvFailKeeps ==
  ASSUME StreamInv, NEW p \in Clients, RecvFail(p)
  PROVE  StreamInv'
  <1>1. TypeOK /\ Values(p) \in Sessions /\ Bidi(p) \in Sessions
    BY TwoStreams DEF StreamInv
  <1>2. Die(p) /\ UNCHANGED <<round, got, serverEnd, toServer, serverVars, serverUp>>
    BY DEF RecvFail
  <1>3. TypeOK'
    <2>1. /\ pc' \in [Clients -> {"open values", "ask", "read", "open bidi", "send",
                                 "recv", "waiting", "dead"}]
          /\ clientEnd' \in [Sessions -> {"none", "open", "closed"}]
          /\ reset' \in [Sessions -> BOOLEAN]
          /\ toClient' \in [Sessions -> Seq(Nat)]
      BY <1>1, <1>2, DieTypes
    <2>2. status' \in [Sessions -> {"reading", "eof", "broken"}]
      BY <1>1 DEF TypeOK, RecvFail, Current
    <2>3. UNCHANGED <<tries, round, got, serverEnd, toServer, handler, sent, serverUp, faults>>
      BY DEF RecvFail, serverVars
    <2> QED
      BY <1>1, <2>1, <2>2, <2>3 DEF TypeOK
  <1>4. \A s \in Sessions : s[1] # p => status'[s] = status[s]
    <2>1. PICK t \in {Values(p), Bidi(p)} : status' = [status EXCEPT ![t] = "broken"]
      BY DEF RecvFail, Current
    <2>2. t[1] = p
      BY TwoStreams
    <2> QED
      BY <1>1, <2>1, <2>2 DEF TypeOK
  <1>5. faults' # 0
    <2>1. ValuesInv(p) /\ BidiInv(p)
      BY DEF StreamInv
    <2> SUFFICES ASSUME faults = 0 PROVE FALSE
      BY DEF RecvFail
    <2>2. CASE pc[p] = "read"
      <3>1. /\ toClient[Values(p)] = <<>>
            /\ ~(serverEnd[Values(p)] = "open" /\ ~reset[Values(p)])
        BY <2>2 DEF RecvFail, Reaches, Current
      <3>2. clientEnd[Values(p)] = "open"
        BY <2>1, <2>2 DEF ValuesInv, ValuesPlace
      <3>3. handler[Values(p)] \in Running /\ ~reset[Values(p)]
        BY <2>1, <3>1, <3>2 DEF ValuesInv, ValuesCalm
      <3> QED
        BY <2>1, <3>1, <3>3 DEF ValuesInv, Ends
    <2>3. CASE pc[p] = "recv"
      <3>1. ~(serverEnd[Bidi(p)] = "open" /\ ~reset[Bidi(p)])
        BY <2>3 DEF RecvFail, Reaches, Current
      <3>2. clientEnd[Bidi(p)] = "open"
        BY <2>1, <2>3 DEF BidiInv, BidiPlace
      <3>3. handler[Bidi(p)] \in Running /\ ~reset[Bidi(p)]
        BY <2>1, <3>2 DEF BidiInv, BidiCalm
      <3> QED
        BY <2>1, <3>1, <3>3 DEF BidiInv, Ends
    <2> QED
      BY <2>2, <2>3 DEF RecvFail
  <1> QED
    BY <1>2, <1>3, <1>4, <1>5, DieKeeps

(* A client is killed.                                                     *)
LEMMA KillClientKeeps ==
  ASSUME StreamInv, NEW p \in Clients, KillClient(p)
  PROVE  StreamInv'
  <1>1. TypeOK
    BY DEF StreamInv
  <1>2. Die(p) /\ UNCHANGED <<round, got, serverEnd, toServer, serverVars, serverUp>>
    BY DEF KillClient
  <1>3. faults' \in 0 .. MaxFaults /\ faults' # 0
    <2>1. faults \in Nat /\ faults' = faults + 1 /\ faults < MaxFaults
      BY <1>1, PlaceTypes DEF KillClient
    <2> QED
      BY <2>1, StreamAssumption
  <1>4. TypeOK'
    BY <1>1, <1>2, <1>3, DieTypes DEF TypeOK, KillClient, serverVars
  <1>5. \A s \in Sessions : s[1] # p => status'[s] = status[s]
    BY DEF KillClient
  <1> QED
    BY <1>2, <1>3, <1>4, <1>5, DieKeeps

(* An attempt to open a stream fails: tried again, or the client dies.     *)
LEMMA OpenFailKeeps ==
  ASSUME StreamInv, NEW p \in Clients, OpenFail(p)
  PROVE  StreamInv'
  <1>1. TypeOK /\ Values(p) \in Sessions /\ Bidi(p) \in Sessions
    BY TwoStreams DEF StreamInv
  <1>2. faults' \in 0 .. MaxFaults /\ faults' # 0
    <2>1. faults \in Nat
      BY <1>1, PlaceTypes
    <2>2. CASE serverUp
      <3>1. faults < MaxFaults /\ faults' = faults + 1
        BY <2>2 DEF OpenFail
      <3> QED
        BY <2>1, <3>1, StreamAssumption
    <2>3. CASE ~serverUp
      <3>1. faults' = faults
        BY <2>3 DEF OpenFail
      <3>2. faults # 0
        BY <2>3 DEF StreamInv, ValuesInv, ValuesCalm
      <3> QED
        BY <1>1, <3>1, <3>2 DEF TypeOK
    <2> QED
      BY <2>2, <2>3
  <1>0. \/ /\ MoreTries(p) /\ tries' = [tries EXCEPT ![p] = @ + 1]
           /\ UNCHANGED <<pc, status, clientEnd, reset, toClient>>
        \/ Die(p) /\ status' = [status EXCEPT ![Current(p)] = "broken"] /\ UNCHANGED tries
    BY DEF OpenFail
  <1>3. CASE /\ MoreTries(p) /\ tries' = [tries EXCEPT ![p] = @ + 1]
             /\ UNCHANGED <<pc, status, clientEnd, reset, toClient>>
    <2>1. tries' = [tries EXCEPT ![p] = @ + 1] /\ UNCHANGED <<pc, status, clientEnd, reset, toClient>>
      BY <1>3
    <2>2. tries[p] + 1 \in 0 .. Retries
      <3>1. tries[p] < Retries /\ tries[p] \in Nat
        BY <1>1, <1>3, PlaceTypes DEF MoreTries
      <3> QED
        BY <3>1, StreamAssumption
    <2>3. tries' \in [Clients -> 0 .. Retries]
      BY <1>1, <2>1, <2>2 DEF TypeOK
    <2>4. UNCHANGED <<round, got, serverEnd, toServer, serverVars, serverUp>>
      BY DEF OpenFail
    <2>5. TypeOK'
      BY <1>1, <1>2, <2>1, <2>3, <2>4 DEF TypeOK, serverVars
    <2>6. \A s \in Sessions : SameStream(s)
      BY <2>1, <2>4 DEF SameStream, serverVars
    <2>7. \A q \in Clients : SamePlace(q)
      BY <2>1, <2>4 DEF SamePlace
    <2>8. FaultsOnly
      BY <1>2 DEF FaultsOnly
    <2> QED
      BY <2>5, <2>6, <2>7, <2>8, AllFrame
  <1>4. CASE Die(p) /\ status' = [status EXCEPT ![Current(p)] = "broken"] /\ UNCHANGED tries
    <2>1. /\ Die(p) /\ status' = [status EXCEPT ![Current(p)] = "broken"] /\ UNCHANGED tries
          /\ UNCHANGED <<round, got, serverEnd, toServer, serverVars, serverUp>>
      BY <1>4 DEF OpenFail
    <2>2. Current(p) \in Sessions /\ Current(p)[1] = p
      BY TwoStreams DEF Current
    <2>3. TypeOK'
      BY <1>1, <1>2, <2>1, <2>2, DieTypes DEF TypeOK, serverVars
    <2>4. \A s \in Sessions : s[1] # p => status'[s] = status[s]
      BY <1>1, <2>1, <2>2 DEF TypeOK
    <2> QED
      BY <1>2, <2>1, <2>3, <2>4, DieKeeps
  <1> QED
    BY <1>0, <1>3, <1>4

-----------------------------------------------------------------------------
(* The server crashes: its connections close and their handlers are gone.  *)
LEMMA CrashServerKeeps ==
  ASSUME StreamInv, CrashServer
  PROVE  StreamInv'
  <1>1. TypeOK
    BY DEF StreamInv
  <1>2. faults' \in 0 .. MaxFaults /\ faults' # 0
    <2>1. faults \in Nat /\ faults' = faults + 1 /\ faults < MaxFaults
      BY <1>1, PlaceTypes DEF CrashServer
    <2> QED
      BY <2>1, StreamAssumption
  <1>3. TypeOK'
    BY <1>1, <1>2 DEF TypeOK, CrashServer, clientVars
  <1>4. \A p \in Clients : SamePlace(p)
    BY DEF SamePlace, CrashServer, clientVars
  <1>5. ASSUME NEW s \in Sessions, Ends(s)
        PROVE  /\ clientEnd'[s] = clientEnd[s] /\ reset'[s] = reset[s] /\ sent'[s] = sent[s]
               /\ toServer'[s] = toServer[s] /\ toClient'[s] = toClient[s]
               /\ got'[s] = got[s] /\ status'[s] = status[s]
               /\ handler'[s] \notin Running /\ serverEnd'[s] # "open"
               /\ handler'[s] \in {handler[s], "killed"}
               /\ clientEnd[s] = "none" => handler'[s] = handler[s] /\ serverEnd'[s] = serverEnd[s]
               /\ handler[s] \notin Running => handler'[s] = handler[s]
    BY <1>5 DEF CrashServer, clientVars, Ends, Running
  <1>6. ASSUME NEW p \in Clients PROVE ValuesInv(p)'
    <2> DEFINE s == Values(p)
    <2>1. ValuesInv(p) /\ s \in Sessions /\ SamePlace(p)
      BY <1>4, TwoStreams DEF StreamInv
    <2>2. /\ clientEnd'[s] = clientEnd[s] /\ reset'[s] = reset[s] /\ sent'[s] = sent[s]
          /\ toServer'[s] = toServer[s] /\ toClient'[s] = toClient[s]
          /\ got'[s] = got[s] /\ status'[s] = status[s]
          /\ handler'[s] \notin Running /\ serverEnd'[s] # "open"
          /\ handler'[s] \in {handler[s], "killed"}
          /\ clientEnd[s] = "none" => handler'[s] = handler[s] /\ serverEnd'[s] = serverEnd[s]
          /\ handler[s] \notin Running => handler'[s] = handler[s]
      BY <1>5, <2>1 DEF ValuesInv
    <2>3. Ends(Values(p))'
      BY <2>1, <2>2 DEF ValuesInv, Ends
    <2>4. ValuesPlace(p)' /\ Asking(p)'
      BY <2>1, <2>2 DEF ValuesInv, ValuesPlace, Asking, SamePlace, Running
    <2>5. Ordered(toClient'[s], Len(got'[s]), sent'[s], handler'[s])
      <3>1. Ordered(toClient[s], Len(got[s]), sent[s], handler[s])
        BY <2>1 DEF ValuesInv, InOrder
      <3>2. CASE handler[s] = "done"
        BY <2>2, <3>1, <3>2 DEF Running
      <3>3. CASE handler[s] # "done"
        <4>1. Messages(toClient[s]) /\ Messages(got[s]) /\ sent[s] \in Nat
          BY <1>1, <2>1, Types DEF StreamType
        <4>2. Ordered(toClient[s], Len(got[s]), sent[s], handler'[s])
          BY <3>1, <3>3, <4>1, OrderedLonger DEF Messages
        <4> QED
          BY <2>2, <4>2
      <3> QED
        BY <3>2, <3>3
    <2>6. InOrder(Values(p))'
      BY <2>1, <2>2, <2>5 DEF ValuesInv, InOrder, Running
    <2> QED
      BY <1>2, <2>3, <2>4, <2>6 DEF ValuesInv, ValuesCalm
  <1>7. ASSUME NEW p \in Clients PROVE BidiInv(p)'
    <2> DEFINE s == Bidi(p)
    <2>1. BidiInv(p) /\ s \in Sessions /\ SamePlace(p)
      BY <1>4, TwoStreams DEF StreamInv
    <2>2. /\ clientEnd'[s] = clientEnd[s] /\ reset'[s] = reset[s] /\ sent'[s] = sent[s]
          /\ toServer'[s] = toServer[s] /\ toClient'[s] = toClient[s]
          /\ got'[s] = got[s] /\ status'[s] = status[s]
          /\ handler'[s] \notin Running /\ serverEnd'[s] # "open"
          /\ handler'[s] \in {handler[s], "killed"}
          /\ clientEnd[s] = "none" => handler'[s] = handler[s] /\ serverEnd'[s] = serverEnd[s]
          /\ handler[s] \notin Running => handler'[s] = handler[s]
      BY <1>5, <2>1 DEF BidiInv
    <2>3. Ends(Bidi(p))'
      BY <2>1, <2>2 DEF BidiInv, Ends
    <2>4. BidiPlace(p)' /\ Answers(p)'
      BY <2>1, <2>2 DEF BidiInv, BidiPlace, Answers, SamePlace
    <2>5. Requests(p)' /\ Counts(p)'
      BY <2>2 DEF Requests, Counts, Running
    <2> QED
      BY <1>2, <2>3, <2>4, <2>5 DEF BidiInv, BidiCalm
  <1> QED
    BY <1>3, <1>6, <1>7 DEF StreamInv

(* And it is started again.                                                *)
LEMMA RestartServerKeeps ==
  ASSUME StreamInv, RestartServer
  PROVE  StreamInv'
  <1>1. TypeOK'
    BY DEF StreamInv, TypeOK, RestartServer, clientVars, wireVars, serverVars
  <1>2. /\ \A s \in Sessions : SameStream(s)
        /\ \A p \in Clients : SamePlace(p)
        /\ FaultsOnly
    BY
       DEF RestartServer, clientVars, wireVars, serverVars, SameStream, SamePlace,
           FaultsOnly
  <1> QED
    BY <1>1, <1>2, AllFrame

-----------------------------------------------------------------------------
(* Every step keeps the invariant.                                         *)
LEMMA NextInv == StreamInv /\ [Next]_vars => StreamInv'
  <1> SUFFICES ASSUME StreamInv, [Next]_vars PROVE StreamInv'
    OBVIOUS
  <1>1. ASSUME NEW p \in Clients, Open(p) PROVE StreamInv'
    BY <1>1, OpenValuesKeeps, OpenBidiKeeps
  <1>2. ASSUME NEW p \in Clients, OpenFail(p) PROVE StreamInv'
    BY <1>2, OpenFailKeeps
  <1>3. ASSUME NEW p \in Clients, Ask(p) PROVE StreamInv'
    BY <1>3, AskKeeps
  <1>4. ASSUME NEW p \in Clients, AskFail(p) PROVE StreamInv'
    BY <1>4, AskFailKeeps
  <1>5. ASSUME NEW p \in Clients, ReadValue(p) PROVE StreamInv'
    BY <1>5, ReadValueKeeps
  <1>6. ASSUME NEW p \in Clients, ReadEof(p) PROVE StreamInv'
    BY <1>6, ReadEofKeeps
  <1>7. ASSUME NEW p \in Clients, Send(p) PROVE StreamInv'
    BY <1>7, SendKeeps
  <1>8. ASSUME NEW p \in Clients, RecvRound(p) PROVE StreamInv'
    BY <1>8, RecvRoundKeeps
  <1>9. ASSUME NEW p \in Clients, Finish(p) PROVE StreamInv'
    BY <1>9, FinishKeeps
  <1>10. ASSUME NEW p \in Clients, RecvFail(p) PROVE StreamInv'
    BY <1>10, RecvFailKeeps
  <1>11. ASSUME NEW p \in Clients, KillClient(p) PROVE StreamInv'
    BY <1>11, KillClientKeeps
  <1>12. ASSUME NEW s \in Sessions, Accept(s) \/ ReadRequest(s) \/ ReadFail(s) PROVE StreamInv'
    BY <1>12, AcceptKeeps, ReadRequestKeeps, ReadFailKeeps
  <1>13. ASSUME NEW s \in Sessions, SendValue(s) \/ SendEos(s) PROVE StreamInv'
    BY <1>13, SendValueKeeps, SendEosKeeps
  <1>14. ASSUME NEW s \in Sessions, RecvRequest(s) \/ Reply(s) PROVE StreamInv'
    BY <1>14, RecvRequestKeeps, ReplyKeeps
  <1>15. ASSUME NEW s \in Sessions, RecvEof(s) \/ RecvPanic(s) \/ Cut(s) PROVE StreamInv'
    BY <1>15, RecvEofKeeps, RecvPanicKeeps, CutKeeps
  <1>16. CASE CrashServer \/ RestartServer
    BY <1>16, CrashServerKeeps, RestartServerKeeps
  <1>17. CASE UNCHANGED vars
    <2>1. TypeOK'
      BY <1>17 DEF StreamInv, TypeOK, vars, clientVars, wireVars, serverVars
    <2>2. /\ \A s \in Sessions : SameStream(s)
          /\ \A p \in Clients : SamePlace(p)
          /\ FaultsOnly
      BY <1>17
         DEF vars, clientVars, wireVars, serverVars, SameStream, SamePlace, FaultsOnly
    <2> QED
      BY <2>1, <2>2, AllFrame
  <1> QED
    BY <1>1, <1>2, <1>3, <1>4, <1>5, <1>6, <1>7, <1>8, <1>9, <1>10, <1>11, <1>12, <1>13,
       <1>14, <1>15, <1>16, <1>17 DEF Next, ClientStep, ServerStep

(* It holds of every behaviour.                                            *)
LEMMA StreamsHold == Spec => []StreamInv
  BY InitInv, NextInv, PTL DEF Spec

(* Every variable keeps its type, and no client has more failed attempts   *)
(* than its retries allow.                                                 *)
THEOREM StreamTypes == Spec => []TypeOK
  BY StreamsHold, PTL DEF StreamInv

(* The two sides of the second stream stay in step.                        *)
THEOREM StreamInStep == Spec => []InStep
  <1>1. ASSUME StreamInv PROVE InStep
    <2> SUFFICES ASSUME NEW p \in Clients
                 PROVE  /\ got[Bidi(p)] = [i \in 1 .. round[p] |-> i]
                        /\ handler[Bidi(p)] \in {"recv", "reply"} =>
                              Len(toServer[Bidi(p)]) + Len(toClient[Bidi(p)]) <= 1
                        /\ pc[p] = "send" /\ serverEnd[Bidi(p)] = "open" => sent[Bidi(p)] = round[p]
      BY DEF InStep
    <2>1. BidiInv(p)
      BY <1>1 DEF StreamInv
    <2>2. got[Bidi(p)] = [i \in 1 .. round[p] |-> i]
      BY <2>1 DEF BidiInv, Answers, Counted
    <2>3. pc[p] = "send" /\ serverEnd[Bidi(p)] = "open" => sent[Bidi(p)] = round[p]
      BY <2>1 DEF BidiInv, Ends, Counts
    <2>4. handler[Bidi(p)] \in {"recv", "reply"} =>
            Len(toServer[Bidi(p)]) + Len(toClient[Bidi(p)]) <= 1
      <3>1. CASE handler[Bidi(p)] = "reply"
        <4>1. Len(toServer[Bidi(p)]) = 0 /\ Len(toClient[Bidi(p)]) = 0
          BY <2>1, <3>1, NoMessage DEF BidiInv, Requests
        <4> QED
          BY <4>1
      <3>2. CASE handler[Bidi(p)] = "recv"
        BY <2>1, <3>2 DEF BidiInv, Requests
      <3> QED
        BY <3>1, <3>2
    <2> QED
      BY <2>2, <2>3, <2>4
  <1> QED
    BY <1>1, StreamsHold, PTL

(* Without a fault no client and no handler panics.                        *)
THEOREM StreamHarmless == Spec => []NoHarm
  <1>1. ASSUME StreamInv PROVE NoHarm
    <2> SUFFICES ASSUME faults = 0
                 PROVE  /\ \A p \in Clients : pc[p] # "dead"
                        /\ \A s \in Sessions : handler[s] # "panicked"
      BY DEF NoHarm
    <2>1. \A p \in Clients : pc[p] # "dead"
      BY <1>1 DEF StreamInv, ValuesInv, ValuesCalm
    <2>2. ASSUME NEW s \in Sessions PROVE handler[s] # "panicked"
      <3>1. PICK p \in Clients : s = Values(p) \/ s = Bidi(p)
        BY OneOfTwo
      <3>2. ValuesInv(p) /\ BidiInv(p)
        BY <1>1 DEF StreamInv
      <3>3. handler[Values(p)] # "panicked"
        BY <3>2 DEF ValuesInv, ValuesPlace
      <3>4. handler[Bidi(p)] # "panicked"
        BY <3>2 DEF BidiInv, BidiCalm
      <3> QED
        BY <3>1, <3>3, <3>4
    <2> QED
      BY <2>1, <2>2
  <1> QED
    BY <1>1, StreamsHold, PTL

-----------------------------------------------------------------------------
(* A client goes on with its second stream until it is idle.               *)
Reading(p) == status[Bidi(p)] = "reading" \/ Idle(p)

(* So it is after every step.                                              *)
LEMMA NextReading ==
  ASSUME StreamInv, \A p \in Clients : Reading(p), [Next]_vars
  PROVE  \A p \in Clients : Reading(p)'
  <1>1. DOMAIN pc = Clients /\ DOMAIN status = Sessions
    BY DEF StreamInv, TypeOK
  <1>2. ASSUME UNCHANGED <<pc, status>> PROVE \A p \in Clients : Reading(p)'
    BY <1>2 DEF Reading, Idle
  <1>3. ASSUME NEW p \in Clients, NEW l, Goto(p, l), ~Idle(p), UNCHANGED status
        PROVE  \A q \in Clients : Reading(q)'
    BY <1>1, <1>3 DEF Reading, Idle, Goto
  <1>4. ASSUME NEW p \in Clients, NEW l \in {"dead", "waiting"}, Goto(p, l),
               \A s \in Sessions : s # Values(p) /\ s # Bidi(p) => status'[s] = status[s]
        PROVE  \A q \in Clients : Reading(q)'
    <2> SUFFICES ASSUME NEW q \in Clients PROVE Reading(q)'
      OBVIOUS
    <2>1. CASE q = p
      BY <1>1, <1>4, <2>1 DEF Reading, Idle, Goto
    <2>2. CASE q # p
      BY <1>1, <1>4, <2>2, Apart, TwoStreams DEF Reading, Idle, Goto
    <2> QED
      BY <2>1, <2>2
  <1>5. ASSUME NEW p \in Clients, ReadEof(p) PROVE \A q \in Clients : Reading(q)'
    <2> SUFFICES ASSUME NEW q \in Clients PROVE Reading(q)'
      OBVIOUS
    <2>1. status'[Bidi(q)] = status[Bidi(q)]
      BY <1>1, <1>5, Apart, TwoStreams DEF ReadEof
    <2> QED
      BY <1>1, <1>5, <2>1 DEF Reading, Idle, ReadEof, Goto
  <1>6. ASSUME NEW p \in Clients, Open(p) \/ Ask(p) \/ Send(p) \/ RecvRound(p)
        PROVE  \E l : Goto(p, l) /\ ~Idle(p) /\ UNCHANGED status
    BY <1>6 DEF Open, Ask, Send, RecvRound, Idle
  <1>7. ASSUME NEW p \in Clients, ReadValue(p) PROVE UNCHANGED <<pc, status>>
    BY <1>7 DEF ReadValue
  <1>8. ASSUME NEW p \in Clients, Finish(p)
        PROVE  /\ Goto(p, "waiting")
               /\ \A s \in Sessions : s # Values(p) /\ s # Bidi(p) => status'[s] = status[s]
    BY <1>1, <1>8 DEF Finish
  <1>9. ASSUME NEW p \in Clients, AskFail(p) \/ RecvFail(p) \/ KillClient(p)
        PROVE  /\ Goto(p, "dead")
               /\ \A s \in Sessions : s # Values(p) /\ s # Bidi(p) => status'[s] = status[s]
    BY <1>1, <1>9 DEF AskFail, RecvFail, KillClient, Die, Current
  <1>10. ASSUME NEW p \in Clients, OpenFail(p)
         PROVE  \/ UNCHANGED <<pc, status>>
                \/ /\ Goto(p, "dead")
                   /\ \A s \in Sessions : s # Values(p) /\ s # Bidi(p) => status'[s] = status[s]
    BY <1>1, <1>10 DEF OpenFail, Die, Current
  <1>11. ASSUME NEW s \in Sessions, ServerStep(s) \/ Cut(s) PROVE UNCHANGED <<pc, status>>
    BY <1>11
       DEF ServerStep, Accept, ReadRequest, ReadFail, SendValue, SendEos, RecvRequest,
                Reply, RecvEof, RecvPanic, Cut, serverFrame, clientVars
  <1>12. ASSUME CrashServer \/ RestartServer \/ UNCHANGED vars PROVE UNCHANGED <<pc, status>>
    BY <1>12 DEF CrashServer, RestartServer, vars, clientVars
  <1>13. ASSUME NEW p \in Clients, ClientStep(p) \/ KillClient(p)
         PROVE  \A q \in Clients : Reading(q)'
    <2>1. CASE Open(p) \/ Ask(p) \/ Send(p) \/ RecvRound(p)
      BY <1>3, <1>6, <2>1
    <2>2. CASE ReadValue(p)
      BY <1>2, <1>7, <2>2
    <2>3. CASE Finish(p)
      BY <1>4, <1>8, <2>3
    <2>4. CASE AskFail(p) \/ RecvFail(p) \/ KillClient(p)
      BY <1>4, <1>9, <2>4
    <2>5. CASE OpenFail(p)
      BY <1>2, <1>4, <1>10, <2>5
    <2>6. CASE ReadEof(p)
      BY <1>5, <2>6
    <2> QED
      BY <1>13, <2>1, <2>2, <2>3, <2>4, <2>5, <2>6 DEF ClientStep
  <1> QED
    BY <1>2, <1>11, <1>12, <1>13 DEF Next

-----------------------------------------------------------------------------
(* The promise of a stream is kept by a step that leaves what the client   *)
(* has of it alone ...                                                     *)
Kept(s) == [Promise(s)!Next]_<<got[s], status[s]>>

(* The promise is kept where nothing is seen of the step.                  *)
LEMMA KeptAside ==
  ASSUME NEW s \in Sessions, got'[s] = got[s], status'[s] = status[s]
  PROVE  Kept(s)
  BY DEF Kept

(* A step about one stream keeps the others'.                              *)
LEMMA KeptElsewhere ==
  ASSUME NEW s \in Sessions, Kept(s),
         \A t \in Sessions : t # s => got'[t] = got[t] /\ status'[t] = status[t]
  PROVE  \A t \in Sessions : Kept(t)
  <1>1. ASSUME NEW t \in Sessions, t # s PROVE Kept(t)
    BY <1>1, KeptAside
  <1> QED
    BY <1>1

(* ... by one that ends it with an error ...                               *)
LEMMA KeptBroken ==
  ASSUME TypeOK, NEW s \in Sessions, UNCHANGED got, status[s] = "reading",
         status' = [status EXCEPT ![s] = "broken"]
  PROVE  \A t \in Sessions : Kept(t)
  <1>1. status'[s] = "broken" /\ \A t \in Sessions : t # s => status'[t] = status[t]
    BY DEF TypeOK
  <1>2. Promise(s)!Break
    BY <1>1 DEF Promise!Break
  <1>3. Kept(s)
    BY <1>2 DEF Kept, Promise!Next
  <1> QED
    BY <1>1, <1>3, KeptElsewhere

(* ... by one that ends it when all that is due has come ...               *)
LEMMA KeptByEnd ==
  ASSUME TypeOK, NEW s \in Sessions, UNCHANGED got, status[s] = "reading",
         Len(got[s]) = Due(s), status' = [status EXCEPT ![s] = "eof"]
  PROVE  \A t \in Sessions : Kept(t)
  <1>1. status'[s] = "eof" /\ \A t \in Sessions : t # s => status'[t] = status[t]
    BY DEF TypeOK
  <1>2. Promise(s)!End
    BY <1>1 DEF Promise!End
  <1>3. Kept(s)
    BY <1>2 DEF Kept, Promise!Next
  <1> QED
    BY <1>1, <1>3, KeptElsewhere

(* ... and by one that delivers the next value.                            *)
LEMMA KeptByValue ==
  ASSUME NEW s \in Sessions, UNCHANGED status, status[s] = "reading",
         Len(got[s]) < Due(s), got'[s] = Append(got[s], Len(got[s]) + 1),
         \A t \in Sessions : t # s => got'[t] = got[t]
  PROVE  \A t \in Sessions : Kept(t)
  <1>1. Promise(s)!Deliver
    BY DEF Promise!Deliver
  <1>2. Kept(s)
    BY <1>1 DEF Kept, Promise!Next
  <1> QED
    BY <1>2, KeptElsewhere

(* A value read is the next.                                               *)
LEMMA ReadValueKept ==
  ASSUME StreamInv, NEW p \in Clients, ReadValue(p)
  PROVE  \A t \in Sessions : Kept(t)
  <1> DEFINE s == Values(p)
  <1>1. TypeOK /\ s \in Sessions /\ s[2] = "values" /\ ValuesInv(p)
    BY TwoStreams DEF StreamInv
  <1>2. /\ pc[p] = "read" /\ Receive(s) /\ status' = status
    BY DEF ReadValue
  <1>3. /\ \A t \in Sessions : t # s => got'[t] = got[t]
        /\ toClient[s][1] # EOS /\ Less(toClient'[s], toClient[s])
        /\ got'[s] = Append(got[s], toClient[s][1])
    BY <1>1, <1>2, ReceiveEffect
  <1>4. StreamType(s) /\ Domains
    BY <1>1, Types, DomainTypes
  <1>5. status[s] = "reading"
    BY <1>1, <1>2 DEF ValuesInv, ValuesPlace
  <1>6. Ordered(toClient[s], Len(got[s]), sent[s], handler[s]) /\ sent[s] <= Count
    BY <1>1 DEF ValuesInv, InOrder
  <1>7. Len(got[s]) \in Nat /\ sent[s] \in Nat /\ Messages(toClient[s])
    BY <1>4 DEF StreamType, Messages
  <1>8. toClient[s][1] = Len(got[s]) + 1 /\ Len(got[s]) + 1 <= sent[s]
    BY <1>3, <1>6, <1>7, OrderedLess
  <1>9. Len(got[s]) < Due(s)
    BY <1>1, <1>6, <1>7, <1>8, StreamAssumption DEF Due
  <1>10. got'[s] = Append(got[s], Len(got[s]) + 1)
    BY <1>3, <1>8
  <1> QED
    BY <1>1, <1>2, <1>3, <1>5, <1>9, <1>10, KeptByValue

(* The end is read after the last value.                                   *)
LEMMA ReadEofKept ==
  ASSUME StreamInv, NEW p \in Clients, ReadEof(p)
  PROVE  \A t \in Sessions : Kept(t)
  <1> DEFINE s == Values(p)
  <1>1. TypeOK /\ s \in Sessions /\ s[2] = "values" /\ ValuesInv(p)
    BY TwoStreams DEF StreamInv
  <1>2. /\ pc[p] = "read" /\ toClient[s] # <<>> /\ Head(toClient[s]) = EOS
        /\ got' = got /\ status' = [status EXCEPT ![s] = "eof"]
    BY DEF ReadEof
  <1>3. StreamType(s)
    BY <1>1, Types
  <1>4. status[s] = "reading"
    BY <1>1, <1>2 DEF ValuesInv, ValuesPlace
  <1>5. Ordered(toClient[s], Len(got[s]), sent[s], handler[s])
    BY <1>1 DEF ValuesInv, InOrder
  <1>6. toClient[s] \in Seq(Nat) /\ Len(got[s]) \in Nat
    BY <1>3 DEF StreamType, Messages
  <1>7. Less(Tail(toClient[s]), toClient[s]) /\ toClient[s][1] = EOS
    BY <1>2, <1>6, TailIsLess
  <1>8. Len(got[s]) = Count
    <2>1. 1 \in 1 .. Len(toClient[s])
      BY <1>7 DEF Less, Messages
    <2>2. \/ toClient[s][1] = Len(got[s]) + 1
          \/ Len(got[s]) + 1 = Count + 1
      BY <1>5, <2>1 DEF Ordered
    <2> QED
      BY <1>6, <1>7, <2>2, StreamAssumption DEF EOS
  <1>9. Len(got[s]) = Due(s)
    BY <1>1, <1>8 DEF Due
  <1> QED
    BY <1>1, <1>2, <1>4, <1>9, KeptByEnd

(* As many answers as rounds.                                              *)
LEMMA AnswersCounted ==
  ASSUME StreamInv, NEW p \in Clients
  PROVE  round[p] \in Nat /\ round[p] <= Rounds /\ Len(got[Bidi(p)]) = round[p]
  <1>1. round[p] \in 0 .. Rounds
    BY DEF StreamInv, TypeOK
  <1>2. round[p] \in Nat /\ round[p] <= Rounds
    BY <1>1, StreamAssumption
  <1>3. got[Bidi(p)] = [i \in 1 .. round[p] |-> i]
    BY DEF StreamInv, BidiInv, Answers, Counted
  <1> QED
    BY <1>2, <1>3

(* The answer of a round is the next.                                      *)
LEMMA RecvRoundKept ==
  ASSUME StreamInv, NEW p \in Clients, Reading(p), RecvRound(p)
  PROVE  \A t \in Sessions : Kept(t)
  <1> DEFINE s == Bidi(p)
  <1>1. TypeOK /\ s \in Sessions /\ s[2] = "bidi" /\ BidiInv(p)
    BY TwoStreams DEF StreamInv
  <1>2. pc[p] = "recv" /\ Receive(s) /\ status' = status
    BY DEF RecvRound
  <1>3. /\ \A t \in Sessions : t # s => got'[t] = got[t]
        /\ Less(toClient'[s], toClient[s])
        /\ got'[s] = Append(got[s], toClient[s][1])
    BY <1>1, <1>2, ReceiveEffect
  <1>4. status[s] = "reading"
    BY <1>2 DEF Reading, Idle
  <1>5. toClient[s][1] = round[p] + 1 /\ round[p] < Rounds
    BY <1>1, <1>2 DEF BidiInv, Answers, Receive
  <1>6. Len(got[s]) < Due(s) /\ got'[s] = Append(got[s], Len(got[s]) + 1)
    BY <1>1, <1>3, <1>5, AnswersCounted DEF Due
  <1> QED
    BY <1>1, <1>2, <1>3, <1>4, <1>6, KeptByValue

(* A client leaves its second stream after the last round, or broken.      *)
LEMMA FinishKept ==
  ASSUME StreamInv, NEW p \in Clients, Reading(p), Finish(p)
  PROVE  \A t \in Sessions : Kept(t)
  <1> DEFINE s == Bidi(p)
  <1>1. TypeOK /\ s \in Sessions /\ s[2] = "bidi"
    BY TwoStreams DEF StreamInv
  <1>2. /\ pc[p] = "send" /\ got' = got
        /\ status' = [status EXCEPT ![s] = IF round[p] = Rounds THEN "eof" ELSE "broken"]
    BY DEF Finish
  <1>3. status[s] = "reading"
    BY <1>2 DEF Reading, Idle
  <1>4. CASE round[p] = Rounds
    <2>1. Len(got[s]) = Due(s) /\ status' = [status EXCEPT ![s] = "eof"]
      BY <1>1, <1>2, <1>4, AnswersCounted DEF Due
    <2> QED
      BY <1>1, <1>2, <1>3, <2>1, KeptByEnd
  <1>5. CASE round[p] # Rounds
    <2>1. status' = [status EXCEPT ![s] = "broken"]
      BY <1>2, <1>5
    <2> QED
      BY <1>1, <1>2, <1>3, <2>1, KeptBroken
  <1> QED
    BY <1>4, <1>5

(* A failure breaks the stream the client is at.                           *)
LEMMA FailureKept ==
  ASSUME StreamInv, NEW p \in Clients, Reading(p), OpenFail(p) \/ AskFail(p) \/ RecvFail(p)
  PROVE  \A t \in Sessions : Kept(t)
  <1>1. UNCHANGED got /\ TypeOK /\ Values(p) \in Sessions /\ Bidi(p) \in Sessions
    BY TwoStreams DEF OpenFail, AskFail, RecvFail, StreamInv
  <1>2. CASE UNCHANGED status
    BY <1>1, <1>2, KeptAside
  <1>3. CASE /\ pc[p] \in {"open values", "ask", "read"}
             /\ status' = [status EXCEPT ![Values(p)] = "broken"]
    <2>1. status[Values(p)] = "reading"
      BY <1>3 DEF StreamInv, ValuesInv, ValuesPlace
    <2> QED
      BY <1>1, <1>3, <2>1, KeptBroken
  <1>4. CASE /\ pc[p] \in {"open bidi", "recv"}
             /\ status' = [status EXCEPT ![Bidi(p)] = "broken"]
    <2>1. status[Bidi(p)] = "reading"
      BY <1>4 DEF Reading, Idle
    <2> QED
      BY <1>1, <1>4, <2>1, KeptBroken
  <1>5. \/ UNCHANGED status
        \/ pc[p] = "ask" /\ status' = [status EXCEPT ![Values(p)] = "broken"]
        \/ /\ pc[p] \in {"open values", "open bidi", "read", "recv"}
           /\ status' = [status EXCEPT ![Current(p)] = "broken"]
    BY DEF OpenFail, AskFail, RecvFail
  <1> QED
    BY <1>2, <1>3, <1>4, <1>5 DEF Current

(* Every step of the system keeps the promise of every stream.             *)
LEMMA StepKept ==
  ASSUME StreamInv, \A p \in Clients : Reading(p), [Next]_vars
  PROVE  \A t \in Sessions : Kept(t)
  <1>1. ASSUME NEW p \in Clients,
               \/ ReadValue(p) \/ ReadEof(p) \/ RecvRound(p) \/ Finish(p)
               \/ OpenFail(p) \/ AskFail(p) \/ RecvFail(p)
        PROVE  \A t \in Sessions : Kept(t)
    BY <1>1, ReadValueKept, ReadEofKept, RecvRoundKept, FinishKept, FailureKept
  <1>2. ASSUME UNCHANGED <<got, status>> PROVE \A t \in Sessions : Kept(t)
    BY <1>2, KeptAside
  <1>3. ASSUME NEW p \in Clients, Open(p) \/ Ask(p) \/ Send(p) \/ KillClient(p)
        PROVE  UNCHANGED <<got, status>>
    BY <1>3 DEF Open, Ask, Send, KillClient
  <1>4. ASSUME NEW s \in Sessions, ServerStep(s) \/ Cut(s) PROVE UNCHANGED <<got, status>>
    BY <1>4
       DEF ServerStep, Accept, ReadRequest, ReadFail, SendValue, SendEos, RecvRequest,
                Reply, RecvEof, RecvPanic, Cut, serverFrame, clientVars
  <1>5. ASSUME CrashServer \/ RestartServer \/ UNCHANGED vars PROVE UNCHANGED <<got, status>>
    BY <1>5 DEF CrashServer, RestartServer, vars, clientVars
  <1> QED
    BY <1>1, <1>2, <1>3, <1>4, <1>5 DEF Next, ClientStep

(* Each stream, as its client sees it, is a StreamPromise: a step of the   *)
(* system is, for every stream, a step of the promise or leaves it alone.  *)
THEOREM StreamImplementsPromise == Spec => StreamKept
  <1>1. ASSUME Init PROVE \A s \in Sessions : Promise(s)!Init
    BY <1>1 DEF Init, Promise!Init
  <1>2. ASSUME StreamInv, \A p \in Clients : Reading(p), [Next]_vars
        PROVE  [\A s \in Sessions : [Promise(s)!Next]_<<got[s], status[s]>>]_<<got, status>>
    BY <1>2, StepKept DEF Kept
  <1> DEFINE AllReading == \A p \in Clients : Reading(p)
  <1>3. ASSUME Init PROVE AllReading
    BY <1>3, TwoStreams DEF Init, Reading
  <1>4. ASSUME StreamInv, AllReading, [Next]_vars PROVE AllReading'
    BY <1>4, NextReading
  <1>5. ASSUME StreamInv, AllReading, [Next]_vars
        PROVE  [\A s \in Sessions : [Promise(s)!Next]_<<got[s], status[s]>>]_<<got, status>>
    BY <1>2, <1>5
  <1> HIDE DEF AllReading
  <1> QED
    BY <1>1, <1>3, <1>4, <1>5, StreamsHold, PTL DEF Spec, StreamKept

-----------------------------------------------------------------------------
(* While client and server both have a stream, a side that waits has its   *)
(* message on the way, or the other side has its turn: they never wait for *)
(* each other, whatever has been sent, answered, lost or left.             *)
Coming(s) ==
    \/ toClient[s] # <<>> \/ ~Reaches(s)
    \/ handler[s] \in {"stream", "reply"}
    \/ handler[s] \in {"accepted", "request", "recv"} /\ Arrived(s)

Asked(s) == LET p == s[1] IN
    \/ Arrived(s) \/ Eof(s) \/ Broken(s)
    \/ s = Current(p) /\ (pc[p] \in {"ask", "send"} \/ toClient[s] # <<>>)

NoStandstill ==
    /\ \A p \in Clients : pc[p] \in {"read", "recv"} => Coming(Current(p))
    /\ \A s \in Sessions : handler[s] \in {"accepted", "request", "recv"} => Asked(s)

(* What is on its way between the two sides of a stream that both have:    *)
(* the opening request and the one that asks, each until it is read, and   *)
(* one request or one answer of a round.                                   *)
Linked(s) == clientEnd[s] = "open" /\ Reaches(s)

ValuesFlow(p) == LET s == Values(p) IN Linked(s) =>
    /\ handler[s] = "accepted" => Len(toServer[s]) = IF pc[p] = "ask" THEN 1 ELSE 2
    /\ handler[s] = "request" => Len(toServer[s]) = IF pc[p] = "ask" THEN 0 ELSE 1

BidiFlow(p) == LET s == Bidi(p) IN Linked(s) =>
    /\ handler[s] = "accepted" => Len(toServer[s]) = IF pc[p] = "send" THEN 1 ELSE 2
    /\ handler[s] = "recv" /\ pc[p] = "recv" => Len(toServer[s]) + Len(toClient[s]) = 1

Flow == \A p \in Clients : ValuesFlow(p) /\ BidiFlow(p)

(* A stream that a step leaves as it is, but for answers on their way.     *)
Steady(s) ==
    Linked(s)' =>
        /\ Linked(s)
        /\ pc'[s[1]] = pc[s[1]]
        /\ handler'[s] \in {"accepted", "request", "recv"} =>
              handler'[s] = handler[s] /\ toServer'[s] = toServer[s]
        /\ handler'[s] = "recv" => toClient'[s] = toClient[s]

(* Its flow goes on.                                                       *)
LEMMA SteadyValues ==
  ASSUME NEW p \in Clients, ValuesFlow(p), Steady(Values(p))
  PROVE  ValuesFlow(p)'
  BY TwoStreams DEF ValuesFlow, Steady

(* And that of the other kind.                                             *)
LEMMA SteadyBidi ==
  ASSUME NEW p \in Clients, BidiFlow(p), Steady(Bidi(p))
  PROVE  BidiFlow(p)'
  <1> DEFINE s == Bidi(p)
  <1>1. s[1] = p
    BY TwoStreams
  <1> SUFFICES ASSUME Linked(s)'
               PROVE  /\ handler'[s] = "accepted" => Len(toServer'[s]) = IF pc'[p] = "send" THEN 1 ELSE 2
                      /\ handler'[s] = "recv" /\ pc'[p] = "recv" => Len(toServer'[s]) + Len(toClient'[s]) = 1
    BY DEF BidiFlow
  <1>2. /\ Linked(s) /\ pc'[p] = pc[p]
        /\ handler'[s] \in {"accepted", "request", "recv"} =>
             handler'[s] = handler[s] /\ toServer'[s] = toServer[s]
        /\ handler'[s] = "recv" => toClient'[s] = toClient[s]
    BY <1>1 DEF Steady
  <1>3. CASE handler'[s] = "accepted"
    <2>1. handler[s] = "accepted" /\ toServer'[s] = toServer[s]
      BY <1>2, <1>3
    <2> QED
      BY <1>2, <1>3, <2>1 DEF BidiFlow
  <1>4. CASE handler'[s] = "recv"
    <2>1. handler[s] = "recv" /\ toServer'[s] = toServer[s] /\ toClient'[s] = toClient[s]
      BY <1>2, <1>4
    <2>2. pc[p] = "recv" => Len(toServer[s]) + Len(toClient[s]) = 1
      BY <1>2, <2>1 DEF BidiFlow
    <2> QED
      BY <1>2, <1>4, <2>1, <2>2
  <1> QED
    BY <1>3, <1>4

(* The rest of the streams, of which a step knows nothing.                 *)
Elsewhere(s) ==
    /\ pc'[s[1]] = pc[s[1]]
    /\ clientEnd'[s] = clientEnd[s] /\ serverEnd'[s] = serverEnd[s]
    /\ reset'[s] = reset[s] /\ handler'[s] = handler[s]
    /\ toServer'[s] = toServer[s] /\ toClient'[s] = toClient[s]

(* They are steady.                                                        *)
LEMMA ElsewhereSteady ==
  ASSUME NEW s \in Sessions, Elsewhere(s)
  PROVE  Steady(s)
  BY DEF Elsewhere, Steady, Linked, Reaches

(* A step about one stream has to be looked at there only.                 *)
LEMMA FlowAt ==
  ASSUME Flow, NEW s \in Sessions, \A t \in Sessions : t # s => Elsewhere(t),
         \A p \in Clients : s = Values(p) => ValuesFlow(p)',
         \A p \in Clients : s = Bidi(p) => BidiFlow(p)'
  PROVE  Flow'
  <1> SUFFICES ASSUME NEW p \in Clients PROVE ValuesFlow(p)' /\ BidiFlow(p)'
    BY DEF Flow
  <1>1. ValuesFlow(p) /\ BidiFlow(p)
    BY DEF Flow
  <1>2. ValuesFlow(p)'
    BY <1>1, TwoStreams, ElsewhereSteady, SteadyValues
  <1>3. BidiFlow(p)'
    BY <1>1, TwoStreams, ElsewhereSteady, SteadyBidi
  <1> QED
    BY <1>2, <1>3

(* One of a client, at its two streams.                                    *)
LEMMA FlowOf ==
  ASSUME Flow, NEW p \in Clients, ValuesFlow(p)', BidiFlow(p)',
         \A t \in Sessions : t # Values(p) /\ t # Bidi(p) => Elsewhere(t)
  PROVE  Flow'
  <1> SUFFICES ASSUME NEW q \in Clients, q # p PROVE ValuesFlow(q)' /\ BidiFlow(q)'
    BY DEF Flow
  <1>1. ValuesFlow(q) /\ BidiFlow(q)
    BY DEF Flow
  <1>2. Elsewhere(Values(q)) /\ Elsewhere(Bidi(q))
    BY TwoStreams, Apart
  <1> QED
    BY <1>1, <1>2, TwoStreams, ElsewhereSteady, SteadyValues, SteadyBidi

(* The streams of the others.                                              *)
LEMMA Others ==
  ASSUME NEW p \in Clients, NEW t \in Sessions, t # Values(p), t # Bidi(p)
  PROVE  t[1] \in Clients /\ t[1] # p
  BY OneOfTwo

(* A step that leaves all streams steady.                                  *)
LEMMA FlowSteady ==
  ASSUME Flow, \A s \in Sessions : Steady(s)
  PROVE  Flow'
  BY TwoStreams, SteadyValues, SteadyBidi DEF Flow

(* What a step of a connection's goroutine leaves alone.                   *)
LEMMA ServerElsewhere ==
  ASSUME TypeOK, NEW s \in Sessions, ServerStep(s) \/ Cut(s)
  PROVE  /\ UNCHANGED <<pc, clientEnd>>
         /\ \A t \in Sessions : t # s => Elsewhere(t)
  <1> USE DEF Domains, Elsewhere, HandlerTo, CloseServer, serverFrame, clientVars
  <1>1. Domains
    BY DomainTypes
  <1>2. CASE Accept(s) \/ ReadRequest(s) \/ RecvRequest(s)
    BY <1>1, <1>2 DEF Accept, ReadRequest, RecvRequest, Take
  <1>3. CASE ReadFail(s) \/ RecvEof(s) \/ RecvPanic(s)
    BY <1>1, <1>3 DEF ReadFail, RecvEof, RecvPanic
  <1>4. CASE SendValue(s) \/ SendEos(s) \/ Reply(s)
    <2>1. sent[s] + 1 \in Nat /\ EOS \in Nat
      BY Types DEF StreamType, EOS
    <2>2. SendToClient(s, sent[s] + 1) \/ SendToClient(s, EOS)
      BY <1>4 DEF SendValue, SendEos, Reply
    <2>3. \A t \in Sessions : t # s => toClient'[t] = toClient[t] /\ reset'[t] = reset[t]
      BY <2>1, <2>2, SendEffect
    <2>4. /\ UNCHANGED <<pc, clientEnd, toServer>>
          /\ \A t \in Sessions : t # s => serverEnd'[t] = serverEnd[t] /\ handler'[t] = handler[t]
      BY <1>1, <1>4 DEF SendValue, SendEos, Reply
    <2> QED
      BY <2>3, <2>4
  <1>5. CASE Cut(s)
    BY <1>1, <1>5 DEF Cut, serverVars
  <1> QED
    BY <1>2, <1>3, <1>4, <1>5 DEF ServerStep

(* One message on one of two ways.                                         *)
LEMMA OneOnTheWay ==
  ASSUME NEW m, NEW n, m = 0, n = 1
  PROVE  m + n = 1 /\ n + m = 1
  OBVIOUS

(* One message less.                                                       *)
LEMMA OneLess ==
  ASSUME NEW m \in Nat, NEW n, n = m + 1
  PROVE  (n = 2 => m = 1) /\ (n = 1 => m = 0) /\ (m = 1 => n = 2) /\ (m = 0 => n = 1)
  OBVIOUS

(* The server reads a request: one less is on its way.                     *)
LEMMA ReadFlow ==
  ASSUME StreamInv, Flow, NEW s \in Sessions, Accept(s) \/ ReadRequest(s)
  PROVE  Flow'
  <1>1. TypeOK /\ Arrived(s) /\ Take(s)
    BY DEF StreamInv, Accept, ReadRequest
  <1>2. Less(toServer'[s], toServer[s])
    BY <1>1, TakeEffect
  <1>3. Len(toServer'[s]) \in Nat /\ Len(toServer[s]) = Len(toServer'[s]) + 1
    BY <1>2 DEF Less, Messages
  <1>4. /\ \A t \in Sessions : t # s => Elsewhere(t)
        /\ UNCHANGED <<pc, clientEnd, serverEnd, reset, toClient>>
        /\ \/ /\ handler[s] = "accepted"
              /\ handler'[s] = IF s[2] = "values" THEN "request" ELSE "recv"
           \/ handler[s] = "request" /\ handler'[s] = "stream"
    BY <1>1, ServerElsewhere
       DEF ServerStep, Accept, ReadRequest, HandlerTo, serverFrame, clientVars, TypeOK
  <1>5. Linked(s)' => Linked(s)
    BY <1>4 DEF Linked, Reaches
  <1>6. ASSUME NEW p \in Clients, s = Values(p) PROVE ValuesFlow(p)'
    <2>1. ValuesFlow(p) /\ s[2] = "values"
      BY <1>6, TwoStreams DEF Flow
    <2> QED
      BY <1>3, <1>4, <1>5, <1>6, <2>1 DEF ValuesFlow
  <1>7. ASSUME NEW p \in Clients, s = Bidi(p) PROVE BidiFlow(p)'
    <2>1. BidiFlow(p) /\ BidiInv(p) /\ s[2] = "bidi"
      BY <1>7, TwoStreams DEF Flow, StreamInv
    <2>2. handler[s] = "accepted" /\ handler'[s] = "recv" /\ Len(toClient[s]) = 0
      BY <1>4, <1>7, <2>1, NoMessage DEF BidiInv, BidiPlace, Requests
    <2>3. Linked(s) => pc[p] \in {"send", "recv"}
      BY <1>7, <2>1 DEF BidiInv, BidiPlace, Linked
    <2>4. Linked(s) /\ pc[p] = "recv" => Len(toServer'[s]) = 1
      <3>1. Linked(s) /\ pc[p] = "recv" => Len(toServer[s]) = 2
        BY <1>7, <2>1, <2>2 DEF BidiFlow
      <3> QED
        BY <1>3, <3>1, OneLess
    <2>5. Linked(s)' /\ pc'[p] = "recv" => Len(toServer'[s]) + Len(toClient'[s]) = 1
      <3>1. Len(toClient'[s]) = 0 /\ pc' = pc
        BY <1>4, <2>2
      <3>2. Linked(s)' /\ pc'[p] = "recv" => Len(toServer'[s]) = 1
        BY <1>5, <2>4, <3>1
      <3> QED
        BY <3>1, <3>2, OneOnTheWay
    <2> QED
      BY <1>4, <1>7, <2>2, <2>5 DEF BidiFlow
  <1> QED
    BY <1>4, <1>6, <1>7, FlowAt

(* It answers: the answer is on its way alone.                             *)
LEMMA ReplyFlow ==
  ASSUME StreamInv, Flow, NEW s \in Sessions, Reply(s)
  PROVE  Flow'
  <1>1. TypeOK /\ handler[s] = "reply" /\ sent[s] + 1 \in Nat
    BY Types DEF StreamInv, Reply, StreamType
  <1>2. PICK p \in Clients : s = Values(p) \/ s = Bidi(p)
    BY OneOfTwo
  <1>3. s = Bidi(p)
    BY <1>1, <1>2 DEF StreamInv, ValuesInv, ValuesPlace
  <1>4. /\ \A t \in Sessions : t # s => Elsewhere(t)
        /\ UNCHANGED <<pc, clientEnd, serverEnd, toServer>>
        /\ handler'[s] = "recv"
        /\ SendToClient(s, sent[s] + 1)
    BY <1>1, ServerElsewhere
       DEF ServerStep, Reply, HandlerTo, serverFrame, clientVars, TypeOK
  <1>5. toServer[s] = <<>> /\ toClient[s] = <<>>
    BY <1>1, <1>3 DEF StreamInv, BidiInv, Requests
  <1>6. Linked(s)' => Len(toServer'[s]) = 0 /\ Len(toClient'[s]) = 1
    <2>1. \/ More(toClient'[s], toClient[s], sent[s] + 1)
          \/ clientEnd[s] # "open" \/ reset'[s]
      BY <1>1, <1>4, SendEffect
    <2> QED
      BY <1>4, <1>5, <2>1, NoMessage DEF Linked, Reaches, More, Messages
  <1>7. ASSUME NEW q \in Clients, s = Bidi(q) PROVE BidiFlow(q)'
    <2>1. Linked(s)' => Len(toServer'[s]) + Len(toClient'[s]) = 1
      BY <1>6, OneOnTheWay
    <2> QED
      BY <1>4, <1>7, <2>1 DEF BidiFlow
  <1> QED
    BY <1>3, <1>4, <1>7, TwoStreams, Apart, FlowAt

(* Its other steps are not seen here.                                      *)
LEMMA ServerFlow ==
  ASSUME StreamInv, Flow, NEW s \in Sessions, ServerStep(s) \/ Cut(s)
  PROVE  Flow'
  <1>1. TypeOK
    BY DEF StreamInv
  <1>2. CASE Accept(s) \/ ReadRequest(s)
    BY <1>2, ReadFlow
  <1>3. CASE Reply(s)
    BY <1>3, ReplyFlow
  <1>4. CASE \/ ReadFail(s) \/ SendValue(s) \/ SendEos(s) \/ RecvRequest(s)
             \/ RecvEof(s) \/ RecvPanic(s) \/ Cut(s)
    <2>1. \A t \in Sessions : t # s => Elsewhere(t)
      BY <1>1, ServerElsewhere
    <2>2. UNCHANGED <<pc, clientEnd>>
      BY <1>1, ServerElsewhere
    <2>3. ASSUME ReadFail(s) \/ RecvEof(s) \/ RecvPanic(s) \/ SendEos(s) PROVE Steady(s)
      <3>1. serverEnd'[s] = "closed"
        BY <1>1, <2>3 DEF ReadFail, RecvEof, RecvPanic, SendEos, CloseServer, TypeOK
      <3> QED
        BY <3>1 DEF Steady, Linked, Reaches
    <2>4. ASSUME Cut(s) PROVE Steady(s)
      <3>1. reset'[s]
        BY <1>1, <2>4 DEF Cut, TypeOK
      <3> QED
        BY <3>1 DEF Steady, Linked, Reaches
    <2>5. ASSUME SendValue(s) PROVE Steady(s)
      <3>1. handler'[s] = "stream" /\ serverEnd' = serverEnd /\ (~reset'[s] => ~reset[s])
        BY <1>1, <2>5 DEF SendValue, SendToClient, TypeOK
      <3> QED
        BY <2>2, <3>1 DEF Steady, Linked, Reaches
    <2>6. ASSUME RecvRequest(s) PROVE Steady(s)
      <3>1. handler'[s] = "reply" /\ UNCHANGED <<serverEnd, reset>>
        BY <1>1, <2>6 DEF RecvRequest, HandlerTo, TypeOK
      <3> QED
        BY <2>2, <3>1 DEF Steady, Linked, Reaches
    <2>7. Steady(s)
      BY <1>4, <2>3, <2>4, <2>5, <2>6
    <2> QED
      BY <2>1, <2>7, ElsewhereSteady, FlowSteady
  <1> QED
    BY <1>2, <1>3, <1>4 DEF ServerStep

(* A client opens a stream: only its opening request is on the way.        *)
LEMMA OpenFlow ==
  ASSUME StreamInv, Flow, NEW p \in Clients, Open(p)
  PROVE  Flow'
  <1> DEFINE s == Current(p)
  <1>1. TypeOK /\ Domains /\ s \in Sessions /\ s[1] = p
    BY TwoStreams, DomainTypes DEF StreamInv, Current
  <1>2. /\ pc[p] \in {"open values", "open bidi"} /\ pc' = [pc EXCEPT ![p] = AfterOpen(p)]
        /\ toServer' = [toServer EXCEPT ![s] = <<0>>]
        /\ handler' = [handler EXCEPT ![s] = "accepted"]
        /\ clientEnd' = [clientEnd EXCEPT ![s] = "open"]
        /\ serverEnd' = [serverEnd EXCEPT ![s] = "open"]
        /\ UNCHANGED <<reset, toClient>>
    BY DEF Open, Goto
  <1>3. handler'[s] = "accepted" /\ toServer'[s] = <<0>> /\ Len(toServer'[s]) = 1
    BY <1>1, <1>2 DEF Domains
  <1>4. \A t \in Sessions : t # Values(p) /\ t # Bidi(p) => Elsewhere(t)
    BY <1>1, <1>2, Others DEF Elsewhere, Domains, Current
  <1>5. CASE pc[p] = "open values"
    <2>1. s = Values(p) /\ s # Bidi(p) /\ pc'[p] = "ask"
      BY <1>1, <1>2, <1>5, Apart DEF Current, AfterOpen, Domains
    <2>2. ValuesFlow(p)'
      BY <1>3, <2>1 DEF ValuesFlow
    <2>3. BidiFlow(p)'
      <3>1. clientEnd[Bidi(p)] = "none" /\ Bidi(p) \in Sessions
        BY <1>5, TwoStreams DEF StreamInv, BidiInv, BidiPlace
      <3>2. clientEnd'[Bidi(p)] = "none"
        BY <1>1, <1>2, <2>1, <3>1 DEF Domains
      <3> QED
        BY <3>2 DEF BidiFlow, Linked
    <2> QED
      BY <1>4, <2>2, <2>3, FlowOf
  <1>6. CASE pc[p] = "open bidi"
    <2>1. s = Bidi(p) /\ s # Values(p) /\ pc'[p] = "send"
      BY <1>1, <1>2, <1>6, Apart DEF Current, AfterOpen, Domains
    <2>2. BidiFlow(p)'
      BY <1>3, <2>1 DEF BidiFlow
    <2>3. ValuesFlow(p)'
      <3>1. clientEnd[Values(p)] # "open" /\ Values(p) \in Sessions
        BY <1>6, TwoStreams DEF StreamInv, ValuesInv, ValuesPlace
      <3>2. clientEnd'[Values(p)] # "open"
        BY <1>1, <1>2, <2>1, <3>1 DEF Domains
      <3> QED
        BY <3>2 DEF ValuesFlow, Linked
    <2> QED
      BY <1>4, <2>2, <2>3, FlowOf
  <1> QED
    BY <1>2, <1>5, <1>6

(* It asks: two requests, or one, are on the way.                          *)
LEMMA AskFlow ==
  ASSUME StreamInv, Flow, NEW p \in Clients, Ask(p)
  PROVE  Flow'
  <1> DEFINE s == Values(p)
  <1>1. /\ TypeOK /\ Domains /\ s \in Sessions /\ s[1] = p /\ Count \in Nat
        /\ Bidi(p) \in Sessions /\ Bidi(p)[1] = p /\ Bidi(p) # s
    BY TwoStreams, Apart, DomainTypes, StreamAssumption DEF StreamInv
  <1>2. /\ pc[p] = "ask" /\ Write(s, Count) /\ pc' = [pc EXCEPT ![p] = "read"]
        /\ UNCHANGED <<clientEnd, serverEnd, reset, toClient, handler>>
    BY DEF Ask, Goto, serverVars
  <1>3. /\ \A t \in Sessions : t # s => toServer'[t] = toServer[t]
        /\ Reaches(s) => More(toServer'[s], toServer[s], Count)
    BY <1>1, <1>2, WriteEffect DEF Reaches
  <1>4. Len(toServer[s]) \in Nat
    BY <1>1, Types DEF StreamType, Messages
  <1>5. ValuesFlow(p)'
    <2>1. ValuesFlow(p) /\ pc'[p] = "read" /\ (Linked(s)' => Linked(s))
      BY <1>1, <1>2 DEF Flow, Linked, Reaches, Domains
    <2>2. Linked(s) => Len(toServer'[s]) = Len(toServer[s]) + 1
      BY <1>3 DEF Linked, More
    <2>3. /\ Linked(s) /\ handler[s] = "accepted" => Len(toServer[s]) = 1
          /\ Linked(s) /\ handler[s] = "request" => Len(toServer[s]) = 0
      BY <1>2, <2>1 DEF ValuesFlow
    <2>4. /\ Linked(s) /\ handler[s] = "accepted" => Len(toServer'[s]) = 2
          /\ Linked(s) /\ handler[s] = "request" => Len(toServer'[s]) = 1
      BY <1>4, <2>2, <2>3, OneLess
    <2> QED
      BY <1>2, <2>1, <2>4 DEF ValuesFlow
  <1>6. BidiFlow(p)'
    <2>1. clientEnd'[Bidi(p)] = "none"
      BY <1>2 DEF StreamInv, BidiInv, BidiPlace
    <2> QED
      BY <2>1 DEF BidiFlow, Linked
  <1>7. \A t \in Sessions : t # Values(p) /\ t # Bidi(p) => Elsewhere(t)
    BY <1>1, <1>2, <1>3, Others DEF Elsewhere, Domains
  <1> QED
    BY <1>5, <1>6, <1>7, FlowOf

(* The request of a round is on its way alone, or behind the first.        *)
LEMMA SendFlow ==
  ASSUME StreamInv, Flow, NEW p \in Clients, Send(p)
  PROVE  Flow'
  <1> DEFINE s == Bidi(p)
  <1>1. /\ TypeOK /\ Domains /\ s \in Sessions /\ s[1] = p /\ round[p] \in Nat
        /\ Values(p) \in Sessions /\ Values(p)[1] = p /\ Values(p) # s
    BY TwoStreams, Apart, DomainTypes, PlaceTypes DEF StreamInv
  <1>2. /\ pc[p] = "send" /\ Write(s, round[p]) /\ pc' = [pc EXCEPT ![p] = "recv"]
        /\ UNCHANGED <<clientEnd, serverEnd, reset, toClient, handler>>
    BY DEF Send, Goto, serverVars
  <1>3. /\ \A t \in Sessions : t # s => toServer'[t] = toServer[t]
        /\ Reaches(s) => More(toServer'[s], toServer[s], round[p])
    BY <1>1, <1>2, WriteEffect DEF Reaches
  <1>4. BidiInv(p) /\ BidiFlow(p) /\ pc'[p] = "recv" /\ (Linked(s)' => Linked(s))
    BY <1>1, <1>2 DEF StreamInv, Flow, Linked, Reaches, Domains
  <1>5. Linked(s) => Len(toServer'[s]) = Len(toServer[s]) + 1
    BY <1>3 DEF Linked, More
  <1>6. BidiFlow(p)'
    <2>1. CASE handler[s] = "accepted"
      <3>1. Linked(s) => Len(toServer[s]) = 1
        BY <1>2, <1>4, <2>1 DEF BidiFlow
      <3>2. Len(toServer[s]) \in Nat
        BY <1>1, Types DEF StreamType, Messages
      <3>3. Linked(s)' => Len(toServer'[s]) = 2
        BY <1>4, <1>5, <3>1, <3>2, OneLess
      <3> QED
        BY <1>2, <1>4, <2>1, <3>3 DEF BidiFlow
    <2>2. CASE handler[s] = "recv"
      <3>1. Len(toServer[s]) = 0 /\ Len(toClient'[s]) = 0
        BY <1>2, <1>4, <2>2, NoMessage DEF BidiInv, Requests, Answers
      <3>2. Linked(s)' => Len(toServer'[s]) = 1
        BY <1>4, <1>5, <3>1
      <3>3. Linked(s)' => Len(toServer'[s]) + Len(toClient'[s]) = 1
        BY <3>1, <3>2, OneOnTheWay
      <3> QED
        BY <1>2, <2>2, <3>3 DEF BidiFlow
    <2>3. CASE handler[s] \notin {"accepted", "recv"}
      BY <1>2, <2>3 DEF BidiFlow
    <2> QED
      BY <2>1, <2>2, <2>3
  <1>7. ValuesFlow(p)'
    <2>1. clientEnd'[Values(p)] # "open"
      BY <1>2 DEF StreamInv, ValuesInv, ValuesPlace
    <2> QED
      BY <2>1 DEF ValuesFlow, Linked
  <1>8. \A t \in Sessions : t # Values(p) /\ t # Bidi(p) => Elsewhere(t)
    BY <1>1, <1>2, <1>3, Others DEF Elsewhere, Domains
  <1> QED
    BY <1>6, <1>7, <1>8, FlowOf

(* With an answer there, no request was on its way.                        *)
LEMMA RecvRoundFlow ==
  ASSUME StreamInv, Flow, NEW p \in Clients, RecvRound(p)
  PROVE  Flow'
  <1> DEFINE s == Bidi(p)
  <1>1. /\ TypeOK /\ Domains /\ s \in Sessions /\ s[1] = p
        /\ Values(p) \in Sessions /\ Values(p)[1] = p /\ Values(p) # s
    BY TwoStreams, Apart, DomainTypes DEF StreamInv
  <1>2. /\ pc[p] = "recv" /\ Receive(s) /\ pc' = [pc EXCEPT ![p] = "send"]
        /\ UNCHANGED <<clientEnd, serverEnd, reset, toServer, handler>>
    BY DEF RecvRound, Goto, serverVars
  <1>3. \A t \in Sessions : t # s => toClient'[t] = toClient[t]
    BY <1>1, <1>2, ReceiveEffect
  <1>4. BidiFlow(p)'
    <2>1. handler'[s] # "accepted" /\ pc'[p] = "send"
      BY <1>1, <1>2 DEF StreamInv, BidiInv, Requests, Receive, Domains
    <2> QED
      BY <2>1 DEF BidiFlow
  <1>5. ValuesFlow(p)'
    <2>1. clientEnd'[Values(p)] # "open"
      BY <1>2 DEF StreamInv, ValuesInv, ValuesPlace
    <2> QED
      BY <2>1 DEF ValuesFlow, Linked
  <1>6. \A t \in Sessions : t # Values(p) /\ t # Bidi(p) => Elsewhere(t)
    BY <1>1, <1>2, <1>3, Others DEF Elsewhere, Domains
  <1> QED
    BY <1>4, <1>5, <1>6, FlowOf

(* A client that closes a stream, or dies, is linked no longer.            *)
LEMMA LeaveFlow ==
  ASSUME StreamInv, Flow, NEW p \in Clients,
         \A s \in Sessions : s[1] = p => clientEnd'[s] # "open",
         \A s \in Sessions : s[1] # p => Elsewhere(s)
  PROVE  Flow'
  <1>1. ASSUME NEW s \in Sessions, s[1] = p PROVE Steady(s)
    BY <1>1 DEF Steady, Linked
  <1> QED
    BY <1>1, ElsewhereSteady, FlowSteady

(* What a dead client leaves alone, and what it leaves.                    *)
LEMMA DieFlow ==
  ASSUME StreamInv, Flow, NEW p \in Clients, Die(p), UNCHANGED <<serverEnd, toServer, handler>>
  PROVE  Flow'
  <1>1. TypeOK /\ Domains
    BY DomainTypes DEF StreamInv
  <1>2. ASSUME NEW s \in Sessions, s[1] = p PROVE clientEnd'[s] # "open"
    BY <1>2 DEF Die
  <1>3. ASSUME NEW s \in Sessions, s[1] # p PROVE Elsewhere(s)
    <2>1. clientEnd'[s] = clientEnd[s] /\ toClient'[s] = toClient[s]
      BY <1>3 DEF Die
    <2>2. reset'[s] = reset[s]
      <3>1. reset'[s] = (reset[s] \/ FALSE) /\ reset[s] \in BOOLEAN
        BY <1>1, <1>3, Types DEF Die, StreamType
      <3> QED
        BY <3>1
    <2>3. pc'[s[1]] = pc[s[1]]
      BY <1>1, <1>3, OneOfTwo DEF Die, Goto, Domains
    <2> QED
      BY <2>1, <2>2, <2>3 DEF Elsewhere
  <1> QED
    BY <1>2, <1>3, LeaveFlow

(* A client closes one stream when it has no other open.                   *)
LEMMA CloseFlow ==
  ASSUME StreamInv, Flow, NEW p \in Clients, ReadEof(p) \/ Finish(p)
  PROVE  Flow'
  <1>1. TypeOK /\ Domains
    BY DomainTypes DEF StreamInv
  <1>2. /\ Values(p) \in Sessions /\ Bidi(p) \in Sessions /\ Values(p) # Bidi(p)
        /\ Values(p)[1] = p /\ Bidi(p)[1] = p
    BY TwoStreams, Apart
  <1>3. PICK s \in {Values(p), Bidi(p)} :
          /\ clientEnd' = [clientEnd EXCEPT ![s] = "closed"]
          /\ \A t \in {Values(p), Bidi(p)} : t # s => clientEnd[t] # "open"
          /\ \A t \in Sessions : t # s => reset'[t] = reset[t] /\ toClient'[t] = toClient[t]
    <2>1. CASE ReadEof(p)
      <3>1. clientEnd[Bidi(p)] # "open"
        BY <2>1 DEF ReadEof, StreamInv, BidiInv, BidiPlace
      <3> QED
        BY <1>1, <1>2, <2>1, <3>1 DEF ReadEof, Domains
    <2>2. CASE Finish(p)
      <3>1. clientEnd[Values(p)] # "open"
        BY <2>2 DEF Finish, StreamInv, ValuesInv, ValuesPlace
      <3> QED
        BY <1>1, <1>2, <2>2, <3>1 DEF Finish, CloseClient, Domains
    <2> QED
      BY <2>1, <2>2
  <1>4. UNCHANGED <<serverEnd, toServer, handler>> /\ \E l : pc' = [pc EXCEPT ![p] = l]
    BY DEF ReadEof, Finish, Goto, serverVars
  <1>5. ASSUME NEW t \in Sessions, t[1] = p PROVE clientEnd'[t] # "open"
    BY <1>1, <1>2, <1>3, <1>5, Others DEF Domains
  <1>6. ASSUME NEW t \in Sessions, t[1] # p PROVE Elsewhere(t)
    <2>1. t # Values(p) /\ t # Bidi(p) /\ t[1] \in Clients
      BY <1>2, <1>6, OneOfTwo
    <2> QED
      BY <1>1, <1>2, <1>3, <1>4, <1>6, <2>1 DEF Elsewhere, Domains
  <1> QED
    BY <1>5, <1>6, LeaveFlow

(* A value read says nothing of what has been asked.                       *)
LEMMA ReadValueFlow ==
  ASSUME StreamInv, Flow, NEW p \in Clients, ReadValue(p)
  PROVE  Flow'
  <1>1. TypeOK /\ Values(p) \in Sessions /\ handler[Values(p)] # "recv"
    BY TwoStreams DEF StreamInv, ValuesInv, ValuesPlace
  <1>2. /\ Receive(Values(p))
        /\ UNCHANGED <<pc, clientEnd, serverEnd, reset, toServer, handler>>
    BY DEF ReadValue, serverVars
  <1>3. \A t \in Sessions : t # Values(p) => toClient'[t] = toClient[t]
    BY <1>1, <1>2, ReceiveEffect
  <1>4. ASSUME NEW s \in Sessions PROVE Steady(s)
    BY <1>1, <1>2, <1>3 DEF Steady, Linked, Reaches
  <1> QED
    BY <1>4, FlowSteady

(* Every step keeps the flow.                                              *)
LEMMA NextFlow ==
  ASSUME StreamInv, Flow, [Next]_vars
  PROVE  Flow'
  <1>1. ASSUME NEW p \in Clients, ClientStep(p) \/ KillClient(p) PROVE Flow'
    <2>1. CASE Open(p) \/ Ask(p) \/ Send(p) \/ RecvRound(p)
      BY <2>1, OpenFlow, AskFlow, SendFlow, RecvRoundFlow
    <2>2. CASE ReadValue(p) \/ ReadEof(p) \/ Finish(p)
      BY <2>2, ReadValueFlow, CloseFlow
    <2>3. CASE AskFail(p) \/ RecvFail(p) \/ KillClient(p)
      <3>1. Die(p) /\ UNCHANGED <<serverEnd, toServer, handler>>
        BY <2>3 DEF AskFail, RecvFail, KillClient, serverVars
      <3> QED
        BY <3>1, DieFlow
    <2>4. CASE OpenFail(p)
      <3>1. UNCHANGED <<serverEnd, toServer, handler>>
        BY <2>4 DEF OpenFail, serverVars
      <3>2. Die(p) \/ UNCHANGED <<pc, clientEnd, reset, toClient>>
        BY <2>4 DEF OpenFail
      <3>3. CASE UNCHANGED <<pc, clientEnd, reset, toClient>>
        BY <3>1, <3>3, ElsewhereSteady, FlowSteady DEF Elsewhere
      <3> QED
        BY <3>1, <3>2, <3>3, DieFlow
    <2> QED
      BY <1>1, <2>1, <2>2, <2>3, <2>4 DEF ClientStep
  <1>2. ASSUME NEW s \in Sessions, ServerStep(s) \/ Cut(s) PROVE Flow'
    BY <1>2, ServerFlow
  <1>3. CASE CrashServer
    <2>1. \A s \in Sessions : serverEnd'[s] # "open"
      BY <1>3 DEF CrashServer
    <2> QED
      BY <2>1, FlowSteady DEF Steady, Linked, Reaches
  <1>4. CASE RestartServer \/ UNCHANGED vars
    BY <1>4, ElsewhereSteady, FlowSteady
       DEF RestartServer, vars, clientVars, wireVars, serverVars, Elsewhere
  <1> QED
    BY <1>1, <1>2, <1>3, <1>4 DEF Next

(* So the two sides of a stream never wait for each other: while a client  *)
(* reads, what it reads is there or on its way, or it will be told that    *)
(* nothing comes; while a handler reads, the client has its turn.          *)
THEOREM NoMutualWait == Spec => []NoStandstill
  <1>1. ASSUME StreamInv, Flow PROVE NoStandstill
    <2>1. ASSUME NEW p \in Clients, pc[p] = "read" PROVE Coming(Current(p))
      <3> DEFINE s == Values(p)
      <3>1. s = Current(p) /\ ValuesInv(p) /\ ValuesFlow(p) /\ s \in Sessions
        BY <1>1, <2>1, TwoStreams DEF Current, StreamInv, Flow
      <3>2. clientEnd[s] = "open"
        BY <2>1, <3>1 DEF ValuesInv, ValuesPlace
      <3>3. Reaches(s) => handler[s] \in {"accepted", "request", "stream"}
        BY <3>1 DEF ValuesInv, Ends, ValuesPlace, Reaches, Running
      <3>4. Reaches(s) /\ handler[s] \in {"accepted", "request"} => toServer[s] # <<>>
        <4>1. /\ Reaches(s) /\ handler[s] = "accepted" => Len(toServer[s]) = 2
              /\ Reaches(s) /\ handler[s] = "request" => Len(toServer[s]) = 1
          BY <2>1, <3>1, <3>2 DEF ValuesFlow, Linked
        <4> QED
          BY <4>1, NoMessage
      <3> QED
        BY <3>1, <3>3, <3>4 DEF Coming, Arrived
    <2>2. ASSUME NEW p \in Clients, pc[p] = "recv" PROVE Coming(Current(p))
      <3> DEFINE s == Bidi(p)
      <3>1. s = Current(p) /\ BidiInv(p) /\ BidiFlow(p) /\ s \in Sessions
        BY <1>1, <2>2, TwoStreams DEF Current, StreamInv, Flow
      <3>2. clientEnd[s] = "open"
        BY <2>2, <3>1 DEF BidiInv, BidiPlace
      <3>3. Reaches(s) => handler[s] \in {"accepted", "recv", "reply"}
        BY <3>1 DEF BidiInv, Ends, BidiPlace, Reaches, Running
      <3>4. Reaches(s) /\ handler[s] = "accepted" => toServer[s] # <<>>
        <4>1. Reaches(s) /\ handler[s] = "accepted" => Len(toServer[s]) = 2
          BY <2>2, <3>1, <3>2 DEF BidiFlow, Linked
        <4> QED
          BY <4>1, NoMessage
      <3>5. Reaches(s) /\ handler[s] = "recv" => toServer[s] # <<>> \/ toClient[s] # <<>>
        <4>1. Reaches(s) /\ handler[s] = "recv" => Len(toServer[s]) + Len(toClient[s]) = 1
          BY <2>2, <3>1, <3>2 DEF BidiFlow, Linked
        <4> SUFFICES ASSUME Reaches(s), handler[s] = "recv", toServer[s] = <<>>, toClient[s] = <<>>
                     PROVE  FALSE
          OBVIOUS
        <4>2. Len(toServer[s]) = 0 /\ Len(toClient[s]) = 0
          BY NoMessage
        <4>3. 0 + 0 = 1
          BY <4>1, <4>2
        <4> QED
          BY <4>3
      <3> QED
        BY <3>1, <3>3, <3>4, <3>5 DEF Coming, Arrived
    <2>3. ASSUME NEW s \in Sessions, handler[s] \in {"accepted", "request", "recv"}
          PROVE  Asked(s)
      <3>1. PICK p \in Clients : s = Values(p) \/ s = Bidi(p)
        BY OneOfTwo
      <3>2. s[1] = p /\ ValuesInv(p) /\ BidiInv(p) /\ Ends(s) /\ StreamType(s)
        BY <1>1, <3>1, TwoStreams, Types DEF StreamInv, ValuesInv, BidiInv
      <3>3. clientEnd[s] \in {"open", "closed"}
        BY <2>3, <3>2 DEF Ends, StreamType
      <3>4. CASE clientEnd[s] = "closed"
        BY <3>4 DEF Asked, Arrived, Eof, Broken
      <3>5. CASE clientEnd[s] = "open"
        <4>1. pc[p] \in {"ask", "read", "send", "recv"} /\ s = Current(p)
          BY <3>1, <3>2, <3>5 DEF ValuesInv, ValuesPlace, BidiInv, BidiPlace, Current
        <4>2. pc[p] \in {"read", "recv"} => Coming(s)
          BY <2>1, <2>2, <4>1
        <4>3. Reaches(s) \/ Broken(s)
          BY <2>3, <3>2 DEF Ends, Reaches, Broken, Running
        <4> QED
          BY <2>3, <3>2, <4>1, <4>2, <4>3 DEF Coming, Asked
      <3> QED
        BY <3>3, <3>4, <3>5
    <2> QED
      BY <2>1, <2>2, <2>3 DEF NoStandstill
  <1>2. ASSUME Init PROVE Flow
    BY <1>2, TwoStreams DEF Init, Flow, ValuesFlow, BidiFlow, Linked
  <1>3. ASSUME StreamInv, Flow, [Next]_vars PROVE Flow'
    BY <1>3, NextFlow
  <1> QED
    BY <1>1, <1>2, <1>3, StreamsHold, PTL DEF Spec

=============================================================================
