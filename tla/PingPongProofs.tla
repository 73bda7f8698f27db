---------------------------- MODULE PingPongProofs ----------------------------
EXTENDS PingPong, TLAPS

(***************************************************************************)
(* Proofs about PingPong, for any number of processes, rounds and faults:  *)
(* every response is read as that to its request, and the tests of one     *)
(* process never find their port taken by that process itself.             *)
(***************************************************************************)

Playing == {"dial", "send", "recv", "read", "close", "unlisten"}

Ports ==
  /\ program \in [Procs -> {"demo", "test"}]
  /\ main \in [Procs -> {"start", "dial", "send", "recv", "read", "close", "unlisten",
                         "finish", "listener", "again", "over"}]
  /\ holder \in [{6969, 8080} -> Procs \cup {Nobody}]
  /\ blocked \in [Procs -> Procs \cup {Nobody}]

ClientEnd ==
  /\ conn \in [Procs -> {"none", "open", "closed", "cut"}]
  /\ bl \in [Procs -> Seq(Nat)]
  /\ r \in [Procs -> Seq(Nat)]
  /\ req \in [Procs -> Nat]
  /\ round \in [Procs -> Nat]
  /\ paired = [p \in Procs |-> TRUE]

ServerEnd ==
  /\ c2s \in [Procs -> Seq(Nat)]
  /\ s2c \in [Procs -> Seq(Nat)]
  /\ handler \in [Procs -> {"none", "recv", "send", "ended"}]
  /\ ping \in [Procs -> Nat]

Types == Ports /\ ClientEnd /\ ServerEnd

\* Nothing is on its way in either direction.
Quiet(p) == c2s[p] = <<>> /\ s2c[p] = <<>> /\ handler[p] # "send"

\* One ping, or its pong, is on its way, or it is lost.
Flying(p) ==
  \/ Quiet(p)
  \/ c2s[p] = <<round[p]>> /\ s2c[p] = <<>> /\ handler[p] # "send"
  \/ c2s[p] = <<>> /\ s2c[p] = <<>> /\ handler[p] = "send" /\ ping[p] = round[p]
  \/ c2s[p] = <<>> /\ s2c[p] = <<round[p]>> /\ handler[p] # "send"

\* The request of the round: still to be sent, in r, or taken by Recv.
Talk(p) ==
  /\ main[p] \in {"start", "dial", "send"} => Quiet(p) /\ r[p] = <<>> /\ bl[p] = <<>>
  /\ main[p] = "recv" => Flying(p) /\ r[p] = <<round[p]>> /\ bl[p] = <<>>
  /\ main[p] = "read" => Flying(p) /\ req[p] = round[p] /\ r[p] = <<>> /\ bl[p] = <<>>

\* When a process has a port, and which.
Held(p) == \A q \in {6969, 8080} : holder[q] = p =>
  \/ main[p] \in Playing /\ q = Port(p)
  \/ main[p] = "again" /\ q = 8080

PingInv == Types /\ \A p \in Procs : Talk(p) /\ Held(p) /\ blocked[p] # p

-----------------------------------------------------------------------------
\* The invariant holds before any process has run.
LEMMA InitPing == Init => PingInv
  <1> SUFFICES ASSUME Init PROVE PingInv
    OBVIOUS
  <1>1. Types
    <2>1. <<>> \in Seq(Nat) /\ 0 \in Nat
      OBVIOUS
    <2> QED
      BY <2>1 DEF Init, Types, Ports, ClientEnd, ServerEnd, Playing
  <1>2. \A p \in Procs : Talk(p)
    <2> SUFFICES ASSUME NEW p \in Procs PROVE Talk(p)
      OBVIOUS
    <2>1. main[p] = "start" /\ r[p] = <<>> /\ bl[p] = <<>>
      BY DEF Init
    <2>2. c2s[p] = <<>> /\ s2c[p] = <<>> /\ handler[p] = "none"
      BY DEF Init
    <2> QED
      BY <2>1, <2>2 DEF Talk, Quiet
  <1>3. \A p \in Procs : Held(p) /\ blocked[p] # p
    <2>1. \A q \in {6969, 8080} : holder[q] = Nobody
      BY DEF Init
    <2>2. \A p \in Procs : p # Nobody /\ blocked[p] = Nobody
      <3>1. blocked = [p \in Procs |-> Nobody]
        BY DEF Init
      <3>2. Nobody \notin Procs
        BY RoundAssumption
      <3> QED
        BY <3>1, <3>2
    <2>3. \A p \in Procs : Held(p)
      BY <2>1, <2>2 DEF Held
    <2>4. \A p \in Procs : blocked[p] # p
      BY <2>2
    <2> QED
      BY <2>3, <2>4
  <1> QED
    BY <1>1, <1>2, <1>3 DEF PingInv

\* What a step of one process leaves of another's.
Same(p) ==
  /\ main'[p] = main[p] /\ blocked'[p] = blocked[p]
  /\ bl'[p] = bl[p] /\ r'[p] = r[p] /\ req'[p] = req[p] /\ round'[p] = round[p]
  /\ c2s'[p] = c2s[p] /\ s2c'[p] = s2c[p] /\ handler'[p] = handler[p] /\ ping'[p] = ping[p]

\* A step of one process that takes no port from, and gives none to, another.
LEMMA OneProcess ==
  ASSUME PingInv, NEW p \in Procs, Types', program' = program,
         Talk(p)', Held(p)', blocked'[p] # p,
         \A q \in Procs \ {p} : Same(q),
         \A q \in {6969, 8080} : holder'[q] \in {holder[q], p, Nobody}
  PROVE  PingInv'
  <1> SUFFICES ASSUME NEW q \in Procs \ {p} PROVE Talk(q)' /\ Held(q)' /\ blocked'[q] # q
    BY DEF PingInv
  <1>1. Same(q) /\ Talk(q) /\ Held(q) /\ blocked[q] # q
    BY DEF PingInv
  <1>2. Talk(q)'
    BY <1>1 DEF Same, Talk, Flying, Quiet
  <1>3. Held(q)'
    BY <1>1, RoundAssumption DEF Same, Held, Port
  <1> QED
    BY <1>1, <1>2, <1>3 DEF Same

\* A step that leaves the ports alone, and does not leave a place where one is held.
LEMMA HeldStill ==
  ASSUME NEW p \in Procs, Held(p), program' = program, holder' = holder,
         main[p] \in Playing => main'[p] \in Playing,
         main[p] = "again" => main'[p] = "again"
  PROVE  Held(p)'
  BY DEF Held, Port, Playing

\* A function changed in one place.
LEMMA Changed ==
  ASSUME NEW D, NEW S, NEW f \in [D -> S], NEW k, NEW v \in S
  PROVE  [f EXCEPT ![k] = v] \in [D -> S]
  OBVIOUS

-----------------------------------------------------------------------------
\* A port is taken, or found with another process.
LEMMA ListenStep ==
  ASSUME PingInv, NEW p \in Procs, Listen(p)
  PROVE  PingInv'
  <1> USE DEF PingInv
  <1>1. main[p] = "start" /\ UNCHANGED <<program, clientVars, handler, ping, wire>>
    BY DEF Listen
  <1>2. Port(p) \in {6969, 8080} /\ Port(p)' = Port(p)
    BY <1>1 DEF Port
  <1>3. CASE holder[Port(p)] = Nobody
    <2>1. holder' = [holder EXCEPT ![Port(p)] = p] /\ main' = [main EXCEPT ![p] = "dial"]
          /\ blocked' = blocked
      BY <1>3 DEF Listen, To
    <2>2. Types'
      <3>1. Ports'
        <4>1. holder' \in [{6969, 8080} -> Procs \cup {Nobody}]
          <5> DEFINE D == {6969, 8080}
                     k == Port(p)
          <5>1. /\ holder \in [D -> Procs \cup {Nobody}] /\ p \in Procs \cup {Nobody}
                /\ holder' = [holder EXCEPT ![k] = p]
            BY <2>1 DEF Types, Ports
          <5> HIDE DEF D, k
          <5>2. holder' \in [D -> Procs \cup {Nobody}]
            BY <5>1, Changed
          <5> QED
            BY <5>2 DEF D
        <4>2. main' \in [Procs -> {"start", "dial", "send", "recv", "read", "close",
                                   "unlisten", "finish", "listener", "again", "over"}]
          BY <2>1 DEF Types, Ports
        <4> QED
          BY <1>1, <2>1, <4>1, <4>2 DEF Types, Ports
      <3>2. ClientEnd'
        BY <1>1, <2>1 DEF Types, ClientEnd, clientVars, wire
      <3>3. ServerEnd'
        BY <1>1, <2>1 DEF Types, ServerEnd, clientVars, wire
      <3> QED
        BY <3>1, <3>2, <3>3 DEF Types
    <2>3. Talk(p)'
      BY <1>1, <2>1 DEF Types, Ports, ClientEnd, ServerEnd, Talk, Quiet, clientVars, wire
    <2>4. Held(p)'
      BY <1>1, <1>2, <2>1 DEF Types, Ports, ClientEnd, ServerEnd, Held, Playing
    <2>5. \A q \in Procs \ {p} : Same(q)
      BY <1>1, <2>1 DEF Types, Ports, ClientEnd, ServerEnd, Same, clientVars, wire
    <2>6. \A q \in {6969, 8080} : holder'[q] \in {holder[q], p, Nobody}
      BY <2>1 DEF Types, Ports, ClientEnd, ServerEnd
    <2> QED
      BY <1>1, <2>1, <2>2, <2>3, <2>4, <2>5, <2>6, OneProcess
  <1>4. CASE holder[Port(p)] # Nobody
    <2>1. /\ holder' = holder /\ blocked' = [blocked EXCEPT ![p] = holder[Port(p)]]
          /\ \E l \in {"over", "listener"} : main' = [main EXCEPT ![p] = l]
      BY <1>4 DEF Listen, To
    <2>2. Types'
      <3>1. Ports'
        BY <1>1, <1>2, <2>1 DEF Types, Ports, clientVars, wire
      <3>2. ClientEnd'
        BY <1>1, <1>2, <2>1 DEF Types, ClientEnd, clientVars, wire
      <3>3. ServerEnd'
        BY <1>1, <1>2, <2>1 DEF Types, ServerEnd, clientVars, wire
      <3> QED
        BY <3>1, <3>2, <3>3 DEF Types
    <2>3. Talk(p)'
      BY <1>1, <2>1 DEF Types, Ports, ClientEnd, ServerEnd, Talk, clientVars
    <2>4. Held(p)' /\ blocked'[p] # p
      <3>1. \A q \in {6969, 8080} : holder[q] # p
        BY <1>1 DEF Held, Playing
      <3>2. blocked'[p] # p
        BY <1>2, <2>1, <3>1 DEF Types, Ports
      <3> QED
        BY <2>1, <3>1, <3>2 DEF Held
    <2>5. \A q \in Procs \ {p} : Same(q)
      BY <1>1, <2>1 DEF Types, Ports, ClientEnd, ServerEnd, Same, clientVars, wire
    <2> QED
      BY <1>1, <2>1, <2>2, <2>3, <2>4, <2>5, OneProcess
  <1> QED
    BY <1>3, <1>4

\* The client's own steps between its ports.
LEMMA DialStep ==
  ASSUME PingInv, NEW p \in Procs, Dial(p) \/ DialFail(p) \/ Close(p) \/ RecvError(p) \/ Cut(p)
  PROVE  PingInv'
  <1> USE DEF PingInv
  <1>1. /\ UNCHANGED <<program, holder, blocked, bl, r, req, round, paired, handler, ping, c2s>>
        /\ \E l \in {"send", "unlisten", "close", main[p]} : main' = [main EXCEPT ![p] = l]
        /\ s2c' \in {s2c, [s2c EXCEPT ![p] = <<>>]}
        /\ conn' \in [Procs -> {"none", "open", "closed", "cut"}]
    <2>1. CASE Dial(p)
      BY <2>1 DEF Dial, To, serverVars, wire, Types, Ports, ClientEnd, ServerEnd
    <2>2. CASE DialFail(p)
      BY <2>2 DEF DialFail, To, clientVars, serverVars, wire, Types, Ports, ClientEnd, ServerEnd
    <2>3. CASE Close(p)
      BY <2>3 DEF Close, To, serverVars, Types, Ports, ClientEnd, ServerEnd
    <2>4. CASE RecvError(p)
      BY <2>4 DEF RecvError, To, clientVars, serverVars, wire, Types, Ports, ClientEnd, ServerEnd
    <2>5. CASE Cut(p)
      BY <2>5 DEF Cut, ends, serverVars, Types, Ports, ClientEnd, ServerEnd
    <2> QED
      BY <2>1, <2>2, <2>3, <2>4, <2>5
  <1>2. \/ main[p] \in Playing /\ main'[p] \in {"unlisten", "close"}
        \/ main[p] = "dial" /\ main'[p] = "send"
        \/ main'[p] = main[p]
    BY DEF Dial, DialFail, Close, RecvError, Cut, To, Types, Ports, ClientEnd, ServerEnd, Playing, ends
  <1>3. Types'
    <2>1. Ports'
      BY <1>1 DEF Types, Ports
    <2>2. ClientEnd'
      BY <1>1 DEF Types, ClientEnd
    <2>3. ServerEnd'
      <3>1. <<>> \in Seq(Nat)
        OBVIOUS
      <3>2. s2c' \in [Procs -> Seq(Nat)]
        BY <1>1, <3>1 DEF Types, ServerEnd
      <3> QED
        BY <1>1, <3>2 DEF Types, ServerEnd
    <2> QED
      BY <2>1, <2>2, <2>3 DEF Types
  <1>4. Talk(p)'
    <2>1. s2c'[p] \in {s2c[p], <<>>}
      BY <1>1 DEF Types, Ports, ClientEnd, ServerEnd
    <2>2. Quiet(p) => Quiet(p)'
      BY <1>1, <2>1 DEF Quiet
    <2>3. Flying(p) => Flying(p)'
      BY <1>1, <2>1 DEF Quiet, Flying
    <2> QED
      BY <1>1, <1>2, <2>2, <2>3 DEF Talk
  <1>5. Held(p)'
    BY <1>1, <1>2, HeldStill DEF Playing
  <1>6. \A q \in Procs \ {p} : Same(q)
    BY <1>1 DEF Same, Types, Ports, ClientEnd, ServerEnd
  <1> QED
    BY <1>1, <1>3, <1>4, <1>5, <1>6, OneProcess

\* httpTransportClient.Send: the request is the only one in the queue.
LEMMA SendStep ==
  ASSUME PingInv, NEW p \in Procs, Send(p)
  PROVE  PingInv'
  <1> USE DEF PingInv
  <1>1. /\ main[p] = "send" /\ Enqueue(p, round[p])
        /\ UNCHANGED <<program, holder, blocked, conn, req, round, paired, handler, ping, s2c>>
    BY DEF Send, serverVars
  <1>2. /\ Quiet(p) /\ r[p] = <<>> /\ bl[p] = <<>>
    BY <1>1 DEF Talk
  <1>3. r' = [r EXCEPT ![p] = <<round[p]>>] /\ bl' = [bl EXCEPT ![p] = <<>>]
    <2>1. Append(bl[p], round[p]) = <<round[p]>>
      BY <1>2
    <2>2. Head(<<round[p]>>) = round[p] /\ Tail(<<round[p]>>) = <<>>
      OBVIOUS
    <2> QED
      BY <1>1, <1>2, <2>1, <2>2 DEF Enqueue
  <1>4. \/ c2s' = [c2s EXCEPT ![p] = <<round[p]>>] /\ main' = [main EXCEPT ![p] = "recv"]
        \/ c2s' = c2s /\ main' = [main EXCEPT ![p] = "close"]
    <2>1. Append(c2s[p], round[p]) = <<round[p]>>
      BY <1>2 DEF Quiet
    <2> QED
      BY <2>1 DEF Send, To
  <1>5. round[p] \in Nat /\ <<round[p]>> \in Seq(Nat) /\ <<>> \in Seq(Nat)
    BY DEF Types, Ports, ClientEnd, ServerEnd
  <1>6. Types'
    <2>1. Ports'
      BY <1>1, <1>3, <1>4, <1>5 DEF Types, Ports
    <2>2. ClientEnd'
      BY <1>1, <1>3, <1>4, <1>5 DEF Types, ClientEnd
    <2>3. ServerEnd'
      <3>1. c2s' \in [Procs -> Seq(Nat)]
        <4>1. c2s \in [Procs -> Seq(Nat)]
          BY DEF Types, ServerEnd
        <4> QED
          BY <1>4, <1>5, <4>1
      <3> QED
        BY <1>1, <3>1 DEF Types, ServerEnd
    <2> QED
      BY <2>1, <2>2, <2>3 DEF Types
  <1>7. Talk(p)'
    <2>1. r'[p] = <<round[p]>> /\ bl'[p] = <<>>
      BY <1>3 DEF Types, ClientEnd
    <2>2. CASE c2s' = [c2s EXCEPT ![p] = <<round[p]>>] /\ main' = [main EXCEPT ![p] = "recv"]
      <3>1. c2s'[p] = <<round[p]>> /\ main'[p] = "recv"
        BY <2>2 DEF Types, Ports, ServerEnd
      <3> QED
        BY <1>1, <1>2, <2>1, <3>1 DEF Talk, Quiet, Flying
    <2>3. CASE c2s' = c2s /\ main' = [main EXCEPT ![p] = "close"]
      BY <2>3 DEF Types, Ports, Talk
    <2> QED
      BY <1>4, <2>2, <2>3
  <1>8. Held(p)'
    <2>1. main[p] = "send" /\ main'[p] \in Playing
      BY <1>1, <1>4 DEF Types, Ports, ClientEnd, ServerEnd, Playing
    <2> QED
      BY <1>1, <2>1, HeldStill
  <1>9. \A q \in Procs \ {p} : Same(q)
    BY <1>1, <1>3, <1>4 DEF Same, Types, Ports, ClientEnd, ServerEnd
  <1> QED
    BY <1>1, <1>6, <1>7, <1>8, <1>9, OneProcess

\* Recv takes the round's request ...
LEMMA RecvRequestStep ==
  ASSUME PingInv, NEW p \in Procs, RecvRequest(p)
  PROVE  PingInv'
  <1> USE DEF PingInv
  <1>1. /\ main[p] = "recv" /\ req' = [req EXCEPT ![p] = Head(r[p])]
        /\ r' = [r EXCEPT ![p] = Tail(r[p])] /\ main' = [main EXCEPT ![p] = "read"]
        /\ UNCHANGED <<program, holder, blocked, conn, bl, round, paired, handler, ping, c2s, s2c>>
    BY DEF RecvRequest, To, serverVars, wire
  <1>2. Flying(p) /\ r[p] = <<round[p]>> /\ bl[p] = <<>> /\ round[p] \in Nat
    BY <1>1 DEF Talk, Types, Ports, ClientEnd, ServerEnd
  <1>3. req' = [req EXCEPT ![p] = round[p]] /\ r' = [r EXCEPT ![p] = <<>>]
    BY <1>1, <1>2
  <1>4. Types'
    <2>1. Ports'
      BY <1>1, <1>2, <1>3 DEF Types, Ports
    <2>2. ClientEnd'
      BY <1>1, <1>2, <1>3 DEF Types, ClientEnd
    <2>3. ServerEnd'
      BY <1>1, <1>2, <1>3 DEF Types, ServerEnd
    <2> QED
      BY <2>1, <2>2, <2>3 DEF Types
  <1>5. Talk(p)'
    BY <1>1, <1>2, <1>3 DEF Types, Ports, ClientEnd, ServerEnd, Talk, Flying, Quiet
  <1>6. Held(p)'
    BY <1>1, HeldStill DEF Types, Ports, ClientEnd, ServerEnd, Playing
  <1>7. \A q \in Procs \ {p} : Same(q)
    BY <1>1 DEF Same, Types, Ports, ClientEnd, ServerEnd
  <1> QED
    BY <1>1, <1>4, <1>5, <1>6, <1>7, OneProcess

\* ... and reads the only response there is as that to it.
LEMMA RecvResponseStep ==
  ASSUME PingInv, NEW p \in Procs, RecvResponse(p)
  PROVE  PingInv'
  <1> USE DEF PingInv
  <1>1. /\ main[p] = "read" /\ s2c[p] # <<>> /\ s2c' = [s2c EXCEPT ![p] = Tail(s2c[p])]
        /\ paired' = [paired EXCEPT ![p] = paired[p] /\ Head(s2c[p]) = req[p]]
        /\ round' = [round EXCEPT ![p] = round[p] + 1]
        /\ \E l \in {"close", "send"} : main' = [main EXCEPT ![p] = l]
        /\ UNCHANGED <<program, holder, blocked, conn, bl, r, req, handler, ping, c2s>>
    BY DEF RecvResponse, To, serverVars
  <1>2. /\ c2s[p] = <<>> /\ s2c[p] = <<round[p]>> /\ handler[p] # "send"
        /\ req[p] = round[p] /\ r[p] = <<>> /\ bl[p] = <<>> /\ round[p] \in Nat
    BY <1>1 DEF Talk, Types, Ports, ClientEnd, ServerEnd, Flying, Quiet
  <1>3. s2c' = [s2c EXCEPT ![p] = <<>>] /\ Head(s2c[p]) = req[p]
    BY <1>1, <1>2
  <1>4. paired' = paired
    BY <1>1, <1>2, <1>3 DEF Types, ClientEnd
  <1>5. Types'
    <2>1. Ports'
      BY <1>1, <1>3, <1>4 DEF Types, Ports
    <2>2. ClientEnd'
      <3>1. round' \in [Procs -> Nat]
        BY <1>1, <1>2 DEF Types, ClientEnd
      <3> QED
        BY <1>1, <1>4, <3>1 DEF Types, ClientEnd
    <2>3. ServerEnd'
      BY <1>1, <1>3, <1>4 DEF Types, ServerEnd
    <2> QED
      BY <2>1, <2>2, <2>3 DEF Types
  <1>6. Talk(p)'
    BY <1>1, <1>2, <1>3, <1>4 DEF Types, Ports, ClientEnd, ServerEnd, Talk, Quiet
  <1>7. Held(p)'
    BY <1>1, HeldStill DEF Types, Ports, ClientEnd, ServerEnd, Playing
  <1>8. \A q \in Procs \ {p} : Same(q)
    BY <1>1, <1>3, <1>4 DEF Same, Types, Ports, ClientEnd, ServerEnd
  <1> QED
    BY <1>1, <1>2, <1>4, <1>5, <1>6, <1>7, <1>8, OneProcess

\* The port is given up; a test goes on without it.
LEMMA UnlistenStep ==
  ASSUME PingInv, NEW p \in Procs, Unlisten(p)
  PROVE  PingInv'
  <1> USE DEF PingInv
  <1>1. /\ main[p] = "unlisten" /\ holder' = [holder EXCEPT ![Port(p)] = Nobody]
        /\ \E l \in {"over", "finish"} : main' = [main EXCEPT ![p] = l]
        /\ handler' \in {handler, [handler EXCEPT ![p] = IF handler[p] = "none" THEN "none" ELSE "ended"]}
        /\ UNCHANGED <<program, blocked, conn, bl, r, req, round, paired, ping, c2s, s2c>>
    BY DEF Unlisten, Exit, To, clientVars, wire
  <1>2. Types'
    <2>1. Ports'
      <3>1. holder' \in [{6969, 8080} -> Procs \cup {Nobody}]
        <4> DEFINE D == {6969, 8080}
                   k == Port(p)
        <4>1. /\ holder \in [D -> Procs \cup {Nobody}] /\ Nobody \in Procs \cup {Nobody}
              /\ holder' = [holder EXCEPT ![k] = Nobody]
          BY <1>1 DEF Types, Ports
        <4> HIDE DEF D, k
        <4>2. holder' \in [D -> Procs \cup {Nobody}]
          BY <4>1, Changed
        <4> QED
          BY <4>2 DEF D
      <3> QED
        BY <1>1, <3>1 DEF Types, Ports
    <2>2. ClientEnd'
      BY <1>1 DEF Types, ClientEnd
    <2>3. ServerEnd'
      BY <1>1 DEF Types, ServerEnd
    <2> QED
      BY <2>1, <2>2, <2>3 DEF Types
  <1>3. Talk(p)'
    BY <1>1 DEF Types, Ports, ClientEnd, ServerEnd, Talk
  <1>4. Held(p)'
    <2>1. \A q \in {6969, 8080} : holder'[q] = p => holder[q] = p /\ q # Port(p)
      BY <1>1, RoundAssumption DEF Types, Ports
    <2>2. \A q \in {6969, 8080} : holder[q] = p => q = Port(p)
      <3>1. main[p] # "again"
        BY <1>1
      <3> QED
        BY <3>1 DEF Held
    <2>3. \A q \in {6969, 8080} : holder'[q] # p
      BY <2>1, <2>2
    <2> QED
      BY <2>3 DEF Held
  <1>5. \A q \in Procs \ {p} : Same(q)
    BY <1>1 DEF Same, Types, Ports, ClientEnd, ServerEnd
  <1>6. \A q \in {6969, 8080} : holder'[q] \in {holder[q], p, Nobody}
    BY <1>1 DEF Types, Ports, ClientEnd, ServerEnd
  <1> QED
    BY <1>1, <1>2, <1>3, <1>4, <1>5, <1>6, OneProcess

\* Between the tests, and TestListener.
LEMMA TestStep ==
  ASSUME PingInv, NEW p \in Procs,
         Finish(p) \/ AcceptError(p) \/ TestListener(p) \/ ListenAgain(p)
  PROVE  PingInv'
  <1> USE DEF PingInv
  <1>1. /\ UNCHANGED <<program, conn, bl, r, req, round, paired, ping, c2s, s2c>>
        /\ handler' \in {handler, [handler EXCEPT ![p] = IF handler[p] = "none" THEN "none" ELSE "ended"]}
        /\ main[p] \in {"finish", "listener", "again"}
        /\ \E l \in {"finish", "listener", "again", "over"} : main' = [main EXCEPT ![p] = l]
    <2>1. CASE Finish(p)
      BY <2>1 DEF Finish, To, clientVars, serverVars, wire
    <2>2. CASE AcceptError(p)
      <3>1. main = [main EXCEPT ![p] = main[p]]
        BY DEF Types, Ports
      <3>2. /\ UNCHANGED <<program, conn, bl, r, req, round, paired, ping, c2s, s2c>>
            /\ main[p] \in {"finish", "listener", "again"}
        BY <2>2 DEF AcceptError, clientVars, wire
      <3>3. CASE main[p] = "finish"
        BY <2>2, <3>1, <3>2, <3>3 DEF AcceptError
      <3>4. CASE main[p] # "finish"
        BY <2>2, <3>2, <3>4 DEF AcceptError, Exit, To
      <3> QED
        BY <3>3, <3>4
    <2>3. CASE TestListener(p)
      BY <2>3 DEF TestListener, Exit, To, clientVars, wire
    <2>4. CASE ListenAgain(p)
      <3>1. /\ UNCHANGED <<program, conn, bl, r, req, round, paired, ping, c2s, s2c>>
            /\ main[p] = "again"
        BY <2>4 DEF ListenAgain, clientVars, wire
      <3>2. Exit(p)
        BY <2>4 DEF ListenAgain
      <3> QED
        BY <3>1, <3>2 DEF Exit, To
    <2> QED
      BY <2>1, <2>2, <2>3, <2>4
  <1>2. \/ holder' = holder /\ blocked' = blocked /\ main'[p] # "over" /\ main'[p] # "again"
             /\ main[p] = "finish"
        \/ holder' = [holder EXCEPT ![8080] = IF holder[8080] = p THEN Nobody ELSE holder[8080]]
             /\ blocked' = blocked /\ main'[p] = "over"
        \/ holder' = [holder EXCEPT ![8080] = p] /\ blocked' = blocked /\ main'[p] = "again"
             /\ main[p] = "listener"
        \/ holder' = holder /\ blocked' = [blocked EXCEPT ![p] = holder[8080]]
             /\ main'[p] = "over" /\ main[p] = "listener"
        \/ holder' = [holder EXCEPT ![8080] = Nobody] /\ blocked' = blocked
             /\ main'[p] = "over"
    BY DEF Finish, AcceptError, TestListener, ListenAgain, Exit, To, Types, Ports, ClientEnd, ServerEnd
  <1>3. Types'
    <2>1. Ports'
      BY <1>1, <1>2 DEF Types, Ports
    <2>2. ClientEnd'
      BY <1>1, <1>2 DEF Types, ClientEnd
    <2>3. ServerEnd'
      <3>1. handler' \in [Procs -> {"none", "recv", "send", "ended"}]
        BY <1>1 DEF Types, ServerEnd
      <3> QED
        BY <1>1, <3>1 DEF Types, ServerEnd
    <2> QED
      BY <2>1, <2>2, <2>3 DEF Types
  <1>4. Talk(p)'
    BY <1>1 DEF Types, Ports, ClientEnd, ServerEnd, Talk
  <1>5. \A q \in {6969, 8080} : holder[q] = p => q = 8080 /\ main[p] = "again"
    BY <1>1 DEF Held, Playing
  <1>6. Held(p)'
    BY <1>1, <1>2, <1>5, RoundAssumption DEF Types, Ports, ClientEnd, ServerEnd, Held
  <1>7. blocked'[p] # p
    BY <1>2, <1>5 DEF Types, Ports, ClientEnd, ServerEnd
  <1>8. \A q \in Procs \ {p} : Same(q)
    BY <1>1, <1>2 DEF Same, Types, Ports, ClientEnd, ServerEnd
  <1>9. \A q \in {6969, 8080} : holder'[q] \in {holder[q], p, Nobody}
    BY <1>2 DEF Types, Ports, ClientEnd, ServerEnd
  <1> QED
    BY <1>1, <1>3, <1>4, <1>6, <1>7, <1>8, <1>9, OneProcess

\* Accept and SockHandler: the ping becomes the pong, and nothing is added.
LEMMA HandlerStep ==
  ASSUME PingInv, NEW p \in Procs, SockHandler(p)
  PROVE  PingInv'
  <1> USE DEF PingInv
  <1>1. UNCHANGED <<program, main, holder, blocked, conn, bl, r, req, round, paired>>
    BY DEF SockHandler, Accept, HandlerRecv, HandlerSend, HandlerEnd, serverFrame, ends, clientVars
  <1>2. /\ handler' = [handler EXCEPT ![p] = handler'[p]]
        /\ ping' = [ping EXCEPT ![p] = ping'[p]]
        /\ c2s' = [c2s EXCEPT ![p] = c2s'[p]]
        /\ s2c' = [s2c EXCEPT ![p] = s2c'[p]]
        /\ handler'[p] \in {"recv", "send", "ended"} /\ ping'[p] \in Nat
        /\ c2s'[p] \in Seq(Nat) /\ s2c'[p] \in Seq(Nat)
    <2>1. handler[p] \in {"none", "recv", "send", "ended"} /\ ping[p] \in Nat
          /\ c2s[p] \in Seq(Nat) /\ s2c[p] \in Seq(Nat)
      BY DEF Types, Ports, ClientEnd, ServerEnd
    <2>2. CASE Accept(p)
      BY <2>1, <2>2 DEF Accept, Types, Ports, ClientEnd, ServerEnd, wire
    <2>3. CASE HandlerRecv(p)
      <3>1. Head(c2s[p]) \in Nat /\ Tail(c2s[p]) \in Seq(Nat)
        BY <2>1, <2>3 DEF HandlerRecv
      <3> QED
        BY <2>1, <2>3, <3>1 DEF HandlerRecv, Types, Ports, ClientEnd, ServerEnd
    <2>4. CASE HandlerSend(p)
      <3>1. Append(s2c[p], ping[p]) \in Seq(Nat)
        BY <2>1
      <3> QED
        BY <2>1, <2>4, <3>1 DEF HandlerSend, Types, Ports, ClientEnd, ServerEnd
    <2>5. CASE HandlerEnd(p)
      BY <2>1, <2>5 DEF HandlerEnd, Types, Ports, ClientEnd, ServerEnd, wire
    <2> QED
      BY <2>2, <2>3, <2>4, <2>5 DEF SockHandler
  <1>3. Types'
    <2>1. Ports'
      BY <1>1, <1>2 DEF Types, Ports
    <2>2. ClientEnd'
      BY <1>1, <1>2 DEF Types, ClientEnd
    <2>3. ServerEnd'
      <3>1. handler' \in [Procs -> {"none", "recv", "send", "ended"}]
        BY <1>2 DEF Types, ServerEnd
      <3>2. ping' \in [Procs -> Nat]
        BY <1>2 DEF Types, ServerEnd
      <3>3. c2s' \in [Procs -> Seq(Nat)]
        BY <1>2 DEF Types, ServerEnd
      <3>4. s2c' \in [Procs -> Seq(Nat)]
        BY <1>2 DEF Types, ServerEnd
      <3> QED
        BY <3>1, <3>2, <3>3, <3>4 DEF ServerEnd
    <2> QED
      BY <2>1, <2>2, <2>3 DEF Types
  <1>4. Quiet(p) => Quiet(p)'
    BY DEF Quiet, SockHandler, Accept, HandlerRecv, HandlerSend, HandlerEnd, Types, ServerEnd,
       wire
  <1>5. Flying(p) => Flying(p)'
    <2>1. /\ c2s \in [Procs -> Seq(Nat)] /\ s2c \in [Procs -> Seq(Nat)]
          /\ handler \in [Procs -> {"none", "recv", "send", "ended"}] /\ ping \in [Procs -> Nat]
      BY DEF Types, ServerEnd
    <2>2. CASE Accept(p)
      <3>1. handler[p] = "none" /\ handler'[p] = "recv" /\ UNCHANGED <<c2s, s2c, ping>>
        BY <2>1, <2>2 DEF Accept, wire
      <3> QED
        BY <1>1, <3>1 DEF Flying, Quiet
    <2>3. CASE HandlerRecv(p)
      <3>1. /\ handler[p] = "recv" /\ c2s[p] # <<>> /\ handler'[p] = "send" /\ s2c' = s2c
            /\ ping'[p] = Head(c2s[p]) /\ c2s'[p] = Tail(c2s[p])
        BY <2>1, <2>3 DEF HandlerRecv
      <3>2. Head(<<round[p]>>) = round[p] /\ Tail(<<round[p]>>) = <<>>
        OBVIOUS
      <3> QED
        BY <1>1, <3>1, <3>2 DEF Flying, Quiet
    <2>4. CASE HandlerSend(p)
      <3>1. /\ handler[p] = "send" /\ handler'[p] = "recv" /\ c2s' = c2s
            /\ s2c'[p] = Append(s2c[p], ping[p])
        BY <2>1, <2>4 DEF HandlerSend
      <3>2. Append(<<>>, ping[p]) = <<ping[p]>>
        OBVIOUS
      <3> QED
        BY <1>1, <3>1, <3>2 DEF Flying, Quiet
    <2>5. CASE HandlerEnd(p)
      <3>1. handler'[p] = "ended" /\ UNCHANGED <<c2s, s2c, ping>>
        BY <2>1, <2>5 DEF HandlerEnd, wire
      <3> QED
        BY <1>1, <3>1 DEF Flying, Quiet
    <2> QED
      BY <2>2, <2>3, <2>4, <2>5 DEF SockHandler
  <1>6. Talk(p)'
    BY <1>1, <1>4, <1>5 DEF Talk
  <1>7. Held(p)'
    BY <1>1, HeldStill
  <1>8. \A q \in Procs \ {p} : Same(q)
    BY <1>1, <1>2 DEF Same, Types, Ports, ClientEnd, ServerEnd
  <1> QED
    BY <1>1, <1>3, <1>6, <1>7, <1>8, OneProcess

-----------------------------------------------------------------------------
\* Every step keeps the invariant.
LEMMA NextPing == PingInv /\ [Next]_vars => PingInv'
  <1> SUFFICES ASSUME PingInv, [Next]_vars PROVE PingInv'
    OBVIOUS
  <1>1. CASE Next
    BY <1>1, ListenStep, DialStep, SendStep, RecvRequestStep, RecvResponseStep, UnlistenStep,
       TestStep, HandlerStep DEF Next, ProgramStep
  <1>2. CASE UNCHANGED vars
    <2> USE <1>2 DEF vars, ends, clientVars, serverVars, wire, PingInv
    <2>1. Types'
      <3>1. Ports'
        BY DEF Types, Ports
      <3>2. ClientEnd'
        BY DEF Types, ClientEnd
      <3>3. ServerEnd'
        BY DEF Types, ServerEnd
      <3> QED
        BY <3>1, <3>2, <3>3 DEF Types
    <2>2. \A p \in Procs : Talk(p)'
      BY DEF Talk, Flying, Quiet
    <2>3. \A p \in Procs : Held(p)'
      BY DEF Held, Port
    <2> QED
      BY <2>1, <2>2, <2>3
  <1> QED
    BY <1>1, <1>2

\* Responses are read as those to the requests they answer: httpTransportClient's r, of
\* capacity one, and bl hold the round's request alone when a response can be read.
THEOREM ResponsesPaired == Spec => []Paired
  <1>1. PingInv => Paired
    BY DEF PingInv, Types, ClientEnd, Paired
  <1> QED
    BY <1>1, InitPing, NextPing, PTL DEF Spec

\* The tests hand their port on: what a process has listened on is free again when the
\* next test of the same process listens there.
THEOREM PortsHandedOn == Spec => []PortsPassOn
  <1>1. PingInv => PortsPassOn
    BY DEF PingInv, PortsPassOn
  <1> QED
    BY <1>1, InitPing, NextPing, PTL DEF Spec

-----------------------------------------------------------------------------
(***************************************************************************)
(* Nobody waits in vain: a client's Recv waits for the queue of requests   *)
(* and then for the response, a handler's for the next request.            *)
(***************************************************************************)

\* The ping has a handler to read it, or will have; or its pong is due.
UnderWay(p) ==
  \/ c2s[p] # <<>> /\ (handler[p] = "recv" \/ (handler[p] = "none" /\ acceptor[p] = "accepting"))
  \/ handler[p] = "send"
  \/ s2c[p] # <<>>

\* The client has a ping to send, a pong to read first, or its end to close.
HasTurn(p) == main[p] \in {"send", "close"} \/ (main[p] \in {"recv", "read"} /\ s2c[p] # <<>>)

\* Neither Recv waits for what cannot come, though none has a timeout: what it waits for
\* is there, or the other end has the turn, or the connection is gone and it fails.
NoVainWait == \A p \in Procs :
  /\ main[p] = "recv" => r[p] # <<>>
  /\ main[p] = "read" => conn[p] = "cut" \/ UnderWay(p)
  /\ handler[p] = "recv" => c2s[p] # <<>> \/ conn[p] # "open" \/ HasTurn(p)

\* While the program plays, its listener accepts, and the handler of a connection that
\* is open goes on; until the program has read the pong it is under way.
Served(p) ==
  /\ main[p] \in {"send", "recv", "read"} => conn[p] \in {"open", "cut"}
  /\ main[p] \notin {"send", "recv", "read", "close"} => conn[p] # "open"
  /\ main[p] \in {"dial", "send", "recv", "read"} => acceptor[p] = "accepting"
  /\ main[p] \in {"start", "dial"} => handler[p] = "none"
  /\ main[p] \in {"send", "recv", "read"} /\ conn[p] = "open" => handler[p] # "ended"
  /\ main[p] \in {"recv", "read"} /\ conn[p] = "open" => ~Quiet(p)

ServedInv ==
  /\ acceptor \in [Procs -> {"none", "accepting", "stopped"}]
  /\ \A p \in Procs : Served(p)

\* The types these proofs need.
Typed ==
  /\ main = [q \in Procs |-> main[q]]
  /\ conn = [q \in Procs |-> conn[q]]
  /\ acceptor \in [Procs -> {"none", "accepting", "stopped"}]
  /\ handler \in [Procs -> {"none", "recv", "send", "ended"}]
  /\ c2s \in [Procs -> Seq(Nat)]
  /\ s2c \in [Procs -> Seq(Nat)]
  /\ round \in [Procs -> Nat]
  /\ ping \in [Procs -> Nat]

\* They are part of the two invariants.
LEMMA TypesTyped == PingInv /\ ServedInv => Typed
  BY DEF PingInv, Types, Ports, ClientEnd, ServerEnd, ServedInv, Typed

\* What has just been written is there to be read.
LEMMA AppendNotEmpty == \A q \in Seq(Nat), n \in Nat : Append(q, n) # <<>>
  <1> SUFFICES ASSUME NEW q \in Seq(Nat), NEW n \in Nat PROVE Append(q, n) # <<>>
    OBVIOUS
  <1>1. Len(Append(q, n)) = Len(q) + 1 /\ Len(q) \in Nat
    OBVIOUS
  <1>2. Len(<<>>) = 0
    OBVIOUS
  <1> QED
    BY <1>1, <1>2

\* At the start nobody plays.
LEMMA InitServed == Init => ServedInv
  BY DEF Init, ServedInv, Served

\* A step of one process, for the others.
LEMMA ServedAlone ==
  ASSUME NEW p \in Procs, ServedInv, Served(p)',
         acceptor' \in [Procs -> {"none", "accepting", "stopped"}],
         \A q \in Procs \ {p} : /\ main'[q] = main[q] /\ conn'[q] = conn[q]
                                /\ acceptor'[q] = acceptor[q] /\ handler'[q] = handler[q]
                                /\ c2s'[q] = c2s[q] /\ s2c'[q] = s2c[q]
  PROVE  ServedInv'
  <1> SUFFICES ASSUME NEW q \in Procs \ {p} PROVE Served(q)'
    BY DEF ServedInv
  <1> QED
    BY DEF ServedInv, Served, Quiet

\* The program opens, plays and closes.
LEMMA ProgramServed ==
  ASSUME PingInv, ServedInv, NEW p \in Procs,
         Listen(p) \/ Dial(p) \/ Send(p) \/ RecvRequest(p) \/ RecvResponse(p)
  PROVE  ServedInv'
  <1>1. Typed /\ Served(p)
    BY TypesTyped DEF ServedInv
  <1>2. CASE Listen(p)
    <2>1. /\ main[p] = "start" /\ main'[p] \in {"dial", "over", "listener"}
          /\ main'[p] = "dial" => acceptor'[p] = "accepting"
          /\ main' = [main EXCEPT ![p] = main'[p]]
          /\ acceptor' = [acceptor EXCEPT ![p] = acceptor'[p]]
          /\ acceptor'[p] \in {"none", "accepting", "stopped"}
          /\ UNCHANGED <<conn, handler, c2s, s2c>>
      BY <1>1, <1>2 DEF Typed, Listen, To, Fails, clientVars, wire
    <2>2. Served(p)'
      BY <1>1, <2>1 DEF Typed, Served
    <2> QED
      BY <1>1, <2>1, <2>2, ServedAlone DEF Typed
  <1>3. CASE Dial(p)
    <2>1. /\ main[p] = "dial" /\ main' = [main EXCEPT ![p] = "send"]
          /\ conn' = [conn EXCEPT ![p] = "open"]
          /\ UNCHANGED <<acceptor, handler, c2s, s2c>>
      BY <1>3 DEF Dial, To, serverVars, wire
    <2>2. Served(p)'
      BY <1>1, <2>1 DEF Typed, Served
    <2> QED
      BY <1>1, <2>1, <2>2, ServedAlone DEF Typed
  <1>4. CASE Send(p)
    <2>1. /\ main[p] = "send" /\ UNCHANGED <<conn, acceptor, handler, s2c>>
          /\ \/ c2s' = [c2s EXCEPT ![p] = Append(@, round[p])] /\ main' = [main EXCEPT ![p] = "recv"]
             \/ c2s' = c2s /\ main' = [main EXCEPT ![p] = "close"]
      BY <1>4 DEF Send, To, serverVars
    <2>2. Append(c2s[p], round[p]) # <<>>
      BY <1>1, AppendNotEmpty DEF Typed
    <2>3. Served(p)'
      BY <1>1, <2>1, <2>2 DEF Typed, Served, Quiet
    <2> QED
      BY <1>1, <2>1, <2>3, ServedAlone DEF Typed
  <1>5. CASE RecvRequest(p)
    <2>1. /\ main[p] = "recv" /\ main' = [main EXCEPT ![p] = "read"]
          /\ UNCHANGED <<conn, acceptor, handler, c2s, s2c>>
      BY <1>5 DEF RecvRequest, To, serverVars, wire
    <2>2. Served(p)'
      BY <1>1, <2>1 DEF Typed, Served, Quiet
    <2> QED
      BY <1>1, <2>1, <2>2, ServedAlone DEF Typed
  <1>6. CASE RecvResponse(p)
    <2>1. /\ main[p] = "read" /\ main'[p] \in {"close", "send"}
          /\ main' = [main EXCEPT ![p] = main'[p]]
          /\ s2c' = [s2c EXCEPT ![p] = Tail(@)]
          /\ UNCHANGED <<conn, acceptor, handler, c2s>>
      BY <1>1, <1>6 DEF Typed, RecvResponse, To, serverVars
    <2>2. Served(p)'
      BY <1>1, <2>1 DEF Typed, Served
    <2> QED
      BY <1>1, <2>1, <2>2, ServedAlone DEF Typed
  <1> QED
    BY <1>2, <1>3, <1>4, <1>5, <1>6

\* Where the program is not about to play, nobody has to be served.
LEMMA EndServed ==
  ASSUME PingInv, ServedInv, NEW p \in Procs,
         \/ RecvError(p) \/ Close(p) \/ Unlisten(p) \/ Finish(p) \/ DialFail(p)
         \/ AcceptError(p) \/ TestListener(p) \/ ListenAgain(p)
  PROVE  ServedInv'
  <1>1. Typed
    BY TypesTyped
  <1>2. /\ main' = [main EXCEPT ![p] = main'[p]]
        /\ main'[p] \in {"close", "unlisten", "finish", "listener", "again", "over"}
    BY <1>1 DEF Typed, RecvError, Close, Unlisten, Finish, DialFail, AcceptError, TestListener,
                ListenAgain, To, Exit
  <1>3. /\ acceptor' = [acceptor EXCEPT ![p] = acceptor'[p]]
        /\ acceptor'[p] \in {"none", "accepting", "stopped"}
        /\ handler' = [handler EXCEPT ![p] = handler'[p]]
        /\ conn' = [conn EXCEPT ![p] = conn'[p]]
        /\ s2c' = [s2c EXCEPT ![p] = s2c'[p]]
        /\ c2s' = c2s
    <2>1. CASE RecvError(p) \/ Close(p) \/ Finish(p) \/ DialFail(p)
      BY <1>1, <2>1 DEF Typed, RecvError, Close, Finish, DialFail, clientVars, serverVars, wire
    <2>2. CASE Unlisten(p) \/ AcceptError(p) \/ TestListener(p) \/ ListenAgain(p)
      BY <1>1, <2>2 DEF Typed, Unlisten, AcceptError, TestListener, ListenAgain, Exit, clientVars, wire
    <2> QED
      BY <2>1, <2>2
  <1>4. main'[p] # "close" => conn'[p] # "open"
    <2>1. CASE RecvError(p)
      BY <1>1, <2>1 DEF Typed, RecvError, To
    <2>2. CASE Close(p)
      BY <1>1, <2>2 DEF Typed, Close
    <2>3. CASE \/ Unlisten(p) \/ Finish(p) \/ DialFail(p)
               \/ AcceptError(p) \/ TestListener(p) \/ ListenAgain(p)
      <3>1. main[p] \notin {"send", "recv", "read", "close"} /\ conn' = conn
        BY <2>3 DEF Unlisten, Finish, DialFail, AcceptError, TestListener, ListenAgain, clientVars
      <3> QED
        BY <3>1 DEF ServedInv, Served
    <2> QED
      BY <2>1, <2>2, <2>3
  <1>5. Served(p)'
    BY <1>2, <1>4 DEF Served
  <1> QED
    BY <1>1, <1>2, <1>3, <1>5, ServedAlone DEF Typed

\* The handler takes the ping and sends the pong; it ends only with the connection.
LEMMA HandlerServed ==
  ASSUME PingInv, ServedInv, NEW p \in Procs, SockHandler(p) \/ Cut(p)
  PROVE  ServedInv'
  <1>1. Typed /\ Served(p)
    BY TypesTyped DEF ServedInv
  <1>2. CASE Cut(p)
    <2>1. /\ conn' = [conn EXCEPT ![p] = "cut"]
          /\ s2c' = [s2c EXCEPT ![p] = s2c'[p]]
          /\ UNCHANGED <<main, acceptor, handler, c2s>>
      BY <1>1, <1>2 DEF Typed, Cut, ends, serverVars
    <2>2. Served(p)'
      BY <1>1, <2>1 DEF Typed, Served
    <2> QED
      BY <1>1, <2>1, <2>2, ServedAlone DEF Typed
  <1>3. CASE Accept(p)
    <2>1. /\ handler[p] = "none" /\ c2s[p] # <<>> /\ handler' = [handler EXCEPT ![p] = "recv"]
          /\ UNCHANGED <<main, conn, acceptor, c2s, s2c>>
      BY <1>3 DEF Accept, serverFrame, ends, clientVars, wire
    <2>2. main[p] \notin {"start", "dial"}
      <3>1. main[p] \in {"start", "dial"} => c2s[p] = <<>>
        BY DEF PingInv, Talk, Quiet
      <3> QED
        BY <2>1, <3>1
    <2>3. Served(p)'
      BY <1>1, <2>1, <2>2 DEF Typed, Served, Quiet
    <2> QED
      BY <1>1, <2>1, <2>3, ServedAlone DEF Typed
  <1>4. CASE HandlerRecv(p)
    <2>1. /\ handler[p] = "recv" /\ handler' = [handler EXCEPT ![p] = "send"]
          /\ c2s' = [c2s EXCEPT ![p] = Tail(@)]
          /\ UNCHANGED <<main, conn, acceptor, s2c>>
      BY <1>4 DEF HandlerRecv, serverFrame, ends, clientVars
    <2>2. Served(p)'
      BY <1>1, <2>1 DEF Typed, Served, Quiet
    <2> QED
      BY <1>1, <2>1, <2>2, ServedAlone DEF Typed
  <1>5. CASE HandlerSend(p)
    <2>1. /\ handler[p] = "send" /\ handler' = [handler EXCEPT ![p] = "recv"]
          /\ s2c' = [s2c EXCEPT ![p] = Append(@, ping[p])]
          /\ UNCHANGED <<main, conn, acceptor, c2s>>
      BY <1>5 DEF HandlerSend, serverFrame, ends, clientVars
    <2>2. Append(s2c[p], ping[p]) # <<>>
      BY <1>1, AppendNotEmpty DEF Typed
    <2>3. Served(p)'
      BY <1>1, <2>1, <2>2 DEF Typed, Served, Quiet
    <2> QED
      BY <1>1, <2>1, <2>3, ServedAlone DEF Typed
  <1>6. CASE HandlerEnd(p)
    <2>1. /\ handler[p] \in {"recv", "send"} /\ conn[p] # "open"
          /\ handler' = [handler EXCEPT ![p] = "ended"]
          /\ UNCHANGED <<main, conn, acceptor, c2s, s2c>>
      BY <1>6 DEF HandlerEnd, serverFrame, ends, clientVars, wire
    <2>2. Served(p)'
      BY <1>1, <2>1 DEF Typed, Served
    <2> QED
      BY <1>1, <2>1, <2>2, ServedAlone DEF Typed
  <1> QED
    BY <1>2, <1>3, <1>4, <1>5, <1>6 DEF SockHandler

\* Every step keeps it.
LEMMA NextServed == PingInv /\ ServedInv /\ [Next]_vars => ServedInv'
  <1> SUFFICES ASSUME PingInv, ServedInv, [Next]_vars PROVE ServedInv'
    OBVIOUS
  <1>1. CASE Next
    BY <1>1, ProgramServed, EndServed, HandlerServed DEF Next, ProgramStep
  <1>2. CASE UNCHANGED vars
    BY <1>2 DEF vars, ends, clientVars, serverVars, wire, ServedInv, Served, Quiet
  <1> QED
    BY <1>1, <1>2

\* Neither end of the transport waits for what cannot come: the client's Recv finds its
\* request in r, and while the connection holds the pong it reads is there or someone
\* will send it; the handler's Recv has a ping to read, or a client whose turn it is.
THEOREM NobodyWaitsInVain == Spec => []NoVainWait
  <1>1. PingInv /\ ServedInv => NoVainWait
    <2> SUFFICES ASSUME PingInv, ServedInv, NEW p \in Procs
                 PROVE  /\ main[p] = "recv" => r[p] # <<>>
                        /\ main[p] = "read" => conn[p] = "cut" \/ UnderWay(p)
                        /\ handler[p] = "recv" =>
                             c2s[p] # <<>> \/ conn[p] # "open" \/ HasTurn(p)
      BY DEF NoVainWait
    <2>1. Types /\ Talk(p) /\ Served(p)
      BY DEF PingInv, ServedInv
    <2>2. <<round[p]>> # <<>>
      OBVIOUS
    <2>3. handler[p] \in {"none", "recv", "send", "ended"}
      BY <2>1 DEF Types, ServerEnd
    <2> QED
      BY <2>1, <2>2, <2>3 DEF Talk, Served, Quiet, UnderWay, HasTurn
  <1> QED
    BY <1>1, InitPing, NextPing, InitServed, NextServed, PTL DEF Spec
=============================================================================
