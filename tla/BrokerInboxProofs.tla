-------------------------- MODULE BrokerInboxProofs --------------------------
EXTENDS BrokerInbox, SequenceTheorems, TLAPS

(***************************************************************************)
(* Proofs about BrokerInbox, for any messages, subscribers, inbox and      *)
(* batch sizes and any number of failures: no message is lost between the  *)
(* inbox and its posts, and none is given twice to a subscriber, or to two *)
(* of a queue, unless one of its own posts has failed.                     *)
(***************************************************************************)

Types ==
  /\ inbox \in Seq(Messages)
  /\ pc \in [Messages -> Stages]
  /\ view \in [Messages -> SUBSET Nodes]
  /\ batch \in [Messages -> Seq(Messages)]
  /\ versions \in [Messages -> SUBSET Versions]
  /\ current \in [Messages -> Versions \cup {"none"}]
  /\ nodes \in [Messages -> SUBSET Nodes]
  /\ success = [g \in Messages |-> success[g]]
  /\ got \in [Nodes -> [Messages -> Nat]]
  /\ past \in SUBSET SUBSET Nodes

\* A post of m to v has been answered: it has been received, or given up.
Answered(m, v) == Got(m, v) \/ <<m, v>> \in excused

\* A goroutine has a batch while it serves it, and is posting to one service.
Worker(g) ==
  /\ batch[g] # <<>> <=> pc[g] \in {"next", "post", "save"}
  /\ pc[g] \in {"post", "save"} => current[g] \in Versions \ versions[g]
  /\ pc[g] = "post" => nodes[g] # {} /\ nodes[g] \subseteq Of(current[g])
  /\ pc[g] = "post" /\ current[g] = "queue" => \E n \in Queue : nodes[g] = {n}
  /\ success[g] => pc[g] = "post" /\ Answered(Head(batch[g]), current[g])
  /\ pc[g] = "save" => Head(batch[g]) \in failed

\* AtLeastOnce, of one message and one version.
Kept(m, v) == pc[m] # "new" => Got(m, v) \/ Held(m, v) \/ <<m, v>> \in excused

InboxInv == Types /\ (\A g \in Messages : Worker(g))
                  /\ (\A m \in Messages, v \in Versions : Kept(m, v))

-----------------------------------------------------------------------------
\* Appending, splitting and taking the head, by what the sequences contain.
LEMMA Appended ==
  ASSUME NEW S, NEW q \in Seq(S), NEW x \in S
  PROVE  Append(q, x) \in Seq(S) /\ Elems(Append(q, x)) = Elems(q) \cup {x}
  <1> DEFINE r == Append(q, x)
  <1>1. r \in Seq(S) /\ Len(r) = Len(q) + 1 /\ Len(q) \in Nat
    OBVIOUS
  <1>2. r[Len(q) + 1] = x /\ \A i \in 1..Len(q) : r[i] = q[i]
    OBVIOUS
  <1> HIDE DEF r
  <1>3. Len(q) + 1 \in 1..Len(r) /\ \A i \in 1..Len(q) : i \in 1..Len(r)
    BY <1>1
  <1>4. \A i \in 1..Len(r) : i \in 1..Len(q) \/ i = Len(q) + 1
    BY <1>1
  <1>5. Elems(r) = Elems(q) \cup {x}
    BY <1>2, <1>3, <1>4 DEF Elems
  <1> QED
    BY <1>1, <1>5 DEF r

\* A batch that is not empty has a message at its head.
LEMMA Headed ==
  ASSUME NEW S, NEW q \in Seq(S), q # <<>>
  PROVE  /\ Tail(q) \in Seq(S) /\ Head(q) \in S
         /\ Elems(q) = {Head(q)} \cup Elems(Tail(q))
  <1> DEFINE r == Tail(q)
  <1>1. r \in Seq(S) /\ Len(r) = Len(q) - 1 /\ Len(q) \in Nat /\ Len(q) # 0
    OBVIOUS
  <1>2. Head(q) = q[1] /\ 1 \in 1..Len(q) /\ Head(q) \in S
    BY <1>1
  <1>3. \A i \in 1..Len(r) : r[i] = q[i + 1]
    BY <1>1
  <1> HIDE DEF r
  <1>4. \A i \in 1..Len(r) : i + 1 \in 1..Len(q)
    BY <1>1
  <1>5. \A i \in 1..Len(q) : i = 1 \/ (i - 1 \in 1..Len(r) /\ (i - 1) + 1 = i)
    BY <1>1
  <1>6. \A i \in 1..Len(q) : i = 1 \/ q[i] = r[i - 1]
    BY <1>3, <1>5
  <1>7. Elems(q) = {Head(q)} \cup Elems(r)
    BY <1>2, <1>3, <1>4, <1>5, <1>6 DEF Elems
  <1> QED
    BY <1>1, <1>2, <1>7 DEF r

\* getMessage's two parts of the inbox are its beginning and the rest.
LEMMA Parted ==
  ASSUME NEW q \in Seq(Messages), NEW n \in Nat, n <= Len(q)
  PROVE  LET a == SubSeq(q, 1, n)
             b == SubSeq(q, n + 1, Len(q))
         IN  /\ a \in Seq(Messages) /\ Len(a) = n /\ \A i \in 1..n : a[i] = q[i]
             /\ b \in Seq(Messages) /\ Len(b) = Len(q) - n
             /\ \A i \in 1..(Len(q) - n) : b[i] = q[n + i]
  <1> DEFINE a == SubSeq(q, 1, n)
             b == SubSeq(q, n + 1, Len(q))
  <1>1. Len(q) \in Nat
    OBVIOUS
  <1>2. a \in Seq(Messages) /\ Len(a) = n /\ \A i \in 1..n : a[i] = q[i]
    <2>1. \A i \in 1..n : q[i] \in Messages
      BY <1>1
    <2>2. Len(a) = n /\ \A i \in 1..n : a[i] = q[1 + i - 1]
      BY <1>1, SubSeqProperties
    <2> QED
      BY <1>1, <2>1, <2>2, SubSeqProperties
  <1>3. b \in Seq(Messages) /\ Len(b) = Len(q) - n
        /\ \A i \in 1..(Len(q) - n) : b[i] = q[n + i]
    <2>1. \A i \in (n + 1)..Len(q) : q[i] \in Messages
      BY <1>1
    <2>2. b \in Seq(Messages) /\ Len(b) = Len(q) - n
      BY <1>1, <2>1, SubSeqProperties
    <2>3. \A i \in 1..(Len(q) - n) : b[i] = q[n + i]
      BY <1>1, <2>2, SubSeqProperties
    <2> QED
      BY <2>2, <2>3
  <1> QED
    BY <1>2, <1>3

-----------------------------------------------------------------------------
\* Before the first Publish.
LEMMA InitInbox == Init => InboxInv
  <1> SUFFICES ASSUME Init PROVE InboxInv
    OBVIOUS
  <1>1. Types
    <2>1. <<>> \in Seq(Messages) /\ 0 \in Nat
      OBVIOUS
    <2>2. got \in [Nodes -> [Messages -> Nat]]
      BY <2>1 DEF Init
    <2>3. success = [g \in Messages |-> success[g]]
      BY DEF Init
    <2> QED
      BY <2>1, <2>2, <2>3 DEF Init, Types, Stages, Versions
  <1>2. \A g \in Messages : Worker(g)
    <2> SUFFICES ASSUME NEW g \in Messages PROVE Worker(g)
      OBVIOUS
    <2>1. batch[g] = <<>> /\ pc[g] = "new" /\ success[g] = FALSE
      BY DEF Init
    <2> QED
      BY <2>1 DEF Worker
  <1>3. \A m \in Messages, v \in Versions : Kept(m, v)
    BY DEF Init, Kept
  <1> QED
    BY <1>1, <1>2, <1>3 DEF InboxInv

\* Where the message is that a step of g moves: the inbox, g's batch, or its end.
Safe(g, m, v) == \/ m \in Elems(inbox)
                 \/ batch[g] # <<>> /\ Owes(g, m, v)
                 \/ Got(m, v)
                 \/ <<m, v>> \in excused

\* What a step leaves of another goroutine.
SameWorker(g) ==
  /\ batch'[g] = batch[g] /\ pc'[g] = pc[g] /\ versions'[g] = versions[g]
  /\ current'[g] = current[g] /\ nodes'[g] = nodes[g] /\ success'[g] = success[g]

\* What no step takes back.
Grows == /\ \A n \in Nodes, m \in Messages : got[n][m] > 0 => got'[n][m] > 0
         /\ failed \subseteq failed' /\ excused \subseteq excused'

\* What has been received stays received.
LEMMA GotStays ==
  ASSUME Grows, NEW m \in Messages, NEW v \in Versions, Got(m, v)
  PROVE  Got(m, v)'
  BY DEF Grows, Got, Of, Nodes

\* What has been answered stays so.
LEMMA AnsweredStays ==
  ASSUME Grows, NEW m \in Messages, NEW v \in Versions, Answered(m, v)
  PROVE  Answered(m, v)'
  BY GotStays DEF Answered, Grows

\* A goroutine that a step leaves alone keeps its part, and what it owes.
LEMMA OthersStay ==
  ASSUME Grows, NEW h \in Messages, SameWorker(h), Types, Worker(h)
  PROVE  Worker(h)' /\ \A m \in Messages, v \in Versions : Owes(h, m, v) => Owes(h, m, v)'
  <1>1. ASSUME success[h] PROVE Answered(Head(batch[h]), current[h])'
    <2>1. pc[h] = "post" /\ Answered(Head(batch[h]), current[h]) /\ batch[h] # <<>>
          /\ current[h] \in Versions
      BY <1>1 DEF Worker
    <2>2. Head(batch[h]) \in Messages
      BY <2>1, Headed DEF Types
    <2>3. \A m \in Messages, v \in Versions : Answered(m, v) => Answered(m, v)'
      BY AnsweredStays
    <2>4. batch'[h] = batch[h] /\ current'[h] = current[h]
      BY DEF SameWorker
    <2> QED
      BY <2>1, <2>2, <2>3, <2>4 DEF Answered, Got
  <1>2. Worker(h)'
    BY <1>1 DEF Worker, SameWorker, Grows
  <1>3. \A m \in Messages, v \in Versions : Owes(h, m, v) => Owes(h, m, v)'
    BY DEF Owes, SameWorker, Elems
  <1> QED
    BY <1>2, <1>3

\* A step of one goroutine, or a Publish: what it has had is safe after it.
LEMMA OneGoroutine ==
  ASSUME InboxInv, NEW g \in Messages, Types', Worker(g)', Grows,
         \A h \in Messages \ {g} : SameWorker(h),
         \A m \in Messages, v \in Versions :
           \/ m \in Elems(inbox)
           \/ batch[g] # <<>> /\ Owes(g, m, v)
           \/ pc[m] = "new" /\ pc'[m] # "new"
           => Safe(g, m, v)'
  PROVE  InboxInv'
  <1>1. \A h \in Messages : Worker(h)'
    BY OthersStay DEF InboxInv
  <1>2. ASSUME NEW m \in Messages, NEW v \in Versions PROVE Kept(m, v)'
    <2> SUFFICES ASSUME pc'[m] # "new"
                 PROVE  Got(m, v)' \/ Held(m, v)' \/ <<m, v>> \in excused'
      BY DEF Kept
    <2>1. Safe(g, m, v)' => Got(m, v)' \/ Held(m, v)' \/ <<m, v>> \in excused'
      BY DEF Safe, Held
    <2>2. CASE pc[m] = "new" \/ m \in Elems(inbox) \/ (batch[g] # <<>> /\ Owes(g, m, v))
      BY <2>1, <2>2
    <2>3. CASE pc[m] # "new" /\ Got(m, v)
      BY <2>3, GotStays
    <2>4. CASE pc[m] # "new" /\ <<m, v>> \in excused
      BY <2>4 DEF Grows
    <2>5. ASSUME NEW h \in Messages \ {g}, batch[h] # <<>>, Owes(h, m, v)
          PROVE  Held(m, v)'
      <3>1. batch'[h] # <<>> /\ Owes(h, m, v)'
        BY <2>5, OthersStay DEF InboxInv, SameWorker
      <3> QED
        BY <3>1 DEF Held
    <2> QED
      BY <2>2, <2>3, <2>4, <2>5 DEF InboxInv, Kept, Held
  <1> QED
    BY <1>1, <1>2 DEF InboxInv

-----------------------------------------------------------------------------
\* saveMessage: the message is in the inbox, or excused.
LEMMA Saved ==
  ASSUME Types, NEW x \in Messages, SaveMessage(x)
  PROVE  /\ inbox' \in Seq(Messages) /\ Elems(inbox) \subseteq Elems(inbox')
         /\ Elems(inbox') \subseteq Elems(inbox) \cup {x}
         /\ excused \subseteq excused'
         /\ x \in Elems(inbox') \/ {x} \X Versions \subseteq excused'
  <1>1. CASE Len(inbox) < Limit
    <2>1. inbox' = Append(inbox, x) /\ excused' = excused
      BY <1>1 DEF SaveMessage
    <2> QED
      BY <2>1, Appended DEF Types
  <1>2. CASE ~(Len(inbox) < Limit)
    <2>1. inbox' = inbox /\ excused' = excused \cup ({x} \X Versions)
      BY <1>2 DEF SaveMessage
    <2> QED
      BY <2>1 DEF Types
  <1> QED
    BY <1>1, <1>2

\* Publish: its own goroutine has not started.
LEMMA PublishStep ==
  ASSUME InboxInv, NEW g \in Messages, Publish(g)
  PROVE  InboxInv'
  <1> USE DEF InboxInv
  <1>1. /\ pc[g] = "new" /\ pc' = [pc EXCEPT ![g] = "saved"] /\ SaveMessage(g)
        /\ UNCHANGED <<view, batch, versions, current, nodes, success, got, failed, past>>
    BY DEF Publish, goVars, regVars
  <1>2. /\ inbox' \in Seq(Messages) /\ Elems(inbox) \subseteq Elems(inbox')
        /\ excused \subseteq excused'
        /\ g \in Elems(inbox') \/ {g} \X Versions \subseteq excused'
    BY <1>1, Saved
  <1>3. Types'
    BY <1>1, <1>2 DEF Types, Stages
  <1>4. Worker(g)'
    <2>1. pc'[g] = "saved" /\ batch[g] = <<>> /\ ~success[g]
      BY <1>1 DEF Types, Worker
    <2> QED
      BY <1>1, <2>1 DEF Worker
  <1>5. Grows
    BY <1>1, <1>2 DEF Grows
  <1>6. \A h \in Messages \ {g} : SameWorker(h)
    BY <1>1 DEF Types, SameWorker
  <1>7. ASSUME NEW m \in Messages, NEW v \in Versions,
               m \in Elems(inbox) \/ (batch[g] # <<>> /\ Owes(g, m, v))
                 \/ (pc[m] = "new" /\ pc'[m] # "new")
        PROVE  Safe(g, m, v)'
    <2>1. batch[g] = <<>>
      BY <1>1 DEF Worker
    <2>2. m \in Elems(inbox) \/ m = g
      BY <1>7, <1>1, <2>1 DEF Types
    <2>3. m \in Elems(inbox)' \/ <<m, v>> \in excused'
      <3>1. Elems(inbox)' = Elems(inbox')
        BY DEF Elems
      <3> QED
        BY <1>2, <2>2, <3>1
    <2> QED
      BY <2>3 DEF Safe
  <1> QED
    BY <1>3, <1>4, <1>5, <1>6, <1>7, OneGoroutine

\* Lookup and its failures: nothing is taken yet.
LEMMA LookupStep ==
  ASSUME InboxInv, NEW g \in Messages, Lookup(g) \/ LookupFail(g)
  PROVE  InboxInv'
  <1> USE DEF InboxInv
  <1>1. /\ pc[g] = "saved" /\ pc' = [pc EXCEPT ![g] = pc'[g]] /\ pc'[g] \in {"found", "done"}
        /\ view' \in [Messages -> SUBSET Nodes]
        /\ UNCHANGED <<inbox, batch, versions, current, nodes, success, got, failed, excused, past>>
    <2>1. CASE Lookup(g)
      <3>1. Answers \subseteq SUBSET Nodes
        BY DEF Answers, Types
      <3> QED
        BY <2>1, <3>1 DEF Lookup, Types, regVars
    <2>2. CASE LookupFail(g)
      BY <2>2 DEF LookupFail, goVars, regVars, Types
    <2> QED
      BY <2>1, <2>2
  <1>2. Types'
    BY <1>1 DEF Types, Stages
  <1>3. batch[g] = <<>> /\ ~success[g]
    BY <1>1 DEF Worker
  <1>4. Worker(g)'
    BY <1>1, <1>3 DEF Worker
  <1>5. Grows
    BY <1>1 DEF Grows
  <1>6. \A h \in Messages \ {g} : SameWorker(h)
    BY <1>1 DEF Types, SameWorker
  <1>7. \A m \in Messages : pc'[m] # "new" => pc[m] # "new"
    BY <1>1 DEF Types
  <1>8. \A m \in Messages, v \in Versions : m \in Elems(inbox) => Safe(g, m, v)'
    BY <1>1 DEF Safe, Elems
  <1> QED
    BY <1>2, <1>3, <1>4, <1>5, <1>6, <1>7, <1>8, OneGoroutine

\* The goroutine turns to the first message of b: it owes b from now on, but for what
\* nobody has subscribed to.
LEMMA Turned ==
  ASSUME InboxInv, NEW g \in Messages, NEW b \in Seq(Messages), Turn(g, b),
         pc[g] \in {"found", "next"}, inbox' \in Seq(Messages),
         UNCHANGED <<current, nodes, success, got, failed, past>>
  PROVE  /\ Types' /\ Worker(g)' /\ Grows
         /\ \A h \in Messages \ {g} : SameWorker(h)
         /\ \A m \in Messages : pc'[m] # "new" => pc[m] # "new"
         /\ \A m \in Elems(b), v \in Versions : Safe(g, m, v)'
         /\ batch'[g] = b
  <1> USE DEF InboxInv
  <1> DEFINE known == {v \in Versions : Of(v) \cap view[g] # {}}
  <1>1. /\ batch' = [batch EXCEPT ![g] = b]
        /\ versions' = [versions EXCEPT ![g] = IF b = <<>> THEN {} ELSE known]
        /\ pc' = [pc EXCEPT ![g] = IF b = <<>> THEN "done" ELSE "next"]
        /\ view' = IF b = <<>> THEN [view EXCEPT ![g] = {}] ELSE view
        /\ excused' = IF b = <<>> THEN excused
                      ELSE excused \cup ({Head(b)} \X (Versions \ known))
    BY DEF Turn
  <1>2. known \in SUBSET Versions
    OBVIOUS
  <1> HIDE DEF known
  <1>3. Types'
    <2>1. view' \in [Messages -> SUBSET Nodes]
      BY <1>1 DEF Types
    <2>2. versions' \in [Messages -> SUBSET Versions]
      BY <1>1, <1>2 DEF Types
    <2>3. pc' \in [Messages -> Stages]
      BY <1>1 DEF Types, Stages
    <2> QED
      BY <1>1, <2>1, <2>2, <2>3 DEF Types
  <1>4. /\ batch'[g] = b /\ versions'[g] = (IF b = <<>> THEN {} ELSE known)
        /\ pc'[g] = (IF b = <<>> THEN "done" ELSE "next")
    BY <1>1 DEF Types
  <1>5. Worker(g)'
    <2>1. ~success[g]
      BY DEF Worker
    <2> QED
      BY <1>4, <2>1 DEF Worker
  <1>6. Grows
    BY <1>1 DEF Grows
  <1>7. \A h \in Messages \ {g} : SameWorker(h)
    BY <1>1 DEF Types, SameWorker
  <1>8. \A m \in Messages : pc'[m] # "new" => pc[m] # "new"
    BY <1>1 DEF Types
  <1>9. ASSUME NEW m \in Elems(b), NEW v \in Versions PROVE Safe(g, m, v)'
    <2>1. b # <<>>
      BY <1>9 DEF Elems
    <2>2. m = Head(b) \/ m \in Elems(Tail(b))
      BY <2>1, Headed
    <2>3. CASE m \in Elems(Tail(b))
      <3>1. Owes(g, m, v)'
        BY <1>4, <2>3 DEF Owes, Elems
      <3> QED
        BY <1>4, <2>1, <3>1 DEF Safe
    <2>4. CASE m = Head(b) /\ v \in known
      <3>1. Owes(g, m, v)'
        BY <1>4, <2>1, <2>4 DEF Owes
      <3> QED
        BY <1>4, <2>1, <3>1 DEF Safe
    <2>5. CASE m = Head(b) /\ v \notin known
      BY <1>1, <2>1, <2>5 DEF Safe
    <2> QED
      BY <2>2, <2>3, <2>4, <2>5
  <1> QED
    BY <1>3, <1>4, <1>5, <1>6, <1>7, <1>8, <1>9

\* getMessage: what leaves the inbox is the batch.
LEMMA Shared ==
  ASSUME Types
  PROVE  LET a == First(Share)
             b == Rest(Share)
         IN  /\ a \in Seq(Messages) /\ Len(a) = Share /\ \A i \in 1..Share : a[i] = inbox[i]
             /\ b \in Seq(Messages) /\ Len(b) = Len(inbox) - Share
             /\ \A i \in 1..(Len(inbox) - Share) : b[i] = inbox[Share + i]
             /\ Share \in Nat /\ Share <= Len(inbox) /\ Len(inbox) \in Nat
             /\ (Share = 0 => Len(inbox) = 0)
             /\ Elems(inbox) = Elems(a) \cup Elems(b)
  <1> DEFINE a == First(Share)
             b == Rest(Share)
             L == Len(inbox)
             n == Share
  <1>1. L \in Nat /\ inbox \in Seq(Messages)
    BY DEF Types
  <1>2. n \in Nat /\ n <= L /\ (n = 0 => L = 0)
    BY <1>1, NumberAssumption DEF Share
  <1>3. a = SubSeq(inbox, 1, n) /\ b = SubSeq(inbox, n + 1, L)
    BY DEF First, Rest
  <1>4. /\ a \in Seq(Messages) /\ Len(a) = n /\ \A i \in 1..n : a[i] = inbox[i]
        /\ b \in Seq(Messages) /\ Len(b) = L - n
        /\ \A i \in 1..(L - n) : b[i] = inbox[n + i]
    <2> HIDE DEF a, b, n
    <2>1. inbox \in Seq(Messages) /\ n \in Nat /\ n <= Len(inbox)
      BY <1>1, <1>2
    <2> QED
      BY <1>3, <2>1, Parted
  <1>5. Elems(inbox) = Elems(a) \cup Elems(b)
    <2> HIDE DEF a, b, L, n
    <2>1. \A i \in 1..L : i \in 1..n \/ (i - n \in 1..(L - n) /\ n + (i - n) = i)
      BY <1>1, <1>2
    <2>2. (\A i \in 1..n : i \in 1..L) /\ (\A i \in 1..(L - n) : n + i \in 1..L)
      BY <1>1, <1>2
    <2>3. Elems(a) = {inbox[i] : i \in 1..n}
      BY <1>4 DEF Elems
    <2>4. Elems(b) = {inbox[n + i] : i \in 1..(L - n)}
      BY <1>4 DEF Elems
    <2>5. Elems(inbox) = {inbox[i] : i \in 1..L}
      BY DEF Elems, L
    <2>6. \A i \in 1..L : inbox[i] \in Elems(a) \cup Elems(b)
      BY <2>1, <2>3, <2>4
    <2>7. \A x \in Elems(a) \cup Elems(b) : x \in Elems(inbox)
      BY <2>2, <2>3, <2>4, <2>5
    <2> QED
      BY <2>5, <2>6, <2>7
  <1> QED
    BY <1>1, <1>2, <1>4, <1>5

\* A goroutine takes its share of the inbox; what it leaves stays in the inbox.
LEMMA GetMessageStep ==
  ASSUME InboxInv, NEW g \in Messages, GetMessage(g)
  PROVE  InboxInv'
  <1> USE DEF InboxInv
  <1> DEFINE a == First(Share)
             b == Rest(Share)
  <1>1. /\ pc[g] = "found" /\ Turn(g, a) /\ inbox' = b
        /\ UNCHANGED <<current, nodes, success, got, failed, past>>
    BY DEF GetMessage, Fetch, regVars
  <1>2. /\ a \in Seq(Messages) /\ b \in Seq(Messages) /\ Elems(inbox) = Elems(a) \cup Elems(b)
    BY Shared
  <1> HIDE DEF a, b
  <1>3. /\ Types' /\ Worker(g)' /\ Grows
        /\ \A h \in Messages \ {g} : SameWorker(h)
        /\ \A m \in Messages : pc'[m] # "new" => pc[m] # "new"
        /\ \A m \in Elems(a), v \in Versions : Safe(g, m, v)'
    BY <1>1, <1>2, Turned
  <1>4. \A m \in Elems(b), v \in Versions : Safe(g, m, v)'
    BY <1>1 DEF Safe, Elems
  <1>5. batch[g] = <<>>
    BY <1>1 DEF Worker
  <1> QED
    BY <1>2, <1>3, <1>4, <1>5, OneGoroutine

\* The next message of the batch: the last one has gone to all services.
LEMMA ServedStep ==
  ASSUME InboxInv, NEW g \in Messages, Served(g)
  PROVE  InboxInv'
  <1> USE DEF InboxInv
  <1>1. /\ pc[g] = "next" /\ versions[g] = {} /\ Turn(g, Tail(batch[g]))
        /\ UNCHANGED <<inbox, current, nodes, success, got, failed, past>>
    BY DEF Served, regVars
  <1>2. batch[g] # <<>> /\ batch[g] \in Seq(Messages) /\ inbox' \in Seq(Messages)
    BY <1>1 DEF Worker, Types
  <1>3. Tail(batch[g]) \in Seq(Messages)
    BY <1>2, Headed
  <1>4. /\ Types' /\ Worker(g)' /\ Grows
        /\ \A h \in Messages \ {g} : SameWorker(h)
        /\ \A m \in Messages : pc'[m] # "new" => pc[m] # "new"
        /\ \A m \in Elems(Tail(batch[g])), v \in Versions : Safe(g, m, v)'
    BY <1>1, <1>2, <1>3, Turned
  <1>5. \A m \in Messages, v \in Versions : Owes(g, m, v) => m \in Elems(Tail(batch[g]))
    BY <1>1 DEF Owes
  <1>6. \A m \in Elems(inbox), v \in Versions : Safe(g, m, v)'
    BY <1>1 DEF Safe, Elems
  <1> QED
    BY <1>4, <1>5, <1>6, OneGoroutine

\* A service is chosen: what was to go to it is being posted.
LEMMA ServeStep ==
  ASSUME InboxInv, NEW g \in Messages, Serve(g)
  PROVE  InboxInv'
  <1> USE DEF InboxInv
  <1>1. PICK v0 \in versions[g], n0 \in view[g] :
          /\ n0 \in Of(v0)
          /\ nodes' = [nodes EXCEPT ![g] = IF v0 = "broadcast" THEN Of(v0) \cap view[g] ELSE {n0}]
          /\ versions' = [versions EXCEPT ![g] = versions[g] \ {v0}]
          /\ current' = [current EXCEPT ![g] = v0]
    BY DEF Serve
  <1>2. /\ pc[g] = "next" /\ pc' = [pc EXCEPT ![g] = "post"]
        /\ UNCHANGED <<inbox, view, batch, success, got, failed, excused, past>>
    BY DEF Serve, regVars
  <1>3. v0 \in Versions /\ view[g] \in SUBSET Nodes /\ versions[g] \in SUBSET Versions
    BY DEF Types
  <1>4. Types'
    BY <1>1, <1>2, <1>3 DEF Types, Stages
  <1>5. /\ nodes'[g] = (IF v0 = "broadcast" THEN Of(v0) \cap view[g] ELSE {n0})
        /\ versions'[g] = versions[g] \ {v0} /\ current'[g] = v0 /\ pc'[g] = "post"
        /\ batch'[g] = batch[g] /\ success'[g] = success[g]
    BY <1>1, <1>2 DEF Types
  <1>6. Worker(g)'
    <2>1. ~success[g] /\ batch[g] # <<>>
      BY <1>2 DEF Worker
    <2>2. v0 = "queue" => n0 \in Queue
      BY <1>1 DEF Of
    <2> QED
      BY <1>1, <1>3, <1>5, <2>1, <2>2 DEF Worker
  <1>7. Grows
    BY <1>2 DEF Grows
  <1>8. \A h \in Messages \ {g} : SameWorker(h)
    BY <1>1, <1>2 DEF Types, SameWorker
  <1>9. \A m \in Messages, v \in Versions : Owes(g, m, v) => Owes(g, m, v)'
    BY <1>2, <1>5 DEF Owes, Elems
  <1>10. \A m \in Messages, v \in Versions :
           m \in Elems(inbox) \/ (batch[g] # <<>> /\ Owes(g, m, v)) => Safe(g, m, v)'
    BY <1>2, <1>9 DEF Safe, Elems
  <1>11. \A m \in Messages : pc'[m] # "new" => pc[m] # "new"
    BY <1>2 DEF Types
  <1> QED
    BY <1>4, <1>6, <1>7, <1>8, <1>10, <1>11, OneGoroutine

\* What a post does: the counts of one subscriber and one message, failed and excused.
Effect(g, x, c, n, ok, arrived) ==
  /\ x = Head(batch[g]) /\ c = current[g] /\ pc[g] = "post"
  /\ batch[g] # <<>> /\ batch[g] \in Seq(Messages) /\ c \notin versions[g]
  /\ n \in Of(c) /\ n \in Nodes /\ nodes[g] \subseteq Of(c)
  /\ Posted(g, n, ok)
  /\ past' = past
  /\ failed' = IF ok THEN failed ELSE failed \cup {x}
  /\ excused' = IF ok /\ ~arrived THEN excused \cup {<<x, c>>} ELSE excused
  /\ got' \in [Nodes -> [Messages -> Nat]]
  /\ \A k \in Nodes, m \in Messages :
       got'[k][m] = IF arrived /\ k = n /\ m = x THEN got[k][m] + 1 ELSE got[k][m]

\* Every outcome of a post has such an effect.
LEMMA PostEffect ==
  ASSUME InboxInv, NEW g \in Messages, PostOk(g) \/ PostUnheard(g) \/ PostFail(g)
  PROVE  \E x \in Messages, c \in Versions, n \in nodes[g], ok \in BOOLEAN, arrived \in BOOLEAN :
           Effect(g, x, c, n, ok, arrived)
  <1> USE DEF InboxInv
  <1>0. PICK x \in Messages, c \in Versions : x = Head(batch[g]) /\ c = current[g]
    <2>1. pc[g] = "post"
      BY DEF PostOk, PostUnheard, PostFail
    <2> QED
      BY <2>1, Headed DEF Worker, Types
  <1>1. PICK n \in nodes[g], ok \in BOOLEAN, arrived \in BOOLEAN :
          /\ Posted(g, n, ok)
          /\ got' = IF arrived THEN [got EXCEPT ![n] = [got[n] EXCEPT ![x] = @ + 1]] ELSE got
          /\ failed' = IF ok THEN failed ELSE failed \cup {x}
          /\ excused' = IF ok /\ ~arrived THEN excused \cup {<<x, c>>} ELSE excused
    <2>1. CASE PostOk(g)
      BY <1>0, <2>1 DEF PostOk
    <2>2. CASE PostUnheard(g)
      BY <1>0, <2>2 DEF PostUnheard
    <2>3. CASE PostFail(g)
      <3>1. PICK n \in nodes[g], came \in BOOLEAN :
              /\ Posted(g, n, FALSE)
              /\ got' = IF came /\ n \in handlers
                        THEN [got EXCEPT ![n][x] = @ + 1] ELSE got
        BY <1>0, <2>3 DEF PostFail
      <3>2. failed' = failed \cup {x} /\ excused' = excused
        BY <1>0, <2>3 DEF PostFail
      <3>3. CASE came /\ n \in handlers
        BY <3>1, <3>2, <3>3
      <3>4. CASE ~(came /\ n \in handlers)
        BY <3>1, <3>2, <3>4
      <3> QED
        BY <3>3, <3>4
    <2> QED
      BY <2>1, <2>2, <2>3
  <1>3. pc[g] = "post"
    BY DEF PostOk, PostUnheard, PostFail
  <1>4. /\ batch[g] # <<>> /\ batch[g] \in Seq(Messages) /\ c \notin versions[g]
        /\ n \in Of(c) /\ n \in Nodes /\ nodes[g] \subseteq Of(c)
    BY <1>0, <1>3 DEF Worker, Types
  <1>5. got' \in [Nodes -> [Messages -> Nat]]
        /\ \A k \in Nodes, m \in Messages :
             got'[k][m] = IF arrived /\ k = n /\ m = x THEN got[k][m] + 1 ELSE got[k][m]
    <2>1. CASE arrived
      <3>1. got' = [got EXCEPT ![n] = [got[n] EXCEPT ![x] = @ + 1]]
        BY <1>1, <2>1
      <3>2. [got[n] EXCEPT ![x] = @ + 1] \in [Messages -> Nat]
        BY <1>4 DEF Types
      <3>3. got' \in [Nodes -> [Messages -> Nat]]
        BY <3>1, <3>2 DEF Types
      <3>4. \A k \in Nodes, m \in Messages :
              got'[k][m] = IF k = n /\ m = x THEN got[k][m] + 1 ELSE got[k][m]
        BY <1>4, <3>1 DEF Types
      <3> QED
        BY <2>1, <3>3, <3>4
    <2>2. CASE ~arrived
      <3>1. got' = got
        BY <1>1, <2>2
      <3> QED
        BY <2>2, <3>1 DEF Types
    <2> QED
      BY <2>1, <2>2
  <1>6. /\ Posted(g, n, ok) /\ past' = past
        /\ failed' = IF ok THEN failed ELSE failed \cup {x}
        /\ excused' = IF ok /\ ~arrived THEN excused \cup {<<x, c>>} ELSE excused
    BY <1>1 DEF Posted, regVars
  <1> HIDE DEF InboxInv
  <1>7. Effect(g, x, c, n, ok, arrived)
    BY <1>0, <1>3, <1>4, <1>5, <1>6 DEF Effect
  <1> QED
    BY <1>7

\* One post: the service is owed no more when it was the last, and one has succeeded.
LEMMA PostStep ==
  ASSUME InboxInv, NEW g \in Messages, PostOk(g) \/ PostUnheard(g) \/ PostFail(g)
  PROVE  InboxInv'
  <1> USE DEF InboxInv
  <1>1. PICK x \in Messages, c \in Versions, n \in nodes[g], ok \in BOOLEAN, arrived \in BOOLEAN :
           Effect(g, x, c, n, ok, arrived)
    BY PostEffect
  <1> USE DEF Effect
  <1> DEFINE more == nodes[g] \ {n}
             yes == ok \/ success[g]
  <1>2. /\ nodes' = [nodes EXCEPT ![g] = more]
        /\ success' = [success EXCEPT ![g] = yes /\ more # {}]
        /\ current' = [current EXCEPT ![g] = IF more = {} /\ yes THEN "none" ELSE current[g]]
        /\ pc' = [pc EXCEPT ![g] = IF more # {} THEN "post"
                                   ELSE IF yes THEN "next" ELSE "save"]
        /\ UNCHANGED <<inbox, view, batch, versions>>
    BY <1>1 DEF Posted
  <1> HIDE DEF more
  <1>6. Grows
    <2>1. ASSUME NEW k \in Nodes, NEW m \in Messages, got[k][m] > 0
          PROVE  got'[k][m] > 0
      <3>1. got[k][m] \in Nat
        BY DEF Types
      <3> QED
        BY <1>1, <2>1, <3>1
    <2>2. failed \subseteq failed' /\ excused \subseteq excused'
      BY <1>1
    <2> QED
      BY <2>1, <2>2 DEF Grows
  <1>7. ok => Answered(x, c)'
    <2>1. ok /\ arrived => got'[n][x] > 0
      BY <1>1 DEF Types
    <2>2. ok /\ ~arrived => <<x, c>> \in excused'
      BY <1>1
    <2> QED
      BY <1>1, <2>1, <2>2 DEF Answered, Got, Of
  <1>8. success[g] => Answered(x, c)'
    <2>1. success[g] => Answered(x, c)
      BY <1>1 DEF Worker
    <2> QED
      BY <1>6, <2>1, AnsweredStays
  <1>9. Types'
    <2>1. more \in SUBSET Nodes
      BY DEF Types, more
    <2>2. nodes' \in [Messages -> SUBSET Nodes]
      BY <1>2, <2>1 DEF Types
    <2>3. success' = [h \in Messages |-> success'[h]]
      BY <1>2 DEF Types
    <2>4. current' \in [Messages -> Versions \cup {"none"}]
      BY <1>2 DEF Types
    <2>5. pc' \in [Messages -> Stages]
      BY <1>2 DEF Types, Stages
    <2> QED
      BY <1>2, <1>1, <2>2, <2>3, <2>4, <2>5 DEF Types
  <1>10. /\ nodes'[g] = more /\ (success'[g] <=> yes /\ more # {})
         /\ current'[g] = (IF more = {} /\ yes THEN "none" ELSE current[g])
         /\ pc'[g] = (IF more # {} THEN "post" ELSE IF yes THEN "next" ELSE "save")
         /\ batch'[g] = batch[g] /\ versions'[g] = versions[g]
    BY <1>2 DEF Types
  <1>11. Worker(g)'
    <2>1. Head(batch'[g]) = x
      BY <1>1, <1>10
    <2>2. more \subseteq nodes[g] /\ (c = "queue" => more = {})
      BY <1>1 DEF more, Worker
    <2>3. CASE more # {}
      <3>1. /\ pc'[g] = "post" /\ current'[g] = c /\ nodes'[g] = more
            /\ (success'[g] => yes)
        BY <1>1, <1>10, <2>3
      <3>2. success'[g] => Answered(x, c)'
        BY <1>7, <1>8, <3>1
      <3>3. success'[g] => Answered(Head(batch[g]), current[g])'
        BY <2>1, <3>1, <3>2 DEF Answered, Got
      <3> QED
        BY <1>1, <1>10, <2>2, <2>3, <3>1, <3>3 DEF Worker
    <2>4. CASE more = {} /\ yes
      <3>1. pc'[g] = "next" /\ ~success'[g]
        BY <1>10, <2>4
      <3> QED
        BY <1>1, <1>10, <3>1 DEF Worker
    <2>5. CASE more = {} /\ ~yes
      <3>1. pc'[g] = "save" /\ ~success'[g] /\ current'[g] = c
        BY <1>1, <1>10, <2>5
      <3>2. x \in failed'
        BY <1>1, <2>5
      <3> QED
        BY <1>1, <1>10, <2>1, <3>1, <3>2 DEF Worker
    <2> QED
      BY <2>3, <2>4, <2>5
  <1>12. \A h \in Messages \ {g} : SameWorker(h)
    BY <1>2 DEF Types, SameWorker
  <1>13. ASSUME NEW m \in Messages, NEW v \in Versions, Owes(g, m, v)
         PROVE  Owes(g, m, v)' \/ Answered(m, v)'
    <2>1. CASE m \in Elems(Tail(batch[g])) \/ (m = x /\ v \in versions[g])
      BY <1>1, <1>10, <2>1 DEF Owes, Elems
    <2>2. CASE m = x /\ c = v /\ (more # {} \/ ~yes)
      BY <1>1, <1>10, <2>2 DEF Owes
    <2>3. CASE m = x /\ c = v /\ more = {} /\ yes
      BY <1>7, <1>8, <2>3
    <2> QED
      BY <1>1, <1>13, <2>1, <2>2, <2>3 DEF Owes
  <1>14. \A m \in Messages, v \in Versions :
           m \in Elems(inbox) \/ (batch[g] # <<>> /\ Owes(g, m, v)) => Safe(g, m, v)'
    BY <1>2, <1>10, <1>13 DEF Safe, Answered, Elems
  <1>15. \A m \in Messages : pc'[m] # "new" => pc[m] # "new"
    BY <1>2, <1>1 DEF Types
  <1> QED
    BY <1>6, <1>9, <1>11, <1>12, <1>14, <1>15, OneGoroutine

\* No node of the service has accepted the message: it goes back to the inbox.
LEMMA SaveAgainStep ==
  ASSUME InboxInv, NEW g \in Messages, SaveAgain(g)
  PROVE  InboxInv'
  <1> USE DEF InboxInv
  <1> DEFINE x == Head(batch[g])
  <1>1. /\ pc[g] = "save" /\ SaveMessage(x) /\ pc' = [pc EXCEPT ![g] = "next"]
        /\ current' = [current EXCEPT ![g] = "none"]
        /\ UNCHANGED <<view, batch, versions, nodes, success, got, failed, past>>
    BY DEF SaveAgain, regVars
  <1>2. batch[g] # <<>> /\ x \in Messages /\ ~success[g]
    BY <1>1, Headed DEF Worker, Types
  <1>3. /\ inbox' \in Seq(Messages) /\ Elems(inbox) \subseteq Elems(inbox')
        /\ excused \subseteq excused'
        /\ x \in Elems(inbox') \/ {x} \X Versions \subseteq excused'
    BY <1>1, <1>2, Saved
  <1>4. Types'
    BY <1>1, <1>3 DEF Types, Stages
  <1>5. pc'[g] = "next" /\ current'[g] = "none" /\ batch'[g] = batch[g]
        /\ versions'[g] = versions[g] /\ success'[g] = success[g]
    BY <1>1 DEF Types
  <1>6. Worker(g)'
    BY <1>2, <1>5 DEF Worker
  <1>7. Grows
    BY <1>1, <1>3 DEF Grows
  <1>8. \A h \in Messages \ {g} : SameWorker(h)
    BY <1>1 DEF Types, SameWorker
  <1>9. Elems(inbox)' = Elems(inbox')
    BY DEF Elems
  <1>10. ASSUME NEW m \in Messages, NEW v \in Versions, Owes(g, m, v) PROVE Safe(g, m, v)'
    <2>1. CASE m = x
      BY <1>3, <1>9, <2>1 DEF Safe
    <2>2. CASE m # x
      <3>1. m \in Elems(Tail(batch[g]))
        BY <1>10, <2>2 DEF Owes
      <3>2. Owes(g, m, v)'
        BY <1>5, <3>1 DEF Owes, Elems
      <3> QED
        BY <1>2, <1>5, <3>2 DEF Safe
    <2> QED
      BY <2>1, <2>2
  <1>11. \A m \in Elems(inbox), v \in Versions : Safe(g, m, v)'
    BY <1>3, <1>9 DEF Safe
  <1>12. \A m \in Messages : pc'[m] # "new" => pc[m] # "new"
    BY <1>1 DEF Types
  <1> QED
    BY <1>4, <1>6, <1>7, <1>8, <1>10, <1>11, <1>12, OneGoroutine

\* The registry changes, and nothing else; or nothing does.
LEMMA RegistryStep ==
  ASSUME InboxInv, UNCHANGED <<inbox, pc, goVars, got, failed, excused>>,
         past' \in {past, Answers}
  PROVE  InboxInv'
  <1> USE DEF InboxInv
  <1>1. Types'
    BY DEF Types, Answers, goVars
  <1>2. \A g \in Messages : Worker(g)'
    BY DEF Worker, Answered, Got, goVars
  <1>3. \A m \in Messages, v \in Versions : Kept(m, v)'
    BY DEF Kept, Got, Held, Owes, Elems, goVars
  <1> QED
    BY <1>1, <1>2, <1>3

-----------------------------------------------------------------------------
\* Every step keeps the invariant.
LEMMA NextInbox == InboxInv /\ [Next]_vars => InboxInv'
  <1> SUFFICES ASSUME InboxInv, [Next]_vars PROVE InboxInv'
    OBVIOUS
  <1>1. CASE \E m \in Messages : Publish(m) \/ Goroutine(m)
    BY <1>1, PublishStep, LookupStep, GetMessageStep, ServeStep, PostStep, SaveAgainStep,
       ServedStep DEF Goroutine
  <1>2. CASE Registry
    BY <1>2, RegistryStep DEF Registry, Subscribe, SubscribeFail, Unsubscribe, Expire, Changed
  <1>3. CASE UNCHANGED vars
    BY <1>3, RegistryStep DEF vars, regVars
  <1> QED
    BY <1>1, <1>2, <1>3 DEF Next

\* So it always holds.
LEMMA AlwaysInbox == Spec => []InboxInv
  BY InitInbox, NextInbox, PTL DEF Spec

\* Nothing that was published is lost: httpBroker's saveMessage, getMessage and the
\* goroutines of Publish hand a message on until each version has got it, but for a full
\* inbox, a version nobody has subscribed with, and a post that was answered although its
\* subscriber was gone.
THEOREM MessagesKept == Spec => []AtLeastOnce
  <1>1. InboxInv => AtLeastOnce
    BY DEF InboxInv, AtLeastOnce, Kept
  <1> QED
    BY <1>1, AlwaysInbox, PTL

-----------------------------------------------------------------------------
(***************************************************************************)
(* NoNeedlessCopy.  A message whose posts have all succeeded is in one     *)
(* place, and nobody it has still to go to has got it.                     *)
(***************************************************************************)
Once(q, m) == \A i, j \in 1..Len(q) : q[i] = m /\ q[j] = m => i = j
Fresh(m)   == \A n \in Nodes : got[n][m] = 0

Unseen(m) == pc[m] = "new" =>
  m \notin Elems(inbox) /\ \A g \in Messages : m \notin Elems(batch[g])

Placed(m) ==
  /\ Once(inbox, m) /\ \A g \in Messages : Once(batch[g], m)
  /\ m \in Elems(inbox) => \A g \in Messages : m \notin Elems(batch[g])
  /\ \A g, h \in Messages : m \in Elems(batch[g]) /\ m \in Elems(batch[h]) => g = h

\* The message g is at has not been given to those g has still to post it to.
Untried(g, m) == batch[g] # <<>> /\ m = Head(batch[g]) =>
  /\ \A v \in versions[g] : \A n \in Of(v) : got[n][m] = 0
  /\ pc[g] = "post" => \A n \in nodes[g] : got[n][m] = 0
  /\ pc[g] = "post" /\ current[g] = "queue" => \A n \in Queue : got[n][m] = 0

Counted(m) ==
  /\ pc[m] = "new" \/ m \in Elems(inbox) => Fresh(m)
  /\ \A g \in Messages : batch[g] # <<>> /\ m \in Elems(Tail(batch[g])) => Fresh(m)
  /\ \A g \in Messages : Untried(g, m)
  /\ \A n \in Nodes : got[n][m] < 2
  /\ \A n1, n2 \in Queue : got[n1][m] > 0 /\ got[n2][m] > 0 => n1 = n2

CopyInv == /\ \A m \in Messages : Unseen(m)
           /\ \A m \in Messages \ failed : Placed(m) /\ Counted(m)

\* A new last element, and the first one gone.
LEMMA OnceAppended ==
  ASSUME NEW q \in Seq(Messages), NEW x \in Messages, NEW m \in Messages,
         Once(q, m), m # x \/ x \notin Elems(q)
  PROVE  Once(Append(q, x), m)
  <1> DEFINE r == Append(q, x)
  <1>1. Len(r) = Len(q) + 1 /\ Len(q) \in Nat
    OBVIOUS
  <1>2. r[Len(q) + 1] = x /\ \A i \in 1..Len(q) : r[i] = q[i]
    OBVIOUS
  <1> HIDE DEF r
  <1>3. \A i \in 1..Len(r) : i \in 1..Len(q) \/ i = Len(q) + 1
    BY <1>1
  <1>4. Once(r, m)
    BY <1>2, <1>3 DEF Once, Elems
  <1> QED
    BY <1>4 DEF r

\* A message that is once in a batch is not in the rest when it is at the head.
LEMMA OnceTail ==
  ASSUME NEW q \in Seq(Messages), q # <<>>, NEW m \in Messages, Once(q, m)
  PROVE  Once(Tail(q), m) /\ (m = Head(q) => m \notin Elems(Tail(q)))
  <1> DEFINE r == Tail(q)
  <1>1. Len(r) = Len(q) - 1 /\ Len(q) \in Nat /\ Len(q) # 0
    OBVIOUS
  <1>2. Head(q) = q[1] /\ 1 \in 1..Len(q)
    BY <1>1
  <1>3. \A i \in 1..Len(r) : r[i] = q[i + 1]
    BY <1>1
  <1> HIDE DEF r
  <1>4. \A i \in 1..Len(r) : i + 1 \in 1..Len(q) /\ i + 1 # 1
    BY <1>1
  <1>5. \A i, j \in 1..Len(r) : i + 1 = j + 1 => i = j
    BY <1>1
  <1>6. Once(r, m)
    BY <1>3, <1>4, <1>5 DEF Once
  <1>7. m = Head(q) => m \notin Elems(r)
    BY <1>2, <1>3, <1>4 DEF Once, Elems
  <1> QED
    BY <1>6, <1>7 DEF r

\* The batch and what stays in the inbox have no message in common.
LEMMA OnceShared ==
  ASSUME Types, NEW m \in Messages, Once(inbox, m)
  PROVE  /\ Once(First(Share), m) /\ Once(Rest(Share), m)
         /\ m \in Elems(First(Share)) => m \notin Elems(Rest(Share))
  <1> DEFINE a == First(Share)
             b == Rest(Share)
             L == Len(inbox)
             n == Share
  <1>1. /\ Len(a) = n /\ \A i \in 1..n : a[i] = inbox[i]
        /\ Len(b) = L - n /\ \A i \in 1..(L - n) : b[i] = inbox[n + i]
        /\ n \in Nat /\ n <= L /\ L \in Nat
    BY Shared
  <1>2. \A i, j \in 1..L : inbox[i] = m /\ inbox[j] = m => i = j
    BY DEF Once
  <1> HIDE DEF a, b, L, n
  <1>3. (\A i \in 1..n : i \in 1..L) /\ (\A i \in 1..(L - n) : n + i \in 1..L)
    BY <1>1
  <1>4. \A i, j \in 1..(L - n) : n + i = n + j => i = j
    BY <1>1
  <1>5. \A i \in 1..n, j \in 1..(L - n) : i # n + j
    BY <1>1
  <1>6. Once(a, m)
    BY <1>1, <1>2, <1>3 DEF Once
  <1>7. Once(b, m)
    <2> SUFFICES ASSUME NEW i \in 1..Len(b), NEW j \in 1..Len(b), b[i] = m, b[j] = m
                 PROVE  i = j
      BY DEF Once
    <2>1. i \in 1..(L - n) /\ j \in 1..(L - n)
      BY <1>1
    <2>2. inbox[n + i] = m /\ inbox[n + j] = m
      BY <1>1, <2>1
    <2>3. n + i = n + j
      BY <1>2, <1>3, <2>1, <2>2
    <2> QED
      BY <1>4, <2>1, <2>3
  <1>8. m \in Elems(a) => m \notin Elems(b)
    <2> SUFFICES ASSUME NEW i \in 1..Len(a), NEW j \in 1..Len(b), a[i] = m, b[j] = m
                 PROVE  FALSE
      BY DEF Elems
    <2>1. i \in 1..n /\ j \in 1..(L - n)
      BY <1>1
    <2>2. inbox[i] = m /\ inbox[n + j] = m
      BY <1>1, <2>1
    <2>3. i = n + j
      BY <1>2, <1>3, <2>1, <2>2
    <2> QED
      BY <1>5, <2>1, <2>3
  <1> QED
    BY <1>6, <1>7, <1>8 DEF a, b

\* Before the first Publish.
LEMMA InitCopy == Init => CopyInv
  <1> SUFFICES ASSUME Init PROVE CopyInv
    OBVIOUS
  <1>1. inbox = <<>> /\ \A g \in Messages : batch[g] = <<>>
    BY DEF Init
  <1>2. \A n \in Nodes, m \in Messages : got[n][m] = 0
    BY DEF Init
  <1>3. Elems(<<>>) = {} /\ \A m \in Messages : Once(<<>>, m)
    BY DEF Elems, Once
  <1>4. \A m \in Messages : Unseen(m)
    BY <1>1, <1>3 DEF Unseen
  <1>5. \A m \in Messages : Placed(m)
    BY <1>1, <1>3 DEF Placed
  <1>6. \A m \in Messages : Fresh(m)
    BY <1>2 DEF Fresh
  <1>7. \A m \in Messages : Counted(m)
    <2>1. \A n \in Nodes, m \in Messages : got[n][m] < 2 /\ ~(got[n][m] > 0)
      BY <1>2
    <2>2. \A g, m \in Messages : Untried(g, m)
      BY <1>1 DEF Untried
    <2> QED
      BY <1>1, <1>6, <2>1, <2>2 DEF Counted, Nodes
  <1> QED
    BY <1>4, <1>5, <1>7 DEF CopyInv

\* A step that moves messages to g or from it, and gives none to a subscriber.
LEMMA MovesOnly ==
  ASSUME Types, CopyInv, NEW g \in Messages, UNCHANGED <<got, failed>>,
         \A h \in Messages \ {g} : SameWorker(h),
         \A m \in Messages : pc'[m] = "new" =>
           pc[m] = "new" /\ m \notin Elems(inbox') /\ m \notin Elems(batch'[g]),
         \A m \in Messages \ failed :
           /\ Once(inbox', m) /\ Once(batch'[g], m)
           /\ m \in Elems(inbox') => /\ m \notin Elems(batch'[g])
                                     /\ m \in Elems(inbox) \/ pc[m] = "new"
           /\ m \in Elems(batch'[g]) => m \in Elems(inbox) \/ m \in Elems(batch[g])
           /\ batch'[g] # <<>> /\ m \in Elems(Tail(batch'[g])) => Fresh(m)
           /\ Untried(g, m)'
  PROVE  CopyInv'
  <1>1. \A h \in Messages \ {g} : batch'[h] = batch[h]
    BY DEF SameWorker
  <1>2. Elems(inbox)' = Elems(inbox') /\ \A h \in Messages : Elems(batch[h])' = Elems(batch'[h])
    BY DEF Elems
  <1>3. \A m \in Messages : Fresh(m)' <=> Fresh(m)
    BY DEF Fresh
  <1>4. ASSUME NEW m \in Messages PROVE Unseen(m)'
    BY <1>1, <1>2 DEF CopyInv, Unseen
  <1>5. ASSUME NEW m \in Messages \ failed PROVE Placed(m)'
    <2>1. Placed(m) /\ Unseen(m)
      BY DEF CopyInv
    <2>2. Once(inbox, m)' /\ \A h \in Messages : Once(batch[h], m)'
      <3>1. Once(inbox', m) /\ \A h \in Messages : Once(batch'[h], m)
        BY <1>1, <2>1 DEF Placed
      <3> QED
        BY <3>1 DEF Once
    <2>3. m \in Elems(inbox') => \A h \in Messages : m \notin Elems(batch'[h])
      BY <1>1, <2>1 DEF Placed, Unseen
    <2>4. \A h \in Messages : m \in Elems(batch'[h]) /\ m \in Elems(batch'[g]) => h = g
      BY <1>1, <2>1 DEF Placed
    <2>5. \A h, k \in Messages : m \in Elems(batch'[h]) /\ m \in Elems(batch'[k]) => h = k
      BY <1>1, <2>1, <2>4 DEF Placed
    <2> QED
      BY <1>2, <2>2, <2>3, <2>5 DEF Placed
  <1>6. ASSUME NEW m \in Messages \ failed PROVE Counted(m)'
    <2>1. Counted(m)
      BY DEF CopyInv
    <2>2. pc'[m] = "new" \/ m \in Elems(inbox') => Fresh(m)
      BY <2>1 DEF Counted
    <2>3. \A h \in Messages : batch'[h] # <<>> /\ m \in Elems(Tail(batch'[h])) => Fresh(m)
      BY <1>1, <2>1 DEF Counted
    <2>4. \A h \in Messages : Elems(Tail(batch[h]))' = Elems(Tail(batch'[h]))
      BY DEF Elems
    <2>5. \A h \in Messages \ {g} : Untried(h, m)'
      BY <2>1 DEF Counted, Untried, SameWorker
    <2> QED
      BY <1>2, <1>3, <2>1, <2>2, <2>3, <2>4, <2>5 DEF Counted
  <1> QED
    BY <1>4, <1>5, <1>6 DEF CopyInv

\* Publish: a message nobody has seen.
LEMMA PublishCopy ==
  ASSUME InboxInv, CopyInv, NEW g \in Messages, Publish(g)
  PROVE  CopyInv'
  <1>1. /\ pc[g] = "new" /\ pc' = [pc EXCEPT ![g] = "saved"] /\ SaveMessage(g)
        /\ UNCHANGED <<view, batch, versions, current, nodes, success, got, failed>>
    BY DEF Publish, goVars
  <1>2. Types /\ batch[g] = <<>>
    BY <1>1 DEF InboxInv, Worker
  <1>3. Elems(inbox') \subseteq Elems(inbox) \cup {g}
    BY <1>1, <1>2, Saved
  <1>4. g \notin Elems(inbox)
    BY <1>1 DEF CopyInv, Unseen
  <1>5. \A m \in Messages \ failed : Once(inbox', m)
    <2>1. \A m \in Messages \ failed : Once(inbox, m) /\ Once(Append(inbox, g), m)
      BY <1>2, <1>4, OnceAppended DEF CopyInv, Placed, Types
    <2>2. inbox' = inbox \/ inbox' = Append(inbox, g)
      BY <1>1 DEF SaveMessage
    <2> QED
      BY <2>1, <2>2
  <1>6. \A h \in Messages \ {g} : SameWorker(h)
    BY <1>1, <1>2 DEF Types, SameWorker
  <1>7. Elems(<<>>) = {} /\ \A m \in Messages : Once(<<>>, m)
    BY DEF Elems, Once
  <1>8. \A m \in Messages : pc'[m] = "new" => pc[m] = "new" /\ m # g
    BY <1>1, <1>2 DEF Types
  <1>9. \A m \in Messages : pc'[m] = "new" => pc[m] = "new" /\ m \notin Elems(inbox')
    BY <1>3, <1>8 DEF CopyInv, Unseen
  <1>10. \A m \in Messages : Untried(g, m)'
    BY <1>1, <1>2 DEF Untried
  <1>11. \A m \in Elems(inbox') : m \in Elems(inbox) \/ pc[m] = "new"
    BY <1>1, <1>3
  <1> QED
    BY <1>1, <1>2, <1>5, <1>6, <1>7, <1>9, <1>10, <1>11, MovesOnly

\* The lookup, the choice of a service and the registry move no message.
LEMMA StillCopy ==
  ASSUME InboxInv, CopyInv, NEW g \in Messages, UNCHANGED <<inbox, got, failed>>,
         batch'[g] = batch[g], \A h \in Messages \ {g} : SameWorker(h),
         \A m \in Messages : pc'[m] = "new" => pc[m] = "new",
         \A m \in Messages \ failed : Untried(g, m)'
  PROVE  CopyInv'
  <1>1. \A m \in Messages : pc'[m] = "new" =>
          pc[m] = "new" /\ m \notin Elems(inbox') /\ m \notin Elems(batch'[g])
    BY DEF CopyInv, Unseen
  <1>2. \A m \in Messages \ failed :
           /\ Once(inbox', m) /\ Once(batch'[g], m)
           /\ m \in Elems(inbox') => m \notin Elems(batch'[g]) /\ m \in Elems(inbox)
           /\ m \in Elems(batch'[g]) => m \in Elems(batch[g])
           /\ batch'[g] # <<>> /\ m \in Elems(Tail(batch'[g])) => Fresh(m)
    BY DEF CopyInv, Placed, Counted
  <1> QED
    BY <1>1, <1>2, MovesOnly DEF InboxInv

\* The lookup of a Publish moves no message.
LEMMA LookupCopy ==
  ASSUME InboxInv, CopyInv, NEW g \in Messages, Lookup(g) \/ LookupFail(g)
  PROVE  CopyInv'
  <1>1. /\ pc[g] = "saved" /\ \E to \in {"found", "done"} : pc' = [pc EXCEPT ![g] = to]
        /\ UNCHANGED <<inbox, batch, versions, current, nodes, success, got, failed>>
    BY DEF Lookup, LookupFail, goVars
  <1>2. Types /\ batch[g] = <<>>
    BY <1>1 DEF InboxInv, Worker
  <1>3. \A h \in Messages \ {g} : SameWorker(h)
    BY <1>1, <1>2 DEF Types, SameWorker
  <1>4. \A m \in Messages : pc'[m] = "new" => pc[m] = "new"
    BY <1>1, <1>2 DEF Types
  <1>5. \A m \in Messages : Untried(g, m)'
    BY <1>1, <1>2 DEF Untried
  <1> QED
    BY <1>1, <1>3, <1>4, <1>5, StillCopy

\* Choosing the next service moves no message, and asks for nobody who has it.
LEMMA ServeCopy ==
  ASSUME InboxInv, CopyInv, NEW g \in Messages, Serve(g)
  PROVE  CopyInv'
  <1>1. PICK v0 \in versions[g], n0 \in view[g] :
          /\ n0 \in Of(v0)
          /\ nodes' = [nodes EXCEPT ![g] = IF v0 = "broadcast" THEN Of(v0) \cap view[g] ELSE {n0}]
          /\ versions' = [versions EXCEPT ![g] = versions[g] \ {v0}]
          /\ current' = [current EXCEPT ![g] = v0]
    BY DEF Serve
  <1>2. /\ pc[g] = "next" /\ pc' = [pc EXCEPT ![g] = "post"]
        /\ UNCHANGED <<inbox, view, batch, success, got, failed, excused>>
    BY DEF Serve
  <1>3. Types
    BY DEF InboxInv
  <1>4. /\ nodes'[g] = (IF v0 = "broadcast" THEN Of(v0) \cap view[g] ELSE {n0})
        /\ versions'[g] = versions[g] \ {v0} /\ current'[g] = v0 /\ batch'[g] = batch[g]
    BY <1>1, <1>2, <1>3 DEF Types
  <1>5. \A h \in Messages \ {g} : SameWorker(h)
    BY <1>1, <1>2, <1>3 DEF Types, SameWorker
  <1>6. \A m \in Messages : pc'[m] = "new" => pc[m] = "new"
    BY <1>2, <1>3 DEF Types
  <1>7. ASSUME NEW m \in Messages \ failed PROVE Untried(g, m)'
    <2> SUFFICES ASSUME batch[g] # <<>>, m = Head(batch[g])
                 PROVE  /\ \A v \in versions'[g] : \A n \in Of(v) : got[n][m] = 0
                        /\ \A n \in nodes'[g] : got[n][m] = 0
                        /\ current'[g] = "queue" => \A n \in Queue : got[n][m] = 0
      BY <1>2 DEF Untried, Of
    <2>1. \A v \in versions[g] : \A n \in Of(v) : got[n][m] = 0
      BY DEF CopyInv, Counted, Untried
    <2>2. \A n \in nodes'[g] : n \in Of(v0)
      BY <1>1, <1>4
    <2>3. v0 = "queue" => Of(v0) = Queue
      BY DEF Of
    <2> QED
      BY <1>4, <2>1, <2>2, <2>3
  <1> QED
    BY <1>2, <1>4, <1>5, <1>6, <1>7, StillCopy

\* Changes of the registry move no message.
LEMMA RegistryCopy ==
  ASSUME InboxInv, CopyInv, UNCHANGED <<inbox, pc, goVars, got, failed, excused>>
  PROVE  CopyInv'
  <1>1. \A m \in Messages : Unseen(m)'
    BY DEF CopyInv, Unseen, Elems, goVars
  <1>2. \A m \in Messages \ failed : Placed(m)'
    <2>1. inbox' = inbox /\ batch' = batch
      BY DEF goVars
    <2>2. \A m \in Messages : /\ Once(inbox, m) => Once(inbox, m)'
                             /\ \A g \in Messages : Once(batch[g], m) => Once(batch[g], m)'
      BY <2>1 DEF Once
    <2>3. Elems(inbox)' = Elems(inbox) /\ \A g \in Messages : Elems(batch[g])' = Elems(batch[g])
      BY <2>1 DEF Elems
    <2> QED
      BY <2>2, <2>3 DEF CopyInv, Placed
  <1>3. \A m \in Messages \ failed : Counted(m)'
    <2>1. UNCHANGED <<inbox, pc, batch, versions, current, nodes, got>>
      BY DEF goVars
    <2>2. \A m \in Messages : (Fresh(m) <=> Fresh(m)')
      BY <2>1 DEF Fresh
    <2>3. \A g, m \in Messages : Untried(g, m) => Untried(g, m)'
      BY <2>1 DEF Untried
    <2>4. /\ Elems(inbox)' = Elems(inbox)
          /\ \A g \in Messages : Elems(Tail(batch[g]))' = Elems(Tail(batch[g]))
      BY <2>1 DEF Elems
    <2> QED
      BY <2>1, <2>2, <2>3, <2>4 DEF CopyInv, Counted
  <1> QED
    BY <1>1, <1>2, <1>3 DEF CopyInv

\* getMessage: the batch is made of what was in the inbox.
LEMMA GetMessageCopy ==
  ASSUME InboxInv, CopyInv, NEW g \in Messages, GetMessage(g)
  PROVE  CopyInv'
  <1> DEFINE a == First(Share)
             b == Rest(Share)
  <1>1. /\ pc[g] = "found" /\ Turn(g, a) /\ inbox' = b
        /\ UNCHANGED <<current, nodes, success, got, failed, past>>
    BY DEF GetMessage, Fetch, regVars
  <1>2. Types /\ batch[g] = <<>>
    BY <1>1 DEF InboxInv, Worker
  <1>3. /\ a \in Seq(Messages) /\ b \in Seq(Messages) /\ Elems(inbox) = Elems(a) \cup Elems(b)
    BY <1>2, Shared
  <1>4. \A m \in Messages \ failed :
          /\ Once(a, m) /\ Once(b, m) /\ (m \in Elems(a) => m \notin Elems(b))
    BY <1>2, OnceShared DEF CopyInv, Placed
  <1> HIDE DEF a, b
  <1>5. /\ \A h \in Messages \ {g} : SameWorker(h)
        /\ \A m \in Messages : pc'[m] # "new" => pc[m] # "new"
        /\ batch'[g] = a
    BY <1>1, <1>3, Turned
  <1>6. \A m \in Messages : pc'[m] = "new" => pc[m] = "new"
    <2>1. pc' = [pc EXCEPT ![g] = pc'[g]] /\ pc'[g] # "new"
      BY <1>1, <1>2 DEF Turn, Types
    <2> QED
      BY <1>2, <2>1 DEF Types
  <1>7. \A m \in Messages \ failed : m \in Elems(inbox) => Fresh(m)
    BY DEF CopyInv, Counted
  <1>8. a # <<>> => Elems(a) = {Head(a)} \cup Elems(Tail(a))
    BY <1>3, Headed
  <1>9. ASSUME NEW m \in Messages \ failed PROVE Untried(g, m)'
    <2>1. versions'[g] \subseteq Versions /\ pc'[g] # "post"
      BY <1>1, <1>2 DEF Turn, Types
    <2>2. batch'[g] # <<>> /\ m = Head(batch'[g]) => Fresh(m)
      BY <1>3, <1>5, <1>7, <1>8
    <2> QED
      BY <1>1, <2>1, <2>2 DEF Untried, Fresh, Of, Nodes
  <1>10. \A m \in Messages : pc'[m] = "new" =>
           pc[m] = "new" /\ m \notin Elems(inbox') /\ m \notin Elems(batch'[g])
    BY <1>1, <1>3, <1>5, <1>6 DEF CopyInv, Unseen
  <1>11. \A m \in Messages \ failed :
           /\ Once(inbox', m) /\ Once(batch'[g], m)
           /\ m \in Elems(inbox') => m \notin Elems(batch'[g]) /\ m \in Elems(inbox)
           /\ m \in Elems(batch'[g]) => m \in Elems(inbox)
           /\ batch'[g] # <<>> /\ m \in Elems(Tail(batch'[g])) => Fresh(m)
    BY <1>1, <1>3, <1>4, <1>5, <1>7, <1>8
  <1> QED
    BY <1>1, <1>2, <1>5, <1>9, <1>10, <1>11, MovesOnly

\* A goroutine done with its batch leaves nothing to post.
LEMMA ServedCopy ==
  ASSUME InboxInv, CopyInv, NEW g \in Messages, Served(g)
  PROVE  CopyInv'
  <1>1. /\ pc[g] = "next" /\ Turn(g, Tail(batch[g]))
        /\ UNCHANGED <<inbox, current, nodes, success, got, failed, past>>
    BY DEF Served, regVars
  <1>2. Types /\ batch[g] # <<>> /\ batch[g] \in Seq(Messages) /\ inbox' \in Seq(Messages)
    BY <1>1 DEF InboxInv, Worker, Types
  <1>3. PICK b \in Seq(Messages) : b = Tail(batch[g])
    BY <1>2, Headed
  <1>4. /\ \A h \in Messages \ {g} : SameWorker(h)
        /\ batch'[g] = b
    BY <1>1, <1>2, <1>3, Turned
  <1>5. Elems(batch[g]) = {Head(batch[g])} \cup Elems(b)
    BY <1>2, <1>3, Headed
  <1>6. b # <<>> => Elems(b) = {Head(b)} \cup Elems(Tail(b))
    BY Headed
  <1>7. \A m \in Messages : pc'[m] = "new" => pc[m] = "new"
    <2>1. pc' = [pc EXCEPT ![g] = pc'[g]] /\ pc'[g] # "new"
      BY <1>1, <1>2 DEF Turn, Types
    <2> QED
      BY <1>2, <2>1 DEF Types
  <1>8. \A m \in Messages \ failed : m \in Elems(b) => Fresh(m)
    BY <1>2, <1>3 DEF CopyInv, Counted
  <1>9. ASSUME NEW m \in Messages \ failed PROVE Untried(g, m)'
    <2>1. versions'[g] \subseteq Versions /\ pc'[g] # "post"
      BY <1>1, <1>2 DEF Turn, Types
    <2>2. batch'[g] # <<>> /\ m = Head(batch'[g]) => Fresh(m)
      BY <1>4, <1>6, <1>8
    <2> QED
      BY <1>1, <2>1, <2>2 DEF Untried, Fresh, Of, Nodes
  <1>10. \A m \in Messages : pc'[m] = "new" =>
           pc[m] = "new" /\ m \notin Elems(inbox') /\ m \notin Elems(batch'[g])
    BY <1>1, <1>4, <1>5, <1>7 DEF CopyInv, Unseen
  <1>11. \A m \in Messages \ failed : Once(b, m)
    BY <1>2, <1>3, OnceTail DEF CopyInv, Placed
  <1>12. \A m \in Messages \ failed :
           /\ Once(inbox', m) /\ Once(batch'[g], m)
           /\ m \in Elems(inbox') => m \notin Elems(batch'[g]) /\ m \in Elems(inbox)
           /\ m \in Elems(batch'[g]) => m \in Elems(batch[g])
           /\ batch'[g] # <<>> /\ m \in Elems(Tail(batch'[g])) => Fresh(m)
    BY <1>1, <1>4, <1>5, <1>6, <1>8, <1>11 DEF CopyInv, Placed
  <1> QED
    BY <1>1, <1>2, <1>4, <1>9, <1>10, <1>12, MovesOnly

\* What is saved again is a message one of whose posts has failed.
LEMMA SaveAgainCopy ==
  ASSUME InboxInv, CopyInv, NEW g \in Messages, SaveAgain(g)
  PROVE  CopyInv'
  <1> DEFINE x == Head(batch[g])
  <1>1. /\ pc[g] = "save" /\ SaveMessage(x) /\ pc' = [pc EXCEPT ![g] = "next"]
        /\ current' = [current EXCEPT ![g] = "none"]
        /\ UNCHANGED <<view, batch, versions, nodes, success, got, failed>>
    BY DEF SaveAgain
  <1>2. Types /\ batch[g] # <<>> /\ batch[g] \in Seq(Messages) /\ x \in failed
    BY <1>1 DEF InboxInv, Worker, Types
  <1>3. x \in Messages /\ x \in Elems(batch[g])
    BY <1>2, Headed
  <1> HIDE DEF x
  <1>4. pc[x] # "new"
    BY <1>3 DEF CopyInv, Unseen
  <1>5. Elems(inbox') \subseteq Elems(inbox) \cup {x}
    BY <1>1, <1>2, <1>3, Saved
  <1>6. \A m \in Messages \ failed : Once(inbox', m)
    <2>1. \A m \in Messages \ failed : Once(inbox, m) /\ Once(Append(inbox, x), m)
      BY <1>2, <1>3, OnceAppended DEF CopyInv, Placed, Types
    <2>2. inbox' = inbox \/ inbox' = Append(inbox, x)
      BY <1>1 DEF SaveMessage
    <2> QED
      BY <2>1, <2>2
  <1>7. \A h \in Messages \ {g} : SameWorker(h)
    BY <1>1, <1>2 DEF Types, SameWorker
  <1>8. \A m \in Messages : pc'[m] = "new" => pc[m] = "new"
    BY <1>1, <1>2 DEF Types
  <1>9. pc'[g] = "next"
    BY <1>1, <1>2 DEF Types
  <1>10. \A m \in Messages \ failed : Untried(g, m)'
    BY <1>1, <1>9 DEF CopyInv, Counted, Untried
  <1>11. \A m \in Messages : pc'[m] = "new" =>
           pc[m] = "new" /\ m \notin Elems(inbox') /\ m \notin Elems(batch'[g])
    BY <1>1, <1>4, <1>5, <1>8 DEF CopyInv, Unseen
  <1>12. \A m \in Messages \ failed :
           /\ Once(inbox', m) /\ Once(batch'[g], m)
           /\ m \in Elems(inbox') => m \notin Elems(batch'[g]) /\ m \in Elems(inbox)
           /\ batch'[g] # <<>> /\ m \in Elems(Tail(batch'[g])) => Fresh(m)
    BY <1>1, <1>2, <1>5, <1>6 DEF CopyInv, Placed, Counted
  <1> QED
    BY <1>1, <1>2, <1>7, <1>10, <1>11, <1>12, MovesOnly

\* A post that is answered gives its message to one who has not got it, or to nobody.
LEMMA PostCopy ==
  ASSUME InboxInv, CopyInv, NEW g \in Messages, PostOk(g) \/ PostUnheard(g) \/ PostFail(g)
  PROVE  CopyInv'
  <1>1. PICK x \in Messages, c \in Versions, n \in nodes[g], ok \in BOOLEAN, arrived \in BOOLEAN :
           Effect(g, x, c, n, ok, arrived)
    BY PostEffect
  <1> USE DEF Effect
  <1> DEFINE more == nodes[g] \ {n}
  <1>2. /\ nodes' = [nodes EXCEPT ![g] = more]
        /\ \E to \in Versions \cup {"none"} : current' = [current EXCEPT ![g] = to]
        /\ \E to \in {"post", "next", "save"} : pc' = [pc EXCEPT ![g] = to]
        /\ more = {} => pc'[g] # "post"
        /\ more # {} => current' = current
        /\ UNCHANGED <<inbox, batch, versions>>
    <2>1. Types
      BY DEF InboxInv
    <2> QED
      BY <1>1, <2>1 DEF Posted, Types
  <1>3. Types
    BY DEF InboxInv
  <1>4. /\ nodes'[g] = more /\ versions'[g] = versions[g]
        /\ \A h \in Messages \ {g} : nodes'[h] = nodes[h] /\ current'[h] = current[h]
                                     /\ pc'[h] = pc[h]
    BY <1>2, <1>3 DEF Types
  <1>5. \A m \in Messages : pc'[m] = "new" <=> pc[m] = "new"
    BY <1>1, <1>2, <1>3 DEF Types
  <1>6. Elems(inbox)' = Elems(inbox) /\ \A h \in Messages : Elems(batch[h])' = Elems(batch[h])
    BY <1>2 DEF Elems
  <1>7. \A m \in Messages : Unseen(m)'
    BY <1>5, <1>6 DEF CopyInv, Unseen
  <1>8. \A m \in Messages \ failed' : Placed(m)'
    <2>1. \A m \in Messages : /\ Once(inbox, m) => Once(inbox, m)'
                             /\ \A h \in Messages : Once(batch[h], m) => Once(batch[h], m)'
      BY <1>2 DEF Once
    <2> QED
      BY <1>1, <1>6, <2>1 DEF CopyInv, Placed
  <1>9. \A h \in Messages : Elems(Tail(batch[h]))' = Elems(Tail(batch[h]))
    BY <1>2 DEF Elems
  <1>10. ASSUME NEW m \in Messages \ failed', m # x PROVE Counted(m)'
    <2>1. Counted(m) /\ \A k \in Nodes : got'[k][m] = got[k][m]
      BY <1>1, <1>10 DEF CopyInv
    <2>2. Fresh(m) => Fresh(m)'
      BY <2>1 DEF Fresh
    <2>3. \A h \in Messages : Untried(h, m)'
      <3>1. Untried(g, m)'
        BY <1>1, <1>2, <1>10 DEF Untried
      <3>2. ASSUME NEW h \in Messages \ {g} PROVE Untried(h, m)'
        <4>1. /\ versions[h] \subseteq Versions /\ nodes[h] \subseteq Nodes
              /\ \A v \in Versions : Of(v) \subseteq Nodes
              /\ Queue \subseteq Nodes
          BY <1>3 DEF Types, Of, Nodes
        <4>2. Untried(h, m)
          BY <2>1 DEF Counted
        <4> QED
          BY <1>2, <1>4, <2>1, <4>1, <4>2 DEF Untried, Of
      <3> QED
        BY <3>1, <3>2
    <2>4. \A k \in Nodes : got'[k][m] < 2
      BY <2>1 DEF Counted
    <2>5. \A n1, n2 \in Queue : got'[n1][m] > 0 /\ got'[n2][m] > 0 => n1 = n2
      BY <2>1 DEF Counted, Nodes
    <2> QED
      BY <1>2, <1>5, <1>6, <1>9, <2>1, <2>2, <2>3, <2>4, <2>5 DEF Counted
  <1>11. ASSUME x \notin failed' PROVE Counted(x)'
    <2>1. ok /\ x \notin failed
      BY <1>1, <1>11
    <2>2. /\ \A k \in Nodes : got'[k][x] \in {got[k][x], IF k = n THEN got[k][x] + 1 ELSE got[k][x]}
          /\ \A k \in Nodes : got[k][x] \in Nat
      <3>1. \A k \in Nodes : got'[k][x] \in {got[k][x], IF k = n THEN got[k][x] + 1 ELSE got[k][x]}
        BY <1>1, <2>1
      <3>2. \A k \in Nodes : got[k][x] \in Nat
        BY <1>3 DEF Types
      <3> QED
        BY <3>1, <3>2
    <2>3. x \in Elems(batch[g]) /\ x \notin Elems(Tail(batch[g]))
      <3>1. Once(batch[g], x)
        BY <2>1 DEF CopyInv, Placed
      <3> QED
        BY <1>1, <3>1, Headed, OnceTail
    <2>4. /\ pc[x] # "new" /\ x \notin Elems(inbox)
          /\ \A h \in Messages \ {g} : x \notin Elems(batch[h])
      BY <2>1, <2>3 DEF CopyInv, Unseen, Placed
    <2>5. \A h \in Messages : batch[h] # <<>> =>
            x \notin Elems(Tail(batch[h])) /\ (x = Head(batch[h]) => h = g)
      <3>1. \A h \in Messages : batch[h] # <<>> =>
              Elems(batch[h]) = {Head(batch[h])} \cup Elems(Tail(batch[h]))
        BY <1>3, Headed DEF Types
      <3> QED
        BY <2>3, <2>4, <3>1
    <2>6. /\ \A v \in versions[g] : \A k \in Of(v) : got[k][x] = 0
          /\ \A k \in nodes[g] : got[k][x] = 0
          /\ c = "queue" => \A k \in Queue : got[k][x] = 0
          /\ \A k \in Nodes : got[k][x] < 2
          /\ \A n1, n2 \in Queue : got[n1][x] > 0 /\ got[n2][x] > 0 => n1 = n2
      BY <1>1, <2>1 DEF CopyInv, Counted, Untried
    <2>7. \A v \in versions[g] : \A k \in Of(v) : k # n /\ k \in Nodes
      <3>1. versions[g] \subseteq Versions
        BY <1>3 DEF Types
      <3> QED
        BY <1>1, <3>1, SubscriberAssumption DEF Of, Nodes, Versions
    <2>8. Untried(g, x)'
      <3>1. \A v \in versions'[g] : \A k \in Of(v) : got'[k][x] = 0
        BY <1>4, <2>2, <2>6, <2>7
      <3>2. \A k \in nodes'[g] : got'[k][x] = 0
        <4>1. \A k \in more : k \in Nodes /\ k # n /\ k \in nodes[g]
          BY <1>3 DEF Types
        <4> QED
          BY <1>4, <2>2, <2>6, <4>1
      <3>3. pc'[g] = "post" /\ current'[g] = "queue" => FALSE
        <4>1. pc'[g] = "post" => more # {} /\ current'[g] = c
          BY <1>1, <1>2
        <4>2. c = "queue" => \E k \in Queue : nodes[g] = {k}
          BY <1>1 DEF InboxInv, Worker
        <4>3. c = "queue" => more = {}
          BY <4>2
        <4> QED
          BY <4>1, <4>3
      <3> QED
        BY <3>1, <3>2, <3>3 DEF Untried, Of
    <2>9. \A h \in Messages : Untried(h, x)'
      BY <1>2, <2>5, <2>8 DEF Untried
    <2>10. \A k \in Nodes : got'[k][x] < 2
      BY <2>2, <2>6
    <2>11. \A n1, n2 \in Queue : got'[n1][x] > 0 /\ got'[n2][x] > 0 => n1 = n2
      <3>1. n \in Queue => c = "queue"
        BY <1>1, SubscriberAssumption DEF Of, Versions
      <3>2. Queue \subseteq Nodes
        BY DEF Nodes
      <3>3. CASE n \in Queue
        <4>1. \A k \in Queue : got'[k][x] > 0 => k = n
          BY <2>2, <2>6, <3>1, <3>2, <3>3
        <4> QED
          BY <4>1
      <3>4. CASE n \notin Queue
        <4>1. \A k \in Queue : got'[k][x] = got[k][x]
          BY <2>2, <3>2, <3>4
        <4> QED
          BY <2>6, <4>1
      <3> QED
        BY <3>3, <3>4
    <2> QED
      BY <1>2, <1>5, <1>6, <1>9, <2>4, <2>5, <2>9, <2>10, <2>11 DEF Counted
  <1> QED
    BY <1>7, <1>8, <1>10, <1>11 DEF CopyInv

\* Every step keeps the second invariant.
LEMMA NextCopy == InboxInv /\ CopyInv /\ [Next]_vars => CopyInv'
  <1> SUFFICES ASSUME InboxInv, CopyInv, [Next]_vars PROVE CopyInv'
    OBVIOUS
  <1>1. CASE \E m \in Messages : Publish(m) \/ Goroutine(m)
    BY <1>1, PublishCopy, LookupCopy, GetMessageCopy, ServeCopy, PostCopy, SaveAgainCopy,
       ServedCopy DEF Goroutine
  <1>2. CASE Registry
    BY <1>2, RegistryCopy DEF Registry, Subscribe, SubscribeFail, Unsubscribe, Expire, Changed
  <1>3. CASE UNCHANGED vars
    BY <1>3, RegistryCopy DEF vars
  <1> QED
    BY <1>1, <1>2, <1>3 DEF Next

\* A message none of whose posts has failed is given once to each subscriber and to one
\* of a queue: overlapping goroutines of Publish never share what getMessage hands out.
THEOREM CopiesNeeded == Spec => []NoNeedlessCopy
  <1>1. CopyInv => NoNeedlessCopy
    BY DEF CopyInv, Counted, NoNeedlessCopy
  <1> QED
    BY <1>1, AlwaysInbox, InitCopy, NextCopy, PTL DEF Spec
=============================================================================
