--------------------------- MODULE ConnPoolProofs ---------------------------
(***************************************************************************)
(* ConnPool for any number of goroutines, nodes, connections, pool sizes   *)
(* and ttls: its types, and that no connection is shared, lost, or handed  *)
(* out closed or to the wrong node.                                        *)
(***************************************************************************)
EXTENDS ConnPool, TLAPS

(* Popping to position k keeps the first k elements where they were.       *)
LEMMA PrefixStack ==
    ASSUME NEW S, NEW s \in Seq(S), NEW k \in 0 .. Len(s)
    PROVE  /\ SubSeq(s, 1, k) \in Seq(S)
           /\ Len(SubSeq(s, 1, k)) = k
           /\ \A i \in 1 .. k : SubSeq(s, 1, k)[i] = s[i]
  OBVIOUS

(* Pushing keeps every element where it was and adds one on top.           *)
LEMMA PushStack ==
    ASSUME NEW S, NEW s \in Seq(S), NEW x \in S
    PROVE  /\ Append(s, x) \in Seq(S)
           /\ Len(Append(s, x)) = Len(s) + 1
           /\ \A i \in 1 .. Len(s) : Append(s, x)[i] = s[i]
           /\ Append(s, x)[Len(s) + 1] = x
  OBVIOUS

-----------------------------------------------------------------------------
(* Every variable keeps its type, and a goroutine holds a connection       *)
(* exactly between getConn and release, in every behaviour of the pool.    *)
THEOREM TypeCorrect == Spec => []TypeOK
  <1>1. Init => TypeOK
    BY PoolAssumption DEF Init, TypeOK
  <1>2. TypeOK /\ [Next]_poolVars => TypeOK'
    <2> SUFFICES ASSUME TypeOK, [Next]_poolVars PROVE TypeOK'
      OBVIOUS
    <2> USE PoolAssumption DEF TypeOK
    <2>1. ASSUME NEW u \in Users, NEW a \in Addrs, GetPooled(u, a) PROVE TypeOK'
      <3>1. PICK i \in Slots(a) :
              /\ open' = open \ {conns[a][j] : j \in (i + 1) .. Len(conns[a])}
              /\ conns' = [conns EXCEPT ![a] = SubSeq(conns[a], 1, i - 1)]
              /\ held' = [held EXCEPT ![u] = conns[a][i]]
        BY <2>1 DEF GetPooled, Below
      <3>2. conns[a] \in Seq(Conns) /\ i \in 1 .. Len(conns[a]) /\ conns[a][i] \in Conns
        BY DEF Slots
      <3>3. SubSeq(conns[a], 1, i - 1) \in Seq(Conns)
        BY <3>2, PrefixStack
      <3> QED
        BY <2>1, <3>1, <3>2, <3>3 DEF GetPooled
    <2>2. ASSUME NEW u \in Users, NEW a \in Addrs, GetMiss(u, a) PROVE TypeOK'
      BY <2>2 DEF GetMiss
    <2>3. ASSUME NEW u \in Users, NEW c \in Conns, Dial(u, c) PROVE TypeOK'
      BY <2>3 DEF Dial
    <2>4. ASSUME NEW u \in Users, DialFail(u) PROVE TypeOK'
      BY <2>4 DEF DialFail
    <2>5. ASSUME NEW u \in Users, NEW failed \in BOOLEAN, Release(u, failed) PROVE TypeOK'
      <3>1. held[u] \in Conns /\ addr[u] \in Addrs
        BY <2>5 DEF Release
      <3>2. Append(conns[addr[u]], held[u]) \in Seq(Conns)
        BY <3>1, PushStack
      <3> QED
        BY <2>5, <3>1, <3>2 DEF Release
    <2>6. ASSUME NEW s \in Sizes, NEW t \in Ttls, Configure(s, t) PROVE TypeOK'
      BY <2>6 DEF Configure
    <2>7. ASSUME Tick PROVE TypeOK'
      BY <2>7 DEF Tick
    <2>8. ASSUME UNCHANGED poolVars PROVE TypeOK'
      BY <2>8 DEF poolVars
    <2> QED
      BY <2>1, <2>2, <2>3, <2>4, <2>5, <2>6, <2>7, <2>8 DEF Next, GetConn
  <1> QED
    BY <1>1, <1>2, PTL DEF Spec

-----------------------------------------------------------------------------
(* No property below is inductive alone: that a dialled identity is new    *)
(* needs Usable, that killing idle connections hurts no borrower needs     *)
(* Exclusive.  Together they are.                                          *)
PoolInv == TypeOK /\ Exclusive /\ Usable /\ NoLeak

LEMMA InitPoolInv == Init => PoolInv
  BY PoolAssumption
  DEF Init, PoolInv, TypeOK, Exclusive, PooledOnce, LentOnce, NotBoth, Usable,
      NoLeak, Slots

(* getConn pops the stack of one address: what is left on it keeps its     *)
(* place, what was above is closed, and no borrower is affected.           *)
LEMMA PoppedInv ==
    ASSUME PoolInv, TypeOK', NEW a \in Addrs, NEW k \in 0 .. Len(conns[a]),
           conns' = [conns EXCEPT ![a] = SubSeq(conns[a], 1, k)]
    PROVE  /\ \A b \in Addrs : Slots(b)' \subseteq Slots(b)
           /\ Slots(a)' = 1 .. k
           /\ \A b \in Addrs : b # a => Slots(b)' = Slots(b)
           /\ \A b \in Addrs : \A i \in Slots(b)' : conns'[b][i] = conns[b][i]
  <1>1. conns[a] \in Seq(Conns) /\ conns \in [Addrs -> Seq(Conns)]
    BY DEF PoolInv, TypeOK
  <1>2. /\ Len(conns'[a]) = k
        /\ \A i \in 1 .. k : conns'[a][i] = conns[a][i]
    BY <1>1, PrefixStack
  <1>3. \A b \in Addrs : b # a => conns'[b] = conns[b]
    BY <1>1
  <1> QED
    BY <1>1, <1>2, <1>3 DEF Slots

LEMMA GetPooledInv ==
    ASSUME PoolInv, TypeOK', NEW u \in Users, NEW a \in Addrs, GetPooled(u, a)
    PROVE  PoolInv'
  <1>1. PICK k \in Slots(a) :
          /\ open' = open \ {conns[a][j] : j \in (k + 1) .. Len(conns[a])}
          /\ conns' = [conns EXCEPT ![a] = SubSeq(conns[a], 1, k - 1)]
          /\ held' = [held EXCEPT ![u] = conns[a][k]]
    BY DEF GetPooled, Below
  <1>2. /\ k \in 1 .. Len(conns[a])
        /\ k - 1 \in 0 .. Len(conns[a])
        /\ conns[a] \in Seq(Conns)
    BY DEF Slots, PoolInv, TypeOK
  <1>3. /\ \A b \in Addrs : Slots(b)' \subseteq Slots(b)
        /\ Slots(a)' = 1 .. (k - 1)
        /\ \A b \in Addrs : b # a => Slots(b)' = Slots(b)
        /\ \A b \in Addrs : \A i \in Slots(b)' : conns'[b][i] = conns[b][i]
    BY <1>1, <1>2, PoppedInv
  <1>4. /\ addr' = [addr EXCEPT ![u] = a]
        /\ peer' = peer
        /\ held[u] = NoConn
        /\ \A v \in Users : v # u => held'[v] = held[v] /\ addr'[v] = addr[v]
        /\ held'[u] = conns[a][k] /\ addr'[u] = a
    BY <1>1 DEF GetPooled, PoolInv, TypeOK
  <1>5. PooledOnce /\ LentOnce /\ NotBoth /\ Usable
    BY DEF PoolInv, Exclusive
  <1>6. PooledOnce'
    BY <1>3, <1>5 DEF PooledOnce
  <1>7. LentOnce'
    <2> SUFFICES ASSUME NEW v \in Users, NEW w \in Users, held'[v] # NoConn,
                        held'[v] = held'[w]
                 PROVE  v = w
      BY DEF LentOnce
    <2>1. CASE v # u /\ w # u
      BY <2>1, <1>4, <1>5 DEF LentOnce
    <2>2. CASE v = u /\ w # u
      BY <2>2, <1>1, <1>4, <1>5 DEF NotBoth
    <2>3. CASE v # u /\ w = u
      BY <2>3, <1>1, <1>4, <1>5 DEF NotBoth
    <2> QED
      BY <2>1, <2>2, <2>3
  <1>8. NotBoth'
    <2> SUFFICES ASSUME NEW v \in Users, NEW b \in Addrs, NEW i \in Slots(b)'
                 PROVE  conns'[b][i] # held'[v]
      BY DEF NotBoth
    <2>1. i \in Slots(b) /\ conns'[b][i] = conns[b][i]
      BY <1>3
    <2>2. CASE v # u
      BY <2>1, <2>2, <1>4, <1>5 DEF NotBoth
    <2>3. CASE v = u
      <3>1. conns[b][i] = conns[a][k] => b = a /\ i = k
        BY <2>1, <1>1, <1>5 DEF PooledOnce
      <3> QED
        BY <2>1, <2>3, <3>1, <1>2, <1>3, <1>4
    <2> QED
      BY <2>2, <2>3
  <1>9. Usable'
    <2>1. ASSUME NEW b \in Addrs, NEW i \in Slots(b)'
          PROVE  conns'[b][i] \in open' /\ peer'[conns'[b][i]] = b
      <3>1. i \in Slots(b) /\ conns'[b][i] = conns[b][i]
        BY <1>3
      <3>2. conns[b][i] \in open /\ peer[conns[b][i]] = b
        BY <3>1, <1>5 DEF Usable
      <3>3. ASSUME NEW j \in (k + 1) .. Len(conns[a]) PROVE conns[b][i] # conns[a][j]
        <4>1. j \in Slots(a) /\ (b = a => i # j)
          BY <1>2, <1>3 DEF Slots
        <4> QED
          BY <3>1, <4>1, <1>5 DEF PooledOnce
      <3> QED
        BY <3>1, <3>2, <3>3, <1>1, <1>4
    <2>2. ASSUME NEW v \in Users, held'[v] # NoConn
          PROVE  held'[v] \in open' /\ peer'[held'[v]] = addr'[v]
      <3>1. CASE v # u
        <4>1. held[v] \in open /\ peer[held[v]] = addr[v]
          BY <2>2, <3>1, <1>4, <1>5 DEF Usable
        <4>2. \A j \in (k + 1) .. Len(conns[a]) : held[v] # conns[a][j]
          BY <1>2, <1>5 DEF NotBoth, Slots
        <4> QED
          BY <3>1, <4>1, <4>2, <1>1, <1>4
      <3>2. CASE v = u
        <4>1. conns[a][k] \in open /\ peer[conns[a][k]] = a
          BY <1>1, <1>5 DEF Usable
        <4>2. \A j \in (k + 1) .. Len(conns[a]) : conns[a][k] # conns[a][j]
          BY <1>2, <1>5 DEF PooledOnce, Slots
        <4> QED
          BY <3>2, <4>1, <4>2, <1>1, <1>4
      <3> QED
        BY <3>1, <3>2
    <2> QED
      BY <2>1, <2>2 DEF Usable
  <1>10. NoLeak'
    <2> SUFFICES ASSUME NEW c \in open' PROVE Pooled(c)' \/ Lent(c)'
      BY DEF NoLeak
    <2>1. c \in open /\ \A j \in (k + 1) .. Len(conns[a]) : c # conns[a][j]
      BY <1>1
    <2>2. CASE Lent(c)
      <3>1. PICK v \in Users : held[v] = c
        BY <2>2 DEF Lent
      <3>2. v # u
        BY <3>1, <1>4, <2>1, PoolAssumption DEF PoolInv, TypeOK
      <3> QED
        BY <3>1, <3>2, <1>4 DEF Lent
    <2>3. CASE Pooled(c)
      <3>1. PICK b \in Addrs : \E i \in Slots(b) : conns[b][i] = c
        BY <2>3 DEF Pooled
      <3>2. PICK i \in Slots(b) : conns[b][i] = c
        BY <3>1
      <3>3. CASE b = a /\ i = k
        BY <3>2, <3>3, <1>4 DEF Lent
      <3>4. CASE ~(b = a /\ i = k)
        <4>1. i \in Slots(b)'
          BY <3>2, <3>4, <2>1, <1>2, <1>3 DEF Slots
        <4> QED
          BY <4>1, <3>2, <1>3 DEF Pooled
      <3> QED
        BY <3>3, <3>4
    <2> QED
      BY <2>1, <2>2, <2>3 DEF PoolInv, NoLeak
  <1> QED
    BY <1>6, <1>7, <1>8, <1>9, <1>10 DEF PoolInv, Exclusive

LEMMA GetMissInv ==
    ASSUME PoolInv, TypeOK', NEW u \in Users, NEW a \in Addrs, GetMiss(u, a)
    PROVE  PoolInv'
  <1>1. /\ open' = open \ {conns[a][i] : i \in Slots(a)}
        /\ conns'[a] = <<>> /\ Slots(a)' = {}
        /\ \A b \in Addrs : b # a => conns'[b] = conns[b] /\ Slots(b)' = Slots(b)
        /\ held' = held /\ peer' = peer
        /\ held[u] = NoConn
        /\ \A v \in Users : v # u => addr'[v] = addr[v]
    BY DEF GetMiss, PoolInv, TypeOK, Slots
  <1>2. PooledOnce /\ LentOnce /\ NotBoth /\ Usable
    BY DEF PoolInv, Exclusive
  <1>3. PooledOnce' /\ LentOnce' /\ NotBoth'
    BY <1>1, <1>2 DEF PooledOnce, LentOnce, NotBoth
  <1>4. Usable'
    <2>1. ASSUME NEW b \in Addrs, NEW i \in Slots(b)'
          PROVE  conns'[b][i] \in open' /\ peer'[conns'[b][i]] = b
      BY <1>1, <1>2 DEF Usable, PooledOnce
    <2>2. ASSUME NEW v \in Users, held'[v] # NoConn
          PROVE  held'[v] \in open' /\ peer'[held'[v]] = addr'[v]
      BY <1>1, <1>2, <2>2 DEF Usable, NotBoth
    <2> QED
      BY <2>1, <2>2 DEF Usable
  <1>5. NoLeak'
    <2> SUFFICES ASSUME NEW c \in open' PROVE Pooled(c)' \/ Lent(c)'
      BY DEF NoLeak
    <2>1. Pooled(c) \/ Lent(c)
      BY <1>1 DEF PoolInv, NoLeak
    <2> QED
      BY <2>1, <1>1 DEF Pooled, Lent
  <1> QED
    BY <1>3, <1>4, <1>5 DEF PoolInv, Exclusive

LEMMA DialInv ==
    ASSUME PoolInv, TypeOK', NEW u \in Users, NEW c \in Conns, Dial(u, c)
    PROVE  PoolInv'
  <1>1. /\ c \notin open /\ open' = open \cup {c}
        /\ conns' = conns /\ addr' = addr
        /\ \A b \in Addrs : Slots(b)' = Slots(b)
        /\ held[u] = NoConn /\ held'[u] = c
        /\ \A v \in Users : v # u => held'[v] = held[v]
        /\ peer'[c] = addr[u]
        /\ \A d \in Conns : d # c => peer'[d] = peer[d]
    BY DEF Dial, PoolInv, TypeOK, Slots
  <1>2. PooledOnce /\ LentOnce /\ NotBoth /\ Usable
    BY DEF PoolInv, Exclusive
  <1>3. /\ \A a \in Addrs : \A i \in Slots(a) : conns[a][i] \in Conns \ {c}
        /\ \A v \in Users : held[v] # c
    BY <1>1, <1>2, PoolAssumption DEF Usable, PoolInv, TypeOK
  <1>4. PooledOnce' /\ LentOnce' /\ NotBoth'
    BY <1>1, <1>2, <1>3 DEF PooledOnce, LentOnce, NotBoth
  <1>5. Usable'
    <2>1. ASSUME NEW v \in Users, held'[v] # NoConn
          PROVE  held'[v] \in open' /\ peer'[held'[v]] = addr'[v]
      <3>1. CASE v = u
        BY <3>1, <1>1
      <3>2. CASE v # u
        <4>1. held[v] \in open /\ peer[held[v]] = addr[v] /\ held[v] \in Conns \ {c}
          BY <2>1, <3>2, <1>1, <1>2, <1>3 DEF Usable, PoolInv, TypeOK
        <4> QED
          BY <3>2, <4>1, <1>1
      <3> QED
        BY <3>1, <3>2
    <2> QED
      BY <2>1, <1>1, <1>2, <1>3 DEF Usable
  <1>6. NoLeak'
    <2> SUFFICES ASSUME NEW d \in open' PROVE Pooled(d)' \/ Lent(d)'
      BY DEF NoLeak
    <2>1. CASE d = c
      BY <2>1, <1>1 DEF Lent
    <2>2. CASE d # c
      <3>1. Pooled(d) \/ Lent(d)
        BY <2>2, <1>1 DEF PoolInv, NoLeak
      <3>2. d # NoConn
        BY <2>2, <1>1, PoolAssumption DEF PoolInv, TypeOK
      <3> QED
        BY <3>1, <3>2, <1>1 DEF Pooled, Lent
    <2> QED
      BY <2>1, <2>2
  <1> QED
    BY <1>4, <1>5, <1>6 DEF PoolInv, Exclusive

(* release pushes h on the stack of a: what was idle keeps its place, h    *)
(* gets the new top place.                                                 *)
LEMMA PushedInv ==
    ASSUME PoolInv, NEW a \in Addrs, NEW h \in Conns,
           conns' = [conns EXCEPT ![a] = Append(conns[a], h)]
    PROVE  /\ \A b \in Addrs : Slots(b) \subseteq Slots(b)'
           /\ \A b \in Addrs : \A i \in Slots(b) : conns'[b][i] = conns[b][i]
           /\ Len(conns[a]) + 1 \in Slots(a)'
           /\ conns'[a][Len(conns[a]) + 1] = h
           /\ \A b \in Addrs : \A i \in Slots(b)' :
                 i \in Slots(b) \/ (b = a /\ i = Len(conns[a]) + 1)
  <1>1. conns \in [Addrs -> Seq(Conns)] /\ conns[a] \in Seq(Conns)
    BY DEF PoolInv, TypeOK
  <1>2. /\ Len(conns'[a]) = Len(conns[a]) + 1
        /\ Len(conns[a]) \in Nat
        /\ \A i \in 1 .. Len(conns[a]) : conns'[a][i] = conns[a][i]
        /\ conns'[a][Len(conns[a]) + 1] = h
    BY <1>1, PushStack
  <1>3. \A b \in Addrs : b # a => conns'[b] = conns[b]
    BY <1>1
  <1> QED
    BY <1>1, <1>2, <1>3 DEF Slots

(* A connection that comes back is either closed or on top of the stack of *)
(* its own address; in both cases its user lets go of it.                  *)
LEMMA ReleaseInv ==
    ASSUME PoolInv, TypeOK', NEW u \in Users, NEW failed \in BOOLEAN,
           Release(u, failed)
    PROVE  PoolInv'
  <1>0. addr[u] \in Addrs /\ held[u] \in Conns
    BY DEF Release, PoolInv, TypeOK
  <1> PICK a \in Addrs, h \in Conns : a = addr[u] /\ h = held[u]
    BY <1>0
  <1>1. /\ addr[u] = a /\ held[u] = h /\ h # NoConn
        /\ addr' = addr /\ peer' = peer
        /\ held'[u] = NoConn
        /\ \A v \in Users : v # u => held'[v] = held[v]
    BY PoolAssumption DEF Release, PoolInv, TypeOK
  <1>2. PooledOnce /\ LentOnce /\ NotBoth /\ Usable
    BY DEF PoolInv, Exclusive
  <1>3. /\ h \in open /\ peer[h] = a
        /\ \A v \in Users : v # u => held[v] # h
        /\ \A b \in Addrs : \A i \in Slots(b) : conns[b][i] # h
    BY <1>1, <1>2 DEF Usable, LentOnce, NotBoth
  <1>4. LentOnce'
    BY <1>1, <1>2 DEF LentOnce
  <1>5. CASE Keep(u, failed)
    <2>1. open' = open /\ conns' = [conns EXCEPT ![a] = Append(conns[a], h)]
      BY <1>1, <1>5 DEF Release
    <2>2. /\ \A b \in Addrs : Slots(b) \subseteq Slots(b)'
          /\ \A b \in Addrs : \A i \in Slots(b) : conns'[b][i] = conns[b][i]
          /\ Len(conns[a]) + 1 \in Slots(a)'
          /\ conns'[a][Len(conns[a]) + 1] = h
          /\ \A b \in Addrs : \A i \in Slots(b)' :
                i \in Slots(b) \/ (b = a /\ i = Len(conns[a]) + 1)
      BY <2>1, PushedInv
    <2>3. \A b \in Addrs : \A i \in Slots(b)' :
             \/ i \in Slots(b) /\ conns'[b][i] = conns[b][i]
             \/ b = a /\ i = Len(conns[a]) + 1 /\ conns'[b][i] = h
      BY <2>2
    <2>4. PooledOnce'
      <3> SUFFICES ASSUME NEW b \in Addrs, NEW d \in Addrs, NEW i \in Slots(b)',
                          NEW j \in Slots(d)', conns'[b][i] = conns'[d][j]
                   PROVE  b = d /\ i = j
        BY DEF PooledOnce
      <3>1. CASE i \in Slots(b) /\ conns'[b][i] = conns[b][i]
        <4>1. CASE j \in Slots(d) /\ conns'[d][j] = conns[d][j]
          <5>1. conns[b][i] = conns[d][j] /\ i \in Slots(b) /\ j \in Slots(d)
            BY <3>1, <4>1
          <5> QED
            BY <5>1, <1>2 DEF PooledOnce
        <4>2. CASE conns'[d][j] = h
          BY <3>1, <4>2, <1>3
        <4> QED
          BY <4>1, <4>2, <2>3
      <3>2. CASE b = a /\ i = Len(conns[a]) + 1 /\ conns'[b][i] = h
        <4>1. ~(j \in Slots(d) /\ conns'[d][j] = conns[d][j])
          BY <3>2, <1>3
        <4> QED
          BY <3>2, <4>1, <2>3
      <3> QED
        BY <3>1, <3>2, <2>3
    <2>5. NotBoth'
      <3> SUFFICES ASSUME NEW v \in Users, NEW b \in Addrs, NEW i \in Slots(b)'
                   PROVE  conns'[b][i] # held'[v]
        BY DEF NotBoth
      <3>1. CASE v = u
        <4>1. conns'[b][i] \in Conns
          BY DEF TypeOK, Slots
        <4> QED
          BY <3>1, <4>1, <1>1, PoolAssumption
      <3>2. CASE v # u
        BY <3>2, <1>1, <1>2, <1>3, <2>3 DEF NotBoth
      <3> QED
        BY <3>1, <3>2
    <2>6. Usable'
      <3>1. ASSUME NEW b \in Addrs, NEW i \in Slots(b)'
            PROVE  conns'[b][i] \in open' /\ peer'[conns'[b][i]] = b
        <4>1. CASE i \in Slots(b) /\ conns'[b][i] = conns[b][i]
          BY <4>1, <1>1, <1>2, <2>1 DEF Usable
        <4>2. CASE b = a /\ conns'[b][i] = h
          BY <4>2, <1>1, <1>3, <2>1
        <4> QED
          BY <4>1, <4>2, <2>3
      <3>2. ASSUME NEW v \in Users, held'[v] # NoConn
            PROVE  held'[v] \in open' /\ peer'[held'[v]] = addr'[v]
        BY <3>2, <1>1, <1>2, <2>1 DEF Usable
      <3> QED
        BY <3>1, <3>2 DEF Usable
    <2>7. NoLeak'
      <3> SUFFICES ASSUME NEW d \in open' PROVE Pooled(d)' \/ Lent(d)'
        BY DEF NoLeak
      <3>1. CASE d = h
        BY <3>1, <2>2 DEF Pooled
      <3>2. CASE d # h
        <4>1. Pooled(d) \/ Lent(d)
          BY <2>1 DEF PoolInv, NoLeak
        <4>2. Pooled(d) => Pooled(d)'
          BY <2>2 DEF Pooled
        <4>3. Lent(d) => Lent(d)'
          BY <3>2, <1>1 DEF Lent
        <4> QED
          BY <4>1, <4>2, <4>3
      <3> QED
        BY <3>1, <3>2
    <2> QED
      BY <1>4, <2>4, <2>5, <2>6, <2>7 DEF PoolInv, Exclusive
  <1>6. CASE ~Keep(u, failed)
    <2>1. open' = open \ {h} /\ conns' = conns
      BY <1>1, <1>6 DEF Release
    <2>2. \A b \in Addrs : Slots(b)' = Slots(b)
      BY <2>1 DEF Slots
    <2>3. PooledOnce'
      BY <1>2, <2>1, <2>2 DEF PooledOnce
    <2>4. NotBoth'
      <3> SUFFICES ASSUME NEW v \in Users, NEW b \in Addrs, NEW i \in Slots(b)
                   PROVE  conns[b][i] # held'[v]
        BY <2>1, <2>2 DEF NotBoth
      <3>1. conns[b][i] \in Conns
        BY DEF PoolInv, TypeOK, Slots
      <3> QED
        BY <3>1, <1>1, <1>2, PoolAssumption DEF NotBoth
    <2>5. Usable'
      BY <1>1, <1>2, <1>3, <2>1, <2>2 DEF Usable
    <2>6. NoLeak'
      <3> SUFFICES ASSUME NEW d \in open' PROVE Pooled(d)' \/ Lent(d)'
        BY DEF NoLeak
      <3>1. d # h /\ (Pooled(d) \/ Lent(d))
        BY <2>1 DEF PoolInv, NoLeak
      <3> QED
        BY <3>1, <1>1, <2>1, <2>2 DEF Pooled, Lent
    <2> QED
      BY <1>4, <2>3, <2>4, <2>5, <2>6 DEF PoolInv, Exclusive
  <1> QED
    BY <1>5, <1>6

(* Nothing else touches the stacks, the open connections or the borrowers. *)
LEMMA FrameInv ==
    ASSUME PoolInv, TypeOK', UNCHANGED <<conns, open, peer, addr, held>>
    PROVE  PoolInv'
  <1>1. Exclusive'
    BY DEF PoolInv, Exclusive, PooledOnce, LentOnce, NotBoth, Slots
  <1>2. Usable'
    BY DEF PoolInv, Usable, Slots
  <1>3. NoLeak'
    BY DEF PoolInv, NoLeak, Pooled, Lent, Slots
  <1> QED
    BY <1>1, <1>2, <1>3 DEF PoolInv

LEMMA NextPoolInv ==
    ASSUME PoolInv, TypeOK', [Next]_poolVars PROVE PoolInv'
  <1>1. ASSUME NEW u \in Users, DialFail(u) PROVE PoolInv'
    BY <1>1, FrameInv DEF DialFail
  <1>2. ASSUME NEW s \in Sizes, NEW t \in Ttls, Configure(s, t) PROVE PoolInv'
    BY <1>2, FrameInv DEF Configure
  <1>3. CASE Tick
    BY <1>3, FrameInv DEF Tick
  <1>4. CASE UNCHANGED poolVars
    BY <1>4, FrameInv DEF poolVars
  <1> QED
    BY <1>1, <1>2, <1>3, <1>4, GetPooledInv, GetMissInv, DialInv, ReleaseInv
    DEF Next, GetConn

(* The pool's inductive invariant holds in every reachable state.          *)
THEOREM PoolInvariant == Spec => []PoolInv
  <1>1. PoolInv /\ TypeOK' /\ [Next]_poolVars => PoolInv'
    BY NextPoolInv
  <1> QED
    BY <1>1, InitPoolInv, TypeCorrect, PTL DEF Spec

(* No two goroutines are ever given the same connection, and an idle       *)
(* connection is idle in one place: the pool's exclusion, for any number   *)
(* of goroutines and any interleaving of getConn, Dial and release.        *)
THEOREM ConnectionsExclusive == Spec => []Exclusive
  BY PoolInvariant, PTL DEF PoolInv

(* Every idle or borrowed connection is open and leads to the address it   *)
(* is kept or was asked for.                                               *)
THEOREM ConnectionsUsable == Spec => []Usable
  BY PoolInvariant, PTL DEF PoolInv

(* An open connection is always idle in the pool or in a goroutine's hands.*)
THEOREM NoConnectionLeaks == Spec => []NoLeak
  BY PoolInvariant, PTL DEF PoolInv

-----------------------------------------------------------------------------
(* An idle connection is closed only because it outlived the ttl in force, *)
(* and lent only when it has not: no other goroutine's release, dial or    *)
(* reconfiguration closes it or hands it out.                              *)
THEOREM TtlDecides == Spec => TtlRespected
  <1>1. PoolInv /\ [Next]_poolVars =>
          [\A c \in Conns : Pooled(c) =>
             /\ c \notin open' => Expired(c)
             /\ Lent(c)' => ~Expired(c)]_poolVars
    <2> SUFFICES ASSUME PoolInv, Next, NEW c \in Conns, Pooled(c)
                 PROVE  /\ c \notin open' => Expired(c)
                        /\ Lent(c)' => ~Expired(c)
      BY DEF Pooled
    <2>1. c \in open /\ c # NoConn /\ ~Lent(c)
      BY PoolAssumption DEF PoolInv, Exclusive, NotBoth, Usable, Pooled, Lent
    <2>2. ASSUME open \subseteq open', held' = held
          PROVE  c \in open' /\ ~Lent(c)'
      BY <2>1, <2>2 DEF Lent
    <2>3. ASSUME NEW u \in Users, NEW a \in Addrs, GetPooled(u, a)
          PROVE  /\ c \notin open' => Expired(c)
                 /\ Lent(c)' => ~Expired(c)
      <3>1. PICK k \in Slots(a) :
              /\ ~Expired(conns[a][k])
              /\ \A j \in (k + 1) .. Len(conns[a]) : Expired(conns[a][j])
              /\ open' = open \ {conns[a][j] : j \in (k + 1) .. Len(conns[a])}
              /\ held' = [held EXCEPT ![u] = conns[a][k]]
        BY <2>3 DEF GetPooled
      <3>2. held'[u] = conns[a][k] /\ \A v \in Users : v # u => held'[v] = held[v]
        BY <3>1 DEF PoolInv, TypeOK
      <3> QED
        BY <2>1, <3>1, <3>2 DEF Lent
    <2>4. ASSUME NEW u \in Users, NEW a \in Addrs, GetMiss(u, a)
          PROVE  /\ c \notin open' => Expired(c)
                 /\ Lent(c)' => ~Expired(c)
      BY <2>1, <2>4 DEF GetMiss, Lent
    <2>5. ASSUME NEW u \in Users, NEW d \in Conns, Dial(u, d)
          PROVE  c \in open' /\ ~Lent(c)'
      BY <2>1, <2>5 DEF Dial, Lent, PoolInv, TypeOK
    <2>6. ASSUME NEW u \in Users, NEW failed \in BOOLEAN, Release(u, failed)
          PROVE  c \in open' /\ ~Lent(c)'
      <3>1. held[u] # c
        BY <2>1 DEF Lent
      <3> QED
        BY <2>1, <2>6, <3>1 DEF Release, Lent, PoolInv, TypeOK
    <2> QED
      BY <2>2, <2>3, <2>4, <2>5, <2>6
      DEF Next, GetConn, DialFail, Configure, Tick
  <1> QED
    BY <1>1, PoolInvariant, PTL DEF Spec, TtlRespected

-----------------------------------------------------------------------------
(* A stack is never longer than the largest size the pool may have: only a *)
(* release makes it longer, and it looks at the size in force.             *)
THEOREM StacksBounded == Spec => []Bounded
  <1>1. Init => Bounded
    <2> SUFFICES ASSUME Init, NEW a \in Addrs PROVE \E s \in Sizes : Len(conns[a]) <= s
      BY DEF Bounded
    <2>1. conns[a] = <<>> /\ size \in Sizes /\ size \in Nat
      BY PoolAssumption DEF Init
    <2> QED
      BY <2>1
  <1>2. TypeOK /\ Bounded /\ [Next]_poolVars => Bounded'
    <2> SUFFICES ASSUME TypeOK, Bounded, [Next]_poolVars, NEW a \in Addrs
                 PROVE  \E s \in Sizes : Len(conns'[a]) <= s
      BY DEF Bounded
    <2>1. conns[a] \in Seq(Conns) /\ \E s \in Sizes : Len(conns[a]) <= s
      BY DEF TypeOK, Bounded
    <2>2. CASE conns' = conns
      BY <2>1, <2>2
    <2>3. ASSUME NEW u \in Users, NEW b \in Addrs, GetPooled(u, b)
          PROVE  \E s \in Sizes : Len(conns'[a]) <= s
      <3>1. PICK k \in Slots(b) : conns' = [conns EXCEPT ![b] = Below(conns[b], k)]
        BY <2>3 DEF GetPooled
      <3>2. CASE a = b
        <4>1. k - 1 \in 0 .. Len(conns[a]) /\ conns'[a] = SubSeq(conns[a], 1, k - 1)
          BY <2>1, <3>1, <3>2 DEF TypeOK, Slots, Below
        <4>2. Len(conns'[a]) = k - 1 /\ k - 1 <= Len(conns[a])
          BY <2>1, <4>1, PrefixStack
        <4>3. Len(conns[a]) \in Nat /\ k - 1 \in Nat
          BY <2>1, <4>1
        <4> QED
          BY <2>1, <4>2, <4>3, PoolAssumption
      <3>3. CASE a # b
        BY <2>1, <3>1, <3>3 DEF TypeOK
      <3> QED
        BY <3>2, <3>3
    <2>4. ASSUME NEW u \in Users, NEW b \in Addrs, GetMiss(u, b)
          PROVE  \E s \in Sizes : Len(conns'[a]) <= s
      <3>1. conns'[a] = <<>> \/ conns'[a] = conns[a]
        BY <2>4 DEF GetMiss, TypeOK
      <3> QED
        BY <2>1, <3>1, PoolAssumption
    <2>5. ASSUME NEW u \in Users, NEW failed \in BOOLEAN, Release(u, failed), conns' # conns
          PROVE  \E s \in Sizes : Len(conns'[a]) <= s
      <3>1. /\ Len(conns[addr[u]]) < size
            /\ conns' = [conns EXCEPT ![addr[u]] = Append(conns[addr[u]], held[u])]
        BY <2>5 DEF Release, Keep
      <3>2. CASE a = addr[u]
        <4>1. Len(conns'[a]) = Len(conns[a]) + 1
          BY <2>1, <3>1, <3>2 DEF TypeOK
        <4>2. Len(conns[a]) \in Nat /\ size \in Sizes /\ size \in Nat
          BY <2>1, PoolAssumption DEF TypeOK
        <4> QED
          BY <3>1, <3>2, <4>1, <4>2
      <3>3. CASE a # addr[u]
        BY <2>1, <3>1, <3>3 DEF TypeOK
      <3> QED
        BY <3>2, <3>3
    <2>6. CASE UNCHANGED poolVars \/ Tick \/ \E s \in Sizes, t \in Ttls : Configure(s, t)
      BY <2>2, <2>6 DEF poolVars, Tick, Configure
    <2>7. ASSUME NEW u \in Users, DialFail(u) \/ \E c \in Conns : Dial(u, c)
          PROVE  conns' = conns
      BY <2>7 DEF DialFail, Dial
    <2> QED
      BY <2>2, <2>3, <2>4, <2>5, <2>6, <2>7 DEF Next, GetConn
  <1> QED
    BY <1>1, <1>2, TypeCorrect, PTL DEF Spec
=============================================================================
