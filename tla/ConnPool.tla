------------------------------ MODULE ConnPool ------------------------------
(***************************************************************************)
(* The connection pool of the RPC client: client/rpc_pool.go, and the pool *)
(* reconfiguration of rpcClient.Init in client/rpc_client.go.              *)
(*                                                                         *)
(* A pool maps every address to a stack of idle connections.  getConn pops *)
(* the stack under the pool's lock, closing what is older than the ttl,    *)
(* and dials outside the lock when nothing usable is left; release closes  *)
(* a connection whose call failed or that finds the stack full, and pushes *)
(* it otherwise.  A user is one goroutine between getConn and release.     *)
(***************************************************************************)
EXTENDS Integers, Sequences

CONSTANTS
    Addrs,      \* node addresses
    Conns,      \* identities of transport connections
    Users,      \* goroutines that borrow connections
    Sizes,      \* values Options.PoolSize takes
    Ttls,       \* values of PoolTTL, in seconds
    MaxTime,    \* bound on the clock
    NoConn      \* "holds no connection"

ASSUME PoolAssumption ==
    /\ Sizes \subseteq Nat
    /\ Ttls \subseteq Nat
    /\ MaxTime \in Nat
    /\ NoConn \notin Conns

VARIABLES
    conns,      \* pool.conns: the stack of idle connections of an address
    size, ttl,  \* pool.size, pool.ttl
    open,       \* connections the client has dialled and not closed
    created,    \* poolConn.created
    peer,       \* the address a connection was dialled to
    stage,      \* where a user stands: outside, dialling, using
    addr,       \* the address a user asked for
    held,       \* the connection a user borrowed
    now         \* time.Now().Unix()

poolVars == <<conns, size, ttl, open, created, peer, stage, addr, held, now>>

Slots(a) == 1 .. Len(conns[a])

Expired(c) == now - created[c] > ttl

Init ==
    /\ conns = [a \in Addrs |-> <<>>]
    /\ size \in Sizes
    /\ ttl \in Ttls
    /\ open = {}
    /\ created = [c \in Conns |-> 0]
    /\ \E a \in Addrs :
          /\ peer = [c \in Conns |-> a]
          /\ addr = [u \in Users |-> a]
    /\ stage = [u \in Users |-> "idle"]
    /\ held = [u \in Users |-> NoConn]
    /\ now = 0

-----------------------------------------------------------------------------
(* What is left of a stack s when the connection at i is taken.            *)
BelowTakesTwo(s, i) == SubSeq(s, 1, i - 2)  \* faulty: drops a live one too
BelowPeeks(s, i) == SubSeq(s, 1, i)         \* faulty: the popped one stays
Below(s, i) == SubSeq(s, 1, i - 1)

(* getConn finds a connection: it closes the expired ones above it and     *)
(* leaves those below it alone, whatever their age.                        *)
GetPooled(u, a) ==
    /\ stage[u] = "idle"
    /\ \E i \in Slots(a) :
          /\ ~Expired(conns[a][i])
          /\ \A j \in (i + 1) .. Len(conns[a]) : Expired(conns[a][j])
          /\ open' = open \ {conns[a][j] : j \in (i + 1) .. Len(conns[a])}
          /\ conns' = [conns EXCEPT ![a] = Below(@, i)]
          /\ held' = [held EXCEPT ![u] = conns[a][i]]
    /\ stage' = [stage EXCEPT ![u] = "using"]
    /\ addr' = [addr EXCEPT ![u] = a]
    /\ UNCHANGED <<size, ttl, created, peer, now>>

(* getConn finds nothing usable: every idle connection of the address is   *)
(* closed, the lock is given up and the user dials.                        *)
GetMissClosesAll(u, a) ==   \* faulty: does not look at the age
    /\ stage[u] = "idle"
    /\ open' = open \ {conns[a][i] : i \in Slots(a)}
    /\ conns' = [conns EXCEPT ![a] = <<>>]
    /\ stage' = [stage EXCEPT ![u] = "dialing"]
    /\ addr' = [addr EXCEPT ![u] = a]
    /\ UNCHANGED <<size, ttl, created, peer, held, now>>

GetMissKeeps(u, a) ==       \* faulty: closes but does not store the stack
    /\ stage[u] = "idle"
    /\ \A i \in Slots(a) : Expired(conns[a][i])
    /\ open' = open \ {conns[a][i] : i \in Slots(a)}
    /\ stage' = [stage EXCEPT ![u] = "dialing"]
    /\ addr' = [addr EXCEPT ![u] = a]
    /\ UNCHANGED <<conns, size, ttl, created, peer, held, now>>

GetMiss(u, a) ==
    /\ stage[u] = "idle"
    /\ \A i \in Slots(a) : Expired(conns[a][i])
    /\ open' = open \ {conns[a][i] : i \in Slots(a)}
    /\ conns' = [conns EXCEPT ![a] = <<>>]
    /\ stage' = [stage EXCEPT ![u] = "dialing"]
    /\ addr' = [addr EXCEPT ![u] = a]
    /\ UNCHANGED <<size, ttl, created, peer, held, now>>

GetConn(u, a) == GetPooled(u, a) \/ GetMiss(u, a)

(* Transport.Dial answers, well or badly, without the pool's lock.         *)
Dial(u, c) ==
    /\ stage[u] = "dialing"
    /\ c \notin open
    /\ open' = open \cup {c}
    /\ created' = [created EXCEPT ![c] = now]
    /\ peer' = [peer EXCEPT ![c] = addr[u]]
    /\ held' = [held EXCEPT ![u] = c]
    /\ stage' = [stage EXCEPT ![u] = "using"]
    /\ UNCHANGED <<conns, size, ttl, addr, now>>

DialFail(u) ==
    /\ stage[u] = "dialing"
    /\ stage' = [stage EXCEPT ![u] = "idle"]
    /\ UNCHANGED <<conns, size, ttl, open, created, peer, addr, held, now>>

(* release: an error or a full stack closes the connection.                *)
KeepOneMore(u, failed) ==   \* faulty: off by one
    ~failed /\ Len(conns[addr[u]]) <= size

Keep(u, failed) == ~failed /\ Len(conns[addr[u]]) < size

Release(u, failed) ==
    /\ stage[u] = "using"
    /\ IF Keep(u, failed)
         THEN /\ conns' = [conns EXCEPT ![addr[u]] = Append(@, held[u])]
              /\ UNCHANGED open
         ELSE /\ open' = open \ {held[u]}
              /\ UNCHANGED conns
    /\ stage' = [stage EXCEPT ![u] = "idle"]
    /\ held' = [held EXCEPT ![u] = NoConn]
    /\ UNCHANGED <<size, ttl, created, peer, addr, now>>

(* rpcClient.Init with new pool options: stacks above the new size stay.   *)
Configure(s, t) ==
    /\ <<s, t>> # <<size, ttl>>
    /\ size' = s
    /\ ttl' = t
    /\ UNCHANGED <<conns, open, created, peer, stage, addr, held, now>>

Tick ==
    /\ now < MaxTime
    /\ now' = now + 1
    /\ UNCHANGED <<conns, size, ttl, open, created, peer, stage, addr, held>>

Next ==
    \/ \E u \in Users, a \in Addrs : GetConn(u, a)
    \/ \E u \in Users, c \in Conns : Dial(u, c)
    \/ \E u \in Users : DialFail(u)
    \/ \E u \in Users, failed \in BOOLEAN : Release(u, failed)
    \/ \E s \in Sizes, t \in Ttls : Configure(s, t)
    \/ Tick

Spec == Init /\ [][Next]_poolVars

-----------------------------------------------------------------------------
Pooled(c) == \E a \in Addrs : \E i \in Slots(a) : conns[a][i] = c
Lent(c) == \E u \in Users : held[u] = c

(* Every variable has its type; a user holds a connection exactly while it *)
(* is between getConn and release.                                         *)
TypeOK ==
    /\ conns \in [Addrs -> Seq(Conns)]
    /\ size \in Sizes
    /\ ttl \in Ttls
    /\ open \in SUBSET Conns
    /\ created \in [Conns -> Nat]
    /\ peer \in [Conns -> Addrs]
    /\ stage \in [Users -> {"idle", "dialing", "using"}]
    /\ addr \in [Users -> Addrs]
    /\ held \in [Users -> Conns \cup {NoConn}]
    /\ now \in Nat
    /\ \A u \in Users : held[u] # NoConn <=> stage[u] = "using"

PooledOnce ==
    \A a, b \in Addrs : \A i \in Slots(a), j \in Slots(b) :
        conns[a][i] = conns[b][j] => a = b /\ i = j

LentOnce ==
    \A u, v \in Users : held[u] # NoConn /\ held[u] = held[v] => u = v

NotBoth ==
    \A u \in Users : \A a \in Addrs : \A i \in Slots(a) : conns[a][i] # held[u]

(* Two goroutines never share a connection: no interleaving of getConn,    *)
(* dial and release makes one connection idle twice, lent twice, or idle   *)
(* and lent at once.  Two calls on one connection would read each other's  *)
(* responses.                                                              *)
Exclusive == PooledOnce /\ LentOnce /\ NotBoth

(* What getConn hands out, or may hand out, is a live connection to the    *)
(* address it is asked for.                                                *)
Usable ==
    /\ \A a \in Addrs : \A i \in Slots(a) :
          conns[a][i] \in open /\ peer[conns[a][i]] = a
    /\ \A u \in Users : held[u] # NoConn =>
          held[u] \in open /\ peer[held[u]] = addr[u]

(* No connection is forgotten while it is open: killing expired ones,      *)
(* failing, overflowing the stack and resizing the pool all either close   *)
(* it or keep it within reach.                                             *)
NoLeak == \A c \in open : Pooled(c) \/ Lent(c)

(* A stack never holds more connections than the largest size configured   *)
(* allows, although stacks outlive a smaller size and users release late.  *)
Bounded == \A a \in Addrs : \E s \in Sizes : Len(conns[a]) <= s

(* The pool closes an idle connection only for its age, and reuses one     *)
(* only within the ttl in force.                                           *)
TtlRespected ==
    [][\A c \in Conns : Pooled(c) =>
          /\ c \notin open' => Expired(c)
          /\ Lent(c)' => ~Expired(c)]_poolVars
=============================================================================
