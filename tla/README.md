# A verification development for gomicrorpc

gomicrorpc is a set of Go programs built on go-micro: two example services with
their clients (`example1`, `example2`), a gRPC variant (`grpcexample`), annotated
excerpts and small demos (`grpcexample/learn`, `grpcexample/demo`), and the annotated
copy of go-micro they run on (`vendor/github.com/micro/go-micro`).  The programs
themselves are a few lines of configuration and handlers; what makes them work is the
part of go-micro they exercise and the repository comments on line by line.  That part is
what is modelled here, from the side of the programs: their `main` functions, their
handlers and their streams where they have control flow, and the library beneath.

`PROJECT.json` lists the components, the runs, the mutants (one planted fault for each
checked property), the source lines behind every definition, the findings, the hazards and
the theorems.  Paths below are relative to `src/`; `go-micro/` stands for
`vendor/github.com/micro/go-micro/`.

## 1. The system

    example2/cli ── rpcClient ── pool ── http transport ──> ServeConn ── router ── handler
         │             │                                       │
         │          selector ── registry cache ── consul <─────┤ Register / heartbeat
         └── http broker (Publish) ───────── HTTP ──────────> http broker (Subscribe)

A client call selects a node (selector, registry cache, consul), borrows a connection to it
(pool), sends the request over the HTTP transport and waits for the response or a deadline.
A server process listens, registers its node and its topics, and keeps them registered by a
heartbeat.  Published messages go by HTTP to the brokers of the subscribers the registry
knows of.

| component | code | state | operations | what is hard | what makes it correct |
|---|---|---|---|---|---|
| connection pool | `go-micro/client/rpc_pool.go`, `rpcClient.Init` | stacks of idle connections, size, ttl | getConn, release, reconfigure | dial outside the lock; size and ttl change between borrowing and returning | no connection shared, lost, misrouted, closed without reason |
| unary call | `go-micro/client/rpc_client.go`, `rpc_stream.go`, `rpc_codec.go`, `retry.go`; `server/rpc_server.go` (ServeConn), `rpc_router.go` | a Call, its tries, their goroutines and channels, requests and responses under way | Call, call, Send, Recv, ServeConn | a deadline that races an answer, retries, abandoned goroutines, broken connections, server crashes; responses are matched to requests by nothing but the connection | an answer reaches the call it belongs to; nothing is left behind; every call returns |
| streams of example2 | `example2/cli/main.go`, `example2/handler/sayhello.go`, `example2/proto/rpcapi/rpcapi.micro.go`, both `rpc_stream.go`, `transport/http_transport.go` | two streams per client, two socket ends each, a handler each | open, ask, send, receive, close on both sides | ends of a stream, ends of a connection and resets look alike; the server's Send reports nothing; a handler panics on an error | values in order, EOF only at the end; both sides in step; no handler outlives its client |
| HTTP broker: life cycle, delivery | `go-micro/broker/http_broker.go`, `util/net/net.go` | running, address, subscribers, the RWMutex, run goroutines, listeners | Connect, Disconnect, Subscribe, Unsubscribe, ServeHTTP, heartbeat | check and act under different locks; waiting inside a lock; a goroutine that writes an old value back | one listener; no handler after Unsubscribe; no node back in the registry; calls return |
| HTTP broker: publishing | the same, `example2/cli/main.go`, `example2/subscriber/subscriber.go` | inbox per topic (64), a goroutine per Publish with its batch (8) and its view of the registry | Publish, saveMessage, getMessage, the posts | goroutines take what others published and save it again; answers of posts get lost; a full inbox drops silently; a post to a subscriber that has gone is answered like any other | no message lost but where the code gives it up, none copied without cause, a backlog is worked off |
| server life cycle | `go-micro/server/rpc_server.go`, `service.go`, `registry/consul/consul.go` (Register, Deregister), `example2/srv/main.go`, `example1/srv/main.go` | phases of Run, the heartbeat, registered, subscriptions, the agent's nodes, those of the topics too, and its ttl checks | Run, Start, Register, Deregister, Stop | operations of several remote calls that fail half done; the ttl against the heartbeat; exit | what is advertised listens; nothing doubled; clean exit; recovery |
| registry cache | `go-micro/registry/cache/rcache.go` | an entry per service and its time, a run goroutine | GetService, set, del, update | a slow answer overwrites a newer update; a record shared with the watcher | once the agent is at rest the cache says what the agent has |
| consul registry, watcher | `go-micro/registry/consul/consul.go`, `watcher.go` | what the watcher knows, its plans, a channel of ten | GetService, handle, serviceHandler, Next | two plans feed one channel; diffs are written into shared records | replaying the results gives the registry's content |
| router | `go-micro/server/rpc_router.go`, `grpcexample/learn/handle.go`, `route_handle_reflect.go`, `service_call.go` | the service map, a free list of request objects | Handle, prepareMethod, readHeader, call, freeRequest | recycled objects under many connections; reflection on signatures nobody has checked in full | each client gets the answer to its own call; what is registered can be called |
| subscribers | `go-micro/server/subscriber.go`, `grpcexample/learn/subscribe_reflect.go`, `example2/subscriber/subscriber.go` | — | validateSubscriber, createSubHandler | no recover in the goroutine of a message | what is accepted can be called |
| HTTP transport | `go-micro/transport/http_transport.go` | per client a list and a channel of requests; sockets | Listen, Accept, Dial, Send, Recv, Close | a response is matched to its request by order only; nothing has a timeout by default | each response is that to the oldest request |
| transport demo and tests | `grpcexample/demo/httpTransport/httpServer.go`, `grpcexample/learn/transport.go` | ports of the host | main, SockHandler, TestMemoryTransport, TestListener | failing dials, deferred calls, a port shared by tests | programs end, handlers end, ports are given back |
| selector; consul watch and mdns demos; reflection notes; generated messages; gRPC plug-in | `go-micro/client/selector`, `grpcexample/demo/consul`, `grpcexample/demo/mdns`, `grpcexample/learn`, `*.pb.go`, `client/grpc`, `server/grpc` | — | — | — | not modelled, see section 6 |

## 2. Plan

In order of importance; all of it is done.

1. `ConnPool` — the pool; 2. `RpcCall` — unary calls end to end, composed with `ConnPool` and
   shown to implement its specification, and `CallPromise`, what a call promises its caller.
3. `SayStream` — both streams of example2; each implements `StreamPromise`, the abstract
   specification of a stream as its client sees it.
4. `HttpBroker` — life cycle and delivery; 5. `ServerLifecycle` — Run to exit, with the agent.
6. `BrokerInbox` — Publish and what follows.
7. `Router` — servers from main to their handlers, with registration and recycling;
   implements `RpcPromise`, a server that has neither router nor shared objects.
8. `RegistryCache` — cache, watcher and agent together.
9. `PingPong` — the transport's client queue under the programs that use it bare.
10. Proofs, for every value of the constants: the safety properties of all modules but
    `RegistryCache`; the four refinements; and, for calls, streams, transport, server and broker,
    that no actor waits for what cannot come, the part of the liveness properties that is safety.

What a later extension would take up first: an inductive invariant for `RegistryCache` (its one
property is a liveness property, so the proof would need a safety property worth stating);
streams opened with a deadline (rpc_client.go:469); several versions of a service in the cache.

## 3. The modules

**ConnPool.**  `conns`, `size`, `ttl` are the fields of `pool`; `open`, `created`, `peer`
describe connections; a user (a goroutine between getConn and release) has a `stage`,
the address it asked for and the connection it holds.  The critical section of getConn is one
step, `GetPooled` or `GetMiss` (what the loop at rpc_pool.go:43 leaves behind: the
expired connections above the chosen one are closed, or all are); `Dial` and `DialFail` are the
unlocked rest; `Release` is release with its error flag; `Configure` is
`rpcClient.Init`, which changes size and ttl in place or replaces nothing (the stacks stay
as they are).  `Tick` is the clock in seconds.

**RpcCall, CallPromise.**  Three kinds of goroutine at the client.  That of Call
(`CallBegin`, `CallRefused`, `Deadline`, `CallTimeout`, `CallResult`); one per try, the
closure `call` with `rpcClient.call` in it (`NoNode`, `Reuse`, `StartDial`, `DialOk`,
`DialError`, `SelectAnswer`, `SelectDeadline`, `GiveBack`); and the inner one a try starts
(`InnerSend` to `InnerRecvError`).  One goroutine per connection at the server, `ServeConn` and
what it calls (`Serve`, `HandlerOk`, `HandlerError`, `HandlerPanic`, `Hangup`).  A connection
has a queue per direction; `Crash` and `Restart` are the death and start of a server process, `Break`
is the end of a single connection (a reset, or the transport's own deadline): the client reads a 500,
what was under way may be lost, and the server's handler, which learns of it only when it writes, goes
on.  `cut` has these connections, and `lost` the tries that held one; what the properties say of
overlapping tries and of what a call leaves behind is said of all others.  Those it cannot be said of:
a reset is retried, or reported, while the first handler runs, and nothing at the client can tell.
Selects with two ready cases choose either, as in Go.  A connection's identity is
reused once no goroutine refers to it.  Abstracted: codecs, headers, wrappers, backoff
times, the text of errors (four kinds: ok, app, internal, timeout; a 408 that a handler answers
itself is one of the errors that are tried again, internal), and the selector (one of its errors,
with which `CallRefused` returns before the first try, or any node of the view it was given).
Each action that touches the pool is an action of `ConnPool` with more conjuncts, and `PoolSpec` checks that nothing else does.

`CallPromise` says what a caller may rely on without a word of goroutines, connections or pools:
a Call makes up to Retries + 1 tries one after the other, the request of each is handled at most
once; until the deadline only that of the last try is, and those whose connection broke; an
application error is final; a call that has begun reports an internal error only when every try has
been used; a success or an application error is what
the handler of the last try ended with.  `CallKept` is that RpcCall implements it, its six variables
being those of the same name in RpcCall and `expired` for `late`.

**SayStream, StreamPromise.**  A client process is `main` of example2/cli: first
`GetStreamValues`, then `TsBidirectionalStream`, then wait for a signal.  Each stream is a
connection with two ends, a queue per direction and a `reset` flag: a socket closed with
unread data, or written to after its peer has closed, is reset, and then the reader gets an
error that is not io.EOF (this is TCP as http_transport.go uses it, and what decides between a
handler that ends and one that panics).  A handler is ServeConn, the generated wrapper and the
method of `Say`.  A failure (`KillClient`, `Cut`, `CrashServer`, a dial that fails) costs
one of `MaxFaults`.  `StreamPromise` has three actions: deliver the next value, end after the
last, break.  `StreamKept` instantiates it once for each stream of each client: `Due(s)` answers are
due, one per value of the first stream, one per round of the second.

**HttpBroker.**  A critical section that waits for nothing is one step; a caller of Lock is
first at "lock", where it keeps new readers out, as sync.RWMutex does.  Disconnect
really holds the lock (`writer`) while it offers its channel to a run goroutine; a delivery
holds the read lock while the handler runs (`handling`).  A `run` goroutine has its listener
(`port`), the address it will put back (`saved`), and the steps Tick, Refresh, Leave,
CallLockOfRun, Restore.  The registry may refuse any call, and drops expired nodes; a Register it
has refused may have registered the node all the same (`SubscribeError`), and nobody deregisters it.

**ServerLifecycle.**  `main` is where Run stands, `loop` the goroutine Start leaves behind, and `op`
what runs of Register or Deregister, one step per remote call.  The agent is external:
the nodes it knows and, for each, the time since its ttl check passed; a node that stays
critical is dropped.  A call may fail, with or without effect at the agent (its answer may be
lost); a tick may come late; the agent may lose everything; each of these costs one of
`MaxFaults`.  `nodes` are the topics of which the agent has a node of the process's broker:
`Subscribe` adds one, Deregister takes them back topic by topic (`Withdraw`), the broker's heartbeat
puts them back when the agent has lost them (`Renew`).  A Register of a topic that fails may have
added its node, and the error of its Deregister is ignored (http_broker.go:247); `missed` remembers the
topics of such calls.  `StartFail` is a Start whose listener or broker fails.  A process may die at any
point at no cost.  RegisterCheck answers what it
likes.  Abstracted: the accept goroutine, node and endpoint data, RegisterTTL zero.  Steps of
Deregister that follow the agent's answer are one step: nothing else can see them.

**BrokerInbox.**  One topic.  A message stands for its Publish and for the goroutine that Publish
starts, since each publishes one message and starts one goroutine: `Publish` saves it to the
inbox, `Lookup` asks the registry, and from `GetMessage` on the goroutine works through its
`batch`, which may hold anybody's messages.  `Turn` starts the next message of the batch, `Serve`
chooses the next service (all nodes for a broadcast, one for a queue), `PostOk` and `PostFail`
are one HTTP request each (a failed one may have arrived), `SaveAgain` puts a message back that no
node of a service has accepted.  The registry is external: nodes come, go and turn critical, and a
Publish goes by what it was told, by the registry or by the cache a client puts before it
(`Answers`: anything that was true).  `handlers` are the subscriptions that exist at their own broker,
which the registry may disagree with.  `PostUnheard` is a post that is answered though no handler gets
the message: its subscriber has gone, or the request cannot be read; pub looks at the error of
the post and not at its answer.  `excused` remembers where the code gives a message up:
a full inbox, such a post, and a version of which the goroutine knows no node — GetService keeps a
service whose nodes are all critical, without nodes, and a message to it is dropped.

**Router, RpcPromise.**  A server program from main to its handlers.  `program` chooses example1, example2, or
one that offers a method and a function of any signature (`Shapes`); `Handle` and the three `Main`
actions register them.  A client's request runs through `ReadHeader` (an object from the free list, or
a new one), `Dispatch`, the method (`CallOk`, `CallError`, `Panic`) and `Done`; the id
of a response is read from the object when the method has returned, as in the code.
`PrepareMethod` and `ValidateSubscriber` say which signatures pass, `Arguments` and `Payload` what
is passed to them later, where a decoded argument of an interface type is nil (`Decoded`); `mismatch`
and the end of the process are what reflect makes of a difference.
`RpcPromise` is the server its clients believe in: a request is answered at most once, in its own name
and with the reply of the method it named, or its connection is closed for good.  It knows no objects, so
`Recycled`, that Router implements it, says that recycling is invisible.  The mapping reads the state of a
connection off `stage`: what is received, read or called is still being asked for.

**RegistryCache.**  A getter is a goroutine in GetService: `Miss`, `Answer` or `Error`, `Store`.
A watcher is a run goroutine of the cache with its consulWatcher: `Appear` and `Vanish` are the
plan on the catalogue, `Differ` and `Learn` that on the service, `Send` the bounded channel both feed,
`Update` what the cache does with a result.  Records are a heap, since cache, watcher and channel hold
the same pointers: `nodes[r]` changes for all of them.  Records nobody holds are
collected.  `age` counts from `set`; the entry is given out until twice the ttl, because set stamps it with
now plus the ttl and isValid compares the time since then with the ttl again.  Bounds on behaviour:
one version; a stopped plan has ended before the service gets another.

**PingPong.**  A process is the demo, or the tests TestMemoryTransport and TestListener one after
the other; all share the host's ports.  `main` is where it stands, and the deferred calls
(`Close`, `Unlisten`) run in their order on every path.  `bl`, `r` and `req` are the fields of
httpTransportClient and Recv's request; `Enqueue` is Send's select with its default.  `SockHandler` is the
server's goroutine.  `DialFail` and `Cut` cost one of `MaxFaults`.  `paired` records whether
a response was read as that to the request it answers, `blocked` whose listener a listen met.

Each proof module (`ConnPoolProofs`, `RpcCallProofs`, …) extends the module it is named for.

## 4. The runs

| run | module, cfg | bounds | what it shows |
|---|---|---|---|
| pool | MCConnPool | 3 goroutines, 2 nodes, 3 connections, sizes 0–2, ttls 0–1, clock to 2 | `Exclusive`, `Usable`, `NoLeak`, `Bounded`, `TtlRespected` under every interleaving of borrowing, dialling, returning and reconfiguring |
| calls | MCRpcCall | 2 calls of up to 2 tries, only one of which uses its second (`OneRetries`), 1 node, 2 connections, 1 break, pool of 1 | `IdleQuiet`, `Truthful`, `Settled`, `OneAtATime`, `NobodyStuck`; `CallKept` (refinement of CallPromise) |
| calls_live | MCRpcCall, MCRpcCallLive.cfg | 1 call of 2 tries, a node or none, 1 crash, 1 break, 2 connections, pool of 1, ttl 0, clock to 1 | `PoolSpec` (the composition implements the pool's specification, with crashes, breaks and expiry), `Returns`, `NothingLeft` |
| streams | SayStream | 2 clients, 3 values, 2 rounds, 1 retry, 2 faults | `StreamKept` (refinement of StreamPromise by each stream), `InStep`, `NoHarm`, `ClientsEnd`, `HandlersEnd` |
| broker | HttpBroker | 2 callers, 1 delivery, 2 subscribers, 2 run goroutines, 2 ports, 2 connects, 1 disconnect | `OneListener`, `HandlerSubscribed`, `NoGhost`; `CallsReturn`: until a Disconnect every call gets its lock and returns |
| broker_exit | HttpBroker, HttpBrokerExit.cfg | 1 caller, 1 connect, 1 disconnect | `DisconnectCloses` fails: see findings |
| server | ServerLifecycle | 1 process, 2 topics, ttl 3, interval 2 (units of 10 s), 3 faults | `OneSubscription`, `AdvertisedListens`, `CleanExit`, `StaysPassing`, `StopReturns`, `Recovers` |
| inbox | BrokerInbox | 2 messages, 2 broadcast and 2 queue subscribers (one unknown at first), inbox of 2, batches of 1, 2 faults, 1 change of a subscription | `AtLeastOnce`, `NoNeedlessCopy`, `Retried` |
| router | Router | 2 clients of 2 calls, 4 objects, every signature of `Shapes` | `OneOwner`, `SignaturesHold`; `Recycled` (refinement of RpcPromise) |
| pingpong | PingPong | 2 processes, 3 rounds, 2 faults | `Paired`, `PortsPassOn`, `ProgramsEnd`, `HandlersEnd` |
| cache | RegistryCache | 2 nodes, 1 getter, 1 watcher, 6 records, ttl 1, channel of 1, 2 changes | `Converges` |
| cache_steady | RegistryCache, RegistryCacheSteady.cfg | the same, one node that never stops passing, 1 change | `SteadyServed` fails: see findings |

Why the bounds suffice.  The pool needs two users for sharing and a third for the
window of a dial; two addresses for misrouting; size 2 shrinking to 0 and a ttl of 0 and 1 against
a clock of 2 for every branch of the loop.  A stale response needs one call that leaves a
connection and one that finds it; two tries are the least that can overlap, one break is enough to make
them, and a connection per call makes dialling and reuse both happen.  That only one of the calls retries
is the constraint `OneRetries` of the run; the theorems of section 5 need none.  Three values let a stream break
before, between and after; two rounds let a response be taken for the next one; two faults let
the server die under one client while the other's connection breaks, or a restart meet a second
death.  In the server run three faults are enough to fail a call, lose what its retry relies
on, and fail the exit.  Two messages with batches of one let each goroutine take the other's
message; two faults fail a message and fail it again when it is retried, or lose its answer at one node and give it up at
another.  Two
connections push to and pop from the free list in every order and two calls let a recycled object carry
an old id; four objects are never used up, so no request waits for one.  Two processes meet on one port,
as demo and demo, test and test, or apart.  Two changes let a node go while the answer about it is still to
come and come back before the watcher has spoken; a channel of one makes both handlers wait.
Where the theorems of section 5 reach, the bounds matter only for liveness.

`OneListener` is stated, and proved, for at most two Connects, because that is what
the programs do: Start of the server and the client's `once.Do(Connect)` on their common
broker.  With a third one after a Disconnect it is false: an old address put back lets two racing
Connects both listen (see the observations).

Symmetry is used where the identities are interchangeable and no liveness is checked.
CHECK_DEADLOCK is off wherever the programs come to an end; ConnPool cannot stop and is checked.

### Fairness

RpcCall: timers fire and the goroutines of the client are scheduled.  Nothing is assumed of
handlers, servers, crashes or new calls, so `Returns` covers handlers that never answer.
SayStream: processes and goroutines that can run do; faults are never forced.  What is
*not* modelled is a network that swallows packets without ever resetting the connection: then
neither side of a stream has a timeout and both wait.  HttpBroker: goroutines run and
subscribers' handlers return (one that does not return keeps the read lock for ever).  Go's
RWMutex hands the lock on, so weak fairness of a waiting step is enough.
ServerLifecycle: time passes, calls of the agent end, and the goroutine that has been
offered the exit channel in one select after another takes it (strong fairness of `Leave`: a
sender waits in the channel's queue, and select picks at random among ready cases).
BrokerInbox: the goroutine of each Publish runs and its posts return; nobody has to publish, so
`Retried` speaks of a backlog only once another Publish has found subscribers.  PingPong: program and
handler run; the second test is not forced, nor is the acceptor's `t.Fatalf`.  RegistryCache: time passes,
answers come or fail, watcher goroutines run; nobody has to ask, so `Converges` may end with an entry that
has expired.

### Findings

- `broker_exit`: Disconnect holds the lock while it sends on the unbuffered exit channel; a run
  goroutine that has just left its select for the heartbeat waits for that lock
  (http_broker.go:267, 444).  Both wait for ever.
- `cache_steady`: serviceHandler stores the list of dead nodes in the old record itself
  (watcher.go:185), and update has made that record the cache's entry (rcache.go:205).  The
  entry lists the dead nodes only, and the delete that follows drops it, with the nodes that live.
  `Converges` holds all the same: the "update" behind the delete, or the ttl, mends it.

### Observations

What the models show and no line of the repository contradicts:

- The goroutine of a Connect restores the address from before it after Disconnect has returned
  (http_broker.go:405).  A Connect in between is overwritten: a new subscriber registers ":0",
  and with a third Connect two listeners can be open at once.
- The heartbeat's else branch (rpc_server.go:589) is taken too when the check has failed and the
  server is not registered: it registers an unhealthy server.
- `registered` is set before the subscribers are, and a failed Subscribe ends the loop
  (rpc_server.go:400–420); no later heartbeat subscribes the rest.  Setting the flag after the
  loop would not do: `OneSubscription` fails then.
- Two first misses at a time both start a run goroutine (rcache.go:129 against 272).  An entry lives twice
  the ttl, and an update revives one that has expired.
- Two Sends before two Recvs on a client that is no stream leave the second request in the list
  for ever, and its Recv waits (http_transport.go:108).
- In TestMemoryTransport the test's own deferred Close of the listener ends Accept with an error, and
  the acceptor calls `t.Fatalf`: the test fails, or panics after it has passed.  A failed Send or Recv ends
  it as passed.  The demo uses a nil client after a failed Dial.
- A method whose first parameter is no context, or whose argument is an interface, is registered, and
  panics at every request; ServeConn recovers.  The same in a subscriber ends the process.
- A connection that is reset while the handler runs is reported as a 500 (rpc_codec.go:217), which
  RetryOnError tries again: the handler of a call may run twice at the same time.
- A post to a subscriber that has unsubscribed since the lookup is answered with 200 and no handler, and pub
  would not look at a 500 either (http_broker.go:329, 552): the message is neither delivered nor saved again.
- A failed Register of a topic can leave its node at the agent, and a failed Deregister does
  (http_broker.go:229, 247): posts go to it until its ttl of a minute has passed.
- A connection past its ttl is closed when the next getConn for its address meets it, not when its
  lifetime ends as `grpcexample/learn/connPool.go:7` has it; and a request is tried Retries + 1
  times, where `client/client.go:105` says Retries.

## 5. What is proved

Everything in this section holds for every value of the constants the assumptions of the
modules allow.  The assumptions are what the code gives: bounds are naturals, sizes that must be
positive are, and the value for "nothing" is none of the things it stands beside.  Each proof is
one invariant, a lemma per operation, and the properties as its consequences.

**ConnPoolProofs.**  `TypeCorrect`; `PoolInvariant`: `Spec => []PoolInv` with PoolInv = TypeOK /\
Exclusive /\ Usable /\ NoLeak, none of the last three inductive alone.  A freshly dialled
connection is not yet anywhere in the pool because it was not open, and everything pooled or lent is
open (Usable); closing the expired connections of a stack hurts nobody because none of
them is lent or on another stack (Exclusive); and NoLeak needs both to know that the connection that
leaves the stack is the one that is lent.  From it `ConnectionsExclusive`, `ConnectionsUsable`,
`NoConnectionLeaks` and the action property `TtlDecides`.  `StacksBounded` is inductive by itself:
release pushes only below the present size, which never exceeds the largest.

**RpcCallProofs.**  `PoolImplemented`: every action of RpcCall is an action of ConnPool or leaves the pool
alone, so RpcCall implements `ConnPool!Spec` and inherits `PoolInv`.  On it rests `Quiet` (a
connection carries one exchange at a time, an idle one none), which gives `IdleConnectionsQuiet`, and
on both `Honest` (what is under way belongs to the try that waits for it, and what reports an outcome
reports the right one), which gives `CallTypes`, `CallsTruthful`, `CallsSettled` and
`TriesOneAtATime`, the last two but for the handlers of tries in `lost`.
The pool's invariant is needed because two tries with one connection would read each other's responses.

A third invariant, Kept, says what is still to come: a Call that waits has a live try or its result;
nobody speaks of a timeout before the deadline; the server has hung up once it has sent an application
error; and until the deadline such an error, the one outcome that must not be retried, is on its way from
the connection to the Call.  With Quiet and Honest it gives `NobodyIsStuck` and `CallsKeepPromise`, the
refinement of `CallPromise`: Honest where a Call reports, since CallPromise lets it report only what
the last try's handler ended with, Kept where it retries.

**SayStreamProofs.**  StreamInv = TypeOK and, per client, ValuesInv and BidiInv: what is in a queue, what
each end has counted and where both sides stand determine each other.  From it `StreamTypes`,
`StreamInStep`, `StreamHarmless`, and `StreamImplementsPromise`: each step is, for each stream of each
client, a step of StreamPromise or a stutter.  Flow adds how many messages are on their way while both
ends of a stream are linked: the two that open it until they are read, then one request or one answer.
From it `NoMutualWait`: never does a client read what nobody will send while its handler reads too.

**HttpBrokerProofs.**  `BrokerTypes` and `HandlersSubscribed` from LockInv: types, that a call has its
subscriber and a run goroutine its port, and HandlerSubscribed itself, which the read lock of
a delivery keeps.  `NoGhosts`, an action property, from the same and from Made (who subscribes has a
node of its own, and has not been subscribed before).  `ListensOnce` needs to
count the Connects that found the broker not running (Counted) and ListenInv: while only one run
goroutine has ever been started, its port is the broker's address, so the second Connect has to listen
there and cannot.  `DisconnectIsMet`, under the same bounds and one Disconnect, says that a Disconnect that
waits with the lock has a run goroutine to take its channel, in its select or on its way back to it, unless
that goroutine is in the heartbeat's wait for the lock: the finding is the only way in which it can hang.

**ServerLifecycleProofs.**  SafeInv relates what the server believes (registered, its subscribers,
what is left to do) to what agent and broker have: `LifecycleTypes`, `SubscriptionsHeld`, `NodesListen`,
`ExitsClean`; Topical adds that the agent has a topic of the process only if the process is subscribed to it or
it is in `missed`.  Punctual, for runs without faults, relates the ticker to the age of the last pass:
`NodesStayPassing`, for every ttl longer than the interval.  `StopIsHeard` adds Attentive: the goroutine of
Start leaves only for a Stop that waits, and the loop over the subscribers ends with its last one.

**RouterProofs.**  RouterInv = Types, Owned (free list and connections have distinct objects), per
connection Serving (its object carries its call while it serves it, and an answer that waits is that to the
call), and Suited (installed methods have passed PrepareMethod, and only a parameter that nobody looks at has
led to a mismatch).  From it `RequestsOwned`, `AnswersMatched`, `SignaturesSuffice`, and `RecyclingInvisible`, the
refinement of `RpcPromise`: the id of a response, read from an object that has been through
other hands, is that of the call the client waits for, because of Owned and Serving.

**PingPongProofs.**  PingInv = Types and, per process, Talk (of each round at most one ping or pong is
under way, and the request in `r` or `req` is that round's), Held (at which points the program has a
port, and which) and that no listen has met a listener of its own process.  From it `ResponsesPaired` and `PortsHandedOn`.
Served adds that the listener of a program that plays accepts, and that a connection that is open has
its handler and a client that has not closed; with it `NobodyWaitsInVain`, for the Recv of the client and
that of the handler.

**BrokerInboxProofs.**  InboxInv = Types, Worker (what a goroutine's variables mean at each of its
stages; in particular that success is true only once the message has been received) and Kept
(AtLeastOnce for one message and version).  From it `MessagesKept`; a goroutine that a step leaves
alone keeps what it owes, so a step has to be examined only for the goroutine that takes it and for the
inbox.  CopyInv adds, for messages of which no post has failed, Placed (in one place: once in the
inbox, or once in one batch) and Counted (what is still to be posted has not been received).  A message nobody has published yet is nowhere (Unseen).
From both `CopiesNeeded`.

Only model-checked: liveness (`Returns`, `NothingLeft`, `ClientsEnd`, `HandlersEnd`, `CallsReturn`,
`StopReturns`, `Recovers`, `Retried`, `ProgramsEnd`, `Converges`) — the prover has no rule for
ENABLED.  What is proved beside them is their safety core, for every value of the constants: nobody waits
for an actor that has gone or that waits for him (`NobodyIsStuck` for `Returns` and `NothingLeft`,
`NoMutualWait` for `ClientsEnd` and `HandlersEnd`, `NobodyWaitsInVain` for those of the transport,
`StopIsHeard` for `StopReturns`, `DisconnectIsMet` beside `CallsReturn`, which ends with the first Disconnect).
That the actors then move rests on fairness and is TLC's part.  `RegistryCache` has no theorem: what
its lookups find right after a change may be wrong in every way the aliased records allow
(`cache_steady`), and what remains true is that this passes.  Facts about what recursive operators
compute could not be proved either; no module uses any.

## 6. What is not modelled

- Codecs, message contents, wrappers, TLS, HTTP/2, logging.  The content of the response object a
  late inner goroutine may still write to (rpc_client.go:137).
- The deadline of a Stream call: the programs open streams with the background context.
- A client that blocks in a partitioned network.
- Broker.Init while connected: the programs call it before.  Several handlers behind one subscriber.
- `RegisterTTL` of zero and TCP checks in consul.go.  ListServices.  Stop of the cache and of a watcher,
  the watcher's restart after an error, services of several versions.
- server.Wait: the programs do not use it, so a signal cuts requests short.
- The selector as a component: it keeps nothing between calls but the registry cache it asks.  RpcCall
  lets Select fail with any of its errors or return any view of the nodes, and lets a try draw any of them.
- The consul watch demo: one plan sends on a channel whose reader does nothing else; a plan that
  feeds a bounded channel is modelled in RegistryCache.  The mdns demo: tests of a vendored library
  whose answers are pure lookups.
- The reflection notes, which print what package reflect returns; generated message code.
- The gRPC plug-in of `grpcexample`, whose pool and retry loop repeat those of the RPC client.
