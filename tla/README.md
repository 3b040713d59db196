# A TLA+ model of vertx-cpp

vertx-cpp is a C++ event bus that speaks the protocol of Vert.x. A process registers
*consumers* under addresses and sends *requests* to addresses; the bus finds a consumer in
the same process or, through a Hazelcast cluster, in another one, and brings the reply back.
This directory holds TLA+ modules that model the bus, the cluster manager, the wire format,
the example program and the logging library kept in the repository, the TLC runs that check them on small
instances, and TLAPS proofs for instances of any size. `PROJECT.json` lists components,
runs, mutants, findings, hazards and theorems, and maps every definition to source lines.

## 1. Inventory

| Component | Source | State | Operations |
|---|---|---|---|
| Clustered event bus | `event_bus_hazeclast.hpp` | `_consumers`, `_consumersLocal`, `_publishers`, `endpoints`, `evConnect`, event loops | `consumer`, `localConsumer`, `request`, `onMessage`, `processOnTcpMessage`, `processStringMessage`, `allocateEventLoop` |
| Cluster manager | `hazelcast_cluster.{h,cpp}` | `_local_endpoints`, `_local_subs`; shared: `__vertx.subs`, `__vertx.haInfo` | `join`, `addSub`, `next`, `entryAdded`, `entryRemoved` (other listeners are empty) |
| Message codec | `ClusteredMessage.h` | a message and its fields | `to_cstring`, `to_string`, `to_message`, `set_int`, `int_value`, `string_value` |
| Standalone event bus | `event_bus.hpp` (without `_HZ_ENABLE`) | the same members, of which `_consumers` and `_publishers` stay empty | the same |
| Vertx lifecycle | `vertx.h` | options, worker pool, TCP servers | `VertxOptions` (`setVertxHost`, `setVertxPort`) and its setters, `clusteredVertx`, `run` |
| Net and HTTP server | `net_server.hpp`, `http_server.hpp` | servers and a user callback | `listen`, `start`, `addRoute` |
| Example application | `main.cpp` | - | `main`, the handlers of four ports, their response handlers |
| Java node info | `java/HazelcastClusterNodeInfo.java` | node id and server | `writeData`, `readData` |
| easylogging++ | `include/easylogging++/` | configurations, typed configurations, loggers with stream and lock, file streams, hit counters | `set`, `setFromBase`, parsing, `configure`, `build`, log statements (`Writer`), `LogDispatcher::dispatch`, `flush`, rolling |
| UUID generator | `uuid.hpp` | one random generator | `generateUUID` (not modelled) |
| Benchmark | `benchmark.cpp` | - | not modelled |

(All of them below `src/src/vertx/` unless a directory is named.)

**How they interact.** `clusteredVertx` joins the cluster and builds the bus, whose event
loops are started by a thread of their own. `consumer` stores the handler and calls `addSub`,
which writes the address into the multimap `__vertx.subs`; entry events carry it to the
`_local_endpoints` of every node. `request` queues a functor in one of the loops. The functor
asks `next` for a server, stores the callback in `_publishers` and sends a frame through the
TCP client of that server, which is started on first use, on one more thread. On the other
side the worker of a TCP server calls `onMessage`, which queues the frame in a loop there;
the consumer runs, and a reply goes back over a TCP client in the opposite direction, to be
matched with `_publishers`. The program in `main.cpp` puts TCP and HTTP servers in front: their
callbacks call `request`, and the response handler answers the client. easylogging++ is a
library beside it: the vertx code logs through glog, and no build file links easylogging++, so
nothing above calls it; it is modelled for itself, as a build with `ELPP_THREAD_SAFE`.

**What is hard here.** Loops, client threads, TCP workers and Hazelcast's listener threads
share maps, mostly without locks. An exception that leaves a functor ends the process: an
address without endpoint (`at`), an empty handler or callback (`operator[]` on the maps), a
null connection. Nothing has a timeout or a retry, TCP gives no message boundaries, nodes
die, and a node learns late what others registered or removed. Handlers keep references that
are over when the reply comes. In easylogging++ a configuration goes through three
representations with defaults that cascade, and a log statement takes up to three locks in
steps spread over constructors and destructors.

**What makes it correct.** A request runs one consumer at most once and its response handler
at most once, in this order; no message ever meets a missing consumer or callback;
`_publishers` holds just the callbacks that are owed; a request is never forgotten without
one of the causes that can be named; the local view of the subscriptions converges to the
shared one, and a live node gets back subscriptions that others removed; a frame is parsed
as it was written; what a node advertises is where it listens, for members of either language.
A logger reads what its configuration says and shares files with others without harm; a log
statement writes its lines once, whole, and gives its locks back.

## 2. Modules

| Module | Models | Notes |
|---|---|---|
| `RequestReply` | what `request` promises | abstract specification, implemented by both buses |
| `EventBus` | clustered bus, with loops, TCP clients, connections and reads | sees the cluster manager only through "`next` returns a server that advertised the address, or throws" |
| `EventBusProofs` | proofs about `EventBus`: types and consumers; the way of a request, the refinement | |
| `Directory` | what the bus relies on in `next` | abstract specification |
| `HazelcastCluster` | cluster manager against the shared multimap | implements `Directory`, which is what `EventBus` assumes of `next` |
| `HazelcastClusterProofs` | proofs about `HazelcastCluster` | |
| `MessageCodec` | the wire format, byte by byte | justifies the frames of `EventBus`: the two addresses, no body, stray bytes |
| `StandaloneBus` | bus without Hazelcast, start of the event loops, bridge | |
| `Application` | `main.cpp` with net and HTTP server | composed with `StandaloneBus` (EXTENDS): its requests are the calls of the handlers |
| `ApplicationProofs` | proofs about `StandaloneBus`, then about `Application` | |
| `Discovery` | `VertxOptions`, what `join`, `consumer`, `run` and every frame say about the node, C++ and Java encodings | composed with `MessageCodec` (EXTENDS): the frame goes through the codec |
| `DiscoveryProofs` | proofs about `MessageCodec`, then about `Discovery` | |
| `LogConfig` | configuration side of easylogging++ | |
| `LogConfigProofs` | proofs about `LogConfig` | uses `Induct` |
| `LogDispatch` | logging side of easylogging++ | takes loggers as configured (`Enabled`, `FileOf`, `Threshold`) |
| `Induct` | lemmas: induction over the subsets of a finite set and over numbers, sums, folds of sequences | no model of code |
| `LogDispatchProofs` | proofs about `LogDispatch`: gates, locks, files | uses `Induct` |
| `LogLinesProofs` | proofs about `LogDispatch`: the lines of a statement, the abort | builds on `LogDispatchProofs` |
| `MC*` | instances for TLC | symmetry sets and values |

### EventBus

A node is a process, named by the `ServerID` others reach it by; it is never reused. A
request stands for one call of `request` and also for its reply address.

* `consumer` is two actions (`Consumer`, `AddSub`), for others may act in between.
* `queue[n][l]` is the queue of a loop; its head is the functor that runs. `Request` queues.
  `RequestLocal`, `RequestUnknown`, `RequestRouted` are the ways the functor of `request` can
  go; after `RequestRouted` the same functor goes on as a `"routed"` task, with
  `SelfServed` or `RemoteSent` (other threads act in between, on `_publishers` and
  `endpoints`).
* `evConnect[n]` holds the client threads. A client is `spawned` by `processStringMessage`,
  in the map and `dialing` after `Dial`, then `open` or `closed`. `pipe` is what is on the
  connection and not read yet.
* `OnMessage(n, i, k, cut, l)` is one read, which takes the bytes that are there, wherever a frame
  ends: `k` frames to their end and, if `cut`, a part of the next one (`torn` then says that the
  first frame of the `pipe` has been read in part). The code looks at no length: the whole string
  is one message in the loop, a `"frame"` when it begins with a whole one, a `"head"` when it is
  only the beginning of one, a `"rest"` when it begins with what the last read has left.
* `Parsed` is what `to_message` may make of such a string. Of a head (`Heads`) the fields before
  the cut come back, of a rest (`Rests`) the second address, if it comes to lie where the first one
  is expected; all other fields are the bytes of no address and of no server (`None`). Calling
  `_consumers[...]` or `_publishers[...]` for such bytes ends the node (`fault` is then
  `"torn_frame"`), and a reply to such a server never connects. A piece may as well run a consumer:
  a head whose address came through serves its request, without an answer if the server was cut,
  and a rest whose second address lies in front and names a consumer runs it for no request at all.
* A node goes down with a `fault` when the code throws out of a functor or dereferences null,
  and without one by `Kill`, if it is in `Mortal`. Nothing of a node that is down is recovered:
  the code persists nothing.
* A body is the node that replied, or a member of `Strays`: bytes behind the frame.
* `lost`, `invoked`, `answered`, `call`, `route`, `body` are history variables. `lost` grows
  exactly where the code discards frames, so that "never forgotten" can be said.

Abstractions: each operation on a map is atomic (the code's data races on `unordered_map`
are undefined behaviour, with no outcomes to enumerate); reply addresses are unique; the hash
that keys `endpoints` has no collisions; the event loops are up (their start is in
`StandaloneBus`, the same code); what a read leaves of a frame comes with one more read, in no
smaller pieces; and the old memory behind a piece of a frame, which `to_message` reads on into,
never completes what was cut into an address or a server that is known. `next` returns any server that ever advertised the address:
entries may be removed, but a node with an old event may still have them.

### HazelcastCluster

`next` and `entryRemoved` are split where the code reads and writes state that others touch
without the lock: `next` moves the queue out (`NextTake`) and assigns it back
(`NextPutBack`), `entryRemoved` erases, reads, and puts back one subscription after the other.
`critical[n]` is the holder of `_queue_mutex`. `join` is `JoinRead` and `JoinListen`.
`missed[n]` is history: the addresses of which a change was lost, in the two windows the code
leaves open (between the snapshot and the listener, and under a queue that was moved out).
Hazelcast itself is external: a multimap, with events of one key in order.

### MessageCodec

Integers are four bytes in two's complement; negative ones are exact because `\div` rounds
down. A shift by 24 is three divisions by 256. `Int32` are the numbers whose first byte, so
computed, is a signed one: those of an `int`. The order in which `int_value` increments its index is undefined in C++ and taken from
left to right, as GCC and Clang do it.

### StandaloneBus

`pool` is how far `allocateEventLoop` got. Before the pool is assigned, `request` goes through
a null pointer; before its threads are started, `GetNextLoop` returns the base loop, which
runs last.

### Application

`main()` runs one statement after the other (`Listen`, `HttpListen`, `Register`, `VertxRun`)
while the detached threads of the net servers bind (`NetServerStart`), the loops of the bus
start, and clients are read. `handler[r]` says whether the callback for a client is still
active. The response handlers of the TCP ports captured `&conn`, a reference to the callback's
parameter: once the callback has returned, `NetRespond` is the choice among what may lie there
(the same connection, that of a callback that is active now, or nothing that can be called).
The HTTP route captured `ctx` and `cb` by value. The instance has one of the three TCP ports;
they differ only in the address they send to.

### Discovery

`options.server` is host and port of `VertxOptions`, `options.bus` the copy in
`eventBusOptions`. `setVertxPort` leaves its loop when `bind` *fails*, and `bind` on a socket
that was never opened always does, so the first port drawn is taken. `entry` is the byte string
in `__vertx.subs`; integers and strings of Hazelcast's `ObjectDataOutput` are big-endian with a
length in front, which happens to be the format of `MessageCodec` (external, from its use).

### LogConfig

Lists are sequences of (level, type, value), in the order of the code, for the order decides
what a merge does. A logger has its list, the list last built (history) and the typed maps;
`files` has the streams all loggers share, which files the system lets be opened, and which
have reached the size limit. `build()` is two passes over the list, `buildMaps` and then
`insertFiles`, as in the code. Each action is one call of the library's interface, in whatever
order a program may make them. Reduced: types that are handled alike are one (`Bools`,
`Shared`), file names have no date, values are a few words (`"1k"` is a number for nobody,
`"True"` is not true).

### LogDispatch

`stack[t]` holds the Writers alive in a thread: the constructor may start another one (no such
logger), and so does a fatal message. A Writer's `pc` follows the code: `initialize` (lookup and
lock), `stream`, and in the destructor `process`, `dispatch` (global lock), `handle` (lock of
the file, `m_data`), `write`, `flush`, `done`, `next` for the next logger of a list. Calls
`logger->info(format, ...)` lock first and format directly into the stream. Text is a sequence
of values, so that a torn or mixed line can be seen. `begun`, `lines`, `leaked` and `gated` are
history variables.

## 3. Runs

| Run | Instance | Shows |
|---|---|---|
| `safety` | 2 nodes, 1 address, 2 requests, 2 loops, both nodes mortal; `OneFrameCut` | `TypeOK`; `NoUnknownConsumer`, `ConsumersKnown`, `RequestsAccounted` (inductive, section 4); `NoUnexpectedReply`; `CallbacksOwed`; `NothingForgotten`; `ImplementsRequestReply` |
| `liveness` | 2 nodes, 2 requests, 1 loop; `OneFrameCut`, `NoLocalConsumer` | `RequestsSettle` |
| `ping` | 2 addresses, one with "ping" | `PingStaysHome` |
| `reply_body` | 1 request | violated: `ReplyBodyDelivered` |
| `null_conn` | 2 requests | violated: `SendsOverTcp` |
| `cluster_safety` | 2 nodes, 1 address, 2 removals | `TypeOK`, `Converged` |
| `cluster_keys` | 2 nodes, 2 addresses, one consumer on each node, 1 removal, one node mortal, fair | `OnlyRegistered`, `ImplementsDirectory`, `SelfHeals` |
| `wire` | strings that are empty, look like a length, or are 700 bytes long; ports at the edges; one setter call | `RoundTrip`, `SizeDelimits`, `BodyFromBehind`, `PeersAgree`, `ReachedWhereBound` |
| `application` | one TCP port with 2 clients, HTTP port with 1, 2 loops, 2 consumers, 1 bridge message, fair | `AppTypeOK`, `RequestsQueuedOnce`, `ReadyNeverDropped`, `ImplementsRequestReply`, `RequestsSettle`, `HttpAnsweredOnce` |
| `logging_config` | 2 levels, 5 types, 2 files, 2 loggers, 3 calls | `TypeOK`, `GlobalFirst`, `ReadsItsList`, `ToFileWhereOpen`, `OneStreamPerFile`, `LoggersFollow`, `TruncatesOnlyLimited` |
| `logging_dispatch` | 2 threads, 4 loggers (one created on first use, one invalid, one without Info), 2 files, 5 kinds of statement, 4 executed, fair | `TypeOK`, `LocksReturned`, `Delivered`, `AbortIsLogged`, `RolledInTime`, `GatesExact`, `StatementsEnd` |
| `startup` | 1 request | violated: `StartupSafe` |

**Bounds.** Two nodes give every relation a message can be in (to itself, to another, in both
directions). Two requests are what it takes to race for one endpoint, to share a connection and
to be read together; two loops are what it takes for both to be in `processStringMessage`. The
number of client threads needs no bound, each comes from a frame, and there are two per request
at most. With two requests, every read may end anywhere, but what becomes of the parts is followed
only as far as `OneFrameCut` goes (in `MCEventBus`): while they are at one node, no node is down,
there is no local consumer and no other request has lost a frame. That leaves the pieces of either
request in any mixture with the other one's frames and loops, and their end: a node that goes down with
parts of a frame leaves to the others what a node that is killed leaves them, which is explored.
`liveness` has no local consumers, whose requests are answered in the functor that starts them.
`ping`, `reply_body` and `null_conn` have no such bound, and neither have the theorems of section 4.
In `HazelcastCluster`, `MaxRemovals` and `MaxCalls` bound what the outside does; one
call of `next` opens the window under the lock, and two removals of a key that is put
back in between make every order of added and removed events. `MaxBridge = 1`, as one bridge
message already ends the standalone process. `Buffer = 2048` is the value of the code; three
strings of 700 bytes leave it. In `application` two TCP clients are what it takes for an answer to
reach the wrong one. `MaxOps = 3` is what it takes to configure a logger, change something below
it and configure it again; each call already goes over all levels and types. `MaxStatements = 4`
lets both threads be in a statement twice, `kMaxLogPerCounter = 3` makes the hit counter start
over, `MaxLogFileSize = 2` the files roll, and a threshold of 2 leaves lines unflushed.

**Deadlock** is not checked by TLC: users owe no more calls, and every process may end. That the
log statements of two threads do not wait for each other for ever is `StatementsEnd`.

**Fairness.** `EventBus` has weak fairness for each event loop, for the client threads of a node
and for the TCP readers of the frames of a node: these are threads that run whenever they have
work. A dialing client connects or fails (a TCP connect ends). The bytes of a frame that was sent arrive,
so that the reads that fairness asks for are those that end a frame. Nothing is assumed of users, of
the network (it may close any connection), or of the cluster. `HazelcastCluster` has it for
listener threads and for the holder of the mutex, `StandaloneBus` for the loops and the
allocating thread, `Application` likewise (nothing is assumed of `main`, the servers or clients),
`LogDispatch` for a thread inside a statement.

**Findings.** (1) A reply never crosses the wire: the response that is sent is not the message
the consumer replied to, and no body is written; the caller gets bytes from behind the frame.
(2) A message sent while the client of that server is dialing, or after it was closed, goes
through a null connection. (3) A request right after construction, as in the README's example,
may find no pool.

Other disagreements met on the way, stated as exceptions inside properties that pass:

* of frames that arrive in one read only the first is handled, although the comment of
  `onMessage` says it intercepts all messages (`lost` in `NothingForgotten`, `RequestsSettle`);
* a read that ends inside a frame gives two messages of which none was sent; the pieces end the
  process that read them or run a consumer nobody asked for (the fault `"torn_frame"`, which
  `NoUnknownConsumer` and `NoUnexpectedReply` do not speak of; `lost` in the others);
* `setHost` and `setPort` move the listener but not the advertised address
  (`ReachedWhereBound`); the answer to a TCP client of `main.cpp` may go to another client or end
  the process (`NetRespond`);
* merging a list in which Global's entry follows a level's loses the level's value
  (`LoggersFollow`); `set(Info, PerformanceTracking, ...)` takes effect for all levels, although
  the header says it is ignored (`ReadsItsList`); the result of parsing is that of the last line;
  `setRemainingToDefault` overwrites levels that have a value and sets no `ToFile`;
* when Global's file cannot be opened no level logs to a file, and when Global does not log to a
  file a level may keep doing so with a null stream (`ToFileWhereOpen`); a stream that failed
  once stays null for good;
* a log call with more values than specifiers leaves its logger locked, although the comment says
  the lock is released in Writer (`leaked` in `LocksReturned` and `StatementsEnd`); with several
  loggers the text is lost when the first one does not take it (`Delivered`); a fatal message
  reaches only the first of them;
* `LOG_EVERY_N` with `n` above `kMaxLogPerCounter` (100000) does not log every n-th time: the hit
  counter is set back to `kMaxLogPerCounter % n`, which is then the limit itself, and stays at
  100001, so that `n = 100001` logs every time from there on and a larger `n` never does, although
  the comment says it "validates counter for every N" (`easylogging++.h:2063-2066` and `2110`;
  the exceptions in `GatesExact`, which the proof brought to light).

What the passing runs show in spite of these: but for the pieces of frames that reads have cut, no
order of events makes a node call an unknown consumer or an unknown callback; with them or without,
no request is served or answered twice, and whatever is not answered can be put down to a frame that
was discarded or cut, or to a process that ended.

## 4. Proofs

Each theorem holds for every value of the constants that satisfies the `ASSUME` of its module:
any nodes, addresses, requests, loops, clients, ports, threads, loggers, statements and byte
strings. The assumptions say only that sets are what they are meant to be (`None` is nobody's
name, mortal nodes are nodes, a port is a 32-bit number, a configuration text gives types
values that can be theirs), and TLC evaluates them in the runs.
Each proof has one step per action and, under it, one per part of the invariant the action can
disturb.

**EventBusProofs** (`BusAssumption`). `TypeCorrect`: `[]TypeOK`, with the conjunct
`endpoints[n][s] <= Len(evConnect[n])` that makes the lookup of a client meaningful.
`AlwaysKnown`: `[]ConsumersKnown`, and from it `NeverUnknownConsumer`. `NoUnknownConsumer` is not
inductive: `ConsumersKnown` follows a message back along its way. A frame in a loop was on a
connection to this node (a head is the beginning of one; a rest names a consumer only by accident, and
nothing is said of it), there it came from a client that `endpoints` keeps under this node
(`EndpointsKnown`), before that it was a routed task whose server is this node, whose address was
in `subs`, where it is put only when the handler is in `_consumers` (`SubsKnown`) - and handlers
are never taken out.

The way of a request, in the same module. `AlwaysAccounted`: `[]RequestsAccounted`. Every
functor in a loop and every frame of a client belongs to one request that was made, but for rests,
which belong to none; no two
belong to the same one (`OneMessage`); each is at the node and in the stage that the history of
its request (`route`, `invoked`, `answered`) says (`TasksTrue`, `FramesTrue`). A rest may hold a reply
address, and a node that finds it in front calls the callback: `RestTrue` says that such a rest is
of a request, not of a reply, and so never at the node that asked, whose callback it would use up.
The induction (`Sound`) carries `ConsumersKnown`, `NothingForgotten` and `PingStaysHome`, and
that a frame of which a head was queued counts as lost (`HeadsLost`). A step takes one
message away, or some frames of one client, and puts others in their place: the lemmas about
`LoopsChange` and `ClientsChange` say this once, and each action is an instance. From it
`NeverUnexpectedReply`, `CallbacksAlwaysOwed`, `NeverForgotten`, `PingAlwaysStaysHome`, and
`BusImplementsRequestReply`: each action maps to an action of `RequestReply` or to
a stutter, because `invoked` and `answered` are zero when their step comes. A consumer that runs for
a rest is a stutter: it runs for no request.

**HazelcastClusterProofs** (`ClusterAssumption`). `OnlyAnnouncedServers`: `[]AllAnnounced`.
Servers in the shared map, in events, in local queues, in what `entryRemoved` is about to put back
and in hands have all announced the address; hence `NextReturnsRegistered`, and
`ClusterImplementsDirectory`. `NodesConverge`: `[]Converging`. For an address with no lost change, the
events on their way to a node, applied in order to what it knows, give the shared map (`Tracks`),
at every step of snapshots, re-reads and queues moved out and back; hence
`QuietNodesKnowTheMap`: `[]Converged`. With `Directory` between them, `OnlyRegistered` is what
the theorems about `EventBus` take for granted of `next`.

**ApplicationProofs**, the bus (`StandaloneAssumption`). `AlwaysQueuedOnce`: the
functor of a request is in one place of one loop and the request not served yet
(`RequestsQueuedOnce`); hence `ReadyIsServed` and `StandaloneImplementsRequestReply`.

The program (`ApplicationAssumption` too). `ProgramUsesTheBus`: `AppSpec => Spec`. Every
step of the program is a step of the bus or leaves it alone, so that types, `ReadyClientsServed`
and the refinement of `RequestReply` are those of the bus. `HttpClientsAnsweredOnce`
needs that the replies of an HTTP client are as many as the answers of its request
(`RepliesMatch`), whoever else is answered by mistake.

**DiscoveryProofs**, the codec (`CodecAssumption`, `SecondsAssumption`). `Placed(b, k, s)`: the bytes of
`s` lie at `k` in memory. `IntRead` and `StringRead` say that what was written by `set_int` and
`Str` at `k` is read back there, whatever is behind, the first for every 32-bit number
(`Digits`: the four bytes make up the number). `HeaderPieces` says where `to_cstring` puts each
field, and `FrameRead` puts it together. `FieldsComeBack`, `FramesDelimited` and
`BodyTakenFromBehind` follow from the invariant `CodecInv`, which only says that a frame that was
sent is the one of the message and that it fits into the buffer.

The node (`DiscoveryAssumption` too). `NodeInfoRead`: C++ and Java read from a
`ClusterNodeInfo` what either wrote. With the invariant that nothing moves once it was published
(`Published`), that the two addresses are one until a setter is called (`OneAddress`) and that a
frame is written only after the return address was put in (`Addressed`): `OneAnswer`,
`KnownWhereBound`, and `FramesOfNode`, the properties of the codec in the composition.

**LogDispatchProofs** (`LogDispatchAssumption`). `OccasionsExact`: `[]GatesExact`. `CountersInv`
says what the hit counter has to do with the number of executions: for `LOG_EVERY_N` the two
leave the same remainder, which the counter's restarts preserve (`HitsFollow`). `DispatchTypesCorrect`, `LocksGivenBack` and `LinesNotMixed` share `LocksInv`:
the Writers alive in a thread are one, or two of which the lower waits (`Stacks`); the text in a
stream is that of the Writer that holds it (`Contents`); a logger's mutex is held just by the
thread with a Writer in a stage between lock and unlock (`LoggerLocks`), and the dispatcher's by
the one thread in the dispatch (`DispatchLocks`). `FilesRolled`: `[]RolledInTime`. A line adds one
to the size of its file and one to what its logger counts as unflushed there, so that the sum
over the loggers of the file grows as well; a flush takes away what one logger counts, and only
after it has looked at the size. What a step does to the sum is an induction (`Induct`).

**LogConfigProofs** (`LogConfigAssumption`). Everything here is a fold: `setGlobally` over the
levels, a merge over the entries of a list, `build()` over them twice, the registered loggers over
their ids, a parsed text over its lines. Each fold is first shown to be a sequence of steps from its first
value to its last (the lemmas `...Folds`, from `FoldSteps` in `Induct`); what it leaves then
follows by induction over the steps (`UpTo`). The proof goes up by layers:

* *Lists.* `Sets`: setting an entry changes the levels it should and leaves every other, and no entry
  moves (`Keeps`). A `Complete` list has an entry for every level and type, Global's first and the
  others in the order of the levels; defaults are (`DefaultsOf`), and a merge into such a list, or
  of one into the empty list, makes another (`MergeComplete`). In the lists of the program Global
  comes with all levels, though in any order (`CoveredLists`). `MergeValues`: a merge gives the
  value of the last entry that touches the level. Hence `GlobalComesFirst` and
  `ReconfiguredLoggersFollow`.
* *Typed maps.* After `k` entries the map of a type has Global's value and just those that differ
  from it (`Filed`; `FiledOnce` for types without levels), and `ToFile` has been turned off for the
  levels whose stream is null (`ToFileFiled`), which needs Global to come first. Hence
  `LoggersReadTheirLists` and `LogsWhereOpen`.
* *Loggers and files.* `Worlds`: every logger's lists are complete and its maps say what the list
  last built says about the streams there are; streams only grow, and no two files have the same.
  `Turned` and `Edited` say what one configure or one edit does, `Changed` both together; a call on
  all loggers is a fold of those (`ChangedAll`). Hence `ConfigTyped`, `StreamsShared`, and
  `OnlyLimitedTruncated`.

`ConfigInv` puts them together. The proof brought to light a case that `TruncatesOnlyLimited` had left out:
`reconfigureLogger` of a logger that does not exist yet makes it with the defaults first, so that
a file may be truncated for a limit that neither the loggers before nor the ones after the call
have. The property now names it.

**Induct** has these inductions. The induction rules of the library take the predicate as an operator,
which the provers cannot instantiate; `SubsetInduction` and `NatInduct` take a set in its place,
and follow from theorems of the library that ask for no operator. `FoldSteps` does the same
for folds: a recursion the library defines over sets of indices becomes a function on `0 .. n` that
starts at the base and takes one step per element.

**LogLinesProofs** (`LogDispatchAssumption`). `EachLoggerServed`: `[]Delivered`, and
`FatalAnnounced`: `[]AbortIsLogged`, from `DeliveryInv`. `Delivered` speaks of statements that are
over, so the invariant says what holds of one under way: its lines are those of the loggers whose
turn is over, once for each time they are named (`Counting`, with `Served`), a logger that is
missing is told by the Writer above (`Noting`), and what is in the stream of the logger at hand
is the text of the statement, or what follows the leftovers of a call with too many values
(`Texts`). Two threads are never in one statement (`Apart`), each Writer has the loggers and the level of
its statement (`Identity`), and a fatal one has written its line before it announces the abort
(`Announcing`, `Aborting`).

`ConsumersKnown`, `RequestsAccounted` and `RequestsQueuedOnce` are properties of runs as well. The
other invariants (`AllAnnounced`, `Converging`, `CountersInv`, `LocksInv`, `CodecInv` and what
`DiscoveryProofs` adds to it, `RollTypes`, `DeliveryInv`, `ConfigInv`) held when TLC checked them on the instances of section 3, and are not
kept as properties of runs: what they are there for are the properties that follow.

**Only model-checked:** the liveness properties `RequestsSettle`, `SelfHeals` and `StatementsEnd`,
whose proofs would need `ENABLED`. Every other property of the passing runs is a theorem, which
holds without the bounds of section 3; the bounds that count steps (`MaxOps` and the like) are
constants of any size in the proofs.

## 5. Not modelled

* The UUID generator (reply addresses are unique) and the benchmark.
* In `EventBus`, a frame that comes in three or more reads, and pieces that parse to a known address or
  server together with the old memory behind them (section 2). What a piece with a garbage length
  does to memory is its end, `"torn_frame"`.
* Two processes on one port, the worker pools of the servers, errors of `bind`.
* Dead code: the self, remote and TCP client branches of the standalone bus, `toObject`, the
  serialisation of `ServerID` alone.
* In the cluster, the composition of `EventBus` with `HazelcastCluster` in one state space; they
  are joined by `Directory`, which the one implements and the other assumes.
* Of easylogging++: verbose levels, performance tracking, crash handling, formats, dates in file
  names, command line parsing, syslog, and asynchronous logging (its `start()` joins the worker in
  the constructor of Storage, so that such a program never starts). In `LogDispatch`: failed
  writes and null streams, the HierarchicalLogging flag, reconfiguration while others log
  (`configure` resets the unflushed counts outside the lock), `unregisterLogger` while a writer
  waits, arguments of a log statement that log themselves and so nest the locks of two loggers.

## 6. Plan

Done in this order: `RequestReply`, `EventBus`, its proofs, `HazelcastCluster`, `MessageCodec`,
`StandaloneBus`, `Directory`, `Discovery`, `Application`, `LogConfig`, `LogDispatch`; then the proofs
about the cluster manager, the requests of the clustered bus, the standalone bus and the program, the
gates and locks of `LogDispatch`, the codec and `Discovery`, the files and the lines of `LogDispatch`,
and `LogConfig`. What would be next is one state space of `EventBus` and `HazelcastCluster`, and what
section 5 leaves out of easylogging++.
