---------------------------- MODULE StandaloneBus ----------------------------
(***************************************************************************)
(* The event bus built without Hazelcast (event_bus.hpp): one process, the *)
(* event loops that allocateEventLoop starts on a thread of its own while  *)
(* the constructor returns, consumers, requests, and the TCP bridge.       *)
(* consumer and localConsumer both fill _consumersLocal; _consumers and    *)
(* _publishers are never filled, so their branches serve nobody.           *)
(***************************************************************************)
EXTENDS Naturals, Sequences

CONSTANTS
  Addrs,      \* consumer addresses
  Reqs,       \* calls of request()
  Loops,      \* threads of _eventBusThreadLocal
  Base,       \* the loop of _eventBusPool
  Self,       \* this process
  None,       \* no call
  MaxBridge   \* bound on the messages the TCP bridge receives

ASSUME StandaloneAssumption ==
  /\ MaxBridge \in Nat /\ Base \notin Loops
  /\ None \notin Addrs \cup [node : {Self}, address : Addrs]

VARIABLES
  pool,            \* allocateEventLoop: "none", "created", "started", "running"
  bound,           \* Vertx::run has bound the bridge
  consumersLocal,  \* _consumersLocal: addresses with a handler
  queue,           \* functors of each loop, the head runs next
  received,        \* messages of the bridge, at most MaxBridge
  fault            \* what ended the process

\* History.
VARIABLES
  call,      \* the address of each request() call
  ready,     \* calls made when the address already had its consumer
  invoked,   \* runs of a consumer for the request
  answered,  \* runs of its response handler
  dropped    \* requests that found no consumer

history == <<call, ready, invoked, answered, dropped>>
vars == <<pool, bound, consumersLocal, queue, received, fault, history>>

AllLoops == Loops \cup {Base}
Up == fault = "none"

Task == [kind : {"request"}, req : Reqs] \cup [kind : {"frame"}, address : Addrs]

TypeOK ==
  /\ pool \in {"none", "created", "started", "running"}
  /\ bound \in BOOLEAN
  /\ consumersLocal \subseteq Addrs
  /\ queue \in [AllLoops -> Seq(Task)]
  /\ received \in 0 .. MaxBridge
  /\ fault \in {"none", "null_pool", "no_consumer"}
  /\ call \in [Reqs -> Addrs \cup {None}]
  /\ ready \subseteq Reqs /\ dropped \subseteq Reqs
  /\ invoked \in [Reqs -> Nat] /\ answered \in [Reqs -> Nat]

Init ==
  /\ pool = "none" /\ bound = FALSE
  /\ consumersLocal = {}
  /\ queue = [l \in AllLoops |-> <<>>]
  /\ received = 0 /\ fault = "none"
  /\ call = [r \in Reqs |-> None]
  /\ ready = {} /\ dropped = {}
  /\ invoked = [r \in Reqs |-> 0]
  /\ answered = [r \in Reqs |-> 0]

-----------------------------------------------------------------------------
(* allocateEventLoop, on a thread of its own.                              *)

Advance(from, to) ==
  /\ Up /\ pool = from /\ pool' = to
  /\ UNCHANGED <<bound, consumersLocal, queue, received, fault, history>>

\* _eventBusThreadLocal is assigned, its threads run, the base loop runs.
PoolCreated == Advance("none", "created")
PoolStarted == Advance("created", "started")

\* Without _eventBusPool->Run() the base loop never runs what it was given.
BaseRunsMut == FALSE

BaseRuns == Advance("started", "running")

\* Vertx::run.
Run ==
  /\ Up /\ ~ bound /\ bound' = TRUE
  /\ UNCHANGED <<pool, consumersLocal, queue, received, fault, history>>

-----------------------------------------------------------------------------
\* The map is replaced rather than extended.
ConsumerMut(a) ==
  /\ Up /\ a \notin consumersLocal
  /\ consumersLocal' = {a}
  /\ UNCHANGED <<pool, bound, queue, received, fault, history>>

\* emplace keeps the consumer that is there: a second call changes nothing.
Consumer(a) ==
  /\ Up /\ a \notin consumersLocal
  /\ consumersLocal' = consumersLocal \cup {a}
  /\ UNCHANGED <<pool, bound, queue, received, fault, history>>

\* GetNextLoop: the base loop until the threads have started, then any of them.
NextLoop == IF pool = "created" THEN {Base} ELSE Loops

\* The functor goes to a loop, or through the null pointer _eventBusThreadLocal
\* still is, which ends the process.
QueueInLoop(l, t) ==
  \/ /\ pool = "none" /\ fault' = "null_pool" /\ UNCHANGED queue
  \/ /\ pool # "none" /\ l \in NextLoop
     /\ queue' = [queue EXCEPT ![l] = Append(@, t)] /\ UNCHANGED fault

\* The functor captures the address in the place of the request.
RequestMut(r, a, l) ==
  /\ Up /\ call[r] = None
  /\ call' = [call EXCEPT ![r] = a]
  /\ QueueInLoop(l, [kind |-> "request", req |-> a])
  /\ UNCHANGED <<pool, bound, consumersLocal, received, ready, invoked, answered, dropped>>

Request(r, a, l) ==
  /\ Up /\ call[r] = None
  /\ call' = [call EXCEPT ![r] = a]
  /\ ready' = IF a \in consumersLocal THEN ready \cup {r} ELSE ready
  /\ QueueInLoop(l, [kind |-> "request", req |-> r])
  /\ UNCHANGED <<pool, bound, consumersLocal, received, invoked, answered, dropped>>

\* onMessage.  A message with "ping" in it is answered and changes nothing.
OnMessage(a, l) ==
  /\ Up /\ bound /\ received < MaxBridge
  /\ received' = received + 1
  /\ QueueInLoop(l, [kind |-> "frame", address |-> a])
  /\ UNCHANGED <<pool, bound, consumersLocal, history>>

-----------------------------------------------------------------------------
(* The functors.  A loop serves them in the order they were queued.        *)

Running(l, kind) ==
  /\ Up /\ queue[l] # <<>> /\ Head(queue[l]).kind = kind
  /\ l \in Loops \/ pool = "running"

Finish(l) == queue' = [queue EXCEPT ![l] = Tail(@)]

\* The consumer is invoked without looking for it in the map.
ServeMut(l) ==
  LET r == Head(queue[l]).req IN
  /\ Running(l, "request")
  /\ invoked' = [invoked EXCEPT ![r] = @ + 1]
  /\ answered' = [answered EXCEPT ![r] = @ + 1]
  /\ Finish(l)
  /\ UNCHANGED <<pool, bound, consumersLocal, received, fault, call, ready, dropped>>

\* processOnTcpMessage for a local request: consumer, then response handler, on
\* the same thread.  Without a consumer there is no else: nobody is told.
Serve(l) ==
  LET r == Head(queue[l]).req IN
  /\ Running(l, "request")
  /\ \/ /\ call[r] \in consumersLocal
        /\ invoked' = [invoked EXCEPT ![r] = @ + 1]
        /\ answered' = [answered EXCEPT ![r] = @ + 1]
        /\ UNCHANGED dropped
     \/ /\ call[r] \notin consumersLocal
        /\ dropped' = dropped \cup {r}
        /\ UNCHANGED <<invoked, answered>>
  /\ Finish(l)
  /\ UNCHANGED <<pool, bound, consumersLocal, received, fault, call, ready>>

\* processOnTcpMessage for a message of the bridge: the consumer is looked up in
\* _consumers, which is empty, and calling the empty function throws.
ServeFrame(l) ==
  /\ Running(l, "frame")
  /\ fault' = "no_consumer"
  /\ UNCHANGED <<pool, bound, consumersLocal, queue, received, history>>

-----------------------------------------------------------------------------
\* allocateEventLoop, the same in event_bus_hazeclast.hpp.
PoolThread == PoolCreated \/ PoolStarted \/ BaseRuns

\* processOnTcpMessage.  Its branches for this server and for another one are
\* dead: request() makes local messages only.
LoopStep(l) == Serve(l) \/ ServeFrame(l)

Next ==
  \/ PoolThread \/ Run
  \/ \E a \in Addrs : Consumer(a)
  \/ \E a \in Addrs, l \in AllLoops : OnMessage(a, l) \/ \E r \in Reqs : Request(r, a, l)
  \/ \E l \in AllLoops : LoopStep(l)

Spec == Init /\ [][Next]_vars

-----------------------------------------------------------------------------
\* A request made after its consumer was registered is never dropped, whichever
\* loop it waits in and whatever is registered meanwhile: only a request that
\* was made too early can find nobody in _consumersLocal.
ReadyNeverDropped == ready \cap dropped = {}

\* The places of loop l at which the functor of request r waits.
Waiting(l, r) ==
  {k \in DOMAIN queue[l] : queue[l][k] = [kind |-> "request", req |-> r]}

\* A functor is the only one of its request, which nobody has served yet.
TasksUnique ==
  \A r \in Reqs, l \in AllLoops : \A k \in Waiting(l, r) :
    /\ call[r] # None /\ invoked[r] = 0 /\ r \notin dropped
    /\ \A m \in AllLoops : \A j \in Waiting(m, r) : m = l /\ j = k

\* What has happened to a request: nothing before it was made, consumer and
\* response handler together and at most once, and a consumer that was there
\* when it was made is there still.
HistoryMatches ==
  \A r \in Reqs :
    /\ call[r] = None => invoked[r] = 0 /\ r \notin ready \cup dropped
    /\ invoked[r] = answered[r] /\ invoked[r] <= 1
    /\ r \in ready => call[r] \in consumersLocal

\* A functor is queued once, in one loop, and runs once: what makes a request
\* be answered once, or dropped, and never both.
RequestsQueuedOnce == TasksUnique /\ HistoryMatches

\* As the README's request example has it, request() may follow the construction
\* of the bus at once: the pool it uses is there.
StartupSafe == fault # "null_pool"

RR == INSTANCE RequestReply
        WITH Nodes <- {Self},
             handlers <- [n \in {Self} |-> consumersLocal],
             call <- [r \in Reqs |-> IF call[r] = None THEN None
                                     ELSE [node |-> Self, address |-> call[r]]]

\* The bus of one process keeps the same promise as the clustered one: consumer
\* and response handler run at most once, in this order, and only if the address
\* has a consumer when the request is served.
ImplementsRequestReply == RR!Spec

=============================================================================
