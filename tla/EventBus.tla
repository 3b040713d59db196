------------------------------ MODULE EventBus ------------------------------
(***************************************************************************)
(* The clustered event bus (event_bus_hazeclast.hpp): consumers, requests, *)
(* replies and the TCP clients that carry them between the nodes of a      *)
(* cluster.  The cluster manager is seen through what it promises          *)
(* (hazelcast_cluster.cpp, detailed in module HazelcastCluster).           *)
(*                                                                         *)
(* A node is one process, named by its ServerID.  A request r also names   *)
(* its reply address "__vertx.reply." + uuid.                              *)
(***************************************************************************)
EXTENDS Naturals, Sequences

CONSTANTS
  Nodes,      \* ServerIDs: one process each, never reused
  Addrs,      \* consumer addresses
  PingAddrs,  \* the addresses that contain the substring "ping"
  Reqs,       \* calls of request(), each with the reply address it generates
  Mortal,     \* the nodes that are stopped from outside
  Loops,      \* threads of _eventBusThreadLocal, on every node
  Strays,     \* what string_value may return when it reads past a frame
  None        \* no node, no body, no call; the bytes of no address

Call == [node : Nodes, address : Addrs]

ASSUME BusAssumption ==
  /\ PingAddrs \subseteq Addrs
  /\ Mortal \subseteq Nodes
  /\ Addrs \cap Reqs = {}
  /\ Strays # {} /\ Strays \cap Nodes = {}
  /\ None \notin Nodes \cup Strays \cup Addrs \cup Reqs \cup Call

VARIABLES
  status,          \* "joined": bus constructed; "running": run() has bound TCP; "down"
  consumers,       \* _consumers: addresses with a handler, per node
  consumersLocal,  \* _consumersLocal
  adding,          \* consumer() calls between the emplace and the end of addSub
  subs,            \* <<address, server>> pairs ever put into "__vertx.subs"
  publishers,      \* _publishers: reply addresses with a callback, per node
  queue,           \* functors queued in the event loops, the head is running
  evConnect,       \* TCP client threads started by processStringMessage
  endpoints        \* endpoints: index into evConnect, 0 when there is no entry

\* History: what happened to each request and why a node died.
VARIABLES
  call,            \* [node, address] of the request() call
  route,           \* the server next() returned
  invoked,         \* how often a consumer ran for the request
  answered,        \* how often its response handler ran
  body,            \* what the response handler last saw: the node whose consumer
                   \* replied, or a stray value
  lost,            \* requests with a frame that was discarded
  fault            \* the uncaught exception or null dereference that ended a node

regVars  == <<consumers, consumersLocal, adding, subs>>
netVars  == <<evConnect, endpoints>>
history  == <<call, route, invoked, answered, body, lost>>
vars == <<status, regVars, publishers, queue, netVars, history, fault>>

-----------------------------------------------------------------------------
(* Messages.  A frame has no body: to_cstring writes one only when _reply  *)
(* holds a string, and no message that reaches it has a reply set.         *)

\* The ClusteredMessage a request() functor builds: address is where the reply
\* goes, replay the consumer asked for.
Message == [address : Reqs, replay : Addrs, server : Nodes, body : {None}]

\* On the wire a request names the consumer first, a reply the reply address.
RequestFrame == [first : Addrs, second : Reqs, server : Nodes]
ReplyFrame == [first : Reqs, second : Addrs, server : {None}]
Frame == RequestFrame \cup ReplyFrame

\* What to_message may find in a part of a frame: a string that is cut, or not where
\* a string is expected, is the bytes of no address.
Garbage == [first |-> None, second |-> None, server |-> None]

\* The beginning of f, cut in the headers, in the port or the host, in the second
\* string, or earlier.
Heads(f) ==
  {f, [f EXCEPT !.server = None], [Garbage EXCEPT !.first = f.first], Garbage}

\* The rest of f, seven bytes of which to_message takes for size, version, codec
\* and send: it finds a string if the second one of f comes next.
Rests(f) == {[Garbage EXCEPT !.first = f.second], Garbage}

\* The two addresses written in the order of the fields.
to_stringMut(m) == [first |-> m.address, second |-> m.replay, server |-> m.server]

\* replay is written before address.
to_string(m) == [first |-> m.replay, second |-> m.address, server |-> m.server]

\* The first string becomes the address again; the missing body is read from
\* whatever follows the frame in memory.
to_message(f, stray) ==
  [address |-> f.first, replay |-> f.second, server |-> f.server, body |-> stray]

\* The request a frame belongs to, and the "ping" substring test of onMessage.
ReqOf(f) == IF f.first \in Reqs THEN f.first ELSE f.second
HasPingMut(f) == f.first = "ping"
HasPing(f) == f.first \in PingAddrs \/ f.second \in PingAddrs

\* "head": only the beginning of the frame is in the string that was read; "rest":
\* only what an earlier read left of it.
Received == {"frame", "head", "rest"}
Task == [kind : {"request"}, req : Reqs, address : Addrs]
          \cup [kind : {"routed"}, msg : Message]
          \cup [kind : Received, frame : Frame]

\* What to_message finds in the string of such a functor.  "ping" is not in it.
Parsed(t) ==
  {f \in CASE t.kind = "frame" -> {t.frame}
           [] t.kind = "head" -> Heads(t.frame)
           [] t.kind = "rest" -> Rests(t.frame) : ~ HasPing(f)}

\* pipe: what was sent and not read; torn: the beginning of its first frame was.
Client == [to : Nodes, msg : Frame, st : {"spawned", "dialing", "open", "closed"},
           pipe : Seq(Frame), torn : BOOLEAN]

Faults == {"none", "no_endpoint", "no_consumer", "no_publisher", "null_conn", "torn_frame"}

TypeOK ==
  /\ status \in [Nodes -> {"joined", "running", "down"}]
  /\ consumers \in [Nodes -> SUBSET Addrs]
  /\ consumersLocal \in [Nodes -> SUBSET Addrs]
  /\ adding \in [Nodes -> SUBSET Addrs]
  /\ subs \subseteq Addrs \X Nodes
  /\ publishers \in [Nodes -> SUBSET Reqs]
  /\ queue \in [Nodes -> [Loops -> Seq(Task)]]
  /\ evConnect \in [Nodes -> Seq(Client)]
  /\ endpoints \in [Nodes -> [Nodes -> Nat]]
  /\ \A n, s \in Nodes : endpoints[n][s] <= Len(evConnect[n])
  /\ call \in [Reqs -> Call \cup {None}]
  /\ route \in [Reqs -> Nodes \cup {None}]
  /\ invoked \in [Reqs -> Nat]
  /\ answered \in [Reqs -> Nat]
  /\ body \in [Reqs -> Nodes \cup Strays \cup {None}]
  /\ lost \subseteq Reqs
  /\ fault \in [Nodes -> Faults]

Init ==
  /\ status = [n \in Nodes |-> "joined"]
  /\ consumers = [n \in Nodes |-> {}]
  /\ consumersLocal = [n \in Nodes |-> {}]
  /\ adding = [n \in Nodes |-> {}]
  /\ subs = {}
  /\ publishers = [n \in Nodes |-> {}]
  /\ queue = [n \in Nodes |-> [l \in Loops |-> <<>>]]
  /\ evConnect = [n \in Nodes |-> <<>>]
  /\ endpoints = [n \in Nodes |-> [s \in Nodes |-> 0]]
  /\ call = [r \in Reqs |-> None]
  /\ route = [r \in Reqs |-> None]
  /\ invoked = [r \in Reqs |-> 0]
  /\ answered = [r \in Reqs |-> 0]
  /\ body = [r \in Reqs |-> None]
  /\ lost = {}
  /\ fault = [n \in Nodes |-> "none"]

-----------------------------------------------------------------------------
Up(n) == status[n] # "down"

\* An exception that leaves a functor, or a null dereference, ends the process.
Die(n, why) ==
  /\ status' = [status EXCEPT ![n] = "down"]
  /\ fault' = [fault EXCEPT ![n] = why]

Alive == UNCHANGED <<status, fault>>

Lose(frames) == lost' = lost \cup {ReqOf(f) : f \in frames}

(* Registration and the cluster manager.                                   *)

\* The bus of event_bus.hpp fills _consumersLocal here; the clustered one must not.
ConsumerMut(n, a) ==
  /\ Up(n) /\ a \notin consumersLocal[n]
  /\ consumersLocal' = [consumersLocal EXCEPT ![n] = @ \cup {a}]
  /\ adding' = [adding EXCEPT ![n] = @ \cup {a}]
  /\ Alive /\ UNCHANGED <<consumers, subs, publishers, queue, netVars, history>>

\* consumer(): the handler enters the map before the address is advertised.  A
\* second call for an address changes neither map.
Consumer(n, a) ==
  /\ Up(n) /\ a \notin consumers[n]
  /\ consumers' = [consumers EXCEPT ![n] = @ \cup {a}]
  /\ adding' = [adding EXCEPT ![n] = @ \cup {a}]
  /\ Alive /\ UNCHANGED <<consumersLocal, subs, publishers, queue, netVars, history>>

\* consumer(), continued: hz->addSub puts the address into the shared map.
AddSub(n, a) ==
  /\ Up(n) /\ a \in adding[n]
  /\ subs' = subs \cup {<<a, n>>}
  /\ adding' = [adding EXCEPT ![n] = @ \ {a}]
  /\ Alive /\ UNCHANGED <<consumers, consumersLocal, publishers, queue, netVars, history>>

LocalConsumer(n, a) ==
  /\ Up(n) /\ a \notin consumersLocal[n]
  /\ consumersLocal' = [consumersLocal EXCEPT ![n] = @ \cup {a}]
  /\ Alive /\ UNCHANGED <<consumers, adding, subs, publishers, queue, netVars, history>>

\* Vertx::run binds the TCP servers whose messages reach onMessage.
Run(n) ==
  /\ status[n] = "joined"
  /\ status' = [status EXCEPT ![n] = "running"]
  /\ UNCHANGED <<regVars, publishers, queue, netVars, history, fault>>

\* The process is stopped by a signal or by its machine.
Kill(n) ==
  /\ n \in Mortal /\ Up(n) /\ Die(n, "none")
  /\ UNCHANGED <<regVars, publishers, queue, netVars, history>>

-----------------------------------------------------------------------------
(* Sending.                                                                *)

NewClient(s, f) == [to |-> s, msg |-> f, st |-> "spawned", pipe |-> <<>>, torn |-> FALSE]

\* Sending only if the client has a connection, and dropping the message if not.
processStringMessageMut(n, s, f) ==
  LET i == endpoints[n][s] IN
  /\ evConnect' = CASE s = None -> evConnect
                    [] i = 0 -> [evConnect EXCEPT ![n] = Append(@, NewClient(s, f))]
                    [] i # 0 /\ evConnect[n][i].st = "open" ->
                         [evConnect EXCEPT ![n][i].pipe = Append(@, f)]
                    [] OTHER -> evConnect
  /\ Alive /\ UNCHANGED endpoints

\* The first message for a server starts a client thread that sends it once
\* connected; a later one is sent on conn() of the client in the map, which is
\* null until that client is connected and after it was disconnected.  None is a
\* server read from a piece of a frame: its client never connects, and a second
\* message for the same bytes finds that client.
processStringMessage(n, s, f) ==
  LET i == endpoints[n][s] IN
  /\ \/ /\ s = None
        /\ Alive \/ Die(n, "null_conn")
        /\ UNCHANGED evConnect
     \/ /\ s # None /\ i = 0
        /\ evConnect' = [evConnect EXCEPT ![n] = Append(@, NewClient(s, f))]
        /\ Alive
     \/ /\ s # None /\ i # 0 /\ evConnect[n][i].st = "open"
        /\ evConnect' = [evConnect EXCEPT ![n][i].pipe = Append(@, f)]
        /\ Alive
     \/ /\ s # None /\ i # 0 /\ evConnect[n][i].st # "open"
        /\ Die(n, "null_conn")
        /\ UNCHANGED evConnect
  /\ UNCHANGED endpoints

\* The client thread: Connect() is queued, the endpoint becomes visible to the
\* other threads (emplace keeps an entry that is there), eb.Run() dials.
Dial(n, i) ==
  /\ Up(n) /\ i \in DOMAIN evConnect[n] /\ evConnect[n][i].st = "spawned"
  /\ evConnect' = [evConnect EXCEPT ![n][i].st = "dialing"]
  /\ endpoints' = [endpoints EXCEPT ![n][evConnect[n][i].to] = IF @ = 0 THEN i ELSE @]
  /\ Alive /\ UNCHANGED <<regVars, publishers, queue, history>>

\* The connection callback sends the message the client was started for.
Connected(n, i) ==
  /\ Up(n) /\ i \in DOMAIN evConnect[n] /\ evConnect[n][i].st = "dialing"
  /\ status[evConnect[n][i].to] = "running"
  /\ evConnect' = [evConnect EXCEPT ![n][i].st = "open",
                                    ![n][i].pipe = Append(@, evConnect[n][i].msg)]
  /\ Alive /\ UNCHANGED <<regVars, publishers, queue, endpoints, history>>

\* Refused or unreachable: nobody keeps the message, the entry stays in the map.
ConnectFailed(n, i) ==
  /\ Up(n) /\ i \in DOMAIN evConnect[n] /\ evConnect[n][i].st = "dialing"
  /\ evConnect' = [evConnect EXCEPT ![n][i].st = "closed"]
  /\ Lose({evConnect[n][i].msg})
  /\ Alive /\ UNCHANGED <<regVars, publishers, queue, endpoints,
                          call, route, invoked, answered, body>>

\* Without set_auto_reconnect(false) the client dials again, and its callback
\* sends the same message a second time.
DisconnectedMut(n, i) ==
  /\ Up(n) /\ i \in DOMAIN evConnect[n] /\ evConnect[n][i].st = "open"
  /\ evConnect' = [evConnect EXCEPT ![n][i].st = "dialing", ![n][i].pipe = <<>>,
                                    ![n][i].torn = FALSE]
  /\ Lose({evConnect[n][i].pipe[k] : k \in DOMAIN evConnect[n][i].pipe})
  /\ Alive /\ UNCHANGED <<regVars, publishers, queue, endpoints,
                          call, route, invoked, answered, body>>

\* The peer or the network closes the connection: what was not read is gone,
\* conn() is null again and there is no reconnection.
Disconnected(n, i) ==
  /\ Up(n) /\ i \in DOMAIN evConnect[n] /\ evConnect[n][i].st = "open"
  /\ evConnect' = [evConnect EXCEPT ![n][i].st = "closed", ![n][i].pipe = <<>>,
                                    ![n][i].torn = FALSE]
  /\ Lose({evConnect[n][i].pipe[k] : k \in DOMAIN evConnect[n][i].pipe})
  /\ Alive /\ UNCHANGED <<regVars, publishers, queue, endpoints,
                          call, route, invoked, answered, body>>

-----------------------------------------------------------------------------
(* request() and the functor it queues.                                    *)

Enqueue(n, l, t) == queue' = [queue EXCEPT ![n][l] = Append(@, t)]
Finish(n, l) == queue' = [queue EXCEPT ![n][l] = Tail(@)]
Running(n, l, kind) ==
  /\ Up(n) /\ queue[n][l] # <<>> /\ Head(queue[n][l]).kind = kind

Request(n, l, r, a) ==
  /\ Up(n) /\ call[r] = None
  /\ call' = [call EXCEPT ![r] = [node |-> n, address |-> a]]
  /\ Enqueue(n, l, [kind |-> "request", req |-> r, address |-> a])
  /\ Alive /\ UNCHANGED <<regVars, publishers, netVars, route, invoked, answered, body, lost>>

Invoke(r) == invoked' = [invoked EXCEPT ![r] = @ + 1]
Answer(r, b) ==
  /\ answered' = [answered EXCEPT ![r] = @ + 1]
  /\ body' = [body EXCEPT ![r] = b]

\* A consumer of this process answers at once, on the same thread.
RequestLocal(n, l) ==
  LET t == Head(queue[n][l]) IN
  /\ Running(n, l, "request") /\ t.address \in consumersLocal[n]
  /\ Invoke(t.req) /\ Answer(t.req, n) /\ Finish(n, l)
  /\ Alive /\ UNCHANGED <<regVars, publishers, netVars, call, route, lost>>

\* hz->next throws out_of_range for an address this node knows no endpoint of.
\* When it learns or forgets one is up to the entry events, so it may always be so.
RequestUnknown(n, l) ==
  LET t == Head(queue[n][l]) IN
  /\ Running(n, l, "request") /\ t.address \notin consumersLocal[n]
  /\ Die(n, "no_endpoint")
  /\ UNCHANGED <<regVars, publishers, queue, netVars, history>>

\* What hz->next may return: a server that has advertised the address, as module
\* Directory has it and HazelcastCluster implements it.
next(a) == {s \in Nodes : <<a, s>> \in subs}

RoutedMessage(r, a, s) == [address |-> r, replay |-> a, server |-> s, body |-> None]

\* The callback is registered only after the message was handed on.
RequestRoutedMut(n, l, s) ==
  LET t == Head(queue[n][l]) IN
  /\ Running(n, l, "request") /\ t.address \notin consumersLocal[n]
  /\ s \in next(t.address)
  /\ route' = [route EXCEPT ![t.req] = s]
  /\ queue' = [queue EXCEPT ![n][l][1] =
                 [kind |-> "routed", msg |-> RoutedMessage(t.req, t.address, s)]]
  /\ Alive /\ UNCHANGED <<regVars, publishers, netVars, call, invoked, answered, body, lost>>

\* next() chose s; the callback is registered under the reply address.
RequestRouted(n, l, s) ==
  LET t == Head(queue[n][l]) IN
  /\ Running(n, l, "request") /\ t.address \notin consumersLocal[n]
  /\ s \in next(t.address)
  /\ route' = [route EXCEPT ![t.req] = s]
  /\ publishers' = [publishers EXCEPT ![n] = @ \cup {t.req}]
  /\ queue' = [queue EXCEPT ![n][l][1] =
                 [kind |-> "routed", msg |-> RoutedMessage(t.req, t.address, s)]]
  /\ Alive /\ UNCHANGED <<regVars, netVars, call, invoked, answered, body, lost>>

-----------------------------------------------------------------------------
(* processOnTcpMessage for a request of this node (isRequest()).           *)

\* The chosen server is this node: consumer and callback run here.  For an
\* unknown consumer _consumers[...] makes an empty function, and calling it throws.
SelfServed(n, l) ==
  LET m == Head(queue[n][l]).msg
      owed == m.address \in publishers[n] IN
  /\ Running(n, l, "routed") /\ m.server = n
  /\ IF m.replay \in consumers[n]
     THEN /\ Invoke(m.address)
          /\ IF owed THEN Answer(m.address, n) ELSE UNCHANGED <<answered, body>>
          /\ publishers' = [publishers EXCEPT ![n] = @ \ {m.address}]
          /\ Finish(n, l)
          /\ Alive
     ELSE /\ Die(n, "no_consumer")
          /\ UNCHANGED <<publishers, queue, invoked, answered, body>>
  /\ UNCHANGED <<regVars, netVars, call, route, lost>>

\* Another node: the message travels with this node as the place to reply to.
RemoteSent(n, l) ==
  LET m == Head(queue[n][l]).msg IN
  /\ Running(n, l, "routed") /\ m.server # n
  /\ processStringMessage(n, m.server, to_string([m EXCEPT !.server = n]))
  /\ Finish(n, l)
  /\ UNCHANGED <<regVars, publishers, history>>

-----------------------------------------------------------------------------
(* onMessage on the TCP server, and processOnTcpMessage for what it queued. *)

\* One read of a connection takes the bytes that are there, wherever a frame ends:
\* k frames to their end and, if cut, a part of the next one.  The string is queued
\* as one message, so what is not first in it vanishes with msg->Reset().  A "ping"
\* anywhere in it makes all of it a ping; one in a frame that is read in parts may
\* be in this string or not.  Bound: the rest of a frame comes with one read.
OnMessage(n, i, k, cut, l) ==
  LET c == evConnect[n][i]
      last == IF cut THEN k + 1 ELSE k
      whole == {j \in 1..k : j = 1 => ~ c.torn}
      kind == IF c.torn THEN "rest" ELSE IF k = 0 THEN "head" ELSE "frame"
      kept == IF kind = "frame" THEN {1} ELSE {} IN
  /\ i \in DOMAIN evConnect[n] /\ last \in DOMAIN c.pipe
  /\ c.torn => k > 0
  /\ status[c.to] = "running"
  /\ evConnect' = [evConnect EXCEPT ![n][i].pipe = SubSeq(@, k + 1, Len(@)),
                                    ![n][i].torn = cut]
  /\ \/ /\ \E j \in 1..last : HasPing(c.pipe[j])
        /\ Lose({c.pipe[j] : j \in 1..last})
        /\ UNCHANGED queue
     \/ /\ \A j \in whole : ~ HasPing(c.pipe[j])
        /\ Lose({c.pipe[j] : j \in (1..last) \ kept})
        /\ Enqueue(c.to, l, [kind |-> kind, frame |-> c.pipe[1]])
  /\ Alive /\ UNCHANGED <<regVars, publishers, endpoints,
                          call, route, invoked, answered, body>>

\* The callback runs but stays in the map.
ReplyReceivedMut(n, l, f, stray) ==
  LET m == to_message(f, stray) IN
  /\ \E kind \in Received : Running(n, l, kind)
  /\ f \in Parsed(Head(queue[n][l])) /\ m.address \in publishers[n]
  /\ Answer(m.address, m.body)
  /\ Finish(n, l)
  /\ Alive /\ UNCHANGED <<regVars, publishers, netVars, call, route, invoked, lost>>

\* A reply: the callback runs under _resp_mutex and is erased.  A missing one is
\* an empty function made by _publishers[address]: calling it throws.
ReplyReceived(n, l, f, stray) ==
  LET t == Head(queue[n][l])
      m == to_message(f, stray) IN
  /\ \E kind \in Received : Running(n, l, kind)
  /\ f \in Parsed(t) /\ m.address \in Reqs
  /\ IF m.address \in publishers[n]
     THEN /\ Answer(m.address, m.body)
          /\ publishers' = [publishers EXCEPT ![n] = @ \ {m.address}]
          /\ Finish(n, l)
          /\ Alive
     ELSE /\ Die(n, IF t.kind = "rest" THEN "torn_frame" ELSE "no_publisher")
          /\ UNCHANGED <<publishers, queue, answered, body>>
  /\ UNCHANGED <<regVars, netVars, call, route, invoked, lost>>

\* response_message: the two addresses as received, the port of this node with
\* the host of the requester (no server), and no reply: what the consumer gave
\* to reply() stays in the request message.
Response(m) == [address |-> m.address, replay |-> m.replay, server |-> None, body |-> None]

\* Any other address: the consumer runs, for a request of another node, whole or its
\* beginning, or for the rest of a frame, which is no request, and a reply is sent
\* back.  An unknown consumer is again an empty function; for the bytes of no address
\* it always is.
RequestServed(n, l, f, stray) ==
  LET t == Head(queue[n][l])
      m == to_message(f, stray)
      torn == t.kind = "rest" \/ m.address = None IN
  /\ \E kind \in Received : Running(n, l, kind)
  /\ f \in Parsed(t) /\ m.address \notin Reqs
  /\ IF m.address \in consumers[n]
     THEN /\ IF t.kind = "rest" THEN UNCHANGED invoked ELSE Invoke(ReqOf(t.frame))
          /\ processStringMessage(n, m.server, to_string(Response(m)))
          /\ Finish(n, l)
     ELSE /\ Die(n, IF torn THEN "torn_frame" ELSE "no_consumer")
          /\ UNCHANGED <<queue, netVars, invoked>>
  /\ UNCHANGED <<regVars, publishers, call, route, answered, body, lost>>

-----------------------------------------------------------------------------
\* The functor of request() and processOnTcpMessage: local, this server, another
\* server, reply, consumer.
LoopStep(n, l) ==
  \/ RequestLocal(n, l) \/ RequestUnknown(n, l)
  \/ \E s \in Nodes : RequestRouted(n, l, s)
  \/ SelfServed(n, l) \/ RemoteSent(n, l)
  \/ /\ queue[n][l] # <<>> /\ Head(queue[n][l]).kind \in Received
     /\ \E f \in Parsed(Head(queue[n][l])), stray \in Strays :
          ReplyReceived(n, l, f, stray) \/ RequestServed(n, l, f, stray)

ClientStep(n, i) == Dial(n, i) \/ Connected(n, i) \/ ConnectFailed(n, i)

Next ==
  \/ \E n \in Nodes, a \in Addrs :
       \/ Consumer(n, a) \/ AddSub(n, a) \/ LocalConsumer(n, a)
       \/ \E l \in Loops, r \in Reqs : Request(n, l, r, a)
  \/ \E n \in Nodes : Run(n) \/ Kill(n)
  \/ \E n \in Nodes, l \in Loops : LoopStep(n, l)
  \/ \E n \in Nodes : \E i \in DOMAIN evConnect[n] :
       \/ ClientStep(n, i) \/ Disconnected(n, i)
       \/ \E k \in 0..Len(evConnect[n][i].pipe), cut \in BOOLEAN, l \in Loops :
            OnMessage(n, i, k, cut, l)

Spec == Init /\ [][Next]_vars

\* Every thread runs: event loops, client threads and the TCP servers' workers.
\* The bytes of a frame that was sent arrive, so a read ends it.  Users and the
\* cluster owe nothing.
Fairness ==
  /\ \A n \in Nodes, l \in Loops : WF_vars(LoopStep(n, l))
  /\ \A n \in Nodes : WF_vars(\E i \in DOMAIN evConnect[n] : ClientStep(n, i))
  /\ \A n \in Nodes : WF_vars(\E i \in DOMAIN evConnect[n] :
                         \E k \in DOMAIN evConnect[n][i].pipe, cut \in BOOLEAN, l \in Loops :
                           OnMessage(n, i, k, cut, l))

FairSpec == Spec /\ Fairness

-----------------------------------------------------------------------------
(* Safety.                                                                 *)

\* Whenever processOnTcpMessage has read the address of a request, the node has
\* that consumer: consumer() fills _consumers before addSub advertises the
\* address, so whoever learns of the subscription finds the handler (lines 97-98
\* against 181 and 216).  Only a read that ends inside a frame makes a node call
\* a consumer it never had, for bytes that are no address ("torn_frame").
NoUnknownConsumer == \A n \in Nodes : fault[n] # "no_consumer"

\* A request frame for node s names a consumer of s.
FrameKnown(s, f) == f.first \in Addrs => f.first \in consumers[s]

SubsKnown ==
  /\ \A n \in Nodes : adding[n] \subseteq consumers[n]
  /\ \A a \in Addrs, n \in Nodes : <<a, n>> \in subs => a \in consumers[n]

TaskKnown(n, t) ==
  /\ t.kind = "routed" => t.msg.replay \in consumers[t.msg.server]
  /\ t.kind \in {"frame", "head"} => FrameKnown(n, t.frame)

TasksKnown ==
  \A n \in Nodes, l \in Loops : \A k \in DOMAIN queue[n][l] : TaskKnown(n, queue[n][l][k])

ClientKnown(c) ==
  /\ FrameKnown(c.to, c.msg)
  /\ \A k \in DOMAIN c.pipe : FrameKnown(c.to, c.pipe[k])

ClientsKnown ==
  \A n \in Nodes : \A i \in DOMAIN evConnect[n] : ClientKnown(evConnect[n][i])

EndpointsKnown ==
  \A n, s \in Nodes : endpoints[n][s] # 0 => evConnect[n][endpoints[n][s]].to = s

\* Why, in every loop and on every connection: what is advertised (or about to
\* be) has a handler, a routed task names a consumer of its server, and a request
\* frame on its way to a node, or queued there, whole or its beginning, a consumer
\* of that node, over a client that endpoints keeps under the server it is
\* connected to.  (The rest of a frame names a consumer only by accident.)
ConsumersKnown ==
  SubsKnown /\ TasksKnown /\ ClientsKnown /\ EndpointsKnown /\ NoUnknownConsumer

\* No reply whose address was read finds its callback missing: _publishers gets
\* the callback before the message leaves (line 128), one reply is sent per
\* request, and a lost connection never sends its message again (line 245).  The
\* rest of a request that a read has cut is taken for a reply to the wrong node
\* when its reply address comes to lie in front ("torn_frame").
NoUnexpectedReply == \A n \in Nodes : fault[n] # "no_publisher"

\* _publishers holds exactly the callbacks still owed an answer: none is erased
\* early, none stays behind after it ran (lines 128, 189 and 210).
CallbacksOwed ==
  \A n \in Nodes : Up(n) =>
    publishers[n] = {r \in Reqs : /\ call[r] # None /\ call[r].node = n
                                  /\ route[r] # None /\ answered[r] = 0}

\* The node that asked, or the one chosen to answer, is down.
Gone(r) ==
  \/ call[r] # None /\ ~ Up(call[r].node)
  \/ route[r] # None /\ ~ Up(route[r])

Carries(t, r) ==
  \/ t.kind = "request" /\ t.req = r
  \/ t.kind = "routed" /\ t.msg.address = r
  \/ t.kind \in {"frame", "head"} /\ ReqOf(t.frame) = r

\* The k-th functor of a loop carries request r ...
LoopHolds(r, n, l, k) == k \in DOMAIN queue[n][l] /\ Carries(queue[n][l][k], r)

\* ... or a client does, whose frames are the ones in its pipe, and before it is
\* connected the one it was started for (place 0).  Neither the rest of a frame in
\* a pipe nor one in a loop is a message of a request.
Slots(c) == {k \in DOMAIN c.pipe : k = 1 => ~ c.torn}
              \cup IF c.st \in {"spawned", "dialing"} THEN {0} ELSE {}
FrameOf(c, k) == IF k = 0 THEN c.msg ELSE c.pipe[k]

ClientHolds(r, n, i, k) ==
  /\ i \in DOMAIN evConnect[n]
  /\ k \in Slots(evConnect[n][i]) /\ ReqOf(FrameOf(evConnect[n][i], k)) = r

InLoop(r) ==
  \E n \in Nodes, l \in Loops : \E k \in DOMAIN queue[n][l] : LoopHolds(r, n, l, k)

InClient(r) ==
  \E n \in Nodes : \E i \in DOMAIN evConnect[n] :
    \E k \in Slots(evConnect[n][i]) : ClientHolds(r, n, i, k)

\* There is never a second message of a request: it is in one place of one loop,
\* or of one client.
OnceInLoops(r) ==
  \A n \in Nodes, l \in Loops : \A k \in DOMAIN queue[n][l] : LoopHolds(r, n, l, k) =>
    \A m \in Nodes, j \in Loops : \A h \in DOMAIN queue[m][j] :
      LoopHolds(r, m, j, h) => n = m /\ l = j /\ k = h

OnceInClients(r) ==
  \A n \in Nodes : \A i \in DOMAIN evConnect[n] : \A k \in Slots(evConnect[n][i]) :
    ClientHolds(r, n, i, k) =>
      \A m \in Nodes : \A j \in DOMAIN evConnect[m] : \A h \in Slots(evConnect[m][j]) :
        ClientHolds(r, m, j, h) => n = m /\ i = j /\ k = h

OneMessage ==
  \A r \in Reqs : OnceInLoops(r) /\ OnceInClients(r) /\ ~ (InLoop(r) /\ InClient(r))

\* Request r of node n for address a, which next() gave to s (None: not yet), has
\* been served v times and not answered.
Stage(r, n, a, s, v) ==
  /\ call[r] = [node |-> n, address |-> a] /\ route[r] = s
  /\ invoked[r] = v /\ answered[r] = 0

\* A frame on its way to s: a request that was routed there from another node, or
\* the reply to a request that was served elsewhere.
FrameTrue(s, f) ==
  IF f.first \in Addrs
  THEN Stage(f.second, f.server, f.first, s, 0) /\ f.server # s
  ELSE \E m \in Nodes \ {s} : Stage(f.first, s, f.second, m, 1)

\* The rest of a frame, on its way to s or read there: a reply address in it that
\* may come to lie in front is that of a request of another node.
RestTrue(s, f) == f.second \in Reqs => call[f.second] # None /\ call[f.second].node # s

\* A functor of n.
TaskTrue(n, t) ==
  /\ t.kind = "request" => Stage(t.req, n, t.address, None, 0)
  /\ t.kind = "routed" => Stage(t.msg.address, n, t.msg.replay, t.msg.server, 0)
  /\ t.kind \in {"frame", "head"} => FrameTrue(n, t.frame)
  /\ t.kind = "rest" => RestTrue(n, t.frame)
  /\ t.kind = "frame" => ~ HasPing(t.frame)

\* What is in the place where a message of r is agrees with what happened to r.
TasksTrue ==
  \A n \in Nodes, l \in Loops : \A k \in DOMAIN queue[n][l] : TaskTrue(n, queue[n][l][k])

FramesTrue ==
  \A n \in Nodes : \A i \in DOMAIN evConnect[n] :
    LET c == evConnect[n][i] IN
    /\ \A k \in Slots(c) : FrameTrue(c.to, FrameOf(c, k))
    /\ c.torn => c.pipe # <<>> /\ RestTrue(c.to, c.pipe[1])

\* Nothing happened yet to a request that was not made.
NothingUnasked ==
  \A r \in Reqs : call[r] = None => route[r] = None /\ invoked[r] = 0 /\ answered[r] = 0

\* Why a request is served and answered once: however loops, clients, reads and
\* disconnections interleave, one message of it exists, whole or the beginning of
\* one, at the node and in the stage its history says; the rest of a frame never
\* reaches the node that asked with the address of its own request; and a callback
\* waits for as long as it is needed.
RequestsAccounted ==
  /\ OneMessage /\ TasksTrue /\ FramesTrue /\ NothingUnasked
  /\ CallbacksOwed /\ NoUnexpectedReply

\* A request is never just forgotten: until its handler ran it is in a loop or
\* on its way, unless a frame of it was discarded or one of its two nodes died.
NothingForgotten ==
  \A r \in Reqs : call[r] # None =>
    answered[r] > 0 \/ r \in lost \/ Gone(r) \/ InLoop(r) \/ InClient(r)

\* An address with "ping" in it is reached only inside its own process: on the
\* wire onMessage takes the request for a ping, however often it is tried.
PingStaysHome ==
  \A r \in Reqs : call[r] # None /\ call[r].address \in PingAddrs /\ invoked[r] > 0 =>
    route[r] \in {None, call[r].node}

\* What the README's examples expect: msg.reply(...) in the consumer is what
\* response.bodyAsString() returns to the caller, wherever the consumer runs.
ReplyBodyDelivered == \A r \in Reqs : answered[r] > 0 => body[r] \in Nodes

\* processStringMessage sends its message to the consumer or the sender: it
\* never dereferences a connection that is not there.
SendsOverTcp == \A n \in Nodes : fault[n] # "null_conn"

(* Refinement and liveness.                                                *)

RR == INSTANCE RequestReply
        WITH handlers <- [n \in Nodes |-> consumers[n] \cup consumersLocal[n]]

\* The bus keeps the promise of module RequestReply: consumer and response
\* handler run at most once per request, in this order, where the address has a
\* handler, through every race of loops, clients, reads and disconnections.
ImplementsRequestReply == RR!Spec

\* Every request is settled: its response handler runs, or a frame of it was
\* discarded or cut (coalesced read, read that ends inside it, "ping", failed or
\* closed connection), or the node that asked or the one chosen to answer is down.
RequestsSettle ==
  \A r \in Reqs : call[r] # None ~> answered[r] > 0 \/ r \in lost \/ Gone(r)

=============================================================================
