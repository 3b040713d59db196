----------------------------- MODULE Application -----------------------------
(***************************************************************************)
(* The program of main.cpp in its standalone build: TCP servers and an     *)
(* HTTP server whose handlers turn what they read into requests to the     *)
(* event bus and answer from its response handler, started before the      *)
(* consumers are registered.  The bus is module StandaloneBus; its callers *)
(* are the server threads, and main() runs one statement at a time.        *)
(***************************************************************************)
EXTENDS StandaloneBus, Functions

CONSTANTS
  NetPorts,   \* the ports of the NetServers in the order of main(): 9091, 9092, 9094
  HttpPort,   \* 9093
  AddressOf,  \* the address the handler of each port sends to
  Source,     \* the port each client of Reqs connects to
  Consumers   \* the addresses main() registers, in its order

Ports == Range(NetPorts) \cup {HttpPort}

ASSUME ApplicationAssumption ==
  /\ NetPorts \in Seq(Range(NetPorts))
  /\ HttpPort \notin Range(NetPorts)
  /\ AddressOf \in [Ports -> Addrs]
  /\ Source \in [Reqs -> Ports]
  /\ Consumers \in Seq(Addrs)

VARIABLES
  main,       \* "starting", "serving" after httpServer.listen, "running"
  listened,   \* NetServers main() has told to listen, the first ones of NetPorts
  registered, \* consumers main() has registered, the first ones of Consumers
  starting,   \* NetServers whose detached thread has not bound yet
  listening,  \* ports that accept clients
  handler,    \* the server's callback for each client: "none", "active", "returned"
  replies,    \* history: responses each client received
  corrupt     \* the process ended on a connection that is gone

appVars == <<main, listened, registered, starting, listening, handler, replies, corrupt>>

ProgramTypeOK ==
  /\ main \in {"starting", "serving", "running"}
  /\ listened \in 0 .. Len(NetPorts) /\ registered \in 0 .. Len(Consumers)
  /\ starting \subseteq Range(NetPorts) /\ listening \subseteq Ports
  /\ handler \in [Reqs -> {"none", "active", "returned"}]
  /\ replies \in [Reqs -> Nat]
  /\ corrupt \in BOOLEAN

AppTypeOK == TypeOK /\ ProgramTypeOK

\* main() has not called anything yet, and no client is connected.
AppInit ==
  /\ Init
  /\ main = "starting" /\ listened = 0 /\ registered = 0
  /\ starting = {} /\ listening = {}
  /\ handler = [r \in Reqs |-> "none"]
  /\ replies = [r \in Reqs |-> 0]
  /\ corrupt = FALSE

Net(r) == Source[r] # HttpPort

-----------------------------------------------------------------------------
(* main().  clusteredVertx has built the bus: Init.                        *)

\* NetServer::listen returns when the thread of start() exists.
Listen ==
  /\ Up /\ main = "starting" /\ listened < Len(NetPorts)
  /\ listened' = listened + 1
  /\ starting' = starting \cup {NetPorts[listened']}
  /\ UNCHANGED <<vars, main, registered, listening, handler, replies, corrupt>>

\* That thread creates the loops, binds and runs.
NetServerStart(p) ==
  /\ Up
  /\ starting' = starting \ {p}
  /\ listening' = listening \cup {p}
  /\ UNCHANGED <<vars, main, listened, registered, handler, replies, corrupt>>

\* addRoute, then HttpServer::listen, which accepts when it returns.
HttpListen ==
  /\ Up /\ main = "starting" /\ listened = Len(NetPorts)
  /\ main' = "serving"
  /\ listening' = listening \cup {HttpPort}
  /\ UNCHANGED <<vars, listened, registered, starting, handler, replies, corrupt>>

\* consumer, then localConsumer.
Register ==
  /\ main = "serving" /\ registered < Len(Consumers)
  /\ Consumer(Consumers[registered + 1])
  /\ registered' = registered + 1
  /\ UNCHANGED <<main, listened, starting, listening, handler, replies, corrupt>>

VertxRun ==
  /\ main = "serving" /\ registered = Len(Consumers)
  /\ Run
  /\ main' = "running"
  /\ UNCHANGED <<listened, registered, starting, listening, handler, replies, corrupt>>

-----------------------------------------------------------------------------
(* The servers' handlers.                                                  *)

\* What a client sent is read: the handler asks the bus ...
Read(r, l) ==
  /\ Source[r] \in listening /\ handler[r] = "none"
  /\ Request(r, AddressOf[Source[r]], l)
  /\ handler' = [handler EXCEPT ![r] = "active"]
  /\ UNCHANGED <<main, listened, registered, starting, listening, replies, corrupt>>

\* ... and returns, which ends the life of the TCPConnPtr it was given.
Return(r) ==
  /\ Up /\ handler[r] = "active"
  /\ handler' = [handler EXCEPT ![r] = "returned"]
  /\ UNCHANGED <<vars, main, listened, registered, starting, listening, replies, corrupt>>

Reply(r) == replies' = [replies EXCEPT ![r] = @ + 1] /\ UNCHANGED corrupt

\* The response handlers of the TCP ports hold a reference to that TCPConnPtr.
\* Once the handler has returned it is whatever lies there: still that pointer,
\* that of a client being read, or nothing that can be called.
NetRespond(r) ==
  \/ Reply(r)
  \/ /\ handler[r] = "returned"
     /\ \/ \E q \in Reqs \ {r} : Net(q) /\ handler[q] = "active" /\ Reply(q)
        \/ corrupt' = TRUE /\ UNCHANGED replies

\* ctx and cb kept by reference, as the TCP handlers keep conn.
HttpRespondMut(r) ==
  \/ Reply(r)
  \/ handler[r] = "returned" /\ corrupt' = TRUE /\ UNCHANGED replies

\* The route's response handler holds copies of ctx and cb.
HttpRespond(r) == Reply(r)

-----------------------------------------------------------------------------
\* One functor of a bus loop, with the response handler if it comes to that.
AppServe(l) ==
  /\ LoopStep(l)
  /\ IF answered' = answered
     THEN UNCHANGED <<replies, corrupt>>
     ELSE LET r == Head(queue[l]).req IN IF Net(r) THEN NetRespond(r) ELSE HttpRespond(r)
  /\ UNCHANGED <<main, listened, registered, starting, listening, handler>>

\* allocateEventLoop's thread, and the TCP bridge.
AppPool == PoolThread /\ UNCHANGED appVars
AppBridge == \E a \in Addrs, l \in AllLoops : OnMessage(a, l) /\ UNCHANGED appVars

MainStep == Listen \/ HttpListen \/ Register \/ VertxRun

AppNext ==
  /\ ~ corrupt
  /\ \/ MainStep \/ AppPool \/ AppBridge
     \/ \E p \in starting : NetServerStart(p)
     \/ \E r \in Reqs : Return(r) \/ \E l \in AllLoops : Read(r, l)
     \/ \E l \in AllLoops : AppServe(l)

AppSpec == AppInit /\ [][AppNext]_<<vars, appVars>>

\* The threads of the program run; clients and peers owe nothing.
FairAppSpec ==
  /\ AppSpec
  /\ WF_<<vars, appVars>>(~ corrupt /\ AppPool)
  /\ \A l \in AllLoops : WF_<<vars, appVars>>(~ corrupt /\ AppServe(l))

-----------------------------------------------------------------------------
\* An HTTP client gets the answer to its own request, once, however late the bus
\* gives it and whatever becomes of the TCP clients' answers meanwhile.
HttpAnsweredOnce ==
  \A r \in Reqs : ~ Net(r) => replies[r] = answered[r] /\ replies[r] <= 1

\* A client's request is answered or found to have no consumer, or the process
\* ended: also one that was queued in the base loop before the threads had
\* started.  The servers accept before main() registers the consumers, so an HTTP
\* client may be among the dropped ones; with ReadyNeverDropped it is answered if
\* it came after that.
RequestsSettle ==
  \A r \in Reqs : call[r] # None ~> answered[r] > 0 \/ r \in dropped \/ ~ Up \/ corrupt

=============================================================================
