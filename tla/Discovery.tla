------------------------------ MODULE Discovery ------------------------------
(***************************************************************************)
(* How the rest of the cluster learns where a node listens: VertxOptions   *)
(* finds a host and a port and copies them into its EventBusOptions, join  *)
(* publishes the one pair and addSub and every frame the other, members in *)
(* C++ and in Java read the ClusterNodeInfo, and run() binds.  The frame   *)
(* goes through MessageCodec.                                              *)
(***************************************************************************)
EXTENDS MessageCodec

CONSTANTS
  NodeId,      \* the uuid of the local endpoint
  Hosts,       \* what socket.local_endpoint() may find
  Draws,       \* rand() % 20000 + 30000
  TunedHosts,  \* arguments of VertxOptions::setHost
  TunedPorts,  \* arguments of VertxOptions::setPort
  MaxTunes     \* bound: calls of setters

ASSUME DiscoveryAssumption ==
  /\ Hosts \cup TunedHosts \cup {NodeId} \subseteq Seq(Byte)
  /\ \A s \in Strings \cup Hosts \cup {NodeId} : Len(s) \in Int32
  /\ Draws \subseteq 30000 .. 49999 /\ TunedPorts \subseteq Int32 /\ MaxTunes \in Nat

VARIABLES
  options,  \* VertxOptions: server is host and port, bus those of eventBusOptions
  tunes,    \* calls of setters so far
  vertx,    \* "none", "joined", "advertised", "running", "sending"
  haInfo,   \* the server_id in __vertx.haInfo
  entry,    \* the bytes of the ClusterNodeInfo in __vertx.subs
  bound     \* where run() listens

discoveryVars == <<options, tunes, vertx, haInfo, entry, bound>>
allVars == <<vars, discoveryVars>>

-----------------------------------------------------------------------------
(* ClusterNodeInfo on the wire.  writeUTF and writeInt of Hazelcast write  *)
(* the length and the bytes, and four bytes, big-endian.                   *)

\* Mutant: the port is narrowed to an unsigned short before it is written.
cpp_writeDataMut(id, s) == Str(id) \o set_int(s.port % 65536) \o Str(s.host)

cpp_writeData(id, s) == Str(id) \o set_int(s.port) \o Str(s.host)

\* convertClusterNodeInfo makes every ClusterNodeInfo one of this kind.
java_writeData(id, s) == Str(id) \o set_int(s.port) \o Str(s.host)

cpp_readData(b) ==
  LET nodeId == string_value(b, 0) IN
  [nodeId |-> nodeId.value,
   server |-> [host |-> string_value(b, nodeId.next + 4).value, port |-> int_value(b, nodeId.next)]]

java_readData(b) ==
  LET nodeId == string_value(b, 0) IN
  [nodeId |-> nodeId.value,
   server |-> [port |-> int_value(b, nodeId.next), host |-> string_value(b, nodeId.next + 4).value]]

-----------------------------------------------------------------------------
\* The copy into eventBusOptions is forgotten.
VertxOptionsMut ==
  \E h \in Hosts, p \in Draws :
    options = [server |-> [host |-> h, port |-> p], bus |-> [host |-> <<>>, port |-> 0]]

\* setVertxHost and setVertxPort: bind() on a socket that was never opened fails,
\* and a failure ends the loop, so the first port drawn is kept, free or not.
VertxOptions ==
  \E h \in Hosts, p \in Draws :
    LET s == [host |-> h, port |-> p] IN options = [server |-> s, bus |-> s]

DiscoveryInit ==
  /\ Init /\ msg.host = <<>> /\ msg.port = 0
  /\ VertxOptions
  /\ tunes = 0 /\ vertx = "none"
  /\ haInfo = None /\ entry = <<>> /\ bound = None

\* A setter that takes the value v for field f of one of the two structures.
Tune(which, f, v) ==
  /\ vertx = "none" /\ tunes < MaxTunes
  /\ tunes' = tunes + 1
  /\ options' = [options EXCEPT ![which][f] = v]
  /\ UNCHANGED <<vars, vertx, haInfo, entry, bound>>

\* They do not touch eventBusOptions ...
setHost == \E h \in TunedHosts : Tune("server", "host", h)
setPort == \E p \in TunedPorts : Tune("server", "port", p)

\* ... which has setters of its own.
busSetHost == \E h \in Strings : Tune("bus", "host", h)
busSetPort == \E p \in Ports : Tune("bus", "port", p)

\* clusteredVertx: the options are copied, join() publishes host and port.
clusteredVertx ==
  /\ vertx = "none"
  /\ vertx' = "joined"
  /\ haInfo' = options.server
  /\ UNCHANGED <<vars, options, tunes, entry, bound>>

\* EventBus::consumer calls addSub with the address of eventBusOptions.
consumer ==
  /\ vertx = "joined"
  /\ vertx' = "advertised"
  /\ entry' = cpp_writeData(NodeId, options.bus)
  /\ UNCHANGED <<vars, options, tunes, haInfo, bound>>

run ==
  /\ vertx = "advertised"
  /\ vertx' = "running"
  /\ bound' = options.server
  /\ UNCHANGED <<vars, options, tunes, haInfo, entry>>

\* processOnTcpMessage puts the address of eventBusOptions into a message for
\* another server: the receiver answers there.
Address ==
  /\ vertx = "running"
  /\ vertx' = "sending"
  /\ msg' = [msg EXCEPT !.host = options.bus.host, !.port = options.bus.port]
  /\ UNCHANGED <<second, old, frame, got, stage, options, tunes, haInfo, entry, bound>>

\* The frame is written, and parsed at the other end.
Transmit == vertx = "sending" /\ Next /\ UNCHANGED discoveryVars

DiscoveryNext ==
  \/ setHost \/ setPort \/ busSetHost \/ busSetPort
  \/ clusteredVertx \/ consumer \/ run \/ Address \/ Transmit

DiscoverySpec == DiscoveryInit /\ [][DiscoveryNext]_allVars

-----------------------------------------------------------------------------
\* The node the rest of the cluster knows: what its ClusterNodeInfo says to a
\* member in C++ and to one in Java, and what a Java member would have written.
KnownAs(b) == {cpp_readData(b), java_readData(b)}

\* Whoever asks gets one answer: members of either language read the same node
\* id and server from the subscription, whichever of them wrote it, and the
\* return address in the node's frames, once parsed, is that same server.
PeersAgree ==
  vertx \in {"advertised", "running", "sending"} =>
    LET known == [nodeId |-> NodeId, server |-> options.bus] IN
    /\ KnownAs(entry) = {known}
    /\ KnownAs(java_writeData(NodeId, options.bus)) = {known}
    /\ stage = "parsed" => [host |-> got.host, port |-> got.port] = known.server

\* A node is where it says it is: if no setter was called, subscription, return
\* address and haInfo all name the address run() listens at.  setHost and setPort
\* move run() and haInfo but neither of the others, so there it stops.
ReachedWhereBound ==
  vertx \in {"running", "sending"} =>
    /\ haInfo = bound
    /\ tunes = 0 => /\ cpp_readData(entry).server = bound
                    /\ stage = "parsed" => got.host = bound.host /\ got.port = bound.port

=============================================================================
