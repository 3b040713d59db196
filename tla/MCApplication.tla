---------------------------- MODULE MCApplication ----------------------------
(* The ports, addresses and clients of main.cpp for TLC.                   *)
EXTENDS Application

CONSTANTS
  p9091, p9093,              \* ports
  consumer, local_consumer,  \* addresses
  h1, t1, t2                 \* an HTTP and two TCP clients

MainAddressOf ==
  [p \in {p9091, p9093} |-> IF p = p9091 THEN consumer ELSE local_consumer]

\* Two clients of one TCP port, and one of the HTTP port.
MainSource == [r \in {h1, t1, t2} |-> IF r = h1 THEN p9093 ELSE p9091]

\* The first of the three TCP servers, which differ in their address only.
MainNetPorts == <<p9091>>

MainConsumers == <<consumer, local_consumer>>

=============================================================================
