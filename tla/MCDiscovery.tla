--------------------------- MODULE MCDiscovery ------------------------------
(* Instances of Discovery and of the wire formats for TLC.                 *)
EXTENDS Discovery

\* Empty, a string whose bytes look like a length, and one so long that its
\* length takes two bytes and that three of them leave the buffer.
EdgeStrings == {<<>>, <<0, 0, 0, 1>>, [i \in 1 .. 700 |-> 255]}

\* Around the limits of a byte, of 16 bits and of int.
EdgePorts == {0, 255, 256, 30000, 65536, -1, -2147483647 - 1, 2147483647}

\* The terminator of c_str() and old bytes, with a size of none and of two.
OldBytes == {<<0, 0, 0, 0>>, <<0, 0, 0, 2, 9, 9>>}

\* A second frame with a body, and one without.
Coalesced ==
  [address : {<<7>>}, replay : {<<0, 0, 0, 1>>}, port : {33333}, host : {<<7>>},
   reply : {<<7>>, None}]

Uuid == <<85, 85>>
TunedHost == {<<1, 2>>}

=============================================================================
