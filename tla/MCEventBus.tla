----------------------------- MODULE MCEventBus -----------------------------
(* Instances of EventBus for TLC.                                          *)
EXTENDS EventBus, FiniteSets, TLC

Symmetry == Permutations(Nodes) \cup Permutations(Reqs) \cup Permutations(Loops)

\* Node n has been sent a frame of which it has read only a part, or has a part
\* queued.
HasPiece(n) ==
  \/ \E l \in Loops : \E k \in DOMAIN queue[n][l] : queue[n][l][k].kind \in {"head", "rest"}
  \/ \E m \in Nodes : \E i \in DOMAIN evConnect[m] :
       evConnect[m][i].torn /\ evConnect[m][i].to = n

\* A local consumer answers its request in the functor of request().
NoLocalConsumer == \A n \in Nodes : consumersLocal[n] = {}

\* Bound of the runs with two requests: what becomes of the parts of a frame is
\* followed as long as they are at one node, no node is down, there is no local
\* consumer and no other request has lost a frame.  (A node that goes down with
\* parts of a frame leaves the others what a node that is killed leaves them.)
OneFrameCut ==
  (\E n \in Nodes : HasPiece(n)) =>
    /\ Cardinality({n \in Nodes : HasPiece(n)}) = 1
    /\ \A n \in Nodes : Up(n)
    /\ NoLocalConsumer
    /\ Cardinality(lost) = 1

=============================================================================
