------------------------- MODULE MCHazelcastCluster -------------------------
(* Instances of HazelcastCluster for TLC.                                  *)
EXTENDS HazelcastCluster, TLC

CONSTANTS n1, a1

Symmetry == Permutations(Nodes)

\* Every node offers every address.
AllOffers == Addrs \X Nodes

\* n1 offers a1, the other nodes offer the other addresses.
SplitOffers == {o \in Addrs \X Nodes : (o[1] = a1) <=> (o[2] = n1)}

=============================================================================
