------------------------------ MODULE Directory ------------------------------
(***************************************************************************)
(* What the event bus relies on when it asks the cluster manager for the   *)
(* server of an address, without queues, events or locks: servers are      *)
(* advertised for addresses, and only an advertised one is handed out.     *)
(* EventBus takes next() to be this, HazelcastCluster implements it.       *)
(***************************************************************************)
CONSTANTS Addrs, Nodes

VARIABLES
  advertised,  \* <<address, server>> pairs announced with addSub
  handed       \* pairs returned by next()

vars == <<advertised, handed>>

Init == advertised = {} /\ handed = {}

Advertise(a, s) ==
  /\ advertised' = advertised \cup {<<a, s>>}
  /\ UNCHANGED handed

HandOut(a, s) ==
  /\ <<a, s>> \in advertised
  /\ handed' = handed \cup {<<a, s>>}
  /\ UNCHANGED advertised

Next == \E a \in Addrs, s \in Nodes : Advertise(a, s) \/ HandOut(a, s)

Spec == Init /\ [][Next]_vars

=============================================================================
