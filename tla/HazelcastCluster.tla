-------------------------- MODULE HazelcastCluster --------------------------
(***************************************************************************)
(* The cluster manager (hazelcast_cluster.cpp): every node keeps a queue   *)
(* of servers per address, read once from the shared multimap              *)
(* "__vertx.subs" and then kept up to date by entry events, and gives them *)
(* out in turn.                                                            *)
(*                                                                         *)
(* Hazelcast itself is not part of the repository.  It is modelled by what *)
(* the code relies on: a multimap of sets, and listeners that get the      *)
(* events of one key in order, those of two keys independently.            *)
(***************************************************************************)
EXTENDS Naturals, SequencesExt

CONSTANTS
  Nodes,        \* ServerIDs, one process each
  Addrs,        \* the keys of "__vertx.subs"
  Offers,       \* <<address, node>>: the consumers the applications register
  Mortal,       \* the nodes that are stopped from outside
  MaxRemovals,  \* bound: removals by the rest of the cluster
  MaxCalls,     \* bound: calls of next() per node
  None

\* What the holder of the lock is about to do: next() holds the queue it moved
\* out; entryRemoved has erased the key, or is putting back the subscriptions in
\* todo.
Section ==
  [op : {"next"}, address : Addrs, queue : Seq(Nodes) \ {<<>>}]
    \cup [op : {"erased"}, address : Addrs]
    \cup [op : {"reput"}, address : Addrs, todo : SUBSET Addrs]

ASSUME ClusterAssumption ==
  /\ IsFiniteSet(Nodes)
  /\ MaxRemovals \in Nat /\ MaxCalls \in Nat
  /\ Offers \subseteq Addrs \X Nodes /\ Mortal \subseteq Nodes
  /\ None \notin Nodes \cup Addrs \cup Section

VARIABLES
  phase,           \* join(): "new", "read" after entrySet, "listening", "down"
  subs,            \* __vertx.subs: <<address, server>> pairs
  events,          \* entry events on their way, per node and address
  localEndpoints,  \* _local_endpoints: <<>> is no key, or a queue moved out
  localSubs,       \* _local_subs
  adding,          \* addSub calls between the put and the emplace
  critical,        \* what the holder of _queue_mutex is about to do, None if it is free
  calls,           \* calls of next()
  removals,
  missed,          \* history: addresses with a change the node never applied
  given            \* history: <<address, server>> pairs next() returned

vars == <<phase, subs, events, localEndpoints, localSubs, adding, critical,
          calls, removals, missed, given>>

Event == [kind : {"added", "removed"}, server : Nodes]

TypeOK ==
  /\ phase \in [Nodes -> {"new", "read", "listening", "down"}]
  /\ subs \subseteq Addrs \X Nodes
  /\ events \in [Nodes -> [Addrs -> Seq(Event)]]
  /\ localEndpoints \in [Nodes -> [Addrs -> Seq(Nodes)]]
  /\ localSubs \in [Nodes -> SUBSET Addrs]
  /\ adding \in [Nodes -> SUBSET Addrs]
  /\ critical \in [Nodes -> Section \cup {None}]
  /\ calls \in [Nodes -> 0 .. MaxCalls]
  /\ removals \in 0 .. MaxRemovals
  /\ missed \in [Nodes -> SUBSET Addrs]
  /\ given \subseteq Addrs \X Nodes

Init ==
  /\ phase = [n \in Nodes |-> "new"]
  /\ subs = {}
  /\ events = [n \in Nodes |-> [a \in Addrs |-> <<>>]]
  /\ localEndpoints = [n \in Nodes |-> [a \in Addrs |-> <<>>]]
  /\ localSubs = [n \in Nodes |-> {}]
  /\ adding = [n \in Nodes |-> {}]
  /\ critical = [n \in Nodes |-> None]
  /\ calls = [n \in Nodes |-> 0]
  /\ removals = 0
  /\ missed = [n \in Nodes |-> {}]
  /\ given = {}

-----------------------------------------------------------------------------
(* The shared multimap.                                                    *)

Subscribers(a) == {s \in Nodes : <<a, s>> \in subs}

\* A change of key a reaches the listeners; a node between its snapshot and its
\* listener never hears of it.
Publish(a, e) ==
  /\ events' = [n \in Nodes |-> IF phase[n] = "listening"
                                THEN [events[n] EXCEPT ![a] = Append(@, e)]
                                ELSE events[n]]
  /\ missed' = [n \in Nodes |-> IF phase[n] = "read" THEN missed[n] \cup {a} ELSE missed[n]]

\* MultiMap::put: a value that is there already changes nothing and is no event.
Put(a, s) ==
  /\ subs' = subs \cup {<<a, s>>}
  /\ IF <<a, s>> \in subs
     THEN UNCHANGED <<events, missed>>
     ELSE Publish(a, [kind |-> "added", server |-> s])

\* Another member of the cluster removes an entry: its node left, or is taken
\* for one that left.
Removed(a, s) ==
  /\ removals < MaxRemovals /\ <<a, s>> \in subs
  /\ removals' = removals + 1
  /\ subs' = subs \ {<<a, s>>}
  /\ Publish(a, [kind |-> "removed", server |-> s])
  /\ UNCHANGED <<phase, localEndpoints, localSubs, adding, critical, calls, given>>

-----------------------------------------------------------------------------
(* join() and addSub().                                                    *)

\* The entry set is read in whatever order the cluster returns it ...
JoinRead(n) ==
  /\ phase[n] = "new"
  /\ phase' = [phase EXCEPT ![n] = "read"]
  /\ \E q \in [Addrs -> UNION {SetToSeqs(Subscribers(a)) : a \in Addrs}] :
       /\ \A a \in Addrs : q[a] \in SetToSeqs(Subscribers(a))
       /\ localEndpoints' = [localEndpoints EXCEPT ![n] = q]
  /\ UNCHANGED <<subs, events, localSubs, adding, critical, calls, removals, missed, given>>

\* ... and only then the listener is added.
JoinListen(n) ==
  /\ phase[n] = "read"
  /\ phase' = [phase EXCEPT ![n] = "listening"]
  /\ UNCHANGED <<subs, events, localEndpoints, localSubs, adding, critical, calls,
                 removals, missed, given>>

\* A second consumer() for an address puts it again.
AddSubPut(n, a) ==
  /\ phase[n] = "listening" /\ <<a, n>> \in Offers /\ a \notin adding[n]
  /\ Put(a, n)
  /\ adding' = [adding EXCEPT ![n] = @ \cup {a}]
  /\ UNCHANGED <<phase, localEndpoints, localSubs, critical, calls, removals, given>>

AddSubEmplace(n, a) ==
  /\ phase[n] = "listening" /\ a \in adding[n]
  /\ adding' = [adding EXCEPT ![n] = @ \ {a}]
  /\ localSubs' = [localSubs EXCEPT ![n] = @ \cup {a}]
  /\ UNCHANGED <<phase, subs, events, localEndpoints, critical, calls, removals, missed, given>>

Kill(n) ==
  /\ n \in Mortal /\ phase[n] = "listening"
  /\ phase' = [phase EXCEPT ![n] = "down"]
  /\ UNCHANGED <<subs, events, localEndpoints, localSubs, adding, critical, calls,
                 removals, missed, given>>

-----------------------------------------------------------------------------
(* Entry events.  The handler of an event is done when the event leaves the *)
(* queue; until then the next one of its key waits.                         *)

Handling(n, a, kind) ==
  /\ phase[n] = "listening"
  /\ events[n][a] # <<>> /\ Head(events[n][a]).kind = kind

Handled(n, a) == events' = [events EXCEPT ![n][a] = Tail(@)]

\* No lock is taken.
EntryAdded(n, a) ==
  /\ Handling(n, a, "added")
  /\ localEndpoints' = [localEndpoints EXCEPT ![n][a] = Append(@, Head(events[n][a]).server)]
  /\ Handled(n, a)
  /\ UNCHANGED <<phase, subs, localSubs, adding, critical, calls, removals, missed, given>>

\* The key is not erased before it is read again.
EntryRemovedEraseMut(n, a) ==
  /\ Handling(n, a, "removed") /\ critical[n] = None
  /\ critical' = [critical EXCEPT ![n] = [op |-> "erased", address |-> a]]
  /\ UNCHANGED <<phase, subs, events, localEndpoints, localSubs, adding, calls, removals, missed, given>>

\* The key is erased under the lock ...
EntryRemovedErase(n, a) ==
  /\ Handling(n, a, "removed") /\ critical[n] = None
  /\ critical' = [critical EXCEPT ![n] = [op |-> "erased", address |-> a]]
  /\ localEndpoints' = [localEndpoints EXCEPT ![n][a] = <<>>]
  /\ UNCHANGED <<phase, subs, events, localSubs, adding, calls, removals, missed, given>>

InCritical(n, op) ==
  phase[n] = "listening" /\ critical[n] # None /\ critical[n].op = op

\* The own subscriptions are not put back.
EntryRemovedGetMut(n) ==
  LET a == critical[n].address IN
  /\ InCritical(n, "erased")
  /\ \E q \in SetToSeqs(Subscribers(a)) :
       localEndpoints' = [localEndpoints EXCEPT ![n][a] = @ \o q]
  /\ missed' = [missed EXCEPT ![n] = @ \ {a}]
  /\ critical' = [critical EXCEPT ![n] = [op |-> "reput", address |-> a, todo |-> {}]]
  /\ UNCHANGED <<phase, subs, events, localSubs, adding, calls, removals, given>>

\* ... read again from the cluster ...
EntryRemovedGet(n) ==
  LET a == critical[n].address IN
  /\ InCritical(n, "erased")
  /\ \E q \in SetToSeqs(Subscribers(a)) :
       localEndpoints' = [localEndpoints EXCEPT ![n][a] = @ \o q]
  /\ missed' = [missed EXCEPT ![n] = @ \ {a}]
  /\ critical' = [critical EXCEPT ![n] = [op |-> "reput", address |-> a, todo |-> localSubs[n]]]
  /\ UNCHANGED <<phase, subs, events, localSubs, adding, calls, removals, given>>

\* Put back under the key of the event instead of its own.
EntryRemovedPutMut(n, b) ==
  /\ InCritical(n, "reput") /\ b \in critical[n].todo
  /\ Put(critical[n].address, n)
  /\ critical' = [critical EXCEPT ![n].todo = @ \ {b}]
  /\ UNCHANGED <<phase, localEndpoints, localSubs, adding, calls, removals, given>>

\* ... and the node's own subscriptions are put back, one by one.
EntryRemovedPut(n, b) ==
  /\ InCritical(n, "reput") /\ b \in critical[n].todo
  /\ Put(b, n)
  /\ critical' = [critical EXCEPT ![n].todo = @ \ {b}]
  /\ UNCHANGED <<phase, localEndpoints, localSubs, adding, calls, removals, given>>

EntryRemovedDone(n) ==
  /\ InCritical(n, "reput") /\ critical[n].todo = {}
  /\ critical' = [critical EXCEPT ![n] = None]
  /\ Handled(n, critical[n].address)
  /\ UNCHANGED <<phase, subs, localEndpoints, localSubs, adding, calls, removals, missed, given>>

-----------------------------------------------------------------------------
(* next().                                                                 *)

\* [address] instead of at(address): an unknown key gives an empty queue.
NextTakeMut(n, a) ==
  /\ phase[n] = "listening" /\ calls[n] < MaxCalls
  /\ critical[n] = None
  /\ critical' = [critical EXCEPT ![n] =
                    [op |-> "next", address |-> a, queue |-> localEndpoints[n][a]]]
  /\ localEndpoints' = [localEndpoints EXCEPT ![n][a] = <<>>]
  /\ calls' = [calls EXCEPT ![n] = @ + 1]
  /\ UNCHANGED <<phase, subs, events, localSubs, adding, removals, missed, given>>

\* The queue is moved out of the map under the lock ...
NextTake(n, a) ==
  /\ phase[n] = "listening" /\ calls[n] < MaxCalls
  /\ critical[n] = None /\ localEndpoints[n][a] # <<>>
  /\ critical' = [critical EXCEPT ![n] =
                    [op |-> "next", address |-> a, queue |-> localEndpoints[n][a]]]
  /\ localEndpoints' = [localEndpoints EXCEPT ![n][a] = <<>>]
  /\ calls' = [calls EXCEPT ![n] = @ + 1]
  /\ UNCHANGED <<phase, subs, events, localSubs, adding, removals, missed, given>>

\* ... its front goes to the back and is returned, and the queue overwrites what
\* is in the map by then.
NextPutBack(n) ==
  LET a == critical[n].address
      q == critical[n].queue IN
  /\ InCritical(n, "next")
  /\ localEndpoints' = [localEndpoints EXCEPT ![n][a] = Append(Tail(q), Head(q))]
  /\ missed' = [missed EXCEPT ![n] =
                  IF Range(localEndpoints[n][a]) \subseteq Range(q) THEN @ ELSE @ \cup {a}]
  /\ critical' = [critical EXCEPT ![n] = None]
  /\ given' = given \cup {<<a, Head(q)>>}
  /\ UNCHANGED <<phase, subs, events, localSubs, adding, calls, removals>>

\* at() throws for an unknown key; nobody on the loop's thread catches it.
NextThrows(n, a) ==
  /\ phase[n] = "listening" /\ calls[n] < MaxCalls
  /\ critical[n] = None /\ localEndpoints[n][a] = <<>>
  /\ phase' = [phase EXCEPT ![n] = "down"]
  /\ UNCHANGED <<subs, events, localEndpoints, localSubs, adding, critical, calls,
                 removals, missed, given>>

-----------------------------------------------------------------------------
\* The threads of a node: the listeners', and the holder of the lock.
EventStep(n, a) == EntryAdded(n, a) \/ EntryRemovedErase(n, a)
CriticalStep(n) ==
  \/ EntryRemovedGet(n) \/ EntryRemovedDone(n) \/ NextPutBack(n)
  \/ \E b \in Addrs : EntryRemovedPut(n, b)

Next ==
  \/ \E n \in Nodes : JoinRead(n) \/ JoinListen(n) \/ Kill(n) \/ CriticalStep(n)
  \/ \E n \in Nodes, a \in Addrs :
       \/ AddSubPut(n, a) \/ AddSubEmplace(n, a) \/ EventStep(n, a)
       \/ NextTake(n, a) \/ NextThrows(n, a)
  \/ \E a \in Addrs, s \in Nodes : Removed(a, s)

Spec == Init /\ [][Next]_vars

\* Listener threads and critical sections go on; calls of next() and removals
\* are finitely many, so the lock is not kept from anyone for ever.
Fairness ==
  /\ \A n \in Nodes : WF_vars(CriticalStep(n))
  /\ \A n \in Nodes, a \in Addrs : WF_vars(EventStep(n, a))

FairSpec == Spec /\ Fairness

-----------------------------------------------------------------------------
\* The queue of a that next() has moved out of the map.
Held(n, a) ==
  IF critical[n] # None /\ critical[n].op = "next" /\ critical[n].address = a
  THEN Range(critical[n].queue) ELSE {}

\* The servers n may hand out for a.
View(n, a) == Range(localEndpoints[n][a]) \cup Held(n, a)

\* s has called addSub for a.
Announced(a, s) == a \in adding[s] \cup localSubs[s]

\* Every server a node may hand out has called consumer() for the address: what
\* EventBus takes next() to return.  It must survive snapshots, re-puts under
\* the lock and queues that are moved out and back.
OnlyRegistered ==
  \A n \in Nodes, a \in Addrs : \A s \in View(n, a) : Announced(a, s)

SubsAnnounced == \A a \in Addrs, s \in Nodes : <<a, s>> \in subs => Announced(a, s)

EventsAnnounced ==
  \A n \in Nodes, a \in Addrs : \A k \in DOMAIN events[n][a] : Announced(a, events[n][a][k].server)

TodoAnnounced ==
  \A n \in Nodes :
    critical[n] # None /\ critical[n].op = "reput" => critical[n].todo \subseteq localSubs[n]

\* Why: the same is true of the shared map, of every event on its way, and of what
\* entryRemoved is about to put back.
AllAnnounced == SubsAnnounced /\ EventsAnnounced /\ TodoAnnounced /\ OnlyRegistered

D == INSTANCE Directory
       WITH advertised <- {p \in Addrs \X Nodes : p[1] \in adding[p[2]] \cup localSubs[p[2]]},
            handed <- given

\* The cluster manager is the Directory the event bus assumes: through events,
\* snapshots, re-puts and queues moved out and back, next() returns only servers
\* whose addSub has announced the address.
ImplementsDirectory == D!Spec

\* A node with no event of a key left to handle, and the key not in a critical
\* section, knows exactly the servers in the shared map.  Only two things may
\* spoil it: a change between entrySet and addEntryListener, and an entryAdded
\* that next() overwrites; either is repaired by the next removal of the key.
Converged ==
  \A n \in Nodes, a \in Addrs :
    /\ phase[n] = "listening" /\ events[n][a] = <<>> /\ a \notin missed[n]
    /\ critical[n] # None => critical[n].address # a
    => Range(localEndpoints[n][a]) = Subscribers(a)

\* The k-th event of key a at n is a removal whose handler has still to read the
\* shared map.
Unread(n, a, k) ==
  /\ k \in DOMAIN events[n][a] /\ events[n][a][k].kind = "removed"
  /\ ~ (k = 1 /\ critical[n] # None /\ critical[n].op = "reput" /\ critical[n].address = a)

\* The servers of the added events of key a on their way to n.
Coming(n, a) ==
  {events[n][a][k].server : k \in {j \in DOMAIN events[n][a] : events[n][a][j].kind = "added"}}

\* The events of a node, and the handler that is in the lock, make sense together.
EventsSound ==
  \A n \in Nodes :
    /\ phase[n] \in {"new", "read"} =>
         critical[n] = None /\ \A a \in Addrs : events[n][a] = <<>>
    /\ critical[n] # None /\ critical[n].op # "next" =>
         LET a == critical[n].address IN
         /\ events[n][a] # <<>> /\ Head(events[n][a]).kind = "removed"
         /\ critical[n].op = "erased" => localEndpoints[n][a] = <<>>

\* An added event says what the map says, or a removal of the key comes behind it.
AddedSound ==
  \A n \in Nodes, a \in Addrs : phase[n] = "listening" =>
    \A k \in DOMAIN events[n][a] : events[n][a][k].kind = "added" =>
      \/ <<a, events[n][a][k].server>> \in subs
      \/ \E j \in DOMAIN events[n][a] : j > k /\ events[n][a][j].kind = "removed"

\* What n knows or will be told of a is the shared map, or there is a removal in
\* its queue, at which it reads the map again.
Tracks(n, a) ==
  \/ \E k \in DOMAIN events[n][a] : Unread(n, a, k)
  \/ View(n, a) \cup Coming(n, a) = Subscribers(a)

\* A node tracks every key of which it missed no change.
ViewSound ==
  \A n \in Nodes, a \in Addrs :
    phase[n] \in {"read", "listening"} /\ a \notin missed[n] => Tracks(n, a)

\* Why nodes converge, at every step of snapshots, events, re-reads and queues that
\* are moved out and back.
Converging == EventsSound /\ AddedSound /\ ViewSound

\* The event of a removed own subscription waits, with nobody handling it yet.
RemovalNoticed(n, a) ==
  /\ phase[n] = "listening" /\ a \in localSubs[n]
  /\ \E k \in DOMAIN events[n][a] :
       /\ events[n][a][k] = [kind |-> "removed", server |-> n]
       /\ k = 1 => critical[n] = None \/ critical[n].address # a \/ critical[n].op = "next"

\* The cluster heals itself: a live node whose subscription is removed by
\* others puts it back, unless it goes down.
SelfHeals ==
  \A n \in Nodes, a \in Addrs :
    RemovalNoticed(n, a) ~> <<a, n>> \in subs \/ phase[n] = "down"

=============================================================================
