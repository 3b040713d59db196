----------------------- MODULE HazelcastClusterProofs -----------------------
(***************************************************************************)
(* Theorems about the cluster manager, for any finite cluster, any set of  *)
(* addresses and any number of removals and calls of next().               *)
(***************************************************************************)
EXTENDS HazelcastCluster, SequenceTheorems, FiniteSetTheorems, TLAPS

-----------------------------------------------------------------------------
(* What the operations on queues do to the servers in them.                *)

\* push_back adds one server.
LEMMA RangeAppend ==
  ASSUME NEW S, NEW q \in Seq(S), NEW x \in S
  PROVE  Append(q, x) \in Seq(S) /\ Range(Append(q, x)) = Range(q) \cup {x}
<1>1. /\ Append(q, x) \in Seq(S) /\ Len(Append(q, x)) = Len(q) + 1
      /\ \A i \in 1 .. Len(q) : Append(q, x)[i] = q[i]
      /\ Append(q, x)[Len(q) + 1] = x
  BY AppendProperties
<1>2. Len(q) \in Nat
  BY LenProperties
<1>3. Range(Append(q, x)) = {Append(q, x)[i] : i \in 1 .. Len(q) + 1}
      /\ Range(q) = {q[i] : i \in 1 .. Len(q)}
  BY <1>1, RangeEquality
<1>4. 1 .. Len(q) + 1 = (1 .. Len(q)) \cup {Len(q) + 1}
  BY <1>2
<1> QED  BY <1>1, <1>3, <1>4

\* The rotation of next() keeps the servers of a queue.
LEMMA RangeRotated ==
  ASSUME NEW S, NEW q \in Seq(S), q # <<>>
  PROVE  /\ Append(Tail(q), Head(q)) \in Seq(S)
         /\ Range(Append(Tail(q), Head(q))) = Range(q)
         /\ Head(q) \in Range(q)
<1>1. /\ Head(q) \in S /\ Tail(q) \in Seq(S) /\ Len(Tail(q)) = Len(q) - 1
      /\ \A i \in 1 .. Len(Tail(q)) : Tail(q)[i] = q[i + 1]
  BY HeadTailProperties
<1>2. Len(q) \in Nat \ {0} /\ Head(q) = q[1]
  BY EmptySeq
<1>3. Range(Tail(q)) = {q[i + 1] : i \in 1 .. Len(q) - 1}
  <2>1. \A t \in Seq(S) : Range(t) = {t[i] : i \in 1 .. Len(t)}
    BY RangeEquality
  <2>2. Range(Tail(q)) = {Tail(q)[i] : i \in 1 .. Len(q) - 1}
    BY <1>1, <2>1
  <2> QED  BY <1>1, <2>2
<1>4. Range(q) = {q[i] : i \in 1 .. Len(q)}
  BY RangeEquality
<1>5. \A x : x \in Range(Tail(q)) \cup {Head(q)} <=> x \in Range(q)
  <2>1. ASSUME NEW x \in Range(q)
        PROVE  x \in Range(Tail(q)) \cup {Head(q)}
    <3>1. PICK i \in 1 .. Len(q) : x = q[i]
      BY <1>4
    <3>2. CASE i = 1
      BY <1>2, <3>1, <3>2
    <3>3. CASE i # 1
      <4>1. i - 1 \in 1 .. Len(q) - 1 /\ (i - 1) + 1 = i
        BY <1>2, <3>3
      <4> QED  BY <1>3, <3>1, <4>1
    <3> QED  BY <3>2, <3>3
  <2>2. ASSUME NEW i \in 1 .. Len(q) - 1
        PROVE  q[i + 1] \in Range(q)
    BY <1>2, <1>4
  <2>3. Head(q) \in Range(q)
    BY <1>2, <1>4
  <2> QED  BY <1>3, <2>1, <2>2, <2>3
<1>6. Range(Append(Tail(q), Head(q))) = Range(Tail(q)) \cup {Head(q)}
      /\ Append(Tail(q), Head(q)) \in Seq(S)
  <2>1. \A t \in Seq(S), x \in S :
          Range(Append(t, x)) = Range(t) \cup {x} /\ Append(t, x) \in Seq(S)
    BY RangeAppend
  <2> QED  BY <1>1, <2>1
<1> QED  BY <1>5, <1>6

\* entrySet() and get() return the servers of the shared map, in some order.
LEMMA SnapshotRange ==
  ASSUME NEW S \in SUBSET Nodes, NEW q \in SetToSeqs(S)
  PROVE  q \in Seq(Nodes) /\ Range(q) = S
<1>1. IsFiniteSet(S) /\ Cardinality(S) \in Nat
  BY ClusterAssumption, FS_Subset, FS_CardinalityType
<1> DEFINE Places == 1 .. Cardinality(S)
<1>2. q \in [Places -> S] /\ \A i, j \in Places : i # j => q[i] # q[j]
  BY DEF SetToSeqs
<1>3. q \in Injection(Places, S)
  BY <1>2 DEF Injection, IsInjective
<1>4. IsFiniteSet(Places) /\ Cardinality(Places) = Cardinality(S)
  <2>1. /\ IsFiniteSet(1 .. Cardinality(S))
        /\ Cardinality(1 .. Cardinality(S))
             = IF 1 > Cardinality(S) THEN 0 ELSE Cardinality(S) - 1 + 1
    BY <1>1, FS_Interval
  <2> QED  BY <1>1, <2>1
<1>5. q \in Surjection(Places, S)
  BY <1>1, <1>3, <1>4, FS_Injection
<1>6. Range(q) = S
  BY <1>2, <1>5 DEF Surjection, Range
<1>7. q \in Seq(Nodes)
  BY <1>1, <1>2, SeqDef
<1> QED  BY <1>6, <1>7

-----------------------------------------------------------------------------
(* Type correctness.                                                       *)

\* Entry events and lost changes keep their types.
LEMMA PublishTypes ==
  ASSUME TypeOK, NEW a \in Addrs, NEW e \in Event, Publish(a, e)
  PROVE  events' \in [Nodes -> [Addrs -> Seq(Event)]] /\ missed' \in [Nodes -> SUBSET Addrs]
<1>1. events \in [Nodes -> [Addrs -> Seq(Event)]] /\ missed \in [Nodes -> SUBSET Addrs]
  BY DEF TypeOK
<1>2. \A n \in Nodes : Append(events[n][a], e) \in Seq(Event)
  BY <1>1, AppendProperties
<1>3. \A n \in Nodes : [events[n] EXCEPT ![a] = Append(@, e)] \in [Addrs -> Seq(Event)]
  BY <1>1, <1>2
<1>4. events' \in [Nodes -> [Addrs -> Seq(Event)]]
  BY <1>1, <1>3 DEF Publish
<1>5. missed' \in [Nodes -> SUBSET Addrs]
  BY <1>1 DEF Publish
<1> QED  BY <1>4, <1>5

LEMMA PutTypes ==
  ASSUME TypeOK, NEW a \in Addrs, NEW s \in Nodes, Put(a, s)
  PROVE  /\ subs' \subseteq Addrs \X Nodes
         /\ events' \in [Nodes -> [Addrs -> Seq(Event)]] /\ missed' \in [Nodes -> SUBSET Addrs]
<1>1. subs' \subseteq Addrs \X Nodes
  BY DEF Put, TypeOK
<1>2. CASE <<a, s>> \in subs
  BY <1>1, <1>2 DEF Put, TypeOK
<1>3. CASE <<a, s>> \notin subs
  <2>1. [kind |-> "added", server |-> s] \in Event
    BY DEF Event
  <2> QED  BY <1>1, <1>3, <2>1, PublishTypes DEF Put
<1> QED  BY <1>2, <1>3

\* The parts of a section.
LEMMA SectionTypes ==
  ASSUME TypeOK, NEW n \in Nodes, critical[n] # None
  PROVE  /\ critical[n] \in Section /\ critical[n].address \in Addrs
         /\ critical[n].op \in {"next", "erased", "reput"}
         /\ critical[n].op = "next" => critical[n].queue \in Seq(Nodes) /\ critical[n].queue # <<>>
         /\ critical[n].op = "reput" => critical[n].todo \subseteq Addrs
<1>1. critical[n] \in Section
  BY DEF TypeOK
<1> QED  BY <1>1 DEF Section

LEMMA InitTypes == Init => TypeOK
<1>1. <<>> \in Seq(Event) /\ <<>> \in Seq(Nodes)
  BY EmptySeq
<1> QED  BY <1>1, ClusterAssumption DEF Init, TypeOK

\* join(), addSub(), and what happens to the node and to the shared map from outside.
LEMMA JoinTypes ==
  ASSUME TypeOK, NEW n \in Nodes,
         \/ JoinRead(n) \/ JoinListen(n) \/ Kill(n)
         \/ \E a \in Addrs : AddSubPut(n, a) \/ AddSubEmplace(n, a) \/ NextThrows(n, a) \/ Removed(a, n)
  PROVE  TypeOK'
<1>1. CASE JoinRead(n)
  <2>1. PICK q \in [Addrs -> UNION {SetToSeqs(Subscribers(a)) : a \in Addrs}] :
           /\ \A a \in Addrs : q[a] \in SetToSeqs(Subscribers(a))
           /\ localEndpoints' = [localEndpoints EXCEPT ![n] = q]
    BY <1>1 DEF JoinRead
  <2>2. \A a \in Addrs : Subscribers(a) \in SUBSET Nodes
    BY DEF Subscribers
  <2>3. \A a \in Addrs : q[a] \in Seq(Nodes)
    BY <2>1, <2>2, SnapshotRange
  <2>4. q \in [Addrs -> Seq(Nodes)]
    BY <2>1, <2>3
  <2>5. localEndpoints' \in [Nodes -> [Addrs -> Seq(Nodes)]]
    BY <2>1, <2>4 DEF TypeOK
  <2> QED  BY <1>1, <2>5 DEF JoinRead, TypeOK
<1>2. CASE JoinListen(n)
  BY <1>2 DEF JoinListen, TypeOK
<1>3. CASE Kill(n)
  BY <1>3 DEF Kill, TypeOK
<1>4. ASSUME NEW a \in Addrs, AddSubPut(n, a)
      PROVE  TypeOK'
  <2>1. Put(a, n) /\ adding' = [adding EXCEPT ![n] = @ \cup {a}]
    BY <1>4 DEF AddSubPut
  <2>2. adding' \in [Nodes -> SUBSET Addrs]
    BY <2>1 DEF TypeOK
  <2> QED  BY <1>4, <2>1, <2>2, PutTypes DEF AddSubPut, TypeOK
<1>5. ASSUME NEW a \in Addrs, AddSubEmplace(n, a)
      PROVE  TypeOK'
  BY <1>5 DEF AddSubEmplace, TypeOK
<1>6. ASSUME NEW a \in Addrs, NextThrows(n, a)
      PROVE  TypeOK'
  BY <1>6 DEF NextThrows, TypeOK
<1>7. ASSUME NEW a \in Addrs, Removed(a, n)
      PROVE  TypeOK'
  <2>1. [kind |-> "removed", server |-> n] \in Event
    BY DEF Event
  <2>2. events' \in [Nodes -> [Addrs -> Seq(Event)]] /\ missed' \in [Nodes -> SUBSET Addrs]
    BY <1>7, <2>1, PublishTypes DEF Removed
  <2>3. removals' \in 0 .. MaxRemovals
    BY <1>7, ClusterAssumption DEF Removed, TypeOK
  <2> QED  BY <1>7, <2>2, <2>3 DEF Removed, TypeOK
<1> QED  BY <1>1, <1>2, <1>3, <1>4, <1>5, <1>6, <1>7

\* The handlers of entry events.
LEMMA EventTypes ==
  ASSUME TypeOK, EventsSound, NEW n \in Nodes,
         \/ \E a \in Addrs : EventStep(n, a)
         \/ EntryRemovedGet(n) \/ EntryRemovedDone(n) \/ \E b \in Addrs : EntryRemovedPut(n, b)
  PROVE  TypeOK'
<1>1. /\ events \in [Nodes -> [Addrs -> Seq(Event)]]
      /\ localEndpoints \in [Nodes -> [Addrs -> Seq(Nodes)]]
      /\ critical \in [Nodes -> Section \cup {None}]
  BY DEF TypeOK
<1>2. ASSUME NEW a \in Addrs, events[n][a] # <<>>
      PROVE  /\ Head(events[n][a]) \in Event
             /\ Handled(n, a) => events' \in [Nodes -> [Addrs -> Seq(Event)]]
  <2>1. Head(events[n][a]) \in Event /\ Tail(events[n][a]) \in Seq(Event)
    BY <1>1, <1>2, HeadTailProperties
  <2>2. Handled(n, a) => events' = [events EXCEPT ![n] = [@ EXCEPT ![a] = Tail(events[n][a])]]
    BY <1>1 DEF Handled
  <2>3. [events[n] EXCEPT ![a] = Tail(events[n][a])] \in [Addrs -> Seq(Event)]
    BY <1>1, <2>1
  <2> QED  BY <1>1, <2>1, <2>2, <2>3
<1>3. ASSUME NEW a \in Addrs, EntryAdded(n, a)
      PROVE  TypeOK'
  <2>1. events[n][a] # <<>>
    BY <1>3 DEF EntryAdded, Handling
  <2>2. Head(events[n][a]).server \in Nodes
    BY <1>2, <2>1 DEF Event
  <2>3. Append(localEndpoints[n][a], Head(events[n][a]).server) \in Seq(Nodes)
    BY <1>1, <2>2, AppendProperties
  <2>4. localEndpoints' \in [Nodes -> [Addrs -> Seq(Nodes)]]
    BY <1>1, <1>3, <2>3 DEF EntryAdded
  <2>5. events' \in [Nodes -> [Addrs -> Seq(Event)]]
    BY <1>2, <1>3, <2>1 DEF EntryAdded
  <2> QED  BY <1>3, <2>4, <2>5 DEF EntryAdded, TypeOK
<1>4. ASSUME NEW a \in Addrs, EntryRemovedErase(n, a)
      PROVE  TypeOK'
  <2>1. [op |-> "erased", address |-> a] \in Section
    BY DEF Section
  <2>2. <<>> \in Seq(Nodes)
    BY EmptySeq
  <2> QED  BY <1>4, <2>1, <2>2 DEF EntryRemovedErase, TypeOK
<1>5. CASE EntryRemovedGet(n)
  <2> DEFINE a == critical[n].address
  <2>1. a \in Addrs
    BY <1>5, SectionTypes DEF EntryRemovedGet, InCritical
  <2>2. PICK q \in SetToSeqs(Subscribers(a)) :
           localEndpoints' = [localEndpoints EXCEPT ![n][a] = @ \o q]
    BY <1>5 DEF EntryRemovedGet
  <2>3. q \in Seq(Nodes)
    <3>1. Subscribers(a) \in SUBSET Nodes
      BY DEF Subscribers
    <3> QED  BY <3>1, SnapshotRange
  <2>4. localEndpoints[n][a] \o q \in Seq(Nodes)
    BY <1>1, <2>1, <2>3, ConcatProperties
  <2>5. localEndpoints' \in [Nodes -> [Addrs -> Seq(Nodes)]]
    BY <1>1, <2>1, <2>2, <2>4
  <2>6. [op |-> "reput", address |-> a, todo |-> localSubs[n]] \in Section
    BY <2>1 DEF Section, TypeOK
  <2>7. critical' \in [Nodes -> Section \cup {None}]
    BY <1>1, <1>5, <2>6 DEF EntryRemovedGet
  <2>8. missed' \in [Nodes -> SUBSET Addrs]
    BY <1>5 DEF EntryRemovedGet, TypeOK
  <2> QED  BY <1>5, <2>5, <2>7, <2>8 DEF EntryRemovedGet, TypeOK
<1>6. CASE EntryRemovedDone(n)
  <2> DEFINE a == critical[n].address
  <2>1. a \in Addrs /\ Handled(n, a)
    BY <1>6, SectionTypes DEF EntryRemovedDone, InCritical
  <2>2. critical' \in [Nodes -> Section \cup {None}]
    BY <1>1, <1>6 DEF EntryRemovedDone
  <2>3. events' \in [Nodes -> [Addrs -> Seq(Event)]]
    <3>1. events[n][a] # <<>>
      BY <1>6 DEF EntryRemovedDone, InCritical, EventsSound
    <3> QED  BY <1>2, <2>1, <3>1
  <2> QED  BY <1>6, <2>2, <2>3 DEF EntryRemovedDone, TypeOK
<1>7. ASSUME NEW b \in Addrs, EntryRemovedPut(n, b)
      PROVE  TypeOK'
  <2>1. Put(b, n) /\ InCritical(n, "reput") /\ critical' = [critical EXCEPT ![n].todo = @ \ {b}]
    BY <1>7 DEF EntryRemovedPut
  <2>2. critical[n] \in [op : {"reput"}, address : Addrs, todo : SUBSET Addrs]
    BY <1>1, <2>1 DEF InCritical, Section
  <2>3. [critical[n] EXCEPT !.todo = @ \ {b}] \in Section
    BY <2>2 DEF Section
  <2>4. critical' \in [Nodes -> Section \cup {None}]
    BY <1>1, <2>1, <2>3
  <2> QED  BY <1>7, <2>1, <2>4, PutTypes DEF EntryRemovedPut, TypeOK
<1> QED  BY <1>3, <1>4, <1>5, <1>6, <1>7 DEF EventStep

\* The two halves of next().
LEMMA NextTypes ==
  ASSUME TypeOK, NEW n \in Nodes, NextPutBack(n) \/ \E a \in Addrs : NextTake(n, a)
  PROVE  TypeOK'
<1>1. /\ localEndpoints \in [Nodes -> [Addrs -> Seq(Nodes)]]
      /\ critical \in [Nodes -> Section \cup {None}]
  BY DEF TypeOK
<1>2. ASSUME NEW a \in Addrs, NextTake(n, a)
      PROVE  TypeOK'
  <2>1. [op |-> "next", address |-> a, queue |-> localEndpoints[n][a]] \in Section
    BY <1>1, <1>2 DEF NextTake, Section
  <2>2. <<>> \in Seq(Nodes)
    BY EmptySeq
  <2>3. /\ critical' \in [Nodes -> Section \cup {None}]
        /\ localEndpoints' \in [Nodes -> [Addrs -> Seq(Nodes)]]
    BY <1>1, <1>2, <2>1, <2>2 DEF NextTake
  <2>4. calls' \in [Nodes -> 0 .. MaxCalls]
    BY <1>2, ClusterAssumption DEF NextTake, TypeOK
  <2> QED  BY <1>2, <2>3, <2>4 DEF NextTake, TypeOK
<1>3. CASE NextPutBack(n)
  <2> DEFINE a == critical[n].address
             q == critical[n].queue
  <2>1. a \in Addrs /\ q \in Seq(Nodes) /\ q # <<>>
    BY <1>3, SectionTypes DEF NextPutBack, InCritical
  <2>2. Append(Tail(q), Head(q)) \in Seq(Nodes) /\ Head(q) \in Nodes
    BY <2>1, RangeRotated, HeadTailProperties
  <2>3. localEndpoints' \in [Nodes -> [Addrs -> Seq(Nodes)]]
    BY <1>1, <1>3, <2>1, <2>2 DEF NextPutBack
  <2>4. critical' \in [Nodes -> Section \cup {None}]
    BY <1>1, <1>3 DEF NextPutBack
  <2>5. missed' \in [Nodes -> SUBSET Addrs]
    BY <1>3, <2>1 DEF NextPutBack, TypeOK
  <2>6. given' \subseteq Addrs \X Nodes
    BY <1>3, <2>1, <2>2 DEF NextPutBack, TypeOK
  <2> QED  BY <1>3, <2>3, <2>4, <2>5, <2>6 DEF NextPutBack, TypeOK
<1> QED  BY <1>2, <1>3

\* No step but these.
LEMMA TypesPreserved == TypeOK /\ EventsSound /\ [Next]_vars => TypeOK'
<1> SUFFICES ASSUME TypeOK, EventsSound, [Next]_vars
             PROVE  TypeOK'
  OBVIOUS
<1>1. CASE UNCHANGED vars
  BY <1>1 DEF vars, TypeOK
<1>2. ASSUME NEW n \in Nodes,
             JoinRead(n) \/ JoinListen(n) \/ Kill(n) \/ CriticalStep(n)
      PROVE  TypeOK'
  BY <1>2, JoinTypes, EventTypes, NextTypes DEF CriticalStep
<1>3. ASSUME NEW n \in Nodes, NEW a \in Addrs,
             \/ AddSubPut(n, a) \/ AddSubEmplace(n, a) \/ EventStep(n, a)
             \/ NextTake(n, a) \/ NextThrows(n, a) \/ Removed(a, n)
      PROVE  TypeOK'
  BY <1>3, JoinTypes, EventTypes, NextTypes
<1> QED  BY <1>1, <1>2, <1>3 DEF Next

-----------------------------------------------------------------------------
(* What the events of a node are after a change, and after one was handled. *)

\* Every event is where it was; listeners have one more, at the end.
LEMMA Published ==
  ASSUME TypeOK, NEW a \in Addrs, NEW e \in Event, Publish(a, e),
         NEW n \in Nodes, NEW b \in Addrs
  PROVE  /\ DOMAIN events[n][b] = 1 .. Len(events[n][b]) /\ Len(events[n][b]) \in Nat
         /\ \A k \in DOMAIN events[n][b] :
              k \in DOMAIN events'[n][b] /\ events'[n][b][k] = events[n][b][k]
         /\ phase[n] = "listening" /\ b = a =>
              /\ DOMAIN events'[n][b] = 1 .. Len(events[n][b]) + 1
              /\ events'[n][b][Len(events[n][b]) + 1] = e
         /\ ~ (phase[n] = "listening" /\ b = a) => events'[n][b] = events[n][b]
<1>1. events[n] \in [Addrs -> Seq(Event)] /\ events[n][b] \in Seq(Event)
  BY DEF TypeOK
<1>2. DOMAIN events[n][b] = 1 .. Len(events[n][b]) /\ Len(events[n][b]) \in Nat
  BY <1>1, LenProperties
<1>3. events'[n] = IF phase[n] = "listening"
                   THEN [events[n] EXCEPT ![a] = Append(@, e)] ELSE events[n]
  BY DEF Publish
<1>4. CASE phase[n] = "listening" /\ b = a
  <2>1. events'[n][b] = Append(events[n][b], e)
    BY <1>1, <1>3, <1>4
  <2>2. /\ Append(events[n][b], e) \in Seq(Event)
        /\ Len(Append(events[n][b], e)) = Len(events[n][b]) + 1
        /\ \A k \in 1 .. Len(events[n][b]) : Append(events[n][b], e)[k] = events[n][b][k]
        /\ Append(events[n][b], e)[Len(events[n][b]) + 1] = e
    BY <1>1, AppendProperties
  <2>3. DOMAIN events'[n][b] = 1 .. Len(events[n][b]) + 1
    BY <2>1, <2>2, LenProperties
  <2> QED  BY <1>2, <1>4, <2>1, <2>2, <2>3
<1>5. CASE ~ (phase[n] = "listening" /\ b = a)
  <2>1. events'[n][b] = events[n][b]
    BY <1>1, <1>3, <1>5
  <2> QED  BY <1>2, <1>5, <2>1
<1> QED  BY <1>4, <1>5

\* A handled event is gone and the others move up.
LEMMA EventHandled ==
  ASSUME TypeOK, NEW n \in Nodes, NEW a \in Addrs, events[n][a] # <<>>, Handled(n, a)
  PROVE  /\ DOMAIN events[n][a] = 1 .. Len(events[n][a]) /\ Len(events[n][a]) \in Nat \ {0}
         /\ DOMAIN events'[n][a] = 1 .. Len(events[n][a]) - 1
         /\ \A k \in DOMAIN events'[n][a] : events'[n][a][k] = events[n][a][k + 1]
         /\ Head(events[n][a]) = events[n][a][1] /\ Head(events[n][a]) \in Event
         /\ \A m \in Nodes, b \in Addrs : m # n \/ b # a => events'[m][b] = events[m][b]
<1>1. events \in [Nodes -> [Addrs -> Seq(Event)]] /\ events[n][a] \in Seq(Event)
  BY DEF TypeOK
<1>2. /\ DOMAIN events[n][a] = 1 .. Len(events[n][a]) /\ Len(events[n][a]) \in Nat \ {0}
      /\ Head(events[n][a]) = events[n][a][1]
  BY <1>1, EmptySeq, LenProperties
<1>3. /\ Head(events[n][a]) \in Event
      /\ Tail(events[n][a]) \in Seq(Event) /\ Len(Tail(events[n][a])) = Len(events[n][a]) - 1
      /\ \A k \in 1 .. Len(Tail(events[n][a])) : Tail(events[n][a])[k] = events[n][a][k + 1]
  BY <1>1, HeadTailProperties
<1>4. events'[n][a] = Tail(events[n][a])
      /\ \A m \in Nodes, b \in Addrs : m # n \/ b # a => events'[m][b] = events[m][b]
  BY <1>1 DEF Handled
<1>5. DOMAIN Tail(events[n][a]) = 1 .. Len(events[n][a]) - 1
  BY <1>3, LenProperties
<1> QED  BY <1>2, <1>3, <1>4, <1>5

LEMMA FirstEvent ==
  ASSUME TypeOK, NEW n \in Nodes, NEW a \in Addrs
  PROVE  /\ events[n][a] # <<>> <=> 1 \in DOMAIN events[n][a]
         /\ Head(events[n][a]) = events[n][a][1]
         /\ events[n][a] = <<>> => DOMAIN events[n][a] = {}
<1>1. events[n][a] \in Seq(Event)
  BY DEF TypeOK
<1>2. DOMAIN events[n][a] = 1 .. Len(events[n][a]) /\ Len(events[n][a]) \in Nat
  BY <1>1, LenProperties
<1>3. events[n][a] = <<>> => Len(events[n][a]) = 0
  BY EmptySeq
<1>4. events[n][a] # <<>> => Len(events[n][a]) \in Nat \ {0}
  BY <1>1, EmptySeq
<1> QED  BY <1>1, <1>2, <1>3, <1>4

-----------------------------------------------------------------------------
(* Events and the lock.                                                    *)

\* Sections of entryRemoved that differ only in what they have still to put back.
SameSection(c, d) ==
  (c = None <=> d = None) /\ c.op = d.op /\ c.op # "next" /\ c.address = d.address

\* A change of the shared map leaves the heads of all queues alone.
LEMMA PublishSound ==
  ASSUME TypeOK, TypeOK', EventsSound, UNCHANGED <<phase, localEndpoints>>,
         \A n \in Nodes : critical'[n] = critical[n] \/ SameSection(critical[n], critical'[n]),
         NEW a \in Addrs,
         UNCHANGED events \/ \E e \in Event : Publish(a, e)
  PROVE  EventsSound'
<1>1. ASSUME NEW n \in Nodes, NEW b \in Addrs
      PROVE  /\ phase[n] # "listening" => events'[n][b] = events[n][b]
             /\ events[n][b] # <<>> => events'[n][b] # <<>> /\ Head(events'[n][b]) = Head(events[n][b])
  <2>1. CASE UNCHANGED events
    BY <2>1
  <2>2. CASE \E e \in Event : Publish(a, e)
    <3>1. phase[n] # "listening" => events'[n][b] = events[n][b]
      BY <2>2, Published
    <3>2. \A k \in DOMAIN events[n][b] :
            k \in DOMAIN events'[n][b] /\ events'[n][b][k] = events[n][b][k]
      BY <2>2, Published
    <3>3. /\ events'[n][b] # <<>> <=> 1 \in DOMAIN events'[n][b]
          /\ Head(events'[n][b]) = events'[n][b][1]
      <4>1. events'[n][b] \in Seq(Event)
        BY DEF TypeOK
      <4>2. DOMAIN events'[n][b] = 1 .. Len(events'[n][b]) /\ Len(events'[n][b]) \in Nat
        BY <4>1, LenProperties
      <4>3. events'[n][b] = <<>> => Len(events'[n][b]) = 0
        BY EmptySeq
      <4>4. events'[n][b] # <<>> => Len(events'[n][b]) \in Nat \ {0}
        BY <4>1, EmptySeq
      <4> QED  BY <4>1, <4>2, <4>3, <4>4
    <3> QED  BY <3>1, <3>2, <3>3, FirstEvent
  <2> QED  BY <2>1, <2>2
<1>2. ASSUME NEW n \in Nodes, phase'[n] \in {"new", "read"}
      PROVE  critical'[n] = None /\ \A b \in Addrs : events'[n][b] = <<>>
  <2>1. critical[n] = None /\ \A b \in Addrs : events[n][b] = <<>>
    BY <1>2 DEF EventsSound
  <2> QED  BY <1>1, <1>2, <2>1 DEF SameSection
<1>3. ASSUME NEW n \in Nodes, critical'[n] # None, critical'[n].op # "next"
      PROVE  /\ events'[n][critical'[n].address] # <<>>
             /\ Head(events'[n][critical'[n].address]).kind = "removed"
             /\ critical'[n].op = "erased" => localEndpoints'[n][critical'[n].address] = <<>>
  <2>1. /\ critical[n] # None /\ critical[n].op = critical'[n].op
        /\ critical[n].address = critical'[n].address
    BY <1>3 DEF SameSection
  <2>2. critical[n].address \in Addrs
    BY <2>1, SectionTypes
  <2> QED  BY <1>1, <1>3, <2>1, <2>2 DEF EventsSound
<1> QED  BY <1>2, <1>3 DEF EventsSound

LEMMA EventsSoundPreserved ==
  TypeOK /\ TypeOK' /\ EventsSound /\ [Next]_vars => EventsSound'
<1> SUFFICES ASSUME TypeOK, TypeOK', EventsSound, [Next]_vars
             PROVE  EventsSound'
  OBVIOUS
<1>1. CASE UNCHANGED vars
  BY <1>1 DEF vars, EventsSound
<1>2. ASSUME NEW n \in Nodes, JoinRead(n) \/ JoinListen(n) \/ Kill(n)
      PROVE  EventsSound'
  BY <1>2 DEF JoinRead, JoinListen, Kill, EventsSound, TypeOK
<1>3. ASSUME NEW n \in Nodes, NEW a \in Addrs, AddSubEmplace(n, a) \/ NextThrows(n, a)
      PROVE  EventsSound'
  BY <1>3 DEF AddSubEmplace, NextThrows, EventsSound, TypeOK
<1>4. ASSUME NEW a \in Addrs, NEW s \in Nodes, Put(a, s)
      PROVE  UNCHANGED events \/ \E e \in Event : Publish(a, e)
  BY <1>4 DEF Put, Event
<1>5. ASSUME NEW n \in Nodes, NEW a \in Addrs, AddSubPut(n, a) \/ Removed(a, n)
      PROVE  EventsSound'
  <2>1. UNCHANGED <<phase, localEndpoints, critical>>
    BY <1>5 DEF AddSubPut, Removed
  <2>2. UNCHANGED events \/ \E e \in Event : Publish(a, e)
    BY <1>4, <1>5 DEF AddSubPut, Removed, Event
  <2> QED  BY <2>1, <2>2, PublishSound
<1>6. ASSUME NEW n \in Nodes, NEW b \in Addrs, EntryRemovedPut(n, b)
      PROVE  EventsSound'
  <2>1. UNCHANGED <<phase, localEndpoints>> /\ Put(b, n)
        /\ InCritical(n, "reput") /\ critical' = [critical EXCEPT ![n].todo = @ \ {b}]
    BY <1>6 DEF EntryRemovedPut
  <2>2. critical[n] \in [op : {"reput"}, address : Addrs, todo : SUBSET Addrs]
    BY <2>1 DEF InCritical, Section, TypeOK
  <2>3. critical'[n] \in Section
    BY <2>1, <2>2 DEF TypeOK, Section
  <2>4. \A m \in Nodes : critical'[m] = critical[m] \/ SameSection(critical[m], critical'[m])
    BY <2>1, <2>2, <2>3, ClusterAssumption DEF InCritical, SameSection, TypeOK
  <2> QED  BY <1>4, <2>1, <2>4, PublishSound
<1>7. ASSUME NEW n \in Nodes, NEW a \in Addrs, EntryAdded(n, a)
      PROVE  EventsSound'
  <2>1. /\ events[n][a] # <<>> /\ Head(events[n][a]).kind = "added"
        /\ phase[n] = "listening" /\ Handled(n, a)
        /\ UNCHANGED <<phase, critical>>
        /\ localEndpoints' = [localEndpoints EXCEPT ![n][a] = Append(@, Head(events[n][a]).server)]
    BY <1>7 DEF EntryAdded, Handling
  <2>2. \A m \in Nodes, b \in Addrs : m # n \/ b # a =>
           events'[m][b] = events[m][b] /\ localEndpoints'[m][b] = localEndpoints[m][b]
    <3>1. \A m \in Nodes, b \in Addrs : m # n \/ b # a => events'[m][b] = events[m][b]
      BY <2>1, EventHandled
    <3>2. \A m \in Nodes, b \in Addrs : m # n \/ b # a => localEndpoints'[m][b] = localEndpoints[m][b]
      BY <2>1 DEF TypeOK
    <3> QED  BY <3>1, <3>2
  <2>3. critical[n] # None /\ critical[n].op # "next" => critical[n].address # a
    BY <2>1 DEF EventsSound
  <2>4. \A m \in Nodes : critical[m] # None => critical[m].address \in Addrs
    BY SectionTypes
  <2> QED  BY <2>1, <2>2, <2>3, <2>4 DEF EventsSound
<1>8. ASSUME NEW n \in Nodes, NEW a \in Addrs, EntryRemovedErase(n, a)
      PROVE  EventsSound'
  <2>1. /\ events[n][a] # <<>> /\ Head(events[n][a]).kind = "removed" /\ phase[n] = "listening"
        /\ UNCHANGED <<phase, events>> /\ critical[n] = None
        /\ critical' = [critical EXCEPT ![n] = [op |-> "erased", address |-> a]]
        /\ localEndpoints' = [localEndpoints EXCEPT ![n][a] = <<>>]
    BY <1>8 DEF EntryRemovedErase, Handling
  <2>2. critical'[n] = [op |-> "erased", address |-> a] /\ localEndpoints'[n][a] = <<>>
    BY <2>1 DEF TypeOK
  <2>3. \A m \in Nodes \ {n} : critical'[m] = critical[m] /\ localEndpoints'[m] = localEndpoints[m]
    BY <2>1 DEF TypeOK
  <2> QED  BY <2>1, <2>2, <2>3 DEF EventsSound
<1>9. ASSUME NEW n \in Nodes, EntryRemovedGet(n)
      PROVE  EventsSound'
  <2> DEFINE a == critical[n].address
  <2>1. /\ InCritical(n, "erased") /\ UNCHANGED <<phase, events>>
        /\ critical' = [critical EXCEPT ![n] = [op |-> "reput", address |-> a, todo |-> localSubs[n]]]
    BY <1>9 DEF EntryRemovedGet
  <2>2. critical'[n] = [op |-> "reput", address |-> a, todo |-> localSubs[n]]
    BY <2>1 DEF TypeOK
  <2>3. \A m \in Nodes \ {n} : critical'[m] = critical[m] /\ localEndpoints'[m] = localEndpoints[m]
    BY <1>9, <2>1 DEF EntryRemovedGet, TypeOK
  <2> QED  BY <2>1, <2>2, <2>3 DEF EventsSound, InCritical
<1>10. ASSUME NEW n \in Nodes, EntryRemovedDone(n)
       PROVE  EventsSound'
  <2> DEFINE a == critical[n].address
  <2>1. /\ InCritical(n, "reput") /\ Handled(n, a)
        /\ UNCHANGED <<phase, localEndpoints>> /\ critical' = [critical EXCEPT ![n] = None]
    BY <1>10 DEF EntryRemovedDone
  <2>2. a \in Addrs /\ events[n][a] # <<>> /\ phase[n] = "listening"
    BY <2>1, SectionTypes DEF InCritical, EventsSound
  <2>3. \A m \in Nodes \ {n}, b \in Addrs : events'[m][b] = events[m][b]
    BY <2>1, <2>2, EventHandled
  <2>4. critical'[n] = None /\ \A m \in Nodes \ {n} : critical'[m] = critical[m]
    BY <2>1 DEF TypeOK
  <2>5. \A m \in Nodes : critical[m] # None => critical[m].address \in Addrs
    BY SectionTypes
  <2> QED  BY <2>1, <2>2, <2>3, <2>4, <2>5 DEF EventsSound
<1>11. ASSUME NEW n \in Nodes, NextPutBack(n) \/ \E a \in Addrs : NextTake(n, a)
       PROVE  EventsSound'
  <2>1. /\ UNCHANGED <<phase, events>> /\ phase[n] = "listening"
        /\ critical'[n] = None \/ critical'[n].op = "next"
        /\ \A m \in Nodes \ {n} : critical'[m] = critical[m] /\ localEndpoints'[m] = localEndpoints[m]
    BY <1>11 DEF NextPutBack, NextTake, InCritical, TypeOK
  <2> QED  BY <2>1 DEF EventsSound
<1> QED  BY <1>1, <1>2, <1>3, <1>5, <1>6, <1>7, <1>8, <1>9, <1>10, <1>11
         DEF Next, EventStep, CriticalStep

\* Every variable of the cluster manager keeps its type, and a handler in the
\* lock is that of a removal still at the head of its queue.
THEOREM ClusterTypeCorrect == Spec => [](TypeOK /\ EventsSound)
<1>1. Init => TypeOK /\ EventsSound
  BY InitTypes DEF Init, EventsSound
<1>2. TypeOK /\ EventsSound /\ [Next]_vars => TypeOK' /\ EventsSound'
  BY TypesPreserved, EventsSoundPreserved
<1> QED  BY <1>1, <1>2, PTL DEF Spec

\* The part of it that is TypeOK.
COROLLARY AlwaysTypeOK == Spec => []TypeOK
BY ClusterTypeCorrect, PTL

-----------------------------------------------------------------------------
(* What each step does to the servers a node may hand out.                 *)

LEMMA ViewServers ==
  ASSUME TypeOK, NEW n \in Nodes, NEW a \in Addrs
  PROVE  View(n, a) \subseteq Nodes
<1>1. \A q \in Seq(Nodes) : Range(q) \subseteq Nodes
  <2>1. \A q \in Seq(Nodes) : Range(q) = {q[i] : i \in 1 .. Len(q)}
    BY RangeEquality
  <2>2. \A q \in Seq(Nodes) : \A i \in 1 .. Len(q) : q[i] \in Nodes
    BY ElementOfSeq
  <2> QED  BY <2>1, <2>2
<1>2. localEndpoints[n][a] \in Seq(Nodes)
  BY DEF TypeOK
<1>3. Held(n, a) \subseteq Nodes
  BY <1>1, SectionTypes DEF Held
<1> QED  BY <1>1, <1>2, <1>3 DEF View

\* Nothing, when neither the map nor a queue that was moved out changes.
LEMMA ViewSame ==
  ASSUME NEW n \in Nodes, NEW a \in Addrs, localEndpoints'[n][a] = localEndpoints[n][a],
         \/ critical'[n] = critical[n]
         \/ /\ critical[n] = None \/ critical[n].op # "next" \/ critical[n].address # a
            /\ critical'[n] = None \/ critical'[n].op # "next" \/ critical'[n].address # a
  PROVE  View(n, a)' = View(n, a)
BY DEF View, Held

\* join() takes the servers of the shared map.
LEMMA ViewOfJoin ==
  ASSUME TypeOK, EventsSound, NEW n \in Nodes, JoinRead(n)
  PROVE  \A m \in Nodes, b \in Addrs :
           View(m, b)' = IF m = n THEN Subscribers(b) ELSE View(m, b)
<1>1. PICK q \in [Addrs -> UNION {SetToSeqs(Subscribers(a)) : a \in Addrs}] :
         /\ \A a \in Addrs : q[a] \in SetToSeqs(Subscribers(a))
         /\ localEndpoints' = [localEndpoints EXCEPT ![n] = q]
  BY DEF JoinRead
<1>2. \A b \in Addrs : Range(q[b]) = Subscribers(b)
  <2>1. \A a \in Addrs : Subscribers(a) \in SUBSET Nodes
    BY DEF Subscribers
  <2> QED  BY <1>1, <2>1, SnapshotRange
<1>3. critical[n] = None /\ critical' = critical
  BY DEF JoinRead, EventsSound
<1>4. localEndpoints'[n] = q /\ \A m \in Nodes \ {n} : localEndpoints'[m] = localEndpoints[m]
  BY <1>1 DEF TypeOK
<1> QED  BY <1>2, <1>3, <1>4 DEF View, Held

\* An added entry is one more server.
LEMMA ViewOfAdded ==
  ASSUME TypeOK, NEW n \in Nodes, NEW a \in Addrs, EntryAdded(n, a)
  PROVE  \A m \in Nodes, b \in Addrs :
           View(m, b)' = IF m = n /\ b = a THEN View(n, a) \cup {Head(events[n][a]).server}
                         ELSE View(m, b)
<1> DEFINE s == Head(events[n][a]).server
<1>1. /\ localEndpoints' = [localEndpoints EXCEPT ![n][a] = Append(@, s)]
      /\ critical' = critical
  BY DEF EntryAdded
<1>2. s \in Nodes
  <2>1. events[n][a] \in Seq(Event) /\ events[n][a] # <<>>
    BY DEF EntryAdded, Handling, TypeOK
  <2>2. Head(events[n][a]) \in Event
    BY <2>1, HeadTailProperties
  <2> QED  BY <2>2 DEF Event
<1>3. localEndpoints'[n][a] = Append(localEndpoints[n][a], s)
      /\ \A m \in Nodes, b \in Addrs : m # n \/ b # a => localEndpoints'[m][b] = localEndpoints[m][b]
  BY <1>1 DEF TypeOK
<1>4. Range(localEndpoints'[n][a]) = Range(localEndpoints[n][a]) \cup {s}
  <2>1. localEndpoints[n][a] \in Seq(Nodes)
    BY DEF TypeOK
  <2> QED  BY <1>2, <1>3, <2>1, RangeAppend
<1>5. \A m \in Nodes, b \in Addrs : m # n \/ b # a => View(m, b)' = View(m, b)
  BY <1>1, <1>3, ViewSame
<1>6. View(n, a)' = View(n, a) \cup {s}
  BY <1>1, <1>4 DEF View, Held
<1> QED  BY <1>5, <1>6

\* Erasing a key leaves nobody.
LEMMA ViewOfErase ==
  ASSUME TypeOK, NEW n \in Nodes, NEW a \in Addrs, EntryRemovedErase(n, a)
  PROVE  \A m \in Nodes, b \in Addrs :
           View(m, b)' = IF m = n /\ b = a THEN {} ELSE View(m, b)
<1>1. /\ critical[n] = None
      /\ critical'[n] = [op |-> "erased", address |-> a]
      /\ \A m \in Nodes \ {n} : critical'[m] = critical[m]
  BY DEF EntryRemovedErase, TypeOK
<1>2. localEndpoints'[n][a] = <<>>
      /\ \A m \in Nodes, b \in Addrs : m # n \/ b # a => localEndpoints'[m][b] = localEndpoints[m][b]
  BY DEF EntryRemovedErase, TypeOK
<1>3. \A m \in Nodes, b \in Addrs : m # n \/ b # a => View(m, b)' = View(m, b)
  BY <1>1, <1>2, ViewSame
<1>4. Range(localEndpoints'[n][a]) = {}
  BY <1>2 DEF Range
<1> QED  BY <1>1, <1>3, <1>4 DEF View, Held

\* Reading a key again gives the servers of the shared map.
LEMMA ViewOfGet ==
  ASSUME TypeOK, EventsSound, NEW n \in Nodes, EntryRemovedGet(n)
  PROVE  \A m \in Nodes, b \in Addrs :
           View(m, b)' = IF m = n /\ b = critical[n].address THEN Subscribers(b) ELSE View(m, b)
<1> DEFINE a == critical[n].address
<1>1. /\ InCritical(n, "erased") /\ a \in Addrs /\ localEndpoints[n][a] = <<>>
  BY SectionTypes DEF EntryRemovedGet, InCritical, EventsSound
<1>2. PICK q \in SetToSeqs(Subscribers(a)) : localEndpoints' = [localEndpoints EXCEPT ![n][a] = @ \o q]
  BY DEF EntryRemovedGet
<1>3. q \in Seq(Nodes) /\ Range(q) = Subscribers(a)
  <2>1. Subscribers(a) \in SUBSET Nodes
    BY DEF Subscribers
  <2> QED  BY <1>2, <2>1, SnapshotRange
<1>4. localEndpoints'[n][a] = q
      /\ \A m \in Nodes, b \in Addrs : m # n \/ b # a => localEndpoints'[m][b] = localEndpoints[m][b]
  <2>1. localEndpoints'[n][a] = <<>> \o q
        /\ \A m \in Nodes, b \in Addrs : m # n \/ b # a => localEndpoints'[m][b] = localEndpoints[m][b]
    BY <1>1, <1>2 DEF TypeOK
  <2>2. <<>> \o q = q
    BY <1>3, ConcatEmptySeq
  <2> QED  BY <2>1, <2>2
<1>5. /\ critical'[n] = [op |-> "reput", address |-> a, todo |-> localSubs[n]]
      /\ \A m \in Nodes \ {n} : critical'[m] = critical[m]
  BY DEF EntryRemovedGet, TypeOK
<1>6. \A m \in Nodes, b \in Addrs : m # n \/ b # a => View(m, b)' = View(m, b)
  BY <1>1, <1>4, <1>5, ViewSame DEF InCritical
<1> QED  BY <1>3, <1>4, <1>5, <1>6 DEF View, Held

\* next() takes a queue out of the map and keeps it: nothing changes.
LEMMA ViewOfTake ==
  ASSUME TypeOK, NEW n \in Nodes, NEW a \in Addrs, NextTake(n, a)
  PROVE  \A m \in Nodes, b \in Addrs : View(m, b)' = View(m, b)
<1>1. /\ critical[n] = None
      /\ critical'[n] = [op |-> "next", address |-> a, queue |-> localEndpoints[n][a]]
      /\ \A m \in Nodes \ {n} : critical'[m] = critical[m]
  BY DEF NextTake, TypeOK
<1>2. localEndpoints'[n][a] = <<>>
      /\ \A m \in Nodes, b \in Addrs : m # n \/ b # a => localEndpoints'[m][b] = localEndpoints[m][b]
  BY DEF NextTake, TypeOK
<1>3. \A m \in Nodes, b \in Addrs : m # n \/ b # a => View(m, b)' = View(m, b)
  BY <1>1, <1>2, ViewSame
<1>4. critical'[n] # None
  <2>1. critical'[n] \in Section
    BY <1>1 DEF NextTake, Section, TypeOK
  <2> QED  BY <2>1, ClusterAssumption
<1>5. Range(localEndpoints'[n][a]) = {}
  BY <1>2 DEF Range
<1>6. View(n, a)' = View(n, a)
  BY <1>1, <1>4, <1>5 DEF View, Held
<1> QED  BY <1>3, <1>6

\* The queue it puts back overwrites the map: what came meanwhile is lost, and
\* the address is one with a missed change if that was a server.
LEMMA ViewOfPutBack ==
  ASSUME TypeOK, NEW n \in Nodes, NextPutBack(n)
  PROVE  /\ \A m \in Nodes, b \in Addrs : View(m, b)' \subseteq View(m, b)
         /\ \A m \in Nodes, b \in Addrs :
              b \notin missed'[m] => b \notin missed[m] /\ View(m, b)' = View(m, b)
<1>0. PICK a \in Addrs, q \in Seq(Nodes) :
         a = critical[n].address /\ q = critical[n].queue /\ q # <<>>
  BY SectionTypes DEF NextPutBack, InCritical
<1>1. InCritical(n, "next") /\ a = critical[n].address /\ q = critical[n].queue
  BY <1>0 DEF NextPutBack
<1>2. critical'[n] = None /\ \A m \in Nodes \ {n} : critical'[m] = critical[m]
  BY DEF NextPutBack, TypeOK
<1>3. localEndpoints'[n][a] = Append(Tail(q), Head(q))
      /\ \A m \in Nodes, b \in Addrs : m # n \/ b # a => localEndpoints'[m][b] = localEndpoints[m][b]
  BY <1>1 DEF NextPutBack, TypeOK
<1>4. Range(localEndpoints'[n][a]) = Range(q)
  BY <1>0, <1>3, RangeRotated
<1>5. \A m \in Nodes, b \in Addrs : m # n \/ b # a => View(m, b)' = View(m, b)
  BY <1>1, <1>2, <1>3, ViewSame
<1>6. View(n, a)' = Range(q)
  BY <1>2, <1>4 DEF View, Held
<1>7. View(n, a) = Range(localEndpoints[n][a]) \cup Range(q)
  BY <1>1 DEF View, Held, InCritical
<1>8. /\ missed'[n] = IF Range(localEndpoints[n][a]) \subseteq Range(q)
                      THEN missed[n] ELSE missed[n] \cup {a}
      /\ \A m \in Nodes \ {n} : missed'[m] = missed[m]
  BY <1>1 DEF NextPutBack, TypeOK
<1> QED  BY <1>5, <1>6, <1>7, <1>8

-----------------------------------------------------------------------------
(* Only registered servers are handed out.                                 *)

\* addSub is never taken back.
LEMMA SubscriptionsStay ==
  ASSUME TypeOK, [Next]_vars, NEW s \in Nodes
  PROVE  /\ localSubs[s] \subseteq localSubs'[s]
         /\ adding[s] \cup localSubs[s] \subseteq adding'[s] \cup localSubs'[s]
<1>1. CASE \E n \in Nodes, b \in Addrs : AddSubPut(n, b)
  BY <1>1 DEF AddSubPut, TypeOK
<1>2. CASE \E n \in Nodes, b \in Addrs : AddSubEmplace(n, b)
  BY <1>2 DEF AddSubEmplace, TypeOK
<1>3. CASE UNCHANGED <<adding, localSubs>>
  BY <1>3
<1>4. CASE \E n \in Nodes : JoinRead(n) \/ JoinListen(n) \/ Kill(n)
  BY <1>3, <1>4 DEF JoinRead, JoinListen, Kill
<1>5. CASE \E n \in Nodes : CriticalStep(n)
  BY <1>3, <1>5 DEF CriticalStep, EntryRemovedGet, EntryRemovedDone, EntryRemovedPut, NextPutBack
<1>6. CASE \E n \in Nodes, b \in Addrs :
             EventStep(n, b) \/ NextTake(n, b) \/ NextThrows(n, b) \/ Removed(b, n)
  BY <1>3, <1>6 DEF EventStep, EntryAdded, EntryRemovedErase, NextTake, NextThrows, Removed
<1>7. CASE UNCHANGED vars
  BY <1>3, <1>7 DEF vars
<1> QED  BY <1>1, <1>2, <1>4, <1>5, <1>6, <1>7 DEF Next

LEMMA AnnouncedStays ==
  ASSUME TypeOK, [Next]_vars, NEW a \in Addrs, NEW s \in Nodes, Announced(a, s)
  PROVE  Announced(a, s)'
BY SubscriptionsStay DEF Announced

\* An event names a server of the cluster.
LEMMA EventServer ==
  ASSUME NEW q \in Seq(Event), NEW k \in DOMAIN q
  PROVE  q[k] \in Event /\ q[k].server \in Nodes /\ q[k].kind \in {"added", "removed"}
<1>1. k \in 1 .. Len(q)
  BY LenProperties
<1>2. q[k] \in Event
  BY <1>1, ElementOfSeq
<1> QED  BY <1>2 DEF Event

\* A change of the map by, or about, a server that has called addSub.
LEMMA PublishAnnounced ==
  ASSUME TypeOK, TypeOK', AllAnnounced, [Next]_vars, NEW a \in Addrs, NEW s \in Nodes, Announced(a, s)',
         \/ Put(a, s)
         \/ subs' = subs \ {<<a, s>>} /\ Publish(a, [kind |-> "removed", server |-> s])
  PROVE  SubsAnnounced' /\ EventsAnnounced'
<1>1. SubsAnnounced'
  <2>1. subs' \subseteq subs \cup {<<a, s>>}
    BY DEF Put
  <2>2. ASSUME NEW b \in Addrs, NEW x \in Nodes, <<b, x>> \in subs'
        PROVE  Announced(b, x)'
    <3>1. CASE b = a /\ x = s
      BY <3>1
    <3>2. CASE <<b, x>> \in subs
      BY <3>2, AnnouncedStays DEF SubsAnnounced, AllAnnounced
    <3> QED  BY <2>1, <2>2, <3>1, <3>2
  <2> QED  BY <2>2 DEF SubsAnnounced
<1>2. ASSUME NEW n \in Nodes, NEW b \in Addrs, NEW k \in DOMAIN events'[n][b],
             NEW x \in Nodes, x = events'[n][b][k].server
      PROVE  Announced(b, x)'
  <2>1. CASE k \in DOMAIN events[n][b] /\ events'[n][b][k] = events[n][b][k]
    <3>1. Announced(b, x)
      BY <1>2, <2>1 DEF AllAnnounced, EventsAnnounced
    <3> QED  BY <3>1, AnnouncedStays
  <2>2. CASE UNCHANGED events
    BY <2>1, <2>2
  <2>3. ASSUME NEW e \in Event, e.server = s, Publish(a, e)
        PROVE  Announced(b, x)'
    <3>1. CASE k \in DOMAIN events[n][b]
      BY <2>1, <2>3, <3>1, Published
    <3>2. CASE k \notin DOMAIN events[n][b]
      <4>1. b = a /\ events'[n][b][k] = e
        BY <2>3, <3>2, Published
      <4> QED  BY <1>2, <2>3, <4>1
    <3> QED  BY <3>1, <3>2
  <2>4. \A e \in Event : e.server = s /\ Publish(a, e) => Announced(b, x)'
    BY <2>3
  <2>5. /\ [kind |-> "added", server |-> s] \in Event /\ [kind |-> "removed", server |-> s] \in Event
        /\ [kind |-> "added", server |-> s].server = s
        /\ [kind |-> "removed", server |-> s].server = s
    BY DEF Event
  <2>6. CASE Put(a, s)
    BY <2>2, <2>4, <2>5, <2>6 DEF Put
  <2>7. CASE Publish(a, [kind |-> "removed", server |-> s])
    BY <2>4, <2>5, <2>7
  <2> QED  BY <2>6, <2>7
<1>3. \A n \in Nodes, b \in Addrs : events'[n][b] \in Seq(Event)
  BY DEF TypeOK
<1>4. \A n \in Nodes, b \in Addrs : \A k \in DOMAIN events'[n][b] : events'[n][b][k].server \in Nodes
  BY <1>3, EventServer
<1>5. EventsAnnounced'
  BY <1>2, <1>4 DEF EventsAnnounced, Announced
<1> QED  BY <1>1, <1>5

\* The invariant behind OnlyRegistered, action by action.
LEMMA AllAnnouncedPreserved ==
  TypeOK /\ TypeOK' /\ EventsSound /\ AllAnnounced /\ [Next]_vars => AllAnnounced'
<1> SUFFICES ASSUME TypeOK, TypeOK', EventsSound, AllAnnounced, [Next]_vars
             PROVE  AllAnnounced'
  OBVIOUS
<1>1. \A a \in Addrs, s \in Nodes : Announced(a, s) => Announced(a, s)'
  BY AnnouncedStays
<1>2. ASSUME UNCHANGED subs
      PROVE  SubsAnnounced'
  BY <1>1, <1>2 DEF SubsAnnounced, AllAnnounced
<1>3. ASSUME \A n \in Nodes, b \in Addrs : \A k \in DOMAIN events'[n][b] :
               \E j \in DOMAIN events[n][b] : events'[n][b][k] = events[n][b][j]
      PROVE  EventsAnnounced'
  <2> SUFFICES ASSUME NEW n \in Nodes, NEW b \in Addrs, NEW k \in DOMAIN events'[n][b]
               PROVE  b \in adding'[events'[n][b][k].server] \cup localSubs'[events'[n][b][k].server]
    BY DEF EventsAnnounced, Announced
  <2>1. PICK j \in DOMAIN events[n][b] : events'[n][b][k] = events[n][b][j]
    BY <1>3
  <2>2. PICK x \in Nodes : x = events[n][b][j].server
    BY EventServer DEF TypeOK
  <2>3. Announced(b, x)
    BY <2>2 DEF AllAnnounced, EventsAnnounced
  <2>4. Announced(b, x)'
    BY <1>1, <2>3
  <2> QED  BY <2>1, <2>2, <2>4 DEF Announced
<1>4. ASSUME UNCHANGED events
      PROVE  EventsAnnounced'
  BY <1>3, <1>4
<1>5. ASSUME NEW n \in Nodes, NEW a \in Addrs, events[n][a] # <<>>, Handled(n, a)
      PROVE  EventsAnnounced'
  <2>1. ASSUME NEW m \in Nodes, NEW b \in Addrs, NEW k \in DOMAIN events'[m][b]
        PROVE  \E j \in DOMAIN events[m][b] : events'[m][b][k] = events[m][b][j]
    <3>1. CASE m = n /\ b = a
      <4>1. /\ DOMAIN events[n][a] = 1 .. Len(events[n][a]) /\ Len(events[n][a]) \in Nat \ {0}
            /\ DOMAIN events'[n][a] = 1 .. Len(events[n][a]) - 1
            /\ \A i \in DOMAIN events'[n][a] : events'[n][a][i] = events[n][a][i + 1]
        BY <1>5, EventHandled
      <4>2. k + 1 \in DOMAIN events[n][a]
        BY <3>1, <4>1
      <4> QED  BY <3>1, <4>1, <4>2
    <3>2. CASE m # n \/ b # a
      BY <1>5, <3>2, EventHandled
    <3> QED  BY <3>1, <3>2
  <2> QED  BY <1>3, <2>1
<1>6. ASSUME \A n \in Nodes, b \in Addrs : \A x \in View(n, b)' :
               x \in View(n, b) \/ (x \in Nodes /\ Announced(b, x))
      PROVE  OnlyRegistered'
  <2>1. \A n \in Nodes, b \in Addrs : View(n, b) \subseteq Nodes
    BY ViewServers
  <2> QED  BY <1>1, <1>6, <2>1 DEF OnlyRegistered, AllAnnounced
<1>7. ASSUME \A n \in Nodes, b \in Addrs : View(n, b)' = View(n, b)
      PROVE  OnlyRegistered'
  BY <1>6, <1>7
<1>8. ASSUME UNCHANGED critical
      PROVE  TodoAnnounced'
  <2>1. \A n \in Nodes : localSubs[n] \subseteq localSubs'[n]
    BY SubscriptionsStay
  <2> QED  BY <1>8, <2>1 DEF TodoAnnounced, AllAnnounced
<1>9. CASE UNCHANGED vars
  BY <1>2, <1>4, <1>7, <1>8, <1>9 DEF vars, AllAnnounced, View, Held
<1>10. ASSUME NEW n \in Nodes, JoinRead(n)
       PROVE  AllAnnounced'
  <2>1. \A m \in Nodes, b \in Addrs : \A x \in View(m, b)' :
           x \in View(m, b) \/ (x \in Nodes /\ Announced(b, x))
    BY <1>10, ViewOfJoin DEF Subscribers, SubsAnnounced, AllAnnounced
  <2>2. UNCHANGED <<subs, events, critical>>
    BY <1>10 DEF JoinRead
  <2> QED  BY <1>2, <1>4, <1>6, <1>8, <2>1, <2>2 DEF AllAnnounced
<1>11. ASSUME NEW n \in Nodes,
              \/ JoinListen(n) \/ Kill(n)
              \/ \E a \in Addrs : AddSubEmplace(n, a) \/ NextThrows(n, a)
       PROVE  AllAnnounced'
  <2>1. UNCHANGED <<subs, events, critical, localEndpoints>>
    BY <1>11 DEF JoinListen, Kill, AddSubEmplace, NextThrows
  <2> QED  BY <1>2, <1>4, <1>7, <1>8, <2>1 DEF AllAnnounced, View, Held
<1>12. ASSUME NEW n \in Nodes, NEW a \in Addrs, AddSubPut(n, a)
       PROVE  AllAnnounced'
  <2>1. UNCHANGED <<critical, localEndpoints>> /\ Put(a, n)
        /\ adding' = [adding EXCEPT ![n] = @ \cup {a}]
    BY <1>12 DEF AddSubPut
  <2>2. Announced(a, n)'
    BY <2>1 DEF Announced, TypeOK
  <2>3. SubsAnnounced' /\ EventsAnnounced'
    BY <2>1, <2>2, PublishAnnounced
  <2> QED  BY <1>7, <1>8, <2>1, <2>3 DEF AllAnnounced, View, Held
<1>13. ASSUME NEW s \in Nodes, NEW a \in Addrs, Removed(a, s)
       PROVE  AllAnnounced'
  <2>1. UNCHANGED <<critical, localEndpoints>> /\ <<a, s>> \in subs
        /\ subs' = subs \ {<<a, s>>} /\ Publish(a, [kind |-> "removed", server |-> s])
    BY <1>13 DEF Removed
  <2>2. Announced(a, s)'
    BY <1>1, <2>1 DEF AllAnnounced, SubsAnnounced
  <2>3. SubsAnnounced' /\ EventsAnnounced'
    BY <2>1, <2>2, PublishAnnounced
  <2> QED  BY <1>7, <1>8, <2>1, <2>3 DEF AllAnnounced, View, Held
<1>14. ASSUME NEW n \in Nodes, NEW b \in Addrs, EntryRemovedPut(n, b)
       PROVE  AllAnnounced'
  <2>1. UNCHANGED <<localEndpoints, localSubs>> /\ Put(b, n) /\ b \in critical[n].todo
        /\ InCritical(n, "reput") /\ critical' = [critical EXCEPT ![n].todo = @ \ {b}]
    BY <1>14 DEF EntryRemovedPut
  <2>2. Announced(b, n)'
    BY <2>1 DEF AllAnnounced, TodoAnnounced, InCritical, Announced
  <2>3. SubsAnnounced' /\ EventsAnnounced'
    BY <2>1, <2>2, PublishAnnounced
  <2>4. critical[n] \in [op : {"reput"}, address : Addrs, todo : SUBSET Addrs]
    BY <2>1 DEF InCritical, Section, TypeOK
  <2>5. /\ critical'[n].op = "reput" /\ critical'[n].todo = critical[n].todo \ {b}
        /\ \A m \in Nodes \ {n} : critical'[m] = critical[m]
    BY <2>1, <2>4 DEF TypeOK
  <2>6. TodoAnnounced'
    BY <2>1, <2>5 DEF AllAnnounced, TodoAnnounced, InCritical
  <2>7. \A m \in Nodes, c \in Addrs : View(m, c)' = View(m, c)
    BY <2>1, <2>5, ViewSame DEF InCritical
  <2> QED  BY <1>7, <2>3, <2>6, <2>7 DEF AllAnnounced
<1>15. ASSUME NEW n \in Nodes, NEW a \in Addrs, EntryAdded(n, a)
       PROVE  AllAnnounced'
  <2>1. UNCHANGED <<subs, critical>> /\ Handled(n, a) /\ events[n][a] # <<>>
    BY <1>15 DEF EntryAdded, Handling
  <2>2. 1 \in DOMAIN events[n][a] /\ Head(events[n][a]) = events[n][a][1]
    BY <2>1, FirstEvent
  <2>3. Head(events[n][a]).server \in Nodes /\ Announced(a, Head(events[n][a]).server)
    <3>1. events[n][a] \in Seq(Event)
      BY DEF TypeOK
    <3>2. events[n][a][1].server \in Nodes
      BY <2>2, <3>1, EventServer
    <3> QED  BY <2>2, <3>2 DEF AllAnnounced, EventsAnnounced
  <2>4. \A m \in Nodes, b \in Addrs : \A x \in View(m, b)' :
           x \in View(m, b) \/ (x \in Nodes /\ Announced(b, x))
    BY <1>15, <2>3, ViewOfAdded
  <2> QED  BY <1>2, <1>5, <1>6, <1>8, <2>1, <2>4 DEF AllAnnounced
<1>16. ASSUME NEW n \in Nodes, NEW a \in Addrs, EntryRemovedErase(n, a)
       PROVE  AllAnnounced'
  <2>1. UNCHANGED <<subs, events, localSubs>>
    BY <1>16 DEF EntryRemovedErase
  <2>2. critical'[n].op = "erased" /\ \A m \in Nodes \ {n} : critical'[m] = critical[m]
    BY <1>16 DEF EntryRemovedErase, TypeOK
  <2>3. TodoAnnounced'
    BY <2>1, <2>2 DEF AllAnnounced, TodoAnnounced
  <2>4. \A m \in Nodes, b \in Addrs : \A x \in View(m, b)' : x \in View(m, b)
    BY <1>16, ViewOfErase
  <2> QED  BY <1>2, <1>4, <1>6, <2>1, <2>3, <2>4 DEF AllAnnounced
<1>17. ASSUME NEW n \in Nodes, EntryRemovedGet(n)
       PROVE  AllAnnounced'
  <2>1. UNCHANGED <<subs, events, localSubs>>
    BY <1>17 DEF EntryRemovedGet
  <2>2. critical'[n].todo = localSubs[n] /\ \A m \in Nodes \ {n} : critical'[m] = critical[m]
    BY <1>17 DEF EntryRemovedGet, TypeOK
  <2>3. TodoAnnounced'
    BY <2>1, <2>2 DEF AllAnnounced, TodoAnnounced
  <2>4. \A m \in Nodes, b \in Addrs : \A x \in View(m, b)' :
           x \in View(m, b) \/ (x \in Nodes /\ Announced(b, x))
    BY <1>17, ViewOfGet DEF Subscribers, SubsAnnounced, AllAnnounced
  <2> QED  BY <1>2, <1>4, <1>6, <2>1, <2>3, <2>4 DEF AllAnnounced
<1>18. ASSUME NEW n \in Nodes, EntryRemovedDone(n)
       PROVE  AllAnnounced'
  <2>1. PICK a \in Addrs : a = critical[n].address
    BY <1>18, SectionTypes DEF EntryRemovedDone, InCritical
  <2>2. /\ UNCHANGED <<subs, localEndpoints, localSubs>> /\ Handled(n, a)
        /\ InCritical(n, "reput") /\ critical' = [critical EXCEPT ![n] = None]
    BY <1>18, <2>1 DEF EntryRemovedDone
  <2>3. events[n][a] # <<>>
    BY <2>1, <2>2 DEF EventsSound, InCritical
  <2>4. critical'[n] = None /\ \A m \in Nodes \ {n} : critical'[m] = critical[m]
    BY <2>2 DEF TypeOK
  <2>5. \A m \in Nodes, b \in Addrs : View(m, b)' = View(m, b)
    BY <2>2, <2>4, ViewSame DEF InCritical
  <2>6. TodoAnnounced'
    BY <2>2, <2>4 DEF AllAnnounced, TodoAnnounced
  <2> QED  BY <1>2, <1>5, <1>7, <2>2, <2>3, <2>5, <2>6 DEF AllAnnounced
<1>19. ASSUME NEW n \in Nodes, NEW a \in Addrs, NextTake(n, a)
       PROVE  AllAnnounced'
  <2>1. UNCHANGED <<subs, events, localSubs>>
    BY <1>19 DEF NextTake
  <2>2. critical'[n].op = "next" /\ \A m \in Nodes \ {n} : critical'[m] = critical[m]
    BY <1>19 DEF NextTake, TypeOK
  <2>3. TodoAnnounced'
    BY <2>1, <2>2 DEF AllAnnounced, TodoAnnounced
  <2> QED  BY <1>2, <1>4, <1>7, <1>19, <2>1, <2>3, ViewOfTake DEF AllAnnounced
<1>20. ASSUME NEW n \in Nodes, NextPutBack(n)
       PROVE  AllAnnounced'
  <2>1. UNCHANGED <<subs, events, localSubs>>
    BY <1>20 DEF NextPutBack
  <2>2. critical'[n] = None /\ \A m \in Nodes \ {n} : critical'[m] = critical[m]
    BY <1>20 DEF NextPutBack, TypeOK
  <2>3. TodoAnnounced'
    BY <2>1, <2>2 DEF AllAnnounced, TodoAnnounced
  <2>4. \A m \in Nodes, b \in Addrs : \A x \in View(m, b)' : x \in View(m, b)
    BY <1>20, ViewOfPutBack
  <2> QED  BY <1>2, <1>4, <1>6, <2>1, <2>3, <2>4 DEF AllAnnounced
<1> QED  BY <1>9, <1>10, <1>11, <1>12, <1>13, <1>14, <1>15, <1>16, <1>17, <1>18, <1>19, <1>20
         DEF Next, EventStep, CriticalStep

\* Every server in the shared map, in an event on its way, in a node's queues or
\* about to be put back has called addSub for the address.
THEOREM OnlyAnnouncedServers == Spec => []AllAnnounced
<1>1. Init => AllAnnounced
  <2>1. Init => /\ subs = {} /\ critical = [n \in Nodes |-> None]
                /\ events = [n \in Nodes |-> [a \in Addrs |-> <<>>]]
                /\ localEndpoints = [n \in Nodes |-> [a \in Addrs |-> <<>>]]
    BY DEF Init
  <2>2. Init => SubsAnnounced /\ EventsAnnounced /\ TodoAnnounced
    BY <2>1 DEF SubsAnnounced, EventsAnnounced, TodoAnnounced
  <2>3. Init => \A n \in Nodes, a \in Addrs : View(n, a) = {}
    BY <2>1 DEF View, Held, Range
  <2> QED  BY <2>2, <2>3 DEF AllAnnounced, OnlyRegistered
<1>2. TypeOK /\ TypeOK' /\ EventsSound /\ AllAnnounced /\ [Next]_vars => AllAnnounced'
  BY AllAnnouncedPreserved
<1> QED  BY <1>1, <1>2, ClusterTypeCorrect, PTL DEF Spec

\* next() may only hand out servers whose consumer() was called for the address,
\* whatever snapshots, events, re-puts and moved queues come in between.
THEOREM NextReturnsRegistered == Spec => []OnlyRegistered
<1>1. AllAnnounced => OnlyRegistered
  BY DEF AllAnnounced
<1> QED  BY <1>1, OnlyAnnouncedServers, PTL

-----------------------------------------------------------------------------
(* The cluster manager implements the directory.                           *)

\* addSub's put is Advertise, the end of next() is HandOut, no other step shows.
THEOREM ClusterImplementsDirectory == Spec => ImplementsDirectory
<1> DEFINE adv == {p \in Addrs \X Nodes : p[1] \in adding[p[2]] \cup localSubs[p[2]]}
<1>1. Init => D!Init
  BY DEF Init, D!Init
<1>2. TypeOK /\ EventsSound /\ AllAnnounced /\ [Next]_vars => [D!Next]_(D!vars)
  <2> SUFFICES ASSUME TypeOK, EventsSound, AllAnnounced, [Next]_vars
               PROVE  [D!Next]_(D!vars)
    OBVIOUS
  <2>1. ASSUME UNCHANGED <<adding, localSubs, given>>
        PROVE  UNCHANGED D!vars
    BY <2>1 DEF D!vars
  <2>2. ASSUME NEW n \in Nodes, NEW a \in Addrs, AddSubPut(n, a)
        PROVE  D!Next
    <3>1. /\ <<a, n>> \in Offers /\ given' = given /\ localSubs' = localSubs
          /\ adding' = [adding EXCEPT ![n] = @ \cup {a}]
      BY <2>2 DEF AddSubPut
    <3>2. adv' = adv \cup {<<a, n>>}
      BY <3>1 DEF TypeOK
    <3> QED  BY <3>1, <3>2 DEF D!Next, D!Advertise
  <2>3. ASSUME NEW n \in Nodes, NEW a \in Addrs, AddSubEmplace(n, a)
        PROVE  UNCHANGED D!vars
    <3>1. /\ a \in adding[n] /\ given' = given /\ adding' = [adding EXCEPT ![n] = @ \ {a}]
          /\ localSubs' = [localSubs EXCEPT ![n] = @ \cup {a}]
      BY <2>3 DEF AddSubEmplace
    <3>2. \A m \in Nodes : adding'[m] \cup localSubs'[m] = adding[m] \cup localSubs[m]
      BY <3>1 DEF TypeOK
    <3>3. adv' = adv
      BY <3>2
    <3> QED  BY <3>1, <3>3 DEF D!vars
  <2>4. ASSUME NEW n \in Nodes, NextPutBack(n)
        PROVE  D!Next
    <3>1. PICK a \in Addrs, q \in Seq(Nodes) :
             /\ a = critical[n].address /\ q = critical[n].queue /\ q # <<>>
             /\ critical[n] # None /\ critical[n].op = "next"
      BY <2>4, SectionTypes DEF NextPutBack, InCritical
    <3>2. given' = given \cup {<<a, Head(q)>>} /\ UNCHANGED <<adding, localSubs>>
      BY <2>4, <3>1 DEF NextPutBack
    <3>3. Head(q) \in Nodes /\ Head(q) \in Range(q)
      BY <3>1, RangeRotated, HeadTailProperties
    <3>4. Head(q) \in View(n, a)
      BY <3>1, <3>3 DEF View, Held
    <3>5. Announced(a, Head(q))
      BY <3>4 DEF AllAnnounced, OnlyRegistered
    <3>6. <<a, Head(q)>> \in adv
      BY <3>3, <3>5 DEF Announced
    <3> QED  BY <3>2, <3>6 DEF D!Next, D!HandOut
  <2> QED  BY <2>1, <2>2, <2>3, <2>4
           DEF Next, EventStep, CriticalStep, vars, JoinRead, JoinListen, Kill, EntryRemovedGet,
               EntryRemovedDone, EntryRemovedPut, EntryAdded, EntryRemovedErase, NextTake,
               NextThrows, Removed
<1> QED  BY <1>1, <1>2, ClusterTypeCorrect, OnlyAnnouncedServers, PTL
         DEF Spec, ImplementsDirectory, D!Spec

-----------------------------------------------------------------------------
(* A node knows the shared map, or is going to.                            *)

\* A change of the map leaves AddedSound true: an added server is in the map, and
\* behind every added event of a removed one comes the removal.
LEMMA PublishAddedSound ==
  ASSUME TypeOK, AddedSound, UNCHANGED phase, NEW a \in Addrs, NEW s \in Nodes,
         \/ Put(a, s)
         \/ subs' = subs \ {<<a, s>>} /\ Publish(a, [kind |-> "removed", server |-> s])
  PROVE  AddedSound'
<1> SUFFICES ASSUME NEW n \in Nodes, NEW b \in Addrs, phase[n] = "listening",
                    NEW k \in DOMAIN events'[n][b], events'[n][b][k].kind = "added"
             PROVE  \/ <<b, events'[n][b][k].server>> \in subs'
                    \/ \E j \in DOMAIN events'[n][b] : j > k /\ events'[n][b][j].kind = "removed"
  BY DEF AddedSound
<1>1. CASE k \in DOMAIN events[n][b] /\ events'[n][b][k] = events[n][b][k]
           /\ (\A j \in DOMAIN events[n][b] :
                 j \in DOMAIN events'[n][b] /\ events'[n][b][j] = events[n][b][j])
           /\ (b # a \/ subs \subseteq subs')
  <2>1. \/ <<b, events[n][b][k].server>> \in subs
        \/ \E j \in DOMAIN events[n][b] : j > k /\ events[n][b][j].kind = "removed"
    BY <1>1 DEF AddedSound
  <2>2. <<b, events[n][b][k].server>> \in subs => <<b, events[n][b][k].server>> \in subs'
    BY <1>1 DEF Put
  <2> QED  BY <1>1, <2>1, <2>2
<1>2. CASE Put(a, s)
  <2>1. CASE UNCHANGED events
    BY <1>1, <1>2, <2>1 DEF Put
  <2>2. CASE Publish(a, [kind |-> "added", server |-> s])
    <3> DEFINE e == [kind |-> "added", server |-> s]
    <3>1. e \in Event
      BY DEF Event
    <3>2. CASE k \in DOMAIN events[n][b]
      BY <1>1, <1>2, <2>2, <3>1, <3>2, Published DEF Put
    <3>3. CASE k \notin DOMAIN events[n][b]
      <4>1. b = a /\ events'[n][b][k] = e
        BY <2>2, <3>1, <3>3, Published
      <4> QED  BY <1>2, <4>1 DEF Put
    <3> QED  BY <3>2, <3>3
  <2> QED  BY <1>2, <2>1, <2>2 DEF Put
<1>3. CASE subs' = subs \ {<<a, s>>} /\ Publish(a, [kind |-> "removed", server |-> s])
  <2> DEFINE e == [kind |-> "removed", server |-> s]
  <2>1. e \in Event
    BY DEF Event
  <2>2. CASE b # a
    BY <1>1, <1>3, <2>1, <2>2, Published
  <2>3. CASE b = a
    <3>1. /\ DOMAIN events'[n][b] = 1 .. Len(events[n][b]) + 1 /\ Len(events[n][b]) \in Nat
          /\ events'[n][b][Len(events[n][b]) + 1] = e
      BY <1>3, <2>1, <2>3, Published
    <3>2. k # Len(events[n][b]) + 1
      BY <3>1
    <3> QED  BY <3>1, <3>2
  <2> QED  BY <2>2, <2>3
<1> QED  BY <1>2, <1>3

LEMMA HandledAddedSound ==
  ASSUME TypeOK, AddedSound, UNCHANGED <<phase, subs>>,
         NEW n \in Nodes, NEW a \in Addrs, events[n][a] # <<>>, Handled(n, a)
  PROVE  AddedSound'
<1> SUFFICES ASSUME NEW m \in Nodes, NEW b \in Addrs, phase[m] = "listening",
                    NEW k \in DOMAIN events'[m][b], events'[m][b][k].kind = "added"
             PROVE  \/ <<b, events'[m][b][k].server>> \in subs
                    \/ \E j \in DOMAIN events'[m][b] : j > k /\ events'[m][b][j].kind = "removed"
  BY DEF AddedSound
<1>1. CASE m # n \/ b # a
  <2>1. events'[m][b] = events[m][b]
    BY <1>1, EventHandled
  <2> QED  BY <2>1 DEF AddedSound
<1>2. CASE m = n /\ b = a
  <2>1. /\ DOMAIN events[n][a] = 1 .. Len(events[n][a]) /\ Len(events[n][a]) \in Nat \ {0}
        /\ DOMAIN events'[n][a] = 1 .. Len(events[n][a]) - 1
        /\ \A i \in DOMAIN events'[n][a] : events'[n][a][i] = events[n][a][i + 1]
    BY EventHandled
  <2>2. k + 1 \in DOMAIN events[n][a] /\ events[n][a][k + 1].kind = "added"
        /\ events'[n][a][k] = events[n][a][k + 1]
    BY <1>2, <2>1
  <2>3. CASE <<a, events[n][a][k + 1].server>> \in subs
    BY <1>2, <2>2, <2>3
  <2>4. ASSUME NEW j \in DOMAIN events[n][a], j > k + 1, events[n][a][j].kind = "removed"
        PROVE  j - 1 \in DOMAIN events'[n][a] /\ j - 1 > k /\ events'[n][a][j - 1].kind = "removed"
    <3>1. j - 1 \in DOMAIN events'[n][a] /\ j - 1 > k /\ (j - 1) + 1 = j
      BY <1>2, <2>1, <2>4
    <3>2. events'[n][a][j - 1] = events[n][a][(j - 1) + 1]
      BY <2>1, <3>1
    <3> QED  BY <2>4, <3>1, <3>2
  <2> QED  BY <1>2, <2>2, <2>3, <2>4 DEF AddedSound
<1> QED  BY <1>1, <1>2

LEMMA AddedSoundPreserved ==
  TypeOK /\ EventsSound /\ AddedSound /\ [Next]_vars => AddedSound'
<1> SUFFICES ASSUME TypeOK, EventsSound, AddedSound, [Next]_vars
             PROVE  AddedSound'
  OBVIOUS
<1>1. ASSUME UNCHANGED <<subs, events>>,
             \A n \in Nodes : phase'[n] = "listening" => phase[n] \in {"read", "listening"}
      PROVE  AddedSound'
  <2>1. \A n \in Nodes, a \in Addrs : phase[n] = "read" => DOMAIN events[n][a] = {}
    BY FirstEvent DEF EventsSound
  <2> QED  BY <1>1, <2>1 DEF AddedSound
<1>2. ASSUME UNCHANGED <<subs, events, phase>>
      PROVE  AddedSound'
  BY <1>2 DEF AddedSound
<1>3. ASSUME NEW n \in Nodes, \/ JoinRead(n) \/ JoinListen(n) \/ Kill(n)
                              \/ \E a \in Addrs : NextThrows(n, a)
      PROVE  AddedSound'
  <2>1. UNCHANGED <<subs, events>>
    BY <1>3 DEF JoinRead, JoinListen, Kill, NextThrows
  <2>2. \A m \in Nodes : phase'[m] = "listening" => phase[m] \in {"read", "listening"}
    BY <1>3 DEF JoinRead, JoinListen, Kill, NextThrows, TypeOK
  <2> QED  BY <1>1, <2>1, <2>2
<1>4. ASSUME NEW n \in Nodes, NEW a \in Addrs, AddSubPut(n, a) \/ EntryRemovedPut(n, a)
      PROVE  AddedSound'
  BY <1>4, PublishAddedSound DEF AddSubPut, EntryRemovedPut
<1>5. ASSUME NEW s \in Nodes, NEW a \in Addrs, Removed(a, s)
      PROVE  AddedSound'
  BY <1>5, PublishAddedSound DEF Removed
<1>6. ASSUME NEW n \in Nodes, NEW a \in Addrs, EntryAdded(n, a)
      PROVE  AddedSound'
  BY <1>6, HandledAddedSound DEF EntryAdded, Handling
<1>7. ASSUME NEW n \in Nodes, EntryRemovedDone(n)
      PROVE  AddedSound'
  <2>1. PICK a \in Addrs : a = critical[n].address
    BY <1>7, SectionTypes DEF EntryRemovedDone, InCritical
  <2>2. UNCHANGED <<phase, subs>> /\ Handled(n, a) /\ InCritical(n, "reput")
    BY <1>7, <2>1 DEF EntryRemovedDone
  <2>3. events[n][a] # <<>>
    BY <2>1, <2>2 DEF EventsSound, InCritical
  <2> QED  BY <2>2, <2>3, HandledAddedSound
<1> QED  BY <1>2, <1>3, <1>4, <1>5, <1>6, <1>7
         DEF Next, EventStep, CriticalStep, vars, AddSubEmplace, EntryRemovedErase,
             EntryRemovedGet, NextTake, NextPutBack

\* The servers of added events, after a change of the map ...
LEMMA ComingPublished ==
  ASSUME TypeOK, NEW a \in Addrs, NEW e \in Event, Publish(a, e), NEW n \in Nodes, NEW b \in Addrs
  PROVE  Coming(n, b)' = IF phase[n] = "listening" /\ b = a /\ e.kind = "added"
                         THEN Coming(n, b) \cup {e.server} ELSE Coming(n, b)
<1>1. CASE ~ (phase[n] = "listening" /\ b = a)
  <2>1. events'[n][b] = events[n][b]
    BY <1>1, Published
  <2> QED  BY <1>1, <2>1 DEF Coming
<1>2. CASE phase[n] = "listening" /\ b = a
  <2> DEFINE l == Len(events[n][b])
  <2>1. /\ DOMAIN events[n][b] = 1 .. l /\ l \in Nat /\ DOMAIN events'[n][b] = 1 .. l + 1
        /\ events'[n][b][l + 1] = e
        /\ \A k \in DOMAIN events[n][b] : events'[n][b][k] = events[n][b][k]
    BY <1>2, Published
  <2>2. 1 .. l + 1 = (1 .. l) \cup {l + 1}
    BY <2>1
  <2>3. \A x : x \in Coming(n, b)' <=> x \in Coming(n, b) \/ (e.kind = "added" /\ x = e.server)
    BY <2>1, <2>2 DEF Coming
  <2> QED  BY <1>2, <2>3
<1> QED  BY <1>1, <1>2

\* ... and after the first event is handled.
LEMMA ComingHandled ==
  ASSUME TypeOK, NEW n \in Nodes, NEW a \in Addrs, events[n][a] # <<>>, Handled(n, a)
  PROVE  Coming(n, a) = IF Head(events[n][a]).kind = "added"
                        THEN Coming(n, a)' \cup {Head(events[n][a]).server} ELSE Coming(n, a)'
<1> DEFINE l == Len(events[n][a])
<1>1. /\ DOMAIN events[n][a] = 1 .. l /\ l \in Nat \ {0}
      /\ DOMAIN events'[n][a] = 1 .. l - 1
      /\ \A k \in DOMAIN events'[n][a] : events'[n][a][k] = events[n][a][k + 1]
      /\ Head(events[n][a]) = events[n][a][1]
  BY EventHandled
<1>2. \A k \in 1 .. l : k = 1 \/ (k - 1 \in 1 .. l - 1 /\ (k - 1) + 1 = k)
  BY <1>1
<1>3. \A k \in 1 .. l - 1 : k + 1 \in 1 .. l
  BY <1>1
<1>4. ASSUME NEW x \in Coming(n, a)
      PROVE  x \in Coming(n, a)' \/ (Head(events[n][a]).kind = "added" /\ x = Head(events[n][a]).server)
  <2>1. PICK k \in 1 .. l : events[n][a][k].kind = "added" /\ x = events[n][a][k].server
    BY <1>1 DEF Coming
  <2>2. CASE k = 1
    BY <1>1, <2>1, <2>2
  <2>3. CASE k # 1
    <3>1. k - 1 \in DOMAIN events'[n][a] /\ events'[n][a][k - 1] = events[n][a][k]
      BY <1>1, <1>2, <2>3
    <3> QED  BY <2>1, <3>1 DEF Coming
  <2> QED  BY <2>2, <2>3
<1>5. ASSUME NEW x \in Coming(n, a)'
      PROVE  x \in Coming(n, a)
  <2>1. PICK k \in 1 .. l - 1 : events'[n][a][k].kind = "added" /\ x = events'[n][a][k].server
    BY <1>1 DEF Coming
  <2>2. k + 1 \in DOMAIN events[n][a] /\ events'[n][a][k] = events[n][a][k + 1]
    BY <1>1, <1>3
  <2> QED  BY <2>1, <2>2 DEF Coming
<1>6. Head(events[n][a]).kind = "added" => Head(events[n][a]).server \in Coming(n, a)
  <2>1. 1 \in DOMAIN events[n][a]
    BY <1>1
  <2> QED  BY <1>1, <2>1 DEF Coming
<1> QED  BY <1>4, <1>5, <1>6

\* Steps that leave the events, the servers and the subscribers of a key alone.
LEMMA TracksSame ==
  ASSUME NEW n \in Nodes, NEW a \in Addrs, Tracks(n, a), events'[n][a] = events[n][a],
         View(n, a)' = View(n, a), Subscribers(a)' = Subscribers(a),
         \/ SameSection(critical[n], critical'[n]) \/ critical'[n] = critical[n]
         \/ critical'[n] = None \/ critical'[n].op # "reput" \/ critical'[n].address # a
  PROVE  Tracks(n, a)'
<1>1. Coming(n, a)' = Coming(n, a)
  BY DEF Coming
<1>2. \A k \in DOMAIN events[n][a] : Unread(n, a, k) => Unread(n, a, k)'
  BY DEF Unread, SameSection
<1> QED  BY <1>1, <1>2 DEF Tracks

\* A change of the shared map is missed, on its way, or makes the node read again.
LEMMA PublishTracks ==
  ASSUME TypeOK, EventsSound, ViewSound, UNCHANGED <<phase, localEndpoints>>,
         \A n \in Nodes : critical'[n] = critical[n] \/ SameSection(critical[n], critical'[n]),
         NEW a \in Addrs, NEW s \in Nodes,
         \/ Put(a, s)
         \/ subs' = subs \ {<<a, s>>} /\ Publish(a, [kind |-> "removed", server |-> s])
  PROVE  ViewSound'
<1> SUFFICES ASSUME NEW n \in Nodes, NEW b \in Addrs, phase[n] \in {"read", "listening"},
                    b \notin missed'[n]
             PROVE  Tracks(n, b)'
  BY DEF ViewSound
<1>1. View(n, b)' = View(n, b)
  BY DEF View, Held, SameSection
<1>2. CASE UNCHANGED <<events, missed>> /\ Subscribers(b)' = Subscribers(b)
  BY <1>1, <1>2, TracksSame DEF ViewSound
<1>3. ASSUME NEW e \in Event, Publish(a, e), b # a, Subscribers(b)' = Subscribers(b)
      PROVE  Tracks(n, b)'
  <2>1. events'[n][b] = events[n][b]
    BY <1>3, Published
  <2>2. b \notin missed[n]
    BY <1>3 DEF Publish
  <2> QED  BY <1>1, <1>3, <2>1, <2>2, TracksSame DEF ViewSound
<1>4. ASSUME NEW e \in Event, Publish(a, e), b = a
      PROVE  phase[n] = "listening" /\ b \notin missed[n]
  BY <1>4 DEF Publish
<1>5. CASE Put(a, s) /\ <<a, s>> \in subs
  <2>1. UNCHANGED <<events, missed, subs>>
    BY <1>5 DEF Put
  <2> QED  BY <1>2, <2>1 DEF Subscribers
<1>6. CASE Put(a, s) /\ <<a, s>> \notin subs
  <2> DEFINE e == [kind |-> "added", server |-> s]
  <2>1. e \in Event /\ Publish(a, e) /\ subs' = subs \cup {<<a, s>>}
    BY <1>6 DEF Put, Event
  <2>2. Subscribers(b)' = IF b = a THEN Subscribers(b) \cup {s} ELSE Subscribers(b)
    BY <2>1 DEF Subscribers
  <2>3. CASE b # a
    BY <1>3, <2>1, <2>2, <2>3
  <2>4. CASE b = a
    <3>1. phase[n] = "listening" /\ Tracks(n, b)
      BY <1>4, <2>1, <2>4 DEF ViewSound
    <3>2. CASE View(n, b) \cup Coming(n, b) = Subscribers(b)
      <4>1. Coming(n, b)' = Coming(n, b) \cup {s}
        <5>1. \A f \in Event : Publish(a, f) /\ f.kind = "added" =>
                Coming(n, b)' = Coming(n, b) \cup {f.server}
          BY <2>4, <3>1, ComingPublished
        <5>2. e.kind = "added" /\ e.server = s
          OBVIOUS
        <5> QED  BY <2>1, <5>1, <5>2
      <4> QED  BY <1>1, <2>2, <2>4, <3>2, <4>1 DEF Tracks
    <3>3. ASSUME NEW k \in DOMAIN events[n][b], Unread(n, b, k)
          PROVE  k \in DOMAIN events'[n][b] /\ Unread(n, b, k)'
      <4>1. k \in DOMAIN events'[n][b] /\ events'[n][b][k] = events[n][b][k]
        BY <2>1, Published
      <4> QED  BY <3>3, <4>1 DEF Unread, SameSection
    <3> QED  BY <3>1, <3>2, <3>3 DEF Tracks
  <2> QED  BY <2>3, <2>4
<1>7. CASE subs' = subs \ {<<a, s>>} /\ Publish(a, [kind |-> "removed", server |-> s])
  <2> DEFINE e == [kind |-> "removed", server |-> s]
  <2>1. e \in Event /\ Publish(a, e)
    BY <1>7 DEF Event
  <2>2. CASE b # a
    <3>1. Subscribers(b)' = Subscribers(b)
      BY <1>7, <2>2 DEF Subscribers
    <3> QED  BY <1>3, <2>1, <2>2, <3>1
  <2>3. CASE b = a
    <3> DEFINE k == Len(events[n][b]) + 1
    <3>1. phase[n] = "listening"
      BY <1>4, <2>1, <2>3
    <3>2. /\ DOMAIN events[n][b] = 1 .. Len(events[n][b]) /\ Len(events[n][b]) \in Nat
          /\ DOMAIN events'[n][b] = 1 .. k /\ events'[n][b][k] = e
      BY <2>1, <2>3, <3>1, Published
    <3>3. k \in DOMAIN events'[n][b] /\ events'[n][b][k].kind = "removed"
      BY <3>2
    <3>4. ASSUME k = 1, critical'[n] # None, critical'[n].op = "reput", critical'[n].address = b
          PROVE  FALSE
      <4>1. critical[n] # None /\ critical[n].op = "reput" /\ critical[n].address = b
        BY <3>4 DEF SameSection
      <4>2. 1 \in DOMAIN events[n][b]
        BY <4>1, FirstEvent DEF EventsSound
      <4> QED  BY <3>2, <3>4, <4>2
    <3>5. \E i \in DOMAIN events'[n][b] : Unread(n, b, i)'
      BY <3>3, <3>4 DEF Unread
    <3> QED  BY <3>5 DEF Tracks
  <2> QED  BY <2>2, <2>3
<1> QED  BY <1>5, <1>6, <1>7

LEMMA ViewSoundPreserved ==
  TypeOK /\ TypeOK' /\ Converging /\ [Next]_vars => ViewSound'
<1> SUFFICES ASSUME TypeOK, TypeOK', EventsSound, AddedSound, ViewSound, [Next]_vars
             PROVE  ViewSound'
  BY DEF Converging
<1>1. CASE UNCHANGED vars
  BY <1>1 DEF vars, ViewSound, Tracks, Unread, Coming, View, Held, Subscribers
<1>2. ASSUME NEW n \in Nodes, JoinRead(n)
      PROVE  ViewSound'
  <2> SUFFICES ASSUME NEW m \in Nodes, NEW b \in Addrs, phase'[m] \in {"read", "listening"},
                      b \notin missed'[m]
               PROVE  Tracks(m, b)'
    BY DEF ViewSound
  <2>1. UNCHANGED <<subs, events, critical, missed>> /\ phase[n] = "new"
    BY <1>2 DEF JoinRead
  <2>2. View(m, b)' = IF m = n THEN Subscribers(b) ELSE View(m, b)
    BY <1>2, ViewOfJoin
  <2>3. Subscribers(b)' = Subscribers(b)
    BY <2>1 DEF Subscribers
  <2>4. CASE m = n
    <3>1. DOMAIN events[n][b] = {}
      BY <2>1, FirstEvent DEF EventsSound
    <3>2. Coming(n, b)' = {}
      BY <2>1, <3>1 DEF Coming
    <3> QED  BY <2>2, <2>3, <2>4, <3>2 DEF Tracks
  <2>5. CASE m # n
    <3>1. phase[m] \in {"read", "listening"}
      BY <1>2, <2>5 DEF JoinRead, TypeOK
    <3>2. Tracks(m, b)
      BY <2>1, <3>1 DEF ViewSound
    <3> QED  BY <2>1, <2>2, <2>3, <2>5, <3>2, TracksSame
  <2> QED  BY <2>4, <2>5
<1>3. ASSUME NEW n \in Nodes,
             \/ JoinListen(n) \/ Kill(n)
             \/ \E a \in Addrs : AddSubEmplace(n, a) \/ NextThrows(n, a)
      PROVE  ViewSound'
  <2>1. UNCHANGED <<subs, events, critical, missed, localEndpoints>>
    BY <1>3 DEF JoinListen, Kill, AddSubEmplace, NextThrows
  <2>2. \A m \in Nodes : phase'[m] \in {"read", "listening"} => phase[m] \in {"read", "listening"}
    BY <1>3 DEF JoinListen, Kill, AddSubEmplace, NextThrows, TypeOK
  <2>3. \A m \in Nodes, b \in Addrs : Tracks(m, b) => Tracks(m, b)'
    BY <2>1 DEF Tracks, Unread, Coming, View, Held, Subscribers
  <2> QED  BY <2>1, <2>2, <2>3 DEF ViewSound
<1>4. ASSUME NEW n \in Nodes, NEW a \in Addrs, AddSubPut(n, a)
      PROVE  ViewSound'
  BY <1>4, PublishTracks DEF AddSubPut
<1>5. ASSUME NEW s \in Nodes, NEW a \in Addrs, Removed(a, s)
      PROVE  ViewSound'
  BY <1>5, PublishTracks DEF Removed
<1>6. ASSUME NEW n \in Nodes, NEW b \in Addrs, EntryRemovedPut(n, b)
      PROVE  ViewSound'
  <2>1. UNCHANGED <<phase, localEndpoints>> /\ Put(b, n)
        /\ InCritical(n, "reput") /\ critical' = [critical EXCEPT ![n].todo = @ \ {b}]
    BY <1>6 DEF EntryRemovedPut
  <2>2. critical[n] \in [op : {"reput"}, address : Addrs, todo : SUBSET Addrs]
    BY <2>1 DEF InCritical, Section, TypeOK
  <2>3. critical'[n] \in Section
    BY <2>1, <2>2 DEF TypeOK, Section
  <2>4. \A m \in Nodes : critical'[m] = critical[m] \/ SameSection(critical[m], critical'[m])
    BY <2>1, <2>2, <2>3, ClusterAssumption DEF InCritical, SameSection, TypeOK
  <2> QED  BY <2>1, <2>4, PublishTracks
<1>7. ASSUME NEW n \in Nodes, NEW a \in Addrs, EntryAdded(n, a)
      PROVE  ViewSound'
  <2> SUFFICES ASSUME NEW m \in Nodes, NEW b \in Addrs, Tracks(m, b)
               PROVE  Tracks(m, b)'
    BY <1>7 DEF ViewSound, EntryAdded
  <2>1. /\ UNCHANGED <<subs, critical>> /\ Handled(n, a)
        /\ events[n][a] # <<>> /\ Head(events[n][a]).kind = "added"
    BY <1>7 DEF EntryAdded, Handling
  <2>2. Subscribers(b)' = Subscribers(b)
    BY <2>1 DEF Subscribers
  <2>3. CASE m # n \/ b # a
    <3>1. View(m, b)' = View(m, b)
      BY <1>7, <2>3, ViewOfAdded
    <3>2. events'[m][b] = events[m][b]
      BY <2>1, <2>3, EventHandled
    <3> QED  BY <2>1, <2>2, <3>1, <3>2, TracksSame
  <2>4. CASE m = n /\ b = a
    <3>1. CASE View(n, a) \cup Coming(n, a) = Subscribers(a)
      <4>1. View(n, a)' = View(n, a) \cup {Head(events[n][a]).server}
        BY <1>7, ViewOfAdded
      <4>2. Coming(n, a) = Coming(n, a)' \cup {Head(events[n][a]).server}
        BY <2>1, ComingHandled
      <4>3. (View(n, a) \cup Coming(n, a))' = Subscribers(a)
        BY <3>1, <4>1, <4>2
      <4> QED  BY <2>2, <2>4, <4>3 DEF Tracks
    <3>2. ASSUME NEW k \in DOMAIN events[n][a], Unread(n, a, k)
          PROVE  k - 1 \in DOMAIN events'[n][a] /\ Unread(n, a, k - 1)'
      <4>1. /\ DOMAIN events[n][a] = 1 .. Len(events[n][a]) /\ Len(events[n][a]) \in Nat \ {0}
            /\ DOMAIN events'[n][a] = 1 .. Len(events[n][a]) - 1
            /\ \A i \in DOMAIN events'[n][a] : events'[n][a][i] = events[n][a][i + 1]
            /\ Head(events[n][a]) = events[n][a][1]
        BY <2>1, EventHandled
      <4>2. k # 1
        BY <2>1, <3>2, <4>1 DEF Unread
      <4>3. k - 1 \in DOMAIN events'[n][a] /\ (k - 1) + 1 = k
        BY <4>1, <4>2
      <4>4. events'[n][a][k - 1] = events[n][a][k]
        BY <4>1, <4>3
      <4>5. ~ (critical[n] # None /\ critical[n].op = "reput" /\ critical[n].address = a)
        BY <2>1 DEF EventsSound
      <4> QED  BY <2>1, <3>2, <4>3, <4>4, <4>5 DEF Unread
    <3> QED  BY <2>4, <3>1, <3>2 DEF Tracks
  <2> QED  BY <2>3, <2>4
<1>8. ASSUME NEW n \in Nodes, NEW a \in Addrs, EntryRemovedErase(n, a)
      PROVE  ViewSound'
  <2> SUFFICES ASSUME NEW m \in Nodes, NEW b \in Addrs, Tracks(m, b)
               PROVE  Tracks(m, b)'
    BY <1>8 DEF ViewSound, EntryRemovedErase
  <2>1. /\ UNCHANGED <<subs, events>>
        /\ events[n][a] # <<>> /\ Head(events[n][a]).kind = "removed"
    BY <1>8 DEF EntryRemovedErase, Handling
  <2>2. critical'[n].op = "erased" /\ \A i \in Nodes \ {n} : critical'[i] = critical[i]
    BY <1>8 DEF EntryRemovedErase, TypeOK
  <2>3. CASE m # n \/ b # a
    <3>1. View(m, b)' = View(m, b)
      BY <1>8, <2>3, ViewOfErase
    <3> QED  BY <2>1, <2>2, <3>1, TracksSame DEF Subscribers
  <2>4. CASE m = n /\ b = a
    <3>1. 1 \in DOMAIN events'[n][a] /\ events'[n][a][1].kind = "removed"
      BY <2>1, FirstEvent
    <3>2. Unread(n, a, 1)'
      BY <2>2, <3>1 DEF Unread
    <3> QED  BY <2>4, <3>1, <3>2 DEF Tracks
  <2> QED  BY <2>3, <2>4
<1>9. ASSUME NEW n \in Nodes, EntryRemovedGet(n)
      PROVE  ViewSound'
  <2>1. PICK a \in Addrs : a = critical[n].address
    BY <1>9, SectionTypes DEF EntryRemovedGet, InCritical
  <2>2. UNCHANGED <<subs, events, phase>> /\ InCritical(n, "erased")
    BY <1>9 DEF EntryRemovedGet
  <2>3. /\ critical'[n] = [op |-> "reput", address |-> a, todo |-> localSubs[n]]
        /\ \A m \in Nodes \ {n} : critical'[m] = critical[m]
        /\ \A m \in Nodes, b \in Addrs : b \in missed[m] => b \in missed'[m] \/ (m = n /\ b = a)
    BY <1>9, <2>1 DEF EntryRemovedGet, TypeOK
  <2>4. \A m \in Nodes, b \in Addrs :
          View(m, b)' = IF m = n /\ b = a THEN Subscribers(b) ELSE View(m, b)
    BY <1>9, <2>1, ViewOfGet
  <2>5. \A b \in Addrs : Subscribers(b)' = Subscribers(b)
    BY <2>2 DEF Subscribers
  <2>6. ASSUME NEW m \in Nodes, NEW b \in Addrs, m # n \/ b # a, Tracks(m, b)
        PROVE  Tracks(m, b)'
    BY <2>2, <2>3, <2>4, <2>5, <2>6, TracksSame
  <2>7. Tracks(n, a)'
    <3>1. CASE \E j \in DOMAIN events[n][a] : j > 1 /\ events[n][a][j].kind = "removed"
      BY <2>2, <3>1 DEF Tracks, Unread
    <3>2. CASE ~ \E j \in DOMAIN events[n][a] : j > 1 /\ events[n][a][j].kind = "removed"
      <4>1. DOMAIN events[n][a] = 1 .. Len(events[n][a]) /\ Len(events[n][a]) \in Nat
        BY LenProperties DEF TypeOK
      <4>2. \A i, j \in DOMAIN events[n][a] : j > i => j > 1
        BY <4>1
      <4>3. \A k \in DOMAIN events[n][a] :
               events[n][a][k].kind = "added" => <<a, events[n][a][k].server>> \in subs
        BY <2>2, <3>2, <4>2 DEF AddedSound, InCritical
      <4>4. Coming(n, a)' \subseteq Subscribers(a)
        BY <2>2, <4>3 DEF Coming, Subscribers, TypeOK
      <4> QED  BY <2>4, <2>5, <4>4 DEF Tracks
    <3> QED  BY <3>1, <3>2
  <2> QED  BY <2>2, <2>3, <2>6, <2>7 DEF ViewSound
<1>10. ASSUME NEW n \in Nodes, EntryRemovedDone(n)
       PROVE  ViewSound'
  <2> SUFFICES ASSUME NEW m \in Nodes, NEW b \in Addrs, Tracks(m, b)
               PROVE  Tracks(m, b)'
    BY <1>10 DEF ViewSound, EntryRemovedDone
  <2>1. PICK a \in Addrs : a = critical[n].address
    BY <1>10, SectionTypes DEF EntryRemovedDone, InCritical
  <2>2. /\ UNCHANGED <<subs, localEndpoints>> /\ Handled(n, a) /\ InCritical(n, "reput")
        /\ critical'[n] = None /\ \A i \in Nodes \ {n} : critical'[i] = critical[i]
    BY <1>10, <2>1 DEF EntryRemovedDone, TypeOK
  <2>3. events[n][a] # <<>> /\ Head(events[n][a]).kind = "removed"
    BY <2>1, <2>2 DEF EventsSound, InCritical
  <2>4. View(m, b)' = View(m, b) /\ Subscribers(b)' = Subscribers(b)
    BY <2>2, ViewSame DEF InCritical, Subscribers
  <2>5. CASE m # n \/ b # a
    <3>1. events'[m][b] = events[m][b]
      BY <2>2, <2>3, <2>5, EventHandled
    <3> QED  BY <2>2, <2>4, <3>1, TracksSame
  <2>6. CASE m = n /\ b = a
    <3>1. Coming(n, a)' = Coming(n, a)
      BY <2>2, <2>3, ComingHandled
    <3>2. ASSUME NEW k \in DOMAIN events[n][a], Unread(n, a, k)
          PROVE  k - 1 \in DOMAIN events'[n][a] /\ Unread(n, a, k - 1)'
      <4>1. /\ DOMAIN events[n][a] = 1 .. Len(events[n][a]) /\ Len(events[n][a]) \in Nat \ {0}
            /\ DOMAIN events'[n][a] = 1 .. Len(events[n][a]) - 1
            /\ \A i \in DOMAIN events'[n][a] : events'[n][a][i] = events[n][a][i + 1]
        BY <2>2, <2>3, EventHandled
      <4>2. k # 1
        BY <2>1, <2>2, <3>2 DEF Unread, InCritical
      <4>3. k - 1 \in DOMAIN events'[n][a] /\ (k - 1) + 1 = k
        BY <4>1, <4>2
      <4>4. events'[n][a][k - 1] = events[n][a][k]
        BY <4>1, <4>3
      <4> QED  BY <2>2, <3>2, <4>3, <4>4 DEF Unread
    <3> QED  BY <2>4, <2>6, <3>1, <3>2 DEF Tracks
  <2> QED  BY <2>5, <2>6
<1>11. ASSUME NEW n \in Nodes, NEW a \in Addrs, NextTake(n, a)
       PROVE  ViewSound'
  <2>1. UNCHANGED <<subs, events, phase, missed>>
    BY <1>11 DEF NextTake
  <2>2. critical'[n].op = "next" /\ \A m \in Nodes \ {n} : critical'[m] = critical[m]
    BY <1>11 DEF NextTake, TypeOK
  <2>3. \A m \in Nodes, b \in Addrs : Tracks(m, b) => Tracks(m, b)'
    BY <1>11, <2>1, <2>2, ViewOfTake, TracksSame DEF Subscribers
  <2> QED  BY <2>1, <2>3 DEF ViewSound
<1>12. ASSUME NEW n \in Nodes, NextPutBack(n)
       PROVE  ViewSound'
  <2>1. UNCHANGED <<subs, events, phase>>
    BY <1>12 DEF NextPutBack
  <2>2. critical'[n] = None /\ \A m \in Nodes \ {n} : critical'[m] = critical[m]
    BY <1>12 DEF NextPutBack, TypeOK
  <2>3. \A m \in Nodes, b \in Addrs :
          b \notin missed'[m] => b \notin missed[m] /\ View(m, b)' = View(m, b)
    BY <1>12, ViewOfPutBack
  <2>4. ASSUME NEW m \in Nodes, NEW b \in Addrs, b \notin missed'[m], Tracks(m, b)
        PROVE  Tracks(m, b)'
    BY <2>1, <2>2, <2>3, <2>4, TracksSame DEF Subscribers
  <2> QED  BY <2>1, <2>3, <2>4 DEF ViewSound
<1> QED  BY <1>1, <1>2, <1>3, <1>4, <1>5, <1>6, <1>7, <1>8, <1>9, <1>10, <1>11, <1>12
         DEF Next, EventStep, CriticalStep

\* At every step a node that missed no change of a key knows the shared map, is
\* going to be told, or is going to read it again.
THEOREM NodesConverge == Spec => []Converging
<1>1. Init => Converging
  <2>1. Init => \A n \in Nodes : /\ phase[n] = "new" /\ critical[n] = None
                                 /\ \A a \in Addrs : events[n][a] = <<>>
    BY DEF Init
  <2> QED  BY <2>1 DEF Converging, EventsSound, AddedSound, ViewSound
<1>2. TypeOK /\ TypeOK' /\ Converging /\ [Next]_vars => Converging'
  <2>1. TypeOK /\ TypeOK' /\ Converging /\ [Next]_vars => EventsSound'
    BY EventsSoundPreserved DEF Converging
  <2>2. TypeOK /\ TypeOK' /\ Converging /\ [Next]_vars => AddedSound'
    BY AddedSoundPreserved DEF Converging
  <2>3. TypeOK /\ TypeOK' /\ Converging /\ [Next]_vars => ViewSound'
    BY ViewSoundPreserved
  <2> QED  BY <2>1, <2>2, <2>3 DEF Converging
<1> QED  BY <1>1, <1>2, ClusterTypeCorrect, PTL DEF Spec

\* A node that has handled every event of a key, and missed no change of it, hands
\* out exactly the servers in the shared map.
THEOREM QuietNodesKnowTheMap == Spec => []Converged
<1>1. TypeOK /\ Converging => Converged
  <2> SUFFICES ASSUME TypeOK, Converging, NEW n \in Nodes, NEW a \in Addrs,
                      phase[n] = "listening", events[n][a] = <<>>, a \notin missed[n],
                      critical[n] # None => critical[n].address # a
               PROVE  Range(localEndpoints[n][a]) = Subscribers(a)
    BY DEF Converged
  <2>1. Tracks(n, a)
    BY DEF Converging, ViewSound
  <2>2. DOMAIN events[n][a] = {}
    BY FirstEvent
  <2>3. View(n, a) = Range(localEndpoints[n][a]) /\ Coming(n, a) = {}
    BY <2>2 DEF View, Held, Coming
  <2> QED  BY <2>1, <2>2, <2>3 DEF Tracks
<1> QED  BY <1>1, NodesConverge, ClusterTypeCorrect, PTL

=============================================================================
