------------------------- MODULE ApplicationProofs -------------------------
(***************************************************************************)
(* Theorems about the program of main.cpp, for any servers, clients and    *)
(* consumers: it uses the bus as the bus may be used, and so inherits what *)
(* StandaloneBusProofs shows, and its HTTP clients are answered once.      *)
(***************************************************************************)
EXTENDS Application, SequenceTheorems, TLAPS

-----------------------------------------------------------------------------
(* What the two changes of a loop's queue do to the functors in it.        *)

\* The functor of request() for r.
TaskOf(r) == [kind |-> "request", req |-> r]

\* Functors are tasks, and that of a request is no other's.
LEMMA TaskTypes ==
  /\ \A r \in Reqs : TaskOf(r) \in Task
  /\ \A a \in Addrs : [kind |-> "frame", address |-> a] \in Task
  /\ \A r \in Reqs : \A q : TaskOf(r) = TaskOf(q) => r = q
  /\ \A a \in Addrs, r \in Reqs : [kind |-> "frame", address |-> a] # TaskOf(r)
  /\ \A t \in Task : t.kind = "request" => t.req \in Reqs /\ t = TaskOf(t.req)
<1>1. \A a \in Addrs, r \in Reqs : [kind |-> "frame", address |-> a] # TaskOf(r)
  <2>1. SUFFICES ASSUME NEW a \in Addrs, NEW r \in Reqs,
                        [kind |-> "frame", address |-> a] = TaskOf(r)
                 PROVE  FALSE
    OBVIOUS
  <2>2. [kind |-> "frame", address |-> a].kind = TaskOf(r).kind
    BY <2>1
  <2> QED  BY <2>2 DEF TaskOf
<1>2. \A r \in Reqs : \A q : TaskOf(r) = TaskOf(q) => r = q
  <2>1. SUFFICES ASSUME NEW r \in Reqs, NEW q, TaskOf(r) = TaskOf(q)
                 PROVE  r = q
    OBVIOUS
  <2>2. TaskOf(r).req = TaskOf(q).req
    BY <2>1
  <2> QED  BY <2>2 DEF TaskOf
<1>3. \A t \in Task : t.kind = "request" => t.req \in Reqs /\ t = TaskOf(t.req)
  BY DEF Task, TaskOf
<1>4. /\ \A r \in Reqs : TaskOf(r) \in Task
      /\ \A a \in Addrs : [kind |-> "frame", address |-> a] \in Task
  BY DEF Task, TaskOf
<1> QED  BY <1>1, <1>2, <1>3, <1>4

\* Where a request waits, without its history.
LEMMA WaitingDef ==
  ASSUME TypeOK, NEW l \in AllLoops, NEW r
  PROVE  /\ Waiting(l, r) = {k \in 1 .. Len(queue[l]) : queue[l][k] = TaskOf(r)}
         /\ Len(queue[l]) \in Nat
<1>1. queue[l] \in Seq(Task)
  BY DEF TypeOK
<1>2. DOMAIN queue[l] = 1 .. Len(queue[l]) /\ Len(queue[l]) \in Nat
  BY <1>1
<1> QED  BY <1>2 DEF Waiting, TaskOf

\* QueueInLoop adds one functor, behind those that wait.
LEMMA QueueAppended ==
  ASSUME TypeOK, NEW l \in AllLoops, NEW t \in Task,
         queue' = [queue EXCEPT ![l] = Append(@, t)]
  PROVE  /\ queue' \in [AllLoops -> Seq(Task)]
         /\ \A r : \A m \in AllLoops : Waiting(m, r)' =
              IF m = l /\ t = TaskOf(r) THEN Waiting(m, r) \cup {Len(queue[l]) + 1}
                                        ELSE Waiting(m, r)
<1>1. queue \in [AllLoops -> Seq(Task)] /\ queue[l] \in Seq(Task)
  BY DEF TypeOK
<1>2. /\ Append(queue[l], t) \in Seq(Task)
      /\ Len(Append(queue[l], t)) = Len(queue[l]) + 1
      /\ \A i \in 1 .. Len(queue[l]) : Append(queue[l], t)[i] = queue[l][i]
      /\ Append(queue[l], t)[Len(queue[l]) + 1] = t
  BY <1>1, AppendProperties
<1>3. queue' \in [AllLoops -> Seq(Task)]
  BY <1>1, <1>2
<1>4. queue'[l] = Append(queue[l], t) /\ \A m \in AllLoops \ {l} : queue'[m] = queue[m]
  BY <1>1
<1>5. ASSUME NEW m \in AllLoops \ {l}, NEW r
      PROVE  Waiting(m, r)' = Waiting(m, r)
  BY <1>4 DEF Waiting
<1>6. ASSUME NEW r
      PROVE  Waiting(l, r)' = IF t = TaskOf(r) THEN Waiting(l, r) \cup {Len(queue[l]) + 1}
                                               ELSE Waiting(l, r)
  <2>1. Len(queue[l]) \in Nat /\ Waiting(l, r) = {k \in 1 .. Len(queue[l]) : queue[l][k] = TaskOf(r)}
    BY WaitingDef
  <2>2. DOMAIN queue'[l] = 1 .. (Len(queue[l]) + 1)
    BY <1>2, <1>4
  <2>3. Waiting(l, r)' = {k \in 1 .. (Len(queue[l]) + 1) : queue'[l][k] = TaskOf(r)}
    BY <2>2 DEF Waiting, TaskOf
  <2>4. 1 .. (Len(queue[l]) + 1) = 1 .. Len(queue[l]) \cup {Len(queue[l]) + 1}
    BY <2>1
  <2> QED  BY <1>2, <1>4, <2>1, <2>3, <2>4
<1> QED  BY <1>3, <1>5, <1>6

\* A functor that is done leaves the head of its queue.
LEMMA QueueFinished ==
  ASSUME TypeOK, NEW l \in AllLoops, queue[l] # <<>>, Finish(l)
  PROVE  /\ queue' \in [AllLoops -> Seq(Task)]
         /\ Head(queue[l]) \in Task
         /\ \A r : Head(queue[l]) = TaskOf(r) => 1 \in Waiting(l, r)
         /\ \A r : \A k \in Waiting(l, r)' : k \in Nat \ {0} /\ k + 1 \in Waiting(l, r)
         /\ \A r : \A m \in AllLoops \ {l} : Waiting(m, r)' = Waiting(m, r)
<1>1. queue \in [AllLoops -> Seq(Task)] /\ queue[l] \in Seq(Task)
  BY DEF TypeOK
<1>2. PICK q \in Seq(Task) : q = queue[l] /\ q # <<>>
  BY <1>1
<1>3. /\ Head(q) \in Task /\ Tail(q) \in Seq(Task) /\ Len(Tail(q)) = Len(q) - 1
      /\ \A i \in 1 .. Len(Tail(q)) : Tail(q)[i] = q[i + 1]
  BY <1>2, HeadTailProperties
<1>4. Len(q) \in Nat \ {0} /\ Head(q) = q[1]
  BY <1>2, EmptySeq
<1>5. queue'[l] = Tail(q) /\ \A m \in AllLoops \ {l} : queue'[m] = queue[m]
  BY <1>1, <1>2 DEF Finish
<1>6. queue' \in [AllLoops -> Seq(Task)]
  BY <1>1, <1>2, <1>3 DEF Finish
<1>7. ASSUME NEW m \in AllLoops \ {l}, NEW r
      PROVE  Waiting(m, r)' = Waiting(m, r)
  BY <1>5 DEF Waiting
<1>8. ASSUME NEW r
      PROVE  /\ Head(q) = TaskOf(r) => 1 \in Waiting(l, r)
             /\ \A k \in Waiting(l, r)' : k \in Nat \ {0} /\ k + 1 \in Waiting(l, r)
  <2>1. Waiting(l, r) = {k \in 1 .. Len(q) : q[k] = TaskOf(r)}
    BY <1>2, WaitingDef
  <2>2. \A t \in Seq(Task) : DOMAIN t = 1 .. Len(t)
    OBVIOUS
  <2>3. DOMAIN Tail(q) = 1 .. (Len(q) - 1)
    BY <1>3, <2>2
  <2>4. Waiting(l, r)' = {k \in 1 .. (Len(q) - 1) : Tail(q)[k] = TaskOf(r)}
    BY <1>5, <2>3 DEF Waiting, TaskOf
  <2>5. ASSUME NEW k \in 1 .. (Len(q) - 1)
        PROVE  k \in Nat \ {0} /\ k + 1 \in 1 .. Len(q) /\ Tail(q)[k] = q[k + 1]
    BY <1>3, <1>4
  <2>6. \A k \in Waiting(l, r)' : k \in Nat \ {0} /\ k + 1 \in Waiting(l, r)
    BY <2>1, <2>4, <2>5
  <2> QED  BY <1>4, <2>1, <2>6
<1> QED  BY <1>2, <1>3, <1>6, <1>7, <1>8

-----------------------------------------------------------------------------
(* The inductive invariant: a request has at most one functor, in one place *)
(* of one loop, and its history says how far it is.                         *)

Inv == TypeOK /\ RequestsQueuedOnce /\ ReadyNeverDropped

LEMMA InvInit == Init => Inv
<1>1. SUFFICES ASSUME Init  PROVE Inv
  OBVIOUS
<1>2. TypeOK
  <2>1. queue \in [AllLoops -> Seq(Task)]
    BY <1>1 DEF Init
  <2>2. received \in 0 .. MaxBridge
    BY <1>1, StandaloneAssumption DEF Init
  <2>3. call \in [Reqs -> Addrs \cup {None}] /\ invoked \in [Reqs -> Nat] /\ answered \in [Reqs -> Nat]
    BY <1>1 DEF Init
  <2> QED  BY <1>1, <2>1, <2>2, <2>3 DEF Init, TypeOK
<1>3. \A r : \A l \in AllLoops : Waiting(l, r) = {}
  <2>1. SUFFICES ASSUME NEW r, NEW l \in AllLoops  PROVE Waiting(l, r) = {}
    OBVIOUS
  <2>2. queue[l] = <<>>
    BY <1>1 DEF Init
  <2>3. Len(queue[l]) = 0
    BY <2>2
  <2> QED  BY <1>2, <2>3, WaitingDef
<1>4. RequestsQueuedOnce
  <2>1. TasksUnique
    <3>1. SUFFICES ASSUME NEW r \in Reqs, NEW l \in AllLoops, NEW k \in Waiting(l, r)
                   PROVE  FALSE
      BY DEF TasksUnique
    <3> QED  BY <1>3
  <2>2. HistoryMatches
    BY <1>1 DEF Init, HistoryMatches
  <2> QED  BY <2>1, <2>2 DEF RequestsQueuedOnce
<1> QED  BY <1>1, <1>2, <1>4 DEF Init, Inv, ReadyNeverDropped

\* Steps that leave queues, requests and their history alone.
LEMMA QueuesKept ==
  ASSUME Inv, UNCHANGED <<queue, history>>, consumersLocal \subseteq consumersLocal'
  PROVE  RequestsQueuedOnce' /\ ReadyNeverDropped'
<1>1. \A r : \A l \in AllLoops : Waiting(l, r)' = Waiting(l, r)
  BY DEF Waiting
<1> QED  BY <1>1 DEF Inv, history, RequestsQueuedOnce, TasksUnique, HistoryMatches, ReadyNeverDropped

\* A message of the bridge adds a functor of no request.
LEMMA OnMessageKeeps ==
  ASSUME Inv, NEW a \in Addrs, NEW l \in AllLoops, OnMessage(a, l)
  PROVE  Inv'
<1>1. TypeOK
  BY DEF Inv
<1>2. PICK t \in Task : t = [kind |-> "frame", address |-> a]
  BY TaskTypes
<1>3. received' \in 0 .. MaxBridge
  BY <1>1, StandaloneAssumption DEF OnMessage, TypeOK
<1>4. CASE UNCHANGED queue
  <2>1. TypeOK'
    BY <1>1, <1>3, <1>4 DEF OnMessage, QueueInLoop, TypeOK, history
  <2> QED  BY <1>4, <2>1, QueuesKept DEF OnMessage, Inv
<1>5. CASE queue' = [queue EXCEPT ![l] = Append(queue[l], t)] /\ UNCHANGED fault
  <2>1. /\ queue' \in [AllLoops -> Seq(Task)]
        /\ \A m \in AllLoops, r \in Reqs : Waiting(m, r)' = Waiting(m, r)
    <3>1. \A r \in Reqs : t # TaskOf(r)
      BY <1>2, TaskTypes
    <3>2. queue' = [queue EXCEPT ![l] = Append(@, t)]
      BY <1>5
    <3>3. /\ queue' \in [AllLoops -> Seq(Task)]
          /\ \A q : \A m \in AllLoops : Waiting(m, q)' =
               IF m = l /\ t = TaskOf(q) THEN Waiting(m, q) \cup {Len(queue[l]) + 1}
                                         ELSE Waiting(m, q)
      BY <1>1, <3>2, QueueAppended
    <3> QED  BY <3>1, <3>3
  <2>2. TypeOK'
    BY <1>1, <1>3, <1>5, <2>1 DEF OnMessage, TypeOK, history
  <2> QED  BY <2>1, <2>2 DEF OnMessage, history, Inv, RequestsQueuedOnce, TasksUnique,
             HistoryMatches, ReadyNeverDropped
<1> QED  BY <1>2, <1>4, <1>5 DEF OnMessage, QueueInLoop

\* request() makes the only functor of its request, or the process ends.
LEMMA RequestKeeps ==
  ASSUME Inv, NEW r \in Reqs, NEW a \in Addrs, NEW l \in AllLoops, Request(r, a, l)
  PROVE  Inv'
<1>1. TypeOK /\ call[r] = None /\ a # None
  BY StandaloneAssumption DEF Inv, Request
<1>2. /\ call' \in [Reqs -> Addrs \cup {None}] /\ call'[r] = a
      /\ \A q \in Reqs \ {r} : call'[q] = call[q]
  BY <1>1 DEF Request, TypeOK
<1>3. /\ ready' \subseteq Reqs /\ ready \subseteq ready' /\ ready' \subseteq ready \cup {r}
      /\ r \in ready' => r \in ready \/ a \in consumersLocal
  BY <1>1 DEF Request, TypeOK
<1>4. /\ invoked[r] = 0 /\ answered[r] = 0 /\ r \notin ready \cup dropped
      /\ \A m \in AllLoops : Waiting(m, r) = {}
  BY <1>1 DEF Inv, RequestsQueuedOnce, TasksUnique, HistoryMatches
<1>5. HistoryMatches' /\ ReadyNeverDropped'
  BY <1>1, <1>2, <1>3, <1>4
    DEF Request, Inv, RequestsQueuedOnce, HistoryMatches, ReadyNeverDropped
<1>6. CASE UNCHANGED queue
  <2>1. TypeOK'
    BY <1>1, <1>2, <1>3, <1>6 DEF Request, QueueInLoop, TypeOK
  <2>2. \A q : \A m \in AllLoops : Waiting(m, q)' = Waiting(m, q)
    BY <1>6 DEF Waiting
  <2>3. TasksUnique'
    BY <1>2, <1>4, <2>2 DEF Request, Inv, RequestsQueuedOnce, TasksUnique
  <2> QED  BY <1>5, <2>1, <2>3 DEF Inv, RequestsQueuedOnce
<1>7. CASE queue' = [queue EXCEPT ![l] = Append(@, TaskOf(r))] /\ UNCHANGED fault
  <2>1. /\ queue' \in [AllLoops -> Seq(Task)]
        /\ \A m \in AllLoops, q \in Reqs \ {r} : Waiting(m, q)' = Waiting(m, q)
        /\ \A m \in AllLoops : Waiting(m, r)' = IF m = l THEN {Len(queue[l]) + 1} ELSE {}
    <3>1. PICK t \in Task : t = TaskOf(r)
      BY TaskTypes
    <3>2. queue' = [queue EXCEPT ![l] = Append(@, t)]
      BY <1>7, <3>1
    <3>3. /\ queue' \in [AllLoops -> Seq(Task)]
          /\ \A q : \A m \in AllLoops : Waiting(m, q)' =
               IF m = l /\ t = TaskOf(q) THEN Waiting(m, q) \cup {Len(queue[l]) + 1}
                                         ELSE Waiting(m, q)
      BY <1>1, <3>2, QueueAppended
    <3>4. \A q \in Reqs : t = TaskOf(q) <=> q = r
      BY <3>1, TaskTypes
    <3> QED  BY <1>4, <3>3, <3>4
  <2>2. TypeOK'
    BY <1>1, <1>2, <1>3, <1>7, <2>1 DEF Request, TypeOK
  <2>3. TasksUnique'
    BY <1>1, <1>2, <1>4, <2>1 DEF Request, Inv, RequestsQueuedOnce, TasksUnique
  <2> QED  BY <1>5, <2>2, <2>3 DEF Inv, RequestsQueuedOnce
<1> QED  BY <1>6, <1>7 DEF Request, QueueInLoop, TaskOf

\* A functor that is served is a request's that nobody has served, and was its only one.
LEMMA ServedTask ==
  ASSUME Inv, NEW l \in AllLoops, Running(l, "request"), Finish(l),
         NEW r, r = Head(queue[l]).req
  PROVE  /\ r \in Reqs /\ call[r] # None
         /\ invoked[r] = 0 /\ answered[r] = 0 /\ r \notin dropped
         /\ queue' \in [AllLoops -> Seq(Task)]
         /\ \A m \in AllLoops : Waiting(m, r)' = {}
         /\ \A m \in AllLoops, q \in Reqs : \A k \in Waiting(m, q)', h \in AllLoops :
              \A j \in Waiting(h, q)' : h = m /\ j = k
         /\ \A m \in AllLoops, q \in Reqs : Waiting(m, q)' # {} => Waiting(m, q) # {}
<1>1. TypeOK /\ queue[l] # <<>> /\ Head(queue[l]).kind = "request"
  BY DEF Inv, Running
<1>2. /\ queue' \in [AllLoops -> Seq(Task)]
      /\ Head(queue[l]) \in Task
      /\ \A q : Head(queue[l]) = TaskOf(q) => 1 \in Waiting(l, q)
      /\ \A q : \A k \in Waiting(l, q)' : k \in Nat \ {0} /\ k + 1 \in Waiting(l, q)
      /\ \A q : \A m \in AllLoops \ {l} : Waiting(m, q)' = Waiting(m, q)
  BY <1>1, QueueFinished
<1>3. r \in Reqs /\ 1 \in Waiting(l, r)
  BY <1>1, <1>2, TaskTypes
<1>4. /\ call[r] # None /\ invoked[r] = 0 /\ answered[r] = 0 /\ r \notin dropped
      /\ \A m \in AllLoops : \A j \in Waiting(m, r) : m = l /\ j = 1
  BY <1>3 DEF Inv, RequestsQueuedOnce, TasksUnique, HistoryMatches
<1>5. \A m \in AllLoops : Waiting(m, r)' = {}
  <2>1. Waiting(l, r)' = {}
    <3>1. SUFFICES ASSUME NEW k \in Waiting(l, r)'  PROVE FALSE
      OBVIOUS
    <3>2. k \in Nat \ {0} /\ k + 1 = 1
      BY <1>2, <1>4
    <3> QED  BY <3>2
  <2> QED  BY <1>2, <1>4, <2>1
<1>6. ASSUME NEW q \in Reqs, NEW m \in AllLoops, NEW k \in Waiting(m, q)',
             NEW h \in AllLoops, NEW j \in Waiting(h, q)'
      PROVE  h = m /\ j = k
  <2>1. \A f \in AllLoops, g \in AllLoops : \A i \in Waiting(f, q), e \in Waiting(g, q) : f = g /\ e = i
    BY DEF Inv, RequestsQueuedOnce, TasksUnique
  <2>2. CASE m # l /\ h # l
    BY <1>2, <2>1, <2>2
  <2>3. CASE m = l /\ h = l
    <3>1. k \in Nat /\ j \in Nat /\ k + 1 \in Waiting(l, q) /\ j + 1 \in Waiting(l, q)
      BY <1>2, <2>3
    <3>2. k + 1 = j + 1
      BY <2>1, <3>1
    <3> QED  BY <2>3, <3>1, <3>2
  <2>4. CASE m # l /\ h = l
    BY <1>2, <2>1, <2>4
  <2>5. CASE m = l /\ h # l
    BY <1>2, <2>1, <2>5
  <2> QED  BY <2>2, <2>3, <2>4, <2>5
<1>7. \A m \in AllLoops, q \in Reqs : Waiting(m, q)' # {} => Waiting(m, q) # {}
  BY <1>2
<1> QED  BY <1>2, <1>3, <1>4, <1>5, <1>6, <1>7

\* Whoever is served is counted once, and whoever is not was too early.
LEMMA ServeKeeps ==
  ASSUME Inv, NEW l \in AllLoops, Serve(l)
  PROVE  Inv'
<1>r. PICK r : r = Head(queue[l]).req
  OBVIOUS
<1>1. TypeOK
  BY DEF Inv
<1>2. /\ r \in Reqs /\ call[r] # None
      /\ invoked[r] = 0 /\ answered[r] = 0 /\ r \notin dropped
      /\ queue' \in [AllLoops -> Seq(Task)]
      /\ \A m \in AllLoops : Waiting(m, r)' = {}
      /\ \A m \in AllLoops, q \in Reqs : \A k \in Waiting(m, q)', h \in AllLoops :
           \A j \in Waiting(h, q)' : h = m /\ j = k
      /\ \A m \in AllLoops, q \in Reqs : Waiting(m, q)' # {} => Waiting(m, q) # {}
  BY <1>r, ServedTask DEF Serve
<1>3. /\ invoked' \in [Reqs -> Nat] /\ answered' \in [Reqs -> Nat]
      /\ invoked'[r] = answered'[r] /\ invoked'[r] <= 1
      /\ \A q \in Reqs \ {r} : invoked'[q] = invoked[q] /\ answered'[q] = answered[q]
  <2>1. invoked \in [Reqs -> Nat] /\ answered \in [Reqs -> Nat]
    BY <1>1 DEF TypeOK
  <2>2. \/ /\ invoked' = [invoked EXCEPT ![r] = @ + 1]
           /\ answered' = [answered EXCEPT ![r] = @ + 1]
        \/ UNCHANGED <<invoked, answered>>
    BY <1>r DEF Serve
  <2> QED  BY <1>2, <2>1, <2>2
<1>4. /\ dropped' \subseteq Reqs /\ dropped' \subseteq dropped \cup {r}
      /\ r \in dropped' => call[r] \notin consumersLocal
  BY <1>1, <1>2, <1>r DEF Serve, TypeOK
<1>5. TypeOK'
  BY <1>1, <1>2, <1>3, <1>4 DEF Serve, TypeOK
<1>6. HistoryMatches' /\ ReadyNeverDropped'
  BY <1>2, <1>3, <1>4 DEF Serve, Inv, RequestsQueuedOnce, HistoryMatches, ReadyNeverDropped
<1>7. TasksUnique'
  <2>1. SUFFICES ASSUME NEW q \in Reqs, NEW m \in AllLoops, NEW k \in Waiting(m, q)'
                 PROVE  call'[q] # None /\ invoked'[q] = 0 /\ q \notin dropped'
    BY <1>2 DEF TasksUnique
  <2>2. q # r /\ Waiting(m, q) # {}
    BY <1>2
  <2>3. call[q] # None /\ invoked[q] = 0 /\ q \notin dropped
    BY <2>2 DEF Inv, RequestsQueuedOnce, TasksUnique
  <2> QED  BY <1>3, <1>4, <2>2, <2>3 DEF Serve
<1> QED  BY <1>5, <1>6, <1>7 DEF Inv, RequestsQueuedOnce

LEMMA InvNext == Inv /\ [Next]_vars => Inv'
<1> SUFFICES ASSUME Inv, [Next]_vars  PROVE Inv'
  OBVIOUS
<1>1. CASE PoolThread
  <2>1. pool' \in {"none", "created", "started", "running"}
        /\ UNCHANGED <<bound, consumersLocal, queue, received, fault, history>>
    BY <1>1 DEF PoolThread, PoolCreated, PoolStarted, BaseRuns, Advance
  <2>2. TypeOK'
    BY <2>1 DEF Inv, TypeOK, history
  <2> QED  BY <2>1, <2>2, QueuesKept DEF Inv
<1>2. CASE Run
  <2>1. TypeOK'
    BY <1>2 DEF Run, Inv, TypeOK, history
  <2> QED  BY <1>2, <2>1, QueuesKept DEF Run, Inv
<1>3. ASSUME NEW a \in Addrs, Consumer(a)  PROVE Inv'
  <2>1. TypeOK'
    BY <1>3 DEF Consumer, Inv, TypeOK, history
  <2> QED  BY <1>3, <2>1, QueuesKept DEF Consumer, Inv
<1>4. ASSUME NEW l \in AllLoops, ServeFrame(l)  PROVE Inv'
  <2>1. TypeOK'
    BY <1>4 DEF ServeFrame, Inv, TypeOK, history
  <2> QED  BY <1>4, <2>1, QueuesKept DEF ServeFrame, Inv
<1>5. CASE UNCHANGED vars
  <2>1. TypeOK'
    BY <1>5 DEF vars, Inv, TypeOK, history
  <2> QED  BY <1>5, <2>1, QueuesKept DEF vars, Inv
<1> QED
  BY <1>1, <1>2, <1>3, <1>4, <1>5, OnMessageKeeps, RequestKeeps, ServeKeeps DEF Next, LoopStep

\* Through every start of the loops and every order of calls, the invariant holds.
LEMMA AlwaysInv == Spec => []Inv
BY InvInit, InvNext, PTL DEF Spec

-----------------------------------------------------------------------------
(* What follows.                                                           *)

\* Every variable of the standalone bus keeps its type.
THEOREM BusTypeCorrect == Spec => []TypeOK
<1>1. Inv => TypeOK
  BY DEF Inv
<1> QED  BY <1>1, AlwaysInv, PTL

\* The functor of a request is in one place of one loop, runs once, and leaves
\* the request answered once or dropped.
THEOREM AlwaysQueuedOnce == Spec => []RequestsQueuedOnce
<1>1. Inv => RequestsQueuedOnce
  BY DEF Inv
<1> QED  BY <1>1, AlwaysInv, PTL

\* processOnTcpMessage finds the consumer of a request made after its consumer()
\* call, whichever loop runs it and however late.
THEOREM ReadyIsServed == Spec => []ReadyNeverDropped
<1>1. Inv => ReadyNeverDropped
  BY DEF Inv
<1> QED  BY <1>1, AlwaysInv, PTL

-----------------------------------------------------------------------------
(* The bus implements RequestReply.                                        *)

\* The call a request stands for in RequestReply.
CallOf(r) == IF call[r] = None THEN None ELSE [node |-> Self, address |-> call[r]]

LEMMA CallDefined ==
  ASSUME TypeOK, NEW r \in Reqs
  PROVE  CallOf(r) = None <=> call[r] = None
BY StandaloneAssumption DEF TypeOK, CallOf

\* Steps that neither register, make, serve nor answer anything stutter.
LEMMA PromiseKept ==
  ASSUME UNCHANGED <<consumersLocal, call, invoked, answered>>
  PROVE  UNCHANGED RR!vars
BY DEF RR!vars

LEMMA RegisterStep ==
  ASSUME NEW a \in Addrs, Consumer(a)
  PROVE  RR!Next
<1>1. RR!Register(Self, a)
  BY DEF Consumer, history, RR!Register
<1> QED  BY <1>1 DEF RR!Next

LEMMA IssueStep ==
  ASSUME Inv, NEW r \in Reqs, NEW a \in Addrs, NEW l \in AllLoops, Request(r, a, l)
  PROVE  RR!Next
<1>1. /\ call[r] = None /\ a # None
      /\ call \in [Reqs -> Addrs \cup {None}] /\ call' = [call EXCEPT ![r] = a]
      /\ UNCHANGED <<consumersLocal, invoked, answered>>
  BY StandaloneAssumption DEF Request, Inv, TypeOK
<1>2. RR!Issue(r, Self, a)
  BY <1>1 DEF RR!Issue
<1> QED  BY <1>2 DEF RR!Next

LEMMA ServeStep ==
  ASSUME Inv, NEW l \in AllLoops, Serve(l)
  PROVE  [RR!Next]_(RR!vars)
<1>r. PICK r : r = Head(queue[l]).req
  OBVIOUS
<1>1. r \in Reqs /\ call[r] # None /\ invoked[r] = 0 /\ answered[r] = 0
  BY <1>r, ServedTask DEF Serve
<1>2. CASE call[r] \in consumersLocal /\ ~ UNCHANGED <<invoked, answered>>
  <2>1. /\ invoked' = [invoked EXCEPT ![r] = 1] /\ answered' = [answered EXCEPT ![r] = 1]
        /\ UNCHANGED <<consumersLocal, call>>
    BY <1>r, <1>1, <1>2 DEF Serve
  <2>2. RR!CanServe(r)
    <3>1. CallOf(r) # None /\ CallOf(r).address = call[r]
      BY <1>1, CallDefined DEF CallOf, Inv
    <3> QED  BY <1>1, <1>2, <3>1 DEF RR!CanServe, CallOf
  <2>3. RR!ServeAndAnswer(r)
    BY <1>1, <2>1, <2>2 DEF RR!ServeAndAnswer
  <2> QED  BY <1>1, <2>3 DEF RR!Next
<1>3. CASE UNCHANGED <<invoked, answered>>
  BY <1>3, PromiseKept DEF Serve
<1> QED  BY <1>r, <1>2, <1>3 DEF Serve

LEMMA PromiseStep == Inv /\ [Next]_vars => [RR!Next]_(RR!vars)
<1> SUFFICES ASSUME Inv, [Next]_vars  PROVE [RR!Next]_(RR!vars)
  OBVIOUS
<1>1. CASE PoolThread \/ Run \/ UNCHANGED vars
  BY <1>1, PromiseKept
    DEF PoolThread, PoolCreated, PoolStarted, BaseRuns, Advance, Run, vars, history
<1>2. ASSUME NEW l \in AllLoops, ServeFrame(l)  PROVE UNCHANGED RR!vars
  BY <1>2, PromiseKept DEF ServeFrame, history
<1>3. ASSUME NEW a \in Addrs, NEW l \in AllLoops, OnMessage(a, l)  PROVE UNCHANGED RR!vars
  BY <1>3, PromiseKept DEF OnMessage, history
<1> QED
  BY <1>1, <1>2, <1>3, RegisterStep, IssueStep, ServeStep DEF Next, LoopStep

\* Whenever its loops start and whatever its bridge receives, the bus of one
\* process runs consumer and response handler of a request at most once, in this
\* order, and only where the address has a consumer.
THEOREM StandaloneImplementsRequestReply == Spec => ImplementsRequestReply
<1>1. Init => RR!Init
  BY DEF Init, RR!Init
<1> QED  BY <1>1, PromiseStep, AlwaysInv, PTL DEF Spec, ImplementsRequestReply, RR!Spec

-----------------------------------------------------------------------------
\* What the server's ports and handlers are given.
LEMMA PortTypes ==
  /\ \A k \in Nat : k < Len(NetPorts) => NetPorts[k + 1] \in Range(NetPorts)
  /\ \A k \in Nat : k < Len(Consumers) => Consumers[k + 1] \in Addrs
  /\ \A r \in Reqs : Source[r] \in Ports /\ AddressOf[Source[r]] \in Addrs
  /\ Len(NetPorts) \in Nat /\ Len(Consumers) \in Nat
<1>1. NetPorts \in Seq(Range(NetPorts)) /\ Consumers \in Seq(Addrs)
  BY ApplicationAssumption
<1>2. Len(NetPorts) \in Nat /\ Len(Consumers) \in Nat
  BY <1>1
<1>3. \A k \in Nat : k < Len(NetPorts) => NetPorts[k + 1] \in Range(NetPorts)
  BY <1>1, <1>2
<1>4. \A k \in Nat : k < Len(Consumers) => Consumers[k + 1] \in Addrs
  BY <1>1, <1>2
<1>5. \A r \in Reqs : Source[r] \in Ports /\ AddressOf[Source[r]] \in Addrs
  BY ApplicationAssumption
<1> QED  BY <1>2, <1>3, <1>4, <1>5

-----------------------------------------------------------------------------
(* The program's own variables, and its use of the bus.                    *)

LEMMA ProgramInit == AppInit => ProgramTypeOK
<1>1. 0 \in 0 .. Len(NetPorts) /\ 0 \in 0 .. Len(Consumers)
  BY PortTypes
<1>2. ASSUME AppInit
      PROVE  handler \in [Reqs -> {"none", "active", "returned"}] /\ replies \in [Reqs -> Nat]
  BY <1>2 DEF AppInit
<1> QED  BY <1>1, <1>2 DEF AppInit, ProgramTypeOK

LEMMA ProgramNext == ProgramTypeOK /\ [AppNext]_<<vars, appVars>> => ProgramTypeOK'
<1> SUFFICES ASSUME ProgramTypeOK, [AppNext]_<<vars, appVars>>  PROVE ProgramTypeOK'
  OBVIOUS
<1> USE DEF ProgramTypeOK
<1>1. CASE Listen
  <2>1. listened' \in 0 .. Len(NetPorts) /\ NetPorts[listened'] \in Range(NetPorts)
    BY <1>1, PortTypes DEF Listen
  <2> QED  BY <1>1, <2>1 DEF Listen
<1>2. CASE HttpListen
  BY <1>2 DEF HttpListen, Ports
<1>3. CASE Register
  <2>1. registered' \in 0 .. Len(Consumers)
    BY <1>3, PortTypes DEF Register
  <2> QED  BY <1>3, <2>1 DEF Register
<1>4. CASE VertxRun
  BY <1>4 DEF VertxRun
<1>5. CASE AppPool \/ AppBridge \/ UNCHANGED <<vars, appVars>>
  BY <1>5 DEF AppPool, AppBridge, appVars
<1>6. ASSUME NEW p \in starting, NetServerStart(p)  PROVE ProgramTypeOK'
  BY <1>6 DEF NetServerStart, Ports
<1>7. ASSUME NEW r \in Reqs, Return(r)  PROVE ProgramTypeOK'
  BY <1>7 DEF Return
<1>8. ASSUME NEW r \in Reqs, NEW l \in AllLoops, Read(r, l)  PROVE ProgramTypeOK'
  BY <1>8 DEF Read
<1>9. ASSUME NEW l \in AllLoops, AppServe(l)  PROVE ProgramTypeOK'
  <2>1. \A q : Reply(q) => replies' \in [Reqs -> Nat] /\ corrupt' \in BOOLEAN
    <3>1. ASSUME NEW q, Reply(q)  PROVE replies' \in [Reqs -> Nat]
      <4>1. replies \in [Reqs -> Nat] /\ replies' = [replies EXCEPT ![q] = @ + 1]
        BY <3>1 DEF Reply
      <4>2. q \in Reqs => replies[q] + 1 \in Nat
        BY <4>1
      <4> QED  BY <4>1, <4>2
    <3> QED  BY <3>1 DEF Reply
  <2>2. replies' \in [Reqs -> Nat] /\ corrupt' \in BOOLEAN
    BY <1>9, <2>1 DEF AppServe, NetRespond, HttpRespond
  <2> QED  BY <1>9, <2>2 DEF AppServe
<1> QED
  BY <1>1, <1>2, <1>3, <1>4, <1>5, <1>6, <1>7, <1>8, <1>9 DEF AppNext, MainStep

LEMMA ProgramTypes == AppSpec => []ProgramTypeOK
BY ProgramInit, ProgramNext, PTL DEF AppSpec

\* Each step of the program is one call of the bus, one step of its threads, or
\* none of its business.
LEMMA ProgramStep == ProgramTypeOK /\ [AppNext]_<<vars, appVars>> => [Next]_vars
<1> SUFFICES ASSUME ProgramTypeOK, [AppNext]_<<vars, appVars>>  PROVE [Next]_vars
  OBVIOUS
<1>1. CASE Register
  <2>1. PICK a \in Addrs : a = Consumers[registered + 1]
    BY <1>1, PortTypes DEF Register, ProgramTypeOK
  <2>2. Consumer(a)
    BY <1>1, <2>1 DEF Register
  <2> QED  BY <2>2 DEF Next
<1>2. CASE VertxRun
  BY <1>2 DEF VertxRun, Next
<1>3. CASE Listen \/ HttpListen \/ UNCHANGED <<vars, appVars>>
  BY <1>3 DEF Listen, HttpListen
<1>4. CASE AppPool \/ AppBridge
  BY <1>4 DEF AppPool, AppBridge, Next
<1>5. ASSUME NEW p \in starting, NetServerStart(p)  PROVE UNCHANGED vars
  BY <1>5 DEF NetServerStart
<1>6. ASSUME NEW r \in Reqs, Return(r)  PROVE UNCHANGED vars
  BY <1>6 DEF Return
<1>7. ASSUME NEW r \in Reqs, NEW l \in AllLoops, Read(r, l)  PROVE Next
  <2>1. PICK a \in Addrs : a = AddressOf[Source[r]]
    BY PortTypes
  <2>2. Request(r, a, l)
    BY <1>7, <2>1 DEF Read
  <2> QED  BY <2>2 DEF Next
<1>8. ASSUME NEW l \in AllLoops, AppServe(l)  PROVE Next
  BY <1>8 DEF AppServe, Next
<1> QED
  BY <1>1, <1>2, <1>3, <1>4, <1>5, <1>6, <1>7, <1>8 DEF AppNext, MainStep

\* main(), the servers and their handlers use the bus in no way its
\* specification does not allow.
THEOREM ProgramUsesTheBus == AppSpec => Spec
<1>1. AppInit => Init
  BY DEF AppInit
<1> QED  BY <1>1, ProgramStep, ProgramTypes, PTL DEF AppSpec, Spec

-----------------------------------------------------------------------------
(* What the program inherits from the bus.                                 *)

\* Bus and program keep their types.
THEOREM ProgramTypeCorrect == AppSpec => []AppTypeOK
<1>1. ProgramTypeOK /\ TypeOK => AppTypeOK
  BY DEF AppTypeOK
<1> QED  BY <1>1, ProgramTypes, ProgramUsesTheBus, BusTypeCorrect, PTL

\* The servers accept clients before main() has registered the consumers; a
\* client that is read after that is not dropped.
THEOREM ReadyClientsServed == AppSpec => []ReadyNeverDropped
BY ProgramUsesTheBus, ReadyIsServed, PTL

\* Each client's request is queued once and served once.
THEOREM ClientsQueuedOnce == AppSpec => []RequestsQueuedOnce
BY ProgramUsesTheBus, AlwaysQueuedOnce, PTL

\* The bus in the program keeps the promise of RequestReply.
THEOREM ProgramImplementsRequestReply == AppSpec => ImplementsRequestReply
BY ProgramUsesTheBus, StandaloneImplementsRequestReply, PTL

-----------------------------------------------------------------------------
(* The answers of the HTTP server.                                         *)

\* The response handler a functor runs is that of its own request.
LEMMA AnsweredByOne ==
  ASSUME Inv, NEW l \in AllLoops, LoopStep(l), answered' # answered,
         NEW r, r = Head(queue[l]).req
  PROVE  r \in Reqs /\ answered' = [answered EXCEPT ![r] = @ + 1]
<1>1. Serve(l)
  BY DEF LoopStep, ServeFrame, history
<1>2. r \in Reqs
  BY <1>1, ServedTask DEF Serve
<1> QED  BY <1>1, <1>2 DEF Serve

\* The replies of HTTP clients are as many as the runs of their response handlers.
RepliesMatch == \A r \in Reqs : ~ Net(r) => replies[r] = answered[r]

LEMMA RepliesMatchNext ==
  Inv /\ ProgramTypeOK /\ RepliesMatch /\ [AppNext]_<<vars, appVars>> => RepliesMatch'
<1> SUFFICES ASSUME Inv, ProgramTypeOK, RepliesMatch, [AppNext]_<<vars, appVars>>
             PROVE  RepliesMatch'
  OBVIOUS
<1>1. \A r : Net(r)' = Net(r)
  BY DEF Net
<1>2. CASE UNCHANGED <<replies, answered>>
  BY <1>1, <1>2 DEF RepliesMatch
<1>3. ASSUME NEW l \in AllLoops, AppServe(l), answered' # answered
      PROVE  RepliesMatch'
  <2>r. PICK r : r = Head(queue[l]).req
    OBVIOUS
  <2>1. r \in Reqs /\ answered' = [answered EXCEPT ![r] = @ + 1]
    BY <1>3, <2>r, AnsweredByOne DEF AppServe
  <2>2. /\ replies \in [Reqs -> Nat] /\ answered \in [Reqs -> Nat]
        /\ answered'[r] = answered[r] + 1 /\ \A q \in Reqs \ {r} : answered'[q] = answered[q]
    BY <2>1 DEF ProgramTypeOK, Inv, TypeOK
  <2>3. \A q \in Reqs : Reply(q) =>
          replies'[q] = replies[q] + 1 /\ \A p \in Reqs \ {q} : replies'[p] = replies[p]
    BY <2>2 DEF Reply
  <2>4. CASE Net(r)
    <3>1. NetRespond(r)
      BY <1>3, <2>r, <2>4 DEF AppServe
    <3>2. \A p \in Reqs : ~ Net(p) => replies'[p] = replies[p]
      BY <2>1, <2>3, <2>4, <3>1 DEF NetRespond
    <3> QED  BY <1>1, <2>2, <2>4, <3>2 DEF RepliesMatch
  <2>5. CASE ~ Net(r)
    <3>1. Reply(r)
      BY <1>3, <2>r, <2>5 DEF AppServe, HttpRespond
    <3> QED  BY <1>1, <2>1, <2>2, <2>3, <3>1 DEF RepliesMatch
  <2> QED  BY <2>4, <2>5
<1>4. ASSUME NEW l \in AllLoops, AppServe(l), answered' = answered
      PROVE  RepliesMatch'
  BY <1>2, <1>4 DEF AppServe
<1>5. CASE MainStep \/ AppPool \/ AppBridge \/ UNCHANGED <<vars, appVars>>
  <2>1. UNCHANGED <<replies, answered>>
    BY <1>5 DEF MainStep, Listen, HttpListen, Register, VertxRun, Consumer, Run, AppPool,
      PoolThread, PoolCreated, PoolStarted, BaseRuns, Advance, AppBridge, OnMessage,
      vars, appVars, history
  <2> QED  BY <1>2, <2>1
<1>6. ASSUME NEW p \in starting, NetServerStart(p)  PROVE RepliesMatch'
  BY <1>2, <1>6 DEF NetServerStart, vars, history
<1>7. ASSUME NEW r \in Reqs, Return(r)  PROVE RepliesMatch'
  BY <1>2, <1>7 DEF Return, vars, history
<1>8. ASSUME NEW r \in Reqs, NEW l \in AllLoops, Read(r, l)  PROVE RepliesMatch'
  BY <1>2, <1>8 DEF Read, Request
<1> QED  BY <1>3, <1>4, <1>5, <1>6, <1>7, <1>8 DEF AppNext

\* An HTTP client gets the answer of its own request, once: the response handler
\* of another client never reaches it, for the handlers of the TCP ports hold
\* references to TCP connections only.
THEOREM HttpClientsAnsweredOnce == AppSpec => []HttpAnsweredOnce
<1>1. AppInit => RepliesMatch
  BY DEF AppInit, Init, RepliesMatch
<1>2. Inv /\ RepliesMatch => HttpAnsweredOnce
  BY DEF Inv, RequestsQueuedOnce, HistoryMatches, RepliesMatch, HttpAnsweredOnce
<1> QED
  BY <1>1, <1>2, RepliesMatchNext, ProgramTypes, ProgramUsesTheBus, AlwaysInv, PTL DEF AppSpec
=============================================================================
