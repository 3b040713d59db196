--------------------------- MODULE EventBusProofs ---------------------------
(***************************************************************************)
(* Theorems about the clustered event bus, for any cluster, any pool of    *)
(* event loops and any number of requests: types and consumers first, then *)
(* why a request is served and answered once.                              *)
(***************************************************************************)
EXTENDS EventBus, SequenceTheorems, TLAPS

-----------------------------------------------------------------------------
(* What the pieces of an action return.                                    *)

\* to_string yields a frame that to_message can take apart again.
LEMMA FrameTypes ==
  /\ \A m \in Message, s \in Nodes : to_string([m EXCEPT !.server = s]) \in RequestFrame
  /\ \A a \in Addrs, r \in Reqs, s \in Nodes \cup {None}, b \in Strays \cup {None} :
       to_string(Response([address |-> a, replay |-> r, server |-> s, body |-> b])) \in ReplyFrame
  /\ \A f \in Frame : ReqOf(f) \in Reqs
BY BusAssumption DEF Message, RequestFrame, ReplyFrame, Frame, to_string, Response, ReqOf

\* What to_message finds in what a read has queued.  A reply address in second
\* place, and a server, can only come from a request frame, and a first address is
\* that of the frame, unless the frame was cut in front of it.
LEMMA ParsedShape ==
  ASSUME NEW t \in Task, t.kind \in Received, NEW f \in Parsed(t)
  PROVE  /\ t.frame \in Frame /\ ~ HasPing(f)
         /\ f.server \in Nodes \cup {None}
         /\ f.server \in Nodes => f = t.frame
         /\ f.second \in Reqs => /\ t.kind \in {"frame", "head"} /\ t.frame \in RequestFrame
                                 /\ f.first = t.frame.first /\ f.second = t.frame.second
         /\ t.kind # "rest" /\ f.first # None => f.first = t.frame.first
         /\ t.kind = "rest" /\ f.first # None => f.first = t.frame.second
         /\ t.kind = "rest" => f.second = None /\ f.server = None
<1>1. t.frame \in Frame
  BY DEF Task, Received
<1>2. ~ HasPing(f)
  BY DEF Parsed
<1>3. t.kind = "frame" \/ t.kind = "head" \/ t.kind = "rest"
  BY DEF Received
<1>4. CASE t.kind = "frame"
  <2>1. f = t.frame
    BY <1>4 DEF Parsed
  <2> QED  BY <1>1, <1>2, <1>4, <2>1, BusAssumption DEF Frame, RequestFrame, ReplyFrame
<1>5. CASE t.kind = "head"
  <2>1. f \in Heads(t.frame)
    BY <1>5 DEF Parsed
  <2> DEFINE g == t.frame
  <2>2. \/ f = g
        \/ f = [g EXCEPT !.server = None]
        \/ f = [first |-> g.first, second |-> None, server |-> None]
        \/ f = [first |-> None, second |-> None, server |-> None]
    BY <2>1 DEF Heads, Garbage
  <2>3. \/ f = g
        \/ /\ f.server = None
           /\ f.first = g.first \/ f.first = None
           /\ f.second = None \/ (f.first = g.first /\ f.second = g.second)
    BY <1>1, <2>2 DEF Frame, RequestFrame, ReplyFrame
  <2> QED  BY <1>1, <1>2, <1>5, <2>3, BusAssumption DEF Frame, RequestFrame, ReplyFrame
<1>6. CASE t.kind = "rest"
  <2>1. f \in Rests(t.frame)
    BY <1>6 DEF Parsed
  <2>2. /\ f.second = None /\ f.server = None
        /\ f.first = t.frame.second \/ f.first = None
    BY <2>1 DEF Rests, Garbage
  <2> QED  BY <1>1, <1>2, <1>6, <2>2, BusAssumption
<1> QED  BY <1>3, <1>4, <1>5, <1>6

\* What a functor of request() carries.
LEMMA TaskFields ==
  ASSUME NEW t \in Task
  PROVE  /\ t.kind = "request" => t.req \in Reqs /\ t.address \in Addrs
         /\ t.kind = "routed" => /\ t.msg \in Message /\ t.msg.server \in Nodes
                                 /\ t.msg.address \in Reqs /\ t.msg.replay \in Addrs
  BY DEF Task, Message, Received

\* A reply to a server that was read from a piece of a frame reaches nobody.
LEMMA SendNowhere ==
  ASSUME NEW n \in Nodes, NEW f, processStringMessage(n, None, f)
  PROVE  UNCHANGED netVars /\ (Alive \/ Die(n, "null_conn"))
BY DEF processStringMessage, netVars

\* The running task is a task, and the two changes of a queue keep its type.
LEMMA QueueTypes ==
  ASSUME TypeOK, NEW n \in Nodes, NEW l \in Loops
  PROVE  /\ \A t \in Task : Enqueue(n, l, t) => queue' \in [Nodes -> [Loops -> Seq(Task)]]
         /\ queue[n][l] # <<>> =>
              /\ Head(queue[n][l]) \in Task
              /\ Tail(queue[n][l]) \in Seq(Task)
              /\ \A t \in Task : [queue[n][l] EXCEPT ![1] = t] \in Seq(Task)
<1>1. queue[n][l] \in Seq(Task)
  BY DEF TypeOK
<1>2. ASSUME queue[n][l] # <<>>, NEW t \in Task
      PROVE  [queue[n][l] EXCEPT ![1] = t] \in Seq(Task)
  <2>1. 1 \in 1 .. Len(queue[n][l])
    BY <1>1, <1>2, EmptySeq
  <2> QED  BY <1>1, <2>1, ExceptSeq
<1>3. ASSUME NEW t \in Task, Enqueue(n, l, t)
      PROVE  queue' \in [Nodes -> [Loops -> Seq(Task)]]
  <2>1. Append(queue[n][l], t) \in Seq(Task)
    BY <1>1
  <2>2. queue \in [Nodes -> [Loops -> Seq(Task)]]
    BY DEF TypeOK
  <2> QED  BY <1>3, <2>1, <2>2 DEF Enqueue
<1> QED  BY <1>1, <1>2, <1>3, HeadTailProperties

\* Counting a run of a consumer or of a response handler.
LEMMA HistoryTypes ==
  ASSUME TypeOK, NEW r \in Reqs
  PROVE  /\ Invoke(r) => invoked' \in [Reqs -> Nat]
         /\ \A b \in Nodes \cup Strays : Answer(r, b) =>
              /\ answered' \in [Reqs -> Nat]
              /\ body' \in [Reqs -> Nodes \cup Strays \cup {None}]
<1>1. /\ invoked \in [Reqs -> Nat] /\ answered \in [Reqs -> Nat]
      /\ body \in [Reqs -> Nodes \cup Strays \cup {None}]
  BY DEF TypeOK
<1>2. Invoke(r) => invoked' \in [Reqs -> Nat]
  BY <1>1 DEF Invoke
<1>3. ASSUME NEW b \in Nodes \cup Strays, Answer(r, b)
      PROVE  /\ answered' \in [Reqs -> Nat]
             /\ body' \in [Reqs -> Nodes \cup Strays \cup {None}]
  <2>1. answered' \in [Reqs -> Nat]
    BY <1>1, <1>3 DEF Answer
  <2>2. body' \in [Reqs -> Nodes \cup Strays \cup {None}]
    BY <1>1, <1>3 DEF Answer
  <2> QED  BY <2>1, <2>2
<1> QED  BY <1>2, <1>3

\* Sending changes clients, and perhaps ends the process, within their types.
LEMMA SendTypes ==
  ASSUME TypeOK, NEW n \in Nodes, NEW s \in Nodes, NEW f \in Frame,
         processStringMessage(n, s, f)
  PROVE  /\ evConnect' \in [Nodes -> Seq(Client)]
         /\ endpoints' \in [Nodes -> [Nodes -> Nat]]
         /\ \A m, q \in Nodes : endpoints'[m][q] <= Len(evConnect'[m])
         /\ status' \in [Nodes -> {"joined", "running", "down"}]
         /\ fault' \in [Nodes -> Faults]
<1> DEFINE i == endpoints[n][s]
<1>1. evConnect \in [Nodes -> Seq(Client)] /\ i \in Nat /\ i <= Len(evConnect[n])
  BY DEF TypeOK
<1>2. endpoints' = endpoints /\ s # None
  BY BusAssumption DEF processStringMessage
<1>3. CASE i = 0
  <2>1. NewClient(s, f) \in Client
    BY EmptySeq DEF NewClient, Client
  <2>2. evConnect' = [evConnect EXCEPT ![n] = Append(@, NewClient(s, f))] /\ Alive
    BY <1>2, <1>3 DEF processStringMessage
  <2>3. Append(evConnect[n], NewClient(s, f)) \in Seq(Client)
        /\ Len(Append(evConnect[n], NewClient(s, f))) = Len(evConnect[n]) + 1
    BY <1>1, <2>1
  <2>4. evConnect' \in [Nodes -> Seq(Client)]
    BY <1>1, <2>2, <2>3
  <2>5. \A m \in Nodes : Len(evConnect[m]) \in Nat /\ Len(evConnect[m]) <= Len(evConnect'[m])
    BY <1>1, <2>2, <2>3, LenProperties
  <2>6. \A m, q \in Nodes : endpoints'[m][q] <= Len(evConnect'[m])
    <3>1. \A m \in Nodes : Len(evConnect'[m]) \in Nat
      BY <2>4, LenProperties
    <3>2. \A m, q \in Nodes : endpoints[m][q] \in Nat /\ endpoints[m][q] <= Len(evConnect[m])
      BY DEF TypeOK
    <3>3. SUFFICES ASSUME NEW m \in Nodes, NEW q \in Nodes
                   PROVE  endpoints[m][q] <= Len(evConnect'[m])
      BY <1>2
    <3>4. endpoints[m][q] \in Nat /\ Len(evConnect[m]) \in Nat /\ Len(evConnect'[m]) \in Nat
      BY <2>5, <3>1, <3>2
    <3>5. endpoints[m][q] <= Len(evConnect[m]) /\ Len(evConnect[m]) <= Len(evConnect'[m])
      BY <2>5, <3>2
    <3> QED  BY <3>4, <3>5
  <2> QED  BY <1>2, <2>2, <2>4, <2>6 DEF TypeOK, Alive
<1>4. CASE i # 0 /\ evConnect[n][i].st = "open"
  <2> DEFINE c == evConnect[n][i]
             d == [c EXCEPT !.pipe = Append(@, f)]
  <2>1. i \in 1 .. Len(evConnect[n]) /\ c \in Client
    BY <1>1, <1>4, ElementOfSeq
  <2>2. d \in Client
    <3>1. c.pipe \in Seq(Frame)
      BY <2>1 DEF Client
    <3>2. Append(c.pipe, f) \in Seq(Frame)
      BY <3>1
    <3> QED  BY <2>1, <3>2 DEF Client
  <2>3. evConnect' = [evConnect EXCEPT ![n] = [@ EXCEPT ![i] = d]] /\ Alive
    BY <1>1, <1>2, <1>4, <2>1 DEF processStringMessage
  <2>4. [evConnect[n] EXCEPT ![i] = d] \in Seq(Client)
        /\ Len([evConnect[n] EXCEPT ![i] = d]) = Len(evConnect[n])
    BY <1>1, <2>1, <2>2, ExceptSeq
  <2> QED  BY <1>1, <1>2, <2>3, <2>4 DEF TypeOK, Alive
<1>5. CASE i # 0 /\ evConnect[n][i].st # "open"
  <2>1. evConnect' = evConnect /\ Die(n, "null_conn")
    BY <1>2, <1>5 DEF processStringMessage
  <2> QED  BY <1>1, <1>2, <2>1 DEF Die, TypeOK, Faults
<1> QED  BY <1>3, <1>4, <1>5

\* A client thread that changes its client leaves a client behind.
LEMMA ClientTypes ==
  ASSUME TypeOK, NEW n \in Nodes, NEW i \in DOMAIN evConnect[n], NEW d \in Client,
         evConnect' = [evConnect EXCEPT ![n] = [@ EXCEPT ![i] = d]]
  PROVE  /\ evConnect[n][i] \in Client
         /\ evConnect' \in [Nodes -> Seq(Client)]
         /\ \A m \in Nodes : Len(evConnect'[m]) = Len(evConnect[m])
<1>1. evConnect[n] \in Seq(Client) /\ i \in 1 .. Len(evConnect[n])
  BY LenProperties DEF TypeOK
<1>2. [evConnect[n] EXCEPT ![i] = d] \in Seq(Client)
      /\ Len([evConnect[n] EXCEPT ![i] = d]) = Len(evConnect[n])
  BY <1>1, ExceptSeq
<1> QED  BY <1>1, <1>2, ElementOfSeq DEF TypeOK

-----------------------------------------------------------------------------
(* Type correctness.                                                       *)

LEMMA InitTypes == Init => TypeOK
BY EmptySeq DEF Init, TypeOK, Faults

\* Registration touches neither queues nor clients.
LEMMA RegistrationTypes ==
  ASSUME TypeOK, NEW n \in Nodes, NEW a \in Addrs,
         Consumer(n, a) \/ AddSub(n, a) \/ LocalConsumer(n, a)
  PROVE  TypeOK'
<1> USE DEF TypeOK
<1>1. CASE Consumer(n, a)
  BY <1>1 DEF Consumer, Alive, netVars, history
<1>2. CASE AddSub(n, a)
  BY <1>2 DEF AddSub, Alive, netVars, history
<1>3. CASE LocalConsumer(n, a)
  BY <1>3 DEF LocalConsumer, Alive, netVars, history
<1> QED  BY <1>1, <1>2, <1>3

\* The steps of a client thread and of the network.
LEMMA ClientStepTypes ==
  ASSUME TypeOK, NEW n \in Nodes, NEW i \in DOMAIN evConnect[n],
         ClientStep(n, i) \/ Disconnected(n, i)
  PROVE  TypeOK'
<1> DEFINE c == evConnect[n][i]
           With(d) == evConnect' = [evConnect EXCEPT ![n] = [@ EXCEPT ![i] = d]]
<1>1. evConnect[n] \in Seq(Client) /\ i \in 1 .. Len(evConnect[n]) /\ c \in Client
  BY LenProperties, ElementOfSeq DEF TypeOK
<1>2. /\ c.to \in Nodes /\ c.msg \in Frame /\ c.pipe \in Seq(Frame)
      /\ ReqOf(c.msg) \in Reqs
      /\ \A k \in DOMAIN c.pipe : ReqOf(c.pipe[k]) \in Reqs
  <2>1. c.to \in Nodes /\ c.msg \in Frame /\ c.pipe \in Seq(Frame)
    BY <1>1 DEF Client
  <2>2. \A k \in DOMAIN c.pipe : c.pipe[k] \in Frame
    BY <2>1, LenProperties, ElementOfSeq
  <2> QED  BY <2>1, <2>2, FrameTypes
<1>3. CASE Dial(n, i)
  <2> DEFINE d == [c EXCEPT !.st = "dialing"]
  <2>1. d \in Client
    BY <1>1 DEF Client
  <2>2. With(d)
    BY <1>1, <1>3 DEF Dial, TypeOK
  <2>3. /\ evConnect' \in [Nodes -> Seq(Client)]
        /\ \A m \in Nodes : Len(evConnect'[m]) = Len(evConnect[m])
    BY <2>1, <2>2, ClientTypes
  <2>4. endpoints' = [endpoints EXCEPT ![n][c.to] = IF @ = 0 THEN i ELSE @]
    BY <1>3 DEF Dial
  <2>5. /\ endpoints' \in [Nodes -> [Nodes -> Nat]]
        /\ \A m, s \in Nodes : endpoints'[m][s] <= Len(evConnect[m])
    BY <1>1, <1>2, <2>4 DEF TypeOK
  <2> QED  BY <1>3, <2>3, <2>5 DEF Dial, TypeOK, Alive, regVars, history
<1>4. CASE Connected(n, i)
  <2> DEFINE d == [c EXCEPT !.st = "open", !.pipe = Append(@, c.msg)]
  <2>1. d \in Client
    <3>1. Append(c.pipe, c.msg) \in Seq(Frame)
      BY <1>2
    <3> QED  BY <1>1, <3>1 DEF Client
  <2>2. With(d)
    BY <1>1, <1>4 DEF Connected, TypeOK
  <2>3. /\ evConnect' \in [Nodes -> Seq(Client)]
        /\ \A m \in Nodes : Len(evConnect'[m]) = Len(evConnect[m])
    BY <2>1, <2>2, ClientTypes
  <2> QED  BY <1>4, <2>3 DEF Connected, TypeOK, Alive, regVars, history
<1>5. CASE ConnectFailed(n, i)
  <2> DEFINE d == [c EXCEPT !.st = "closed"]
  <2>1. d \in Client
    BY <1>1 DEF Client
  <2>2. With(d)
    BY <1>1, <1>5 DEF ConnectFailed, TypeOK
  <2>3. /\ evConnect' \in [Nodes -> Seq(Client)]
        /\ \A m \in Nodes : Len(evConnect'[m]) = Len(evConnect[m])
    BY <2>1, <2>2, ClientTypes
  <2>4. lost' \subseteq Reqs
    BY <1>2, <1>5 DEF ConnectFailed, Lose, TypeOK
  <2> QED  BY <1>5, <2>3, <2>4 DEF ConnectFailed, TypeOK, Alive, regVars
<1>6. CASE Disconnected(n, i)
  <2> DEFINE d == [c EXCEPT !.st = "closed", !.pipe = <<>>, !.torn = FALSE]
  <2>1. d \in Client
    BY <1>1, EmptySeq DEF Client
  <2>2. With(d)
    BY <1>1, <1>6 DEF Disconnected, TypeOK
  <2>3. /\ evConnect' \in [Nodes -> Seq(Client)]
        /\ \A m \in Nodes : Len(evConnect'[m]) = Len(evConnect[m])
    BY <2>1, <2>2, ClientTypes
  <2>4. lost' \subseteq Reqs
    BY <1>2, <1>6 DEF Disconnected, Lose, TypeOK
  <2> QED  BY <1>6, <2>3, <2>4 DEF Disconnected, TypeOK, Alive, regVars
<1> QED  BY <1>3, <1>4, <1>5, <1>6 DEF ClientStep

\* A read of a connection.
LEMMA OnMessageTypes ==
  ASSUME TypeOK, NEW n \in Nodes, NEW i \in DOMAIN evConnect[n],
         NEW k \in 0 .. Len(evConnect[n][i].pipe), NEW cut \in BOOLEAN, NEW l \in Loops,
         OnMessage(n, i, k, cut, l)
  PROVE  TypeOK'
<1> DEFINE c == evConnect[n][i]
           d == [c EXCEPT !.pipe = SubSeq(@, k + 1, Len(@)), !.torn = cut]
           last == IF cut THEN k + 1 ELSE k
           kind == IF c.torn THEN "rest" ELSE IF k = 0 THEN "head" ELSE "frame"
           t == [kind |-> kind, frame |-> c.pipe[1]]
<1>1. evConnect[n] \in Seq(Client) /\ i \in 1 .. Len(evConnect[n]) /\ c \in Client
  BY LenProperties, ElementOfSeq DEF TypeOK
<1>2. /\ c.to \in Nodes /\ c.pipe \in Seq(Frame)
      /\ k \in 0 .. Len(c.pipe) /\ last \in 1 .. Len(c.pipe)
  BY <1>1, LenProperties DEF Client, OnMessage
<1>3. \A j \in 1 .. Len(c.pipe) : c.pipe[j] \in Frame /\ ReqOf(c.pipe[j]) \in Reqs
  BY <1>2, ElementOfSeq, FrameTypes
<1>4. SubSeq(c.pipe, k + 1, Len(c.pipe)) \in Seq(Frame)
  BY <1>2, <1>3, SubSeqProperties
<1>5. d \in Client
  BY <1>1, <1>4 DEF Client
<1>6. evConnect' = [evConnect EXCEPT ![n] = [@ EXCEPT ![i] = d]]
  BY <1>1 DEF OnMessage, TypeOK
<1>7. /\ evConnect' \in [Nodes -> Seq(Client)]
      /\ \A m \in Nodes : Len(evConnect'[m]) = Len(evConnect[m])
  BY <1>5, <1>6, ClientTypes
<1>8. lost' \subseteq Reqs
  <2>1. PICK J \in SUBSET (1 .. last) : lost' = lost \cup {ReqOf(f) : f \in {c.pipe[j] : j \in J}}
    <3> DEFINE kept == IF kind = "frame" THEN {1} ELSE {}
    <3>1. \/ lost' = lost \cup {ReqOf(f) : f \in {c.pipe[j] : j \in 1 .. last}}
          \/ lost' = lost \cup {ReqOf(f) : f \in {c.pipe[j] : j \in (1 .. last) \ kept}}
      BY DEF OnMessage, Lose
    <3>2. (1 .. last) \ kept \in SUBSET (1 .. last)
      OBVIOUS
    <3> QED  BY <3>1, <3>2
  <2>2. \A j \in 1 .. last : ReqOf(c.pipe[j]) \in Reqs
    BY <1>2, <1>3
  <2>3. J \subseteq 1 .. last
    BY <2>1
  <2>4. lost \subseteq Reqs
    BY DEF TypeOK
  <2> QED  BY <2>1, <2>2, <2>3, <2>4
<1>9. queue' \in [Nodes -> [Loops -> Seq(Task)]]
  <2>1. t \in Task
    BY <1>2, <1>3 DEF Task, Received
  <2>2. UNCHANGED queue \/ Enqueue(c.to, l, t)
    BY DEF OnMessage
  <2>3. queue \in [Nodes -> [Loops -> Seq(Task)]]
    BY DEF TypeOK
  <2> QED  BY <1>2, <2>1, <2>2, <2>3, QueueTypes
<1> QED  BY <1>7, <1>8, <1>9 DEF OnMessage, TypeOK, Alive, regVars

\* The steps of an event loop, and request() which feeds it.
LEMMA LoopTypes ==
  ASSUME TypeOK, NEW n \in Nodes, NEW l \in Loops,
         \/ LoopStep(n, l)
         \/ \E r \in Reqs, a \in Addrs : Request(n, l, r, a)
  PROVE  TypeOK'
<1> DEFINE t == Head(queue[n][l])
<1>1. CASE \E r \in Reqs, a \in Addrs : Request(n, l, r, a)
  <2>1. PICK r \in Reqs, a \in Addrs : Request(n, l, r, a)
    BY <1>1
  <2>2. [kind |-> "request", req |-> r, address |-> a] \in Task
    BY DEF Task
  <2>3. queue' \in [Nodes -> [Loops -> Seq(Task)]]
    BY <2>1, <2>2, QueueTypes DEF Request
  <2>4. call' \in [Reqs -> Call \cup {None}]
    BY <2>1 DEF Request, Call, TypeOK
  <2> QED  BY <2>1, <2>3, <2>4 DEF Request, TypeOK, Alive, regVars, netVars
<1>2. ASSUME NEW kind, Running(n, l, kind)
      PROVE  /\ t \in Task /\ t.kind = kind /\ queue[n][l] # <<>>
             /\ Finish(n, l) => queue' \in [Nodes -> [Loops -> Seq(Task)]]
  <2>1. queue[n][l] # <<>> /\ t.kind = kind
    BY <1>2 DEF Running
  <2>2. t \in Task /\ Tail(queue[n][l]) \in Seq(Task)
    BY <2>1, QueueTypes
  <2>3. queue \in [Nodes -> [Loops -> Seq(Task)]]
    BY DEF TypeOK
  <2>4. Finish(n, l) => queue' \in [Nodes -> [Loops -> Seq(Task)]]
    BY <2>2, <2>3 DEF Finish
  <2> QED  BY <2>1, <2>2, <2>4
<1>3. CASE RequestLocal(n, l)
  <2>1. Running(n, l, "request") /\ Finish(n, l) /\ Invoke(t.req) /\ Answer(t.req, n)
    BY <1>3 DEF RequestLocal
  <2>2. t.req \in Reqs
    <3>1. t \in Task /\ t.kind = "request"
      BY <1>2, <2>1
    <3> QED  BY <3>1, TaskFields
  <2>3. /\ invoked' \in [Reqs -> Nat] /\ answered' \in [Reqs -> Nat]
        /\ body' \in [Reqs -> Nodes \cup Strays \cup {None}]
    BY <2>1, <2>2, HistoryTypes
  <2> QED  BY <1>2, <1>3, <2>1, <2>3 DEF RequestLocal, TypeOK, Alive, regVars, netVars
<1>4. CASE RequestUnknown(n, l)
  BY <1>4 DEF RequestUnknown, Die, Faults, TypeOK, regVars, netVars, history
<1>5. ASSUME NEW s \in Nodes, RequestRouted(n, l, s)
      PROVE  TypeOK'
  <2>1. Running(n, l, "request")
    BY <1>5 DEF RequestRouted
  <2>2. t.req \in Reqs /\ t.address \in Addrs
    BY <1>2, <2>1 DEF Task, Received
  <2> DEFINE u == [kind |-> "routed", msg |-> RoutedMessage(t.req, t.address, s)]
  <2>3. u \in Task
    BY <2>2 DEF Task, Message, RoutedMessage
  <2>4. queue' = [queue EXCEPT ![n][l] = [@ EXCEPT ![1] = u]]
    BY <1>5 DEF RequestRouted, TypeOK
  <2>5. queue' \in [Nodes -> [Loops -> Seq(Task)]]
    BY <1>2, <2>1, <2>3, <2>4, QueueTypes DEF TypeOK
  <2>6. route' \in [Reqs -> Nodes \cup {None}] /\ publishers' \in [Nodes -> SUBSET Reqs]
    BY <1>5, <2>2 DEF RequestRouted, TypeOK
  <2> QED  BY <1>5, <2>5, <2>6 DEF RequestRouted, TypeOK, Alive, regVars, netVars
<1>6. CASE SelfServed(n, l)
  <2>1. Running(n, l, "routed")
    BY <1>6 DEF SelfServed
  <2>2. t.msg.address \in Reqs
    BY <1>2, <2>1 DEF Task, Message, Received
  <2>3. CASE t.msg.replay \in consumers[n]
    <3>1. Finish(n, l) /\ Alive
      BY <1>6, <2>3 DEF SelfServed
    <3>2. invoked' \in [Reqs -> Nat]
      BY <1>6, <2>2, <2>3, HistoryTypes DEF SelfServed
    <3>3. Answer(t.msg.address, n) \/ UNCHANGED <<answered, body>>
      BY <1>6, <2>3 DEF SelfServed
    <3>4. /\ answered' \in [Reqs -> Nat]
          /\ body' \in [Reqs -> Nodes \cup Strays \cup {None}]
      BY <2>2, <3>3, HistoryTypes DEF TypeOK
    <3>5. publishers' \in [Nodes -> SUBSET Reqs]
      <4>1. publishers \in [Nodes -> SUBSET Reqs]
        BY DEF TypeOK
      <4>2. \E r : publishers' = [publishers EXCEPT ![n] = @ \ {r}]
        BY <1>6, <2>3 DEF SelfServed
      <4> QED  BY <4>1, <4>2
    <3> QED  BY <1>2, <1>6, <2>1, <3>1, <3>2, <3>4, <3>5 DEF SelfServed, TypeOK, Alive, regVars, netVars
  <2>4. CASE t.msg.replay \notin consumers[n]
    BY <1>6, <2>4 DEF SelfServed, Die, Faults, TypeOK, regVars, netVars
  <2> QED  BY <2>3, <2>4
<1>7. CASE RemoteSent(n, l)
  <2>1. Running(n, l, "routed") /\ Finish(n, l)
    BY <1>7 DEF RemoteSent
  <2>2. t.msg \in Message /\ t.msg.server \in Nodes
    <3>1. t \in Task /\ t.kind = "routed"
      BY <1>2, <2>1
    <3> QED  BY <3>1, TaskFields
  <2>3. to_string([t.msg EXCEPT !.server = n]) \in Frame
    BY <2>2, FrameTypes DEF Frame
  <2>4. processStringMessage(n, t.msg.server, to_string([t.msg EXCEPT !.server = n]))
    BY <1>7 DEF RemoteSent
  <2>5. /\ evConnect' \in [Nodes -> Seq(Client)]
        /\ endpoints' \in [Nodes -> [Nodes -> Nat]]
        /\ \A m, q \in Nodes : endpoints'[m][q] <= Len(evConnect'[m])
        /\ status' \in [Nodes -> {"joined", "running", "down"}]
        /\ fault' \in [Nodes -> Faults]
    BY <2>2, <2>3, <2>4, SendTypes
  <2> QED  BY <1>2, <1>7, <2>1, <2>5 DEF RemoteSent, TypeOK, regVars, history
<1>8. ASSUME NEW f, NEW stray \in Strays, ReplyReceived(n, l, f, stray)
      PROVE  TypeOK'
  <2> DEFINE m == to_message(f, stray)
  <2>1. PICK kind \in Received : Running(n, l, kind)
    BY <1>8 DEF ReplyReceived
  <2>5. m.address \in Reqs
    BY <1>8 DEF ReplyReceived
  <2>2. m.body \in Strays
    BY DEF to_message
  <2>3. CASE m.address \in publishers[n]
    <3>1. Finish(n, l) /\ Alive /\ Answer(m.address, m.body)
      BY <1>8, <2>3 DEF ReplyReceived
    <3>2. /\ answered' \in [Reqs -> Nat]
          /\ body' \in [Reqs -> Nodes \cup Strays \cup {None}]
      BY <2>2, <2>5, <3>1, HistoryTypes
    <3>3. publishers' \in [Nodes -> SUBSET Reqs]
      <4>1. publishers \in [Nodes -> SUBSET Reqs]
        BY DEF TypeOK
      <4>2. \E r : publishers' = [publishers EXCEPT ![n] = @ \ {r}]
        BY <1>8, <2>3 DEF ReplyReceived
      <4> QED  BY <4>1, <4>2
    <3> QED  BY <1>2, <1>8, <2>1, <3>1, <3>2, <3>3
                 DEF ReplyReceived, TypeOK, Alive, regVars, netVars
  <2>4. CASE m.address \notin publishers[n]
    BY <1>8, <2>4 DEF ReplyReceived, Die, Faults, TypeOK, regVars, netVars
  <2> QED  BY <2>3, <2>4
<1>9. ASSUME NEW f, NEW stray \in Strays, RequestServed(n, l, f, stray)
      PROVE  TypeOK'
  <2> DEFINE m == to_message(f, stray)
  <2>1. PICK kind \in Received : Running(n, l, kind)
    BY <1>9 DEF RequestServed
  <2>2. f \in Parsed(t) /\ t \in Task /\ t.kind \in Received
    BY <1>2, <1>9, <2>1 DEF RequestServed
  <2>3. m.server = f.server /\ f.server \in Nodes \cup {None}
    BY <2>2, ParsedShape DEF to_message
  <2>4. CASE m.address \in consumers[n]
    <3>1. /\ Finish(n, l)
          /\ processStringMessage(n, m.server, to_string(Response(m)))
      BY <1>9, <2>4 DEF RequestServed
    <3>3. /\ evConnect' \in [Nodes -> Seq(Client)]
          /\ endpoints' \in [Nodes -> [Nodes -> Nat]]
          /\ \A p, q \in Nodes : endpoints'[p][q] <= Len(evConnect'[p])
          /\ status' \in [Nodes -> {"joined", "running", "down"}]
          /\ fault' \in [Nodes -> Faults]
      <4>1. CASE m.server = None
        <5>1. UNCHANGED netVars /\ (Alive \/ Die(n, "null_conn"))
          BY <3>1, <4>1, SendNowhere
        <5> QED  BY <5>1 DEF TypeOK, netVars, Alive, Die, Faults
      <4>2. CASE m.server # None
        <5>1. m.server \in Nodes /\ f = t.frame /\ t.frame \in Frame
          BY <2>2, <2>3, <4>2, ParsedShape
        <5>2. to_string(Response(m)) \in Frame
          <6>1. f \in RequestFrame
            BY <5>1, BusAssumption, <2>3 DEF Frame, ReplyFrame
          <6> QED  BY <6>1 DEF to_message, to_string, Response, Frame, RequestFrame, ReplyFrame
        <5> QED  BY <3>1, <5>1, <5>2, SendTypes
      <4> QED  BY <4>1, <4>2
    <3>4. invoked' \in [Reqs -> Nat]
      <4>1. Invoke(ReqOf(t.frame)) \/ UNCHANGED invoked
        BY <1>9, <2>4 DEF RequestServed
      <4>2. ReqOf(t.frame) \in Reqs
        BY <2>2, ParsedShape, FrameTypes
      <4> QED  BY <4>1, <4>2, HistoryTypes DEF TypeOK
    <3> QED  BY <1>2, <1>9, <2>1, <3>1, <3>3, <3>4
                 DEF RequestServed, TypeOK, regVars
  <2>5. CASE m.address \notin consumers[n]
    BY <1>9, <2>5 DEF RequestServed, Die, Faults, TypeOK, regVars, netVars
  <2> QED  BY <2>4, <2>5
<1> QED  BY <1>1, <1>3, <1>4, <1>5, <1>6, <1>7, <1>8, <1>9 DEF LoopStep

LEMMA StepTypes == TypeOK /\ [Next]_vars => TypeOK'
<1> SUFFICES ASSUME TypeOK, [Next]_vars
             PROVE  TypeOK'
  OBVIOUS
<1>1. CASE UNCHANGED vars
  BY <1>1 DEF vars, regVars, netVars, history, TypeOK
<1>2. ASSUME NEW n \in Nodes, NEW a \in Addrs,
             \/ Consumer(n, a) \/ AddSub(n, a) \/ LocalConsumer(n, a)
             \/ \E l \in Loops, r \in Reqs : Request(n, l, r, a)
      PROVE  TypeOK'
  BY <1>2, RegistrationTypes, LoopTypes
<1>3. ASSUME NEW n \in Nodes, Run(n) \/ Kill(n)
      PROVE  TypeOK'
  <2> USE DEF TypeOK
  <2>1. CASE Run(n)
    BY <2>1 DEF Run, regVars, netVars, history
  <2>2. CASE Kill(n)
    BY <2>2 DEF Kill, Die, Faults, regVars, netVars, history
  <2> QED  BY <1>3, <2>1, <2>2
<1>4. ASSUME NEW n \in Nodes, NEW l \in Loops, LoopStep(n, l)
      PROVE  TypeOK'
  BY <1>4, LoopTypes
<1>5. ASSUME NEW n \in Nodes, NEW i \in DOMAIN evConnect[n],
             ClientStep(n, i) \/ Disconnected(n, i)
      PROVE  TypeOK'
  BY <1>5, ClientStepTypes
<1>6. ASSUME NEW n \in Nodes, NEW i \in DOMAIN evConnect[n],
             NEW k \in 0 .. Len(evConnect[n][i].pipe), NEW cut \in BOOLEAN, NEW l \in Loops,
             OnMessage(n, i, k, cut, l)
      PROVE  TypeOK'
  BY <1>6, OnMessageTypes
<1> QED  BY <1>1, <1>2, <1>3, <1>4, <1>5, <1>6 DEF Next

\* Every reachable state of the bus is well typed: in particular endpoints only
\* names clients that exist, and what is sent, queued and read are frames of a
\* request or of its reply, for any number of nodes, loops and requests.
THEOREM TypeCorrect == Spec => []TypeOK
BY InitTypes, StepTypes, PTL DEF Spec

-----------------------------------------------------------------------------
(* Every message finds its consumer.  ConsumersKnown is inductive: handlers *)
(* are only ever added, so each part survives a step that leaves its tasks  *)
(* and frames alone, and a new task or frame has to be justified once.      *)

\* The elements of a sequence after Append, and of a suffix.
LEMMA AppendedElements ==
  ASSUME NEW S, NEW p \in Seq(S), NEW e \in S
  PROVE  \A k \in DOMAIN Append(p, e) :
           \/ Append(p, e)[k] = e
           \/ k \in DOMAIN p /\ Append(p, e)[k] = p[k]
<1>1. /\ DOMAIN Append(p, e) = 1 .. Len(p) + 1 /\ DOMAIN p = 1 .. Len(p)
      /\ Len(p) \in Nat
      /\ \A k \in 1 .. Len(p) : Append(p, e)[k] = p[k]
      /\ Append(p, e)[Len(p) + 1] = e
  BY AppendProperties, LenProperties
<1> QED  BY <1>1

\* What SubSeq leaves of a sequence.
LEMMA SuffixProperties ==
  ASSUME NEW S, NEW p \in Seq(S), NEW k \in 0 .. Len(p)
  PROVE  /\ SubSeq(p, k + 1, Len(p)) \in Seq(S)
         /\ Len(SubSeq(p, k + 1, Len(p))) = Len(p) - k
         /\ \A j \in 1 .. Len(p) - k : SubSeq(p, k + 1, Len(p))[j] = p[k + j]
<1> DEFINE q == SubSeq(p, k + 1, Len(p))
<1>1. PICK x \in Nat : x = Len(p)
  BY LenProperties
<1>2. k \in 0 .. x /\ k + 1 \in Int /\ x \in Int
  BY <1>1
<1>3. \A j \in k + 1 .. x : p[j] \in S
  BY <1>1, <1>2, ElementOfSeq
<1>4. /\ SubSeq(p, k + 1, x) \in Seq(S)
      /\ Len(SubSeq(p, k + 1, x)) = IF k + 1 <= x THEN x - (k + 1) + 1 ELSE 0
      /\ \A j \in 1 .. x - (k + 1) + 1 : SubSeq(p, k + 1, x)[j] = p[(k + 1) + j - 1]
  BY <1>2, <1>3, SubSeqProperties
<1>5. q \in Seq(S) /\ Len(q) = (IF k + 1 <= x THEN x - (k + 1) + 1 ELSE 0)
  BY <1>1, <1>4
<1>6. \A j \in 1 .. x - (k + 1) + 1 : q[j] = p[(k + 1) + j - 1]
  BY <1>1, <1>4
<1> HIDE DEF q
<1>7. Len(q) = x - k
  BY <1>2, <1>5
<1>8. \A j \in 1 .. x - k : j \in 1 .. x - (k + 1) + 1 /\ (k + 1) + j - 1 = k + j
  BY <1>2
<1>9. \A j \in 1 .. x - k : q[j] = p[k + j]
  BY <1>6, <1>8
<1> QED  BY <1>1, <1>5, <1>7, <1>9 DEF q

LEMMA SuffixElements ==
  ASSUME NEW S, NEW p \in Seq(S), NEW k \in 0 .. Len(p)
  PROVE  \A j \in DOMAIN SubSeq(p, k + 1, Len(p)) :
           \E h \in DOMAIN p : SubSeq(p, k + 1, Len(p))[j] = p[h]
<1> DEFINE rest == SubSeq(p, k + 1, Len(p))
<1>1. DOMAIN p = 1 .. Len(p) /\ Len(p) \in Nat /\ k \in 0 .. Len(p)
  BY LenProperties
<1>2. \A j \in k + 1 .. Len(p) : p[j] \in S
  BY <1>1, ElementOfSeq
<1>3. /\ rest \in Seq(S)
      /\ Len(rest) = IF k + 1 <= Len(p) THEN Len(p) - (k + 1) + 1 ELSE 0
      /\ \A j \in 1 .. Len(p) - (k + 1) + 1 : rest[j] = p[(k + 1) + j - 1]
  BY <1>1, <1>2, SubSeqProperties
<1>4. DOMAIN rest = 1 .. Len(p) - k
  BY <1>1, <1>3, LenProperties
<1>5. ASSUME NEW j \in 1 .. Len(p) - k
      PROVE  k + j \in DOMAIN p /\ rest[j] = p[k + j]
  BY <1>1, <1>3, <1>5
<1> QED  BY <1>4, <1>5

\* What a step leaves as it is keeps its part of ConsumersKnown.
LEMMA Monotone ==
  ASSUME TypeOK, ConsumersKnown, \A n \in Nodes : consumers[n] \subseteq consumers'[n]
  PROVE  /\ UNCHANGED queue => TasksKnown'
         /\ UNCHANGED evConnect => ClientsKnown'
         /\ UNCHANGED <<adding, subs>> => SubsKnown'
         /\ \A s \in Nodes, f \in Frame : FrameKnown(s, f) => FrameKnown(s, f)'
         /\ \A n \in Nodes, t \in Task : TaskKnown(n, t) => TaskKnown(n, t)'
         /\ \A c \in Client : ClientKnown(c) => ClientKnown(c)'
<1>1. \A s \in Nodes, f \in Frame : FrameKnown(s, f) => FrameKnown(s, f)'
  BY DEF FrameKnown
<1>2. ASSUME NEW n \in Nodes, NEW t \in Task, TaskKnown(n, t)
      PROVE  TaskKnown(n, t)'
  BY <1>1, <1>2 DEF TaskKnown, Task, Message, Received
<1>3. ASSUME NEW c \in Client, ClientKnown(c)
      PROVE  ClientKnown(c)'
  <2>1. c.to \in Nodes /\ c.msg \in Frame /\ \A k \in DOMAIN c.pipe : c.pipe[k] \in Frame
    BY LenProperties, ElementOfSeq DEF Client
  <2> QED  BY <1>1, <1>3, <2>1 DEF ClientKnown
<1>4. ASSUME UNCHANGED queue
      PROVE  TasksKnown'
  <2>1. \A n \in Nodes, l \in Loops : \A k \in DOMAIN queue[n][l] : queue[n][l][k] \in Task
    BY LenProperties, ElementOfSeq DEF TypeOK
  <2> QED  BY <1>2, <1>4, <2>1 DEF ConsumersKnown, TasksKnown
<1>5. ASSUME UNCHANGED evConnect
      PROVE  ClientsKnown'
  <2>1. \A n \in Nodes : \A i \in DOMAIN evConnect[n] : evConnect[n][i] \in Client
    BY LenProperties, ElementOfSeq DEF TypeOK
  <2> QED  BY <1>3, <1>5, <2>1 DEF ConsumersKnown, ClientsKnown
<1>6. UNCHANGED <<adding, subs>> => SubsKnown'
  BY DEF ConsumersKnown, SubsKnown
<1> QED  BY <1>1, <1>2, <1>3, <1>4, <1>5, <1>6

\* A queue changes by a task that is known, or by losing its head.
LEMMA QueueKnown ==
  ASSUME TypeOK, ConsumersKnown, UNCHANGED consumers, NEW n \in Nodes, NEW l \in Loops
  PROVE  /\ \A t \in Task : Enqueue(n, l, t) /\ TaskKnown(n, t) => TasksKnown'
         /\ queue[n][l] # <<>> =>
              /\ TaskKnown(n, Head(queue[n][l]))
              /\ Finish(n, l) => TasksKnown'
              /\ \A t \in Task :
                   TaskKnown(n, t) /\ queue' = [queue EXCEPT ![n][l] = [@ EXCEPT ![1] = t]]
                     => TasksKnown'
<1> DEFINE q == queue[n][l]
           Known(p) == \A k \in DOMAIN p : TaskKnown(n, p[k])
<1>1. q \in Seq(Task) /\ queue \in [Nodes -> [Loops -> Seq(Task)]]
  BY DEF TypeOK
<1>2. Known(q)
  BY DEF ConsumersKnown, TasksKnown
<1>3. ASSUME NEW p, Known(p), queue' = [queue EXCEPT ![n][l] = p]
      PROVE  TasksKnown'
  <2>1. ASSUME NEW m \in Nodes, NEW j \in Loops, NEW k \in DOMAIN queue'[m][j]
        PROVE  TaskKnown(m, queue[m][j][k])'
    <3>1. CASE m = n /\ j = l
      BY <1>1, <1>3, <3>1 DEF TaskKnown, FrameKnown
    <3>2. CASE ~ (m = n /\ j = l)
      BY <1>1, <1>3, <3>2 DEF TaskKnown, FrameKnown, ConsumersKnown, TasksKnown
    <3> QED  BY <3>1, <3>2
  <2> QED  BY <2>1 DEF TasksKnown
<1>4. ASSUME NEW t \in Task, Enqueue(n, l, t), TaskKnown(n, t)
      PROVE  TasksKnown'
  <2>1. Known(Append(q, t))
    BY <1>1, <1>2, <1>4
  <2> QED  BY <1>3, <1>4, <2>1 DEF Enqueue
<1>5. ASSUME q # <<>>
      PROVE  TaskKnown(n, Head(q)) /\ Known(Tail(q)) /\ 1 \in 1 .. Len(q)
  <2>1. 1 \in DOMAIN q /\ Head(q) = q[1] /\ 1 \in 1 .. Len(q)
    BY <1>1, <1>5, EmptySeq, LenProperties
  <2>2. \A k \in DOMAIN Tail(q) : k + 1 \in DOMAIN q /\ Tail(q)[k] = q[k + 1]
    BY <1>1, <1>5, HeadTailProperties, LenProperties
  <2> QED  BY <1>2, <2>1, <2>2
<1>6. ASSUME q # <<>>, Finish(n, l)
      PROVE  TasksKnown'
  BY <1>3, <1>5, <1>6 DEF Finish
<1>7. ASSUME q # <<>>, NEW t \in Task, TaskKnown(n, t),
             queue' = [queue EXCEPT ![n][l] = [@ EXCEPT ![1] = t]]
      PROVE  TasksKnown'
  <2>1. Known([q EXCEPT ![1] = t])
    BY <1>1, <1>2, <1>7
  <2> QED  BY <1>3, <1>7, <2>1
<1> QED  BY <1>4, <1>5, <1>6, <1>7

\* Replacing a client by one that is known.
LEMMA ClientReplaced ==
  ASSUME TypeOK, ConsumersKnown, UNCHANGED consumers,
         NEW n \in Nodes, NEW i \in DOMAIN evConnect[n], NEW d, ClientKnown(d),
         evConnect' = [evConnect EXCEPT ![n] = [@ EXCEPT ![i] = d]]
  PROVE  ClientsKnown'
<1>1. evConnect \in [Nodes -> Seq(Client)]
  BY DEF TypeOK
<1>2. ASSUME NEW m \in Nodes, NEW j \in DOMAIN evConnect'[m]
      PROVE  ClientKnown(evConnect[m][j])'
  <2>1. CASE m = n /\ j = i
    BY <1>1, <2>1 DEF ClientKnown, FrameKnown
  <2>2. CASE ~ (m = n /\ j = i)
    <3>1. j \in DOMAIN evConnect[m] /\ evConnect'[m][j] = evConnect[m][j]
      BY <1>1, <1>2, <2>2
    <3> QED  BY <3>1 DEF ClientKnown, FrameKnown, ConsumersKnown, ClientsKnown
  <2> QED  BY <2>1, <2>2
<1> QED  BY <1>2 DEF ClientsKnown

\* Sending a frame that is known for the node it is sent to.
LEMMA SendKnown ==
  ASSUME TypeOK, ConsumersKnown, UNCHANGED consumers, NEW n \in Nodes, NEW s \in Nodes,
         NEW f \in Frame, FrameKnown(s, f), processStringMessage(n, s, f)
  PROVE  ClientsKnown' /\ EndpointsKnown' /\ NoUnknownConsumer'
<1> DEFINE i == endpoints[n][s]
<1>1. /\ evConnect \in [Nodes -> Seq(Client)] /\ endpoints' = endpoints
      /\ i \in Nat /\ i <= Len(evConnect[n])
      /\ i # 0 => i \in DOMAIN evConnect[n] /\ evConnect[n][i].to = s
      /\ \A m \in Nodes : DOMAIN evConnect[m] = 1 .. Len(evConnect[m])
      /\ s # None
  BY LenProperties, BusAssumption DEF TypeOK, processStringMessage, ConsumersKnown, EndpointsKnown
<1>2. \A m, q \in Nodes : endpoints[m][q] # 0 =>
        endpoints[m][q] \in DOMAIN evConnect[m] /\ evConnect[m][endpoints[m][q]].to = q
  <2>1. \A m, q \in Nodes : endpoints[m][q] \in Nat /\ endpoints[m][q] <= Len(evConnect[m])
    BY DEF TypeOK
  <2>2. \A m \in Nodes : Len(evConnect[m]) \in Nat
    BY <1>1, LenProperties
  <2>3. \A m, q \in Nodes : endpoints[m][q] # 0 => endpoints[m][q] \in DOMAIN evConnect[m]
    BY <1>1, <2>1, <2>2
  <2> QED  BY <2>3 DEF ConsumersKnown, EndpointsKnown
<1>3. CASE i = 0
  <2> DEFINE c == NewClient(s, f)
  <2>1. evConnect' = [evConnect EXCEPT ![n] = Append(@, c)] /\ Alive
    BY <1>1, <1>3 DEF processStringMessage
  <2>2. ClientKnown(c)
    BY DEF ClientKnown, NewClient
  <2>3. ASSUME NEW m \in Nodes, NEW j \in DOMAIN evConnect'[m]
        PROVE  \/ m = n /\ j = Len(evConnect[n]) + 1 /\ evConnect'[m][j] = c
               \/ j \in DOMAIN evConnect[m] /\ evConnect'[m][j] = evConnect[m][j]
    BY <1>1, <2>1, <2>3
  <2>4. ASSUME NEW m \in Nodes, NEW j \in DOMAIN evConnect'[m]
        PROVE  ClientKnown(evConnect[m][j])'
    BY <2>2, <2>3, <2>4 DEF ClientKnown, FrameKnown, ConsumersKnown, ClientsKnown
  <2>5. ASSUME NEW m \in Nodes, NEW j \in DOMAIN evConnect[m]
        PROVE  evConnect'[m][j] = evConnect[m][j]
    BY <1>1, <2>1, <2>5
  <2>6. EndpointsKnown'
    BY <1>1, <1>2, <2>5 DEF EndpointsKnown
  <2> QED  BY <2>1, <2>4, <2>6 DEF ClientsKnown, Alive, ConsumersKnown, NoUnknownConsumer
<1>4. CASE i # 0 /\ evConnect[n][i].st = "open"
  <2> DEFINE c == evConnect[n][i]
             d == [c EXCEPT !.pipe = Append(@, f)]
  <2>1. c \in Client /\ c.pipe \in Seq(Frame)
    <3>1. c \in Client
      BY <1>1, <1>4, ElementOfSeq
    <3> QED  BY <3>1 DEF Client
  <2>2. evConnect' = [evConnect EXCEPT ![n] = [@ EXCEPT ![i] = d]] /\ Alive
    BY <1>1, <1>4, <2>1 DEF processStringMessage
  <2>3. d.to = s /\ d.msg = c.msg /\ d.pipe = Append(c.pipe, f)
    BY <1>1, <1>4, <2>1 DEF Client
  <2>4. ClientKnown(c)
    BY <1>1, <1>4 DEF ConsumersKnown, ClientsKnown
  <2>5. ClientKnown(d)
    <3> DEFINE p == c.pipe
    <3>1. p \in Seq(Frame)
      BY <2>1
    <3> HIDE DEF p
    <3>2. \A k \in DOMAIN Append(p, f) :
            \/ Append(p, f)[k] = f
            \/ k \in DOMAIN p /\ Append(p, f)[k] = p[k]
      BY <3>1, AppendedElements
    <3> QED  BY <1>1, <1>4, <2>3, <2>4, <3>2 DEF ClientKnown, p
  <2>6. ClientsKnown'
    BY <1>1, <1>4, <2>2, <2>5, ClientReplaced
  <2>7. EndpointsKnown'
    <3>1. \A m \in Nodes : \A j \in DOMAIN evConnect[m] : evConnect'[m][j].to = evConnect[m][j].to
      BY <1>1, <1>4, <2>2, <2>3
    <3>2. ASSUME NEW m \in Nodes, NEW q \in Nodes, endpoints'[m][q] # 0
          PROVE  evConnect'[m][endpoints'[m][q]].to = q
      <4> DEFINE j == endpoints[m][q]
      <4>1. endpoints' = endpoints
        BY <1>1
      <4>2. j \in DOMAIN evConnect[m] /\ evConnect[m][j].to = q
        BY <1>2, <3>2, <4>1
      <4>3. evConnect'[m][j].to = q
        BY <3>1, <4>2
      <4> QED  BY <4>1, <4>3
    <3> QED  BY <3>2 DEF EndpointsKnown
  <2> QED  BY <2>2, <2>6, <2>7 DEF Alive, ConsumersKnown, NoUnknownConsumer
<1>5. CASE i # 0 /\ evConnect[n][i].st # "open"
  <2>1. evConnect' = evConnect /\ Die(n, "null_conn")
    BY <1>1, <1>5 DEF processStringMessage
  <2>2. NoUnknownConsumer'
    BY <2>1 DEF Die, TypeOK, ConsumersKnown, NoUnknownConsumer
  <2>3. EndpointsKnown'
    BY <1>1, <2>1 DEF ConsumersKnown, EndpointsKnown
  <2> QED  BY <2>1, <2>2, <2>3, Monotone
<1> QED  BY <1>3, <1>4, <1>5

\* Steps that leave queues, clients and endpoints alone.
LEMMA RegistrationKnown ==
  ASSUME TypeOK, ConsumersKnown, UNCHANGED <<queue, evConnect, endpoints>>,
         \/ \E n \in Nodes, a \in Addrs : Consumer(n, a) \/ AddSub(n, a) \/ LocalConsumer(n, a)
         \/ \E n \in Nodes : Run(n) \/ Kill(n)
  PROVE  ConsumersKnown'
<1>1. /\ \A n \in Nodes : consumers[n] \subseteq consumers'[n]
      /\ SubsKnown'
  <2>1. CASE \E n \in Nodes, a \in Addrs : Consumer(n, a)
    BY <2>1 DEF Consumer, TypeOK, ConsumersKnown, SubsKnown
  <2>2. CASE \E n \in Nodes, a \in Addrs : AddSub(n, a)
    BY <2>2 DEF AddSub, TypeOK, ConsumersKnown, SubsKnown
  <2>3. CASE \E n \in Nodes, a \in Addrs : LocalConsumer(n, a)
    BY <2>3 DEF LocalConsumer, ConsumersKnown, SubsKnown
  <2>4. CASE \E n \in Nodes : Run(n) \/ Kill(n)
    BY <2>4 DEF Run, Kill, regVars, ConsumersKnown, SubsKnown
  <2> QED  BY <2>1, <2>2, <2>3, <2>4
<1>2. NoUnknownConsumer'
  BY DEF Consumer, AddSub, LocalConsumer, Run, Kill, Die, Alive, TypeOK,
         ConsumersKnown, NoUnknownConsumer
<1>3. TasksKnown' /\ ClientsKnown'
  BY <1>1, Monotone
<1>4. EndpointsKnown'
  BY DEF ConsumersKnown, EndpointsKnown
<1> QED  BY <1>1, <1>2, <1>3, <1>4 DEF ConsumersKnown

\* A client thread, the network and a read only move frames along.
LEMMA ClientStepKnown ==
  ASSUME TypeOK, ConsumersKnown, NEW n \in Nodes, NEW i \in DOMAIN evConnect[n],
         \/ ClientStep(n, i) \/ Disconnected(n, i)
         \/ \E k \in 0 .. Len(evConnect[n][i].pipe), cut \in BOOLEAN, l \in Loops :
              OnMessage(n, i, k, cut, l)
  PROVE  ConsumersKnown'
<1> DEFINE c == evConnect[n][i]
<1>1. /\ evConnect \in [Nodes -> Seq(Client)] /\ i \in 1 .. Len(evConnect[n])
      /\ \A m \in Nodes : DOMAIN evConnect[m] = 1 .. Len(evConnect[m])
  BY LenProperties DEF TypeOK
<1>2. c \in Client
  BY <1>1, ElementOfSeq
<1>3. c.to \in Nodes /\ c.msg \in Frame /\ c.pipe \in Seq(Frame)
  BY <1>2 DEF Client
<1>4. ClientKnown(c)
  BY DEF ConsumersKnown, ClientsKnown
<1>5. /\ UNCHANGED <<consumers, adding, subs, fault>>
      /\ SubsKnown' /\ NoUnknownConsumer'
  <2>1. UNCHANGED <<consumers, adding, subs, fault>>
    BY DEF ClientStep, Dial, Connected, ConnectFailed, Disconnected, OnMessage, Alive, regVars
  <2> QED  BY <2>1 DEF ConsumersKnown, SubsKnown, NoUnknownConsumer
<1>6. \E d : /\ evConnect' = [evConnect EXCEPT ![n] = [@ EXCEPT ![i] = d]]
             /\ d.to = c.to /\ ClientKnown(d)
  <2>1. CASE Dial(n, i)
    <3> DEFINE d == [c EXCEPT !.st = "dialing"]
    <3>1. evConnect' = [evConnect EXCEPT ![n] = [@ EXCEPT ![i] = d]]
      BY <1>1, <2>1 DEF Dial
    <3>2. d.to = c.to /\ d.msg = c.msg /\ d.pipe = c.pipe
      BY <1>2 DEF Client
    <3>3. ClientKnown(d)
      BY <1>4, <3>2 DEF ClientKnown
    <3> QED  BY <3>1, <3>2, <3>3
  <2>2. CASE Connected(n, i)
    <3> DEFINE d == [c EXCEPT !.st = "open", !.pipe = Append(@, c.msg)]
    <3>1. evConnect' = [evConnect EXCEPT ![n] = [@ EXCEPT ![i] = d]]
      BY <1>1, <2>2 DEF Connected
    <3>2. d.to = c.to /\ d.msg = c.msg /\ d.pipe = Append(c.pipe, c.msg)
      BY <1>2 DEF Client
    <3>3. \A k \in DOMAIN Append(c.pipe, c.msg) :
            \/ Append(c.pipe, c.msg)[k] = c.msg
            \/ k \in DOMAIN c.pipe /\ Append(c.pipe, c.msg)[k] = c.pipe[k]
      BY <1>3, AppendedElements
    <3>4. ClientKnown(d)
      BY <1>4, <3>2, <3>3 DEF ClientKnown
    <3> QED  BY <3>1, <3>2, <3>4
  <2>3. CASE ConnectFailed(n, i)
    <3> DEFINE d == [c EXCEPT !.st = "closed"]
    <3>1. evConnect' = [evConnect EXCEPT ![n] = [@ EXCEPT ![i] = d]]
      BY <1>1, <2>3 DEF ConnectFailed
    <3>2. d.to = c.to /\ d.msg = c.msg /\ d.pipe = c.pipe
      BY <1>2 DEF Client
    <3>3. ClientKnown(d)
      BY <1>4, <3>2 DEF ClientKnown
    <3> QED  BY <3>1, <3>2, <3>3
  <2>4. CASE Disconnected(n, i)
    <3> DEFINE d == [c EXCEPT !.st = "closed", !.pipe = <<>>, !.torn = FALSE]
    <3>1. evConnect' = [evConnect EXCEPT ![n] = [@ EXCEPT ![i] = d]]
      BY <1>1, <2>4 DEF Disconnected
    <3>2. d.to = c.to /\ d.msg = c.msg /\ d.pipe = <<>>
      BY <1>2 DEF Client
    <3>3. ClientKnown(d)
      BY <1>4, <3>2 DEF ClientKnown
    <3> QED  BY <3>1, <3>2, <3>3
  <2>5. ASSUME NEW k \in 0 .. Len(c.pipe), NEW cut \in BOOLEAN, NEW l \in Loops,
               OnMessage(n, i, k, cut, l)
        PROVE  \E d : /\ evConnect' = [evConnect EXCEPT ![n] = [@ EXCEPT ![i] = d]]
                      /\ d.to = c.to /\ ClientKnown(d)
    <3> DEFINE rest == SubSeq(c.pipe, k + 1, Len(c.pipe))
               d == [c EXCEPT !.pipe = rest, !.torn = cut]
    <3>1. evConnect' = [evConnect EXCEPT ![n] = [@ EXCEPT ![i] = d]]
      <4>1. evConnect' = [evConnect EXCEPT ![n][i].pipe = SubSeq(@, k + 1, Len(@)),
                                           ![n][i].torn = cut]
        BY <2>5 DEF OnMessage
      <4> QED  BY <1>1, <4>1
    <3>2. d.to = c.to /\ d.msg = c.msg /\ d.pipe = rest
      BY <1>2 DEF Client
    <3>3. \A j \in DOMAIN rest : \E h \in DOMAIN c.pipe : rest[j] = c.pipe[h]
      BY <1>3, <2>5, SuffixElements
    <3>4. ClientKnown(d)
      BY <1>4, <3>2, <3>3 DEF ClientKnown
    <3> QED  BY <3>1, <3>2, <3>4
  <2> QED  BY <2>1, <2>2, <2>3, <2>4, <2>5 DEF ClientStep
<1>7. ClientsKnown'
  BY <1>5, <1>6, ClientReplaced
<1>8. EndpointsKnown'
  <2>1. \A m \in Nodes : \A j \in DOMAIN evConnect[m] : evConnect'[m][j].to = evConnect[m][j].to
    BY <1>1, <1>6
  <2>2. ASSUME NEW m \in Nodes, NEW s \in Nodes, endpoints'[m][s] # 0
        PROVE  evConnect'[m][endpoints'[m][s]].to = s
    <3>1. CASE endpoints'[m][s] = endpoints[m][s]
      <4>1. endpoints[m][s] \in DOMAIN evConnect[m]
        BY <1>1, <2>2, <3>1, LenProperties DEF TypeOK
      <4>2. evConnect[m][endpoints[m][s]].to = s
        BY <2>2, <3>1 DEF ConsumersKnown, EndpointsKnown
      <4> QED  BY <2>1, <3>1, <4>1, <4>2
    <3>2. CASE endpoints'[m][s] # endpoints[m][s]
      <4>1. Dial(n, i)
        BY <3>2 DEF ClientStep, Connected, ConnectFailed, Disconnected, OnMessage
      <4>2. m = n /\ s = c.to /\ endpoints'[m][s] = i
        BY <1>3, <3>2, <4>1 DEF Dial, TypeOK
      <4> QED  BY <2>1, <4>2
    <3> QED  BY <3>1, <3>2
  <2> QED  BY <2>2 DEF EndpointsKnown
<1>9. TasksKnown'
  <2>1. CASE UNCHANGED queue
    BY <1>5, <2>1, Monotone
  <2>2. ASSUME NEW k \in 0 .. Len(c.pipe), NEW cut \in BOOLEAN, NEW l \in Loops,
               OnMessage(n, i, k, cut, l), queue' # queue
        PROVE  TasksKnown'
    <3> DEFINE kind == IF c.torn THEN "rest" ELSE IF k = 0 THEN "head" ELSE "frame"
               t == [kind |-> kind, frame |-> c.pipe[1]]
    <3>1. Enqueue(c.to, l, t)
      BY <2>2 DEF OnMessage
    <3>2. 1 \in DOMAIN c.pipe /\ c.pipe[1] \in Frame
      <4>1. (IF cut THEN k + 1 ELSE k) \in DOMAIN c.pipe
        BY <2>2 DEF OnMessage
      <4> QED  BY <1>3, <4>1, LenProperties, ElementOfSeq
    <3>3. t \in Task /\ TaskKnown(c.to, t)
      BY <1>4, <3>2 DEF Task, Received, TaskKnown, ClientKnown
    <3> QED  BY <1>3, <1>5, <3>1, <3>3, QueueKnown
  <2>3. CASE ClientStep(n, i) \/ Disconnected(n, i)
    BY <2>1, <2>3 DEF ClientStep, Dial, Connected, ConnectFailed, Disconnected
  <2> QED  BY <2>1, <2>2, <2>3
<1> QED  BY <1>5, <1>7, <1>8, <1>9 DEF ConsumersKnown

\* An event loop finds the consumer of everything it runs, and hands on only
\* messages for a consumer of the server it names.
LEMMA LoopKnown ==
  ASSUME TypeOK, ConsumersKnown, NEW n \in Nodes, NEW l \in Loops,
         \/ LoopStep(n, l)
         \/ \E r \in Reqs, a \in Addrs : Request(n, l, r, a)
  PROVE  ConsumersKnown'
<1> DEFINE t == Head(queue[n][l])
<1>1. UNCHANGED <<consumers, adding, subs>> /\ SubsKnown'
  <2>1. UNCHANGED <<consumers, adding, subs>>
    BY DEF LoopStep, Request, RequestLocal, RequestUnknown, RequestRouted, SelfServed,
           RemoteSent, ReplyReceived, RequestServed, regVars
  <2> QED  BY <2>1 DEF ConsumersKnown, SubsKnown
<1>2. /\ UNCHANGED queue => TasksKnown'
      /\ UNCHANGED evConnect => ClientsKnown'
      /\ UNCHANGED <<evConnect, endpoints>> => EndpointsKnown'
      /\ UNCHANGED fault => NoUnknownConsumer'
  BY <1>1, Monotone DEF ConsumersKnown, EndpointsKnown, NoUnknownConsumer
<1>3. ASSUME NEW why \in Faults \ {"no_consumer"}, Die(n, why)
      PROVE  NoUnknownConsumer'
  BY <1>3 DEF Die, TypeOK, ConsumersKnown, NoUnknownConsumer
<1>4. ASSUME NEW kind, Running(n, l, kind)
      PROVE  /\ t \in Task /\ t.kind = kind /\ queue[n][l] # <<>> /\ TaskKnown(n, t)
             /\ Finish(n, l) => TasksKnown'
  <2>1. queue[n][l] # <<>> /\ t.kind = kind
    BY <1>4 DEF Running
  <2> QED  BY <1>1, <2>1, QueueTypes, QueueKnown
<1>5. CASE \E r \in Reqs, a \in Addrs : Request(n, l, r, a)
  <2>1. PICK r \in Reqs, a \in Addrs : Request(n, l, r, a)
    BY <1>5
  <2> DEFINE u == [kind |-> "request", req |-> r, address |-> a]
  <2>2. u \in Task /\ TaskKnown(n, u)
    BY DEF Task, TaskKnown
  <2>3. TasksKnown'
    BY <1>1, <2>1, <2>2, QueueKnown DEF Request
  <2> QED  BY <1>1, <1>2, <2>1, <2>3 DEF Request, Alive, netVars, ConsumersKnown
<1>6. CASE RequestLocal(n, l)
  <2>1. Running(n, l, "request") /\ Finish(n, l) /\ UNCHANGED <<fault, evConnect, endpoints>>
    BY <1>6 DEF RequestLocal, Alive, netVars
  <2> QED  BY <1>1, <1>2, <1>4, <2>1 DEF ConsumersKnown
<1>7. CASE RequestUnknown(n, l)
  <2>1. Die(n, "no_endpoint") /\ UNCHANGED <<queue, evConnect, endpoints>>
    BY <1>7 DEF RequestUnknown, netVars
  <2>2. NoUnknownConsumer'
    BY <1>3, <2>1 DEF Faults
  <2> QED  BY <1>1, <1>2, <2>1, <2>2 DEF ConsumersKnown
<1>8. ASSUME NEW s \in Nodes, RequestRouted(n, l, s)
      PROVE  ConsumersKnown'
  <2> DEFINE u == [kind |-> "routed", msg |-> RoutedMessage(t.req, t.address, s)]
  <2>1. Running(n, l, "request") /\ s \in next(t.address)
    BY <1>8 DEF RequestRouted
  <2>2. t.req \in Reqs /\ t.address \in Addrs
    BY <1>4, <2>1 DEF Task, Received
  <2>3. t.address \in consumers[s]
    BY <2>1, <2>2 DEF next, ConsumersKnown, SubsKnown
  <2>4. u \in Task /\ TaskKnown(n, u)
    BY <2>2, <2>3 DEF Task, Message, RoutedMessage, TaskKnown
  <2>5. queue' = [queue EXCEPT ![n][l] = [@ EXCEPT ![1] = u]]
    BY <1>8 DEF RequestRouted, TypeOK
  <2>6. TasksKnown'
    BY <1>1, <1>4, <2>1, <2>4, <2>5, QueueKnown
  <2> QED  BY <1>1, <1>2, <1>8, <2>6 DEF RequestRouted, Alive, netVars, ConsumersKnown
<1>9. CASE SelfServed(n, l)
  <2>1. Running(n, l, "routed") /\ t.msg.server = n
    BY <1>9 DEF SelfServed
  <2>2. t.msg.replay \in consumers[n]
    BY <1>4, <2>1 DEF TaskKnown
  <2>3. Finish(n, l) /\ UNCHANGED <<fault, evConnect, endpoints>>
    BY <1>9, <2>2 DEF SelfServed, Alive, netVars
  <2> QED  BY <1>1, <1>2, <1>4, <2>1, <2>3 DEF ConsumersKnown
<1>10. CASE RemoteSent(n, l)
  <2> DEFINE f == to_string([t.msg EXCEPT !.server = n])
  <2>1. Running(n, l, "routed") /\ Finish(n, l) /\ processStringMessage(n, t.msg.server, f)
    BY <1>10 DEF RemoteSent
  <2>2. t.msg \in Message /\ t.msg.server \in Nodes
    BY <1>4, <2>1 DEF Task, Message, Received
  <2>3. f \in Frame /\ f.first = t.msg.replay
    BY <2>2, FrameTypes DEF Frame, to_string, Message
  <2>4. FrameKnown(t.msg.server, f)
    BY <1>4, <2>1, <2>3 DEF TaskKnown, FrameKnown
  <2>5. ClientsKnown' /\ EndpointsKnown' /\ NoUnknownConsumer'
    BY <1>1, <2>1, <2>2, <2>3, <2>4, SendKnown
  <2> QED  BY <1>1, <1>4, <2>1, <2>5 DEF ConsumersKnown
<1>11. ASSUME NEW f, NEW stray \in Strays, ReplyReceived(n, l, f, stray)
       PROVE  ConsumersKnown'
  <2>1. UNCHANGED <<evConnect, endpoints>> /\ \E kind \in Received : Running(n, l, kind)
    BY <1>11 DEF ReplyReceived, netVars
  <2>2. CASE Finish(n, l) /\ Alive
    BY <1>1, <1>2, <1>4, <2>1, <2>2 DEF Alive, ConsumersKnown
  <2>3. CASE (\E why \in {"torn_frame", "no_publisher"} : Die(n, why)) /\ UNCHANGED queue
    <3>1. NoUnknownConsumer'
      BY <1>3, <2>3 DEF Faults
    <3> QED  BY <1>1, <1>2, <2>1, <2>3, <3>1 DEF ConsumersKnown
  <2> QED  BY <1>11, <2>2, <2>3 DEF ReplyReceived
<1>12. ASSUME NEW f, NEW stray \in Strays, RequestServed(n, l, f, stray)
       PROVE  ConsumersKnown'
  <2> DEFINE m == to_message(f, stray)
  <2>1. PICK kind \in Received : Running(n, l, kind)
    BY <1>12 DEF RequestServed
  <2>2. /\ f \in Parsed(t) /\ t \in Task /\ t.kind \in Received /\ TaskKnown(n, t)
        /\ m.address = f.first /\ m.server = f.server /\ m.address \notin Reqs
    BY <1>4, <1>12, <2>1 DEF RequestServed, to_message
  <2>3. CASE m.address \in consumers[n]
    <3>1. /\ Finish(n, l)
          /\ processStringMessage(n, m.server, to_string(Response(m)))
      BY <1>12, <2>3 DEF RequestServed
    <3>2. ClientsKnown' /\ EndpointsKnown' /\ NoUnknownConsumer'
      <4>1. CASE m.server = None
        <5>1. UNCHANGED netVars /\ (Alive \/ Die(n, "null_conn"))
          BY <3>1, <4>1, SendNowhere
        <5>2. NoUnknownConsumer'
          BY <1>2, <1>3, <5>1 DEF Alive, Faults
        <5> QED  BY <1>2, <5>1, <5>2 DEF netVars
      <4>2. CASE m.server # None
        <5>1. m.server \in Nodes /\ f = t.frame /\ f \in RequestFrame
          <6>1. m.server \in Nodes /\ f = t.frame /\ t.frame \in Frame
            BY <2>2, <4>2, ParsedShape
          <6> QED  BY <2>2, <4>2, <6>1 DEF Frame, ReplyFrame
        <5>2. to_string(Response(m)) \in Frame /\ to_string(Response(m)).first \in Reqs
          BY <5>1 DEF to_message, to_string, Response, Frame, RequestFrame, ReplyFrame
        <5>3. FrameKnown(m.server, to_string(Response(m)))
          BY <5>2, BusAssumption DEF FrameKnown
        <5> QED  BY <1>1, <3>1, <5>1, <5>2, <5>3, SendKnown
      <4> QED  BY <4>1, <4>2
    <3> QED  BY <1>1, <1>4, <2>1, <3>1, <3>2 DEF ConsumersKnown
  <2>4. CASE m.address \notin consumers[n]
    <3> DEFINE torn == t.kind = "rest" \/ m.address = None
    <3>1. torn
      <4>1. SUFFICES ASSUME t.kind \in {"frame", "head"}, m.address # None
                     PROVE  FALSE
        BY <2>2 DEF Received
      <4>2. FrameKnown(n, t.frame) /\ t.frame \in Frame /\ m.address = t.frame.first
        BY <2>2, <4>1, ParsedShape DEF TaskKnown
      <4> QED  BY <2>2, <2>4, <4>2 DEF FrameKnown, Frame, RequestFrame, ReplyFrame
    <3>2. Die(n, "torn_frame") /\ UNCHANGED <<queue, evConnect, endpoints>>
      BY <1>12, <2>4, <3>1 DEF RequestServed, netVars
    <3>3. NoUnknownConsumer'
      BY <1>3, <3>2 DEF Faults
    <3> QED  BY <1>1, <1>2, <3>2, <3>3 DEF ConsumersKnown
  <2> QED  BY <2>3, <2>4
<1> QED  BY <1>5, <1>6, <1>7, <1>8, <1>9, <1>10, <1>11, <1>12 DEF LoopStep

LEMMA InitKnown == Init => ConsumersKnown
BY DEF Init, ConsumersKnown, SubsKnown, TasksKnown, ClientsKnown, EndpointsKnown,
       NoUnknownConsumer

LEMMA StepKnown == TypeOK /\ ConsumersKnown /\ [Next]_vars => ConsumersKnown'
<1> SUFFICES ASSUME TypeOK, ConsumersKnown, [Next]_vars
             PROVE  ConsumersKnown'
  OBVIOUS
<1>1. CASE UNCHANGED vars
  BY <1>1, Monotone DEF vars, regVars, netVars, ConsumersKnown, EndpointsKnown, NoUnknownConsumer
<1>2. ASSUME NEW n \in Nodes, NEW a \in Addrs,
             Consumer(n, a) \/ AddSub(n, a) \/ LocalConsumer(n, a)
      PROVE  ConsumersKnown'
  <2>1. UNCHANGED <<queue, evConnect, endpoints>>
    BY <1>2 DEF Consumer, AddSub, LocalConsumer, netVars
  <2> QED  BY <1>2, <2>1, RegistrationKnown
<1>3. ASSUME NEW n \in Nodes, Run(n) \/ Kill(n)
      PROVE  ConsumersKnown'
  <2>1. UNCHANGED <<queue, evConnect, endpoints>>
    BY <1>3 DEF Run, Kill, netVars
  <2> QED  BY <1>3, <2>1, RegistrationKnown
<1>4. ASSUME NEW n \in Nodes, NEW l \in Loops,
             LoopStep(n, l) \/ \E r \in Reqs, a \in Addrs : Request(n, l, r, a)
      PROVE  ConsumersKnown'
  BY <1>4, LoopKnown
<1>5. ASSUME NEW n \in Nodes, NEW i \in DOMAIN evConnect[n],
             \/ ClientStep(n, i) \/ Disconnected(n, i)
             \/ \E k \in 0 .. Len(evConnect[n][i].pipe), cut \in BOOLEAN, l \in Loops :
                  OnMessage(n, i, k, cut, l)
      PROVE  ConsumersKnown'
  BY <1>5, ClientStepKnown
<1> QED  BY <1>1, <1>2, <1>3, <1>4, <1>5 DEF Next

\* In every loop and on every connection, a request, whole or its beginning, names
\* a consumer its node has, whatever registers, connects, disconnects and dies in
\* between and wherever a read ends.
THEOREM AlwaysKnown == Spec => []ConsumersKnown
<1>1. Init => TypeOK /\ ConsumersKnown
  BY InitTypes, InitKnown
<1>2. TypeOK /\ ConsumersKnown /\ [Next]_vars => TypeOK' /\ ConsumersKnown'
  BY StepTypes, StepKnown
<1> QED  BY <1>1, <1>2, PTL DEF Spec

\* No node of any cluster dies because it lacks the consumer of a request whose
\* address it has read: the order "emplace, then addSub" in consumer() is enough.
\* What is left are the pieces of frames, which name no consumer at all.
THEOREM NeverUnknownConsumer == Spec => []NoUnknownConsumer
<1>1. ConsumersKnown => NoUnknownConsumer
  BY DEF ConsumersKnown
<1> QED  BY <1>1, AlwaysKnown, PTL

-----------------------------------------------------------------------------
(* A step changes the loops and the clients by taking the messages of some  *)
(* requests away and adding one.                                            *)

\* What FramesTrue says of a client whose first frame was read in part.
TornTrue(c) == c.torn => c.pipe # <<>> /\ RestTrue(c.to, c.pipe[1])

ClientsTrue ==
  /\ \A r \in Reqs : OnceInClients(r)
  /\ \A n \in Nodes : \A i \in DOMAIN evConnect[n] : TornTrue(evConnect[n][i])

\* The loops lose the tasks of the requests in R; node n gets the tasks of T.
LoopsChange(R, n, T) ==
  /\ \A r \in Reqs : OnceInLoops(r)'
  /\ \A r \in Reqs : InLoop(r)' <=> (InLoop(r) /\ r \notin R) \/ \E t \in T : Carries(t, r)
  /\ \A m \in Nodes, j \in Loops : \A k \in DOMAIN queue'[m][j] :
       \/ m = n /\ queue'[m][j][k] \in T
       \/ \E h \in DOMAIN queue[m][j] :
            queue'[m][j][k] = queue[m][j][h] /\ \A r \in R : ~ Carries(queue[m][j][h], r)

\* The clients lose the frames of the requests in R, those to node s get the frames of
\* F, and what is cut is the rest of a frame on its way to another node.
ClientsChange(R, s, F) ==
  /\ \A r \in Reqs : OnceInClients(r)'
  /\ \A m \in Nodes : \A i \in DOMAIN evConnect'[m] : TornTrue(evConnect'[m][i])
  /\ \A r \in Reqs : InClient(r)' <=> (InClient(r) /\ r \notin R) \/ \E f \in F : ReqOf(f) = r
  /\ \A m \in Nodes : \A i \in DOMAIN evConnect'[m] : \A k \in Slots(evConnect'[m][i]) :
       \/ evConnect'[m][i].to = s /\ FrameOf(evConnect'[m][i], k) \in F
       \/ /\ i \in DOMAIN evConnect[m] /\ evConnect'[m][i].to = evConnect[m][i].to
          /\ \E h \in Slots(evConnect[m][i]) :
               /\ FrameOf(evConnect'[m][i], k) = FrameOf(evConnect[m][i], h)
               /\ ReqOf(FrameOf(evConnect[m][i], h)) \notin R

\* The queue p becomes q: every place of q but those in N holds what a place org of p
\* held, the tasks of the requests in R are gone, and those of T are in N.
Edits(p, q, N, org, R, T) ==
  /\ \A x, y \in N : x = y
  /\ org \in [DOMAIN q \ N -> DOMAIN p] /\ \A k, h \in DOMAIN q \ N : org[k] = org[h] => k = h
  /\ \A k \in DOMAIN q \ N : q[k] = p[org[k]]
  /\ \A h \in DOMAIN p :
       (\E k \in DOMAIN q \ N : org[k] = h) \/ \A r \in Reqs : Carries(p[h], r) => r \in R
  /\ \A r \in R : \E h \in DOMAIN p : Carries(p[h], r) /\ \A k \in DOMAIN q \ N : org[k] # h
  /\ \A k \in N \cap DOMAIN q : q[k] \in T
  /\ \A t \in T : \E k \in N \cap DOMAIN q : q[k] = t

LEMMA LoopReplaced ==
  ASSUME TypeOK, \A r \in Reqs : OnceInLoops(r), NEW n \in Nodes, NEW l \in Loops,
         NEW q, queue' = [queue EXCEPT ![n] = [@ EXCEPT ![l] = q]],
         NEW N, NEW org, NEW R \in SUBSET Reqs, NEW T, Edits(queue[n][l], q, N, org, R, T),
         \A t \in T, r \in Reqs : Carries(t, r) => r \in R \/ ~ InLoop(r)
  PROVE  LoopsChange(R, n, T)
<1> USE DEF Edits
<1>1. /\ queue'[n][l] = q
      /\ \A m \in Nodes, j \in Loops : ~ (m = n /\ j = l) => queue'[m][j] = queue[m][j]
  BY DEF TypeOK
\* Where a place of the new loops comes from.
<1>2. ASSUME NEW m \in Nodes, NEW j \in Loops, NEW k \in DOMAIN queue'[m][j]
      PROVE  \/ m = n /\ j = l /\ k \in N /\ queue'[m][j][k] \in T
             \/ m = n /\ j = l /\ k \in DOMAIN q \ N /\ queue'[m][j][k] = queue[n][l][org[k]]
             \/ /\ ~ (m = n /\ j = l) /\ k \in DOMAIN queue[m][j]
                /\ queue'[m][j][k] = queue[m][j][k]
  BY <1>1
<1>3. ASSUME NEW r \in R, NEW m \in Nodes, NEW j \in Loops, NEW h \in DOMAIN queue[m][j],
             Carries(queue[m][j][h], r)
      PROVE  m = n /\ j = l /\ \A k \in DOMAIN q \ N : org[k] # h
  <2>1. PICK g \in DOMAIN queue[n][l] :
          Carries(queue[n][l][g], r) /\ \A k \in DOMAIN q \ N : org[k] # g
    BY <1>3
  <2>2. OnceInLoops(r)
    BY <1>3
  <2>3. m = n /\ j = l /\ h = g
    BY <1>3, <2>1, <2>2 DEF OnceInLoops, LoopHolds
  <2> QED  BY <2>1, <2>3
<1>4. ASSUME NEW m \in Nodes, NEW j \in Loops, NEW k \in DOMAIN queue'[m][j]
      PROVE  \/ m = n /\ j = l /\ k \in N /\ queue'[m][j][k] \in T
             \/ \E h \in DOMAIN queue[m][j] :
                  queue'[m][j][k] = queue[m][j][h] /\ \A r \in R : ~ Carries(queue[m][j][h], r)
  <2>1. CASE m = n /\ j = l /\ k \in DOMAIN q \ N /\ queue'[m][j][k] = queue[n][l][org[k]]
    <3>1. org[k] \in DOMAIN queue[n][l]
      BY <2>1
    <3> QED  BY <1>3, <2>1, <3>1
  <2>2. CASE /\ ~ (m = n /\ j = l) /\ k \in DOMAIN queue[m][j]
             /\ queue'[m][j][k] = queue[m][j][k]
    BY <1>3, <2>2
  <2> QED  BY <1>2, <2>1, <2>2
<1>5. ASSUME NEW r \in Reqs, NEW m \in Nodes, NEW j \in Loops, NEW k \in DOMAIN queue'[m][j],
             Carries(queue'[m][j][k], r)
      PROVE  \/ m = n /\ j = l /\ k \in N /\ \E t \in T : Carries(t, r)
             \/ InLoop(r) /\ r \notin R
  BY <1>4, <1>5 DEF InLoop, LoopHolds
<1>6. ASSUME NEW r \in Reqs
      PROVE  OnceInLoops(r)'
  <2> SUFFICES ASSUME NEW m \in Nodes, NEW j \in Loops, NEW k \in DOMAIN queue'[m][j],
                      NEW x \in Nodes, NEW y \in Loops, NEW h \in DOMAIN queue'[x][y],
                      Carries(queue'[m][j][k], r), Carries(queue'[x][y][h], r)
               PROVE  m = x /\ j = y /\ k = h
    BY DEF OnceInLoops, LoopHolds
  <2>1. CASE \E t \in T : Carries(t, r)
    <3>1. ~ (InLoop(r) /\ r \notin R)
      BY <2>1
    <3>2. m = n /\ j = l /\ k \in N /\ x = n /\ y = l /\ h \in N
      BY <1>5, <3>1
    <3> QED  BY <3>2
  <2>2. CASE ~ \E t \in T : Carries(t, r)
    <3>1. \/ m = n /\ j = l /\ k \in DOMAIN q \ N /\ Carries(queue[n][l][org[k]], r)
          \/ ~ (m = n /\ j = l) /\ k \in DOMAIN queue[m][j] /\ Carries(queue[m][j][k], r)
      BY <1>2, <2>2
    <3>2. \/ x = n /\ y = l /\ h \in DOMAIN q \ N /\ Carries(queue[n][l][org[h]], r)
          \/ ~ (x = n /\ y = l) /\ h \in DOMAIN queue[x][y] /\ Carries(queue[x][y][h], r)
      BY <1>2, <2>2
    <3>3. OnceInLoops(r)
      OBVIOUS
    <3>4. \A g \in DOMAIN q \ N : org[g] \in DOMAIN queue[n][l]
      OBVIOUS
    <3>5. CASE m = n /\ j = l
      <4>1. k \in DOMAIN q \ N /\ Carries(queue[n][l][org[k]], r)
        BY <3>1, <3>5
      <4>2. x = n /\ y = l
        BY <3>2, <3>3, <3>4, <4>1 DEF OnceInLoops, LoopHolds
      <4>3. h \in DOMAIN q \ N /\ Carries(queue[n][l][org[h]], r)
        BY <3>2, <4>2
      <4>4. org[k] = org[h]
        BY <3>3, <3>4, <4>1, <4>3 DEF OnceInLoops, LoopHolds
      <4> QED  BY <3>5, <4>1, <4>2, <4>3, <4>4
    <3>6. CASE ~ (m = n /\ j = l)
      BY <3>1, <3>2, <3>3, <3>4, <3>6 DEF OnceInLoops, LoopHolds
    <3> QED  BY <3>5, <3>6
  <2> QED  BY <2>1, <2>2
<1>7. ASSUME NEW r \in Reqs, InLoop(r), r \notin R
      PROVE  InLoop(r)'
  <2>1. PICK m \in Nodes, j \in Loops : \E k \in DOMAIN queue[m][j] : Carries(queue[m][j][k], r)
    BY <1>7 DEF InLoop, LoopHolds
  <2>2. PICK k \in DOMAIN queue[m][j] : Carries(queue[m][j][k], r)
    BY <2>1
  <2>3. CASE m = n /\ j = l
    <3>1. PICK g \in DOMAIN q \ N : org[g] = k
      BY <1>7, <2>2, <2>3
    <3>2. g \in DOMAIN queue'[n][l] /\ Carries(queue'[n][l][g], r)
      BY <1>1, <2>2, <2>3, <3>1
    <3> QED  BY <3>2 DEF InLoop, LoopHolds
  <2>4. CASE ~ (m = n /\ j = l)
    <3>1. queue'[m][j] = queue[m][j]
      BY <1>1, <2>4
    <3> QED  BY <2>2, <3>1 DEF InLoop, LoopHolds
  <2> QED  BY <2>3, <2>4
<1>8. ASSUME NEW r \in Reqs, NEW t \in T, Carries(t, r)
      PROVE  InLoop(r)'
  <2>1. PICK k \in N \cap DOMAIN q : q[k] = t
    OBVIOUS
  <2> QED  BY <1>1, <1>8, <2>1 DEF InLoop, LoopHolds
<1>9. ASSUME NEW r \in Reqs, InLoop(r)'
      PROVE  (InLoop(r) /\ r \notin R) \/ \E t \in T : Carries(t, r)
  <2>1. PICK m \in Nodes, j \in Loops : \E k \in DOMAIN queue'[m][j] : Carries(queue'[m][j][k], r)
    BY <1>9 DEF InLoop, LoopHolds
  <2> QED  BY <1>5, <2>1
<1> QED  BY <1>4, <1>6, <1>7, <1>8, <1>9 DEF LoopsChange

\* A task carries one request, and the rest of a frame none.
LEMMA CarriesOne ==
  ASSUME NEW t \in Task
  PROVE  /\ \A r, s \in Reqs : Carries(t, r) /\ Carries(t, s) => r = s
         /\ t.kind = "rest" => \A r \in Reqs : ~ Carries(t, r)
<1>1. CASE t \in [kind : {"request"}, req : Reqs, address : Addrs]
  BY <1>1 DEF Carries
<1>2. CASE t \in [kind : {"routed"}, msg : Message]
  BY <1>2 DEF Carries, Message
<1>3. CASE t \in [kind : Received, frame : Frame]
  BY <1>3, FrameTypes DEF Carries, Received
<1> QED  BY <1>1, <1>2, <1>3 DEF Task

\* A functor that ends takes its request, if it carries one, with it.
LEMMA LoopFinish ==
  ASSUME TypeOK, \A r \in Reqs : OnceInLoops(r), NEW n \in Nodes, NEW l \in Loops,
         queue[n][l] # <<>>, Finish(n, l),
         NEW R, R = {r \in Reqs : Carries(Head(queue[n][l]), r)}
  PROVE  LoopsChange(R, n, {})
<1> DEFINE p == queue[n][l]
           q == Tail(p)
           org == [k \in DOMAIN q \ {} |-> k + 1]
<1>1. p \in Seq(Task) /\ queue \in [Nodes -> [Loops -> Seq(Task)]]
  BY DEF TypeOK
<1>2. /\ Len(p) \in Nat \ {0} /\ DOMAIN p = 1 .. Len(p) /\ Head(p) = p[1] /\ Head(p) \in Task
      /\ DOMAIN q = 1 .. Len(p) - 1 /\ \A k \in DOMAIN q : q[k] = p[k + 1]
  <2>1. /\ Head(p) \in Task /\ q \in Seq(Task) /\ Len(q) = Len(p) - 1
        /\ \A k \in 1 .. Len(q) : q[k] = p[k + 1]
    BY <1>1, HeadTailProperties
  <2>2. DOMAIN q = 1 .. Len(q)
    BY <2>1, LenProperties
  <2> QED  BY <1>1, <2>1, <2>2, EmptySeq, LenProperties
<1>3. queue' = [queue EXCEPT ![n] = [@ EXCEPT ![l] = q]]
  BY <1>1 DEF Finish
<1>4. org \in [DOMAIN q \ {} -> DOMAIN p] /\ \A k \in DOMAIN q \ {} : org[k] = k + 1
  BY <1>2
<1>5. \A k, h \in DOMAIN q \ {} : org[k] = org[h] => k = h
  BY <1>2, <1>4
<1>6. \A h \in DOMAIN p : h # 1 => \E k \in DOMAIN q \ {} : org[k] = h
  <2>1. ASSUME NEW h \in DOMAIN p, h # 1
        PROVE  h - 1 \in DOMAIN q \ {} /\ org[h - 1] = h
    <3>1. h - 1 \in DOMAIN q \ {}
      BY <1>2, <2>1
    <3> QED  BY <1>2, <1>4, <3>1
  <2> QED  BY <2>1
<1>7. R \in SUBSET Reqs /\ \A r \in Reqs : Carries(p[1], r) <=> r \in R
  BY <1>2
<1>8. 1 \in DOMAIN p /\ \A k \in DOMAIN q \ {} : org[k] # 1
  BY <1>2, <1>4
<1>9. \A k \in DOMAIN q \ {} : q[k] = p[org[k]]
  BY <1>2, <1>4
<1> HIDE DEF org, q
<1>10. Edits(p, q, {}, org, R, {})
  BY <1>4, <1>5, <1>6, <1>7, <1>8, <1>9 DEF Edits
<1> QED  BY <1>3, <1>7, <1>10, LoopReplaced

\* A functor that is queued brings its own.
LEMMA LoopEnqueue ==
  ASSUME TypeOK, \A r \in Reqs : OnceInLoops(r), NEW n \in Nodes, NEW l \in Loops,
         NEW t \in Task, Enqueue(n, l, t), \A r \in Reqs : Carries(t, r) => ~ InLoop(r)
  PROVE  LoopsChange({}, n, {t})
<1> DEFINE p == queue[n][l]
           q == Append(p, t)
           N == {Len(p) + 1}
           org == [k \in DOMAIN q \ N |-> k]
<1>1. p \in Seq(Task) /\ queue \in [Nodes -> [Loops -> Seq(Task)]]
  BY DEF TypeOK
<1>2. /\ Len(p) \in Nat /\ DOMAIN p = 1 .. Len(p) /\ DOMAIN q = 1 .. Len(p) + 1
      /\ q[Len(p) + 1] = t /\ \A k \in DOMAIN p : q[k] = p[k]
  <2>1. /\ q \in Seq(Task) /\ Len(q) = Len(p) + 1 /\ q[Len(p) + 1] = t
        /\ \A k \in 1 .. Len(p) : q[k] = p[k]
    BY <1>1, AppendProperties
  <2>2. DOMAIN q = 1 .. Len(q)
    BY <2>1, LenProperties
  <2> QED  BY <1>1, <2>1, <2>2, LenProperties
<1>3. queue' = [queue EXCEPT ![n] = [@ EXCEPT ![l] = q]]
  BY <1>1 DEF Enqueue
<1>4. DOMAIN q \ N = DOMAIN p /\ N \cap DOMAIN q = N
  BY <1>2
<1>5. org \in [DOMAIN q \ N -> DOMAIN p] /\ \A k \in DOMAIN q \ N : org[k] = k
  BY <1>4
<1>6. \A k \in DOMAIN q \ N : q[k] = p[org[k]]
  BY <1>2, <1>4, <1>5
<1>7. \A h \in DOMAIN p : \E k \in DOMAIN q \ N : org[k] = h
  BY <1>4, <1>5
<1>8. (\A k \in N \cap DOMAIN q : q[k] \in {t}) /\ \A x \in {t} : \E k \in N \cap DOMAIN q : q[k] = x
  BY <1>2, <1>4
<1>9. (\A k, h \in DOMAIN q \ N : org[k] = org[h] => k = h) /\ \A x, y \in N : x = y
  BY <1>5
<1> HIDE DEF org, N, q
<1>10. Edits(p, q, N, org, {}, {t})
  BY <1>5, <1>6, <1>7, <1>8, <1>9 DEF Edits
<1> QED  BY <1>3, <1>10, LoopReplaced

\* A functor that goes on as another one keeps its place and its request.
LEMMA LoopRouted ==
  ASSUME TypeOK, \A r \in Reqs : OnceInLoops(r), NEW n \in Nodes, NEW l \in Loops,
         queue[n][l] # <<>>, NEW t \in Task, queue' = [queue EXCEPT ![n][l][1] = t],
         NEW r0 \in Reqs, Carries(Head(queue[n][l]), r0), Carries(t, r0)
  PROVE  LoopsChange({r0}, n, {t})
<1> DEFINE p == queue[n][l]
           q == [p EXCEPT ![1] = t]
           N == {1}
           org == [k \in DOMAIN q \ N |-> k]
<1>1. p \in Seq(Task) /\ queue \in [Nodes -> [Loops -> Seq(Task)]]
  BY DEF TypeOK
<1>2. 1 \in DOMAIN p /\ Head(p) = p[1] /\ p[1] \in Task
  <2>1. Len(p) \in Nat \ {0} /\ DOMAIN p = 1 .. Len(p) /\ Head(p) = p[1]
    BY <1>1, EmptySeq, LenProperties
  <2> QED  BY <1>1, <2>1, ElementOfSeq
<1>3. DOMAIN q = DOMAIN p /\ q[1] = t /\ \A k \in DOMAIN p \ {1} : q[k] = p[k]
  BY <1>2
<1>4. queue' = [queue EXCEPT ![n] = [@ EXCEPT ![l] = q]]
  BY <1>1
<1>5. org \in [DOMAIN q \ N -> DOMAIN p] /\ \A k \in DOMAIN q \ N : org[k] = k
  BY <1>3
<1>6. \A k \in DOMAIN q \ N : q[k] = p[org[k]]
  BY <1>3, <1>5
<1>7. \A h \in DOMAIN p : h # 1 => \E k \in DOMAIN q \ N : org[k] = h
  BY <1>3, <1>5
<1>8. (\A k \in N \cap DOMAIN q : q[k] \in {t}) /\ \A x \in {t} : \E k \in N \cap DOMAIN q : q[k] = x
  BY <1>2, <1>3
<1>9. (\A k, h \in DOMAIN q \ N : org[k] = org[h] => k = h) /\ \A x, y \in N : x = y
  BY <1>5
<1>10. \A r \in Reqs : Carries(p[1], r) \/ Carries(t, r) => r \in {r0}
  BY <1>2, CarriesOne
<1>11. 1 \in DOMAIN p /\ Carries(p[1], r0) /\ \A k \in DOMAIN q \ N : org[k] # 1
  BY <1>2, <1>5
<1> HIDE DEF org, N, q
<1>12. Edits(p, q, N, org, {r0}, {t})
  BY <1>5, <1>6, <1>7, <1>8, <1>9, <1>10, <1>11 DEF Edits
<1> QED  BY <1>4, <1>10, <1>12, LoopReplaced

LEMMA LoopsSame ==
  ASSUME \A r \in Reqs : OnceInLoops(r), UNCHANGED queue, NEW n
  PROVE  LoopsChange({}, n, {})
BY DEF LoopsChange, OnceInLoops, InLoop, LoopHolds

-----------------------------------------------------------------------------
(* The same for the clients.                                               *)

\* The client c becomes d.
FrameEdits(c, d, N, org, R, F) ==
  /\ d.to = c.to
  /\ \A x, y \in N : x = y
  /\ org \in [Slots(d) \ N -> Slots(c)] /\ \A k, h \in Slots(d) \ N : org[k] = org[h] => k = h
  /\ \A k \in Slots(d) \ N : FrameOf(d, k) = FrameOf(c, org[k])
  /\ \A h \in Slots(c) : (\E k \in Slots(d) \ N : org[k] = h) \/ ReqOf(FrameOf(c, h)) \in R
  /\ \A r \in R : \E h \in Slots(c) :
       ReqOf(FrameOf(c, h)) = r /\ \A k \in Slots(d) \ N : org[k] # h
  /\ \A k \in N \cap Slots(d) : FrameOf(d, k) \in F
  /\ \A f \in F : \E k \in N \cap Slots(d) : FrameOf(d, k) = f

\* The definitions with the bounds of the places left to ClientHolds.
LEMMA ClientPlaces ==
  ASSUME NEW r \in Reqs
  PROVE  /\ InClient(r) <=> \E n \in Nodes : \E i, k : ClientHolds(r, n, i, k)
         /\ OnceInClients(r) <=>
              \A n, m \in Nodes : \A i, k, j, h :
                ClientHolds(r, n, i, k) /\ ClientHolds(r, m, j, h) => n = m /\ i = j /\ k = h
         /\ InClient(r)' <=> \E n \in Nodes : \E i, k : ClientHolds(r, n, i, k)'
         /\ OnceInClients(r)' <=>
              \A n, m \in Nodes : \A i, k, j, h :
                ClientHolds(r, n, i, k)' /\ ClientHolds(r, m, j, h)' => n = m /\ i = j /\ k = h
<1>1. \A n, i, k : ClientHolds(r, n, i, k) => i \in DOMAIN evConnect[n] /\ k \in Slots(evConnect[n][i])
  BY DEF ClientHolds
<1>2. \A n, i, k : ClientHolds(r, n, i, k)' => i \in DOMAIN evConnect'[n] /\ k \in Slots(evConnect'[n][i])
  BY DEF ClientHolds
<1>3. InClient(r) <=> \E n \in Nodes : \E i, k : ClientHolds(r, n, i, k)
  BY <1>1 DEF InClient
<1>4. InClient(r)' <=> \E n \in Nodes : \E i, k : ClientHolds(r, n, i, k)'
  BY <1>2 DEF InClient
<1>5. OnceInClients(r) <=>
        \A n, m \in Nodes : \A i, k, j, h :
          ClientHolds(r, n, i, k) /\ ClientHolds(r, m, j, h) => n = m /\ i = j /\ k = h
  BY <1>1 DEF OnceInClients
<1>6. OnceInClients(r)' <=>
        \A n, m \in Nodes : \A i, k, j, h :
          ClientHolds(r, n, i, k)' /\ ClientHolds(r, m, j, h)' => n = m /\ i = j /\ k = h
  BY <1>2 DEF OnceInClients
<1> QED  BY <1>3, <1>4, <1>5, <1>6

LEMMA ClientChanged ==
  ASSUME TypeOK, ClientsTrue, NEW n \in Nodes, NEW i \in DOMAIN evConnect[n],
         NEW d, evConnect' = [evConnect EXCEPT ![n] = [@ EXCEPT ![i] = d]], TornTrue(d),
         NEW N, NEW org, NEW R \in SUBSET Reqs, NEW F, FrameEdits(evConnect[n][i], d, N, org, R, F),
         \A f \in F : ReqOf(f) \in R \/ ~ InClient(ReqOf(f))
  PROVE  ClientsChange(R, evConnect[n][i].to, F)
<1> DEFINE c == evConnect[n][i]
           Kept == Slots(d) \ N
<1>1. /\ d.to = c.to /\ \A x, y \in N : x = y
      /\ \A k \in Kept : org[k] \in Slots(c) /\ FrameOf(d, k) = FrameOf(c, org[k])
      /\ \A k, h \in Kept : org[k] = org[h] => k = h
      /\ \A h \in Slots(c) : (\E k \in Kept : org[k] = h) \/ ReqOf(FrameOf(c, h)) \in R
      /\ \A r \in R : \E h \in Slots(c) : ReqOf(FrameOf(c, h)) = r /\ \A k \in Kept : org[k] # h
      /\ \A k \in N \cap Slots(d) : FrameOf(d, k) \in F
      /\ \A f \in F : \E k \in N \cap Slots(d) : FrameOf(d, k) = f
  BY DEF FrameEdits
<1>2. /\ evConnect'[n][i] = d /\ i \in DOMAIN evConnect'[n]
      /\ \A m \in Nodes : DOMAIN evConnect'[m] = DOMAIN evConnect[m]
      /\ \A m \in Nodes : \A j \in DOMAIN evConnect[m] :
           ~ (m = n /\ j = i) => evConnect'[m][j] = evConnect[m][j]
  BY DEF TypeOK
<1> DEFINE Old(r, m, j, k) == ClientHolds(r, m, j, k)
           New(r, m, j, k) == ClientHolds(r, m, j, k)'
\* Where a place of the new clients comes from, and where an old one goes.
<1>3. ASSUME NEW r \in Reqs, NEW m \in Nodes, NEW j, NEW k, ~ (m = n /\ j = i)
      PROVE  New(r, m, j, k) <=> Old(r, m, j, k)
  BY <1>2, <1>3 DEF ClientHolds
<1>4. ASSUME NEW r \in Reqs, NEW k
      PROVE  New(r, n, i, k) <=>
               (k \in N \cap Slots(d) /\ ReqOf(FrameOf(d, k)) = r) \/ (k \in Kept /\ Old(r, n, i, org[k]))
  <2>1. New(r, n, i, k) <=> k \in Slots(d) /\ ReqOf(FrameOf(d, k)) = r
    BY <1>2 DEF ClientHolds
  <2>2. k \in Kept => (Old(r, n, i, org[k]) <=> ReqOf(FrameOf(d, k)) = r)
    BY <1>1 DEF ClientHolds
  <2> QED  BY <2>1, <2>2
<1>5. \A r \in Reqs : \A m, x \in Nodes : \A j, k, y, h :
        Old(r, m, j, k) /\ Old(r, x, y, h) => m = x /\ j = y /\ k = h
  BY ClientPlaces DEF ClientsTrue
<1>6. \A r \in R : \E h : Old(r, n, i, h) /\ \A k \in Kept : org[k] # h
  BY <1>1 DEF ClientHolds
<1>7. ASSUME NEW r \in Reqs, NEW h, Old(r, n, i, h)
      PROVE  (\E k \in Kept : org[k] = h) \/ r \in R
  BY <1>1, <1>7 DEF ClientHolds
<1>8. \A r \in Reqs : InClient(r) <=> \E m \in Nodes : \E j, k : Old(r, m, j, k)
  BY ClientPlaces
<1>9. \A r \in Reqs : (\E f \in F : ReqOf(f) = r) <=> \E k \in N \cap Slots(d) : ReqOf(FrameOf(d, k)) = r
  BY <1>1
<1>10. \A r \in Reqs : (\E f \in F : ReqOf(f) = r) => r \in R \/ ~ InClient(r)
  OBVIOUS
<1>11. (\A x, y \in N : x = y) /\ \A k, h \in Kept : org[k] = org[h] => k = h
  BY <1>1
<1> HIDE DEF Old, New, Kept
\* An old place that survives is not one of a request in R.
<1>12. ASSUME NEW r \in Reqs, NEW m \in Nodes, NEW j, NEW k, New(r, m, j, k)
       PROVE  \/ m = n /\ j = i /\ k \in N /\ \E f \in F : ReqOf(f) = r
              \/ m = n /\ j = i /\ k \in Kept /\ Old(r, n, i, org[k]) /\ r \notin R
              \/ ~ (m = n /\ j = i) /\ Old(r, m, j, k) /\ r \notin R
  <2>1. CASE m = n /\ j = i
    BY <1>4, <1>5, <1>6, <1>9, <1>12, <2>1
  <2>2. CASE ~ (m = n /\ j = i)
    BY <1>3, <1>5, <1>6, <1>12, <2>2
  <2> QED  BY <2>1, <2>2
<1>13. ASSUME NEW r \in Reqs
       PROVE  OnceInClients(r)'
  <2>1. ASSUME NEW m \in Nodes, NEW j, NEW k, NEW x \in Nodes, NEW y, NEW h,
               New(r, m, j, k), New(r, x, y, h)
        PROVE  m = x /\ j = y /\ k = h
    <3>1. CASE \E f \in F : ReqOf(f) = r
      <4>1. \A a \in Nodes : \A b, e : ~ (Old(r, a, b, e) /\ r \notin R)
        BY <1>8, <1>10, <3>1
      <4>2. m = n /\ j = i /\ k \in N /\ x = n /\ y = i /\ h \in N
        BY <1>12, <2>1, <4>1
      <4> QED  BY <1>11, <4>2
    <3>2. CASE ~ \E f \in F : ReqOf(f) = r
      <4>1. \/ m = n /\ j = i /\ k \in Kept /\ Old(r, n, i, org[k])
            \/ ~ (m = n /\ j = i) /\ Old(r, m, j, k)
        BY <1>12, <2>1, <3>2
      <4>2. \/ x = n /\ y = i /\ h \in Kept /\ Old(r, n, i, org[h])
            \/ ~ (x = n /\ y = i) /\ Old(r, x, y, h)
        BY <1>12, <2>1, <3>2
      <4> QED  BY <1>5, <1>11, <4>1, <4>2
    <3> QED  BY <3>1, <3>2
  <2> QED  BY <2>1, ClientPlaces DEF New
<1>14. ASSUME NEW r \in Reqs
       PROVE  InClient(r)' <=> (InClient(r) /\ r \notin R) \/ \E f \in F : ReqOf(f) = r
  <2>1. InClient(r)' <=> \E m \in Nodes : \E j, k : New(r, m, j, k)
    BY ClientPlaces DEF New
  <2>2. InClient(r)' => (InClient(r) /\ r \notin R) \/ \E f \in F : ReqOf(f) = r
    BY <1>8, <1>12, <2>1
  <2>3. (\E f \in F : ReqOf(f) = r) => InClient(r)'
    BY <1>4, <1>9, <2>1
  <2>4. ASSUME NEW m \in Nodes, NEW j, NEW k, Old(r, m, j, k), r \notin R
        PROVE  InClient(r)'
    BY <1>3, <1>4, <1>7, <2>1, <2>4
  <2> QED  BY <1>8, <2>2, <2>3, <2>4
<1>15. ASSUME NEW m \in Nodes, NEW j \in DOMAIN evConnect'[m], NEW k \in Slots(evConnect'[m][j])
       PROVE  \/ evConnect'[m][j].to = c.to /\ FrameOf(evConnect'[m][j], k) \in F
              \/ /\ j \in DOMAIN evConnect[m] /\ evConnect'[m][j].to = evConnect[m][j].to
                 /\ \E h \in Slots(evConnect[m][j]) :
                      /\ FrameOf(evConnect'[m][j], k) = FrameOf(evConnect[m][j], h)
                      /\ ReqOf(FrameOf(evConnect[m][j], h)) \notin R
  <2>1. CASE m = n /\ j = i /\ k \in N
    BY <1>1, <1>2, <1>15, <2>1
  <2>2. CASE m = n /\ j = i /\ k \notin N
    <3>1. /\ k \in Kept /\ org[k] \in Slots(c) /\ FrameOf(d, k) = FrameOf(c, org[k])
          /\ evConnect'[m][j] = d
      BY <1>1, <1>2, <1>15, <2>2 DEF Kept
    <3>2. ReqOf(FrameOf(c, org[k])) \notin R
      <4>1. SUFFICES ASSUME NEW r \in R, r = ReqOf(FrameOf(c, org[k]))
                     PROVE  FALSE
        OBVIOUS
      <4>2. Old(r, n, i, org[k])
        BY <3>1, <4>1 DEF Old, ClientHolds
      <4> QED  BY <1>5, <1>6, <3>1, <4>2
    <3> QED  BY <1>1, <2>2, <3>1, <3>2
  <2>3. CASE ~ (m = n /\ j = i)
    <3>1. j \in DOMAIN evConnect[m] /\ evConnect'[m][j] = evConnect[m][j]
      BY <1>2, <2>3
    <3>2. ReqOf(FrameOf(evConnect[m][j], k)) \notin R
      <4>1. SUFFICES ASSUME NEW r \in R, r = ReqOf(FrameOf(evConnect[m][j], k))
                     PROVE  FALSE
        OBVIOUS
      <4>2. Old(r, m, j, k)
        BY <1>15, <3>1, <4>1 DEF Old, ClientHolds
      <4> QED  BY <1>5, <1>6, <2>3, <4>2
    <3> QED  BY <1>15, <3>1, <3>2
  <2> QED  BY <2>1, <2>2, <2>3
<1>16. \A m \in Nodes : \A j \in DOMAIN evConnect'[m] : TornTrue(evConnect'[m][j])
  BY <1>2 DEF ClientsTrue
<1> QED  BY <1>13, <1>14, <1>15, <1>16 DEF ClientsChange

LEMMA ClientsSame ==
  ASSUME ClientsTrue, UNCHANGED evConnect, NEW s
  PROVE  ClientsChange({}, s, {})
BY DEF ClientsTrue, ClientsChange, OnceInClients, InClient, ClientHolds

\* The places of a client, and what is in them.
LEMMA SlotTypes ==
  ASSUME NEW c \in Client
  PROVE  /\ c.pipe \in Seq(Frame) /\ DOMAIN c.pipe = 1 .. Len(c.pipe) /\ Len(c.pipe) \in Nat
         /\ c.to \in Nodes /\ c.msg \in Frame /\ c.torn \in BOOLEAN
         /\ \A k : k \in Slots(c) <=> \/ k \in 1 .. Len(c.pipe) /\ (k = 1 => ~ c.torn)
                                      \/ k = 0 /\ c.st \in {"spawned", "dialing"}
         /\ \A k \in Slots(c) : FrameOf(c, k) \in Frame /\ ReqOf(FrameOf(c, k)) \in Reqs
<1>1. c.pipe \in Seq(Frame) /\ c.to \in Nodes /\ c.msg \in Frame /\ c.torn \in BOOLEAN
  BY DEF Client
<1>2. DOMAIN c.pipe = 1 .. Len(c.pipe) /\ Len(c.pipe) \in Nat
  BY <1>1, LenProperties
<1>3. \A k \in 1 .. Len(c.pipe) : c.pipe[k] \in Frame
  BY <1>1, ElementOfSeq
<1>4. \A k : k \in Slots(c) <=> \/ k \in 1 .. Len(c.pipe) /\ (k = 1 => ~ c.torn)
                                \/ k = 0 /\ c.st \in {"spawned", "dialing"}
  BY <1>2 DEF Slots
<1>5. \A k \in Slots(c) : FrameOf(c, k) \in Frame
  BY <1>1, <1>3, <1>4 DEF FrameOf
<1> QED  BY <1>1, <1>2, <1>4, <1>5, FrameTypes

LEMMA ClientTyped ==
  ASSUME TypeOK, NEW n \in Nodes, NEW i \in DOMAIN evConnect[n]
  PROVE  evConnect[n][i] \in Client /\ evConnect \in [Nodes -> Seq(Client)]
<1>1. evConnect[n] \in Seq(Client) /\ i \in 1 .. Len(evConnect[n])
  BY LenProperties DEF TypeOK
<1> QED  BY <1>1, ElementOfSeq DEF TypeOK

\* A frame is sent on an open connection.
LEMMA ClientSend ==
  ASSUME TypeOK, ClientsTrue, NEW n \in Nodes, NEW i \in DOMAIN evConnect[n],
         evConnect[n][i].st = "open", NEW f \in Frame, ~ InClient(ReqOf(f)),
         evConnect' = [evConnect EXCEPT ![n][i].pipe = Append(@, f)]
  PROVE  ClientsChange({}, evConnect[n][i].to, {f})
<1> DEFINE c == evConnect[n][i]
           p == c.pipe
           d == [c EXCEPT !.pipe = Append(p, f)]
           N == {Len(p) + 1}
           org == [k \in Slots(d) \ N |-> k]
<1>1. c \in Client /\ evConnect \in [Nodes -> Seq(Client)]
  BY ClientTyped
<1>2. /\ p \in Seq(Frame) /\ Len(p) \in Nat /\ DOMAIN p = 1 .. Len(p)
      /\ \A k : k \in Slots(c) <=> k \in 1 .. Len(p) /\ (k = 1 => ~ c.torn)
  BY <1>1, SlotTypes
<1>3. /\ Append(p, f) \in Seq(Frame) /\ Len(Append(p, f)) = Len(p) + 1
      /\ Append(p, f)[Len(p) + 1] = f /\ \A k \in 1 .. Len(p) : Append(p, f)[k] = p[k]
  BY <1>2, AppendProperties
<1>4. /\ d \in Client /\ d.pipe = Append(p, f) /\ d.st = "open" /\ d.to = c.to /\ d.msg = c.msg
      /\ d.torn = c.torn
  BY <1>1, <1>3 DEF Client
<1>5. \A k : k \in Slots(d) <=> k \in 1 .. Len(p) + 1 /\ (k = 1 => ~ c.torn)
  <2>1. \A k : k \in Slots(d) <=> \/ k \in 1 .. Len(d.pipe) /\ (k = 1 => ~ d.torn)
                                  \/ k = 0 /\ d.st \in {"spawned", "dialing"}
    BY <1>4, SlotTypes
  <2> HIDE DEF d, p
  <2> QED  BY <1>3, <1>4, <2>1
<1>6. evConnect' = [evConnect EXCEPT ![n] = [@ EXCEPT ![i] = d]]
  BY <1>1, <1>2
<1>11. c.torn => Len(p) > 0 /\ RestTrue(c.to, p[1])
  BY <1>2, EmptySeq DEF ClientsTrue, TornTrue
<1>12. TornTrue(d)
  <2>1. c.torn => d.pipe # <<>> /\ d.pipe[1] = p[1]
    <3> HIDE DEF d, p
    <3>1. c.torn => 1 \in 1 .. Len(p) /\ Len(p) + 1 # 0
      BY <1>2, <1>11
    <3> QED  BY <1>3, <1>4, <3>1, EmptySeq
  <2> QED  BY <1>4, <1>11, <2>1 DEF TornTrue
<1>7. Slots(d) \ N = Slots(c) /\ N \cap Slots(d) = N
  <2>1. \A x \in Nat : \A k : /\ k \in 1 .. x + 1 <=> k \in 1 .. x \/ k = x + 1
                             /\ x + 1 \notin 1 .. x /\ (x + 1 = 1 => ~ x > 0)
    OBVIOUS
  <2>2. \A k : /\ k \in 1 .. Len(p) + 1 <=> k \in 1 .. Len(p) \/ k \in N
               /\ k \in N => k \notin 1 .. Len(p) /\ (k = 1 => ~ c.torn)
    BY <1>2, <1>11, <2>1
  <2> HIDE DEF d, N, p, c
  <2> QED  BY <1>2, <1>5, <2>2
<1>8. \A k \in Slots(c) : FrameOf(d, k) = FrameOf(c, k)
  BY <1>2, <1>3, <1>4 DEF FrameOf
<1>9. \A k \in N : FrameOf(d, k) = f
  BY <1>2, <1>3, <1>4 DEF FrameOf
<1>10. FrameEdits(c, d, N, org, {}, {f})
  BY <1>4, <1>7, <1>8, <1>9 DEF FrameEdits
<1> HIDE DEF d, N, org
<1> QED  BY <1>6, <1>10, <1>12, ClientChanged

\* A client starts to dial: its message stays with it.
LEMMA ClientDials ==
  ASSUME TypeOK, ClientsTrue, NEW n \in Nodes, NEW i \in DOMAIN evConnect[n],
         evConnect[n][i].st = "spawned",
         evConnect' = [evConnect EXCEPT ![n][i].st = "dialing"]
  PROVE  ClientsChange({}, evConnect[n][i].to, {})
<1> DEFINE c == evConnect[n][i]
           d == [c EXCEPT !.st = "dialing"]
           org == [k \in Slots(d) \ {} |-> k]
<1>1. c \in Client /\ evConnect \in [Nodes -> Seq(Client)]
  BY ClientTyped
<1>2. d.pipe = c.pipe /\ d.st = "dialing" /\ d.to = c.to /\ d.msg = c.msg /\ d.torn = c.torn
  BY <1>1 DEF Client
<1>3. evConnect' = [evConnect EXCEPT ![n] = [@ EXCEPT ![i] = d]]
  BY <1>1
<1>4. Slots(d) = Slots(c) /\ \A k \in Slots(c) : FrameOf(d, k) = FrameOf(c, k)
  BY <1>2 DEF Slots, FrameOf
<1>5. FrameEdits(c, d, {}, org, {}, {})
  BY <1>2, <1>4 DEF FrameEdits
<1>6. TornTrue(d)
  BY <1>2 DEF ClientsTrue, TornTrue
<1> HIDE DEF d, org
<1> QED  BY <1>3, <1>5, <1>6, ClientChanged

\* The connection is there: the message moves into the pipe.
LEMMA ClientConnects ==
  ASSUME TypeOK, ClientsTrue, NEW n \in Nodes, NEW i \in DOMAIN evConnect[n],
         evConnect[n][i].st = "dialing",
         evConnect' = [evConnect EXCEPT ![n][i].st = "open",
                                        ![n][i].pipe = Append(@, evConnect[n][i].msg)]
  PROVE  ClientsChange({}, evConnect[n][i].to, {})
<1> DEFINE c == evConnect[n][i]
           p == c.pipe
           f == c.msg
           d == [c EXCEPT !.st = "open", !.pipe = Append(p, f)]
           org == [k \in Slots(d) \ {} |-> IF k = Len(p) + 1 THEN 0 ELSE k]
<1>1. c \in Client /\ evConnect \in [Nodes -> Seq(Client)]
  BY ClientTyped
<1>2. /\ p \in Seq(Frame) /\ Len(p) \in Nat /\ DOMAIN p = 1 .. Len(p) /\ f \in Frame
      /\ \A k : k \in Slots(c) <=> (k \in 1 .. Len(p) /\ (k = 1 => ~ c.torn)) \/ k = 0
  BY <1>1, SlotTypes
<1>3. /\ Append(p, f) \in Seq(Frame) /\ Len(Append(p, f)) = Len(p) + 1
      /\ Append(p, f)[Len(p) + 1] = f /\ \A k \in 1 .. Len(p) : Append(p, f)[k] = p[k]
  BY <1>2, AppendProperties
<1>4. /\ d \in Client /\ d.pipe = Append(p, f) /\ d.st = "open" /\ d.to = c.to /\ d.msg = c.msg
      /\ d.torn = c.torn
  BY <1>1, <1>3 DEF Client
<1>5. \A k : k \in Slots(d) <=> k \in 1 .. Len(p) + 1 /\ (k = 1 => ~ c.torn)
  <2>1. \A k : k \in Slots(d) <=> \/ k \in 1 .. Len(d.pipe) /\ (k = 1 => ~ d.torn)
                                  \/ k = 0 /\ d.st \in {"spawned", "dialing"}
    BY <1>4, SlotTypes
  <2> HIDE DEF d, p
  <2> QED  BY <1>3, <1>4, <2>1
<1>6. evConnect' = [evConnect EXCEPT ![n] = [@ EXCEPT ![i] = d]]
  BY <1>1, <1>2
<1>11. c.torn => Len(p) > 0 /\ RestTrue(c.to, p[1])
  BY <1>2, EmptySeq DEF ClientsTrue, TornTrue
<1>12. TornTrue(d)
  <2>1. c.torn => d.pipe # <<>> /\ d.pipe[1] = p[1]
    <3> HIDE DEF d, p
    <3>1. c.torn => 1 \in 1 .. Len(p) /\ Len(p) + 1 # 0
      BY <1>2, <1>11
    <3> QED  BY <1>3, <1>4, <3>1, EmptySeq
  <2> QED  BY <1>4, <1>11, <2>1 DEF TornTrue
<1>7. /\ \A k \in Slots(d) : org[k] \in Slots(c) /\ FrameOf(d, k) = FrameOf(c, org[k])
      /\ \A k, h \in Slots(d) : org[k] = org[h] => k = h
  <2>1. \A k \in Slots(d) : IF k = Len(p) + 1 THEN org[k] = 0 ELSE org[k] = k
    OBVIOUS
  <2> HIDE DEF d, p, org
  <2>5. \A x \in Nat : \A k \in 1 .. x + 1 :
          (k = x + 1 /\ k # 0) \/ (k \in 1 .. x /\ k # 0 /\ k # x + 1)
    OBVIOUS
  <2>6. \A k \in Slots(d) : k \in 1 .. Len(p) + 1 /\ (k = 1 => ~ c.torn)
    BY <1>5
  <2>2. \A k \in Slots(d) :
          \/ k = Len(p) + 1 /\ k # 0
          \/ k \in 1 .. Len(p) /\ k # 0 /\ k # Len(p) + 1 /\ (k = 1 => ~ c.torn)
    BY <1>2, <2>5, <2>6
  <2>3. \A k \in Slots(d) : org[k] \in Slots(c)
    BY <1>2, <2>1, <2>2
  <2>4. ASSUME NEW k \in Slots(d)
        PROVE  FrameOf(d, k) = FrameOf(c, org[k])
    <3>1. CASE k = Len(p) + 1 /\ k # 0
      <4>1. FrameOf(d, k) = f
        BY <1>3, <1>4, <3>1 DEF FrameOf
      <4>2. FrameOf(c, org[k]) = f
        BY <2>1, <3>1 DEF FrameOf
      <4> QED  BY <4>1, <4>2
    <3>2. CASE k \in 1 .. Len(p) /\ k # 0 /\ k # Len(p) + 1
      <4>1. FrameOf(d, k) = p[k]
        BY <1>3, <1>4, <3>2 DEF FrameOf
      <4>2. FrameOf(c, org[k]) = p[k]
        BY <2>1, <3>2 DEF FrameOf, p
      <4> QED  BY <4>1, <4>2
    <3> QED  BY <2>2, <3>1, <3>2
  <2> QED  BY <2>1, <2>2, <2>3, <2>4
<1>8. \A h \in Slots(c) : \E k \in Slots(d) : org[k] = h
  <2>1. org[Len(p) + 1] = 0 /\ Len(p) + 1 \in Slots(d)
    <3>1. Len(p) + 1 \in 1 .. Len(p) + 1 /\ (Len(p) + 1 = 1 => ~ c.torn)
      BY <1>2, <1>11
    <3>2. Len(p) + 1 \in Slots(d)
      BY <1>5, <3>1
    <3> QED  BY <3>2
  <2>2. \A h \in 1 .. Len(p) : (h = 1 => ~ c.torn) => h \in Slots(d) /\ org[h] = h
    BY <1>2, <1>5
  <2> QED  BY <1>2, <2>1, <2>2
<1>9. org \in [Slots(d) \ {} -> Slots(c)]
  BY <1>7
<1> HIDE DEF d, org
<1>10. FrameEdits(c, d, {}, org, {}, {})
  BY <1>4, <1>7, <1>8, <1>9 DEF FrameEdits
<1> QED  BY <1>6, <1>10, <1>12, ClientChanged

\* A connection that cannot be had: the message is lost.
LEMMA ClientFails ==
  ASSUME TypeOK, ClientsTrue, NEW n \in Nodes, NEW i \in DOMAIN evConnect[n],
         evConnect[n][i].st = "dialing",
         evConnect' = [evConnect EXCEPT ![n][i].st = "closed"]
  PROVE  ClientsChange({ReqOf(evConnect[n][i].msg)}, evConnect[n][i].to, {})
<1> DEFINE c == evConnect[n][i]
           p == c.pipe
           d == [c EXCEPT !.st = "closed"]
           org == [k \in Slots(d) \ {} |-> k]
<1>1. c \in Client /\ evConnect \in [Nodes -> Seq(Client)]
  BY ClientTyped
<1>2. /\ Len(p) \in Nat /\ DOMAIN p = 1 .. Len(p) /\ ReqOf(c.msg) \in Reqs
      /\ \A k : k \in Slots(c) <=> (k \in 1 .. Len(p) /\ (k = 1 => ~ c.torn)) \/ k = 0
  BY <1>1, SlotTypes, FrameTypes
<1>3. d.pipe = c.pipe /\ d.st = "closed" /\ d.to = c.to /\ d.msg = c.msg /\ d.torn = c.torn
  BY <1>1 DEF Client
<1>4. evConnect' = [evConnect EXCEPT ![n] = [@ EXCEPT ![i] = d]]
  BY <1>1
<1>5. /\ \A k : k \in Slots(d) <=> k \in 1 .. Len(p) /\ (k = 1 => ~ c.torn)
      /\ \A k \in Slots(d) : FrameOf(d, k) = FrameOf(c, k)
  BY <1>2, <1>3 DEF Slots, FrameOf
<1>6. FrameOf(c, 0) = c.msg /\ 0 \in Slots(c) /\ 0 \notin Slots(d)
      /\ \A h \in Slots(c) : h \in Slots(d) \/ h = 0
  BY <1>2, <1>5 DEF FrameOf
<1>7. org \in [Slots(d) \ {} -> Slots(c)] /\ \A k \in Slots(d) : org[k] = k
  BY <1>2, <1>5
<1>9. TornTrue(d)
  BY <1>3 DEF ClientsTrue, TornTrue
<1> HIDE DEF d, org
<1>8. FrameEdits(c, d, {}, org, {ReqOf(c.msg)}, {})
  BY <1>3, <1>5, <1>6, <1>7 DEF FrameEdits
<1> QED  BY <1>2, <1>4, <1>8, <1>9, ClientChanged

\* A connection that is closed loses what was not read.  A frame that was read in part
\* is not there any more.
LEMMA ClientCloses ==
  ASSUME TypeOK, ClientsTrue, NEW n \in Nodes, NEW i \in DOMAIN evConnect[n],
         evConnect[n][i].st = "open",
         evConnect' = [evConnect EXCEPT ![n][i].st = "closed", ![n][i].pipe = <<>>,
                                        ![n][i].torn = FALSE]
  PROVE  \E R \in SUBSET {ReqOf(evConnect[n][i].pipe[k]) : k \in DOMAIN evConnect[n][i].pipe} :
           ClientsChange(R, evConnect[n][i].to, {})
<1> DEFINE c == evConnect[n][i]
           p == c.pipe
           R == {ReqOf(FrameOf(c, k)) : k \in Slots(c)}
           d == [c EXCEPT !.st = "closed", !.pipe = <<>>, !.torn = FALSE]
           org == [k \in Slots(d) \ {} |-> k]
<1>1. c \in Client /\ evConnect \in [Nodes -> Seq(Client)]
  BY ClientTyped
<1>2. /\ Len(p) \in Nat /\ DOMAIN p = 1 .. Len(p) /\ \A k \in Slots(c) : k \in 1 .. Len(p)
      /\ \A k \in Slots(c) : ReqOf(FrameOf(c, k)) \in Reqs
  BY <1>1, SlotTypes
<1>3. d.pipe = <<>> /\ d.st = "closed" /\ d.to = c.to /\ d.torn = FALSE
  BY <1>1 DEF Client
<1>4. evConnect' = [evConnect EXCEPT ![n] = [@ EXCEPT ![i] = d]]
  BY <1>1
<1>5. Slots(d) = {}
  BY <1>3 DEF Slots
<1>6. \A k \in Slots(c) : FrameOf(c, k) = p[k]
  BY <1>2 DEF FrameOf
<1>7. R \in SUBSET Reqs /\ R = {ReqOf(FrameOf(c, k)) : k \in Slots(c)}
  BY <1>2
<1>8. org \in [Slots(d) \ {} -> Slots(c)]
  BY <1>5
<1>11. TornTrue(d)
  BY <1>3 DEF TornTrue
<1>12. R \in SUBSET {ReqOf(p[k]) : k \in DOMAIN p}
  BY <1>2, <1>6
<1> HIDE DEF d, org, R
<1>9. FrameEdits(c, d, {}, org, R, {})
  BY <1>3, <1>5, <1>7, <1>8 DEF FrameEdits
<1>10. ClientsChange(R, c.to, {})
  BY <1>4, <1>7, <1>9, <1>11, ClientChanged
<1> QED  BY <1>10, <1>12

\* k frames are read to their end, and perhaps a part of the next one: the messages up
\* to the last one that was touched are gone, unless it is the rest of one.
LEMMA ClientRead ==
  ASSUME TypeOK, ClientsTrue, NEW n \in Nodes, NEW i \in DOMAIN evConnect[n],
         NEW k \in 0 .. Len(evConnect[n][i].pipe), NEW cut \in BOOLEAN,
         NEW last \in DOMAIN evConnect[n][i].pipe, last = IF cut THEN k + 1 ELSE k,
         evConnect[n][i].torn => k > 0,
         cut => RestTrue(evConnect[n][i].to, evConnect[n][i].pipe[last]),
         evConnect' = [evConnect EXCEPT ![n][i].pipe = SubSeq(@, k + 1, Len(@)),
                                        ![n][i].torn = cut]
  PROVE  ClientsChange({ReqOf(evConnect[n][i].pipe[j]) : j \in {h \in 1 .. last : h = 1 => ~ evConnect[n][i].torn}},
                       evConnect[n][i].to, {})
<1> DEFINE c == evConnect[n][i]
           p == c.pipe
           q == SubSeq(p, k + 1, Len(p))
           J == {j \in 1 .. last : j = 1 => ~ c.torn}
           R == {ReqOf(p[j]) : j \in J}
           d == [c EXCEPT !.pipe = q, !.torn = cut]
           org == [h \in Slots(d) \ {} |-> IF h = 0 THEN 0 ELSE h + k]
<1>1. c \in Client /\ evConnect \in [Nodes -> Seq(Client)]
  BY ClientTyped
<1>2. /\ p \in Seq(Frame) /\ Len(p) \in Nat /\ DOMAIN p = 1 .. Len(p) /\ k \in 0 .. Len(p)
      /\ last \in 1 .. Len(p)
      /\ \A j : j \in Slots(c) <=> \/ j \in 1 .. Len(p) /\ (j = 1 => ~ c.torn)
                                   \/ j = 0 /\ c.st \in {"spawned", "dialing"}
      /\ \A j \in Slots(c) : ReqOf(FrameOf(c, j)) \in Reqs
  BY <1>1, SlotTypes
<1>3. q \in Seq(Frame) /\ Len(q) = Len(p) - k /\ \A j \in 1 .. Len(p) - k : q[j] = p[k + j]
  <2> HIDE DEF p
  <2> QED  BY <1>2, SuffixProperties
<1>4. d \in Client /\ d.pipe = q /\ d.st = c.st /\ d.to = c.to /\ d.msg = c.msg /\ d.torn = cut
  BY <1>1, <1>3 DEF Client
<1>5. \A h : h \in Slots(d) <=> \/ h \in 1 .. Len(p) - k /\ (h = 1 => ~ cut)
                                \/ h = 0 /\ c.st \in {"spawned", "dialing"}
  <2>1. \A h : h \in Slots(d) <=> \/ h \in 1 .. Len(d.pipe) /\ (h = 1 => ~ d.torn)
                                  \/ h = 0 /\ d.st \in {"spawned", "dialing"}
    BY <1>4, SlotTypes
  <2> HIDE DEF d, q
  <2> QED  BY <1>3, <1>4, <2>1
<1>6. evConnect' = [evConnect EXCEPT ![n] = [@ EXCEPT ![i] = d]]
  BY <1>1, <1>2
<1>20. TornTrue(d)
  <2>1. ASSUME cut
        PROVE  d.pipe # <<>> /\ d.pipe[1] = p[last]
    <3>1. last = k + 1 /\ 1 \in 1 .. Len(p) - k /\ Len(q) # 0
      BY <1>2, <1>3, <2>1
    <3>2. q[1] = p[k + 1]
      BY <1>3, <3>1
    <3> QED  BY <1>3, <1>4, <3>1, <3>2, EmptySeq
  <2> QED  BY <1>4, <2>1 DEF TornTrue
<1>7. ASSUME NEW h \in Slots(d)
      PROVE  /\ org[h] \in Slots(c) /\ FrameOf(d, h) = FrameOf(c, org[h])
             /\ org[h] \notin J
  <2>1. CASE h = 0
    <3>1. c.st \in {"spawned", "dialing"}
      BY <1>2, <1>5, <2>1
    <3>2. org[h] = 0 /\ 0 \in Slots(c) /\ 0 \notin J
      BY <1>2, <2>1, <3>1
    <3>3. FrameOf(d, 0) = d.msg /\ FrameOf(c, 0) = c.msg
      BY DEF FrameOf
    <3> QED  BY <1>4, <2>1, <3>2, <3>3
  <2>2. CASE h # 0
    <3>1. h \in 1 .. Len(p) - k /\ (h = 1 => ~ cut)
      BY <1>5, <2>2
    <3>2. org[h] = h + k /\ h + k \in 1 .. Len(p) /\ h + k > last /\ h + k # 0
      BY <1>2, <2>2, <3>1
    <3>3. h + k = 1 => ~ c.torn
      BY <1>2, <3>1
    <3>4. h + k \in Slots(c) /\ h + k \notin J
      BY <1>2, <3>2, <3>3
    <3>5. FrameOf(d, h) = q[h] /\ FrameOf(c, h + k) = p[h + k]
      BY <1>4, <2>2, <3>2 DEF FrameOf
    <3>6. q[h] = p[h + k]
      <4>1. k + h = h + k
        BY <3>1
      <4> HIDE DEF q, p
      <4> QED  BY <1>3, <3>1, <4>1
    <3> QED  BY <3>2, <3>4, <3>5, <3>6
  <2> QED  BY <2>1, <2>2
<1>8. \A h, g \in Slots(d) : org[h] = org[g] => h = g
  BY <1>2, <1>5
<1>9. ASSUME NEW h \in Slots(c), h \notin J
      PROVE  \E g \in Slots(d) : org[g] = h
  <2>1. CASE h = 0
    <3>1. c.st \in {"spawned", "dialing"}
      BY <1>2, <1>9, <2>1
    <3>2. 0 \in Slots(d)
      BY <1>5, <3>1
    <3>3. org[0] = 0
      BY <3>2
    <3> QED  BY <2>1, <3>2, <3>3
  <2>2. CASE h # 0
    <3>1. h \in 1 .. Len(p) /\ h > last
      BY <1>2, <1>9, <2>2
    <3>2. h - k \in 1 .. Len(p) - k /\ h - k # 0 /\ (h - k) + k = h
      <4> HIDE DEF p
      <4> QED  BY <1>2, <3>1
    <3>4. h - k = 1 => ~ cut
      <4> HIDE DEF p
      <4> QED  BY <1>2, <3>1
    <3>3. h - k \in Slots(d) /\ org[h - k] = h
      BY <1>5, <3>2, <3>4
    <3> QED  BY <3>3
  <2> QED  BY <2>1, <2>2
<1>10. \A j \in J : j \in Slots(c) /\ FrameOf(c, j) = p[j]
  BY <1>2 DEF FrameOf
<1>12. R \in SUBSET Reqs
  BY <1>2, <1>10
<1>18. \A j \in J : ReqOf(p[j]) \in R
  OBVIOUS
<1>19. \A r \in R : \E j \in J : r = ReqOf(p[j])
  OBVIOUS
<1>15. org \in [Slots(d) \ {} -> Slots(c)]
  BY <1>7
<1> HIDE DEF d, org, R, p, c, J
<1>13. \A h \in Slots(c) : (\E g \in Slots(d) : org[g] = h) \/ ReqOf(FrameOf(c, h)) \in R
  BY <1>9, <1>10, <1>18
<1>14. \A r \in R : \E h \in Slots(c) : ReqOf(FrameOf(c, h)) = r /\ \A g \in Slots(d) : org[g] # h
  BY <1>7, <1>10, <1>19
<1>16. FrameEdits(c, d, {}, org, R, {})
  BY <1>4, <1>7, <1>8, <1>13, <1>14, <1>15 DEF FrameEdits
<1>17. ClientsChange(R, c.to, {})
  BY <1>6, <1>12, <1>16, <1>20, ClientChanged DEF c
<1> QED  BY <1>17 DEF R, J, c, p

\* The first message to a server starts a client.
LEMMA ClientSpawn ==
  ASSUME TypeOK, ClientsTrue, NEW n \in Nodes, NEW s \in Nodes,
         NEW f \in Frame, ~ InClient(ReqOf(f)),
         evConnect' = [evConnect EXCEPT ![n] = Append(@, NewClient(s, f))]
  PROVE  ClientsChange({}, s, {f})
<1> DEFINE p == evConnect[n]
           c == NewClient(s, f)
           q == Append(p, c)
           Old(r, m, j, k) == ClientHolds(r, m, j, k)
           New(r, m, j, k) == ClientHolds(r, m, j, k)'
<1>0. PICK I : I = Len(p) + 1
  OBVIOUS
<1>1. evConnect \in [Nodes -> Seq(Client)] /\ p \in Seq(Client) /\ c \in Client
  BY EmptySeq DEF TypeOK, NewClient, Client
<1>2. /\ DOMAIN p = 1 .. Len(p) /\ Len(p) \in Nat /\ DOMAIN q = 1 .. Len(p) + 1
      /\ q[I] = c /\ \A j \in DOMAIN p : q[j] = p[j]
  <2>1. /\ q \in Seq(Client) /\ Len(q) = Len(p) + 1 /\ q[Len(p) + 1] = c
        /\ \A j \in 1 .. Len(p) : q[j] = p[j]
    BY <1>1, AppendProperties
  <2>2. DOMAIN p = 1 .. Len(p) /\ Len(p) \in Nat /\ DOMAIN q = 1 .. Len(q)
    BY <1>1, <2>1, LenProperties
  <2> QED  BY <1>0, <2>1, <2>2
<1>3. Slots(c) = {0} /\ FrameOf(c, 0) = f /\ c.to = s /\ TornTrue(c)
  BY DEF NewClient, Slots, FrameOf, TornTrue
<1>4. I \notin DOMAIN p /\ \A j : j \in DOMAIN q <=> j \in DOMAIN p \/ j = I
  <2>1. \A x \in Nat : x + 1 \notin 1 .. x /\ \A j : j \in 1 .. x + 1 <=> j \in 1 .. x \/ j = x + 1
    OBVIOUS
  <2> QED  BY <1>0, <1>2, <2>1
<1> HIDE DEF c, q
<1>5. evConnect'[n] = q /\ \A m \in Nodes : m # n => evConnect'[m] = evConnect[m]
  BY <1>1 DEF q, c
<1>6. ASSUME NEW m \in Nodes, NEW j \in DOMAIN evConnect'[m]
      PROVE  \/ m = n /\ j = I /\ evConnect'[m][j] = c
             \/ j \in DOMAIN evConnect[m] /\ evConnect'[m][j] = evConnect[m][j] /\ ~ (m = n /\ j = I)
  BY <1>2, <1>4, <1>5, <1>6
<1>7. ASSUME NEW m \in Nodes, NEW j \in DOMAIN evConnect[m]
      PROVE  j \in DOMAIN evConnect'[m] /\ evConnect'[m][j] = evConnect[m][j] /\ ~ (m = n /\ j = I)
  BY <1>2, <1>4, <1>5, <1>7
<1>8. I \in DOMAIN evConnect'[n] /\ evConnect'[n][I] = c
  BY <1>2, <1>4, <1>5
<1> HIDE DEF p
<1>9. ASSUME NEW r \in Reqs, NEW m \in Nodes, NEW j, NEW k
      PROVE  /\ Old(r, m, j, k) => New(r, m, j, k) /\ ~ (m = n /\ j = I)
             /\ New(r, m, j, k) => \/ Old(r, m, j, k) /\ ~ (m = n /\ j = I)
                                   \/ m = n /\ j = I /\ k = 0 /\ ReqOf(f) = r
  <2>1. Old(r, m, j, k) => New(r, m, j, k) /\ ~ (m = n /\ j = I)
    BY <1>7 DEF ClientHolds
  <2>2. ASSUME New(r, m, j, k)
        PROVE  \/ Old(r, m, j, k) /\ ~ (m = n /\ j = I)
               \/ m = n /\ j = I /\ k = 0 /\ ReqOf(f) = r
    <3>1. /\ j \in DOMAIN evConnect'[m] /\ k \in Slots(evConnect'[m][j])
          /\ ReqOf(FrameOf(evConnect'[m][j], k)) = r
      BY <2>2 DEF ClientHolds
    <3>2. CASE m = n /\ j = I /\ evConnect'[m][j] = c
      BY <1>3, <3>1, <3>2
    <3>3. CASE j \in DOMAIN evConnect[m] /\ evConnect'[m][j] = evConnect[m][j] /\ ~ (m = n /\ j = I)
      BY <3>1, <3>3 DEF ClientHolds
    <3> QED  BY <1>6, <3>1, <3>2, <3>3
  <2> QED  BY <2>1, <2>2
<1>10. \A r \in Reqs : ReqOf(f) = r => New(r, n, I, 0)
  BY <1>3, <1>8 DEF ClientHolds
<1>11. ASSUME NEW r \in Reqs
       PROVE  /\ InClient(r) <=> \E m \in Nodes : \E j, k : Old(r, m, j, k)
              /\ InClient(r)' <=> \E m \in Nodes : \E j, k : New(r, m, j, k)
              /\ \A x, m \in Nodes : \A i, k, j, h :
                   Old(r, x, i, k) /\ Old(r, m, j, h) => x = m /\ i = j /\ k = h
              /\ OnceInClients(r)' <=> \A x, m \in Nodes : \A i, k, j, h :
                   New(r, x, i, k) /\ New(r, m, j, h) => x = m /\ i = j /\ k = h
  BY ClientPlaces DEF ClientsTrue
<1> HIDE DEF Old, New
<1>12. ASSUME NEW r \in Reqs
       PROVE  InClient(r)' <=> InClient(r) \/ ReqOf(f) = r
  BY <1>9, <1>10, <1>11
<1>13. ASSUME NEW r \in Reqs
       PROVE  OnceInClients(r)'
  <2>1. CASE ReqOf(f) = r
    <3>1. \A m \in Nodes : \A j, k : New(r, m, j, k) => m = n /\ j = I /\ k = 0
      BY <1>9, <1>11, <2>1
    <3> QED  BY <1>11, <3>1
  <2>2. CASE ReqOf(f) # r
    <3>1. \A m \in Nodes : \A j, k : New(r, m, j, k) => Old(r, m, j, k)
      BY <1>9, <2>2
    <3> QED  BY <1>11, <3>1
  <2> QED  BY <2>1, <2>2
<1>14. ASSUME NEW m \in Nodes, NEW j \in DOMAIN evConnect'[m], NEW k \in Slots(evConnect'[m][j])
       PROVE  \/ evConnect'[m][j].to = s /\ FrameOf(evConnect'[m][j], k) \in {f}
              \/ /\ j \in DOMAIN evConnect[m] /\ evConnect'[m][j].to = evConnect[m][j].to
                 /\ \E h \in Slots(evConnect[m][j]) :
                      /\ FrameOf(evConnect'[m][j], k) = FrameOf(evConnect[m][j], h)
                      /\ ReqOf(FrameOf(evConnect[m][j], h)) \notin {}
  BY <1>3, <1>6, <1>14
<1>15. \A m \in Nodes : \A j \in DOMAIN evConnect'[m] : TornTrue(evConnect'[m][j])
  BY <1>3, <1>6 DEF ClientsTrue
<1> QED  BY <1>12, <1>13, <1>14, <1>15 DEF ClientsChange

\* processStringMessage hands its frame to a client of the server, or ends the process.
LEMMA SendChanges ==
  ASSUME TypeOK, EndpointsKnown, ClientsTrue, NEW n \in Nodes,
         NEW s \in Nodes, NEW f \in Frame, ~ InClient(ReqOf(f)), processStringMessage(n, s, f)
  PROVE  \/ ClientsChange({}, s, {f}) /\ Alive
         \/ ClientsChange({}, s, {}) /\ Die(n, "null_conn")
<1> DEFINE i == endpoints[n][s]
<1>1. /\ i \in Nat /\ i <= Len(evConnect[n]) /\ evConnect[n] \in Seq(Client)
      /\ i # 0 => evConnect[n][i].to = s
      /\ s # None
  BY BusAssumption DEF TypeOK, EndpointsKnown
<1>2. CASE i = 0
  <2>1. evConnect' = [evConnect EXCEPT ![n] = Append(@, NewClient(s, f))] /\ Alive
    BY <1>1, <1>2 DEF processStringMessage
  <2> QED  BY <2>1, ClientSpawn
<1>3. CASE i # 0 /\ evConnect[n][i].st = "open"
  <2>1. evConnect' = [evConnect EXCEPT ![n][i].pipe = Append(@, f)] /\ Alive
    BY <1>1, <1>3 DEF processStringMessage
  <2>2. i \in DOMAIN evConnect[n] /\ evConnect[n][i].to = s
    BY <1>1, <1>3, LenProperties
  <2> HIDE DEF i
  <2>3. ClientsChange({}, evConnect[n][i].to, {f})
    BY <1>3, <2>1, <2>2, ClientSend
  <2>4. PICK x : x = evConnect[n][i].to
    OBVIOUS
  <2> QED  BY <2>1, <2>2, <2>3
<1>4. CASE i # 0 /\ evConnect[n][i].st # "open"
  <2>1. UNCHANGED evConnect /\ Die(n, "null_conn")
    BY <1>1, <1>4 DEF processStringMessage
  <2> QED  BY <2>1, ClientsSame
<1> QED  BY <1>2, <1>3, <1>4

-----------------------------------------------------------------------------
(* What a step has to show.                                                *)

\* Nothing happens to the request.
Untouched(r) ==
  /\ call'[r] = call[r] /\ route'[r] = route[r]
  /\ invoked'[r] = invoked[r] /\ answered'[r] = answered[r]

\* The messages of R and Q are taken from the loops and the clients, which get T at
\* n and F to s.  Whatever happens, happens to a request whose message is taken, and
\* the new message, of which there is no other, agrees with it.
Accounts(R, n, T, Q, s, F) ==
  /\ LoopsChange(R, n, T) /\ ClientsChange(Q, s, F)
  /\ \A r \in Reqs : Untouched(r) \/ ((InLoop(r) => r \in R) /\ (InClient(r) => r \in Q))
  /\ \A t \in T : TaskTrue(n, t)'
  /\ \A f \in F : FrameTrue(s, f)'
  /\ \A t \in T, r \in Reqs : Carries(t, r) => (InClient(r) => r \in Q)
  /\ \A f \in F : InLoop(ReqOf(f)) => ReqOf(f) \in R
  /\ \A t \in T, f \in F : ~ Carries(t, ReqOf(f))

\* A frame that is on its way to s carries no request of s in second place.
LEMMA FrameRest ==
  ASSUME NEW s \in Nodes, NEW f \in Frame, FrameTrue(s, f)
  PROVE  RestTrue(s, f)
<1>1. CASE f \in RequestFrame
  BY <1>1, BusAssumption DEF RequestFrame, FrameTrue, RestTrue, Stage, Call
<1>2. CASE f \in ReplyFrame
  BY <1>2, BusAssumption DEF ReplyFrame, RestTrue
<1> QED  BY <1>1, <1>2 DEF Frame

\* What agreed with a request agrees with it while it is untouched; the rest of a frame
\* needs only that no call is forgotten.
LEMMA Frozen ==
  ASSUME \A r \in Reqs : call[r] # None => call'[r] = call[r]
  PROVE
  /\ \A s, f : RestTrue(s, f) => RestTrue(s, f)'
  /\ \A s \in Nodes, f \in Frame : FrameTrue(s, f) /\ Untouched(ReqOf(f)) => FrameTrue(s, f)'
  /\ \A n \in Nodes, t \in Task :
       TaskTrue(n, t) /\ (\A r \in Reqs : Carries(t, r) => Untouched(r)) => TaskTrue(n, t)'
<1>3. \A s, f : RestTrue(s, f) => RestTrue(s, f)'
  BY DEF RestTrue
<1>1. ASSUME NEW s \in Nodes, NEW f \in Frame, FrameTrue(s, f), Untouched(ReqOf(f))
      PROVE  FrameTrue(s, f)'
  <2>1. CASE f \in RequestFrame
    <3>1. f.first \in Addrs /\ ReqOf(f) = f.second
      BY <2>1, BusAssumption DEF RequestFrame, ReqOf
    <3> QED  BY <1>1, <3>1 DEF FrameTrue, Stage, Untouched
  <2>2. CASE f \in ReplyFrame
    <3>1. f.first \notin Addrs /\ ReqOf(f) = f.first
      BY <2>2, BusAssumption DEF ReplyFrame, ReqOf
    <3> QED  BY <1>1, <3>1 DEF FrameTrue, Stage, Untouched
  <2> QED  BY <2>1, <2>2 DEF Frame
<1>2. ASSUME NEW n \in Nodes, NEW t \in Task, TaskTrue(n, t),
             \A r \in Reqs : Carries(t, r) => Untouched(r)
      PROVE  TaskTrue(n, t)'
  <2>1. CASE t \in [kind : {"request"}, req : Reqs, address : Addrs]
    BY <1>2, <2>1 DEF TaskTrue, Stage, Untouched, Carries
  <2>2. CASE t \in [kind : {"routed"}, msg : Message]
    BY <1>2, <2>2 DEF TaskTrue, Stage, Untouched, Carries, Message
  <2>3. CASE t \in [kind : Received, frame : Frame]
    <3>1. t.frame \in Frame /\ ReqOf(t.frame) \in Reqs /\ t.kind \in Received
      BY <2>3, FrameTypes
    <3>2. t.kind = "frame" => ~ HasPing(t.frame)
      BY <1>2 DEF TaskTrue
    <3>3. CASE t.kind \in {"frame", "head"}
      <4>1. FrameTrue(n, t.frame) /\ Untouched(ReqOf(t.frame))
        BY <1>2, <3>1, <3>3 DEF TaskTrue, Carries
      <4>2. FrameTrue(n, t.frame)'
        BY <1>1, <3>1, <4>1
      <4> QED  BY <3>2, <3>3, <4>2 DEF TaskTrue, HasPing
    <3>4. CASE t.kind = "rest"
      <4>1. RestTrue(n, t.frame)'
        BY <1>2, <1>3, <3>4 DEF TaskTrue
      <4> QED  BY <3>4, <4>1 DEF TaskTrue
    <3> QED  BY <3>1, <3>3, <3>4 DEF Received
  <2> QED  BY <2>1, <2>2, <2>3 DEF Task
<1> QED  BY <1>1, <1>2, <1>3

LEMMA TaskTyped ==
  ASSUME TypeOK, NEW n \in Nodes, NEW l \in Loops, NEW k \in DOMAIN queue[n][l]
  PROVE  queue[n][l][k] \in Task
<1>1. queue[n][l] \in Seq(Task)
  BY DEF TypeOK
<1> QED  BY <1>1, LenProperties, ElementOfSeq

LEMMA Accounted ==
  ASSUME TypeOK, OneMessage, TasksTrue, FramesTrue, NEW R, NEW n \in Nodes, NEW T, NEW Q,
         NEW s \in Nodes, NEW F, Accounts(R, n, T, Q, s, F),
         \A r \in Reqs : call[r] # None => call'[r] = call[r]
  PROVE  OneMessage' /\ TasksTrue' /\ FramesTrue'
<1>1. LoopsChange(R, n, T) /\ ClientsChange(Q, s, F)
  BY DEF Accounts
<1>2. OneMessage'
  <2> SUFFICES ASSUME NEW r \in Reqs
               PROVE  (OnceInLoops(r) /\ OnceInClients(r) /\ ~ (InLoop(r) /\ InClient(r)))'
    BY DEF OneMessage
  <2>1. OnceInLoops(r)' /\ OnceInClients(r)'
    BY <1>1 DEF LoopsChange, ClientsChange
  <2>2. /\ InLoop(r)' <=> (InLoop(r) /\ r \notin R) \/ \E t \in T : Carries(t, r)
        /\ InClient(r)' <=> (InClient(r) /\ r \notin Q) \/ \E f \in F : ReqOf(f) = r
    BY <1>1 DEF LoopsChange, ClientsChange
  <2>3. ~ (InLoop(r) /\ InClient(r))
    BY DEF OneMessage
  <2>4. /\ \A t \in T : Carries(t, r) => (InClient(r) => r \in Q)
        /\ \A f \in F : ReqOf(f) = r => (InLoop(r) => r \in R)
        /\ \A t \in T, f \in F : ReqOf(f) = r => ~ Carries(t, r)
    BY DEF Accounts
  <2> QED  BY <2>1, <2>2, <2>3, <2>4
<1>3. TasksTrue'
  <2> SUFFICES ASSUME NEW m \in Nodes, NEW j \in Loops, NEW k \in DOMAIN queue'[m][j]
               PROVE  TaskTrue(m, queue[m][j][k])'
    BY DEF TasksTrue
  <2>1. PICK t : t = queue'[m][j][k]
    OBVIOUS
  <2>2. TaskTrue(m, t)'
    <3>1. CASE m = n /\ t \in T
      BY <3>1 DEF Accounts
    <3>2. ASSUME NEW h \in DOMAIN queue[m][j], t = queue[m][j][h],
                 \A r \in R : ~ Carries(t, r)
          PROVE  TaskTrue(m, t)'
      <4>1. t \in Task /\ TaskTrue(m, t)
        BY <3>2, TaskTyped DEF TasksTrue
      <4>2. ASSUME NEW r \in Reqs, Carries(t, r)
            PROVE  Untouched(r)
        <5>1. InLoop(r) /\ r \notin R
          BY <3>2, <4>2 DEF InLoop, LoopHolds
        <5> QED  BY <5>1 DEF Accounts
      <4> QED  BY <4>1, <4>2, Frozen
    <3>3. \/ m = n /\ t \in T
          \/ \E h \in DOMAIN queue[m][j] : t = queue[m][j][h] /\ \A r \in R : ~ Carries(t, r)
      BY <1>1, <2>1 DEF LoopsChange
    <3> QED  BY <3>1, <3>2, <3>3
  <2> QED  BY <2>1, <2>2 DEF TaskTrue, FrameTrue, RestTrue, Stage, HasPing
<1>5. ASSUME NEW m \in Nodes, NEW i \in DOMAIN evConnect'[m], evConnect'[m][i].torn
      PROVE  /\ evConnect'[m][i].pipe # <<>>
             /\ RestTrue(evConnect[m][i].to, evConnect[m][i].pipe[1])'
  <2>1. PICK x, f : x = evConnect'[m][i].to /\ f = evConnect'[m][i].pipe[1]
    OBVIOUS
  <2>2. evConnect'[m][i].pipe # <<>> /\ RestTrue(x, f)
    BY <1>1, <1>5, <2>1 DEF ClientsChange, TornTrue
  <2>3. RestTrue(x, f)'
    BY <2>2, Frozen
  <2> QED  BY <2>1, <2>2, <2>3 DEF RestTrue
<1>4. FramesTrue'
  <2> SUFFICES ASSUME NEW m \in Nodes, NEW i \in DOMAIN evConnect'[m],
                      NEW k \in Slots(evConnect'[m][i])
               PROVE  FrameTrue(evConnect[m][i].to, FrameOf(evConnect[m][i], k))'
    BY <1>5 DEF FramesTrue
  <2>1. PICK x, f : x = evConnect'[m][i].to /\ f = FrameOf(evConnect'[m][i], k)
    OBVIOUS
  <2>2. FrameTrue(x, f)'
    <3>1. CASE x = s /\ f \in F
      BY <3>1 DEF Accounts
    <3>2. ASSUME i \in DOMAIN evConnect[m], x = evConnect[m][i].to,
                 NEW h \in Slots(evConnect[m][i]), f = FrameOf(evConnect[m][i], h),
                 ReqOf(f) \notin Q
          PROVE  FrameTrue(x, f)'
      <4>1. evConnect[m][i] \in Client
        BY <3>2, ClientTyped
      <4>2. f \in Frame /\ x \in Nodes /\ ReqOf(f) \in Reqs
        BY <3>2, <4>1, SlotTypes
      <4>3. FrameTrue(x, f)
        BY <3>2 DEF FramesTrue
      <4>4. InClient(ReqOf(f))
        BY <3>2 DEF InClient, ClientHolds
      <4>5. Untouched(ReqOf(f))
        BY <3>2, <4>2, <4>4 DEF Accounts
      <4> QED  BY <4>2, <4>3, <4>5, Frozen
    <3>3. \/ x = s /\ f \in F
          \/ /\ i \in DOMAIN evConnect[m] /\ x = evConnect[m][i].to
             /\ \E h \in Slots(evConnect[m][i]) : f = FrameOf(evConnect[m][i], h) /\ ReqOf(f) \notin Q
      BY <1>1, <2>1 DEF ClientsChange
    <3> QED  BY <3>1, <3>2, <3>3
  <2> QED  BY <2>1, <2>2 DEF FrameTrue, Stage, FrameOf
<1> QED  BY <1>2, <1>3, <1>4

\* The frame whose beginning was read is given up.
HeadsLost ==
  \A n \in Nodes, l \in Loops : \A k \in DOMAIN queue[n][l] :
    queue[n][l][k].kind = "head" => ReqOf(queue[n][l][k].frame) \in lost

\* The invariant of the induction.
Traced == RequestsAccounted /\ PingStaysHome /\ NothingForgotten /\ HeadsLost

Sound == TypeOK /\ ConsumersKnown /\ Traced

\* What OneMessage and FramesTrue say of the clients.
LEMMA SoundClients == Sound => ClientsTrue
BY DEF Sound, Traced, RequestsAccounted, OneMessage, FramesTrue, ClientsTrue, TornTrue

\* What happened stays so, a new request is in T, and a message that is taken from
\* its place moves to another one unless the request is answered, lost or its node down.
Progress(R, T, Q, F) ==
  /\ \A m \in Nodes : status[m] = "down" => status'[m] = "down"
  /\ lost \subseteq lost'
  /\ \A r \in Reqs : call[r] # None => call'[r] = call[r]
  /\ \A r \in Reqs : route[r] # None => route'[r] = route[r]
  /\ \A r \in Reqs : answered[r] > 0 => answered'[r] > 0
  /\ \A r \in Reqs : call[r] = None /\ call'[r] # None => \E t \in T : Carries(t, r)
  /\ \A r \in R \cup Q : \/ answered'[r] > 0 \/ r \in lost' \/ Gone(r)'
                         \/ \E t \in T : Carries(t, r)
                         \/ \E f \in F : ReqOf(f) = r
  /\ \A t \in T : t.kind = "head" => ReqOf(t.frame) \in lost'

LEMMA Conserved ==
  ASSUME TypeOK, NothingForgotten, NEW R, NEW n, NEW T, NEW Q, NEW s, NEW F,
         LoopsChange(R, n, T), ClientsChange(Q, s, F), Progress(R, T, Q, F), HeadsLost
  PROVE  NothingForgotten' /\ HeadsLost'
<1>5. HeadsLost'
  <2> SUFFICES ASSUME NEW m \in Nodes, NEW j \in Loops, NEW k \in DOMAIN queue'[m][j],
                      queue'[m][j][k].kind = "head"
               PROVE  ReqOf(queue'[m][j][k].frame) \in lost'
    BY DEF HeadsLost, ReqOf
  <2>1. \/ m = n /\ queue'[m][j][k] \in T
        \/ \E h \in DOMAIN queue[m][j] : queue'[m][j][k] = queue[m][j][h]
    BY DEF LoopsChange
  <2> QED  BY <2>1 DEF Progress, HeadsLost
<1> SUFFICES ASSUME NEW r \in Reqs, call'[r] # None
             PROVE  (answered[r] > 0 \/ r \in lost \/ Gone(r) \/ InLoop(r) \/ InClient(r))'
  BY <1>5 DEF NothingForgotten
<1>1. /\ InLoop(r)' <=> (InLoop(r) /\ r \notin R) \/ \E t \in T : Carries(t, r)
      /\ InClient(r)' <=> (InClient(r) /\ r \notin Q) \/ \E f \in F : ReqOf(f) = r
  BY DEF LoopsChange, ClientsChange
<1>2. CASE call[r] = None
  BY <1>1, <1>2 DEF Progress
<1>3. CASE r \in R \cup Q
  BY <1>1, <1>3 DEF Progress
<1>4. CASE call[r] # None /\ r \notin R \cup Q
  <2>1. answered[r] > 0 \/ r \in lost \/ Gone(r) \/ InLoop(r) \/ InClient(r)
    BY <1>4 DEF NothingForgotten
  <2>2. CASE Gone(r)
    <3>1. \A m \in Nodes : status[m] = "down" => status'[m] = "down"
      BY DEF Progress
    <3>2. CASE call[r] # None /\ ~ Up(call[r].node)
      <4>1. call'[r] = call[r] /\ call[r].node \in Nodes
        BY <3>2 DEF Progress, TypeOK, Call
      <4> QED  BY <3>1, <3>2, <4>1 DEF Gone, Up
    <3>3. CASE route[r] # None /\ ~ Up(route[r])
      <4>1. route'[r] = route[r] /\ route[r] \in Nodes
        BY <3>3 DEF Progress, TypeOK
      <4> QED  BY <3>1, <3>3, <4>1 DEF Gone, Up
    <3> QED  BY <2>2, <3>2, <3>3 DEF Gone
  <2>3. answered[r] > 0 \/ r \in lost => answered'[r] > 0 \/ r \in lost'
    BY DEF Progress
  <2> QED  BY <1>1, <1>4, <2>1, <2>2, <2>3
<1> QED  BY <1>2, <1>3, <1>4

\* The running functor: what it carries is nowhere else, and true.
LEMMA HeadTask ==
  ASSUME TypeOK, OneMessage, TasksTrue, NEW n \in Nodes, NEW l \in Loops, queue[n][l] # <<>>
  PROVE  /\ Head(queue[n][l]) \in Task /\ TaskTrue(n, Head(queue[n][l]))
         /\ \A r \in Reqs : Carries(Head(queue[n][l]), r) => InLoop(r) /\ ~ InClient(r)
<1>1. 1 \in DOMAIN queue[n][l] /\ Head(queue[n][l]) = queue[n][l][1]
  <2>1. queue[n][l] \in Seq(Task)
    BY DEF TypeOK
  <2> QED  BY <2>1, EmptySeq, LenProperties
<1>2. queue[n][l][1] \in Task /\ TaskTrue(n, queue[n][l][1])
  BY <1>1, TaskTyped DEF TasksTrue
<1>3. ASSUME NEW r \in Reqs, Carries(queue[n][l][1], r)
      PROVE  InLoop(r) /\ ~ InClient(r)
  BY <1>1, <1>3 DEF InLoop, LoopHolds, OneMessage
<1> QED  BY <1>1, <1>2, <1>3

\* A request with a message was made.
LEMMA Issued ==
  ASSUME TypeOK, TasksTrue, FramesTrue, NEW r \in Reqs, InLoop(r) \/ InClient(r)
  PROVE  call[r] # None
<1>1. \A n, a : [node |-> n, address |-> a] # None \/ n \notin Nodes \/ a \notin Addrs
  BY BusAssumption DEF Call
<1>2. ASSUME NEW f \in Frame, NEW s \in Nodes, FrameTrue(s, f)
      PROVE  call[ReqOf(f)] # None
  <2>1. CASE f \in RequestFrame
    BY <1>1, <1>2, <2>1, BusAssumption DEF RequestFrame, ReqOf, FrameTrue, Stage
  <2>2. CASE f \in ReplyFrame
    BY <1>1, <1>2, <2>2, BusAssumption DEF ReplyFrame, ReqOf, FrameTrue, Stage
  <2> QED  BY <2>1, <2>2 DEF Frame
<1>3. CASE InLoop(r)
  <2>1. PICK n \in Nodes, l \in Loops : \E k \in DOMAIN queue[n][l] : Carries(queue[n][l][k], r)
    BY <1>3 DEF InLoop, LoopHolds
  <2>2. PICK t \in Task : Carries(t, r) /\ TaskTrue(n, t)
    BY <2>1, TaskTyped DEF TasksTrue
  <2>3. CASE t \in [kind : {"request"}, req : Reqs, address : Addrs]
    BY <1>1, <2>2, <2>3 DEF TaskTrue, Stage, Carries
  <2>4. CASE t \in [kind : {"routed"}, msg : Message]
    BY <1>1, <2>2, <2>4 DEF TaskTrue, Stage, Carries, Message
  <2>5. CASE t \in [kind : Received, frame : Frame]
    BY <1>2, <2>2, <2>5 DEF TaskTrue, Carries, Received
  <2> QED  BY <2>3, <2>4, <2>5 DEF Task
<1>4. CASE InClient(r)
  <2>1. PICK n \in Nodes : \E i \in DOMAIN evConnect[n] : \E k \in Slots(evConnect[n][i]) :
          ReqOf(FrameOf(evConnect[n][i], k)) = r
    BY <1>4 DEF InClient, ClientHolds
  <2>2. PICK i \in DOMAIN evConnect[n] : \E k \in Slots(evConnect[n][i]) :
          ReqOf(FrameOf(evConnect[n][i], k)) = r
    BY <2>1
  <2>3. PICK k \in Slots(evConnect[n][i]) : ReqOf(FrameOf(evConnect[n][i], k)) = r
    BY <2>2
  <2>4. evConnect[n][i] \in Client
    BY ClientTyped
  <2>5. FrameOf(evConnect[n][i], k) \in Frame /\ evConnect[n][i].to \in Nodes
    BY <2>4, SlotTypes
  <2>6. FrameTrue(evConnect[n][i].to, FrameOf(evConnect[n][i], k))
    BY DEF FramesTrue
  <2> QED  BY <1>2, <2>3, <2>5, <2>6
<1> QED  BY <1>3, <1>4

\* A step that only moves messages.
LEMMA QuietStep ==
  ASSUME Sound, NEW R, NEW n \in Nodes, NEW T \in SUBSET Task, NEW Q, NEW s \in Nodes,
         NEW F \in SUBSET Frame, LoopsChange(R, n, T), ClientsChange(Q, s, F),
         UNCHANGED <<publishers, call, route, invoked, answered>>,
         \A t \in T : TaskTrue(n, t), \A f \in F : FrameTrue(s, f),
         \A t \in T, r \in Reqs : Carries(t, r) => (InClient(r) => r \in Q),
         \A f \in F : InLoop(ReqOf(f)) => ReqOf(f) \in R,
         \A t \in T, f \in F : ~ Carries(t, ReqOf(f)),
         Progress(R, T, Q, F), NoUnexpectedReply'
  PROVE  Traced'
<1>1. /\ TypeOK /\ OneMessage /\ TasksTrue /\ FramesTrue /\ NothingUnasked /\ CallbacksOwed
      /\ PingStaysHome /\ NothingForgotten /\ HeadsLost
  BY DEF Sound, Traced, RequestsAccounted
<1>2. \A r \in Reqs : Untouched(r)
  BY DEF Untouched
<1>3. (\A t \in T : TaskTrue(n, t)') /\ \A f \in F : FrameTrue(s, f)'
  BY <1>2, Frozen, FrameTypes
<1>4. Accounts(R, n, T, Q, s, F)
  BY <1>2, <1>3 DEF Accounts
<1>5. OneMessage' /\ TasksTrue' /\ FramesTrue'
  BY <1>1, <1>4, Accounted
<1>6. NothingUnasked'
  BY <1>1 DEF NothingUnasked
<1>7. CallbacksOwed'
  <2>1. \A m \in Nodes : Up(m)' => Up(m)
    BY DEF Progress, Up
  <2> QED  BY <1>1, <2>1 DEF CallbacksOwed
<1>8. PingStaysHome'
  BY <1>1 DEF PingStaysHome
<1>9. NothingForgotten' /\ HeadsLost'
  BY <1>1, Conserved
<1> QED  BY <1>5, <1>6, <1>7, <1>8, <1>9 DEF Traced, RequestsAccounted

-----------------------------------------------------------------------------
(* One lemma per action, or per group of actions that change the same.     *)

\* Whoever is down stays down, and a fault is of the kind that the step names.
LEMMA StatusSteps ==
  ASSUME TypeOK, NEW n \in Nodes
  PROVE  /\ \A why : Die(n, why) =>
              \A m \in Nodes : (status[m] = "down" => status'[m] = "down")
         /\ \A why : Die(n, why) => status'[n] = "down"
         /\ Alive => \A m \in Nodes : status[m] = "down" => status'[m] = "down"
         /\ NoUnexpectedReply =>
              /\ Alive => NoUnexpectedReply'
              /\ \A why : Die(n, why) /\ why # "no_publisher" => NoUnexpectedReply'
<1>1. status \in [Nodes -> {"joined", "running", "down"}] /\ fault \in [Nodes -> Faults]
  BY DEF TypeOK
<1>2. ASSUME NEW why, Die(n, why)
      PROVE  /\ \A m \in Nodes : status[m] = "down" => status'[m] = "down"
             /\ status'[n] = "down"
             /\ NoUnexpectedReply /\ why # "no_publisher" => NoUnexpectedReply'
  BY <1>1, <1>2 DEF Die, NoUnexpectedReply
<1>3. ASSUME Alive
      PROVE  /\ \A m \in Nodes : status[m] = "down" => status'[m] = "down"
             /\ NoUnexpectedReply => NoUnexpectedReply'
  BY <1>3 DEF Alive, NoUnexpectedReply
<1> QED  BY <1>2, <1>3

\* Steps that touch neither loops nor clients nor requests.
LEMMA StillStep ==
  ASSUME Sound, NEW n \in Nodes, UNCHANGED <<publishers, queue, evConnect, history>>,
         \A m \in Nodes : status[m] = "down" => status'[m] = "down", NoUnexpectedReply'
  PROVE  Traced'
<1>1. TypeOK /\ OneMessage
  BY DEF Sound, Traced, RequestsAccounted
<1>2. LoopsChange({}, n, {}) /\ ClientsChange({}, n, {})
  BY <1>1, LoopsSame, ClientsSame, SoundClients DEF OneMessage
<1>3. UNCHANGED <<publishers, call, route, invoked, answered, lost>>
  BY DEF history
<1>4. Progress({}, {}, {}, {})
  BY <1>1, <1>3 DEF Progress
<1> QED  BY <1>2, <1>3, <1>4, QuietStep

LEMMA RegistrationSound ==
  ASSUME Sound, NEW n \in Nodes,
         \/ \E a \in Addrs : Consumer(n, a) \/ AddSub(n, a) \/ LocalConsumer(n, a)
         \/ Run(n) \/ Kill(n)
         \/ \E l \in Loops : RequestUnknown(n, l)
  PROVE  Traced'
<1>1. TypeOK /\ NoUnexpectedReply
  BY DEF Sound, Traced, RequestsAccounted
<1>2. UNCHANGED <<publishers, queue, evConnect, history>>
  BY DEF Consumer, AddSub, LocalConsumer, Run, Kill, RequestUnknown, netVars
<1>3. CASE Run(n)
  <2>1. \A m \in Nodes : status[m] = "down" => status'[m] = "down"
    BY <1>1, <1>3 DEF Run, TypeOK
  <2>2. NoUnexpectedReply'
    BY <1>1, <1>3 DEF Run, NoUnexpectedReply
  <2> QED  BY <1>2, <2>1, <2>2, StillStep
<1>4. CASE ~ Run(n)
  <2>1. Alive \/ Die(n, "none") \/ Die(n, "no_endpoint")
    BY <1>4 DEF Consumer, AddSub, LocalConsumer, Kill, RequestUnknown
  <2>2. /\ \A m \in Nodes : status[m] = "down" => status'[m] = "down"
        /\ NoUnexpectedReply'
    BY <1>1, <2>1, StatusSteps
  <2> QED  BY <1>2, <2>2, StillStep
<1> QED  BY <1>3, <1>4

\* The client threads and the network.
LEMMA ClientStepSound ==
  ASSUME Sound, NEW n \in Nodes, NEW i \in DOMAIN evConnect[n],
         ClientStep(n, i) \/ Disconnected(n, i)
  PROVE  Traced'
<1>1. TypeOK /\ OneMessage /\ NoUnexpectedReply
  BY DEF Sound, Traced, RequestsAccounted
<1>2. PICK s : s = evConnect[n][i].to
  OBVIOUS
<1>3. evConnect[n][i] \in Client /\ s \in Nodes
  BY <1>1, <1>2, ClientTyped, SlotTypes
<1>4. ClientsTrue /\ \A r \in Reqs : OnceInLoops(r)
  BY <1>1, SoundClients DEF OneMessage
<1>5. UNCHANGED <<publishers, queue, call, route, invoked, answered>> /\ Alive
  BY DEF ClientStep, Dial, Connected, ConnectFailed, Disconnected, history
<1>6. LoopsChange({}, n, {})
  BY <1>4, <1>5, LoopsSame
<1>7. \A m \in Nodes : status[m] = "down" => status'[m] = "down"
  BY <1>1, <1>5, StatusSteps
<1>8. NoUnexpectedReply'
  BY <1>1, <1>5, StatusSteps
<1>9. ASSUME NEW Q, ClientsChange(Q, s, {}), lost \cup Q \subseteq lost'
      PROVE  Traced'
  <2>1. Progress({}, {}, Q, {})
    BY <1>5, <1>7, <1>9 DEF Progress
  <2> QED  BY <1>3, <1>5, <1>6, <1>8, <1>9, <2>1, QuietStep
<1>10. CASE Dial(n, i)
  <2>1. /\ evConnect[n][i].st = "spawned" /\ lost' = lost \cup {}
        /\ evConnect' = [evConnect EXCEPT ![n][i].st = "dialing"]
    BY <1>10 DEF Dial, history
  <2> QED  BY <1>1, <1>2, <1>4, <1>9, <2>1, ClientDials
<1>11. CASE Connected(n, i)
  <2>1. /\ evConnect[n][i].st = "dialing" /\ lost' = lost \cup {}
        /\ evConnect' = [evConnect EXCEPT ![n][i].st = "open",
                                          ![n][i].pipe = Append(@, evConnect[n][i].msg)]
    BY <1>11 DEF Connected, history
  <2> QED  BY <1>1, <1>2, <1>4, <1>9, <2>1, ClientConnects
<1>12. CASE ConnectFailed(n, i)
  <2>1. /\ evConnect[n][i].st = "dialing" /\ lost' = lost \cup {ReqOf(evConnect[n][i].msg)}
        /\ evConnect' = [evConnect EXCEPT ![n][i].st = "closed"]
    BY <1>12 DEF ConnectFailed, Lose
  <2> QED  BY <1>1, <1>2, <1>4, <1>9, <2>1, ClientFails
<1>13. CASE Disconnected(n, i)
  <2> DEFINE Q == {ReqOf(evConnect[n][i].pipe[k]) : k \in DOMAIN evConnect[n][i].pipe}
  <2>1. /\ evConnect[n][i].st = "open" /\ lost' = lost \cup Q
        /\ evConnect' = [evConnect EXCEPT ![n][i].st = "closed", ![n][i].pipe = <<>>,
                                          ![n][i].torn = FALSE]
    <3>1. {ReqOf(f) : f \in {evConnect[n][i].pipe[k] : k \in DOMAIN evConnect[n][i].pipe}} = Q
      OBVIOUS
    <3> QED  BY <1>13, <3>1 DEF Disconnected, Lose
  <2>2. PICK P \in SUBSET Q : ClientsChange(P, evConnect[n][i].to, {})
    BY <1>1, <1>4, <2>1, ClientCloses
  <2> HIDE DEF Q
  <2> QED  BY <1>2, <1>9, <2>1, <2>2
<1> QED  BY <1>10, <1>11, <1>12, <1>13 DEF ClientStep

\* A read: what is first in it becomes a functor, the others are lost.
LEMMA OnMessageSound ==
  ASSUME Sound, NEW n \in Nodes, NEW i \in DOMAIN evConnect[n],
         NEW k \in 0 .. Len(evConnect[n][i].pipe), NEW cut \in BOOLEAN, NEW l \in Loops,
         OnMessage(n, i, k, cut, l)
  PROVE  Traced'
<1> DEFINE c == evConnect[n][i]
           J(x) == {j \in 1 .. x : j = 1 => ~ c.torn}
           Read(x) == {ReqOf(c.pipe[j]) : j \in J(x)}
<1>1. TypeOK /\ OneMessage /\ FramesTrue /\ NoUnexpectedReply /\ ClientsTrue
  BY SoundClients DEF Sound, Traced, RequestsAccounted
<1>2. PICK s, last, kind : /\ s = c.to /\ last = IF cut THEN k + 1 ELSE k
                           /\ kind = IF c.torn THEN "rest" ELSE IF k = 0 THEN "head" ELSE "frame"
  OBVIOUS
<1>3. /\ c \in Client /\ s \in Nodes /\ DOMAIN c.pipe = 1 .. Len(c.pipe) /\ Len(c.pipe) \in Nat
      /\ \A j \in DOMAIN c.pipe : (j = 1 => ~ c.torn) => j \in Slots(c) /\ FrameOf(c, j) = c.pipe[j]
      /\ \A j \in DOMAIN c.pipe : c.pipe[j] \in Frame
  <2>1. c \in Client
    BY <1>1, ClientTyped
  <2>2. /\ c.to \in Nodes /\ DOMAIN c.pipe = 1 .. Len(c.pipe) /\ Len(c.pipe) \in Nat
        /\ c.pipe \in Seq(Frame)
    BY <2>1, SlotTypes
  <2>3. \A j \in DOMAIN c.pipe : (j = 1 => ~ c.torn) => j \in Slots(c) /\ FrameOf(c, j) = c.pipe[j]
    BY <2>2 DEF Slots, FrameOf
  <2> QED  BY <1>2, <2>1, <2>2, <2>3, ElementOfSeq
<1>4. last \in DOMAIN c.pipe /\ (c.torn => k > 0)
  BY <1>2 DEF OnMessage
<1>5. 1 \in DOMAIN c.pipe /\ 1 \in 1 .. last /\ \A j \in 1 .. last : j \in DOMAIN c.pipe
  BY <1>3, <1>4
<1>6. UNCHANGED <<publishers, call, route, invoked, answered>> /\ Alive
  BY DEF OnMessage
<1>7. \A m \in Nodes : status[m] = "down" => status'[m] = "down"
  BY <1>1, <1>6, StatusSteps
<1>8. NoUnexpectedReply'
  BY <1>1, <1>6, StatusSteps
<1>9. PICK Q : Q = Read(last)
  OBVIOUS
<1>10. ClientsChange(Q, s, {})
  <2>1. evConnect' = [evConnect EXCEPT ![n][i].pipe = SubSeq(@, k + 1, Len(@)), ![n][i].torn = cut]
    BY DEF OnMessage
  <2>2. ASSUME cut
        PROVE  RestTrue(c.to, c.pipe[last])
    <3>1. last = 1 => ~ c.torn
      BY <1>2, <1>4, <2>2
    <3>2. FrameTrue(s, c.pipe[last])
      BY <1>1, <1>2, <1>3, <1>4, <3>1 DEF FramesTrue
    <3> QED  BY <1>2, <1>3, <1>4, <3>2, FrameRest
  <2>3. ClientsChange({ReqOf(c.pipe[j]) : j \in {h \in 1 .. last : h = 1 => ~ c.torn}}, c.to, {})
    BY <1>1, <1>2, <1>4, <2>1, <2>2, ClientRead
  <2> QED  BY <1>2, <1>9, <2>3
<1>11. PICK f : f = c.pipe[1]
  OBVIOUS
<1>12. /\ f \in Frame /\ ReqOf(f) \in Reqs /\ (c.torn => RestTrue(s, f))
       /\ ~ c.torn => /\ ReqOf(f) \in Q /\ FrameTrue(s, f)
                      /\ InClient(ReqOf(f)) /\ ~ InLoop(ReqOf(f))
  <2>1. f \in Frame /\ ReqOf(f) \in Reqs /\ (c.torn => RestTrue(s, f))
    BY <1>1, <1>2, <1>3, <1>5, <1>11, FrameTypes DEF ClientsTrue, TornTrue
  <2>2. ASSUME ~ c.torn
        PROVE  ReqOf(f) \in Q /\ FrameTrue(s, f) /\ InClient(ReqOf(f)) /\ ~ InLoop(ReqOf(f))
    <3>1. 1 \in J(last) /\ ReqOf(f) \in Q
      BY <1>5, <1>9, <1>11, <2>2
    <3>2. FrameTrue(s, f)
      BY <1>1, <1>2, <1>3, <1>5, <1>11, <2>2 DEF FramesTrue
    <3>3. InClient(ReqOf(f))
      BY <1>3, <1>5, <1>11, <2>2 DEF InClient, ClientHolds
    <3> QED  BY <1>1, <2>1, <3>1, <3>2, <3>3 DEF OneMessage
  <2> QED  BY <2>1, <2>2
<1>13. Q \subseteq Reqs /\ Q \subseteq {ReqOf(c.pipe[j]) : j \in 1 .. last}
  BY <1>3, <1>5, <1>9, FrameTypes
\* The two outcomes of the test for "ping".
<1>14. CASE UNCHANGED queue /\ Lose({c.pipe[j] : j \in 1 .. last})
  <2>1. Q \subseteq lost' /\ lost \subseteq lost'
    BY <1>13, <1>14 DEF Lose
  <2>2. LoopsChange({}, n, {})
    BY <1>1, <1>14, LoopsSame DEF OneMessage
  <2>3. Progress({}, {}, Q, {})
    BY <1>6, <1>7, <2>1 DEF Progress
  <2> QED  BY <1>3, <1>6, <1>8, <1>10, <2>2, <2>3, QuietStep
<1>15. ASSUME \A j \in {h \in 1 .. k : h = 1 => ~ c.torn} : ~ HasPing(c.pipe[j]),
              Lose({c.pipe[j] : j \in (1 .. last) \ IF kind = "frame" THEN {1} ELSE {}}),
              Enqueue(s, l, [kind |-> kind, frame |-> f])
       PROVE  Traced'
  <2>1. PICK u : u = [kind |-> kind, frame |-> f]
    OBVIOUS
  <2>2. /\ kind = "rest" <=> c.torn
        /\ kind = "head" => ~ c.torn
        /\ kind = "frame" => ~ c.torn /\ 1 \in 1 .. k
        /\ kind \in Received
    BY <1>2, <1>3 DEF Received
  <2>3. /\ u \in Task /\ u.kind = kind /\ u.frame = f
        /\ \A r \in Reqs : Carries(u, r) <=> (kind # "rest" /\ r = ReqOf(f))
    BY <1>12, <2>1, <2>2 DEF Task, Carries, Received
  <2>4. TaskTrue(s, u)
    <3>1. kind = "frame" => ~ HasPing(f)
      BY <1>11, <1>15, <2>2
    <3> QED  BY <1>12, <2>2, <2>3, <3>1 DEF TaskTrue, Received
  <2>5. LoopsChange({}, s, {u})
    <3>1. \A r \in Reqs : OnceInLoops(r)
      BY <1>1 DEF OneMessage
    <3>2. \A r \in Reqs : Carries(u, r) => ~ InLoop(r)
      BY <1>12, <2>2, <2>3
    <3> QED  BY <1>1, <1>3, <1>15, <2>1, <2>3, <3>1, <3>2, LoopEnqueue
  <2>6. /\ lost \subseteq lost'
        /\ \A r \in Q : r \in lost' \/ (kind = "frame" /\ r = ReqOf(f))
        /\ kind = "head" => ReqOf(f) \in lost'
    <3>1. \A j \in 1 .. last : ReqOf(c.pipe[j]) \in lost' \/ (kind = "frame" /\ j = 1)
      BY <1>15 DEF Lose
    <3>2. lost \subseteq lost'
      BY <1>15 DEF Lose
    <3> QED  BY <1>5, <1>11, <1>13, <3>1, <3>2
  <2>7. \A r \in Reqs : Carries(u, r) => (InClient(r) => r \in Q)
    BY <1>12, <2>2, <2>3
  <2>8. \A r \in Q : r \in lost' \/ Carries(u, r)
    BY <1>13, <2>3, <2>6
  <2>9. Progress({}, {u}, Q, {})
    BY <1>6, <1>7, <2>3, <2>6, <2>8 DEF Progress
  <2> QED  BY <1>3, <1>6, <1>8, <1>10, <2>3, <2>4, <2>5, <2>7, <2>9, QuietStep
<1> QED  BY <1>2, <1>11, <1>14, <1>15 DEF OnMessage

\* The functor that is running, and what its end does to the loops.
LEMMA RunningTask ==
  ASSUME Sound, NEW n \in Nodes, NEW l \in Loops, NEW kind, Running(n, l, kind)
  PROVE  LET t == Head(queue[n][l]) IN
         /\ Up(n) /\ queue[n][l] # <<>> /\ t \in Task /\ t.kind = kind /\ TaskTrue(n, t)
         /\ \A r \in Reqs : Carries(t, r) => InLoop(r) /\ ~ InClient(r)
         /\ \A r \in Reqs : Carries(t, r) /\ Finish(n, l) => LoopsChange({r}, n, {})
         /\ kind = "rest" /\ Finish(n, l) => LoopsChange({}, n, {})
         /\ kind = "head" => ReqOf(t.frame) \in lost
<1> DEFINE t == Head(queue[n][l])
<1>1. TypeOK /\ OneMessage /\ TasksTrue /\ HeadsLost /\ \A r \in Reqs : OnceInLoops(r)
  BY DEF Sound, Traced, RequestsAccounted, OneMessage
<1>2. Up(n) /\ queue[n][l] # <<>> /\ t.kind = kind
  BY DEF Running
<1>3. /\ t \in Task /\ TaskTrue(n, t)
      /\ \A r \in Reqs : Carries(t, r) => InLoop(r) /\ ~ InClient(r)
  BY <1>1, <1>2, HeadTask
<1>4. \A R : Finish(n, l) /\ R = {r \in Reqs : Carries(t, r)} => LoopsChange(R, n, {})
  BY <1>1, <1>2, LoopFinish
<1>5. ASSUME NEW r \in Reqs, Carries(t, r), Finish(n, l)
      PROVE  LoopsChange({r}, n, {})
  <2>1. {r} = {x \in Reqs : Carries(t, x)}
    BY <1>3, <1>5, CarriesOne
  <2> QED  BY <1>4, <1>5, <2>1
<1>6. ASSUME kind = "rest", Finish(n, l)
      PROVE  LoopsChange({}, n, {})
  <2>1. {} = {x \in Reqs : Carries(t, x)}
    BY <1>2, <1>3, <1>6, CarriesOne
  <2> QED  BY <1>4, <1>6, <2>1
<1>7. kind = "head" => ReqOf(t.frame) \in lost
  <2>1. queue[n][l] \in Seq(Task)
    BY <1>1 DEF TypeOK
  <2>2. 1 \in DOMAIN queue[n][l] /\ t = queue[n][l][1]
    BY <1>2, <2>1, EmptySeq, LenProperties
  <2> QED  BY <1>1, <1>2, <2>2 DEF HeadsLost
<1> QED  BY <1>2, <1>3, <1>5, <1>6, <1>7

\* A routed request leaves for another node, or the process ends.
LEMMA RemoteSentSound ==
  ASSUME Sound, NEW n \in Nodes, NEW l \in Loops, RemoteSent(n, l)
  PROVE  Traced'
<1>1. /\ TypeOK /\ OneMessage /\ NoUnexpectedReply /\ EndpointsKnown
      /\ ClientsTrue
  BY SoundClients DEF Sound, Traced, RequestsAccounted, ConsumersKnown, OneMessage
<1>2. PICK t : t = Head(queue[n][l])
  OBVIOUS
<1>3. PICK r, a, s : r = t.msg.address /\ a = t.msg.replay /\ s = t.msg.server
  OBVIOUS
<1>4. Running(n, l, "routed") /\ Finish(n, l)
  BY DEF RemoteSent
<1>5. t \in Task /\ t.kind = "routed" /\ TaskTrue(n, t) /\ Up(n)
  BY <1>2, <1>4, RunningTask
<1>6. r \in Reqs /\ a \in Addrs /\ s \in Nodes /\ t.msg \in Message /\ Carries(t, r)
  BY <1>3, <1>5 DEF Task, Message, Carries, Received
<1>7. Stage(r, n, a, s, 0) /\ s # n
  BY <1>2, <1>3, <1>5 DEF TaskTrue, RemoteSent
<1>8. LoopsChange({r}, n, {}) /\ InLoop(r) /\ ~ InClient(r)
  BY <1>2, <1>4, <1>6, RunningTask
<1>9. PICK f : f = to_string([t.msg EXCEPT !.server = n])
  OBVIOUS
<1>10. f.first = a /\ f.second = r /\ f.server = n /\ f \in Frame
  BY <1>3, <1>6, <1>9, FrameTypes DEF to_string, Message, Frame
<1>11. ReqOf(f) = r /\ FrameTrue(s, f)
  BY <1>6, <1>7, <1>10, BusAssumption DEF ReqOf, FrameTrue
<1>12. processStringMessage(n, s, f)
  BY <1>2, <1>3, <1>9 DEF RemoteSent
<1>13. UNCHANGED <<publishers, call, route, invoked, answered, lost>>
  BY DEF RemoteSent, history
<1>14. CASE ClientsChange({}, s, {f}) /\ Alive
  <2>1. NoUnexpectedReply' /\ \A m \in Nodes : status[m] = "down" => status'[m] = "down"
    BY <1>1, <1>14, StatusSteps
  <2>2. Progress({r}, {}, {}, {f})
    BY <1>11, <1>13, <2>1 DEF Progress
  <2> QED  BY <1>6, <1>8, <1>10, <1>11, <1>13, <1>14, <2>1, <2>2, QuietStep
<1>15. CASE ClientsChange({}, s, {}) /\ Die(n, "null_conn")
  <2>1. /\ NoUnexpectedReply' /\ status'[n] = "down"
        /\ \A m \in Nodes : status[m] = "down" => status'[m] = "down"
    BY <1>1, <1>15, StatusSteps
  <2>2. Gone(r)'
    <3>1. call[r] # None /\ call[r].node = n
      BY <1>6, <1>7, BusAssumption DEF Stage, Call
    <3> QED  BY <1>13, <2>1, <3>1 DEF Gone, Up
  <2>3. Progress({r}, {}, {}, {})
    BY <1>13, <2>1, <2>2 DEF Progress
  <2> QED  BY <1>6, <1>8, <1>13, <1>15, <2>1, <2>3, QuietStep
<1> QED  BY <1>1, <1>6, <1>8, <1>10, <1>11, <1>12, <1>14, <1>15, SendChanges

\* CallbacksOwed, one callback at a time.
Owes(m, r) ==
  call[r] # None /\ call[r].node = m /\ route[r] # None /\ answered[r] = 0

LEMMA OwedOneByOne ==
  ASSUME TypeOK, TypeOK'
  PROVE  /\ CallbacksOwed <=>
              \A m \in Nodes, r \in Reqs : Up(m) => (r \in publishers[m] <=> Owes(m, r))
         /\ CallbacksOwed' <=>
              \A m \in Nodes, r \in Reqs : Up(m)' => (r \in publishers'[m] <=> Owes(m, r)')
<1>1. (\A m \in Nodes : publishers[m] \subseteq Reqs) /\ \A m \in Nodes : publishers'[m] \subseteq Reqs
  BY DEF TypeOK
<1>2. CallbacksOwed <=>
        \A m \in Nodes, r \in Reqs : Up(m) => (r \in publishers[m] <=> Owes(m, r))
  BY <1>1 DEF CallbacksOwed, Owes
<1>3. CallbacksOwed' <=>
        \A m \in Nodes, r \in Reqs : Up(m)' => (r \in publishers'[m] <=> Owes(m, r)')
  BY <1>1 DEF CallbacksOwed, Owes
<1> QED  BY <1>2, <1>3

\* A step that one request r is the subject of.
LEMMA OneRequestStep ==
  ASSUME Sound, TypeOK', NEW R, NEW n \in Nodes, NEW T, NEW Q, NEW s \in Nodes, NEW F,
         Accounts(R, n, T, Q, s, F), Progress(R, T, Q, F), NoUnexpectedReply',
         NEW r \in Reqs, call'[r] # None,
         \A x \in Reqs : x # r => Untouched(x),
         \A m \in Nodes, x \in Reqs : x # r => (x \in publishers'[m] <=> x \in publishers[m]),
         \A m \in Nodes : Up(m)' => (r \in publishers'[m] <=> Owes(m, r)'),
         call'[r].address \in PingAddrs /\ invoked'[r] > 0 => route'[r] \in {None, call'[r].node}
  PROVE  Traced'
<1>1. /\ TypeOK /\ OneMessage /\ TasksTrue /\ FramesTrue /\ NothingUnasked /\ CallbacksOwed
      /\ PingStaysHome /\ NothingForgotten /\ HeadsLost
  BY DEF Sound, Traced, RequestsAccounted
<1>2. OneMessage' /\ TasksTrue' /\ FramesTrue'
  BY <1>1, Accounted DEF Progress
<1>3. NothingUnasked'
  BY <1>1 DEF NothingUnasked, Untouched
<1>4. CallbacksOwed'
  <2>1. ASSUME NEW m \in Nodes, NEW x \in Reqs, Up(m)'
        PROVE  x \in publishers'[m] <=> Owes(m, x)'
    <3>1. Up(m)
      BY <2>1 DEF Progress, Up
    <3>2. CASE x # r
      <4>1. x \in publishers[m] <=> Owes(m, x)
        BY <1>1, <3>1, OwedOneByOne
      <4>2. Owes(m, x)' <=> Owes(m, x)
        BY <3>2 DEF Owes, Untouched
      <4> QED  BY <3>2, <4>1, <4>2
    <3> QED  BY <2>1, <3>2
  <2> QED  BY <1>1, <2>1, OwedOneByOne
<1>5. PingStaysHome'
  BY <1>1 DEF PingStaysHome, Untouched
<1>6. NothingForgotten' /\ HeadsLost'
  BY <1>1, Conserved DEF Accounts
<1> QED  BY <1>2, <1>3, <1>4, <1>5, <1>6 DEF Traced, RequestsAccounted

LEMMA RequestSound ==
  ASSUME Sound, TypeOK', NEW n \in Nodes, NEW l \in Loops, NEW r \in Reqs, NEW a \in Addrs,
         Request(n, l, r, a)
  PROVE  Traced'
<1> DEFINE t == [kind |-> "request", req |-> r, address |-> a]
<1>1. /\ TypeOK /\ OneMessage /\ TasksTrue /\ FramesTrue /\ NothingUnasked /\ NoUnexpectedReply
      /\ ClientsTrue /\ \A x \in Reqs : OnceInLoops(x)
  BY SoundClients DEF Sound, Traced, RequestsAccounted, OneMessage
<1>2. /\ call[r] = None /\ Enqueue(n, l, t) /\ Alive /\ UNCHANGED evConnect
      /\ call' = [call EXCEPT ![r] = [node |-> n, address |-> a]]
      /\ UNCHANGED <<publishers, route, invoked, answered, lost>>
  BY DEF Request, netVars
<1>3. ~ InLoop(r) /\ ~ InClient(r)
  BY <1>1, <1>2, Issued
<1>4. t \in Task /\ t.kind # "head" /\ \A x \in Reqs : Carries(t, x) <=> x = r
  BY DEF Task, Carries
<1>5. call'[r] = [node |-> n, address |-> a] /\ call'[r] # None
  BY <1>1, <1>2, BusAssumption DEF TypeOK, Call
<1>6. route[r] = None /\ invoked[r] = 0 /\ answered[r] = 0
  BY <1>1, <1>2 DEF NothingUnasked
<1>7. TaskTrue(n, t)'
  BY <1>2, <1>5, <1>6 DEF TaskTrue, Stage
<1>8. \A x \in Reqs : x # r => Untouched(x)
  BY <1>1, <1>2 DEF Untouched, TypeOK
<1> HIDE DEF t
<1>9. LoopsChange({}, n, {t}) /\ ClientsChange({}, n, {})
  BY <1>1, <1>2, <1>3, <1>4, LoopEnqueue, ClientsSame
<1>10. Accounts({}, n, {t}, {}, n, {})
  BY <1>3, <1>4, <1>7, <1>8, <1>9 DEF Accounts
<1>11. NoUnexpectedReply' /\ \A m \in Nodes : status[m] = "down" => status'[m] = "down"
  BY <1>1, <1>2, StatusSteps
<1>12. Progress({}, {t}, {}, {})
  <2>1. \A x \in Reqs : call[x] # None => call'[x] = call[x]
    BY <1>2, <1>8 DEF Untouched
  <2>2. \A x \in Reqs : call[x] = None /\ call'[x] # None => Carries(t, x)
    BY <1>4, <1>8 DEF Untouched
  <2> QED  BY <1>2, <1>4, <1>11, <2>1, <2>2 DEF Progress
<1>13. \A m \in Nodes : Up(m)' => (r \in publishers'[m] <=> Owes(m, r)')
  <2>1. \A m \in Nodes : Up(m)' => Up(m)
    BY <1>11 DEF Up
  <2>2. \A m \in Nodes : Up(m) => r \notin publishers[m]
    BY <1>2, <1>1 DEF Sound, Traced, RequestsAccounted, CallbacksOwed
  <2> QED  BY <1>2, <1>6, <2>1, <2>2 DEF Owes
<1> QED  BY <1>2, <1>5, <1>6, <1>8, <1>10, <1>11, <1>12, <1>13, OneRequestStep

\* A consumer of the process itself.
LEMMA RequestLocalSound ==
  ASSUME Sound, TypeOK', NEW n \in Nodes, NEW l \in Loops, RequestLocal(n, l)
  PROVE  Traced'
<1>1. /\ TypeOK /\ OneMessage /\ NoUnexpectedReply /\ CallbacksOwed
      /\ ClientsTrue
  BY SoundClients DEF Sound, Traced, RequestsAccounted, OneMessage
<1>2. PICK t : t = Head(queue[n][l])
  OBVIOUS
<1>3. PICK r, a : r = t.req /\ a = t.address
  OBVIOUS
<1>4. /\ Running(n, l, "request") /\ Finish(n, l) /\ Invoke(r) /\ Answer(r, n) /\ Alive
      /\ UNCHANGED <<publishers, evConnect, call, route, lost>>
  BY <1>2, <1>3 DEF RequestLocal, netVars
<1>5. t \in Task /\ t.kind = "request" /\ TaskTrue(n, t)
  BY <1>2, <1>4, RunningTask
<1>6. r \in Reqs /\ a \in Addrs /\ Carries(t, r) /\ Stage(r, n, a, None, 0)
  BY <1>3, <1>5 DEF Task, Carries, TaskTrue, Received
<1>7. LoopsChange({r}, n, {}) /\ InLoop(r) /\ ~ InClient(r)
  BY <1>2, <1>4, <1>6, RunningTask
<1>8. call[r] # None /\ route[r] = None /\ answered'[r] > 0
  <2>1. answered'[r] = answered[r] + 1 /\ answered[r] \in Nat
    BY <1>1, <1>4, <1>6 DEF Answer, TypeOK
  <2> QED  BY <1>6, <2>1, BusAssumption DEF Stage, Call
<1>9. \A x \in Reqs : x # r => Untouched(x)
  BY <1>1, <1>4 DEF Untouched, TypeOK, Invoke, Answer
<1>10. Accounts({r}, n, {}, {}, n, {})
  BY <1>1, <1>4, <1>7, <1>9, ClientsSame DEF Accounts
<1>11. NoUnexpectedReply' /\ \A m \in Nodes : status[m] = "down" => status'[m] = "down"
  BY <1>1, <1>4, StatusSteps
<1>12. Progress({r}, {}, {}, {})
  <2>1. \A x \in Reqs : answered[x] > 0 => answered'[x] > 0
    BY <1>8, <1>9 DEF Untouched
  <2> QED  BY <1>4, <1>8, <1>11, <2>1 DEF Progress
<1>13. \A m \in Nodes : Up(m)' => (r \in publishers'[m] <=> Owes(m, r)')
  <2>1. \A m \in Nodes : Up(m)' => Up(m)
    BY <1>11 DEF Up
  <2>2. \A m \in Nodes : Up(m) => r \notin publishers[m]
    BY <1>1, <1>8 DEF CallbacksOwed
  <2> QED  BY <1>4, <1>8, <2>1, <2>2 DEF Owes
<1> QED  BY <1>4, <1>6, <1>8, <1>9, <1>10, <1>11, <1>12, <1>13, OneRequestStep

\* The callback is registered and the functor goes on with the routed message.
LEMMA RequestRoutedSound ==
  ASSUME Sound, TypeOK', NEW n \in Nodes, NEW l \in Loops, NEW s \in Nodes, RequestRouted(n, l, s)
  PROVE  Traced'
<1>1. /\ TypeOK /\ OneMessage /\ NoUnexpectedReply /\ CallbacksOwed
      /\ ClientsTrue /\ \A x \in Reqs : OnceInLoops(x)
  BY SoundClients DEF Sound, Traced, RequestsAccounted, OneMessage
<1>2. PICK t : t = Head(queue[n][l])
  OBVIOUS
<1>3. PICK r, a : r = t.req /\ a = t.address
  OBVIOUS
<1>4. PICK u : u = [kind |-> "routed", msg |-> RoutedMessage(r, a, s)]
  OBVIOUS
<1>5. /\ Running(n, l, "request") /\ Alive /\ route' = [route EXCEPT ![r] = s]
      /\ publishers' = [publishers EXCEPT ![n] = @ \cup {r}]
      /\ queue' = [queue EXCEPT ![n][l][1] = u]
      /\ UNCHANGED <<evConnect, call, invoked, answered, lost>>
  BY <1>2, <1>3, <1>4 DEF RequestRouted, netVars
<1>6. t \in Task /\ t.kind = "request" /\ TaskTrue(n, t) /\ queue[n][l] # <<>> /\ Up(n)
  BY <1>2, <1>5, RunningTask
<1>7. r \in Reqs /\ a \in Addrs /\ Carries(t, r) /\ Stage(r, n, a, None, 0)
  BY <1>3, <1>6 DEF Task, Carries, TaskTrue, Received
<1>8. InLoop(r) /\ ~ InClient(r)
  BY <1>2, <1>5, <1>7, RunningTask
<1>9. u \in Task /\ u.kind # "head" /\ \A x \in Reqs : Carries(u, x) <=> x = r
  BY <1>4, <1>7 DEF Task, Message, RoutedMessage, Carries
<1>10. LoopsChange({r}, n, {u})
  BY <1>1, <1>2, <1>5, <1>6, <1>7, <1>9, LoopRouted
<1>11. call[r] # None /\ call[r].node = n /\ answered[r] = 0 /\ invoked[r] = 0 /\ route[r] = None
  BY <1>7, BusAssumption DEF Stage, Call
<1>12. route'[r] = s /\ s # None
  BY <1>1, <1>5, <1>7, BusAssumption DEF TypeOK
<1>13. \A x \in Reqs : x # r => Untouched(x)
  BY <1>1, <1>5 DEF Untouched, TypeOK
<1>14. TaskTrue(n, u)'
  BY <1>4, <1>5, <1>7, <1>12 DEF TaskTrue, Stage, RoutedMessage
<1>15. Accounts({r}, n, {u}, {}, n, {})
  BY <1>1, <1>5, <1>8, <1>9, <1>10, <1>13, <1>14, ClientsSame DEF Accounts
<1>16. NoUnexpectedReply' /\ \A m \in Nodes : status[m] = "down" => status'[m] = "down"
  BY <1>1, <1>5, StatusSteps
<1>17. Progress({r}, {u}, {}, {})
  <2>1. \A x \in Reqs : route[x] # None => route'[x] = route[x]
    BY <1>11, <1>13 DEF Untouched
  <2> QED  BY <1>5, <1>7, <1>9, <1>16, <2>1 DEF Progress
<1>18. \A m \in Nodes, x \in Reqs : x # r => (x \in publishers'[m] <=> x \in publishers[m])
  BY <1>1, <1>5 DEF TypeOK
<1>19. \A m \in Nodes : Up(m)' => (r \in publishers'[m] <=> Owes(m, r)')
  <2>1. \A m \in Nodes : Up(m)' => Up(m)
    BY <1>16 DEF Up
  <2>2. \A m \in Nodes : Up(m) => r \notin publishers[m]
    BY <1>1, <1>11 DEF CallbacksOwed
  <2>3. \A m \in Nodes : r \in publishers'[m] <=> r \in publishers[m] \/ m = n
    BY <1>1, <1>5 DEF TypeOK
  <2>4. \A m \in Nodes : Owes(m, r)' <=> m = n
    BY <1>5, <1>11, <1>12 DEF Owes
  <2> QED  BY <2>1, <2>2, <2>3, <2>4
<1> QED  BY <1>5, <1>7, <1>11, <1>13, <1>15, <1>16, <1>17, <1>18, <1>19, OneRequestStep

\* The callback that runs is erased: no other callback is touched, and it is not owed.
LEMMA CallbackErased ==
  ASSUME TypeOK, CallbacksOwed, NEW n \in Nodes, Up(n), NEW r \in Reqs, Owes(n, r),
         publishers' = [publishers EXCEPT ![n] = @ \ {r}], answered'[r] > 0,
         UNCHANGED <<call, route>>, \A m \in Nodes : Up(m)' => Up(m)
  PROVE  /\ \A m \in Nodes, x \in Reqs : x # r => (x \in publishers'[m] <=> x \in publishers[m])
         /\ \A m \in Nodes : Up(m)' => (r \in publishers'[m] <=> Owes(m, r)')
<1>1. publishers \in [Nodes -> SUBSET Reqs]
  BY DEF TypeOK
<1>2. \A m \in Nodes, x \in Reqs : x # r => (x \in publishers'[m] <=> x \in publishers[m])
  BY <1>1
<1>3. ASSUME NEW m \in Nodes, Up(m)'
      PROVE  r \notin publishers'[m]
  <2>1. CASE m = n
    BY <1>1, <2>1
  <2>2. CASE m # n
    <3>1. Up(m) /\ call[r].node = n
      BY <1>3 DEF Owes
    <3>2. r \notin publishers[m]
      BY <2>2, <3>1 DEF CallbacksOwed
    <3> QED  BY <1>1, <2>2, <3>2
  <2> QED  BY <2>1, <2>2
<1>4. \A m : ~ Owes(m, r)'
  BY DEF Owes
<1> QED  BY <1>2, <1>3, <1>4

\* Consumer and callback of the node that asked: the callback is there.
LEMMA SelfServedSound ==
  ASSUME Sound, TypeOK', NEW n \in Nodes, NEW l \in Loops, SelfServed(n, l)
  PROVE  Traced'
<1>1. /\ TypeOK /\ OneMessage /\ NoUnexpectedReply /\ CallbacksOwed
      /\ ClientsTrue
  BY SoundClients DEF Sound, Traced, RequestsAccounted, OneMessage
<1>2. PICK t : t = Head(queue[n][l])
  OBVIOUS
<1>3. PICK r, a : r = t.msg.address /\ a = t.msg.replay
  OBVIOUS
<1>4. Running(n, l, "routed") /\ t.msg.server = n /\ UNCHANGED <<evConnect, call, route, lost>>
  BY <1>2 DEF SelfServed, netVars
<1>5. t \in Task /\ t.kind = "routed" /\ TaskTrue(n, t) /\ Up(n)
  BY <1>2, <1>4, RunningTask
<1>6. r \in Reqs /\ a \in Addrs /\ Carries(t, r) /\ Stage(r, n, a, n, 0)
  BY <1>3, <1>4, <1>5 DEF Task, Message, Carries, TaskTrue, Received
<1>7. call[r] # None /\ call[r].node = n /\ route[r] = n /\ Owes(n, r)
  BY <1>6, BusAssumption DEF Stage, Call, Owes
<1>8. r \in publishers[n]
  BY <1>1, <1>5, <1>6, <1>7 DEF CallbacksOwed, Owes
<1>9. CASE a \in consumers[n]
  <2>1. /\ Invoke(r) /\ Answer(r, n) /\ Finish(n, l) /\ Alive
        /\ publishers' = [publishers EXCEPT ![n] = @ \ {r}]
    BY <1>2, <1>3, <1>8, <1>9 DEF SelfServed
  <2>2. LoopsChange({r}, n, {}) /\ InLoop(r) /\ ~ InClient(r)
    BY <1>2, <1>4, <1>6, <2>1, RunningTask
  <2>3. answered'[r] > 0
    BY <1>1, <1>6, <2>1 DEF Answer, TypeOK
  <2>4. \A x \in Reqs : x # r => Untouched(x)
    BY <1>1, <1>4, <2>1 DEF Untouched, TypeOK, Invoke, Answer
  <2>5. Accounts({r}, n, {}, {}, n, {})
    BY <1>1, <1>4, <2>2, <2>4, ClientsSame DEF Accounts
  <2>6. NoUnexpectedReply' /\ \A m \in Nodes : status[m] = "down" => status'[m] = "down"
    BY <1>1, <2>1, StatusSteps
  <2>7. Progress({r}, {}, {}, {})
    <3>1. \A x \in Reqs : answered[x] > 0 => answered'[x] > 0
      BY <2>3, <2>4 DEF Untouched
    <3> QED  BY <1>4, <2>3, <2>6, <3>1 DEF Progress
  <2>8. \A m \in Nodes : Up(m)' => Up(m)
    BY <2>6 DEF Up
  <2>9. /\ \A m \in Nodes, x \in Reqs : x # r => (x \in publishers'[m] <=> x \in publishers[m])
        /\ \A m \in Nodes : Up(m)' => (r \in publishers'[m] <=> Owes(m, r)')
    BY <1>1, <1>4, <1>5, <1>6, <1>7, <2>1, <2>3, <2>8, CallbackErased
  <2> QED  BY <1>4, <1>6, <1>7, <2>4, <2>5, <2>6, <2>7, <2>9, OneRequestStep
<1>10. CASE a \notin consumers[n]
  <2>1. Die(n, "no_consumer") /\ UNCHANGED <<publishers, queue, invoked, answered, body>>
    BY <1>2, <1>3, <1>10 DEF SelfServed
  <2>2. NoUnexpectedReply' /\ \A m \in Nodes : status[m] = "down" => status'[m] = "down"
    BY <1>1, <2>1, StatusSteps
  <2> QED  BY <1>4, <2>1, <2>2, StillStep DEF history
<1> QED  BY <1>9, <1>10

\* Who is found to have a callback to run: a request of this node that was served and not
\* answered.  For the rest of a frame there is none.
LEMMA ReplyFound ==
  ASSUME Sound, NEW n \in Nodes, NEW l \in Loops, NEW f, NEW stray \in Strays,
         ReplyReceived(n, l, f, stray)
  PROVE  LET t == Head(queue[n][l]) IN
         /\ Up(n) /\ f.first \in Reqs /\ Running(n, l, t.kind)
         /\ IF t.kind = "rest"
            THEN f.first \notin publishers[n]
            ELSE /\ Carries(t, f.first)
                 /\ \E s \in Nodes, a \in Addrs : Stage(f.first, n, a, s, 1)
<1>1. CallbacksOwed
  BY DEF Sound, Traced, RequestsAccounted
<1>2. PICK t : t = Head(queue[n][l])
  OBVIOUS
<1>3. /\ Running(n, l, t.kind) /\ t.kind \in Received
      /\ f \in Parsed(t) /\ f.first \in Reqs /\ f.first # None
  BY <1>2, BusAssumption DEF ReplyReceived, Running, to_message
<1>4. t \in Task /\ TaskTrue(n, t) /\ Up(n)
  BY <1>2, <1>3, RunningTask
<1>5. t.frame \in Frame
  BY <1>3, <1>4, ParsedShape
<1>6. CASE t.kind = "rest"
  <2>1. f.first = t.frame.second
    BY <1>3, <1>4, <1>6, ParsedShape
  <2>2. call[f.first] # None /\ call[f.first].node # n
    BY <1>3, <1>4, <1>6, <2>1 DEF TaskTrue, RestTrue
  <2> QED  BY <1>1, <1>2, <1>3, <1>4, <1>6, <2>2 DEF CallbacksOwed
<1>7. CASE t.kind # "rest"
  <2>1. f.first = t.frame.first /\ t.kind \in {"frame", "head"}
    BY <1>3, <1>4, <1>7, ParsedShape DEF Received
  <2>2. t.frame.first \notin Addrs /\ ReqOf(t.frame) = f.first /\ t.frame.second \in Addrs
    BY <1>3, <1>5, <2>1, BusAssumption DEF Frame, RequestFrame, ReplyFrame, ReqOf
  <2>3. PICK s \in Nodes : Stage(f.first, n, t.frame.second, s, 1)
    BY <1>4, <2>1, <2>2 DEF TaskTrue, FrameTrue
  <2> QED  BY <1>2, <1>3, <1>4, <1>7, <2>1, <2>2, <2>3 DEF Carries
<1> QED  BY <1>6, <1>7

\* A reply: its callback is there, and runs for the first time.  The rest of a frame finds
\* none and ends the process.
LEMMA ReplyReceivedSound ==
  ASSUME Sound, TypeOK', NEW n \in Nodes, NEW l \in Loops, NEW f, NEW stray \in Strays,
         ReplyReceived(n, l, f, stray)
  PROVE  Traced'
<1>1. /\ TypeOK /\ OneMessage /\ NoUnexpectedReply /\ CallbacksOwed /\ PingStaysHome
      /\ ClientsTrue
  BY SoundClients DEF Sound, Traced, RequestsAccounted, OneMessage
<1>2. PICK t : t = Head(queue[n][l])
  OBVIOUS
<1>3. PICK r : r = f.first
  OBVIOUS
<1>4. r \in Reqs /\ Up(n) /\ UNCHANGED <<evConnect, call, route, invoked, lost>>
  BY <1>3, ReplyFound DEF ReplyReceived, netVars
<1>5. CASE t.kind = "rest"
  <2>1. r \notin publishers[n]
    BY <1>2, <1>3, <1>5, ReplyFound
  <2>2. Die(n, "torn_frame") /\ UNCHANGED <<publishers, queue, answered, body>>
    BY <1>2, <1>3, <1>5, <2>1 DEF ReplyReceived, to_message
  <2>3. NoUnexpectedReply' /\ \A m \in Nodes : status[m] = "down" => status'[m] = "down"
    BY <1>1, <2>2, StatusSteps
  <2> QED  BY <1>4, <2>2, <2>3, StillStep DEF history
<1>6. CASE t.kind # "rest"
  <2>1. Running(n, l, t.kind) /\ Carries(t, r)
    BY <1>2, <1>3, <1>6, ReplyFound
  <2>2. PICK s \in Nodes : \E a \in Addrs : Stage(r, n, a, s, 1)
    BY <1>2, <1>3, <1>6, ReplyFound
  <2>3. call[r] # None /\ call[r].node = n /\ route[r] = s /\ Owes(n, r)
    BY <2>2, BusAssumption DEF Stage, Call, Owes
  <2>4. r \in publishers[n]
    BY <1>1, <1>4, <2>3 DEF CallbacksOwed, Owes
  <2>5. /\ Answer(r, stray) /\ Finish(n, l) /\ Alive
        /\ publishers' = [publishers EXCEPT ![n] = @ \ {r}]
    BY <1>3, <2>4 DEF ReplyReceived, to_message
  <2>6. LoopsChange({r}, n, {}) /\ InLoop(r) /\ ~ InClient(r)
    BY <1>2, <1>4, <2>1, <2>5, RunningTask
  <2>7. answered'[r] > 0
    BY <1>1, <1>4, <2>5 DEF Answer, TypeOK
  <2>8. \A x \in Reqs : x # r => Untouched(x)
    BY <1>1, <1>4, <2>5 DEF Untouched, TypeOK, Answer
  <2>9. Accounts({r}, n, {}, {}, n, {})
    BY <1>1, <1>4, <2>6, <2>8, ClientsSame DEF Accounts
  <2>10. NoUnexpectedReply' /\ \A m \in Nodes : status[m] = "down" => status'[m] = "down"
    BY <1>1, <2>5, StatusSteps
  <2>11. Progress({r}, {}, {}, {})
    <3>1. \A x \in Reqs : answered[x] > 0 => answered'[x] > 0
      BY <2>7, <2>8 DEF Untouched
    <3> QED  BY <1>4, <2>7, <2>10, <3>1 DEF Progress
  <2>12. \A m \in Nodes : Up(m)' => Up(m)
    BY <2>10 DEF Up
  <2>13. /\ \A m \in Nodes, x \in Reqs : x # r => (x \in publishers'[m] <=> x \in publishers[m])
         /\ \A m \in Nodes : Up(m)' => (r \in publishers'[m] <=> Owes(m, r)')
    BY <1>1, <1>4, <2>3, <2>5, <2>7, <2>12, CallbackErased
  <2>14. call'[r].address \in PingAddrs /\ invoked'[r] > 0 => route'[r] \in {None, call'[r].node}
    BY <1>1, <1>4, <2>3 DEF PingStaysHome
  <2> QED  BY <1>4, <2>3, <2>8, <2>9, <2>10, <2>11, <2>13, <2>14, OneRequestStep
<1> QED  BY <1>5, <1>6

\* Whom a consumer that is found is run for: a request that another node routed here and
\* that was not served, answered unless its beginning had no server.  The rest of a frame
\* runs it for nobody.
LEMMA RequestFound ==
  ASSUME Sound, NEW n \in Nodes, NEW l \in Loops, NEW f, NEW stray \in Strays,
         RequestServed(n, l, f, stray), f.first \in consumers[n]
  PROVE  LET t == Head(queue[n][l])
             r == t.frame.second
             s == t.frame.server IN
         /\ Up(n) /\ f.first \in Addrs /\ Running(n, l, t.kind)
         /\ IF t.kind = "rest"
            THEN f.second \notin Reqs /\ f.server = None
            ELSE /\ r \in Reqs /\ s \in Nodes \ {n} /\ Carries(t, r)
                 /\ Stage(r, s, f.first, n, 0) /\ f.first \notin PingAddrs
                 /\ ReqOf(t.frame) = r /\ (f.second \in Reqs => f.second = r)
                 /\ f = t.frame \/ (f.server = None /\ r \in lost)
<1>1. PICK t : t = Head(queue[n][l])
  OBVIOUS
<1>2. /\ Running(n, l, t.kind) /\ t.kind \in Received /\ f \in Parsed(t)
  BY <1>1 DEF RequestServed, Running
<1>3. f.first \in Addrs /\ f.first # None /\ f.first \notin Reqs
  BY BusAssumption DEF Sound, TypeOK
<1>4. t \in Task /\ TaskTrue(n, t) /\ Up(n)
  BY <1>1, <1>2, RunningTask
<1>5. CASE t.kind = "rest"
  <2>1. f.second \notin Reqs /\ f.server = None
    BY <1>2, <1>4, <1>5, BusAssumption, ParsedShape
  <2> QED  BY <1>1, <1>2, <1>3, <1>4, <1>5, <2>1
<1>6. CASE t.kind # "rest"
  <2> DEFINE g == t.frame
  <2>1. /\ f.first = g.first /\ t.kind \in {"frame", "head"} /\ g \in Frame /\ ~ HasPing(f)
        /\ f.server \in Nodes \cup {None} /\ (f.server \in Nodes => f = g)
        /\ f.second \in Reqs => f.second = g.second
    BY <1>2, <1>3, <1>4, <1>6, ParsedShape DEF Received
  <2>2. g \in RequestFrame
    BY <1>3, <2>1 DEF Frame, ReplyFrame
  <2>3. g.second \in Reqs /\ g.server \in Nodes /\ ReqOf(g) = g.second
    BY <1>3, <2>1, <2>2 DEF RequestFrame, ReqOf
  <2>4. Stage(g.second, g.server, f.first, n, 0) /\ g.server # n
    BY <1>3, <1>4, <2>1 DEF TaskTrue, FrameTrue
  <2>5. f = g \/ (f.server = None /\ g.second \in lost)
    <3>1. CASE t.kind = "frame"
      BY <1>2, <3>1 DEF Parsed
    <3>2. CASE t.kind = "head"
      BY <1>1, <1>2, <2>1, <2>3, <3>2, RunningTask
    <3> QED  BY <2>1, <3>1, <3>2
  <2>6. Carries(t, g.second) /\ f.first \notin PingAddrs
    BY <2>1, <2>3 DEF Carries, HasPing
  <2> QED  BY <1>1, <1>2, <1>3, <1>4, <1>6, <2>1, <2>3, <2>4, <2>5, <2>6
<1> QED  BY <1>5, <1>6

\* A request from another node: the consumer runs once and its reply leaves, or the
\* process ends on the way.  A reply to a server that was not read goes nowhere.
LEMMA RequestServedSound ==
  ASSUME Sound, TypeOK', NEW n \in Nodes, NEW l \in Loops, NEW f, NEW stray \in Strays,
         RequestServed(n, l, f, stray)
  PROVE  Traced'
<1>1. /\ TypeOK /\ OneMessage /\ NoUnexpectedReply /\ CallbacksOwed /\ EndpointsKnown
      /\ ClientsTrue
  BY SoundClients DEF Sound, Traced, RequestsAccounted, OneMessage, ConsumersKnown
<1>2. PICK t : t = Head(queue[n][l])
  OBVIOUS
<1>3. PICK a : a = f.first
  OBVIOUS
<1>4. UNCHANGED <<publishers, call, route, answered, body, lost>>
  BY DEF RequestServed
<1>5. CASE a \notin consumers[n]
  <2>1. PICK why \in {"torn_frame", "no_consumer"} :
          Die(n, why) /\ UNCHANGED <<queue, evConnect, invoked>>
    BY <1>2, <1>3, <1>5 DEF RequestServed, to_message, netVars
  <2>2. NoUnexpectedReply' /\ \A m \in Nodes : status[m] = "down" => status'[m] = "down"
    BY <1>1, <2>1, StatusSteps
  <2> QED  BY <1>4, <2>1, <2>2, StillStep DEF history
<1>6. ASSUME a \in consumers[n]
      PROVE  /\ Running(n, l, t.kind) /\ Finish(n, l) /\ a \in Addrs
             /\ IF t.kind = "rest" THEN UNCHANGED invoked ELSE Invoke(ReqOf(t.frame))
             /\ processStringMessage(n, f.server, [first |-> f.second, second |-> a, server |-> None])
  BY <1>2, <1>3, <1>6, RequestFound DEF RequestServed, to_message, Response, to_string
\* A consumer that runs for the rest of a frame.
<1>7. CASE a \in consumers[n] /\ t.kind = "rest"
  <2>1. f.second \notin Reqs /\ f.server = None
    BY <1>2, <1>3, <1>7, RequestFound
  <2>2. UNCHANGED <<evConnect, invoked>> /\ (Alive \/ Die(n, "null_conn"))
    BY <1>6, <1>7, <2>1, SendNowhere DEF netVars
  <2>3. NoUnexpectedReply' /\ \A m \in Nodes : status[m] = "down" => status'[m] = "down"
    BY <1>1, <2>2, StatusSteps
  <2>4. LoopsChange({}, n, {})
    BY <1>2, <1>6, <1>7, RunningTask
  <2>5. ClientsChange({}, n, {})
    BY <1>1, <2>2, ClientsSame
  <2>6. Progress({}, {}, {}, {})
    BY <1>4, <2>2, <2>3 DEF Progress
  <2> QED  BY <1>4, <2>2, <2>3, <2>4, <2>5, <2>6, QuietStep
<1>8. CASE a \in consumers[n] /\ t.kind # "rest"
  <2>1. PICK r, s : r = t.frame.second /\ s = t.frame.server
    OBVIOUS
  <2>2. /\ r \in Reqs /\ s \in Nodes /\ s # n /\ Carries(t, r) /\ Stage(r, s, a, n, 0)
        /\ a \in Addrs /\ a \notin PingAddrs
        /\ ReqOf(t.frame) = r /\ (f.second \in Reqs => f.second = r)
        /\ f = t.frame \/ (f.server = None /\ r \in lost)
    BY <1>2, <1>3, <1>8, <2>1, RequestFound
  <2>3. call[r] # None /\ call[r].node = s /\ call[r].address = a /\ route[r] = n /\ answered[r] = 0
    BY <2>2, BusAssumption DEF Stage, Call
  <2>4. LoopsChange({r}, n, {}) /\ InLoop(r) /\ ~ InClient(r)
    BY <1>2, <1>6, <1>8, <2>2, RunningTask
  <2>5. \A x \in Reqs : x # r => Untouched(x)
    BY <1>1, <1>4, <1>6, <1>8, <2>2 DEF Untouched, TypeOK, Invoke
  <2>6. \A m \in Nodes, x \in Reqs : x # r => (x \in publishers'[m] <=> x \in publishers[m])
    BY <1>4
  <2>7. ASSUME \A m \in Nodes : status[m] = "down" => status'[m] = "down"
        PROVE  \A m \in Nodes : Up(m)' => (r \in publishers'[m] <=> Owes(m, r)')
    <3>1. \A m \in Nodes : Up(m)' => Up(m)
      BY <2>7 DEF Up
    <3>2. \A m \in Nodes : Up(m) => (r \in publishers[m] <=> Owes(m, r))
      BY <1>1, <2>2, OwedOneByOne
    <3> QED  BY <1>4, <3>1, <3>2 DEF Owes
  <2>8. ASSUME ClientsChange({}, s, {}), NoUnexpectedReply', r \in lost \/ Gone(r)',
               \A m \in Nodes : status[m] = "down" => status'[m] = "down"
        PROVE  Traced'
    <3>1. Accounts({r}, n, {}, {}, s, {})
      BY <2>4, <2>5, <2>8 DEF Accounts
    <3>2. Progress({r}, {}, {}, {})
      BY <1>4, <2>8 DEF Progress
    <3> QED  BY <1>4, <2>2, <2>3, <2>5, <2>6, <2>7, <2>8, <3>1, <3>2, OneRequestStep
  <2>9. ASSUME Die(n, "null_conn")
        PROVE  /\ NoUnexpectedReply' /\ Gone(r)'
               /\ \A m \in Nodes : status[m] = "down" => status'[m] = "down"
    <3>1. /\ NoUnexpectedReply' /\ status'[n] = "down"
          /\ \A m \in Nodes : status[m] = "down" => status'[m] = "down"
      BY <1>1, <2>9, StatusSteps
    <3> QED  BY <1>4, <2>3, <3>1, BusAssumption DEF Gone, Up
  <2>10. CASE f.server = None
    <3>1. UNCHANGED evConnect /\ (Alive \/ Die(n, "null_conn"))
      BY <1>6, <1>8, <2>10, SendNowhere DEF netVars
    <3>2. ClientsChange({}, s, {})
      BY <1>1, <3>1, ClientsSame
    <3>3. r \in lost
      BY <2>1, <2>2, <2>10, BusAssumption
    <3>4. NoUnexpectedReply' /\ \A m \in Nodes : status[m] = "down" => status'[m] = "down"
      BY <1>1, <3>1, StatusSteps
    <3> QED  BY <2>8, <3>2, <3>3, <3>4
  <2>11. CASE f.server # None
    <3>1. f.second = r /\ f.server = s
      BY <2>1, <2>2, <2>11
    <3>2. PICK g : g = [first |-> r, second |-> a, server |-> None]
      OBVIOUS
    <3>3. Invoke(r) /\ processStringMessage(n, s, g)
      BY <1>6, <1>8, <2>2, <3>1, <3>2
    <3>4. g \in Frame /\ ReqOf(g) = r
      BY <2>2, <3>2 DEF Frame, ReplyFrame, ReqOf
    <3>5. invoked'[r] = 1
      BY <1>1, <2>2, <3>3 DEF Invoke, Stage, TypeOK
    <3>6. FrameTrue(s, g)'
      <4>1. g.first \notin Addrs /\ g.first = r /\ g.second = a
        BY <2>2, <3>2, BusAssumption
      <4>2. Stage(r, s, a, n, 1)' /\ n \in Nodes \ {s}
        BY <1>4, <2>2, <3>5 DEF Stage
      <4> QED  BY <4>1, <4>2 DEF FrameTrue
    <3>7. CASE ClientsChange({}, s, {g}) /\ Alive
      <4>1. NoUnexpectedReply' /\ \A m \in Nodes : status[m] = "down" => status'[m] = "down"
        BY <1>1, <3>7, StatusSteps
      <4>2. Accounts({r}, n, {}, {}, s, {g})
        BY <2>4, <2>5, <3>4, <3>6, <3>7 DEF Accounts
      <4>3. Progress({r}, {}, {}, {g})
        BY <1>4, <3>4, <4>1 DEF Progress
      <4> QED  BY <1>4, <2>2, <2>3, <2>5, <2>6, <2>7, <4>1, <4>2, <4>3, OneRequestStep
    <3>8. CASE ClientsChange({}, s, {}) /\ Die(n, "null_conn")
      BY <2>8, <2>9, <3>8
    <3> QED  BY <1>1, <2>2, <2>4, <3>3, <3>4, <3>7, <3>8, SendChanges
  <2> QED  BY <2>10, <2>11
<1> QED  BY <1>5, <1>7, <1>8

-----------------------------------------------------------------------------
(* The induction, and what follows from it.                                *)

LEMMA InitSound == Init => Traced
<1> SUFFICES ASSUME Init
             PROVE  Traced
  OBVIOUS
<1>1. /\ \A n \in Nodes, l \in Loops : DOMAIN queue[n][l] = {}
      /\ \A n \in Nodes : DOMAIN evConnect[n] = {}
  BY DEF Init
<1>2. OneMessage
  BY <1>1 DEF OneMessage, OnceInLoops, OnceInClients, InLoop, InClient
<1>3. TasksTrue /\ FramesTrue /\ HeadsLost
  BY <1>1 DEF TasksTrue, FramesTrue, HeadsLost
<1>4. NothingUnasked /\ CallbacksOwed /\ NoUnexpectedReply /\ PingStaysHome /\ NothingForgotten
  BY DEF Init, NothingUnasked, CallbacksOwed, NoUnexpectedReply, PingStaysHome, NothingForgotten
<1> QED  BY <1>2, <1>3, <1>4 DEF Traced, RequestsAccounted

LEMMA StepSound == Sound /\ [Next]_vars => Sound'
<1> SUFFICES ASSUME Sound, [Next]_vars
             PROVE  Sound'
  OBVIOUS
<1>1. TypeOK' /\ ConsumersKnown'
  BY StepTypes, StepKnown DEF Sound, Traced
<1>2. Traced'
  <2>1. CASE UNCHANGED vars
    <3>1. UNCHANGED <<status, publishers, queue, evConnect, history, fault>>
      BY <2>1 DEF vars, netVars
    <3>2. ASSUME NEW n \in Nodes
          PROVE  Traced'
      <4>1. NoUnexpectedReply'
        BY <3>1 DEF Sound, Traced, RequestsAccounted, NoUnexpectedReply
      <4> QED  BY <3>1, <4>1, StillStep
    <3>3. CASE Nodes = {}
      <4>1. OneMessage' /\ TasksTrue' /\ FramesTrue' /\ CallbacksOwed' /\ NoUnexpectedReply'
        BY <3>3 DEF OneMessage, OnceInLoops, OnceInClients, InLoop, InClient, TasksTrue,
                    FramesTrue, CallbacksOwed, NoUnexpectedReply
      <4>2. NothingUnasked' /\ PingStaysHome'
        BY <3>1 DEF history, Sound, Traced, RequestsAccounted, NothingUnasked, PingStaysHome
      <4>3. NothingForgotten' /\ HeadsLost'
        BY <3>1, <3>3 DEF history, Sound, Traced, NothingForgotten, HeadsLost, Gone, Up, InLoop, InClient
      <4> QED  BY <4>1, <4>2, <4>3 DEF Traced, RequestsAccounted
    <3> QED  BY <3>2, <3>3
  <2>2. ASSUME NEW n \in Nodes, NEW a \in Addrs,
               Consumer(n, a) \/ AddSub(n, a) \/ LocalConsumer(n, a)
        PROVE  Traced'
    BY <2>2, RegistrationSound
  <2>3. ASSUME NEW n \in Nodes, Run(n) \/ Kill(n)
        PROVE  Traced'
    BY <2>3, RegistrationSound
  <2>4. ASSUME NEW n \in Nodes, NEW a \in Addrs, NEW l \in Loops, NEW r \in Reqs, Request(n, l, r, a)
        PROVE  Traced'
    BY <1>1, <2>4, RequestSound
  <2>5. ASSUME NEW n \in Nodes, NEW l \in Loops, LoopStep(n, l)
        PROVE  Traced'
    BY <1>1, <2>5, RegistrationSound, RequestLocalSound, RequestRoutedSound, SelfServedSound,
       RemoteSentSound, ReplyReceivedSound, RequestServedSound DEF LoopStep
  <2>6. ASSUME NEW n \in Nodes, NEW i \in DOMAIN evConnect[n],
               ClientStep(n, i) \/ Disconnected(n, i)
        PROVE  Traced'
    BY <2>6, ClientStepSound
  <2>7. ASSUME NEW n \in Nodes, NEW i \in DOMAIN evConnect[n],
               NEW k \in 0 .. Len(evConnect[n][i].pipe), NEW cut \in BOOLEAN, NEW l \in Loops, OnMessage(n, i, k, cut, l)
        PROVE  Traced'
    BY <2>7, OnMessageSound
  <2> QED  BY <2>1, <2>2, <2>3, <2>4, <2>5, <2>6, <2>7 DEF Next
<1> QED  BY <1>1, <1>2 DEF Sound, Traced

LEMMA AlwaysSound == Spec => []Sound
<1>1. Init => Sound
  BY InitTypes, InitKnown, InitSound DEF Sound, Traced
<1> QED  BY <1>1, StepSound, PTL DEF Spec

\* Whatever the loops, the clients, the disconnections and the reads do, wherever they
\* end, there is at most one message of a request under way, whole or the beginning of
\* one, where and in the stage its history says, and _publishers holds its callback for
\* exactly as long.  What a read has cut off a frame is no message of any request, and
\* never reaches the node that asked with the address of its own request in front.
THEOREM AlwaysAccounted == Spec => []RequestsAccounted
<1>1. Sound => RequestsAccounted
  BY DEF Sound, Traced
<1> QED  BY <1>1, AlwaysSound, PTL

\* _publishers holds exactly the callbacks that are still owed an answer.
THEOREM CallbacksAlwaysOwed == Spec => []CallbacksOwed
<1>1. RequestsAccounted => CallbacksOwed
  BY DEF RequestsAccounted
<1> QED  BY <1>1, AlwaysAccounted, PTL

\* No reply whose address was read whole calls the empty function that _publishers[...]
\* makes for an unknown address.  What is left is the rest of a request, in which the
\* reply address came to lie in front at a node that never asked ("torn_frame").
THEOREM NeverUnexpectedReply == Spec => []NoUnexpectedReply
<1>1. RequestsAccounted => NoUnexpectedReply
  BY DEF RequestsAccounted
<1> QED  BY <1>1, AlwaysAccounted, PTL

\* A request is answered, known to be lost, the victim of a node that is down, or
\* under way: never just gone.
THEOREM NeverForgotten == Spec => []NothingForgotten
<1>1. Sound => NothingForgotten
  BY DEF Sound, Traced
<1> QED  BY <1>1, AlwaysSound, PTL

\* A request for an address with "ping" in it is served by the process that asked, or
\* not at all.
THEOREM PingAlwaysStaysHome == Spec => []PingStaysHome
<1>1. Sound => PingStaysHome
  BY DEF Sound, Traced
<1> QED  BY <1>1, AlwaysSound, PTL

-----------------------------------------------------------------------------
(* The bus implements RequestReply.  The stage of the running functor says  *)
(* that what it is about to do was not done before.                         *)

\* Handlers are added one at a time, and never removed.
LEMMA HandlersChange ==
  ASSUME TypeOK, NEW n \in Nodes, NEW a \in Addrs,
         Consumer(n, a) \/ AddSub(n, a) \/ LocalConsumer(n, a)
  PROVE  [RR!Next]_(RR!vars)
<1> DEFINE H == [m \in Nodes |-> consumers[m] \cup consumersLocal[m]]
<1>1. UNCHANGED <<call, invoked, answered>>
  BY DEF Consumer, AddSub, LocalConsumer, history
<1>2. /\ consumers \in [Nodes -> SUBSET Addrs] /\ consumersLocal \in [Nodes -> SUBSET Addrs]
  BY DEF TypeOK
<1>3. CASE AddSub(n, a)
  <2>1. UNCHANGED <<consumers, consumersLocal>>
    BY <1>3 DEF AddSub
  <2> QED  BY <1>1, <2>1 DEF RR!vars
<1>4. CASE Consumer(n, a) \/ LocalConsumer(n, a)
  <2>1. \A m \in Nodes : consumers'[m] \cup consumersLocal'[m]
                           = IF m = n THEN H[n] \cup {a} ELSE H[m]
    <3>1. CASE Consumer(n, a)
      BY <1>2, <3>1 DEF Consumer
    <3>2. CASE LocalConsumer(n, a)
      BY <1>2, <3>2 DEF LocalConsumer
    <3> QED  BY <1>4, <3>1, <3>2
  <2>2. H' = [H EXCEPT ![n] = @ \cup {a}]
    BY <2>1
  <2>3. RR!Register(n, a)
    BY <1>1, <2>2 DEF RR!Register
  <2> QED  BY <2>3 DEF RR!Next
<1> QED  BY <1>3, <1>4

LEMMA LoopServes ==
  ASSUME Sound, NEW n \in Nodes, NEW l \in Loops, LoopStep(n, l)
  PROVE  [RR!Next]_(RR!vars)
<1>1. /\ TypeOK /\ CallbacksOwed
      /\ call \in [Reqs -> Call \cup {None}] /\ invoked \in [Reqs -> Nat] /\ answered \in [Reqs -> Nat]
  BY DEF Sound, Traced, RequestsAccounted, TypeOK
<1>2. UNCHANGED <<consumers, consumersLocal, call>>
  BY DEF LoopStep, RequestLocal, RequestUnknown, RequestRouted, SelfServed, RemoteSent,
         ReplyReceived, RequestServed, regVars, history
<1>3. UNCHANGED [m \in Nodes |-> consumers[m] \cup consumersLocal[m]]
  BY <1>2
<1>4. CASE UNCHANGED <<invoked, answered>>
  BY <1>2, <1>3, <1>4 DEF RR!vars
\* The consumer of s runs.
<1>5. ASSUME NEW r \in Reqs, NEW m \in Nodes, NEW a \in Addrs, NEW x, NEW s \in Nodes,
             Stage(r, m, a, x, 0), a \in consumers[s] \/ a \in consumersLocal[s], Invoke(r)
      PROVE  /\ RR!CanServe(r) /\ answered[r] = 0
             /\ invoked' = [invoked EXCEPT ![r] = 1]
  <2>1. call[r] # None /\ call[r].address = a /\ invoked[r] = 0 /\ answered[r] = 0
    BY <1>5, BusAssumption DEF Stage, Call
  <2>2. a \in [y \in Nodes |-> consumers[y] \cup consumersLocal[y]][s]
    BY <1>5
  <2>3. RR!CanServe(r)
    BY <2>1, <2>2 DEF RR!CanServe
  <2> QED  BY <1>1, <1>5, <2>1, <2>3 DEF Invoke
\* The response handler runs.
<1>6. ASSUME NEW r \in Reqs, answered[r] = 0, NEW b, Answer(r, b)
      PROVE  answered' = [answered EXCEPT ![r] = 1]
  BY <1>1, <1>6 DEF Answer
<1>7. CASE RequestLocal(n, l)
  <2>1. PICK t : t = Head(queue[n][l])
    OBVIOUS
  <2>2. Running(n, l, "request") /\ Invoke(t.req) /\ Answer(t.req, n) /\ t.address \in consumersLocal[n]
    BY <1>7, <2>1 DEF RequestLocal
  <2>3. t \in Task /\ t.kind = "request" /\ TaskTrue(n, t)
    BY <2>1, <2>2, RunningTask
  <2>4. t.req \in Reqs /\ t.address \in Addrs /\ Stage(t.req, n, t.address, None, 0)
    <3>1. t.req \in Reqs /\ t.address \in Addrs
      BY <2>3, TaskFields
    <3> QED  BY <2>3, <3>1 DEF TaskTrue
  <2>5. RR!ServeAndAnswer(t.req)
    <3>1. /\ RR!CanServe(t.req) /\ answered[t.req] = 0
          /\ invoked' = [invoked EXCEPT ![t.req] = 1]
      BY <1>5, <2>2, <2>4
    <3>2. answered' = [answered EXCEPT ![t.req] = 1]
      BY <1>6, <2>2, <2>4, <3>1
    <3> QED  BY <1>2, <1>3, <3>1, <3>2 DEF RR!ServeAndAnswer
  <2> QED  BY <2>4, <2>5 DEF RR!Next
<1>8. CASE SelfServed(n, l)
  <2>1. PICK t : t = Head(queue[n][l])
    OBVIOUS
  <2>2. Running(n, l, "routed") /\ t.msg.server = n
    BY <1>8, <2>1 DEF SelfServed
  <2>3. t \in Task /\ t.kind = "routed" /\ TaskTrue(n, t) /\ Up(n)
    BY <2>1, <2>2, RunningTask
  <2>4. PICK r, a : r = t.msg.address /\ a = t.msg.replay
    OBVIOUS
  <2>5. r \in Reqs /\ a \in Addrs /\ Stage(r, n, a, n, 0)
    <3>1. t.msg.address \in Reqs /\ t.msg.replay \in Addrs
      BY <2>3, TaskFields
    <3> QED  BY <2>2, <2>3, <2>4, <3>1 DEF TaskTrue
  <2>6. r \in publishers[n]
    BY <1>1, <2>3, <2>5, BusAssumption DEF CallbacksOwed, Stage, Call
  <2>7. CASE a \in consumers[n]
    <3>1. Invoke(r) /\ Answer(r, n)
      BY <1>8, <2>1, <2>4, <2>6, <2>7 DEF SelfServed
    <3>2. RR!CanServe(r) /\ answered[r] = 0 /\ invoked' = [invoked EXCEPT ![r] = 1]
      BY <1>5, <2>5, <2>7, <3>1
    <3>3. answered' = [answered EXCEPT ![r] = 1]
      BY <1>6, <2>5, <3>1, <3>2
    <3>4. RR!ServeAndAnswer(r)
      BY <1>2, <1>3, <3>2, <3>3 DEF RR!ServeAndAnswer
    <3> QED  BY <2>5, <3>4 DEF RR!Next
  <2>8. CASE a \notin consumers[n]
    BY <1>4, <1>8, <2>1, <2>4, <2>8 DEF SelfServed
  <2> QED  BY <2>7, <2>8
<1>9. ASSUME NEW f, NEW stray \in Strays, ReplyReceived(n, l, f, stray)
      PROVE  [RR!Next]_(RR!vars)
  <2>1. PICK t, r : t = Head(queue[n][l]) /\ r = f.first
    OBVIOUS
  <2>2. r \in Reqs /\ UNCHANGED invoked
    BY <1>9, <2>1, ReplyFound DEF ReplyReceived
  <2>3. CASE r \in publishers[n]
    <3>1. Answer(r, stray)
      BY <1>9, <2>1, <2>3 DEF ReplyReceived, to_message
    <3>2. invoked[r] = 1 /\ answered[r] = 0
      <4>1. t.kind # "rest"
        BY <1>9, <2>1, <2>3, ReplyFound
      <4>2. PICK s \in Nodes : \E a \in Addrs : Stage(r, n, a, s, 1)
        BY <1>9, <2>1, <4>1, ReplyFound
      <4> QED  BY <4>2 DEF Stage
    <3>3. answered' = [answered EXCEPT ![r] = 1]
      BY <1>6, <2>2, <3>1, <3>2
    <3>4. RR!Answer(r)
      BY <1>2, <1>3, <2>2, <3>2, <3>3 DEF RR!Answer
    <3> QED  BY <2>2, <3>4 DEF RR!Next
  <2>4. CASE r \notin publishers[n]
    BY <1>4, <1>9, <2>1, <2>4 DEF ReplyReceived, to_message
  <2> QED  BY <2>3, <2>4
<1>10. ASSUME NEW f, NEW stray \in Strays, RequestServed(n, l, f, stray)
       PROVE  [RR!Next]_(RR!vars)
  <2>1. PICK t, a : t = Head(queue[n][l]) /\ a = f.first
    OBVIOUS
  <2>2. UNCHANGED answered
    BY <1>10 DEF RequestServed
  <2>3. CASE a \in consumers[n] /\ t.kind # "rest"
    <3>1. Invoke(ReqOf(t.frame))
      BY <1>10, <2>1, <2>3 DEF RequestServed, to_message
    <3>2. PICK r, s : r = t.frame.second /\ s = t.frame.server
      OBVIOUS
    <3>3. /\ r \in Reqs /\ ReqOf(t.frame) = r /\ s \in Nodes /\ a \in Addrs
          /\ Stage(r, s, a, n, 0)
      BY <1>10, <2>1, <2>3, <3>2, RequestFound
    <3>4. RR!CanServe(r) /\ invoked' = [invoked EXCEPT ![r] = 1]
      BY <1>5, <2>3, <3>1, <3>3
    <3>5. RR!Serve(r)
      BY <1>2, <1>3, <2>2, <3>4 DEF RR!Serve
    <3> QED  BY <2>3, <3>3, <3>5 DEF RR!Next
  <2>4. CASE ~ (a \in consumers[n] /\ t.kind # "rest")
    BY <1>4, <1>10, <2>1, <2>2, <2>4 DEF RequestServed, to_message
  <2> QED  BY <2>3, <2>4
<1>11. CASE RequestUnknown(n, l) \/ RemoteSent(n, l) \/ \E s \in Nodes : RequestRouted(n, l, s)
  BY <1>4, <1>11 DEF RequestUnknown, RemoteSent, RequestRouted, history
<1> QED  BY <1>7, <1>8, <1>9, <1>10, <1>11 DEF LoopStep

\* Through every race of loops, clients, reads and disconnections, and wherever a read
\* ends, the consumer and the response handler of a request run at most once, in this
\* order, and the consumer only where its address has a handler.
THEOREM BusImplementsRequestReply == Spec => ImplementsRequestReply
<1>1. Init => RR!Init
  BY DEF Init, RR!Init
<1>2. Sound /\ [Next]_vars => [RR!Next]_(RR!vars)
  <2> SUFFICES ASSUME Sound, [Next]_vars
               PROVE  [RR!Next]_(RR!vars)
    OBVIOUS
  <2>1. ASSUME UNCHANGED <<consumers, consumersLocal, call, invoked, answered>>
        PROVE  UNCHANGED RR!vars
    BY <2>1 DEF RR!vars
  <2>2. ASSUME NEW n \in Nodes, NEW a \in Addrs, NEW l \in Loops, NEW r \in Reqs, Request(n, l, r, a)
        PROVE  RR!Next
    <3>1. /\ UNCHANGED <<consumers, consumersLocal, invoked, answered>>
          /\ call[r] = None /\ call' = [call EXCEPT ![r] = [node |-> n, address |-> a]]
      BY <2>2 DEF Request, regVars
    <3>2. RR!Issue(r, n, a)
      BY <3>1 DEF RR!Issue
    <3> QED  BY <3>2 DEF RR!Next
  <2>3. ASSUME NEW n \in Nodes, NEW i \in DOMAIN evConnect[n],
               \/ ClientStep(n, i) \/ Disconnected(n, i)
               \/ \E k \in 0 .. Len(evConnect[n][i].pipe), cut \in BOOLEAN, l \in Loops : OnMessage(n, i, k, cut, l)
        PROVE  UNCHANGED RR!vars
    <3>1. CASE ClientStep(n, i)
      BY <2>1, <3>1 DEF ClientStep, Dial, Connected, ConnectFailed, regVars, history
    <3>2. CASE Disconnected(n, i)
      BY <2>1, <3>2 DEF Disconnected, regVars, history
    <3>3. ASSUME NEW k \in 0 .. Len(evConnect[n][i].pipe), NEW cut \in BOOLEAN, NEW l \in Loops,
                 OnMessage(n, i, k, cut, l)
          PROVE  UNCHANGED RR!vars
      BY <2>1, <3>3 DEF OnMessage, regVars, history
    <3> QED  BY <2>3, <3>1, <3>2, <3>3
  <2>4. ASSUME NEW n \in Nodes, Run(n) \/ Kill(n)
        PROVE  UNCHANGED RR!vars
    BY <2>1, <2>4 DEF Run, Kill, regVars, history
  <2>5. CASE UNCHANGED vars
    BY <2>1, <2>5 DEF vars, regVars, history
  <2>6. TypeOK
    BY DEF Sound, Traced
  <2> QED  BY <2>2, <2>3, <2>4, <2>5, <2>6, HandlersChange, LoopServes DEF Next
<1> QED  BY <1>1, <1>2, AlwaysSound, PTL DEF Spec, ImplementsRequestReply, RR!Spec

=============================================================================
