---------------------------- MODULE RequestReply ----------------------------
(***************************************************************************)
(* What a caller of EventBus::request is promised, without loops, sockets  *)
(* or threads: the consumer runs at most once for a request, only where    *)
(* its address has a handler, and the response handler runs at most once,  *)
(* never before the consumer did.                                          *)
(***************************************************************************)
EXTENDS Naturals

CONSTANTS Nodes, Addrs, Reqs, None

VARIABLES
  handlers,  \* addresses with a consumer, per node
  call,      \* [node, address] of each request made, None before
  invoked,   \* runs of a consumer for the request
  answered   \* runs of the response handler

vars == <<handlers, call, invoked, answered>>

Init ==
  /\ handlers = [n \in Nodes |-> {}]
  /\ call = [r \in Reqs |-> None]
  /\ invoked = [r \in Reqs |-> 0]
  /\ answered = [r \in Reqs |-> 0]

Register(n, a) ==
  /\ handlers' = [handlers EXCEPT ![n] = @ \cup {a}]
  /\ UNCHANGED <<call, invoked, answered>>

Issue(r, n, a) ==
  /\ call[r] = None
  /\ call' = [call EXCEPT ![r] = [node |-> n, address |-> a]]
  /\ UNCHANGED <<handlers, invoked, answered>>

CanServe(r) ==
  /\ call[r] # None /\ invoked[r] = 0
  /\ \E n \in Nodes : call[r].address \in handlers[n]

Serve(r) ==
  /\ CanServe(r)
  /\ invoked' = [invoked EXCEPT ![r] = 1]
  /\ UNCHANGED <<handlers, call, answered>>

Answer(r) ==
  /\ invoked[r] = 1 /\ answered[r] = 0
  /\ answered' = [answered EXCEPT ![r] = 1]
  /\ UNCHANGED <<handlers, call, invoked>>

\* Consumer and response handler in one process, on one thread.
ServeAndAnswer(r) ==
  /\ CanServe(r) /\ answered[r] = 0
  /\ invoked' = [invoked EXCEPT ![r] = 1]
  /\ answered' = [answered EXCEPT ![r] = 1]
  /\ UNCHANGED <<handlers, call>>

Next ==
  \/ \E n \in Nodes, a \in Addrs : Register(n, a) \/ \E r \in Reqs : Issue(r, n, a)
  \/ \E r \in Reqs : Serve(r) \/ Answer(r) \/ ServeAndAnswer(r)

Spec == Init /\ [][Next]_vars

=============================================================================
