SPECIFICATION Spec
CONSTANTS
  Nodes = {n1, n2}
  Addrs = {a1}
  PingAddrs = {}
  Reqs = {r1, r2}
  Mortal = {n1, n2}
  Loops = {l1, l2}
  Strays = {junk}
  None = None
SYMMETRY Symmetry
CONSTRAINT OneFrameCut
INVARIANTS TypeOK NoUnknownConsumer ConsumersKnown NoUnexpectedReply CallbacksOwed NothingForgotten RequestsAccounted
PROPERTY ImplementsRequestReply
CHECK_DEADLOCK FALSE
