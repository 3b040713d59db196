SPECIFICATION Spec
CONSTANTS
  Nodes = {n1, n2}
  Addrs = {a1}
  PingAddrs = {}
  Reqs = {r1}
  Mortal = {}
  Loops = {l1}
  Strays = {junk}
  None = None
INVARIANT ReplyBodyDelivered
CHECK_DEADLOCK FALSE
