SPECIFICATION Spec
CONSTANTS
  Nodes = {n1, n2}
  Addrs = {a1, a2}
  PingAddrs = {a2}
  Reqs = {r1}
  Mortal = {}
  Loops = {l1}
  Strays = {junk}
  None = None
INVARIANT PingStaysHome
CHECK_DEADLOCK FALSE
