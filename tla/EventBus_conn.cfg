SPECIFICATION Spec
CONSTANTS
  Nodes = {n1, n2}
  Addrs = {a1}
  PingAddrs = {}
  Reqs = {r1, r2}
  Mortal = {}
  Loops = {l1}
  Strays = {junk}
  None = None
INVARIANT SendsOverTcp
CHECK_DEADLOCK FALSE
