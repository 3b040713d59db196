SPECIFICATION FairSpec
CONSTANTS
  Nodes = {n1, n2}
  Addrs = {a1}
  PingAddrs = {}
  Reqs = {r1, r2}
  Mortal = {}
  Loops = {l1}
  Strays = {junk}
  None = None
CONSTRAINTS OneFrameCut NoLocalConsumer
PROPERTY RequestsSettle
CHECK_DEADLOCK FALSE
