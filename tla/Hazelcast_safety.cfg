SPECIFICATION Spec
CONSTANTS
  n1 = n1
  a1 = a1
  Nodes = {n1, n2}
  Addrs = {a1}
  Offers <- AllOffers
  Mortal = {}
  MaxRemovals = 2
  MaxCalls = 1
  None = None
SYMMETRY Symmetry
INVARIANTS TypeOK Converged
CHECK_DEADLOCK FALSE
