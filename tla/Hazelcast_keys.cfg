SPECIFICATION FairSpec
CONSTANTS
  n1 = n1
  a1 = a1
  Nodes = {n1, n2}
  Addrs = {a1, a2}
  Offers <- SplitOffers
  Mortal = {n1}
  MaxRemovals = 1
  MaxCalls = 1
  None = None
INVARIANTS OnlyRegistered
PROPERTIES ImplementsDirectory SelfHeals
CHECK_DEADLOCK FALSE
