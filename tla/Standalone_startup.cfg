SPECIFICATION Spec
CONSTANTS
  Addrs = {a1}
  Reqs = {r1}
  Loops = {l1}
  Base = base
  Self = self
  None = None
  MaxBridge = 1
INVARIANT StartupSafe
CHECK_DEADLOCK FALSE
