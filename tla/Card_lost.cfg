SPECIFICATION Spec
CONSTANTS
  Clients = {c1}
  Sweepers = {}
  Drainers = {d1}
  Nobody = Nobody
  MAX_WAKES = 1
  MAX_CRASHES = 0
CHECK_DEADLOCK FALSE
INVARIANT SwapKeeps

