SPECIFICATION HSpec
CONSTANTS
  Sessions = {s1, s2, s3}
  First = s1
  Consumers = {c1, c2}
  MAX_CHAIN_HOPS = 2
  MAX_FAILURES = 1
CHECK_DEADLOCK FALSE
INVARIANTS OneHeir ChainsAreTrue RelayCapped
