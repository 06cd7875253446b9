SPECIFICATION FairSpec
CONSTANTS
  Clients = {c1}
  Sweepers = {s1}
  Drainers = {d1}
  Nobody = Nobody
  MAX_WAKES = 1
  MAX_CRASHES = 1
CHECK_DEADLOCK FALSE
INVARIANTS CTypeOK OneDelivery CardKept
PROPERTY AnswerSwept
