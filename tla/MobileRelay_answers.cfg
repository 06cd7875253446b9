SPECIFICATION FairSpec
CONSTANTS
  Phones = {p1}
  Hosts = {app, serve}
  Desktop = app
  Conns = {c1, c2}
  Nobody = nobody
  ANSWER_MAX_ATTEMPTS = 2
  OUT_QUEUE_CAP = 1
  MAX_PENDING = 1
  MAX_FAULTS = 1
INVARIANTS MTypeOK Custody SuccessIsTrue
PROPERTIES QueuedIsServed DoublesEnd
CHECK_DEADLOCK FALSE
