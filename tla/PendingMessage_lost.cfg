SPECIFICATION Spec
CONSTANTS
  m1 = m1
  m2 = m2
  Messages = {m1, m2}
  Senders = {}
  Drainers = {d1, d2}
  NoFile = NoFile
  Queued <- TwoQueued
  MAX_RETRIES = 1
  MAX_DEATHS = 1
INVARIANT NothingLost
