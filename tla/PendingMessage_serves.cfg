SPECIFICATION FairSpec
CONSTANTS
  m1 = m1
  m2 = m2
  Messages = {m1}
  Senders = {s1}
  Drainers = {d1, d2, d3}
  NoFile = NoFile
  Queued <- NoneQueued
  MAX_RETRIES = 2
  MAX_DEATHS = 1
INVARIANTS PTypeOK DeliveredOnce
PROPERTY QueueIsDrained
