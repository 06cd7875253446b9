SPECIFICATION FairSpec
CONSTANTS
  GRACE = 1
  SLEEP_GAP = 1
  MAX_FRUITLESS = 1
  TOTAL = 2
  MAX_GAP = 2
  MAX_FAULTS = 1
INVARIANTS VTypeOK WokenCapped
PROPERTIES StrandedIsServed
