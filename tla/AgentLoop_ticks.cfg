SPECIFICATION AwakeSpec
CONSTANTS
  Timers = {t1, t2}
  Creator = c
  Sweepers = {w1}
  Editors = {e1}
  NoRecord = NoRecord
  Gated = TRUE
  INTERVAL = 1
  MAX_ITERATIONS = 2
  STRANDED = 1
  GENERATIONS = 3
  MAX_CRASHES = 1
INVARIANT LTypeOK
PROPERTIES CeilingIfSerialised StoppedForGood TickIsTaken
