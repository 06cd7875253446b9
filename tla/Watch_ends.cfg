SPECIFICATION AwakeSpec
CONSTANTS
  Timers = {t1, t2}
  Creator = c
  Sweepers = {w1, w2}
  Movers = {v1}
  NoRecord = NoRecord
  STRANDED = 1
  EXPECT = 2
  TIMEOUT = 2
  GENERATIONS = 2
  MAX_CRASHES = 1
INVARIANTS WTypeOK OneFirePerRecord
PROPERTIES GoneStaysGone WatchEnds
