SPECIFICATION AwakeSpec
CONSTANTS
  Timers = {t1, t2}
  Creator = c
  Sweepers = {w1}
  Editors = {e1}
  NoRecord = NoRecord
  Gated = TRUE
  AHEAD = 2
  GATE_TIMEOUT = 2
  STRANDED = 1
  GENERATIONS = 3
  MAX_CRASHES = 1
INVARIANTS STypeOK OnceIfSerialised
PROPERTIES SettledForGood ScheduleEnds
