SPECIFICATION RFairSpec
CONSTANTS
  Slots = {a1, a2}
  Tokens = {t1}
  HoldTokens = {k1}
  Procs = {p1}
  NoLease = NoLease
  NoToken = NoToken
  NoHolder = NoHolder
  Gone = Gone
  SPAWN_GRACE = 1
  RUNNING_MAX = 2
  TAKEOVER_HOLD = 1
  INTENT_TTL = 1
  VisibleWithin = 0
  MAX_RETRIES = 2
  DEBOUNCE = 1
  MAX_CRASHES = 1
  Classes = {"continue", "answer"}
  OtherClasses = {"answer"}
  OtherSlots = {a2}
  IntentKinds <- RetryIntents
  DerivedClasses = {}
INVARIANT RTypeOK
PROPERTIES ThroughTheLease RetryServed
