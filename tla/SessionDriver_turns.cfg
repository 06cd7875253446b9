SPECIFICATION FairSpec
CONSTANTS
  Slots = {a1, a2}
  Tokens = {t1}
  HoldTokens = {h1, h2}
  Procs = {p1}
  NoLease = NoLease
  NoToken = NoToken
  NoHolder = NoHolder
  Gone = Gone
  SPAWN_GRACE = 1
  RUNNING_MAX = 2
  TAKEOVER_HOLD = 1
  INTENT_TTL = 1
  VisibleWithin = 0
  Classes = {"continue", "manual"}
  IntentKinds <- RetryIntents
  DerivedClasses = {"answer"}
INVARIANTS TypeOK OneTurn HiddenIsLeased OneTakeover
PROPERTIES LeaseKept ImplementsOneDriver LeaseHeals
