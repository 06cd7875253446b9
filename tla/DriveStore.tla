----------------------------- MODULE DriveStore -----------------------------
(***************************************************************************)
(* The drive store of claw-fleet-core/src/session_driver.rs: the record    *)
(* ~/.fleet/drive/<session>.json of ONE session, and the pure judgements   *)
(* the code makes about it (running_live, prune_pending, decide).          *)
(*                                                                         *)
(* Abstractions:                                                           *)
(*  - a stamp is kept as the age it has, or the time it has left, now; a   *)
(*    unit of time is whatever the constants below are counted in;         *)
(*  - the token of a Running lease names the dispatch that took it; the    *)
(*    uuid tokens of intents are the members of Tokens;                    *)
(*  - an intent's (holder_pid, holder_start_time) is its holder process,   *)
(*    NoHolder for pid 0, or Gone once that incarnation has died;          *)
(*  - mechanism names and reasons are wording and are left out.            *)
(***************************************************************************)
EXTENDS Integers, FiniteSets

CONSTANTS
  Slots,           \* dispatches of a resume: thread, child process and reaper
  Tokens,          \* tokens of registered intents
  HoldTokens,      \* tokens of takeover holds
  Procs,           \* Fleet processes (desktop app, serve, CLI timers)
  NoLease,         \* running: None
  NoToken,         \* own_pending: None
  NoHolder,        \* holder_pid = 0
  Gone,            \* a holder process that is no longer alive
  SPAWN_GRACE,     \* SPAWN_GRACE_MS
  RUNNING_MAX,     \* RUNNING_MAX_MS
  TAKEOVER_HOLD,   \* TAKEOVER_HOLD_MS
  INTENT_TTL       \* PendingSpec.ttl_ms

ASSUME DurationAssumption ==
  /\ SPAWN_GRACE \in Nat \ {0}
  /\ RUNNING_MAX \in Nat /\ SPAWN_GRACE < RUNNING_MAX
  /\ TAKEOVER_HOLD \in Nat \ {0}
  /\ INTENT_TTL \in Nat \ {0}

ASSUME NullAssumption ==
  /\ NoToken \notin Tokens \cup HoldTokens /\ Tokens \cap HoldTokens = {}
  /\ NoLease \notin [token : Slots, age : 0..RUNNING_MAX]
  /\ NoHolder \notin Procs /\ Gone \notin Procs /\ NoHolder # Gone

-----------------------------------------------------------------------------
DriverClass == {"takeover", "continue", "answer", "manual"}

\* The derived order of the enum: Takeover < Continue < Answer < Manual.
Rank == [takeover |-> 0, continue |-> 1, answer |-> 2, manual |-> 3]

RunningLease == [token : Slots, age : 0..RUNNING_MAX]

MaxTtl == IF TAKEOVER_HOLD > INTENT_TTL THEN TAKEOVER_HOLD ELSE INTENT_TTL

PendingIntent ==
  [token : Tokens \cup HoldTokens, class : DriverClass, holder : Procs \cup {NoHolder, Gone},
   ttl : 0..MaxTtl, yields : BOOLEAN]

\* Mutant: the lease is not believed before its process shows up.
RunningLiveOnceSeen(r, alive) == r # NoLease /\ r.age < RUNNING_MAX /\ alive
\* Mutant: nobody drops a lease its holder did not release.
KeepStale(r, alive) == r
\* Mutant: a lease past its grace goes, whether its process runs or not.
DropPastGrace(r, alive) == IF r # NoLease /\ r.age >= SPAWN_GRACE THEN NoLease ELSE r
\* Mutant: only the process table is asked.
ProcessInTheWay(r, alive) == alive
\* Mutant: a takeover is compared by class like everybody else.
BlockedByHigher(P, seen, class, own) ==
  \E c \in { p.class : p \in { q \in P : q.token # own } } \cup seen : Rank[c] > Rank[class]

\* Is lease r still holding, given whether the session's process is visible?
RunningLive(r, alive) ==
  /\ r # NoLease
  /\ r.age < RUNNING_MAX
  /\ r.age < SPAWN_GRACE \/ alive

\* Intents that neither expired nor lost their holder process.
Prune(P) == { p \in P : p.ttl > 0 /\ p.holder # Gone }

\* What with_state leaves of the Running lease before the caller's closure runs.
DropStale(r, alive) ==
  IF r # NoLease /\ r.age >= SPAWN_GRACE /\ ~RunningLive(r, alive)
  THEN NoLease ELSE r

\* A turn is in flight: Refusal::Running or Refusal::ProcessAlive.
InTheWay(r, alive) == RunningLive(r, alive) \/ alive

Others(P, own) == { p \in P : p.token # own }

\* Refusal::Pending: P is the pruned store, seen the classes of the intents
\* derived from other stores, own the caller's own token.
Blocked(P, seen, class, own) ==
  \E c \in { p.class : p \in Others(P, own) } \cup seen :
    class = "takeover" \/ Rank[c] > Rank[class]

\* The intents a granted turn leaves standing: its own is consumed, and those
\* that only wanted the turn restarted are revoked.
Surviving(P, own) == { p \in Others(P, own) : ~p.yields }

Lease(a) == [token |-> a, age |-> 0]

TakeoverHold(t) ==
  [token |-> t, class |-> "takeover", holder |-> NoHolder,
   ttl |-> TAKEOVER_HOLD, yields |-> FALSE]
=============================================================================
