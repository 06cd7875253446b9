--------------------------- MODULE SessionDriver ---------------------------
(***************************************************************************)
(* The drive lease at work on one session: everybody who may resume the    *)
(* session (agent_source::resume_session), the store they arbitrate        *)
(* through (session_driver.rs), and the turn processes they start.         *)
(*                                                                         *)
(* Every operation on the store is one action: with_state holds the store  *)
(* lock from load to write.  What the code does before it takes that lock  *)
(* (the retired check, the reading of the other stores) and after it       *)
(* (starting the process, waiting for one to end) are actions of their     *)
(* own, so any two dispatches interleave between them.                     *)
(***************************************************************************)
EXTENDS DriveStore

CONSTANTS
  Classes,         \* the classes dispatches ask with in this instance
  IntentKinds,     \* [class, yields] of the intents registered in this instance
  DerivedClasses,  \* the classes of derived intents in this instance
  VisibleWithin    \* a started process is in the process table within this

ASSUME VisibleAssumption ==
  /\ Classes \subseteq DriverClass \ {"takeover"}
  /\ IntentKinds \subseteq [class : DriverClass \ {"takeover"}, yields : BOOLEAN]
  /\ DerivedClasses \subseteq {"answer", "continue"}
  /\ VisibleWithin \in Nat /\ VisibleWithin < SPAWN_GRACE

VARIABLES
  running,   \* DriveState.running
  pending,   \* DriveState.pending
  derived,   \* classes of the intents other stores imply right now
  retired,   \* a takeover or handoff record names a successor
  slot,      \* slot[a]: the dispatch running in slot a
  proc,      \* proc[a]: the turn process slot a started
  user       \* an interactive process, started outside Fleet, is running

store == <<running, pending>>
vars == <<running, pending, derived, retired, slot, proc, user>>

-----------------------------------------------------------------------------
\* check, derive, acquire: in resume_session, before the lease.
\* endidle, wait:          end_idle_turn_then_acquire.
\* spawn:                  holds the lease, source.resume not returned yet.
\* running:                process started, the lease rides in its on_exit.
\* release:                the Lease value is being dropped.
\* orphan:                 the holder died, its child process did not.
SlotPC == {"idle", "check", "derive", "acquire", "endidle", "wait", "spawn",
           "running", "release", "orphan"}

Dispatch == [pc : SlotPC, host : Procs \cup {NoHolder}, class : DriverClass \ {"takeover"},
             own : Tokens \cup {NoToken}, seen : SUBSET DriverClass,
             again : BOOLEAN]

\* hidden: started, not in the process table yet.  The rest are visible: before
\* its result, after it (only background commands keep it alive), signalled.
ProcState == {"none", "hidden", "working", "idle", "ending"}

TypeOK ==
  /\ running \in RunningLease \cup {NoLease}
  /\ pending \in SUBSET PendingIntent
  /\ derived \in SUBSET DriverClass
  /\ retired \in BOOLEAN
  /\ slot \in [Slots -> Dispatch]
  /\ proc \in [Slots -> ProcState]
  /\ user \in BOOLEAN

NoDispatch == [pc |-> "idle", host |-> NoHolder,
               class |-> "continue", own |-> NoToken, seen |-> {},
               again |-> FALSE]

Init ==
  /\ running = NoLease
  /\ pending = {}
  /\ derived = {}
  /\ retired = FALSE
  /\ slot = [a \in Slots |-> NoDispatch]
  /\ proc = [a \in Slots |-> "none"]
  /\ user = FALSE

\* parked::session_alive: the session's process is in the process table.
Visible(a) == proc[a] \in {"working", "idle", "ending"}
SessionAlive == user \/ \E a \in Slots : Visible(a)

\* The store as with_state hands it to its closure.
OpenRunning == DropStale(running, SessionAlive)
OpenPending == Prune(pending)

Goto(a, pc) == slot' = [slot EXCEPT ![a].pc = pc]
Finish(a) == slot' = [slot EXCEPT ![a] = NoDispatch]
\* A uuid: not in the store, not in anybody's hands.
FreshToken(t) == t \notin { p.token : p \in OpenPending } \cup { slot[a].own : a \in Slots }
-----------------------------------------------------------------------------
\* Some mechanism in process h asks to resume the session; own is the token of
\* the intent it registered for it, if it registered one.
Request(a, h, class, own) ==
  /\ slot[a].pc = "idle"
  /\ slot' = [slot EXCEPT ![a] =
       [pc |-> "check", host |-> h, class |-> class, own |-> own, seen |-> {}, again |-> FALSE]]
  /\ UNCHANGED <<running, pending, derived, retired, proc, user>>

\* refuse_if_retired: only the user may still resume a session that was replaced.
CheckRetired(a) ==
  /\ slot[a].pc = "check"
  /\ IF slot[a].class # "manual" /\ retired THEN Finish(a) ELSE Goto(a, "derive")
  /\ UNCHANGED <<running, pending, derived, retired, proc, user>>

\* acquire_with, before the lock: read the parked cards, the queue, the watches.
ReadDerived(a) ==
  /\ slot[a].pc = "derive"
  /\ slot' = [slot EXCEPT ![a] = [@ EXCEPT !.pc = "acquire", !.seen = derived]]
  /\ UNCHANGED <<running, pending, derived, retired, proc, user>>

Free(a) ==
  /\ ~InTheWay(OpenRunning, SessionAlive)
  /\ ~Blocked(OpenPending, slot[a].seen, slot[a].class, slot[a].own)

Grant(a) ==
  /\ slot[a].pc = "acquire"
  /\ Free(a)
  /\ running' = Lease(a)
  /\ pending' = Surviving(OpenPending, slot[a].own)
  /\ Goto(a, "spawn")
  /\ UNCHANGED <<derived, retired, proc, user>>

\* A manual resume refused because a turn is in flight may end that turn, once.
MayEndIdle(a) ==
  /\ slot[a].class = "manual"
  /\ ~slot[a].again
  /\ InTheWay(OpenRunning, SessionAlive)

Refuse(a) ==
  /\ slot[a].pc = "acquire"
  /\ ~Free(a)
  /\ running' = IF RunningLive(OpenRunning, SessionAlive) THEN OpenRunning ELSE NoLease
  /\ pending' = OpenPending
  /\ IF MayEndIdle(a) THEN Goto(a, "endidle") ELSE Finish(a)
  /\ UNCHANGED <<derived, retired, proc, user>>

\* The host ends claude when its turn is over, under the host's own lock; any
\* other answer (still working, no live host) refuses the resume.
EndIdleTurn(a) ==
  /\ slot[a].pc = "endidle"
  /\ \/ \E b \in Slots :
          /\ proc[b] = "idle"
          /\ proc' = [proc EXCEPT ![b] = "ending"]
          /\ Goto(a, "wait")
     \/ Finish(a) /\ UNCHANGED proc
  /\ UNCHANGED <<running, pending, derived, retired, user>>

\* Polls for the process to go, at most END_IDLE_EXIT_WAIT, then asks again.
WaitForExit(a) ==
  /\ slot[a].pc = "wait"
  /\ slot' = [slot EXCEPT ![a] = [@ EXCEPT !.pc = "derive", !.again = TRUE]]
  /\ UNCHANGED <<running, pending, derived, retired, proc, user>>
-----------------------------------------------------------------------------
\* source.resume: the child process is started, or an error drops the callback.
Spawn(a) ==
  /\ slot[a].pc = "spawn"
  /\ proc' = [proc EXCEPT ![a] = "hidden"]
  /\ Goto(a, "running")
  /\ UNCHANGED <<running, pending, derived, retired, user>>

SpawnFails(a) ==
  /\ slot[a].pc = "spawn"
  /\ Goto(a, "release")
  /\ UNCHANGED <<running, pending, derived, retired, proc, user>>

\* The turn process: its argv becomes visible, it produces its result, a
\* background command wakes it up again.
Advance(a) ==
  /\ \/ proc[a] = "hidden" /\ proc' = [proc EXCEPT ![a] = "working"]
     \/ proc[a] = "working" /\ proc' = [proc EXCEPT ![a] = "idle"]
     \/ proc[a] = "idle" /\ proc' = [proc EXCEPT ![a] = "working"]
  /\ UNCHANGED <<running, pending, derived, retired, slot, user>>

\* The process ends, at any point; a reaper that is still there goes on to drop
\* the lease.
Exit(a) ==
  /\ proc[a] # "none"
  /\ proc' = [proc EXCEPT ![a] = "none"]
  /\ IF slot[a].pc = "orphan" THEN Finish(a) ELSE Goto(a, "release")
  /\ UNCHANGED <<running, pending, derived, retired, user>>

\* Mutant: whatever lease is on record is taken off.
ReleaseAny(a) ==
  /\ slot[a].pc = "release"
  /\ running' = NoLease
  /\ pending' = OpenPending
  /\ Finish(a)
  /\ UNCHANGED <<derived, retired, proc, user>>

\* Lease::drop: only the lease that carries the own token is taken off.
Release(a) ==
  /\ slot[a].pc = "release"
  /\ running' = IF OpenRunning # NoLease /\ OpenRunning.token = a
                THEN NoLease ELSE OpenRunning
  /\ pending' = OpenPending
  /\ Finish(a)
  /\ UNCHANGED <<derived, retired, proc, user>>
-----------------------------------------------------------------------------
\* register_pending and withdraw_pending by process h.
Register(h, t, kind) ==
  /\ FreshToken(t)
  /\ running' = OpenRunning
  /\ pending' = OpenPending \cup {[token |-> t, class |-> kind.class, holder |-> h,
                                   ttl |-> INTENT_TTL, yields |-> kind.yields]}
  /\ UNCHANGED <<derived, retired, slot, proc, user>>

Withdraw(t) ==
  /\ running' = OpenRunning
  /\ pending' = { p \in OpenPending : p.token # t }
  /\ UNCHANGED <<derived, retired, slot, proc, user>>

\* pending_held, snapshot, reservation, turn_in_flight and the sweep: with_state
\* writes back what it pruned even though the closure only reads.
Observe ==
  /\ running' = OpenRunning
  /\ pending' = OpenPending
  /\ UNCHANGED <<derived, retired, slot, proc, user>>

\* acquire_takeover with the derived intents seen: leave a hold, no lease.
TakeoverFree(seen) ==
  /\ ~InTheWay(OpenRunning, SessionAlive)
  /\ ~Blocked(OpenPending, seen, "takeover", NoToken)

HoldForTakeover(seen, t) ==
  /\ TakeoverFree(seen)
  /\ FreshToken(t)
  /\ running' = NoLease
  /\ pending' = OpenPending \cup {TakeoverHold(t)}
  /\ UNCHANGED <<derived, retired, slot, proc, user>>

\* record_takeover.
Retire ==
  /\ retired' = TRUE
  /\ UNCHANGED <<running, pending, derived, slot, proc, user>>
-----------------------------------------------------------------------------
\* The other stores (parked cards, message queue, watches) change on their own:
\* a turn parks its card before it is interrupted, recover_orphaned_response
\* parks one for a dead session, messages and watches come at any time.
DerivedChanges ==
  /\ \E c \in DerivedClasses :
       derived' = (derived \ {c}) \cup ({c} \ derived)
  /\ UNCHANGED <<running, pending, retired, slot, proc, user>>

UserStarts == ~user /\ user' = TRUE
              /\ UNCHANGED <<running, pending, derived, retired, slot, proc>>
UserExits == user /\ user' = FALSE
             /\ UNCHANGED <<running, pending, derived, retired, slot, proc>>

\* Process h dies (and may be started again): its dispatches stop where they
\* are, its reapers with them; the turns it started go on.
Crash(h) ==
  /\ slot' = [a \in Slots |->
       CASE slot[a].host # h \/ slot[a].pc = "idle" -> slot[a]
         [] slot[a].host = h /\ slot[a].pc # "idle" /\ proc[a] # "none" ->
              [NoDispatch EXCEPT !.pc = "orphan", !.host = h]
         [] OTHER -> NoDispatch]
  /\ pending' = { IF p.holder = h THEN [p EXCEPT !.holder = Gone] ELSE p : p \in pending }
  /\ UNCHANGED <<running, derived, retired, proc, user>>

\* A unit of time passes; the caps lose nothing, see RunningLive and Prune.  The
\* code's premise about SPAWN_GRACE_MS: a turn that was granted is in the
\* process table before its lease is VisibleWithin old.
StillHidden(a) == slot[a].pc = "spawn" \/ proc[a] = "hidden"

\* Mutant: the time left is subtracted without a floor.
TickBelowZero ==
  /\ running # NoLease /\ StillHidden(running.token) => running.age < VisibleWithin
  /\ running' = IF running # NoLease /\ running.age < RUNNING_MAX
                THEN [running EXCEPT !.age = @ + 1] ELSE running
  /\ pending' = { [p EXCEPT !.ttl = @ - 1] : p \in pending }
  /\ UNCHANGED <<derived, retired, slot, proc, user>>

Tick ==
  /\ running # NoLease /\ StillHidden(running.token) => running.age < VisibleWithin
  /\ running' = IF running # NoLease /\ running.age < RUNNING_MAX
                THEN [running EXCEPT !.age = @ + 1] ELSE running
  /\ pending' = { IF p.ttl > 0 THEN [p EXCEPT !.ttl = @ - 1] ELSE p : p \in pending }
  /\ UNCHANGED <<derived, retired, slot, proc, user>>
-----------------------------------------------------------------------------
\* Slot a holds the right to drive: from the grant until its process is gone.
Driving(a) == slot[a].pc = "spawn" \/ proc[a] # "none"

\* The token that goes along may be one that is no longer in the store.
Requests(a) ==
  \E h \in Procs, c \in Classes, own \in Tokens \cup {NoToken} : Request(a, h, c, own)

Resume(a) ==
  \/ CheckRetired(a) \/ ReadDerived(a) \/ Grant(a) \/ Refuse(a)
  \/ EndIdleTurn(a) \/ WaitForExit(a)
  \/ Spawn(a) \/ SpawnFails(a) \/ Advance(a) \/ Exit(a) \/ Release(a)

SlotStep(a) == Requests(a) \/ Resume(a)

\* The store used without a dispatch.
StoreStep ==
  \/ \E h \in Procs, t \in Tokens, k \in IntentKinds : Register(h, t, k)
  \/ \E t \in Tokens : Withdraw(t)
  \/ \E t \in HoldTokens, seen \in SUBSET DerivedClasses : HoldForTakeover(seen, t)
  \/ Observe
  \/ Retire

Environment ==
  DerivedChanges \/ UserStarts \/ UserExits \/ Tick \/ \E h \in Procs : Crash(h)

Next == (\E a \in Slots : SlotStep(a)) \/ StoreStep \/ Environment

Spec == Init /\ [][Next]_vars

(* Time passes; the store is looked at again and again (every acquire, and     *)
(* the reviver's reservation() per pass); a started turn shows up; the thread  *)
(* that holds a lease gets on with starting the process.  Nothing is assumed   *)
(* about turns ending, reapers running or requests being made.                 *)
Fairness ==
  /\ WF_vars(Tick)
  /\ WF_vars(Observe)
  /\ \A a \in Slots : WF_vars(Spawn(a) \/ SpawnFails(a)) /\ WF_vars(Advance(a))

FairSpec == Spec /\ Fairness
-----------------------------------------------------------------------------
(* Two Fleet-started turns never run on the session at the same time, counting *)
(* from the grant until the process is gone: through crashes of the holder,    *)
(* leases that healed, late reapers and manual resumes that end an idle turn.  *)
OneTurn == \A a, b \in Slots : Driving(a) /\ Driving(b) => a = b

(* While a turn's process is still out of sight the store carries that turn's  *)
(* own lease, young enough to count on its own (blind spot B).                 *)
HiddenIsLeased ==
  \A a \in Slots : StillHidden(a) =>
    running # NoLease /\ running.token = a /\ running.age <= VisibleWithin

(* Nobody else takes the lease off a turn in flight: not the reaper of an      *)
(* earlier turn, not a sweep, a refusal or a takeover, until RUNNING_MAX.      *)
LeaseKept ==
  [][\A a \in Slots :
       /\ running # NoLease /\ running.token = a /\ running.age < RUNNING_MAX
       /\ Driving(a) /\ Driving(a)'
       => running' # NoLease /\ running'.token = a]_vars

(* Two takeovers never hold the session at once, so a second reviver arriving  *)
(* while the first one starts the successor is turned away.                    *)
OneTakeover ==
  \A p, q \in Prune(pending) : p.class = "takeover" /\ q.class = "takeover" => p = q

(* A lease nobody is left to release, its holder dead or its process never     *)
(* started, is dropped in the end instead of wedging the session.              *)
Leaked == /\ running # NoLease
          /\ ~Driving(running.token)
          /\ slot[running.token].pc # "release"

LeaseHeals == []<>~Leaked

(* The lease implements the abstract promise of OneDriver.                     *)
Abstract == INSTANCE OneDriver
  WITH Drivers <- Slots, driving <- { a \in Slots : Driving(a) }
ImplementsOneDriver == Abstract!Spec
=============================================================================
