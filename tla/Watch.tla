------------------------------- MODULE Watch -------------------------------
(***************************************************************************)
(* claw-fleet-core/src/watch.rs: ONE watch, the record it keeps on disk    *)
(* and the processes that share it: detached timers that poll its          *)
(* condition and fire it, the sweeps that re-arm it when its heartbeat     *)
(* stops, the handoff that moves it to a successor, and `watch stop`.      *)
(*                                                                         *)
(* Heartbeats, claims and stops run under the store lock; the sweep, the   *)
(* handoff and the check-in read and write back without it, so reading and *)
(* writing are separate actions.                                           *)
(*                                                                         *)
(* A unit of time is the longest nap between two polls (POLL_CAP_MS).  The *)
(* session is reduced to whether it runs and is blocked on the user; the   *)
(* lease that grants a resume is SessionDriver's.  Left out: session       *)
(* targets, progress samples, poll statistics, unreadable records.         *)
(***************************************************************************)
EXTENDS Naturals, FiniteSets

CONSTANTS
  Timers,        \* timer processes that can exist at once (a bound)
  Creator,       \* the process that created the watch, about to arm it
  Sweepers,      \* callers of reconcile: tickers, Stop hooks
  Movers,        \* handoffs of the session, one transfer each
  NoRecord,      \* the record file does not exist
  STRANDED,      \* STRANDED_GRACE_MS
  EXPECT,        \* expect_by
  TIMEOUT,       \* deadline_at
  GENERATIONS,   \* the generation counter wraps here (u64 in the code)
  MAX_CRASHES    \* processes that may die (a bound)

ASSUME WatchAssumption ==
  /\ STRANDED \in Nat /\ TIMEOUT \in Nat /\ EXPECT \in 0..TIMEOUT
  /\ GENERATIONS \in Nat \ {0} /\ MAX_CRASHES \in Nat
  /\ Creator \notin Sweepers \cup Movers /\ Sweepers \cap Movers = {}

WatchRecord == [gen : 0..GENERATIONS-1, beat : 0..STRANDED+1, checked : BOOLEAN]

ASSUME NoRecordAssumption == NoRecord \notin WatchRecord

VARIABLES
  rec,       \* <watch>.json; beat is the age of last_poll_at, kept up to STRANDED+1
  now,       \* time since the watch was created, up to its deadline
  timer,     \* timer[t]: a `fleet watch fire` process
  writer,    \* writer[w]: a creator, sweep or handoff at work on the record
  alive,     \* the session has a turn in flight
  blocked,   \* that turn waits for the user on a card that cannot step aside
  crashes,   \* processes that died so far
  fires,     \* fires granted so far, counted up to two
  back       \* the record came back after it had been removed

session == <<alive, blocked>>
ghosts == <<fires, back>>
vars == <<rec, now, timer, writer, session, crashes, ghosts>>

-----------------------------------------------------------------------------
\* nap: to read the record; sleep: until the next nap ends; probe: the until
\* command runs; unlink, beat: in the store lock; mark: check-in read, not yet
\* written; defer, cut, resume: delivering an event or a check-in.
TimerPC == {"none", "sleep", "nap", "probe", "claim", "unlink", "touch", "beat",
            "checkin", "mark", "defer", "cut", "resume"}

Timer == [pc : TimerPC, gen : 0..GENERATIONS-1, due : BOOLEAN,
          copy : WatchRecord \cup {NoRecord}]

Writers == {Creator} \cup Sweepers \cup Movers
Writer == [pc : {"idle", "write", "arm", "done"}, copy : WatchRecord \cup {NoRecord}]

WTypeOK ==
  /\ rec \in WatchRecord \cup {NoRecord}
  /\ now \in 0..TIMEOUT
  /\ timer \in [Timers -> Timer]
  /\ writer \in [Writers -> Writer]
  /\ alive \in BOOLEAN /\ blocked \in BOOLEAN
  /\ crashes \in 0..MAX_CRASHES
  /\ fires \in 0..2 /\ back \in BOOLEAN

NewRecord == [gen |-> 0, beat |-> 0, checked |-> FALSE]
NoTimer == [pc |-> "none", gen |-> 0, due |-> FALSE, copy |-> NoRecord]

Init ==
  /\ rec = NewRecord
  /\ now = 0
  /\ timer = [t \in Timers |-> NoTimer]
  /\ writer = [w \in Writers |-> IF w = Creator THEN [pc |-> "arm", copy |-> NewRecord]
                                                ELSE [pc |-> "idle", copy |-> NoRecord]]
  /\ alive = TRUE /\ blocked = FALSE
  /\ crashes = 0 /\ fires = 0 /\ back = FALSE

Expired == now = TIMEOUT
Once(n) == IF n < 2 THEN n + 1 ELSE n

\* Mutant: a heartbeat does without the store lock.
LockedByClaims == \E t \in Timers : timer[t].pc = "unlink"

\* Somebody is inside with_store_lock.
Locked == \E t \in Timers : timer[t].pc \in {"unlink", "beat"}

At(t, pc) == timer[t].pc = pc
Goto(t, pc) == timer' = [timer EXCEPT ![t].pc = pc]
Die(t) == timer' = [timer EXCEPT ![t] = NoTimer]
Current(t) == rec # NoRecord /\ rec.gen = timer[t].gen
Copy(t, pc, r) == timer' = [timer EXCEPT ![t] = [@ EXCEPT !.pc = pc, !.copy = r]]

\* Writing the record, whether it is there or not.
Put(r) == rec' = r /\ back' = (back \/ rec = NoRecord)
-----------------------------------------------------------------------------
\* Mutant: the deadline is looked at once the probe came back.
WakeToProbe(t) ==
  /\ timer[t].pc \in {"sleep", "nap"}
  /\ IF ~Current(t) THEN Die(t)
     ELSE timer' = [timer EXCEPT ![t] = [@ EXCEPT !.pc = "probe",
                                           !.due = ~rec.checked /\ now >= EXPECT]]
  /\ UNCHANGED <<rec, now, writer, session, crashes, ghosts>>

\* run_timer_blocking reads the record and decides: gone or superseded, past the
\* deadline, or probe the condition first.
Wake(t) ==
  /\ timer[t].pc \in {"sleep", "nap"}
  /\ IF ~Current(t) THEN Die(t)
     ELSE timer' = [timer EXCEPT ![t] =
            [@ EXCEPT !.pc = IF Expired THEN "claim" ELSE "probe",
                      !.due = ~Expired /\ ~rec.checked /\ now >= EXPECT]]
  /\ UNCHANGED <<rec, now, writer, session, crashes, ghosts>>

\* The until command comes back, if it ever does: met or not.
Probe(t) ==
  /\ At(t, "probe")
  /\ \/ timer' = [timer EXCEPT ![t] = [@ EXCEPT !.pc = "claim", !.due = FALSE]]
     \/ Goto(t, "touch")
  /\ UNCHANGED <<rec, now, writer, session, crashes, ghosts>>

\* claim_fire_locked: the record must be there at the timer's generation.
Claim(t) ==
  /\ At(t, "claim") /\ ~Locked
  /\ IF Current(t) THEN Goto(t, "unlink") ELSE Die(t)
  /\ UNCHANGED <<rec, now, writer, session, crashes, ghosts>>

\* Mutant: the fire is granted and the record stays.
UnlinkKeeps(t) ==
  /\ At(t, "unlink")
  /\ fires' = Once(fires)
  /\ Goto(t, "defer")
  /\ UNCHANGED <<rec, now, writer, session, crashes, back>>

\* Unlinking the record is the fire.
Unlink(t) ==
  /\ At(t, "unlink")
  /\ rec' = NoRecord
  /\ fires' = Once(fires)
  /\ Goto(t, "defer")
  /\ UNCHANGED <<now, writer, session, crashes, back>>

AfterPoll(t) == IF timer[t].due THEN "checkin" ELSE "sleep"

\* touch_locked: only a record that is there at the timer's generation.
Touch(t) ==
  /\ At(t, "touch") /\ ~Locked
  /\ IF Current(t) THEN Copy(t, "beat", [rec EXCEPT !.beat = 0]) ELSE Goto(t, AfterPoll(t))
  /\ UNCHANGED <<rec, now, writer, session, crashes, ghosts>>

Beat(t) ==
  /\ At(t, "beat")
  /\ Put(timer[t].copy)
  /\ Copy(t, AfterPoll(t), NoRecord)
  /\ UNCHANGED <<now, writer, session, crashes, fires>>

\* check_in_in: the flag is persisted before the session is woken.
CheckIn(t) ==
  /\ At(t, "checkin")
  /\ IF Current(t) /\ ~rec.checked
     THEN Copy(t, "mark", [rec EXCEPT !.checked = TRUE])
     ELSE Goto(t, "sleep")
  /\ UNCHANGED <<rec, now, writer, session, crashes, ghosts>>

Mark(t) ==
  /\ At(t, "mark")
  /\ Put(timer[t].copy)
  /\ Copy(t, "cut", NoRecord)
  /\ UNCHANGED <<now, writer, session, crashes, fires>>

\* defer_to_live_turn: a working turn gets the event through the queue, and the
\* timer is done.
Defer(t) ==
  /\ At(t, "defer")
  /\ IF alive /\ ~blocked THEN Die(t) ELSE Goto(t, "cut")
  /\ UNCHANGED <<rec, now, writer, session, crashes, ghosts>>

\* interrupt_if_live: SIGINT, then up to 8 s for the process to go.
Cut(t) ==
  /\ At(t, "cut")
  /\ alive' \in {FALSE, alive}
  /\ blocked' = (blocked /\ alive')
  /\ Goto(t, "resume")
  /\ UNCHANGED <<rec, now, writer, crashes, ghosts>>

\* resume_or_queue: the lease grants the turn, or the text is queued, or the
\* process does not start and the event is lost.
Resume(t) ==
  /\ At(t, "resume")
  /\ alive' \in {alive, TRUE}
  /\ IF timer[t].due THEN Goto(t, "sleep") ELSE Die(t)
  /\ UNCHANGED <<rec, now, writer, blocked, crashes, ghosts>>

TimerStep(t) ==
  \/ Wake(t) \/ Claim(t) \/ Unlink(t) \/ Touch(t) \/ Beat(t) \/ CheckIn(t) \/ Mark(t)
  \/ Defer(t) \/ Cut(t) \/ Resume(t)
-----------------------------------------------------------------------------
NextGeneration(g) == IF g + 1 < GENERATIONS THEN g + 1 ELSE 0

Turn(w, pc, r) == writer' = [writer EXCEPT ![w] = [pc |-> pc, copy |-> r]]

\* reconcile_in: a record whose heartbeat is too old is read, moved one generation
\* on and stamped, written back, and given a new timer.
SweepRead(w) ==
  /\ writer[w].pc = "idle"
  /\ rec # NoRecord /\ rec.beat > STRANDED
  /\ Turn(w, "write", [rec EXCEPT !.gen = NextGeneration(@), !.beat = 0])
  /\ UNCHANGED <<rec, now, timer, session, crashes, ghosts>>

SweepWrite(w) ==
  /\ w \in Sweepers /\ writer[w].pc = "write"
  /\ Put(writer[w].copy)
  /\ writer' = [writer EXCEPT ![w].pc = "arm"]
  /\ UNCHANGED <<now, timer, session, crashes, fires>>

\* arm_timer, by the creator or a sweep.
Arm(w, t) ==
  /\ writer[w].pc = "arm"
  /\ At(t, "none")
  /\ timer' = [timer EXCEPT ![t] = [NoTimer EXCEPT !.pc = "nap", !.gen = writer[w].copy.gen]]
  /\ Turn(w, IF w = Creator THEN "done" ELSE "idle", NoRecord)
  /\ UNCHANGED <<rec, now, session, crashes, ghosts>>

\* transfer_session_in: the record is written back for the successor.
MoveRead(w) ==
  /\ writer[w].pc = "idle"
  /\ rec # NoRecord
  /\ Turn(w, "write", rec)
  /\ UNCHANGED <<rec, now, timer, session, crashes, ghosts>>

MoveWrite(w) ==
  /\ w \in Movers /\ writer[w].pc = "write"
  /\ Put(writer[w].copy)
  /\ Turn(w, "done", NoRecord)
  /\ UNCHANGED <<now, timer, session, crashes, fires>>

WriterStep(w) ==
  \/ w \in Sweepers /\ SweepRead(w)
  \/ w \in Movers /\ MoveRead(w)
  \/ SweepWrite(w) \/ MoveWrite(w)
  \/ \E t \in Timers : Arm(w, t)

\* stop_in: one unlink under the lock.
Stop ==
  /\ rec # NoRecord /\ ~Locked
  /\ rec' = NoRecord
  /\ UNCHANGED <<now, timer, writer, session, crashes, ghosts>>
-----------------------------------------------------------------------------
\* The session's own turns, and the user's answers.
SessionChanges ==
  /\ \/ alive' = ~alive /\ blocked' = FALSE
     \/ alive /\ blocked' = ~blocked /\ UNCHANGED alive
  /\ UNCHANGED <<rec, now, timer, writer, crashes, ghosts>>

\* A process dies, or the timer it wanted to start does not start.
TimerDies(t) ==
  /\ ~At(t, "none")
  /\ crashes < MAX_CRASHES /\ crashes' = crashes + 1
  /\ Die(t)
  /\ UNCHANGED <<rec, now, writer, session, ghosts>>

WriterDies(w) ==
  /\ writer[w].pc \in {"write", "arm"}
  /\ crashes < MAX_CRASHES /\ crashes' = crashes + 1
  /\ Turn(w, IF w \in Sweepers THEN "idle" ELSE "done", NoRecord)
  /\ UNCHANGED <<rec, now, timer, session, ghosts>>

\* Mutant: the age of the heartbeat has no cap.
OlderUncapped(r) == IF r = NoRecord THEN r ELSE [r EXCEPT !.beat = @ + 1]

\* last_poll_at is a stamp: every copy of it ages alike.
Older(r) == IF r # NoRecord /\ r.beat <= STRANDED THEN [r EXCEPT !.beat = @ + 1] ELSE r

Tick ==
  /\ now' = IF Expired THEN now ELSE now + 1
  /\ rec' = Older(rec)
  /\ timer' = [t \in Timers |-> [timer[t] EXCEPT !.copy = Older(@),
                                   !.pc = IF @ = "sleep" THEN "nap" ELSE @]]
  /\ writer' = [w \in Writers |-> [writer[w] EXCEPT !.copy = Older(@)]]
  /\ UNCHANGED <<session, crashes, ghosts>>

Next ==
  \/ \E t \in Timers : TimerStep(t) \/ Probe(t) \/ TimerDies(t)
  \/ \E w \in Writers : WriterStep(w) \/ WriterDies(w)
  \/ Stop \/ SessionChanges \/ Tick

Spec == Init /\ [][Next]_vars

\* Awake machine: within a unit of time every process gets to its next nap, but
\* for a timer whose until command does not return.
Timely == /\ \A t \in Timers : timer[t].pc \in {"none", "sleep", "probe"}
          /\ \A w \in Writers : writer[w].pc \in {"idle", "done"}

(* Time passes, timers and writers run, and somebody keeps sweeping.  The until *)
(* command need not return, nobody need stop the watch.                         *)
Fairness ==
  /\ WF_vars(Tick)
  /\ \A t \in Timers : WF_vars(TimerStep(t))
  /\ \A w \in Writers : WF_vars(WriterStep(w))

AwakeSpec == Init /\ [][Next /\ (Tick => Timely)]_vars /\ Fairness
-----------------------------------------------------------------------------
(* A fire is granted once for every time the record is put on disk: only a     *)
(* record that was written back after its removal can fire again.              *)
OneFirePerRecord == fires > 1 => back

\* Writers that hold a copy of the record and no lock.
Unlocked == { t \in Timers : timer[t].pc = "mark" } \cup
            { w \in Writers : writer[w].pc = "write" }

(* A stopped or fired watch stays gone once no sweep, handoff or check-in is    *)
(* under way: no heartbeat, however late, brings it back.                       *)
GoneStaysGone == [][rec = NoRecord /\ Unlocked = {} => rec' = NoRecord]_vars

(* A watch always ends: it fires at its deadline at the latest, whether its     *)
(* timers die, its until command hangs, or its creator never armed it.          *)
WatchEnds == rec # NoRecord ~> rec = NoRecord
=============================================================================
