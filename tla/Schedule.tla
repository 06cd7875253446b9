------------------------------ MODULE Schedule ------------------------------
(***************************************************************************)
(* claw-fleet-core/src/schedule.rs: ONE scheduled task, the record it      *)
(* keeps on disk and the processes that share it: detached timers, the     *)
(* sweeps that re-arm it when its timer is gone, edits and cancellation.   *)
(*                                                                         *)
(* Nothing here takes a lock.  Every operation reads the record, decides   *)
(* and writes the whole record back, so reading and writing are separate   *)
(* actions; and a write truncates the file first, so whoever reads while   *)
(* somebody else is about to write may find no record (Seen).              *)
(*                                                                         *)
(* A unit of time is the longest nap between two looks at the record       *)
(* (POLL_CAP).  Left out: what is spawned (prompt, model, title), manual   *)
(* runs, which neither read nor write anything the timers look at, and a   *)
(* process that dies between truncating the file and writing it.           *)
(***************************************************************************)
EXTENDS Integers, FiniteSets

CONSTANTS
  Timers,        \* timer processes that can exist at once (a bound)
  Creator,       \* the process that registered the schedule, about to arm it
  Sweepers,      \* callers of reconcile: tickers, Stop hooks
  Editors,       \* callers of update, one edit each (a bound)
  NoRecord,      \* there is no readable record file
  Gated,         \* the schedule has an until command
  AHEAD,         \* the furthest fire time (MAX_HORIZON_MS)
  GATE_TIMEOUT,  \* gate_timeout_secs, counted from the fire time
  STRANDED,      \* STRANDED_GRACE_MS
  GENERATIONS,   \* the generation counter wraps here (u64 in the code)
  MAX_CRASHES    \* processes that may die (a bound)

Writers == {Creator} \cup Sweepers \cup Editors
Procs == Timers \cup Writers

ASSUME ScheduleAssumption ==
  /\ Gated \in BOOLEAN
  /\ AHEAD \in Nat \ {0} /\ GATE_TIMEOUT \in Nat /\ STRANDED \in Nat
  /\ GENERATIONS \in Nat \ {0} /\ MAX_CRASHES \in Nat
  /\ Timers \cap Writers = {}
  /\ Creator \notin Sweepers \cup Editors /\ Sweepers \cap Editors = {}

\* How far past its fire time a record is told apart.
LATE == IF STRANDED < GATE_TIMEOUT THEN GATE_TIMEOUT ELSE STRANDED + 1

\* left: fire_at - now, from AHEAD down to -LATE; beat: the age of last_poll_at.
ScheduleRecord == [pending : BOOLEAN, gen : 0..GENERATIONS-1, left : -LATE..AHEAD,
                   beat : 0..STRANDED+1, timedOut : BOOLEAN]

ASSUME NoRecordAssumption == NoRecord \notin ScheduleRecord

VARIABLES
  rec,       \* <schedule>.json
  proc,      \* proc[p]: a timer, sweep, editor or creator
  crashes,   \* processes that died so far
  spawned,   \* sessions spawned so far, counted up to two
  raced,     \* processes whose copy is of a record that was replaced since
  lost       \* such a process wrote its copy: what it replaced is lost

ghosts == <<spawned, raced, lost>>
vars == <<rec, proc, crashes, ghosts>>

-----------------------------------------------------------------------------
\* nap: to read the record; sleep: until the next nap ends; probe: the until
\* command runs; claim, touch, stamp: to read again; the others have read, and
\* write next, but for spawn, which starts the session.
TimerPC == {"none", "sleep", "nap", "probe", "claim", "flip", "touch", "beat",
            "spawn", "stamp", "mark"}

Proc == [pc : TimerPC \cup {"idle", "write", "arm", "done"}, gen : 0..GENERATIONS-1,
         abandon : BOOLEAN, copy : ScheduleRecord \cup {NoRecord}]

STypeOK ==
  /\ rec \in ScheduleRecord \cup {NoRecord}
  /\ proc \in [Procs -> Proc]
  /\ crashes \in 0..MAX_CRASHES
  /\ spawned \in 0..2 /\ raced \subseteq Procs /\ lost \in BOOLEAN

Absent(pc) == [pc |-> pc, gen |-> 0, abandon |-> FALSE, copy |-> NoRecord]

\* create_in wrote the record; last_poll_at is 0, long ago.
Init ==
  /\ \E n \in 1..AHEAD :
       rec = [pending |-> TRUE, gen |-> 0, left |-> n, beat |-> STRANDED+1, timedOut |-> FALSE]
  /\ proc = [p \in Procs |-> Absent(IF p \in Timers THEN "none"
                                    ELSE IF p = Creator THEN "arm" ELSE "idle")]
  /\ crashes = 0 /\ spawned = 0 /\ raced = {} /\ lost = FALSE

Due(r) == r.left <= 0
Expired(r) == Gated /\ r.left <= -GATE_TIMEOUT
NextGeneration(g) == IF g + 1 < GENERATIONS THEN g + 1 ELSE 0

At(p, pc) == proc[p].pc = pc
Goto(p, pc) == proc' = [proc EXCEPT ![p].pc = pc]
Take(p, pc, r) == proc' = [proc EXCEPT ![p] = [@ EXCEPT !.pc = pc, !.copy = r]]
Quit(p) == proc' = [proc EXCEPT ![p] = Absent(IF p \in Timers THEN "none" ELSE "done")]

Holders == { p \in Procs : proc[p].copy # NoRecord }

\* What p reads: the record, or nothing while somebody else is writing it.
Seen(p) == {rec} \cup (IF Holders \subseteq {p} THEN {} ELSE {NoRecord})

\* p writes its copy of the record back, whatever is there now.
Put(p) ==
  /\ rec' = proc[p].copy
  /\ lost' = (lost \/ p \in raced)
  /\ raced' = (raced \cup Holders) \ {p}
-----------------------------------------------------------------------------
\* run_timer_blocking reads the record and decides: gone, superseded or fired,
\* not due yet, due, abandoned, or the until command first.
Wake(t) ==
  /\ proc[t].pc \in {"sleep", "nap"}
  /\ \E r \in Seen(t) :
       IF r = NoRecord THEN Quit(t)
       ELSE IF r.gen # proc[t].gen \/ ~r.pending THEN Quit(t)
       ELSE IF ~Due(r) THEN Goto(t, "sleep")
       ELSE IF Gated /\ ~Expired(r) THEN Goto(t, "probe")
       ELSE proc' = [proc EXCEPT ![t] = [@ EXCEPT !.pc = "claim", !.abandon = Expired(r)]]
  /\ UNCHANGED <<rec, crashes, ghosts>>

\* The until command comes back, if it ever does.
Probe(t) ==
  /\ At(t, "probe")
  /\ \/ proc' = [proc EXCEPT ![t] = [@ EXCEPT !.pc = "claim", !.abandon = FALSE]]
     \/ Goto(t, "touch")
  /\ UNCHANGED <<rec, crashes, ghosts>>

Flipped(r, abandon) ==
  [r EXCEPT !.pending = FALSE, !.gen = NextGeneration(@), !.timedOut = abandon]

\* claim_transition_in, its reading half: still pending, at the timer's
\* generation, and due.
Claim(t) ==
  /\ At(t, "claim")
  /\ \E r \in Seen(t) :
       IF r = NoRecord THEN Quit(t)
       ELSE IF ~r.pending \/ r.gen # proc[t].gen THEN Quit(t)
       ELSE IF ~Due(r) THEN Goto(t, "nap")
       ELSE Take(t, "flip", Flipped(r, proc[t].abandon))
  /\ UNCHANGED <<rec, crashes, ghosts>>

\* Mutant: the claim persists what it read.
FlipForgets(t) ==
  /\ At(t, "flip")
  /\ rec' = [proc[t].copy EXCEPT !.pending = TRUE]
  /\ lost' = (lost \/ t \in raced)
  /\ raced' = (raced \cup Holders) \ {t}
  /\ IF proc[t].abandon THEN Quit(t) ELSE Take(t, "spawn", NoRecord)
  /\ UNCHANGED <<crashes, spawned>>

\* Its writing half.  An abandoned schedule spawns nothing.
Flip(t) ==
  /\ At(t, "flip")
  /\ Put(t)
  /\ IF proc[t].abandon THEN Quit(t) ELSE Take(t, "spawn", NoRecord)
  /\ UNCHANGED <<crashes, spawned>>

\* fire_once_in: the session starts, or does not and the fire is spent.
Spawn(t) ==
  /\ At(t, "spawn")
  /\ \/ spawned' = (IF spawned < 2 THEN spawned + 1 ELSE spawned) /\ Goto(t, "stamp")
     \/ UNCHANGED spawned /\ Quit(t)
  /\ UNCHANGED <<rec, crashes, raced, lost>>

\* record_fired_session_in: whatever is there is read, stamped and written.
Stamp(t) ==
  /\ At(t, "stamp")
  /\ \E r \in Seen(t) : IF r = NoRecord THEN Quit(t) ELSE Take(t, "mark", r)
  /\ UNCHANGED <<rec, crashes, ghosts>>

Mark(t) ==
  /\ At(t, "mark")
  /\ Put(t)
  /\ Quit(t)
  /\ UNCHANGED <<crashes, spawned>>

\* touch_in: only a pending record at the timer's generation.
Touch(t) ==
  /\ At(t, "touch")
  /\ \E r \in Seen(t) :
       IF r # NoRecord /\ r.pending /\ r.gen = proc[t].gen
       THEN Take(t, "beat", [r EXCEPT !.beat = 0])
       ELSE Goto(t, "sleep")
  /\ UNCHANGED <<rec, crashes, ghosts>>

Beat(t) ==
  /\ At(t, "beat")
  /\ Put(t)
  /\ Take(t, "sleep", NoRecord)
  /\ UNCHANGED <<crashes, spawned>>

TimerStep(t) ==
  \/ Wake(t) \/ Claim(t) \/ Flip(t) \/ Spawn(t) \/ Stamp(t) \/ Mark(t) \/ Touch(t) \/ Beat(t)
-----------------------------------------------------------------------------
\* reconcile_in: a pending record that is long overdue and whose heartbeat is old is
\* moved one generation on and stamped.
SweepRead(w) ==
  /\ At(w, "idle")
  /\ rec # NoRecord /\ rec.pending
  /\ -rec.left > STRANDED /\ rec.beat > STRANDED
  /\ proc' = [proc EXCEPT ![w] = [pc |-> "write", gen |-> NextGeneration(rec.gen),
       abandon |-> FALSE, copy |-> [rec EXCEPT !.gen = NextGeneration(@), !.beat = 0]]]
  /\ UNCHANGED <<rec, crashes, ghosts>>

\* Mutant: an update does not mind that the schedule already fired.
EditAnyStatus(w) ==
  /\ At(w, "idle")
  /\ rec # NoRecord
  /\ \E n \in {rec.left} \cup 1..AHEAD :
       proc' = [proc EXCEPT ![w] = [pc |-> "write", gen |-> NextGeneration(rec.gen), abandon |-> FALSE,
         copy |-> [rec EXCEPT !.pending = TRUE, !.gen = NextGeneration(@), !.left = n]]]
  /\ UNCHANGED <<rec, crashes, ghosts>>

\* update_in: a new fire time, in the future, or another prompt or model.
EditRead(w) ==
  /\ At(w, "idle")
  /\ rec # NoRecord /\ rec.pending
  /\ \E n \in {rec.left} \cup 1..AHEAD :
       proc' = [proc EXCEPT ![w] = [pc |-> "write", gen |-> NextGeneration(rec.gen),
         abandon |-> FALSE, copy |-> [rec EXCEPT !.gen = NextGeneration(@), !.left = n]]]
  /\ UNCHANGED <<rec, crashes, ghosts>>

Write(w) ==
  /\ At(w, "write")
  /\ Put(w)
  /\ Take(w, "arm", NoRecord)
  /\ UNCHANGED <<crashes, spawned>>

\* Mutant: the timer is armed with the generation after.
ArmNext(w, t) ==
  /\ At(w, "arm") /\ At(t, "none")
  /\ proc' = [proc EXCEPT ![t] = [Absent("nap") EXCEPT !.gen = NextGeneration(proc[w].gen)],
                          ![w] = Absent(IF w \in Sweepers THEN "idle" ELSE "done")]
  /\ UNCHANGED <<rec, crashes, ghosts>>

\* arm_timer: a detached process with the generation just written.
Arm(w, t) ==
  /\ At(w, "arm") /\ At(t, "none")
  /\ proc' = [proc EXCEPT ![t] = [Absent("nap") EXCEPT !.gen = proc[w].gen],
                          ![w] = Absent(IF w \in Sweepers THEN "idle" ELSE "done")]
  /\ UNCHANGED <<rec, crashes, ghosts>>

WriterStep(w) ==
  \/ w \in Sweepers /\ SweepRead(w)
  \/ Write(w)
  \/ \E t \in Timers : Arm(w, t)

\* cancel_in: the file is removed, whoever works on it.
Cancel ==
  /\ rec # NoRecord
  /\ rec' = NoRecord
  /\ raced' = raced \cup Holders
  /\ UNCHANGED <<proc, crashes, spawned, lost>>
-----------------------------------------------------------------------------
\* A process dies, or the timer it wanted to start does not start.
Dies(p) ==
  /\ proc[p].pc \notin {"none", "idle", "done"}
  /\ crashes < MAX_CRASHES /\ crashes' = crashes + 1
  /\ IF p \in Sweepers THEN proc' = [proc EXCEPT ![p] = Absent("idle")] ELSE Quit(p)
  /\ raced' = raced \ {p}
  /\ UNCHANGED <<rec, spawned, lost>>

\* Mutant: the age of a heartbeat grows past what the sweep tells apart.
OlderUncapped(r) ==
  IF r = NoRecord THEN r
  ELSE [r EXCEPT !.left = IF @ > -LATE THEN @ - 1 ELSE @, !.beat = @ + 1]

\* fire_at and last_poll_at are stamps: every copy of them ages alike.
Older(r) ==
  IF r = NoRecord THEN r
  ELSE [r EXCEPT !.left = IF @ > -LATE THEN @ - 1 ELSE @,
                 !.beat = IF @ <= STRANDED THEN @ + 1 ELSE @]

Tick ==
  /\ rec' = Older(rec)
  /\ proc' = [p \in Procs |-> [proc[p] EXCEPT !.copy = Older(@),
                                 !.pc = IF @ = "sleep" THEN "nap" ELSE @]]
  /\ UNCHANGED <<crashes, ghosts>>

Next ==
  \/ \E t \in Timers : TimerStep(t) \/ Probe(t)
  \/ \E w \in Writers : WriterStep(w)
  \/ \E w \in Editors : EditRead(w)
  \/ \E p \in Procs : Dies(p)
  \/ Cancel \/ Tick

Spec == Init /\ [][Next]_vars

\* Awake machine: within a unit of time every process gets to its next nap, but for
\* a timer whose until command does not return.
Timely == /\ \A t \in Timers : proc[t].pc \in {"none", "sleep", "probe"}
          /\ \A w \in Writers : proc[w].pc \in {"idle", "done"}

(* Time passes, timers and writers run, and somebody keeps sweeping.  The until *)
(* command need not return, nobody need cancel.                                 *)
Fairness ==
  /\ WF_vars(Tick)
  /\ \A t \in Timers : WF_vars(TimerStep(t))
  /\ \A w \in Writers : WF_vars(WriterStep(w))

AwakeSpec == Init /\ [][Next /\ (Tick => Timely)]_vars /\ Fairness
-----------------------------------------------------------------------------
Pending(r) == r # NoRecord /\ r.pending

(* A second session is spawned only if some process wrote back a copy of a      *)
(* record that had been replaced since it was read: the missing lock is all     *)
(* that stands between claim_transition_in and "exactly once".                  *)
OnceIfSerialised == spawned > 1 => lost

\* Nothing pending, on disk or in anybody's hands, and no claim on its way.
Settled == /\ ~Pending(rec)
           /\ \A p \in Procs : ~Pending(proc[p].copy) /\ proc[p].pc \notin {"flip", "spawn"}

(* Fired, abandoned or cancelled is for good: once no reader of the pending     *)
(* record is left, no timer, sweep, edit or late stamp revives the schedule.    *)
SettledForGood == [][Settled => Settled' /\ UNCHANGED spawned]_vars

(* A pending schedule is fired, abandoned or cancelled in the end, though its    *)
(* timer dies, never starts, hangs, or quits over a half-written record.         *)
ScheduleEnds == Pending(rec) ~> ~Pending(rec)
=============================================================================
