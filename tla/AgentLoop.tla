----------------------------- MODULE AgentLoop -----------------------------
(***************************************************************************)
(* claw-fleet-core/src/agent_loop.rs: ONE recurring task, the record it    *)
(* keeps on disk and the processes that share it.  A timer drives every    *)
(* tick of the loop in turn, taking over the generation each claim gives   *)
(* out; a sweep arms one more at the generation the record has, without    *)
(* changing it.                                                            *)
(*                                                                         *)
(* As in Schedule, nothing takes a lock: reading and writing are separate  *)
(* actions, and whoever reads while somebody else is about to write may    *)
(* find no record (Seen).                                                  *)
(*                                                                         *)
(* A unit of time is the longest nap (POLL_CAP).  Left out: what is        *)
(* spawned, manual runs, the retained history and the expiry after seven   *)
(* days.                                                                   *)
(***************************************************************************)
EXTENDS Integers, FiniteSets

CONSTANTS
  Timers,        \* timer processes that can exist at once (a bound)
  Creator,       \* the process that registered the loop, about to arm it
  Sweepers,      \* callers of reconcile: tickers, Stop hooks
  Editors,       \* callers of update, one edit each (a bound)
  NoRecord,      \* there is no readable record file
  Gated,         \* the loop has an until command
  INTERVAL,      \* interval_secs
  MAX_ITERATIONS,\* the hard limit
  STRANDED,      \* STRANDED_GRACE_MS
  GENERATIONS,   \* the generation counter wraps here (u64 in the code)
  MAX_CRASHES    \* processes that may die (a bound)

Writers == {Creator} \cup Sweepers \cup Editors
Procs == Timers \cup Writers

ASSUME LoopAssumption ==
  /\ Gated \in BOOLEAN
  /\ INTERVAL \in Nat \ {0} /\ MAX_ITERATIONS \in Nat \ {0} /\ STRANDED \in Nat
  /\ GENERATIONS \in Nat \ {0} /\ MAX_CRASHES \in Nat
  /\ IsFiniteSet(Timers) /\ Timers \cap Writers = {}
  /\ Creator \notin Sweepers \cup Editors /\ Sweepers \cap Editors = {}

\* left: next_fire_at - now, from INTERVAL down to -(STRANDED+1); done, max:
\* iterations_done and max_iterations.
LoopRecord == [gen : 0..GENERATIONS-1, left : -(STRANDED+1)..INTERVAL,
               done : 0..MAX_ITERATIONS, max : 1..MAX_ITERATIONS]

ASSUME NoRecordAssumption == NoRecord \notin LoopRecord

VARIABLES
  rec,       \* <loop>.json
  proc,      \* proc[p]: a timer, sweep, editor or creator
  crashes,   \* processes that died so far
  spawned,   \* iterations spawned so far, counted up to MAX_ITERATIONS + 1
  raced,     \* processes whose copy is of a record that was replaced since
  lost       \* such a process wrote its copy, or retired the record

ghosts == <<spawned, raced, lost>>
vars == <<rec, proc, crashes, ghosts>>

-----------------------------------------------------------------------------
\* nap: to read the record; sleep: until the next nap ends; probe: the until
\* command runs; claim, skip, stamp: to read again; retire: to remove an exhausted
\* record; fire, pass, mark: have read and write next; spawn: starts the session.
TimerPC == {"none", "sleep", "nap", "probe", "claim", "skip", "fire", "pass", "retire",
            "spawn", "stamp", "mark"}

Proc == [pc : TimerPC \cup {"idle", "write", "arm", "done"}, gen : 0..GENERATIONS-1,
         copy : LoopRecord \cup {NoRecord}]

LTypeOK ==
  /\ rec \in LoopRecord \cup {NoRecord}
  /\ proc \in [Procs -> Proc]
  /\ crashes \in 0..MAX_CRASHES
  /\ spawned \in 0..MAX_ITERATIONS+1 /\ raced \subseteq Procs /\ lost \in BOOLEAN

Absent(pc) == [pc |-> pc, gen |-> 0, copy |-> NoRecord]

\* create_in: the first tick is one interval away.
Init ==
  /\ \E m \in 1..MAX_ITERATIONS : rec = [gen |-> 0, left |-> INTERVAL, done |-> 0, max |-> m]
  /\ proc = [p \in Procs |-> Absent(IF p \in Timers THEN "none"
                                    ELSE IF p = Creator THEN "arm" ELSE "idle")]
  /\ crashes = 0 /\ spawned = 0 /\ raced = {} /\ lost = FALSE

Due(r) == r.left <= 0
Live(r) == r.done < r.max
NextGeneration(g) == IF g + 1 < GENERATIONS THEN g + 1 ELSE 0

At(p, pc) == proc[p].pc = pc
Goto(p, pc) == proc' = [proc EXCEPT ![p].pc = pc]
Take(p, pc, r) == proc' = [proc EXCEPT ![p] = [pc |-> pc, gen |-> proc[p].gen, copy |-> r]]
Quit(p) == proc' = [proc EXCEPT ![p] = Absent(IF p \in Timers THEN "none" ELSE "done")]

\* run_timer_blocking goes on with the generation of the record it claimed.
Drive(t, pc) ==
  proc' = [proc EXCEPT ![t] = [pc |-> pc, gen |-> proc[t].copy.gen, copy |-> NoRecord]]

Holders == { p \in Procs : proc[p].copy # NoRecord }

\* What p reads: the record, or nothing while somebody else is writing it.
Seen(p) == {rec} \cup (IF Holders \subseteq {p} THEN {} ELSE {NoRecord})

\* p replaces the record by r, whatever is there now.
Put(p, r) ==
  /\ rec' = r
  /\ lost' = (lost \/ p \in raced)
  /\ raced' = (raced \cup Holders) \ {p}
-----------------------------------------------------------------------------
\* run_timer_blocking reads the record and decides: gone or superseded, exhausted,
\* not due yet, due, or the until command first.
Wake(t) ==
  /\ proc[t].pc \in {"sleep", "nap"}
  /\ \E r \in Seen(t) :
       IF r = NoRecord THEN Quit(t)
       ELSE IF r.gen # proc[t].gen THEN Quit(t)
       ELSE IF ~Live(r) THEN Goto(t, "retire")
       ELSE Goto(t, IF ~Due(r) THEN "sleep" ELSE IF Gated THEN "probe" ELSE "claim")
  /\ UNCHANGED <<rec, crashes, ghosts>>

\* The until command comes back: met, or not and the tick is skipped.
Probe(t) ==
  /\ At(t, "probe")
  /\ \/ Goto(t, "claim")
     \/ Goto(t, "skip")
  /\ UNCHANGED <<rec, crashes, ghosts>>

\* A claim is granted on a live record that is due, at the timer's generation.
Grants(t, r) == r # NoRecord /\ r.gen = proc[t].gen /\ Due(r) /\ Live(r)

\* Refused, the timer stops, unless it only woke early.
Refused(t, r) == IF r # NoRecord /\ r.gen = proc[t].gen /\ ~Due(r) THEN Goto(t, "nap") ELSE Quit(t)

Skipped(r) == [r EXCEPT !.gen = NextGeneration(@), !.left = INTERVAL]
Iterated(r) == [Skipped(r) EXCEPT !.done = @ + 1]

\* Mutant: the claim does not count the iteration.
ClaimUncounted(t) ==
  /\ At(t, "claim")
  /\ \E r \in Seen(t) : IF Grants(t, r) THEN Take(t, "fire", Skipped(r)) ELSE Refused(t, r)
  /\ UNCHANGED <<rec, crashes, ghosts>>

\* claim_fire_in.
Claim(t) ==
  /\ At(t, "claim")
  /\ \E r \in Seen(t) : IF Grants(t, r) THEN Take(t, "fire", Iterated(r)) ELSE Refused(t, r)
  /\ UNCHANGED <<rec, crashes, ghosts>>

\* Its writing half: the record moves on, or goes with the last iteration.
Fire(t) ==
  /\ At(t, "fire")
  /\ LET claimed == proc[t].copy IN Put(t, IF Live(claimed) THEN claimed ELSE NoRecord)
  /\ Drive(t, "spawn")
  /\ UNCHANGED <<crashes, spawned>>

\* claim_skip_in.
Skip(t) ==
  /\ At(t, "skip")
  /\ \E r \in Seen(t) : IF Grants(t, r) THEN Take(t, "pass", Skipped(r)) ELSE Refused(t, r)
  /\ UNCHANGED <<rec, crashes, ghosts>>

Pass(t) ==
  /\ At(t, "pass")
  /\ Put(t, proc[t].copy)
  /\ Drive(t, "nap")
  /\ UNCHANGED <<crashes, spawned>>

\* fire_once_in: the session starts, or does not and the iteration is spent.
Spawn(t) ==
  /\ At(t, "spawn")
  /\ \/ /\ spawned' = (IF spawned <= MAX_ITERATIONS THEN spawned + 1 ELSE spawned)
        /\ Goto(t, "stamp")
     \/ UNCHANGED spawned /\ Goto(t, "nap")
  /\ UNCHANGED <<rec, crashes, raced, lost>>

\* Mutant: a record that is gone is written anew.
StampAnew(t) ==
  /\ At(t, "stamp")
  /\ \E r \in Seen(t) :
       Take(t, "mark", IF r # NoRecord THEN r
                       ELSE [gen |-> proc[t].gen, left |-> INTERVAL, done |-> 0, max |-> MAX_ITERATIONS])
  /\ UNCHANGED <<rec, crashes, ghosts>>

\* record_iteration_session_in: a record that is there is read, stamped, written.
Stamp(t) ==
  /\ At(t, "stamp")
  /\ \E r \in Seen(t) : IF r = NoRecord THEN Goto(t, "nap") ELSE Take(t, "mark", r)
  /\ UNCHANGED <<rec, crashes, ghosts>>

Mark(t) ==
  /\ At(t, "mark")
  /\ Put(t, proc[t].copy)
  /\ Take(t, "nap", NoRecord)
  /\ UNCHANGED <<crashes, spawned>>

\* stop_in, by a timer that found the loop exhausted.
Retire(t) ==
  /\ At(t, "retire")
  /\ rec' = NoRecord
  /\ raced' = raced \cup Holders
  /\ Quit(t)
  /\ UNCHANGED <<crashes, spawned, lost>>

TimerStep(t) ==
  \/ Wake(t) \/ Probe(t) \/ Claim(t) \/ Fire(t) \/ Skip(t) \/ Pass(t)
  \/ Spawn(t) \/ Stamp(t) \/ Mark(t) \/ Retire(t)
-----------------------------------------------------------------------------
\* reconcile_in: a live loop that is long overdue gets a timer at its generation.
Sweep(w) ==
  /\ At(w, "idle")
  /\ rec # NoRecord /\ Live(rec)
  /\ -rec.left > STRANDED
  /\ proc' = [proc EXCEPT ![w] = [Absent("arm") EXCEPT !.gen = rec.gen]]
  /\ UNCHANGED <<rec, crashes, ghosts>>

\* update_in: a new interval, counted from now, another limit, prompt or title.
EditRead(w) ==
  /\ At(w, "idle")
  /\ rec # NoRecord
  /\ \E n \in {rec.left, INTERVAL}, m \in 1..MAX_ITERATIONS :
       proc' = [proc EXCEPT ![w] = [pc |-> "write", gen |-> NextGeneration(rec.gen),
         copy |-> [rec EXCEPT !.gen = NextGeneration(@), !.left = n, !.max = m]]]
  /\ UNCHANGED <<rec, crashes, ghosts>>

Write(w) ==
  /\ At(w, "write")
  /\ Put(w, proc[w].copy)
  /\ Take(w, "arm", NoRecord)
  /\ UNCHANGED <<crashes, spawned>>

\* Mutant: the timer is armed with the first generation.
ArmFirst(w, t) ==
  /\ At(w, "arm") /\ At(t, "none")
  /\ proc' = [proc EXCEPT ![t] = Absent("nap"),
                          ![w] = Absent(IF w \in Sweepers THEN "idle" ELSE "done")]
  /\ UNCHANGED <<rec, crashes, ghosts>>

\* arm_timer.
Arm(w, t) ==
  /\ At(w, "arm") /\ At(t, "none")
  /\ proc' = [proc EXCEPT ![t] = [Absent("nap") EXCEPT !.gen = proc[w].gen],
                          ![w] = Absent(IF w \in Sweepers THEN "idle" ELSE "done")]
  /\ UNCHANGED <<rec, crashes, ghosts>>

WriterStep(w) ==
  \/ w \in Sweepers /\ Sweep(w)
  \/ Write(w)
  \/ \E t \in Timers : Arm(w, t)

\* stop_in: the file is removed, whoever works on it.
Stop ==
  /\ rec # NoRecord
  /\ rec' = NoRecord
  /\ raced' = raced \cup Holders
  /\ UNCHANGED <<proc, crashes, spawned, lost>>
-----------------------------------------------------------------------------
\* A process dies, or the timer it wanted to start does not start.
Dies(p) ==
  /\ proc[p].pc \notin {"none", "idle", "done"}
  /\ crashes < MAX_CRASHES /\ crashes' = crashes + 1
  /\ IF p \in Sweepers THEN proc' = [proc EXCEPT ![p] = Absent("idle")] ELSE Quit(p)
  /\ raced' = raced \ {p}
  /\ UNCHANGED <<rec, spawned, lost>>

\* Mutant: the lateness of a tick grows past what the sweep tells apart.
OlderUncapped(r) == IF r # NoRecord THEN [r EXCEPT !.left = @ - 1] ELSE r

\* next_fire_at is a stamp: every copy of it ages alike.
Older(r) ==
  IF r # NoRecord /\ r.left > -(STRANDED+1) THEN [r EXCEPT !.left = @ - 1] ELSE r

Tick ==
  /\ rec' = Older(rec)
  /\ proc' = [p \in Procs |-> [proc[p] EXCEPT !.copy = Older(@),
                                 !.pc = IF @ = "sleep" THEN "nap" ELSE @]]
  /\ UNCHANGED <<crashes, ghosts>>

Next ==
  \/ \E t \in Timers : TimerStep(t)
  \/ \E w \in Writers : WriterStep(w)
  \/ \E w \in Editors : EditRead(w)
  \/ \E p \in Procs : Dies(p)
  \/ Stop \/ Tick

Spec == Init /\ [][Next]_vars

\* Awake machine: within a unit of time every process gets to its next nap.
Timely == /\ \A t \in Timers : proc[t].pc \in {"none", "sleep"}
          /\ \A w \in Writers : proc[w].pc \in {"idle", "done"}

(* Time passes, timers and writers run, and somebody keeps sweeping.  Nobody    *)
(* need stop the loop, and its until command may fail for ever.                 *)
Fairness ==
  /\ WF_vars(Tick)
  /\ \A t \in Timers : WF_vars(TimerStep(t))
  /\ \A w \in Writers : WF_vars(WriterStep(w))

AwakeSpec == Init /\ [][Next /\ (Tick => Timely)]_vars /\ Fairness
-----------------------------------------------------------------------------
\* Timers that hold a claim they have not spent yet.
Spawners == { t \in Timers : At(t, "spawn") }

\* A timer comes to hold one only while the iterations so far are fewer than max.
WithinCeiling ==
  \A t \in Timers : ~At(t, "spawn") /\ At(t, "spawn")' =>
    lost' \/ (rec # NoRecord /\ spawned + Cardinality(Spawners) < rec.max)

(* An iteration is let loose only while those before it, spawned or about to be,  *)
(* are fewer than the user asks for at that moment (max_iterations of the record  *)
(* in force), whoever edits the limit and however many timers drive the loop.     *)
(* Since claim_fire_in has no lock this ends with the first write of a copy of    *)
(* a record that was replaced.                                                    *)
CeilingIfSerialised == [][WithinCeiling]_vars

\* Gone, nobody has a copy of the record, and no iteration is on its way.
Stopped == rec = NoRecord /\ \A p \in Procs : proc[p].copy = NoRecord /\ proc[p].pc # "spawn"

(* A loop that was stopped, or ended, stays so: no timer, sweep or edit that     *)
(* comes later spawns an iteration or brings the record back.                    *)
StoppedForGood == [][Stopped => Stopped' /\ UNCHANGED spawned]_vars

Overdue == rec # NoRecord /\ Live(rec) /\ Due(rec)

(* A tick that is due is taken: fired, skipped or the last one, although the      *)
(* timer dies, quits over a half-written record, or several drive the loop.       *)
TickIsTaken == Overdue ~> ~Overdue
=============================================================================
