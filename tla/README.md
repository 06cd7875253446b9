# TLA+ models of claw-fleet

claw-fleet supervises many coding-agent sessions (Claude Code, Codex, dsh) on a
machine.  A session is a transcript on disk and, while a *turn* runs, a process
that appends to it.  Much of Fleet decides **when to start the next turn of a
session**: the user sends a message, answers a card, a watch fires, a retry is
due, a plan is revived in a new session.  Those decisions are made in several
processes at once (the desktop app, `fleet serve`, CLI timers, Stop hooks), which
share nothing but files under `~/.fleet`.  Two turns on one transcript corrupt
it, a forgotten event leaves a session asleep for hours, a repeated one runs the
same work twice.  These modules are about that core.

All paths below are relative to `src/`; `core/` stands for `claw-fleet-core/src/`.

## 1. Inventory

| component | state it keeps | operations | hard behaviour | what makes it correct |
|---|---|---|---|---|
| **Drive lease** `core/session_driver.rs` | per session: a Running lease, registered intents; takeover records | acquire, drop, takeover hold, register / withdraw / query intents, sweep | processes that start out of sight, holders that die, reapers that come late, other stores read outside the lock | at most one turn; a lease is never taken off a live turn and never wedges a session; one takeover at a time |
| **Resume dispatch** `core/agent_source.rs` | none | `resume_session(_with_pending)`: retired check, lease, end an idle turn, start, reaper | steps before and after the lock | everybody drives through it |
| **Auto-resume, server-error retry** `core/headless_runtime.rs`, `core/auto_resume.rs` | intent tokens, debounce, budgets (in memory, per process) | one tick each 30 s: scan, sync intents, fire | several tickers, refused attempts, restarts | an errored session is retried; intents follow what is wanted |
| **Pending messages** `core/pending_message.rs` | `<session>.json`, `<session>.draining` | enqueue, cancel, drain, requeue, move to a successor | no lock; three drain threads in one process, others elsewhere | each message reaches exactly one turn |
| **Watches** `core/watch.rs` | `<watch>.json`: generation, heartbeat, deadline, check-in flag | create, timer poll, claim, heartbeat, check-in, sweep, stop, transfer, update | detached timers that die, locked and unlocked writers | fires once, ends by its deadline, stays gone once stopped |
| **Schedules** `core/schedule.rs` | `<schedule>.json` | create, update, cancel, claim, timer, reconcile | no lock at all | fires once per due time |
| **Agent loops** `core/agent_loop.rs` | `<loop>.json`: generation, iteration | claim, skip, update, stop, record session, reconcile | as above; reconcile keeps the generation, so several timers may drive one loop | never more iterations than asked for; a due tick is taken |
| **Cards and asks** `core/parked.rs`, `mcp_ipc.rs`, `ask_preempt.rs`, `pending_decisions.rs` | parked cards, requests, responses | ask, park, answer, time out, step aside, recover, sweep, reopen | answer against timeout, crash of the asking process, the card in two places | an answer is used once and is never lost |
| **Handoff** `core/handoff.rs` | pending handoff, chains | register, take, link, spawn the successor, unlink, expire | a hook killed between the steps, several listeners, ids known late | one successor per session, true chains, chains of bounded length |
| **Plan revival** `core/plan_revive.rs`, `plan_snooze.rs`, `plan_ops.rs` | state file, cards | tick, apply answers, pause, decide, spawn, attribute, write | effects before the state that remembers them is written; sleep, offline | no more than the allowed fruitless sessions; no plan left stranded |
| Live injection, session host `core/live_inject.rs`, `claude_host.rs` | sockets | send to a live turn, end an idle one | the turn ends meanwhile | the caller falls back to the queue |
| Subtask recovery `core/subtask_recovery.rs` | reads others' records | classify, resume a child | stale records | no child is resumed twice |
| Background processes `core/proc_runner.rs`, `job.rs`, `orphan_reaper.rs` | process records | spawn, kill, heal | pids reused | a record tells the truth in the end |
| Store primitives `core/atomic_json.rs` | – | file lock, atomic replace | – | taken as atomic |
| Sessions, search, history `core/session/`, `search_index.rs`, ... | caches | scan, parse, index | – | data, no protocol |
| Other agent sources, hooks, guidance, usage, library, wiki | – | parsers, judgements on one event, text | – | – |
| **Relay** `fleet-relay/`, `mobile-web/src/relay.ts`, `core/mobile_relay.rs`, `relay_role.rs` | channels, write queues, frames in custody; the role record; answers already given | join, leave, deliver or hold, claim the role, deliver an answer | half-open sockets, full queues, resends, two hosts on a machine, restarts | an answer in custody is handed on once; a confirmed one took effect |
| Runner and cloud API `fleet-runner/`, `fleet-cloud-api/` | SQLite spool | claim, complete, append, acknowledge | restarts, resends | commands once, events until acknowledged (the cloud is archived) |
| CLI, desktop, web clients | user interface | call the above | their tickers run the drains and retries | – |

How they interact: watches, messages, cards, retries and revivals all end in a
call of the resume dispatch, which asks the lease.  The lease in turn *reads* the
cards, queues and watches (`derived_pending`) to know who is waiting.  A handoff
or a revival records a successor; from then on events for the old session are
re-addressed.

Rows in bold are modelled.  What is hard to test in each of them is listed, line by
line, under `hazards` in `PROJECT.json`.

## 2. Modules

| module | models | extends |
|---|---|---|
| `DriveStore` | the record of the drive store and the pure judgements on it (`decide`, `running_live`, `prune_pending`, `with_state`) | |
| `OneDriver` | the abstract promise: at most one driver has a turn | |
| `SessionDriver` | the lease at work: dispatches, store operations, turn processes, crashes, time | `DriveStore` |
| `ResumeRetry` | the server-error retry ticker composed with the lease | `SessionDriver` |
| `PendingMessage` | the message queue of one session | |
| `Watch` | one watch | |
| `Schedule` | one scheduled task | |
| `AgentLoop` | one recurring task | |
| `Card` | one decision card | |
| `PlanRevive` | the reviver and one plan with open boxes | |
| `Handoff` | batons, consumers and the chains they extend | |
| `MobileRelay` | a decision answered on a phone, through the relay to one of the hosts | |
| `Lease_proofs` | theorems on `SessionDriver` and `ResumeRetry` | `ResumeRetry` |
| `Succession_proofs` | theorems on `PlanRevive` and `Handoff`, which carry work from session to session | both |
| other `*_proofs` | theorems on the module of that name | that module |
| `MC*` | small constant values for TLC, where a `.cfg` cannot spell them; `MCHandoff` also the hop count taken literally | |

### SessionDriver

One session.  `running` and `pending` are the two fields of `DriveState`;
`slot[a]` is a dispatch (the thread in `resume_session_with_pending`, then its
reaper), `proc[a]` the turn process it started, `user` an interactive process
that Fleet did not start, `derived` the classes of intents the other stores imply,
`retired` whether a takeover or handoff record exists.

Every store operation is one action, because `with_state` holds the store lock
from load to write, and every such action also does what `with_state` does around
its closure: drop a stale lease, prune dead intents, write the result back, even
for a read (`Observe`).  What happens outside the lock is an action of its own:

| action | code |
|---|---|
| `Request`, `CheckRetired` | `resume_session`, `refuse_if_retired` |
| `ReadDerived` | `derived_pending`, called by `acquire_with` before the lock |
| `Grant`, `Refuse` | `acquire_with` with the two outcomes of `decide` |
| `EndIdleTurn`, `WaitForExit` | `end_idle_turn_then_acquire`, for a manual resume, once |
| `Spawn`, `SpawnFails` | the source's `resume`; an error drops the lease |
| `Advance`, `Exit`, `Release` | the turn process; its reaper's `Lease::drop` |
| `Register`, `Withdraw`, `Observe` | `register_pending`, `withdraw_pending`, `pending_held` and the other readers, the sweep |
| `HoldForTakeover`, `Retire` | `acquire_takeover_with`, `record_takeover` |
| `Crash` | a Fleet process dies: its dispatches stop where they are, its turns go on as orphans, its intents are recognised as dead by `holder_alive` |
| `Tick`, `DerivedChanges`, `UserStarts`, `UserExits` | time and the surroundings |

A stamp is kept as the age it has now.  The premise of the whole design is in the
guard of `Tick`: a turn that was granted is in the process table before its lease
is `VisibleWithin` old, and `VisibleWithin < SPAWN_GRACE` (the code's reason for the
value of `SPAWN_GRACE_MS`).  Without it the safety properties are false, in the
model and in the code.

### ResumeRetry

`tick[h]` is the ticker of process `h`: scan, `desired_resume_intents`,
`sync_resume_intents`, then the selection and firing in `maybe_fire_auto_resume`.
The list of sessions it works on is the one of its last scan, so everything may
have changed by the time it fires.  A scan belongs to the tick that follows it; the
desktop app also refreshes the list in between, which only makes it fresher.
`HoldBack` is the early return when the machine is offline or all resume slots are
taken.  Turns, users and takeovers are those of `SessionDriver` (`Elsewhere`, where
`OtherClasses` says what others ask the session for, `OtherSlots` which dispatches are
theirs), with `errored` telling how the last turn ended.  An attempt is counted when it is
picked (`Fire`), whatever the lease or the spawn then says, and the next one waits for the
debounce (`cool`).  `RCrash` takes the ticker's in-memory maps with its process.

### PendingMessage

The queue is shared without a lock, so every file operation is an action: read
and write of `append_to_queue` and `remove_at`, the rename and the read in
`claim_queue`, read and write of `requeue_at_head`, the removal in
`release_claim`.  A drain starts from a session scan (`Scan`) that may be old, and
its process may die at any step (`Dies`), leaving the claim file behind.  The
session is what the lease promises of it: `Resume` needs that no turn is in
flight.  The retry is here because the two can wait for each other: one action, `Retry`,
whose guard is the class comparison of `decide` and the budget of the episode (`tries` of
`MAX_RETRIES`, 0 standing for the switch `retry_server_errors` turned off).  An attempt
need not start a turn; `EpisodeEnds` is the tick that finds the session no longer errored
and gives the budget back.  A file write is atomic here (in the code it truncates first).  `mixed` remembers which messages were claimed
while somebody was writing the queue back, or while an earlier claim was unread.

### Watch

One record, with its heartbeat kept as an age.  `timer[t]` is a detached `fleet
watch fire` process; `writer[w]` the creator, a sweep (`reconcile_in`) or a handoff
(`transfer_session_in`).  Claims, heartbeats and stops run under the store lock
(`Claim`/`Unlink`, `Touch`/`Beat`, `Stop`); sweeps, transfers and check-ins read and
write without it, so they are split.  Delivery is `Defer`, `Cut`, `Resume`.
Not modelled: updates of a watch, watches on other sessions, progress samples, and
the rewrite of a new record shared by several sessions.

### Schedule and AgentLoop

Both keep one record and take no lock at all.  Every operation reads the record,
decides, and writes the whole of it back: the reading and the writing are two
actions, and between them the process holds a `copy`.  A write truncates the file
first, so whoever reads while another process holds a copy may find nothing
(`Seen`); a timer that finds nothing quits.

| action | `core/schedule.rs` | `core/agent_loop.rs` |
|---|---|---|
| `Wake`, `Probe` | `run_timer_blocking`, `run_until_command` | the same |
| `Claim` with `Flip` / `Fire` | `claim_transition_in` | `claim_fire_in`, which removes the record with the last iteration |
| `Skip`, `Pass` | - | `claim_skip_in`, when the until command is not met |
| `Spawn`, `Stamp`, `Mark` | `fire_once_in`, `record_fired_session_in` | `fire_once_in`, `record_iteration_session_in` |
| `Touch`, `Beat` | `touch_in`, the heartbeat of a gated timer | - |
| `SweepRead` / `Sweep` | `reconcile_in`: a new generation, written back | `reconcile_in`: the timer is armed at the generation there is |
| `EditRead`, `Write`, `Arm` | `update_in`, `arm_timer` | the same |
| `Cancel` / `Stop`, `Retire` | `cancel_in` | `stop_in` |

A timer of a loop drives all its ticks, taking over the generation each claim gives
out (`Drive`).  The ghosts `raced` (whose copy is of a record that was replaced
since) and `lost` (such a copy was written) say exactly when an update was lost.
Left out: what is spawned, manual runs, the retained history, the expiry of a loop
after seven days, and a process that dies between truncating and writing.

### Card

One card in the four places it can be: the request file while its producer polls,
the parked file after the producer gave up, the request with a detached record after
it stepped aside for a message, and the claimed record while a sweep works on it.
`wait` is the call of `fleet__ask` in the turn; `proc[p]` a client that answers, a
refresh tick that sweeps, or a drain that reopens.

| action | code |
|---|---|
| `Poll`, `Peek`, `RemoveRequest`, `RemoveRest`, `Park` | `await_card`, `cleanup`, `park_and_stop` |
| `WaitAgain`, `Withdraw` | `fleet__ask` with action wait or withdraw |
| `Answer`, `Locks`, `Kill`, `Resume`, `Unlock`, `Remove` | `deliver`, `with_card_lock`, `answer_with`, `discard` |
| `Check`, `Write` | `write_response` |
| `Recover`, `Move`, `Clean` | `recover_orphaned_response_with` |
| `SweepLook`, `SweepClaim`, `Unclaim` | `sweep_idle`, `sweep_one` |
| `Unpark`, `Reopen`, `Mark` | `unpark_for_messages` |
| `Wake` | the drain that follows |
| `Settle` | the response gets older than `SWEEP_SETTLE_MS` |
| `TurnDies`, `Dies` | crashes; the lock of a dead process is released |

Left out: what is asked and answered, dismissals, sessions Fleet did not launch
(their cards are never parked), and a second card of the same session.

### PlanRevive

The state file is locked for a whole pass, so the passes of all hosts are one
sequential process: `Load` (answers first), `Pause` (`tick_pause`), `Decide`
(`freeze_orphan_clocks`, `decide`), `Spawned` or `SpawnFails`, `Attribute`
(`record_takeover`, `set_current`), `Write` (`write_state`).  `file` is the state on
disk, `work` what the pass has in memory; cards, spawns and attributions are seen by
others before `file` is written, and `Crash` may fall anywhere in between.  `cover` says
who is on the plan, a session that was woken and not yet attributed being a `stray`.
Boxes are ticked, sessions come and go, the boss closes, answers and snoozes
(`Around`).  Time is counted in pass intervals.  Left out: the text of cards and
prompts, other plans (they take resume slots, which a fault stands for), a plan that
stops being a candidate with boxes open, unreadable stores.

### Handoff

`pending` and `chain` are the two directories under `handoffs/`.  `Register` and
`WritePending` are the halves of `register_in`; a consumer then goes through `Take` (the
rename of `take_pending_in`), `Check`, `Link` (`record_link_in`), `Spawn`, and after a
failed spawn `Unlink`.  A Claude successor gets its id from Fleet, so the link is
written before the spawn; a codex or dsh session mints its own and is linked after it
already runs.  A Claude session waits for its Stop hook, a codex session does not wait
for its listeners.  `Killed` is the hook that overran its budget; `torn` the sessions
that registered, or lost their consumer, in the middle of a relay.  A chain file is
read and written back in one step.  `hop_of` is the place of a session in the list that
`session_ids` builds; `HopOf` counts it without building the list, so that it can be
reasoned about, and `MCHandoff` has TLC compare the two on every chain of up to three
links (`HopsAgree`).  A cap of one hop is excluded: the code does not count the first
relay, so that it would not hold.  Left out: the notes, goals, plans and watches that go
along, and the switch that turns the feature off.

### MobileRelay

Four kinds of actors and what is between them: the phone (`told`, `attempt`), one channel of
the relay (`agents`, `out`, `held`), the connection loop of a host (`stage`, `sock`, and
`holder`, the role record), and the handlers of a host (`job`, `claimed`).

| action | code |
|---|---|
| `Answer`, `TimesOut`, `Receive`, `Drop`, `Opens` | `answerViaReq`, `request`, `handleMsgAck`, `onclose`, `open` in `relay.ts` |
| `Take` with `Hold`, `Expire`, `Join`, `Leaves` | `deliver_or_queue`, `drop_expired`, `join`, `leave` in `registry.rs` |
| `Pump`, `Stall`, `PingFails`, `Cut` | the write pump and the read loop in `ws.rs` |
| `ClaimRole`, `Quits` | `claim`, `is_preempted` in `relay_role.rs`, called by `ws_run_loop`, `ws_connect_once` |
| `Claim`, `Deliver`, `Unclaim`, `Forget` | `claim_decision_answer`, `deliver_decision_answer_deduped`, `release_decision_answer` |
| `Panics` | `dispatch_inbound`, whose handler did not join: the phone hears no, the claim stays |
| `Disconnect`, `Dies`, `Starts`, `RelayRestarts` | faults and restarts |

A connection is seen to end by the relay and by the host at different times, so one host can
have several in the channel and a frame can be written to one nobody reads.  A frame is read
by the host as it is written; what is lost between the two is lost before the write here.
A reply the phone no longer waits for is not kept.  `settled` remembers the frames that were
handled or dropped, `stuck` the hosts in which a delivery panicked over a card that was not
answered, `hasty` that a duplicate was confirmed before the card took an answer, over a
delivery under way or the claim of one that panicked.
Whether a delivery succeeds is open: the card may be gone, or its session not resumable; what
a delivery does to a parked card is in `Card`.

## 3. What is checked

A passing run lists properties that hold, a violated run one sentence of the code's
own documentation that does not.  Every property of a passing run is broken by a
mutation of the code's definitions (`mutants` in `PROJECT.json`).

| run | properties | what it shows |
|---|---|---|
| `session_turns` | `TypeOK`, `OneTurn`, `HiddenIsLeased`, `OneTakeover`, `LeaseKept`, `ImplementsOneDriver`, `LeaseHeals` | two dispatches, through crashes, healed leases, late reapers, manual resumes, cards and takeovers; a lease nobody will release goes away |
| `retry_served` | `RTypeOK`, `ThroughTheLease`, `RetryServed` | an errored session is retried until the attempts are spent, unless a named reason stands against it, although an attempt is refused or fails to start and a Fleet process dies; every step is a step of the lease |
| `queue_serves` | `PTypeOK`, `DeliveredOnce`, `QueueIsDrained` | three drainers, one of which may die, and a sender meet on one queue; the drain and the retry do not wait for each other while the retry has attempts left |
| `watch_ends` | `WTypeOK`, `OneFirePerRecord`, `GoneStaysGone`, `WatchEnds` | timers, sweeps, handoff, stop and a crash on one record; the deadline is met although a timer dies, is never started, or hangs |
| `schedule_ends` | `STypeOK`, `OnceIfSerialised`, `SettledForGood`, `ScheduleEnds` | timers, sweep, edit, cancel and a crash on one unlocked record: a second session needs a lost update, and the schedule is settled in the end |
| `loop_ticks` | `LTypeOK`, `CeilingIfSerialised`, `StoppedForGood`, `TickIsTaken` | several timers may drive a loop, yet an iteration beyond the limit in force needs a lost update, and a due tick is taken |
| `card_swept` | `CTypeOK`, `OneDelivery`, `CardKept`, `AnswerSwept` | poll, client, sweep and drain on one card: one answer, no card lost, an answer given to a session that ended is brought back |
| `revive_serves` | `VTypeOK`, `WokenCapped`, `StrandedIsServed` | the cap on fruitless sessions holds through pauses, snoozes, closings and failed spawns; no open plan stays without a session or a card, unless its every spawn fails and it moved since its last revival |
| `handoff_relays` | `OneHeir`, `ChainsAreTrue`, `RelayCapped` | several listeners, late links and killed hooks: one successor, true chains, bounded length |
| `relay_answers` | `MTypeOK`, `Custody`, `SuccessIsTrue`, `QueuedIsServed`, `DoublesEnd` | a phone's answer through relay, custody and one of two hosts: never replayed, confirmed untruly in two named cases only, handed on in the end |
| `queue_lost` (violated) | `NothingLost` | see below |
| `card_lost` (violated) | `SwapKeeps` | see below |

### Bounds

- *Lease*: every property is about a turn and one intruder, so two dispatches
  (`Slots`).  One Fleet process, which dies and starts again; the same properties were
  explored with two processes.  The theorems of section 4 lift both bounds.  A card
  (`answer`) comes and goes; one intent token and two hold tokens let an intent be
  held, expired, withdrawn or orphaned, and two revivers meet.
- *Durations* of one to three units: what matters is their order (`VisibleWithin` <
  `SPAWN_GRACE` < `RUNNING_MAX`), and every deadline falls between two actions.  Ages
  are capped where the code only asks whether they exceed a threshold.
- *Retry*: two attempts, so that the second follows a first that was refused, failed or
  left the session errored; one intent token and one takeover hold, which refuses an
  attempt; answers as the other dispatches, in a slot of their own, so that one of them can
  hold the lease when the ticker asks; one death (`MAX_CRASHES`).  No card here: one that
  waits for the user is a named reason anyway.
- *Queue*: two retries; two drainers on one claim file and a third that takes the next; one
  message, as `DeliveredOnce` speaks of one at a time (two messages were explored too);
  one death.  `queue_lost` has two messages, as one is lost with the claim of the other.
- *Watch, schedule, loop*: `GENERATIONS` (the counter wraps, a u64 in the code),
  timeouts and `STRANDED` are small; two timers and one or two sweeps are enough for a
  superseded timer beside its successor; one process may die; one edit.  A wrapped
  generation could make an old timer current again, which only adds behaviours.
  Fires and sessions are counted one past what is allowed.
- *Card*: one of each actor, one turn started by a drain, one death; the properties are
  about pairs of actors, the turn being a fourth.
- *Revival*: one unit for the grace and the sleep gap, one fruitless session, two boxes,
  gaps of up to two intervals, one fault (a pass offline or without a slot, or a host that
  dies; two fruitless sessions were explored too).  Spawns fail without limit.
- *Handoff*: three sessions and a cap of two hops, so that the cap is reached; two
  consumers; one fault.  Four sessions and three hops were explored too.
- *Relay*: one phone and its answer in two attempts (three in the code), so that one can
  be late while the other is held; two hosts, of which one is the desktop; two connections,
  so that an old one lingers beside a new one; a write queue and a custody of one frame, so
  that both overflow; one fault, which a panicking handler counts as (the invariants were
  explored with two broken connections).  A phone may lose
  and regain its socket without limit.

Deadlock is checked in all runs but those of `Card`, `Handoff` and `MobileRelay`: an answered
or closed card, a chain in which everybody relayed, and a phone that was told the outcome are
the end of what is modelled.

### Fairness

- *Lease*: time passes; the store is looked at again and again (each acquire, and
  the reviver's `reservation` on every pass); a started turn shows up; the thread
  with the lease gets on with starting the process.  Turns need not end, reapers
  need not run.
- *Retry*: the ticker thread keeps ticking; dispatch threads and reapers go on; and
  a retry that is due again and again is fired at last (strong fairness on `Fire`),
  since being offline and having every slot taken are conditions that pass.  Time passes
  (strong fairness, as the premise `VisibleWithin` stops it for a moment after each grant).
  Processes die finitely often: a ticker that is restarted before each attempt starts its budget
  over and promises nothing.
- *Queue*: drainers keep draining, senders finish a write, and the ticker, online,
  comes round to every retry it has left.  Turns need not end and no retry need start one;
  the property is about sessions left alone.
- *Watch, schedule, loop*: the machine is awake, so a process gets to its next nap
  within a unit of time (`Timely`); somebody keeps sweeping, as every ticker and Stop
  hook does.  At most `MAX_CRASHES` processes die.  The until command of a watch or a
  schedule may hang for ever (`Probe` is not fair); that of a loop comes back, but may
  fail for ever.  Nobody need stop, cancel or edit anything.
- *Card*: what has begun goes on, the refresh tick comes round, a turn ends.  A client
  need not answer, a drain need not come, a turn need not wait again.
- *Revival*: the ticker of some host makes passes while the reviver is on; time passes
  (strong fairness on `Interval`, which is disabled while a pass runs).
- *Relay*: its read loops and write pumps run, its pings find a dead peer; the loop of a
  running host claims, connects, and looks at its role; a handler that began ends.  Hosts
  need not be started, phones need not answer, connect or time out.
- *Handoff*: none; nothing tells a listener that never comes from one that is late.

### Where a property stops

Properties that hold with a named exception, and runs that do not reach all of their module:

- *Lease*: a dsh session has no process of its own for a turn (`core/parked.rs:135`), so a
  turn of it that outlives `SPAWN_GRACE` is outside the premise of `Tick`, and outside the
  lease properties.
- *Unlocked stores*: `OnceIfSerialised`, `SettledForGood`, `CeilingIfSerialised`,
  `StoppedForGood` and `GoneStaysGone` do not catch a stale copy that is written back; they
  say that nothing else does the damage.  The copies themselves are listed below.
- *Watch*: in the run the deadline comes with the time-out, so the early check-in
  (`EXPECT` before `TIMEOUT`) is exercised by the theorems only.  *Loop*: the until command
  is taken to return within a poll, although `gate_met` sets it no limit
  (`process_util.rs:163`).
- *Card*: the run has one client; the theorems have any number.
- *Relay*: `SuccessIsTrue` is about what the user is told.  That an answer is not *given*
  twice is `OneDelivery` of `Card`; the dedup of the host forgets after five minutes and with
  its process.  `DoublesEnd` is about one desktop process among headless ones, and takes a
  claim of the role that cannot be written for one that was (`relay_role.rs:127`).

### What does not hold

- `NothingLost`.  All drains of a session use one `.draining` path.  While a refused
  drain puts its messages back and then releases its claim, a second drain may have
  renamed the queue onto the same path; `release_claim` removes it before it is read.
- `SwapKeeps`.  `recover_orphaned_response_with` parks the card and then cleans the live
  pair up, without the card's lock.  A drain that reopens the card in between
  (`unpark_for_messages`, under the lock) has its request and detached record removed,
  and then removes the parked file itself: the card is nowhere.

Further disagreements with comments were met while modelling; the modules have the
behaviour, no run is spent on it.

- *Queue*: `append_to_queue` reads the queue, and writes it back after a drain has
  delivered it: the messages come back and are delivered again.  `DeliveredOnce`
  excludes exactly the messages claimed under the hands of a writer (`mixed`).
- *Watch*: `reconcile_in` writes stranded records back without the store lock; one that
  fired in between returns and fires again, so `OneFirePerRecord` excludes a record that
  came back.  `check_in_in` interrupts whatever turn is live, and the answer a fire asks
  for first may be old when it interrupts (`watch.rs:1736`).  A sweep that read a watch
  before its check-in was marked writes it back unmarked (`watch.rs:1645`).
- *Schedule*: `claim_transition_in` says "exactly once" and takes no lock, so two timers
  can both be granted; the late stamp of `record_fired_session_in` can undo an edit or a
  cancellation.  *Loop*: "cannot double-fire" (`agent_loop.rs:31`) fails alike.
- *Lease*: `refuse_if_retired` runs before the lease and not again under it, so an
  automatic resume can begin after the takeover was recorded (`session_driver.rs:675`).
  The parked cards are read before the store lock is taken; a card parked in between
  does not stop a continue resume (`session_driver.rs:339`).
- *Retry*: a resume that is refused has already lost its intent's token, so the intent
  is not withdrawn "the tick its session stops qualifying" (`headless_runtime.rs:121`)
  but stands until its 24 h run out.
- A session that is errored *and* has an ask card parked keeps its queue until the
  user answers: the queue waits for the retry, the retry for the card, and only a
  drain makes the card step aside.  A session whose error outlives its retries
  (`max_server_error_retries`, three by default), or that runs with `retry_server_errors`
  off, keeps its queue until somebody else starts a turn: `is_drainable`
  (`pending_message.rs:432`) skips a session that ended on a server error, although
  nothing will retry it.  `QueueIsDrained` excludes these two, and a card of another
  kind, which only the user can clear.
- The messages in the claim file of a drainer that died are delivered by nobody, since
  only a rename onto the file is ever followed by a read.
- *Card*: the `cleanup` of a timed-out wait does not take the lock of `write_response`,
  so an accepted answer can go with it; it removes the request before the parked file
  is written, so a crash there loses the card; `discard` removes the lock file while the
  card is still parked; a crash between the resume and the discard answers twice; a card
  whose process died before its poll, and that never stepped aside, is answered and
  stranded; a dead sweep's claim is never listed again.
- *Revival*: the boss's go (`boss_approved`) is cleared only when a session is woken, so
  if the spawn is refused because he went on with the plan himself, and he closes it again
  later, the old go still counts and the plan is revived without asking, although "Fleet
  raises a card and asks first" (`plan_revive.rs:26`).  A failed spawn counts an attempt
  but does not move the mark that progress is measured from, so once boxes were ticked since
  the last revival every pass forgives the attempt of the one before: a spawn that can never
  succeed is tried for ever and no card is raised, although it "must still hit the fruitless
  cap instead of retrying every tick" (`plan_revive.rs:1823`).  `StrandedIsServed` excludes
  exactly this (`SpawnsForgiven`).  A crash between removing a card and writing the state
  turns a go into a snooze; a crash after the card was raised raises a second one; a crash
  between spawn and record leads to a second session (`WokenCapped` excludes crashed passes).
- *Relay*: an attempt that arrives while the delivery of an earlier one is under way is
  told yes at once, and that delivery may still fail; the claim is given back "so the
  phone's retry is not short-circuited into a false success" (`mobile_relay.rs:628`), which
  this is.  A handler that panics answers no (`mobile_relay.rs:4800`), and nothing takes its
  claim back, so the next attempts are told yes for up to five minutes.  `SuccessIsTrue`
  excludes these two (`hasty`).  A frame held because every write queue
  was full stays held behind a host that reads again until some host joins (`Behind`),
  although `pending` is "only ever non-empty while the channel has no agent connection"
  (`registry.rs:72`).  A queued answer "can no longer be lost" (`DecisionsView.tsx:306`), but
  its lifetime, the cap, a restart of the relay, or the loss of the connection or process it
  was handed to lose it; `Custody` names these.  A host that does not remember an answer (it
  was restarted, five minutes have passed, or another process has the role) refuses a late
  copy of an answer that took effect.
- *Handoff*: for codex and dsh, a session that registers again, or before the link that
  leads to it is on disk, forks the chain and may relay twice (`torn`), and relays may
  get longer than `MAX_CHAIN_HOPS`; a hook killed between link and spawn leaves a link
  to nobody, one killed after the take loses the baton.

## 4. What is proved

For any number of dispatches, processes, tokens, timers, sessions, phones, hosts and connections,
and any caps and durations that the named assumptions of the modules allow:

| module | theorem | of |
|---|---|---|
| `Lease_proofs` | `TypeCorrect` | `TypeOK` |
| `Lease_proofs` | `NeverTwoTurns` | `OneTurn` |
| `Lease_proofs` | `HiddenTurnIsLeased` | `HiddenIsLeased` |
| `Lease_proofs` | `LeaseIsKept` | `LeaseKept` |
| `Lease_proofs` | `NeverTwoTakeovers` | `OneTakeover` |
| `Lease_proofs` | `Refinement` | `ImplementsOneDriver` |
| `Lease_proofs` | `RetryThroughTheLease` | `ThroughTheLease` |
| `Lease_proofs` | `RetryTypes` | `RTypeOK` |
| `PendingMessage_proofs` | `QueueTypes` | `PTypeOK` |
| `PendingMessage_proofs` | `DeliveredOnceAlways` | `DeliveredOnce` |
| `Watch_proofs` | `WatchTypes` | `WTypeOK` |
| `Watch_proofs` | `FiresOncePerRecord` | `OneFirePerRecord` |
| `Watch_proofs` | `RemovedStaysRemoved` | `GoneStaysGone` |
| `Schedule_proofs` | `ScheduleTypes` | `STypeOK` |
| `Schedule_proofs` | `OnceWhenSerialised` | `OnceIfSerialised` |
| `Schedule_proofs` | `SettledStays` | `SettledForGood` |
| `AgentLoop_proofs` | `LoopTypes` | `LTypeOK` |
| `AgentLoop_proofs` | `CeilingWhenSerialised` | `CeilingIfSerialised` |
| `AgentLoop_proofs` | `StoppedStays` | `StoppedForGood` |
| `Card_proofs` | `CardTypes` | `CTypeOK` |
| `Card_proofs` | `AnsweredOnce` | `OneDelivery` |
| `Card_proofs` | `CardIsKept` | `CardKept` |
| `Succession_proofs` | `ReviveTypes` | `VTypeOK` |
| `Succession_proofs` | `WokenStaysCapped` | `WokenCapped` |
| `Succession_proofs` | `HandoffTypes` | `HTypeOK` |
| `Succession_proofs` | `HandsOnOnce` | `OneHeir` |
| `Succession_proofs` | `LinksAreHeirs` | `ChainsAreTrue` |
| `Succession_proofs` | `RelayEnds` | `RelayCapped` |
| `MobileRelay_proofs` | `RelayTypes` | `MTypeOK` |
| `MobileRelay_proofs` | `CustodyHolds` | `Custody` |
| `MobileRelay_proofs` | `SuccessHolds` | `SuccessIsTrue` |

**The lease.**  `OneTurn` is not inductive: a grant looks at the store and at the
process table, and a second turn that is in neither would go unnoticed.  The
invariant adds `HiddenIsLeased` (a turn out of sight is covered by its own lease,
at most `VisibleWithin` old) and `ProcOfSlot` (which slots have a process).  Then
every turn is *seen*: if hidden by its lease, which is younger than `SPAWN_GRACE`
and so believed without a process; if visible by the process table.  A grant needs a
session on which nothing is seen, so it goes to a free one (`GrantToFree`); no other
action begins a turn (`NobodyBegins`).  `HiddenIsLeased` is kept because only its
holder, a stale-lease drop or a new grant changes a lease, and each is excluded while
the turn is hidden (`LeaseStays`).  `OneTakeover` is inductive on its own: a takeover
intent refuses every other acquire whatever its class.  The refinement maps `driving`
to the slots between grant and the end of their process.

**The retry.**  Every step of the composition is a step of `SessionDriver` or leaves
its variables alone, provided the lease instance knows the class and the intents of
the ticker (`Vocabulary`).  All theorems on the lease therefore hold with tickers.

**The watch.**  The invariant says that whoever is inside the store lock is alone and
its record is there (`LockHeld`), that whatever is going to be written is a record
(`CopiesHeld`), and that after a fire the record is gone unless it was put back
(`FiredAndGone`).  A second claim needs a record, so it needs one put back; a
heartbeat writes only inside the lock, where the record still is, so it never puts one
back.

**Schedule and loop.**  There is no lock to reason from, so the invariant is about
copies: unless its holder is in `raced`, a copy is of the record that is there
(`UpToDate`), and as long as no raced copy was written the claims are counted: one for a
schedule (`OneClaim`), as many as `iterations_done` for a loop (`Counted`).  A claim is
written from a copy of a record that was pending, or live, when read; if the copy is up
to date so is the record, and nobody was granted the same tick before.  For a loop the
count is then below the limit of that very record, so the limit in force holds however
often it is edited.  A second grant
therefore needs a lost update.  `Settled` and `Stopped` are closed under every step,
since whoever writes needs a copy, and whoever reads finds no pending record to copy.

**The queue.**  `OnePlace(m)`: a message that was never claimed under a writer's hands
(`mixed`) is in exactly one of the queue, the claim file, a drainer's hands and the turns
it was given to, and in the last two with one drainer only; a message that was not sent is
in none (`Nowhere`).  The rename and the read of the claim file move it, nobody copies it;
a writer that would put an old queue back turns what was claimed meanwhile into `mixed`
before it writes.  `DeliveredOnce` follows, since two deliveries are two places.

**The card.**  The types need `Roles` (which process can be at which step).  The rest,
`Core`, holds until a recovery and a reopening race on the card (`raced`): `WaitOwns` and
`WorkOwns` say what the waiting turn and a working process may rely on, `Given` that an
answer that was given is given by somebody who still holds the card, `Kept` that a card
is in a store, in hand, or ended on purpose.  A step by which a process begins to work is
shown to find nobody at work (`Enters`); every other step is then about a process that
works alone (`Alone`).

**The reviver.**  `WokenCapped` counts sessions, the code attempts, and the two drift
apart in every pass.  The invariant ties them at the state that counts, `Current` (in
memory during a pass, on disk between passes): as long as no pass died, its attempts are
at least the sessions woken and its mark of progress is the one last seen (`Counted`); a
spawn happens only below the budget (`SpawnsInBudget`), and a pass between spawn and
attribution is one short at most (`CapKept`).

**The handoff.**  All three properties come from one invariant, `HInv`, in which chains are
spoken of by their entries (`Entry`: the i-th link of a chain leads from s to t).  `Alive`
and `Distinct` say that an id is given out once: no session is led to by two entries, nor
by an entry and a consumer that is about to write one.  From there on the invariant is
about one session at a time, as long as it is not `torn`.  `Untorn(s)`: its baton is in one
place (the registration, the pending file, one consumer's hands), and names the one chain
the session is on.  `Ends(s)`: it has at most one successor, and its links are its
successors, or differ from them by exactly what the one consumer in the middle of its
relay has not done yet (`Midway`).  `OneHeir` and `ChainsAreTrue` are the two halves of
`Ends`.  A disturbed session says nothing more, but it cannot disturb another: what a step
writes to a chain is for the session its consumer works for (`OneHand`), and a name never
spreads (`NamesShrink`).  `RelayCapped` is about Claude sessions, torn ones too: there is
one chain, a single path that starts at First and is shorter than the cap (`Paths`), a
session that was started is as deep as its link is far along it (`Depths`), and a baton
that names the chain is at the end of a chain with room for one more (`Tails`).  The last
needs what `HopOf` yields at the end of such a path, `TailHop`: the number of links plus
one.  That follows from the definition without induction, because the ids `session_ids`
writes twice are counted as a set (`Starts`), which on a path is the first link alone.

**The relay.**  A frame goes from the phone's socket (`up`) to custody (`held`) or to
connections, and from custody to a connection, never back.  `UpOnce` and `HeldOnce` say so:
what has not arrived is neither held nor handed on, what is held is held once and was not
handed on (`Given`: in a write queue, with a handler, or settled).  A new frame is in none
of these places because it bears a number that was not used (`Numbered`).  Every step but
the sending of a frame and its arrival is `Onward`: it holds nothing new, hands on only
what was handed on or held before, and forgets no frame that is cared for (on its way to
a handler, or settled).  `Custody` follows, with `Kept`: what a phone heard or is about to
hear to be in custody is cared for, since the report on it is made when it is put there, and
every step that loses a frame settles it.  For `SuccessIsTrue` the invariant adds `Claimed`:
a claim that a host remembers was made good, or its delivery panicked (`stuck`), or is at
work in that host, so a duplicate that is told yes is either right or `hasty`.  `MTypeOK` needs `Sent`: who told the
user nothing has sent nothing, so that the number of attempts stays within its bound.

Every invariant above was checked by TLC on the instance of its run before it was proved.

Only model-checked: everything temporal under fairness (`LeaseHeals`, `RetryServed`,
`QueueIsDrained`, `WatchEnds`, `ScheduleEnds`, `TickIsTaken`, `AnswerSwept`,
`StrandedIsServed`, `QueuedIsServed`, `DoublesEnd`), since the prover has no support for
`ENABLED`; and `HopsAgree`, that the hop count of the model is the one of the code, which
is an induction over chains.  Every invariant and every action property of a passing run
is a theorem.  No module uses a RECURSIVE operator, and nothing here is proved by induction
over data, which the installed provers cannot instantiate.

## 5. Plan

In this order:

1. `Watch`: updates, targets in other sessions, records shared after a handoff;
2. `Card`: dismissals, and two cards of one session, of which a drain reopens one;
3. `ResumeRetry`: the resume after a rate limit, and the failure backoff;
4. `MobileRelay`: presence and push, the dedup of the other writes (`spawn_session`,
   `resume_session`, `enqueue_message`);
5. subtask recovery and the healing of stale job records, as pure classifications.

Not planned: parsing of transcripts, search, usage arithmetic, document storage, user
interfaces, and the archived cloud API; they have no protocol, or only the operating
system's.
