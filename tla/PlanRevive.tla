----------------------------- MODULE PlanRevive -----------------------------
(***************************************************************************)
(* claw-fleet-core/src/plan_revive.rs: the reviver and ONE plan with open  *)
(* boxes.                                                                  *)
(*                                                                         *)
(* A pass runs under the lock of the state file, so the passes of all      *)
(* hosts are one sequential process; each of its steps is followed by an   *)
(* effect other programs see, and the process may die after any of them:   *)
(* the state file is written last.  Around it sessions come and go, boxes  *)
(* are ticked, and the boss closes, answers and snoozes.                   *)
(*                                                                         *)
(* Time is counted in pass intervals and moves between passes.  Left out:  *)
(* the text of cards and prompts, other plans (they only take the slots),  *)
(* a plan that stops being a candidate with boxes open, unreadable stores. *)
(***************************************************************************)
EXTENDS Integers

CONSTANTS
  GRACE,         \* ORPHAN_GRACE_MS, in pass intervals
  SLEEP_GAP,     \* SLEEP_GAP_MS, in pass intervals
  MAX_FRUITLESS,
  TOTAL,         \* the boxes of the plan
  MAX_GAP,       \* intervals without a pass (a bound)
  MAX_FAULTS     \* passes offline or without a slot, hosts that die (a bound)

ASSUME ReviveAssumption ==
  /\ GRACE \in Nat \ {0} /\ SLEEP_GAP \in Nat \ {0} /\ MAX_FRUITLESS \in Nat \ {0}
  /\ TOTAL \in Nat \ {0} /\ MAX_GAP \in Nat \ {0} /\ MAX_FAULTS \in Nat

VARIABLES
  file,    \* the plan's PlanReviveState and the pause, as on disk
  gap,     \* intervals since last_pass_ms
  pc,      \* the step the pass is at
  work,    \* what the pass has in memory
  view,    \* the PlanView of the pass; of the last pass, only the boxes it saw ticked
  done,    \* boxes ticked
  cover,   \* who is on the plan: its newest owner, a session the reviver woke
           \* (a stray one is not attributed to the plan), another owner, or nobody
  died,    \* the woken session on record died of an account error
  closed,  \* "ask": the boss finished the newest owner, or the plan is an explore plan's
           \* child nobody claimed; "abandoned": he abandoned the newest owner
  snoozed, enabled,
  card,    \* the reviver's card about the plan is on the screen or answered
  faults,
  woken,   \* sessions woken since a pass saw a new box ticked or the boss said go;
           \* one lost to the account is not counted
  crashed  \* a pass died, and so may have forgotten what it did

disk == <<file, gap>>
memory == <<pc, work, view>>
plan == <<done, cover, died, closed, snoozed>>
boss == <<enabled, card>>
vars == <<disk, memory, plan, boss, faults, woken, crashed>>
-----------------------------------------------------------------------------
None == -1
MAX_AGE == GRACE + MAX_GAP   \* an older orphan is as ripe after any freeze

State == [orphan : {None} \cup 0..MAX_AGE, attempts : 0..MAX_FRUITLESS, doneAt : 0..TOTAL,
          revived : BOOLEAN, card : BOOLEAN, fruitless : BOOLEAN, approved : BOOLEAN,
          paused : BOOLEAN, pcard : BOOLEAN]

Fresh == [orphan |-> None, attempts |-> 0, doneAt |-> 0, revived |-> FALSE, card |-> FALSE,
          fruitless |-> FALSE, approved |-> FALSE, paused |-> FALSE, pcard |-> FALSE]

Closures == {"no", "ask", "abandoned"}

VTypeOK ==
  /\ file \in State /\ work \in State /\ gap \in 0..MAX_GAP
  /\ pc \in {"idle", "pause", "decide", "spawn", "attribute", "write"}
  /\ view \in [done : 0..TOTAL, closed : Closures] /\ done \in 0..TOTAL
  /\ cover \in {"none", "owner", "other", "stray", "revived"}
  /\ died \in BOOLEAN /\ closed \in Closures /\ snoozed \in BOOLEAN /\ enabled \in BOOLEAN
  /\ card \in BOOLEAN
  /\ faults \in 0..MAX_FAULTS /\ woken \in 0..MAX_FRUITLESS + 1
  /\ crashed \in BOOLEAN

\* A plan whose session just went, or a child of an explore plan nobody has started.
Init ==
  /\ file = Fresh /\ gap = 0 /\ pc = "idle" /\ work = Fresh
  /\ done = 0 /\ cover = "none" /\ died = FALSE /\ snoozed = FALSE
  /\ closed \in {"no", "ask"} /\ view = [done |-> 0, closed |-> "no"]
  /\ enabled = TRUE /\ card = FALSE
  /\ faults = 0 /\ woken = 0 /\ crashed = FALSE
-----------------------------------------------------------------------------
\* apply_answer: go ripens the orphan clock, and gives a fruitless plan one more try.
Apply(st, answer) ==
  CASE answer = "none" -> st
    [] answer = "go" ->
         [st EXCEPT !.card = FALSE, !.fruitless = FALSE, !.approved = TRUE, !.orphan = GRACE,
                    !.attempts = IF st.fruitless THEN MAX_FRUITLESS - 1 ELSE @]
    [] answer = "snooze" -> [st EXCEPT !.card = FALSE, !.fruitless = FALSE]

OneMore(n) == IF n >= MAX_FRUITLESS THEN MAX_FRUITLESS - 1 ELSE n

\* tick: the lock, the state file, the plan as it is now, and the answers first.  The
\* card is removed here, the state is written at the end; a card that is gone without
\* an answer snoozes the plan.
Load ==
  /\ pc = "idle" /\ enabled /\ pc' = "pause"
  /\ \E answer \in {"none", "go", "snooze"} :
       /\ answer = "none" \/ file.card
       /\ file.card /\ ~card => answer = "snooze"
       /\ work' = Apply(file, answer)
       /\ card' = (card /\ answer = "none")
       /\ snoozed' = IF answer = "none" THEN snoozed ELSE answer = "snooze"
       /\ view' = [done |-> done, closed |-> closed]
       /\ LET since == IF done > view.done THEN 0 ELSE woken
          IN woken' = IF answer = "go" /\ file.fruitless THEN OneMore(since) ELSE since
  /\ UNCHANGED <<disk, done, cover, died, closed, enabled, faults, crashed>>

\* Mutant: the subtraction does not saturate.
LessWrapping(n) == n - 1

Less(n) == IF n = 0 THEN 0 ELSE n - 1

Refund(st) == [st EXCEPT !.attempts = Less(@), !.revived = FALSE, !.paused = TRUE]

\* tick_pause: the boss's answer on its card (gone: declined, or withdrawn); then a woken
\* session that died of an account error gives its attempt back and pauses the reviver;
\* then the card, raised at once for a new pause and again some time (PAUSE_REASK_MS)
\* after it went unanswered.
Pause ==
  /\ pc = "pause"
  /\ \E answer \in {"none", "go", "off", "gone"}, raise \in BOOLEAN :
       LET heard == [work EXCEPT !.pcard = @ /\ answer = "none",
                                 !.paused = @ /\ answer \in {"none", "gone"}]
           lost == answer # "off" /\ heard.revived /\ died
           st == IF lost THEN Refund(heard) ELSE heard
       IN /\ answer = "none" \/ work.pcard
          /\ raise => st.paused /\ ~st.pcard
          /\ st.paused /\ ~heard.paused => raise
          /\ work' = [st EXCEPT !.pcard = @ \/ raise]
          /\ enabled' = (enabled /\ answer # "off")
          /\ pc' = IF answer = "off" \/ st.paused \/ view.done = TOTAL THEN "write" ELSE "decide"
          /\ woken' = IF lost THEN Less(woken) ELSE woken
  /\ UNCHANGED <<disk, view, plan, card, faults, crashed>>

\* Mutant: after a sleep-sized gap the pass interval is lost too.
LostAll(online) == IF ~online \/ gap > SLEEP_GAP THEN gap ELSE 0

\* freeze_orphan_clocks: the time nobody could have worked does not count.
Lost(online) == IF ~online THEN gap ELSE IF gap > SLEEP_GAP THEN gap - 1 ELSE 0

Thawed(st, lost) ==
  IF st.orphan = None THEN st
  ELSE [st EXCEPT !.orphan = IF @ > lost THEN @ - lost ELSE 0]

\* decide, up to its step: progress forgives, being left starts the clock.
Forgiven(st) == [st EXCEPT !.attempts = IF view.done > st.doneAt THEN 0 ELSE @]
Left(st) == [st EXCEPT !.orphan = IF @ = None THEN 0 ELSE @]
Covered == cover \in {"owner", "other", "revived"}

Idle(st) == work' = st /\ pc' = "write" /\ UNCHANGED <<card, snoozed>>

\* The card is raised here; for a fruitless plan, after a snooze.
Ask(st, fruitless) ==
  /\ work' = [st EXCEPT !.card = TRUE, !.fruitless = fruitless, !.orphan = None]
  /\ card' = TRUE /\ pc' = "write" /\ snoozed' = (snoozed \/ fruitless)

Decide ==
  /\ pc = "decide"
  /\ \E online, slot \in BOOLEAN :
       LET st == Thawed(work, Lost(online))
           f == Forgiven(st)
           o == Left(f)
       IN /\ (online /\ slot) \/ faults < MAX_FAULTS
          /\ faults' = IF online /\ slot THEN faults ELSE faults + 1
          /\ IF ~online \/ st.card THEN Idle(st)
             ELSE IF snoozed \/ Covered \/ view.closed = "abandoned"
                  THEN Idle([f EXCEPT !.orphan = None])
             ELSE IF o.orphan < GRACE THEN Idle(o)
             ELSE IF ~o.approved /\ view.closed # "no" THEN Ask(o, FALSE)
             ELSE IF o.attempts >= MAX_FRUITLESS THEN Ask(o, TRUE)
             ELSE IF ~slot THEN Idle(o)
             ELSE work' = o /\ pc' = "spawn" /\ UNCHANGED <<card, snoozed>>
  /\ UNCHANGED <<disk, view, done, cover, died, closed, enabled, woken, crashed>>

\* spawn_takeover: the lease refuses while the newest owner runs or is about to.
Spawned ==
  /\ pc = "spawn" /\ cover \notin {"owner", "revived"}
  /\ pc' = "attribute" /\ cover' = "stray" /\ died' = FALSE
  /\ woken' = IF woken > MAX_FRUITLESS THEN woken ELSE woken + 1
  /\ UNCHANGED <<disk, work, view, done, closed, snoozed, boss, faults, crashed>>

\* Any spawn may fail, and fail every time.  It counts as an attempt but leaves the
\* mark where it was: boxes ticked since the last revival forgive it again.
SpawnFails ==
  /\ pc = "spawn"
  /\ pc' = "write" /\ work' = [work EXCEPT !.attempts = @ + 1, !.orphan = 0]
  /\ UNCHANGED <<disk, view, plan, boss, faults, woken, crashed>>

\* Mutant: a session that was woken is not counted.
AttributeUncounted ==
  /\ pc = "attribute" /\ pc' = "write" /\ closed' = "no"
  /\ cover' = IF cover = "stray" THEN "revived" ELSE cover
  /\ work' = [work EXCEPT !.doneAt = view.done, !.revived = TRUE, !.orphan = None,
                          !.approved = FALSE]
  /\ UNCHANGED <<disk, view, done, died, snoozed, enabled, card, faults, woken, crashed>>

\* record_takeover and set_current: the woken session is the plan's newest owner.
Attribute ==
  /\ pc = "attribute" /\ pc' = "write" /\ closed' = "no"
  /\ cover' = IF cover = "stray" THEN "revived" ELSE cover
  /\ work' = [work EXCEPT !.attempts = @ + 1, !.doneAt = view.done, !.revived = TRUE,
                          !.orphan = None, !.approved = FALSE]
  /\ UNCHANGED <<disk, view, done, died, snoozed, enabled, card, faults, woken, crashed>>

\* write_state: a finished plan without a card is forgotten.
Write ==
  /\ pc = "write" /\ pc' = "idle" /\ gap' = 0
  /\ work' = Fresh /\ view' = [view EXCEPT !.closed = "no"]
  /\ file' = IF view.done = TOTAL /\ ~work.card
             THEN [Fresh EXCEPT !.doneAt = TOTAL, !.paused = work.paused, !.pcard = work.pcard]
             ELSE work
  /\ died' = (died /\ work.revived)
  /\ UNCHANGED <<done, cover, closed, snoozed, boss, faults, woken, crashed>>

\* The host dies; the lock goes with it, and what the pass had in memory.
Crash ==
  /\ pc # "idle" /\ faults < MAX_FAULTS
  /\ pc' = "idle" /\ faults' = faults + 1 /\ crashed' = TRUE
  /\ work' = Fresh /\ view' = [view EXCEPT !.closed = "no"]
  /\ UNCHANGED <<disk, plan, boss, woken>>

Pass == Load \/ Pause \/ Decide \/ Spawned \/ SpawnFails \/ Attribute \/ Write
-----------------------------------------------------------------------------
Interval ==
  /\ pc = "idle" /\ gap < MAX_GAP /\ gap' = gap + 1
  /\ file' = [file EXCEPT !.orphan = IF @ \in {None, MAX_AGE} THEN @ ELSE @ + 1]
  /\ UNCHANGED <<memory, plan, boss, faults, woken, crashed>>

\* A session of the plan is resumed, or arms something that will resume it.  The boss
\* resuming the newest owner takes his mark and its outcome off it.
Covers ==
  /\ cover = "none" /\ done < TOTAL /\ cover' \in {"owner", "other"}
  /\ closed' \in IF cover' = "owner" THEN {closed, "no"} ELSE {closed}
  /\ UNCHANGED <<disk, memory, done, died, snoozed, enabled, card, faults, woken, crashed>>

\* It stops; a woken one perhaps of an account error, before it did anything.
Leaves ==
  /\ cover # "none" /\ cover' = "none"
  /\ died' \in IF cover = "revived" THEN BOOLEAN ELSE {died}
  /\ UNCHANGED <<disk, memory, done, closed, snoozed, boss, faults, woken, crashed>>

TicksBox ==
  /\ cover # "none" /\ done < TOTAL /\ done' = done + 1
  /\ UNCHANGED <<disk, memory, cover, died, closed, snoozed, boss, faults, woken, crashed>>

BossCloses ==
  /\ closed = "no" /\ closed' \in Closures \ {"no"}
  /\ cover' = IF cover \in {"owner", "revived"} THEN "none" ELSE cover
  /\ UNCHANGED <<disk, memory, done, died, snoozed, enabled, card, faults, woken, crashed>>

SnoozeEnds ==
  /\ snoozed /\ snoozed' = FALSE
  /\ UNCHANGED <<disk, memory, done, cover, died, closed, boss, faults, woken, crashed>>

TurnsOn ==
  /\ ~enabled /\ enabled' = TRUE
  /\ UNCHANGED <<disk, memory, plan, card, faults, woken, crashed>>

Around ==
  \/ Interval \/ Covers \/ Leaves \/ TicksBox \/ BossCloses
  \/ SnoozeEnds \/ TurnsOn

Next == Pass \/ Crash \/ Around

Spec == Init /\ [][Next]_vars

\* The ticker of a host makes passes while the reviver is on, a pass that started goes
\* on unless its host dies, and time passes.
FairSpec == Spec /\ WF_vars(Pass) /\ SF_vars(Interval)
-----------------------------------------------------------------------------
\* No more than MAX_FRUITLESS sessions are woken in a row without a box ticked, except
\* that the boss's go on the fruitless card is worth one more: whatever comes between
\* (a pause, a spawn that fails, a snooze, a closed plan), unless a pass died and forgot.
WokenCapped == crashed \/ woken <= MAX_FRUITLESS

\* A plan with open boxes that nobody is on, that is neither snoozed nor abandoned, with
\* no card out, and the reviver neither off nor paused, does not stay so for good, but
\* for one way the code leaves open: every spawn fails, on a plan that moved since it
\* was last revived.  Each pass forgives those attempts anew, so they never come to the
\* fruitless cap and its card.  A plan that did not move gets its card.
Stranded ==
  /\ enabled /\ ~file.paused /\ done < TOTAL /\ closed # "abandoned"
  /\ cover = "none" /\ ~snoozed /\ ~card
SpawnsForgiven == pc = "spawn" /\ view.done > work.doneAt
StrandedIsServed == []<>~Stranded \/ []<>SpawnsForgiven

=============================================================================
