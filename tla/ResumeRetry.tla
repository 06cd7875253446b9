---------------------------- MODULE ResumeRetry ----------------------------
(***************************************************************************)
(* The server-error retry of headless_runtime.rs driving a session through *)
(* the lease.  Every Fleet process runs a 30 s ticker: it scans the        *)
(* session, brings its registered intent in line with what it wants        *)
(* (sync_resume_intents) and resumes the session when a retry is due       *)
(* (maybe_fire_auto_resume).  The lease, the turns, the user, takeovers    *)
(* and crashes are those of SessionDriver.                                 *)
(*                                                                         *)
(* Left out: the rate-limit resume, which uses the same intents and slots  *)
(* with a time gate; the global concurrency cap (one session here).        *)
(***************************************************************************)
EXTENDS SessionDriver

CONSTANTS
  MAX_RETRIES,   \* config.max_server_error_retries
  DEBOUNCE,      \* no second fire for a session within this
  OtherClasses,  \* what others ask for the session with
  OtherSlots,    \* the slots their dispatches take
  MAX_CRASHES    \* Fleet processes that die (a bound)

ASSUME RetryAssumption ==
  /\ MAX_RETRIES \in Nat /\ DEBOUNCE \in Nat /\ MAX_CRASHES \in Nat
  /\ OtherClasses \subseteq Classes /\ OtherSlots \subseteq Slots

VARIABLES
  errored,   \* the session's last turn ended on a server error
  tick,      \* tick[h]: the ticker of process h and its in-memory maps
  crashes

rest == <<errored, crashes>>
rvars == <<vars, rest, tick>>

\* errored, alive: the session as the last scan saw it.  want: desired_resume_intents.
\* token: intent_tokens.  tries: server_errors.  cool: debounce left.
Ticker == [pc : {"scan", "desire", "sync", "register", "fire"},
           errored : BOOLEAN, alive : BOOLEAN, want : BOOLEAN,
           token : Tokens \cup {NoToken}, tries : 0..MAX_RETRIES, cool : 0..DEBOUNCE]

RTypeOK == /\ TypeOK /\ errored \in BOOLEAN /\ tick \in [Procs -> Ticker]
           /\ crashes \in 0..MAX_CRASHES

NewTicker == [pc |-> "scan", errored |-> FALSE, alive |-> FALSE, want |-> FALSE,
              token |-> NoToken, tries |-> 0, cool |-> 0]

RInit == Init /\ errored = TRUE /\ crashes = 0 /\ tick = [h \in Procs |-> NewTicker]
-----------------------------------------------------------------------------
\* The ticker's own dispatch is a call it waits for.
Resuming(h) == \E a \in Slots : /\ slot[a].host = h /\ slot[a].class = "continue"
                                /\ slot[a].pc \in {"check", "derive", "acquire", "spawn"}

Scan(h) ==
  /\ tick[h].pc = "scan" /\ ~Resuming(h)
  /\ tick' = [tick EXCEPT ![h] =
       [@ EXCEPT !.pc = "desire", !.errored = errored, !.alive = SessionAlive]]
  /\ UNCHANGED <<vars, rest>>

\* desired_resume_intents: the scanned session is errored and dead, budget is
\* left, and no successor is on record.
Wants(h) == tick[h].errored /\ ~tick[h].alive /\ tick[h].tries < MAX_RETRIES /\ ~retired

Desire(h) ==
  /\ tick[h].pc = "desire"
  /\ tick' = [tick EXCEPT ![h] = [@ EXCEPT !.pc = "sync", !.want = Wants(h)]]
  /\ UNCHANGED <<vars, rest>>

\* sync_resume_intents, the session no longer wanted: withdraw the tracked intent.
SyncWithdraw(h) ==
  /\ tick[h].pc = "sync" /\ ~tick[h].want
  /\ IF tick[h].token # NoToken THEN Withdraw(tick[h].token) ELSE UNCHANGED vars
  /\ tick' = [tick EXCEPT ![h] = [@ EXCEPT !.pc = "fire", !.token = NoToken]]
  /\ UNCHANGED rest

\* Still wanted: keep the tracked intent if pending_held, else register anew.
Held(h) == \E p \in OpenPending : p.token = tick[h].token

SyncHeld(h) ==
  /\ tick[h].pc = "sync" /\ tick[h].want
  /\ IF tick[h].token # NoToken THEN Observe ELSE UNCHANGED vars
  /\ tick' = [tick EXCEPT ![h] = [@ EXCEPT !.pc = IF Held(h) THEN "fire" ELSE "register"]]
  /\ UNCHANGED rest

Untracked(h, t) == \A g \in Procs \ {h} : tick[g].token # t

SyncRegister(h, t) ==
  /\ tick[h].pc = "register"
  /\ Untracked(h, t)
  /\ Register(h, t, [class |-> "continue", yields |-> TRUE])
  /\ tick' = [tick EXCEPT ![h] = [@ EXCEPT !.pc = "fire", !.token = t]]
  /\ UNCHANGED rest

\* The budget of an episode starts over once the session is not errored.
Tries(h) == IF tick[h].errored THEN tick[h].tries ELSE 0

\* What the ticker of h scanned is of no use to its next tick.
Over(h) == [tick[h] EXCEPT !.pc = "scan", !.errored = FALSE, !.alive = FALSE, !.want = FALSE]

\* Mutants: no budget; the last attempt of the budget is never made.
DueWithoutBudget(h) == tick[h].errored /\ ~tick[h].alive /\ tick[h].cool = 0
DueOneLess(h) == /\ tick[h].errored /\ ~tick[h].alive
                 /\ tick[h].cool = 0 /\ Tries(h) + 1 < MAX_RETRIES

Due(h) == /\ tick[h].errored /\ ~tick[h].alive
          /\ tick[h].cool = 0 /\ Tries(h) < MAX_RETRIES

\* Mutant: the retry asks for the lease itself, past refuse_if_retired.
FireUnchecked(h, a) ==
  /\ tick[h].pc = "fire" /\ Due(h)
  /\ slot[a].pc = "idle"
  /\ slot' = [slot EXCEPT ![a] = [pc |-> "derive", host |-> h, class |-> "continue",
                                 own |-> tick[h].token, seen |-> {}, again |-> FALSE]]
  /\ tick' = [tick EXCEPT ![h] = [Over(h) EXCEPT !.token = NoToken,
                                             !.tries = Tries(h) + 1, !.cool = DEBOUNCE]]
  /\ UNCHANGED <<running, pending, derived, retired, proc, user, rest>>

\* Fire: the attempt is counted, the token leaves the map and goes along.
Fire(h, a) ==
  /\ tick[h].pc = "fire" /\ Due(h)
  /\ Request(a, h, "continue", tick[h].token)
  /\ tick' = [tick EXCEPT ![h] = [Over(h) EXCEPT !.token = NoToken,
                                             !.tries = Tries(h) + 1, !.cool = DEBOUNCE]]
  /\ UNCHANGED rest

\* Nothing due: the tick ends.
NoFire(h) ==
  /\ tick[h].pc = "fire" /\ ~Due(h)
  /\ tick' = [tick EXCEPT ![h] = [Over(h) EXCEPT !.tries = Tries(h)]]
  /\ UNCHANGED <<vars, rest>>

\* Held back before anything is picked: offline, or every resume slot taken.
HoldBack(h) ==
  /\ tick[h].pc = "fire"
  /\ tick' = [tick EXCEPT ![h] = Over(h)]
  /\ UNCHANGED <<vars, rest>>

Prepare(h) ==
  Scan(h) \/ Desire(h) \/ SyncWithdraw(h) \/ SyncHeld(h) \/ \E t \in Tokens : SyncRegister(h, t)

TickerStep(h) == Prepare(h) \/ (\E a \in Slots \ OtherSlots : Fire(h, a)) \/ NoFire(h) \/ HoldBack(h)
-----------------------------------------------------------------------------
\* How a turn ends is its own affair, and so is the user's; one that gets going
\* moves the transcript on from the error.
TurnEnds == (\E a \in Slots : proc[a] # "none" /\ proc'[a] = "none") \/ (user /\ ~user')

TurnOutcome == \/ TurnEnds /\ errored' \in BOOLEAN
               \/ ~TurnEnds /\ errored' = (errored /\ ~SessionAlive')

\* Everybody else: manual and answer dispatches, turns, the user, the reviver.
Elsewhere ==
  /\ \/ \E a \in OtherSlots, h \in Procs, c \in OtherClasses : Request(a, h, c, NoToken)
     \/ \E a \in Slots : Resume(a)
     \/ \E t \in HoldTokens, seen \in SUBSET DerivedClasses : HoldForTakeover(seen, t)
     \/ Observe \/ Retire \/ DerivedChanges \/ UserStarts \/ UserExits
  /\ TurnOutcome
  /\ UNCHANGED <<tick, crashes>>

RCrash(h) ==
  /\ crashes < MAX_CRASHES /\ crashes' = crashes + 1
  /\ Crash(h)
  /\ tick' = [tick EXCEPT ![h] = NewTicker]
  /\ UNCHANGED errored

RTick ==
  /\ Tick
  /\ tick' = [h \in Procs |-> [tick[h] EXCEPT !.cool = IF @ > 0 THEN @ - 1 ELSE 0]]
  /\ UNCHANGED rest

RNext == Elsewhere \/ RTick \/ \E h \in Procs : TickerStep(h) \/ RCrash(h)

RSpec == RInit /\ [][RNext]_rvars

(* The ticker thread keeps ticking and is not held back for ever when a retry  *)
(* is due (SF on Fire); a dispatch thread gets on with its dispatch and a      *)
(* reaper with its release; time passes, also when one hidden turn after       *)
(* another makes its premise (VisibleWithin) false for a while (SF).  Nothing  *)
(* is assumed about requests, about turns ending, or about the user.           *)
RFairness ==
  /\ SF_rvars(RTick)
  /\ \A h \in Procs :
       /\ WF_rvars(Prepare(h) \/ NoFire(h) \/ HoldBack(h))
       /\ SF_rvars(\E a \in Slots \ OtherSlots : Fire(h, a))
  /\ \A a \in Slots :
       WF_rvars((Resume(a) /\ ~Exit(a)) /\ TurnOutcome /\ UNCHANGED <<tick, crashes>>)

RFairSpec == RSpec /\ RFairness
-----------------------------------------------------------------------------
(* An errored session is not forgotten.  Some turn gets it going again, or it   *)
(* was replaced, a card waits for the user, the user is at it; failing that,    *)
(* every ticker tries again until it spent its budget (select_server_error_-    *)
(* retries), also when an attempt was turned away by another dispatch or a      *)
(* takeover, failed to start, or the process died.                              *)
RetryServed ==
  []<>(\/ ~errored \/ retired \/ "answer" \in derived \/ user
       \/ \A h \in Procs : tick[h].tries = MAX_RETRIES)

(* The ticker drives the session through the lease and in no other way: every  *)
(* step of it and of its process is a step of SessionDriver, so what is proved  *)
(* of SessionDriver holds with any number of tickers at work.                   *)
ThroughTheLease == Spec
=============================================================================
