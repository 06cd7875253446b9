---------------------------- MODULE Lease_proofs ----------------------------
(***************************************************************************)
(* Proofs about SessionDriver, for any number of dispatches, processes and *)
(* intents and any values of the durations that DurationAssumption and     *)
(* VisibleAssumption admit; and that ResumeRetry implements SessionDriver: *)
(* the retry ticker reaches the session only through the lease, so that    *)
(* they hold with any number of tickers at work.                           *)
(***************************************************************************)
EXTENDS ResumeRetry, TLAPS

\* A slot has a process exactly from the spawn until the process is gone.
ProcOfSlot == \A a \in Slots : proc[a] # "none" <=> slot[a].pc \in {"running", "orphan"}

\* OneTurn alone is not inductive: a grant looks at the store and at the process
\* table, so a turn that is in neither must be impossible.
IInv == TypeOK /\ ProcOfSlot /\ HiddenIsLeased /\ OneTurn

-----------------------------------------------------------------------------
(* The store's judgements stay within their types.                           *)
LEMMA StoreTyped ==
  ASSUME TypeOK
  PROVE  /\ OpenRunning \in RunningLease \cup {NoLease}
         /\ OpenPending \in SUBSET PendingIntent
         /\ OpenPending \subseteq pending
  BY DEF TypeOK, OpenRunning, DropStale, OpenPending, Prune

(* A turn that has not lost its lease to RUNNING_MAX is in the way of every    *)
(* other, and with_state does not take its lease off.                          *)
LEMMA TurnInTheWay ==
  ASSUME TypeOK, NEW a \in Slots, Driving(a), running # NoLease,
         running.token = a, running.age < RUNNING_MAX,
         StillHidden(a) => running.age <= VisibleWithin
  PROVE  /\ OpenRunning = running
         /\ RunningLive(running, SessionAlive)
         /\ InTheWay(OpenRunning, SessionAlive)
<1>1. running.age < SPAWN_GRACE \/ SessionAlive
  <2>1. CASE StillHidden(a)
    BY <2>1, DurationAssumption, VisibleAssumption
       DEF TypeOK, RunningLease
  <2>2. CASE ~StillHidden(a)
    <3>1. Visible(a)
      BY <2>2 DEF Driving, StillHidden, Visible, TypeOK, ProcState
    <3> QED BY <3>1 DEF SessionAlive
  <2> QED BY <2>1, <2>2
<1>2. RunningLive(running, SessionAlive)
  BY <1>1 DEF RunningLive
<1>3. OpenRunning = running
  BY <1>2 DEF OpenRunning, DropStale
<1> QED BY <1>2, <1>3 DEF InTheWay

(* Whoever still has a turn is seen: in the store or in the process table.     *)
LEMMA SeenByAll ==
  ASSUME TypeOK, HiddenIsLeased, NEW a \in Slots, Driving(a)
  PROVE  InTheWay(OpenRunning, SessionAlive)
<1>1. CASE StillHidden(a)
  <2>1. /\ running # NoLease /\ running.token = a
        /\ running.age <= VisibleWithin
    BY <1>1 DEF HiddenIsLeased
  <2>2. running.age < RUNNING_MAX
    BY <2>1, DurationAssumption, VisibleAssumption DEF TypeOK, RunningLease
  <2> QED BY <2>1, <2>2, TurnInTheWay
<1>2. CASE ~StillHidden(a)
  <2>1. Visible(a)
    BY <1>2 DEF Driving, StillHidden, Visible, TypeOK, ProcState
  <2> QED BY <2>1 DEF SessionAlive, InTheWay
<1> QED BY <1>1, <1>2

-----------------------------------------------------------------------------
(* The initial state satisfies the invariant.                                *)
LEMMA IInit == Init => IInv
<1> SUFFICES ASSUME Init PROVE IInv
  OBVIOUS
<1>1. TypeOK
  BY DEF Init, TypeOK, NoDispatch, Dispatch, SlotPC, ProcState, DriverClass
<1> QED
  BY <1>1 DEF Init, IInv, ProcOfSlot, HiddenIsLeased, OneTurn, StillHidden,
     Driving, NoDispatch
-----------------------------------------------------------------------------
(* Every action keeps the variables in their types.                          *)
LEMMA TypeStep == TypeOK /\ [Next]_vars => TypeOK'
<1> SUFFICES ASSUME TypeOK, [Next]_vars PROVE TypeOK'
  OBVIOUS
<1> USE DEF SlotPC, ProcState
<1>o. /\ OpenRunning \in RunningLease \cup {NoLease}
      /\ OpenPending \in SUBSET PendingIntent
  BY StoreTyped
<1>n. NoDispatch \in Dispatch
  BY DEF NoDispatch, Dispatch, DriverClass
<1>g. ASSUME NEW a \in Slots, NEW pc \in SlotPC, Goto(a, pc) PROVE slot' \in [Slots -> Dispatch]
  <2>1. [slot[a] EXCEPT !.pc = pc] \in Dispatch
    BY DEF TypeOK, Dispatch
  <2> QED BY <1>g, <2>1 DEF Goto, TypeOK
<1>1. ASSUME NEW a \in Slots, Requests(a) PROVE TypeOK'
  <2>1. PICK h \in Procs, c \in Classes, own \in Tokens \cup {NoToken} : Request(a, h, c, own)
    BY <1>1 DEF Requests
  <2>2. slot' \in [Slots -> Dispatch]
    BY <2>1, VisibleAssumption DEF Request, TypeOK, Dispatch
  <2> QED BY <2>1, <2>2 DEF Request, TypeOK
<1>2. ASSUME NEW a \in Slots, CheckRetired(a) PROVE TypeOK'
  <2>1. slot' \in [Slots -> Dispatch]
    BY <1>2, <1>n, <1>g DEF CheckRetired, Finish, TypeOK
  <2> QED BY <1>2, <2>1 DEF CheckRetired, TypeOK
<1>3. ASSUME NEW a \in Slots, ReadDerived(a) PROVE TypeOK'
  <2>1. [slot[a] EXCEPT !.pc = "acquire", !.seen = derived] \in Dispatch
    BY DEF TypeOK, Dispatch
  <2> QED BY <1>3, <2>1 DEF ReadDerived, TypeOK
<1>4. ASSUME NEW a \in Slots, Grant(a) PROVE TypeOK'
  <2>1. Lease(a) \in RunningLease
    BY DurationAssumption DEF Lease, RunningLease
  <2>2. Surviving(OpenPending, slot[a].own) \in SUBSET PendingIntent
    BY <1>o DEF Surviving, Others
  <2> QED BY <1>4, <1>g, <2>1, <2>2 DEF Grant, TypeOK
<1>5. ASSUME NEW a \in Slots, Refuse(a) PROVE TypeOK'
  <2>1. slot' \in [Slots -> Dispatch]
    BY <1>5, <1>n, <1>g DEF Refuse, Finish, TypeOK
  <2> QED BY <1>5, <1>o, <2>1 DEF Refuse, TypeOK
<1>6. ASSUME NEW a \in Slots, EndIdleTurn(a) PROVE TypeOK'
  <2>1. CASE Finish(a) /\ UNCHANGED proc
    BY <1>6, <1>n, <2>1 DEF EndIdleTurn, Finish, TypeOK
  <2>2. ASSUME NEW b \in Slots, proc' = [proc EXCEPT ![b] = "ending"], Goto(a, "wait")
        PROVE  TypeOK'
    <3>1. proc' \in [Slots -> ProcState]
      BY <2>2 DEF TypeOK
    <3> QED BY <1>6, <1>g, <2>2, <3>1 DEF EndIdleTurn, TypeOK
  <2> QED BY <1>6, <2>1, <2>2 DEF EndIdleTurn
<1>7. ASSUME NEW a \in Slots, WaitForExit(a) PROVE TypeOK'
  <2>1. [slot[a] EXCEPT !.pc = "derive", !.again = TRUE] \in Dispatch
    BY DEF TypeOK, Dispatch
  <2> QED BY <1>7, <2>1 DEF WaitForExit, TypeOK
<1>8. ASSUME NEW a \in Slots, Spawn(a) PROVE TypeOK'
  BY <1>8, <1>g DEF Spawn, TypeOK
<1>9. ASSUME NEW a \in Slots, SpawnFails(a) PROVE TypeOK'
  BY <1>9, <1>g DEF SpawnFails, TypeOK
<1>10. ASSUME NEW a \in Slots, Advance(a) PROVE TypeOK'
  BY <1>10 DEF Advance, TypeOK
<1>11. ASSUME NEW a \in Slots, Exit(a) PROVE TypeOK'
  <2>1. slot' \in [Slots -> Dispatch]
    BY <1>11, <1>n, <1>g DEF Exit, Finish, TypeOK
  <2> QED BY <1>11, <2>1 DEF Exit, TypeOK
<1>12. ASSUME NEW a \in Slots, Release(a) PROVE TypeOK'
  BY <1>12, <1>o, <1>n DEF Release, Finish, TypeOK
<1>13. ASSUME NEW h \in Procs, NEW t \in Tokens, NEW k \in IntentKinds, Register(h, t, k)
       PROVE  TypeOK'
  <2>1. INTENT_TTL \in 0..MaxTtl
    BY DurationAssumption DEF MaxTtl
  <2>2. [token |-> t, class |-> k.class, holder |-> h, ttl |-> INTENT_TTL, yields |-> k.yields]
          \in PendingIntent
    BY <2>1, VisibleAssumption DEF PendingIntent
  <2> QED BY <1>13, <2>2, <1>o DEF Register, TypeOK
<1>14. ASSUME NEW t \in Tokens, Withdraw(t) PROVE TypeOK'
  BY <1>14, <1>o DEF Withdraw, TypeOK
<1>15. ASSUME NEW t \in HoldTokens, NEW seen, HoldForTakeover(seen, t) PROVE TypeOK'
  <2>1. TAKEOVER_HOLD \in 0..MaxTtl
    BY DurationAssumption DEF MaxTtl
  <2>2. TakeoverHold(t) \in PendingIntent
    BY <2>1 DEF TakeoverHold, PendingIntent, DriverClass
  <2> QED BY <1>15, <2>2, <1>o DEF HoldForTakeover, TypeOK
<1>16. CASE Observe
  BY <1>16, <1>o DEF Observe, TypeOK
<1>17. CASE Retire
  BY <1>17 DEF Retire, TypeOK
<1>18. CASE DerivedChanges
  BY <1>18, VisibleAssumption DEF DerivedChanges, TypeOK, DriverClass
<1>19. CASE UserStarts \/ UserExits
  BY <1>19 DEF UserStarts, UserExits, TypeOK
<1>20. CASE Tick
  <2>1. running' \in RunningLease \cup {NoLease}
    BY <1>20, DurationAssumption DEF Tick, TypeOK, RunningLease
  <2>2. ASSUME NEW p \in pending, p.ttl > 0
        PROVE  [p EXCEPT !.ttl = @ - 1] \in PendingIntent
    <3>1. p.ttl \in 0..MaxTtl /\ MaxTtl \in Nat
      BY DurationAssumption DEF TypeOK, PendingIntent, MaxTtl
    <3>2. p.ttl - 1 \in 0..MaxTtl
      BY <2>2, <3>1
    <3> QED BY <3>2 DEF TypeOK, PendingIntent
  <2>3. pending' \in SUBSET PendingIntent
    BY <1>20, <2>2 DEF Tick, TypeOK
  <2> QED BY <1>20, <2>1, <2>3 DEF Tick, TypeOK
<1>21. ASSUME NEW h \in Procs, Crash(h) PROVE TypeOK'
  <2>1. slot' \in [Slots -> Dispatch]
    <3>1. [NoDispatch EXCEPT !.pc = "orphan", !.host = h] \in Dispatch
      BY DEF NoDispatch, Dispatch, DriverClass
    <3> QED BY <1>21, <1>n, <3>1 DEF Crash, TypeOK
  <2>2. ASSUME NEW p \in pending PROVE [p EXCEPT !.holder = Gone] \in PendingIntent
    BY DEF TypeOK, PendingIntent
  <2>3. pending' \in SUBSET PendingIntent
    BY <1>21, <2>2 DEF Crash, TypeOK
  <2> QED BY <1>21, <2>1, <2>3 DEF Crash, TypeOK
<1>22. CASE UNCHANGED vars
  BY <1>22 DEF vars, TypeOK
<1> QED
  BY <1>1, <1>2, <1>3, <1>4, <1>5, <1>6, <1>7, <1>8, <1>9, <1>10, <1>11, <1>12,
     <1>13, <1>14, <1>15, <1>16, <1>17, <1>18, <1>19, <1>20, <1>21, <1>22
     DEF Next, SlotStep, Resume, StoreStep, Environment

(* Every value of every variable has its type in every reachable state.       *)
THEOREM TypeCorrect == Spec => []TypeOK
<1>1. Init => TypeOK
  BY IInit DEF IInv
<1> QED BY <1>1, TypeStep, PTL DEF Spec
-----------------------------------------------------------------------------
(* A slot that finishes or goes elsewhere than to spawn brings no slot there.    *)
LEMMA NotToSpawn ==
  ASSUME TypeOK, NEW a \in Slots, NEW b \in Slots, NEW pc \in SlotPC \ {"spawn"},
         Finish(a) \/ Goto(a, pc), slot'[b].pc = "spawn"
  PROVE  slot[b].pc = "spawn"
<1>1. CASE Finish(a)
  BY <1>1 DEF Finish, NoDispatch, TypeOK
<1>2. CASE Goto(a, pc)
  BY <1>2 DEF Goto, TypeOK, Dispatch
<1> QED BY <1>1, <1>2

(* Slot b is given no turn in this step.                                     *)
NoNewTurn(b) ==
  /\ slot'[b].pc = "spawn" => slot[b].pc = "spawn"
  /\ Driving(b)' => Driving(b)

(* No action but a grant gives anybody a turn.                               *)
LEMMA NobodyBegins ==
  ASSUME TypeOK, ProcOfSlot, [Next]_vars,
         ~\E a \in Slots : Grant(a),
         NEW b \in Slots
  PROVE  NoNewTurn(b)
<1> USE DEF Driving, NoNewTurn
<1>1. ASSUME NEW a \in Slots, Requests(a) PROVE NoNewTurn(b)
  BY <1>1 DEF Requests, Request, TypeOK
<1>2. ASSUME NEW a \in Slots, CheckRetired(a) \/ ReadDerived(a) \/ Refuse(a) PROVE NoNewTurn(b)
  <2>1. CASE CheckRetired(a)
    BY <2>1, NotToSpawn DEF CheckRetired, SlotPC
  <2>2. CASE ReadDerived(a)
    BY <2>2 DEF ReadDerived, TypeOK, Dispatch
  <2>3. CASE Refuse(a)
    BY <2>3, NotToSpawn DEF Refuse, SlotPC
  <2> QED BY <1>2, <2>1, <2>2, <2>3
<1>3. ASSUME NEW a \in Slots, EndIdleTurn(a) PROVE NoNewTurn(b)
  <2>1. Finish(a) \/ Goto(a, "wait")
    BY <1>3 DEF EndIdleTurn
  <2>2. proc'[b] # "none" => proc[b] # "none"
    BY <1>3 DEF EndIdleTurn, TypeOK
  <2> QED BY <2>1, <2>2, NotToSpawn DEF SlotPC
<1>4. ASSUME NEW a \in Slots, WaitForExit(a) PROVE NoNewTurn(b)
  BY <1>4 DEF WaitForExit, TypeOK
<1>5. ASSUME NEW a \in Slots, Spawn(a) \/ SpawnFails(a) PROVE NoNewTurn(b)
  BY <1>5 DEF Spawn, SpawnFails, Goto, TypeOK
<1>6. ASSUME NEW a \in Slots, Advance(a) PROVE NoNewTurn(b)
  BY <1>6 DEF Advance, TypeOK
<1>7. ASSUME NEW a \in Slots, Exit(a) PROVE NoNewTurn(b)
  <2>1. Finish(a) \/ Goto(a, "release")
    BY <1>7 DEF Exit
  <2>2. proc'[b] # "none" => proc[b] # "none"
    BY <1>7 DEF Exit, TypeOK
  <2> QED BY <2>1, <2>2, NotToSpawn DEF SlotPC
<1>8. ASSUME NEW a \in Slots, Release(a) PROVE NoNewTurn(b)
  BY <1>8 DEF Release, Finish, NoDispatch, TypeOK
<1>9. CASE StoreStep
  BY <1>9 DEF StoreStep, Register, Withdraw, HoldForTakeover, Observe, Retire
<1>10. CASE DerivedChanges \/ UserStarts \/ UserExits \/ Tick
  BY <1>10 DEF DerivedChanges, UserStarts, UserExits, Tick
<1>11. ASSUME NEW h \in Procs, Crash(h) PROVE NoNewTurn(b)
  BY <1>11 DEF Crash, NoDispatch, TypeOK
<1>12. CASE UNCHANGED vars
  BY <1>12 DEF vars
<1> HIDE DEF NoNewTurn
<1> QED
  BY <1>1, <1>2, <1>3, <1>4, <1>5, <1>6, <1>7, <1>8, <1>9, <1>10, <1>11, <1>12
     DEF Next, SlotStep, Resume, Environment

(* A grant goes to a session nobody drives.                                    *)
LEMMA GrantToFree ==
  ASSUME TypeOK, ProcOfSlot, HiddenIsLeased, NEW a \in Slots, Grant(a)
  PROVE  /\ \A b \in Slots : ~Driving(b)
         /\ \A b \in Slots : Driving(b)' <=> b = a
<1>1. \A b \in Slots : ~Driving(b)
  BY SeenByAll DEF Grant, Free
<1>2. \A b \in Slots : Driving(b)' <=> b = a
  BY <1>1 DEF Grant, Goto, Driving, TypeOK
<1> QED BY <1>1, <1>2

(* A turn begins only on a session nobody drives, so a step keeps OneTurn.    *)
LEMMA OneTurnStep == IInv /\ [Next]_vars => OneTurn'
<1> SUFFICES ASSUME IInv, [Next]_vars PROVE OneTurn'
  OBVIOUS
<1>1. ASSUME NEW a \in Slots, Grant(a) PROVE OneTurn'
  <2>1. \A b \in Slots : Driving(b)' <=> b = a
    BY <1>1, GrantToFree DEF IInv
  <2> QED BY <2>1 DEF OneTurn
<1>2. CASE ~\E a \in Slots : Grant(a)
  <2>1. \A b \in Slots : Driving(b)' => Driving(b)
    BY <1>2, NobodyBegins DEF NoNewTurn, IInv
  <2> QED BY <2>1 DEF OneTurn, IInv
<1> QED BY <1>1, <1>2
-----------------------------------------------------------------------------
(* A slot has a process exactly while it runs one or was orphaned with one.   *)
LEMMA ProcStep == TypeOK /\ ProcOfSlot /\ [Next]_vars => ProcOfSlot'
<1> SUFFICES ASSUME TypeOK, ProcOfSlot, [Next]_vars PROVE ProcOfSlot'
  OBVIOUS
<1> USE DEF ProcOfSlot
<1>1. ASSUME NEW a \in Slots, Requests(a) PROVE ProcOfSlot'
  BY <1>1 DEF Requests, Request, TypeOK
<1>2. ASSUME NEW a \in Slots, slot[a].pc \notin {"running", "orphan"}, UNCHANGED proc,
             NEW pc \in SlotPC \ {"running", "orphan"}, Finish(a) \/ Goto(a, pc)
      PROVE  ProcOfSlot'
  <2>1. CASE Finish(a)
    BY <1>2, <2>1 DEF Finish, NoDispatch, TypeOK
  <2>2. CASE Goto(a, pc)
    BY <1>2, <2>2 DEF Goto, TypeOK, Dispatch
  <2> QED BY <1>2, <2>1, <2>2
<1>3. ASSUME NEW a \in Slots, CheckRetired(a) PROVE ProcOfSlot'
  BY <1>2, <1>3 DEF CheckRetired, SlotPC
<1>4. ASSUME NEW a \in Slots, ReadDerived(a) PROVE ProcOfSlot'
  BY <1>4 DEF ReadDerived, TypeOK, Dispatch
<1>5. ASSUME NEW a \in Slots, Grant(a) PROVE ProcOfSlot'
  BY <1>2, <1>5 DEF Grant, SlotPC
<1>6. ASSUME NEW a \in Slots, Refuse(a) PROVE ProcOfSlot'
  BY <1>2, <1>6 DEF Refuse, SlotPC
<1>7. ASSUME NEW a \in Slots, EndIdleTurn(a) PROVE ProcOfSlot'
  <2>1. CASE Finish(a) /\ UNCHANGED proc
    BY <1>2, <1>7, <2>1 DEF EndIdleTurn, SlotPC
  <2>2. ASSUME NEW b \in Slots, proc[b] = "idle", proc' = [proc EXCEPT ![b] = "ending"],
               Goto(a, "wait")
        PROVE  ProcOfSlot'
    BY <1>7, <2>2 DEF EndIdleTurn, Goto, TypeOK, Dispatch
  <2> QED BY <1>7, <2>1, <2>2 DEF EndIdleTurn
<1>8. ASSUME NEW a \in Slots, WaitForExit(a) PROVE ProcOfSlot'
  BY <1>8 DEF WaitForExit, TypeOK, Dispatch
<1>9. ASSUME NEW a \in Slots, Spawn(a) PROVE ProcOfSlot'
  BY <1>9 DEF Spawn, Goto, TypeOK, Dispatch
<1>10. ASSUME NEW a \in Slots, SpawnFails(a) PROVE ProcOfSlot'
  BY <1>2, <1>10 DEF SpawnFails, SlotPC
<1>11. ASSUME NEW a \in Slots, Advance(a) PROVE ProcOfSlot'
  BY <1>11 DEF Advance, TypeOK
<1>12. ASSUME NEW a \in Slots, Exit(a) PROVE ProcOfSlot'
  <2>1. CASE Finish(a)
    BY <1>12, <2>1 DEF Exit, Finish, NoDispatch, TypeOK
  <2>2. CASE Goto(a, "release")
    BY <1>12, <2>2 DEF Exit, Goto, TypeOK, Dispatch
  <2> QED BY <1>12, <2>1, <2>2 DEF Exit
<1>13. ASSUME NEW a \in Slots, Release(a) PROVE ProcOfSlot'
  BY <1>2, <1>13 DEF Release, SlotPC
<1>14. CASE StoreStep
  BY <1>14 DEF StoreStep, Register, Withdraw, HoldForTakeover, Observe, Retire
<1>15. CASE DerivedChanges \/ UserStarts \/ UserExits \/ Tick
  BY <1>15 DEF DerivedChanges, UserStarts, UserExits, Tick
<1>16. ASSUME NEW h \in Procs, Crash(h) PROVE ProcOfSlot'
  BY <1>16 DEF Crash, NoDispatch, TypeOK
<1>17. CASE UNCHANGED vars
  BY <1>17 DEF vars
<1> QED
  BY <1>1, <1>3, <1>4, <1>5, <1>6, <1>7, <1>8, <1>9, <1>10, <1>11, <1>12, <1>13,
     <1>14, <1>15, <1>16, <1>17 DEF Next, SlotStep, Resume, Environment

(* Only a spawn or a grant puts a turn out of sight.                           *)
LEMMA HiddenFrom ==
  ASSUME TypeOK, ProcOfSlot, [Next]_vars, ~\E a \in Slots : Grant(a),
         NEW b \in Slots, StillHidden(b)'
  PROVE  StillHidden(b)
<1> USE DEF StillHidden
<1>1. CASE \E a \in Slots : Spawn(a)
  BY <1>1 DEF Spawn, Goto, TypeOK, Dispatch
<1>2. CASE proc'[b] = "hidden" /\ ~\E a \in Slots : Spawn(a)
  <2>1. ASSUME NEW a \in Slots, SlotStep(a) PROVE proc[b] = "hidden"
    BY <1>2, <2>1
       DEF SlotStep, Requests, Request, Resume, CheckRetired, ReadDerived, Grant, Refuse,
           EndIdleTurn, WaitForExit, SpawnFails, Advance, Exit, Release, TypeOK
  <2>2. CASE StoreStep
    BY <1>2, <2>2 DEF StoreStep, Register, Withdraw, HoldForTakeover, Observe, Retire
  <2>3. CASE Environment \/ UNCHANGED vars
    BY <1>2, <2>3 DEF Environment, DerivedChanges, UserStarts, UserExits, Tick, Crash, vars
  <2> QED BY <2>1, <2>2, <2>3 DEF Next
<1>3. CASE slot'[b].pc = "spawn" /\ ~\E a \in Slots : Spawn(a)
  BY <1>3, NobodyBegins DEF NoNewTurn
<1> QED BY <1>1, <1>2, <1>3

(* While its turn goes on, a lease that RUNNING_MAX has not run out on is only *)
(* ever aged.                                                                  *)
LEMMA LeaseStays ==
  ASSUME TypeOK, ProcOfSlot, HiddenIsLeased, [Next]_vars,
         NEW b \in Slots, Driving(b), Driving(b)',
         running # NoLease, running.token = b, running.age < RUNNING_MAX
  PROVE  /\ running' # NoLease /\ running'.token = b
         /\ Tick \/ running' = running
<1>1. /\ OpenRunning = running
      /\ RunningLive(running, SessionAlive)
      /\ InTheWay(OpenRunning, SessionAlive)
  BY TurnInTheWay DEF HiddenIsLeased
<1>2. ASSUME NEW a \in Slots, SlotStep(a) PROVE running' = running
  <2>1. ~Grant(a)
    BY <1>1 DEF Grant, Free
  <2>2. CASE Refuse(a)
    BY <1>1, <2>2 DEF Refuse
  <2>3. CASE Release(a)
    <3>1. a # b
      BY <2>3 DEF Release, Driving, ProcOfSlot
    <3> QED BY <1>1, <2>3, <3>1 DEF Release
  <2> QED
    BY <1>2, <2>1, <2>2, <2>3
       DEF SlotStep, Requests, Request, Resume, CheckRetired, ReadDerived, EndIdleTurn,
           WaitForExit, Spawn, SpawnFails, Advance, Exit
<1>3. CASE StoreStep
  BY <1>1, <1>3
     DEF StoreStep, Register, Withdraw, HoldForTakeover, TakeoverFree, Observe, Retire
<1>4. CASE Tick
  <2>1. running' = [running EXCEPT !.age = @ + 1]
    BY <1>4 DEF Tick
  <2>2. running' \in RunningLease \cup {NoLease} /\ running \in RunningLease
    BY TypeStep DEF TypeOK
  <2>3. running' = [token |-> running.token, age |-> running.age + 1]
    BY <2>1, <2>2 DEF RunningLease
  <2>4. running.age + 1 \in 0..RUNNING_MAX
    BY <2>2, DurationAssumption DEF RunningLease
  <2>5. running' # NoLease
    BY <2>2, <2>3, <2>4, NullAssumption DEF RunningLease
  <2> QED BY <1>4, <2>3, <2>5
<1>5. CASE DerivedChanges \/ UserStarts \/ UserExits \/ \E h \in Procs : Crash(h)
  BY <1>5 DEF DerivedChanges, UserStarts, UserExits, Crash
<1>6. CASE UNCHANGED vars
  BY <1>6 DEF vars
<1> QED BY <1>2, <1>3, <1>4, <1>5, <1>6 DEF Next, Environment

(* Until its process shows up, nobody takes a turn's own lease off the store. *)
LEMMA HiddenStep == IInv /\ [Next]_vars => HiddenIsLeased'
<1> SUFFICES ASSUME IInv, [Next]_vars, NEW b \in Slots, StillHidden(b)'
             PROVE  /\ running' # NoLease /\ running'.token = b
                    /\ running'.age <= VisibleWithin
  BY DEF HiddenIsLeased
<1>i. TypeOK /\ ProcOfSlot /\ HiddenIsLeased
  BY DEF IInv
<1>d. Driving(b)'
  BY DEF StillHidden, Driving
<1>1. CASE \E a \in Slots : Grant(a)
  <2>1. Grant(b)
    BY <1>1, <1>i, <1>d, GrantToFree
  <2>2. running' = [token |-> b, age |-> 0]
    BY <2>1 DEF Grant, Lease
  <2>3. running' \in RunningLease
    BY <2>2, DurationAssumption DEF RunningLease
  <2> QED BY <2>2, <2>3, NullAssumption, VisibleAssumption DEF RunningLease
<1>2. CASE ~\E a \in Slots : Grant(a)
  <2>1. StillHidden(b)
    BY <1>2, <1>i, HiddenFrom
  <2>2. /\ running # NoLease /\ running.token = b
        /\ running.age <= VisibleWithin
    BY <2>1, <1>i DEF HiddenIsLeased
  <2>3. running.age \in Nat /\ running.age < RUNNING_MAX /\ running \in RunningLease
    BY <2>2, <1>i, DurationAssumption, VisibleAssumption DEF TypeOK, RunningLease
  <2>4. /\ running' # NoLease /\ running'.token = b
        /\ Tick \/ running' = running
    BY <1>i, <1>d, <2>1, <2>2, <2>3, LeaseStays DEF StillHidden, Driving
  <2>5. CASE Tick
    <3>1. running.age < VisibleWithin
      BY <2>1, <2>2, <2>5 DEF Tick
    <3>2. running' = [running EXCEPT !.age = @ + 1]
      BY <2>2, <2>3, <2>5 DEF Tick
    <3>3. running'.age = running.age + 1
      BY <3>2, <2>3 DEF RunningLease
    <3> QED BY <2>3, <2>4, <3>1, <3>3, VisibleAssumption
  <2> QED BY <2>2, <2>4, <2>5
<1> QED BY <1>1, <1>2
-----------------------------------------------------------------------------
(* The invariant holds in every reachable state.                             *)
LEMMA IInvHolds == Spec => []IInv
<1>1. IInv /\ [Next]_vars => IInv'
  BY TypeStep, ProcStep, HiddenStep, OneTurnStep DEF IInv
<1> QED BY <1>1, IInit, PTL DEF Spec

(* Two turns never run on the session at the same time.                        *)
THEOREM NeverTwoTurns == Spec => []OneTurn
<1>1. IInv => OneTurn
  BY DEF IInv
<1> QED BY <1>1, IInvHolds, PTL

(* A turn that is out of sight has its own, young lease in the store.          *)
THEOREM HiddenTurnIsLeased == Spec => []HiddenIsLeased
<1>1. IInv => HiddenIsLeased
  BY DEF IInv
<1> QED BY <1>1, IInvHolds, PTL

(* Nobody takes the lease off a turn that goes on before RUNNING_MAX.          *)
THEOREM LeaseIsKept == Spec => LeaseKept
<1>1. IInv /\ [Next]_vars =>
        [\A a \in Slots :
           /\ running # NoLease /\ running.token = a /\ running.age < RUNNING_MAX
           /\ Driving(a) /\ Driving(a)'
           => running' # NoLease /\ running'.token = a]_vars
  <2> SUFFICES ASSUME IInv, [Next]_vars, NEW a \in Slots,
                      running # NoLease, running.token = a, running.age < RUNNING_MAX,
                      Driving(a), Driving(a)'
               PROVE  running' # NoLease /\ running'.token = a
    OBVIOUS
  <2> QED BY LeaseStays DEF IInv
<1> QED BY <1>1, IInvHolds, PTL DEF Spec, LeaseKept
-----------------------------------------------------------------------------
(* The lease implements OneDriver: every step begins a turn on a free session, *)
(* ends the turn there is, or is a stutter.                                    *)
THEOREM Refinement == Spec => ImplementsOneDriver
<1> DEFINE D == { a \in Slots : Driving(a) }
<1>1. Init => Abstract!Init
  BY DEF Init, Abstract!Init, Driving, NoDispatch
<1>2. IInv /\ [Next]_vars => [Abstract!Next]_D
  <2> SUFFICES ASSUME IInv, [Next]_vars PROVE Abstract!Next \/ D' = D
    OBVIOUS
  <2>i. TypeOK /\ ProcOfSlot /\ HiddenIsLeased /\ OneTurn
    BY DEF IInv
  <2>1. ASSUME NEW a \in Slots, Grant(a) PROVE Abstract!Next
    <3>1. D = {} /\ D' = {a}
      BY <2>1, <2>i, GrantToFree
    <3> QED BY <3>1 DEF Abstract!Next, Abstract!Begin
  <2>2. CASE ~\E a \in Slots : Grant(a)
    <3>1. \A b \in Slots : Driving(b)' => Driving(b)
      BY <2>2, <2>i, NobodyBegins DEF NoNewTurn
    <3>2. CASE D = {}
      BY <3>1, <3>2
    <3>3. ASSUME NEW a \in Slots, Driving(a) PROVE Abstract!Next \/ D' = D
      <4>1. D = {a}
        BY <2>i, <3>3 DEF OneTurn
      <4>2. D' = {} \/ D' = {a}
        BY <3>1, <4>1
      <4> QED BY <4>1, <4>2 DEF Abstract!Next, Abstract!End
    <3> QED BY <3>2, <3>3
  <2> QED BY <2>1, <2>2
<1> QED BY <1>1, <1>2, IInvHolds, PTL DEF Spec, ImplementsOneDriver, Abstract!Spec
-----------------------------------------------------------------------------
(* A store that only lost intents has no more takeovers than before.           *)
LEMMA FewerTakeovers ==
  ASSUME OneTakeover, pending' \subseteq pending
  PROVE  OneTakeover'
  BY DEF OneTakeover, Prune

(* A hold is left only where no other takeover stands.                       *)
LEMMA OneTakeoverStep == TypeOK /\ OneTakeover /\ [Next]_vars => OneTakeover'
<1> SUFFICES ASSUME TypeOK, OneTakeover, [Next]_vars PROVE OneTakeover'
  OBVIOUS
<1>o. OpenPending \subseteq pending
  BY StoreTyped
<1>1. ASSUME NEW a \in Slots, SlotStep(a) PROVE OneTakeover'
  <2>1. pending' \subseteq pending
    BY <1>1, <1>o
       DEF SlotStep, Requests, Request, Resume, CheckRetired, ReadDerived, Grant, Refuse,
           Surviving, Others, EndIdleTurn, WaitForExit, Spawn, SpawnFails, Advance, Exit, Release
  <2> QED BY <2>1, FewerTakeovers
<1>2. ASSUME NEW h \in Procs, NEW t \in Tokens, NEW k \in IntentKinds, Register(h, t, k)
      PROVE  OneTakeover'
  <2>1. k.class # "takeover"
    BY VisibleAssumption DEF DriverClass
  <2>2. \A p \in pending' : p.class = "takeover" => p \in pending
    BY <1>2, <1>o, <2>1 DEF Register
  <2> QED BY <2>2 DEF OneTakeover, Prune
<1>3. ASSUME NEW t \in Tokens, Withdraw(t) PROVE OneTakeover'
  BY <1>3, <1>o, FewerTakeovers DEF Withdraw
<1>4. ASSUME NEW t \in HoldTokens, NEW seen, HoldForTakeover(seen, t) PROVE OneTakeover'
  <2>1. OpenPending = {}
    <3>1. ASSUME NEW p \in OpenPending PROVE FALSE
      <4>1. p \in Others(OpenPending, NoToken)
        BY <1>o, <3>1, NullAssumption DEF Others, TypeOK, PendingIntent
      <4> QED BY <1>4, <4>1 DEF HoldForTakeover, TakeoverFree, Blocked
    <3> QED BY <3>1
  <2>2. pending' = {TakeoverHold(t)}
    BY <1>4, <2>1 DEF HoldForTakeover
  <2> QED BY <2>2 DEF OneTakeover, Prune
<1>5. CASE Observe \/ Retire
  BY <1>5, <1>o, FewerTakeovers DEF Observe, Retire
<1>6. CASE DerivedChanges \/ UserStarts \/ UserExits
  BY <1>6, FewerTakeovers DEF DerivedChanges, UserStarts, UserExits
<1>7. CASE Tick
  <2> DEFINE aged(p) == IF p.ttl > 0 THEN [p EXCEPT !.ttl = @ - 1] ELSE p
  <2>1. ASSUME NEW p \in pending, aged(p) \in Prune(pending'), aged(p).class = "takeover"
        PROVE  p \in Prune(pending) /\ p.class = "takeover"
    BY <2>1, DurationAssumption DEF TypeOK, PendingIntent, MaxTtl, Prune
  <2>2. \A q \in pending' : \E p \in pending : q = aged(p)
    BY <1>7 DEF Tick
  <2> HIDE DEF aged
  <2> QED BY <2>1, <2>2 DEF OneTakeover, Prune
<1>8. ASSUME NEW h \in Procs, Crash(h) PROVE OneTakeover'
  <2>1. \A p \in Prune(pending') : p \in pending
    BY <1>8 DEF Crash, Prune, TypeOK, PendingIntent
  <2> QED BY <2>1 DEF OneTakeover, Prune
<1>9. CASE UNCHANGED vars
  BY <1>9, FewerTakeovers DEF vars
<1> QED
  BY <1>1, <1>2, <1>3, <1>4, <1>5, <1>6, <1>7, <1>8, <1>9 DEF Next, StoreStep, Environment

(* Two takeovers never hold the session at once.                               *)
THEOREM NeverTwoTakeovers == Spec => []OneTakeover
<1>1. Init => OneTakeover
  BY DEF Init, OneTakeover, Prune
<1>2. IInv /\ OneTakeover /\ [Next]_vars => OneTakeover'
  BY OneTakeoverStep DEF IInv
<1> QED BY <1>1, <1>2, IInvHolds, PTL DEF Spec
-----------------------------------------------------------------------------
(* The retry ticker.                                                           *)

\* The ticker speaks the lease's vocabulary: its class and its intents.
Vocabulary ==
  /\ "continue" \in Classes
  /\ [class |-> "continue", yields |-> TRUE] \in IntentKinds

(* The tickers of the initial states are well formed.                         *)
LEMMA TickerInit == RInit => tick \in [Procs -> Ticker]
  BY RetryAssumption DEF RInit, NewTicker, Ticker

(* A step of the ticker leaves every ticker well formed.                       *)
LEMMA TickerTyped ==
  ASSUME tick \in [Procs -> Ticker], TypeOK, errored \in BOOLEAN, RNext
  PROVE  tick' \in [Procs -> Ticker]
<1>1. ASSUME NEW h \in Procs, NEW k \in Ticker, tick' = [tick EXCEPT ![h] = k]
      PROVE  tick' \in [Procs -> Ticker]
  BY <1>1
<1>2. ASSUME NEW h \in Procs PROVE Tries(h) \in 0..MAX_RETRIES
  BY RetryAssumption DEF Tries, Ticker
<1>3. ASSUME NEW h \in Procs PROVE Over(h) \in Ticker
  BY DEF Over, Ticker
<1>4. ASSUME NEW h \in Procs, Scan(h) PROVE tick' \in [Procs -> Ticker]
  <2>1. [tick[h] EXCEPT !.pc = "desire", !.errored = errored, !.alive = SessionAlive] \in Ticker
    BY DEF Ticker, SessionAlive, TypeOK, Visible
  <2> QED BY <1>1, <1>4, <2>1 DEF Scan
<1>5. ASSUME NEW h \in Procs, Desire(h) PROVE tick' \in [Procs -> Ticker]
  <2>1. Wants(h) \in BOOLEAN
    BY DEF Wants
  <2>2. [tick[h] EXCEPT !.pc = "sync", !.want = Wants(h)] \in Ticker
    BY <2>1 DEF Ticker
  <2> QED BY <1>1, <1>5, <2>2 DEF Desire
<1>6. ASSUME NEW h \in Procs, SyncWithdraw(h) PROVE tick' \in [Procs -> Ticker]
  <2>1. [tick[h] EXCEPT !.pc = "fire", !.token = NoToken] \in Ticker
    BY DEF Ticker
  <2> QED BY <1>1, <1>6, <2>1 DEF SyncWithdraw
<1>7. ASSUME NEW h \in Procs, SyncHeld(h) PROVE tick' \in [Procs -> Ticker]
  <2>1. [tick[h] EXCEPT !.pc = IF Held(h) THEN "fire" ELSE "register"] \in Ticker
    BY DEF Ticker
  <2> QED BY <1>1, <1>7, <2>1 DEF SyncHeld
<1>8. ASSUME NEW h \in Procs, NEW t \in Tokens, SyncRegister(h, t)
      PROVE  tick' \in [Procs -> Ticker]
  <2>1. [tick[h] EXCEPT !.pc = "fire", !.token = t] \in Ticker
    BY DEF Ticker
  <2> QED BY <1>1, <1>8, <2>1 DEF SyncRegister
<1>9. ASSUME NEW h \in Procs, NEW a \in Slots, Fire(h, a) PROVE tick' \in [Procs -> Ticker]
  <2>1. Tries(h) + 1 \in 0..MAX_RETRIES
    BY <1>2, <1>9, RetryAssumption DEF Fire, Due
  <2>2. [Over(h) EXCEPT !.token = NoToken, !.tries = Tries(h) + 1, !.cool = DEBOUNCE]
          \in Ticker
    <3>1. ASSUME NEW n \in 0..MAX_RETRIES, NEW d \in 0..DEBOUNCE
          PROVE  [Over(h) EXCEPT !.token = NoToken, !.tries = n, !.cool = d] \in Ticker
      BY <1>3 DEF Ticker
    <3>2. DEBOUNCE \in 0..DEBOUNCE
      BY RetryAssumption
    <3> QED BY <2>1, <3>1, <3>2
  <2> QED BY <1>1, <1>9, <2>2 DEF Fire
<1>10. ASSUME NEW h \in Procs, NoFire(h) PROVE tick' \in [Procs -> Ticker]
  <2>1. [Over(h) EXCEPT !.tries = Tries(h)] \in Ticker
    BY <1>2, <1>3 DEF Ticker
  <2> QED BY <1>1, <1>10, <2>1 DEF NoFire
<1>11. ASSUME NEW h \in Procs, HoldBack(h) PROVE tick' \in [Procs -> Ticker]
  BY <1>1, <1>11, <1>3 DEF HoldBack
<1>12. CASE Elsewhere
  BY <1>12 DEF Elsewhere
<1>13. ASSUME NEW h \in Procs, RCrash(h) PROVE tick' \in [Procs -> Ticker]
  <2>1. NewTicker \in Ticker
    BY RetryAssumption DEF NewTicker, Ticker
  <2> QED BY <1>1, <1>13, <2>1 DEF RCrash
<1>14. CASE RTick
  <2>1. ASSUME NEW h \in Procs
        PROVE  [tick[h] EXCEPT !.cool = IF @ > 0 THEN @ - 1 ELSE 0] \in Ticker
    <3>1. (IF tick[h].cool > 0 THEN tick[h].cool - 1 ELSE 0) \in 0..DEBOUNCE
      BY RetryAssumption DEF Ticker
    <3> QED BY <3>1 DEF Ticker
  <2> QED BY <1>14, <2>1 DEF RTick
<1> QED
  BY <1>4, <1>5, <1>6, <1>7, <1>8, <1>9, <1>10, <1>11, <1>12, <1>13, <1>14
     DEF RNext, TickerStep, Prepare

(* A step of the composition is a step of SessionDriver or leaves it alone.    *)
LEMMA StepThroughTheLease ==
  ASSUME Vocabulary, tick \in [Procs -> Ticker], RNext
  PROVE  [Next]_vars
<1>1. ASSUME NEW h \in Procs, Scan(h) \/ Desire(h) \/ NoFire(h) \/ HoldBack(h)
      PROVE  UNCHANGED vars
  BY <1>1 DEF Scan, Desire, NoFire, HoldBack
<1>2. ASSUME NEW h \in Procs, SyncWithdraw(h) PROVE [Next]_vars
  BY <1>2 DEF SyncWithdraw, Ticker, Next, StoreStep
<1>3. ASSUME NEW h \in Procs, SyncHeld(h) PROVE [Next]_vars
  BY <1>3 DEF SyncHeld, Next, StoreStep
<1>4. ASSUME NEW h \in Procs, NEW t \in Tokens, SyncRegister(h, t) PROVE [Next]_vars
  BY <1>4 DEF SyncRegister, Vocabulary, Next, StoreStep
<1>5. ASSUME NEW h \in Procs, NEW a \in Slots, Fire(h, a) PROVE [Next]_vars
  <2>1. Request(a, h, "continue", tick[h].token) /\ tick[h].token \in Tokens \cup {NoToken}
    BY <1>5 DEF Fire, Ticker
  <2> QED BY <2>1 DEF Vocabulary, Next, SlotStep, Requests
<1>6. CASE Elsewhere
  BY <1>6, RetryAssumption DEF Elsewhere, Next, SlotStep, Requests, StoreStep, Environment
<1>7. CASE RTick \/ \E h \in Procs : RCrash(h)
  BY <1>7 DEF RTick, RCrash, Next, Environment
<1> QED
  BY <1>1, <1>2, <1>3, <1>4, <1>5, <1>6, <1>7 DEF RNext, TickerStep, Prepare

(* The composition keeps its types.                                            *)
LEMMA RetryTypeStep == ASSUME Vocabulary PROVE RTypeOK /\ [RNext]_rvars => RTypeOK'
<1> SUFFICES ASSUME RTypeOK, [RNext]_rvars PROVE RTypeOK'
  OBVIOUS
<1>1. CASE RNext
  <2>1. TypeOK'
    BY <1>1, StepThroughTheLease, TypeStep DEF RTypeOK
  <2>2. tick' \in [Procs -> Ticker]
    BY <1>1, TickerTyped DEF RTypeOK
  <2>3. errored' \in BOOLEAN
    BY <1>1
       DEF RNext, TickerStep, Prepare, Scan, Desire, SyncWithdraw, SyncHeld, SyncRegister,
           Fire, NoFire, HoldBack, Elsewhere, TurnOutcome, RTick, RCrash, RTypeOK, TypeOK,
           SessionAlive, rest
  <2>4. crashes' \in 0..MAX_CRASHES
    <3>1. ASSUME NEW h \in Procs, TickerStep(h) PROVE crashes' = crashes
      BY <3>1 DEF TickerStep, Prepare, Scan, Desire, SyncWithdraw, SyncHeld, SyncRegister, Fire,
                  NoFire, HoldBack, rest
    <3>2. CASE Elsewhere \/ RTick
      BY <3>2 DEF Elsewhere, RTick, RTypeOK, rest
    <3>3. ASSUME NEW h \in Procs, RCrash(h) PROVE crashes' \in 0..MAX_CRASHES
      <4>1. crashes \in 0..MAX_CRASHES /\ crashes < MAX_CRASHES /\ crashes' = crashes + 1
        BY <3>3 DEF RCrash, RTypeOK
      <4> QED BY <4>1, RetryAssumption
    <3> QED BY <1>1, <3>1, <3>2, <3>3 DEF RNext, RTypeOK
  <2> QED BY <2>1, <2>2, <2>3, <2>4 DEF RTypeOK
<1>2. CASE UNCHANGED rvars
  BY <1>2 DEF rvars, rest, vars, RTypeOK, TypeOK
<1> QED BY <1>1, <1>2

LEMMA RetryTypeInit == RInit => RTypeOK
  BY IInit, TickerInit, RetryAssumption DEF RInit, RTypeOK, IInv

(* Every variable of the ticker and of the lease under it keeps its type: a     *)
(* budget is never exceeded, whatever fires, crashes and is refused.            *)
THEOREM RetryTypes == ASSUME Vocabulary PROVE RSpec => []RTypeOK
  BY RetryTypeInit, RetryTypeStep, PTL DEF RSpec

(* The retry ticker drives the session through the lease and in no other way.  *)
THEOREM RetryThroughTheLease == ASSUME Vocabulary PROVE RSpec => ThroughTheLease
<1>1. RInit => RTypeOK
  BY RetryTypeInit
<1>2. RTypeOK /\ [RNext]_rvars => RTypeOK'
  BY RetryTypeStep
<1>3. RInit => Init
  BY DEF RInit
<1>4. RTypeOK /\ [RNext]_rvars => [Next]_vars
  BY StepThroughTheLease DEF RTypeOK, rvars, vars
<1> QED BY <1>1, <1>2, <1>3, <1>4, PTL DEF RSpec, ThroughTheLease, Spec
=============================================================================
