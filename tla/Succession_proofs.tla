------------------------- MODULE Succession_proofs -------------------------
(***************************************************************************)
(* Proofs about what carries a piece of work on from session to session.   *)
(*                                                                         *)
(* PlanRevive, for any number of boxes, any cap and any durations: its     *)
(* types, and that the cap on sessions woken in a row without a box ticked *)
(* holds.                                                                  *)
(*                                                                         *)
(* Handoff, for any sessions, chain ids and consumers and any cap on the   *)
(* hops of more than one: its types, that a session has one heir, that a   *)
(* recorded link leads to the heir, and that a relay ends at the cap.      *)
(***************************************************************************)
EXTENDS Handoff, PlanRevive, FunctionTheorems, FiniteSetTheorems, SequenceTheorems, TLAPS
-----------------------------------------------------------------------------
(* PlanRevive. *)

\* The state that counts: on disk between passes, in memory during one.
Current == IF pc = "idle" THEN file ELSE work

\* Every session woken since the last progress was counted or is about to be, and
\* the progress that would forgive them has not been seen.
Counted ==
  /\ pc # "attribute" => woken <= Current.attempts /\ (woken > 0 => Current.doneAt = view.done)
  /\ pc = "attribute" => woken <= work.attempts + 1

\* A session is woken only for a plan with open boxes and with attempts left.
SpawnsInBudget ==
  /\ pc \in {"decide", "spawn", "attribute"} => view.done # TOTAL
  /\ pc \in {"spawn", "attribute"} => work.attempts < MAX_FRUITLESS

CapKept == ~crashed => woken <= MAX_FRUITLESS /\ (view.done = TOTAL \/ Counted)

VInv == VTypeOK /\ view.done <= done /\ SpawnsInBudget /\ CapKept
-----------------------------------------------------------------------------
(* What a pass does to the state of a plan: an answer, the time that did not     *)
(* count, a refund, forgiveness, the clock.                                    *)
LEMMA ApplyTyped ==
  ASSUME NEW st \in State, NEW answer \in {"none", "go", "snooze"}
  PROVE  /\ Apply(st, answer) \in State /\ Apply(st, answer).doneAt = st.doneAt
         /\ Apply(st, answer).attempts =
              IF answer = "go" /\ st.fruitless THEN MAX_FRUITLESS - 1 ELSE st.attempts
<1>0. GRACE \in {None} \cup 0..MAX_AGE /\ MAX_FRUITLESS - 1 \in 0..MAX_FRUITLESS
  BY ReviveAssumption DEF MAX_AGE, None
<1>1. CASE answer = "none"
  BY <1>1 DEF Apply
<1>2. CASE answer = "go"
  <2>1. Apply(st, answer) =
          [st EXCEPT !.card = FALSE, !.fruitless = FALSE, !.approved = TRUE, !.orphan = GRACE,
                     !.attempts = IF st.fruitless THEN MAX_FRUITLESS - 1 ELSE @]
    BY <1>2 DEF Apply
  <2> QED BY <1>0, <1>2, <2>1 DEF State
<1>3. CASE answer = "snooze"
  <2>1. Apply(st, answer) = [st EXCEPT !.card = FALSE, !.fruitless = FALSE]
    BY <1>3 DEF Apply
  <2> QED BY <1>3, <2>1 DEF State
<1> QED BY <1>1, <1>2, <1>3

LEMMA LessTyped == \A n \in Nat : Less(n) \in Nat /\ Less(n) <= n /\ (n > 0 => Less(n) = n - 1)
  BY DEF Less

LEMMA RefundTyped ==
  ASSUME NEW st \in State
  PROVE  /\ Refund(st) \in State /\ Refund(st).doneAt = st.doneAt
         /\ Refund(st).attempts = Less(st.attempts)
<1>1. Less(st.attempts) \in 0..MAX_FRUITLESS
  BY LessTyped, ReviveAssumption DEF State
<1> QED BY <1>1 DEF Refund, State

LEMMA ThawedTyped ==
  ASSUME NEW st \in State, NEW online \in BOOLEAN, gap \in 0..MAX_GAP
  PROVE  /\ Thawed(st, Lost(online)) \in State
         /\ Thawed(st, Lost(online)).doneAt = st.doneAt
         /\ Thawed(st, Lost(online)).attempts = st.attempts
<1>1. Lost(online) \in Nat
  BY ReviveAssumption DEF Lost
<1>2. CASE st.orphan = None
  BY <1>2 DEF Thawed
<1>3. CASE st.orphan # None
  <2>1. st.orphan \in 0..MAX_AGE /\ MAX_AGE \in Nat
    BY <1>3, ReviveAssumption DEF State, MAX_AGE
  <2>2. (IF st.orphan > Lost(online) THEN st.orphan - Lost(online) ELSE 0) \in 0..MAX_AGE
    BY <1>1, <2>1
  <2> QED BY <1>3, <2>2 DEF Thawed, State
<1> QED BY <1>2, <1>3

LEMMA ForgivenTyped ==
  ASSUME NEW st \in State
  PROVE  /\ Forgiven(st) \in State /\ Forgiven(st).doneAt = st.doneAt
         /\ Forgiven(st).attempts = IF view.done > st.doneAt THEN 0 ELSE st.attempts
         /\ Left(st) \in State /\ Left(st).doneAt = st.doneAt /\ Left(st).attempts = st.attempts
<1>1. 0 \in 0..MAX_FRUITLESS /\ 0 \in 0..MAX_AGE
  BY ReviveAssumption DEF MAX_AGE
<1>2. Forgiven(st) \in State /\ Forgiven(st).doneAt = st.doneAt
      /\ Forgiven(st).attempts = IF view.done > st.doneAt THEN 0 ELSE st.attempts
  BY <1>1 DEF Forgiven, State
<1>3. Left(st) \in State /\ Left(st).doneAt = st.doneAt /\ Left(st).attempts = st.attempts
  BY <1>1 DEF Left, State
<1> QED BY <1>2, <1>3
-----------------------------------------------------------------------------
(* A plan nobody has been woken for.                                           *)
LEMMA ReviveInit == Init => VInv
<1> SUFFICES ASSUME Init PROVE VInv
  OBVIOUS
<1>1. Fresh \in State /\ Fresh.attempts = 0
  BY ReviveAssumption DEF Fresh, State, None
<1>2. VTypeOK
  <2>1. /\ 0 \in 0..MAX_GAP /\ 0 \in 0..TOTAL /\ 0 \in 0..MAX_FAULTS /\ 0 \in 0..MAX_FRUITLESS+1
        /\ closed \in Closures
    BY ReviveAssumption DEF Init, Closures
  <2>2. view \in [done : 0..TOTAL, closed : Closures]
    BY <2>1 DEF Init, Closures
  <2> QED BY <1>1, <2>1, <2>2 DEF Init, VTypeOK
<1> QED BY <1>1, <1>2, ReviveAssumption DEF Init, VInv, SpawnsInBudget, CapKept, Counted, Current

(* The answers: a go on the fruitless card is worth one session, and progress    *)
(* seen now starts the count over.                                             *)
LEMMA LoadKeeps == VInv /\ Load => VInv'
<1> SUFFICES ASSUME VInv, Load PROVE VInv'
  OBVIOUS
<1>1. PICK answer \in {"none", "go", "snooze"} :
        /\ work' = Apply(file, answer)
        /\ card' = (card /\ answer = "none")
        /\ snoozed' = IF answer = "none" THEN snoozed ELSE answer = "snooze"
        /\ view' = [done |-> done, closed |-> closed]
        /\ LET since == IF done > view.done THEN 0 ELSE woken
           IN woken' = IF answer = "go" /\ file.fruitless THEN OneMore(since) ELSE since
  BY DEF Load
<1> DEFINE since == IF done > view.done THEN 0 ELSE woken
<1>2. /\ pc = "idle" /\ pc' = "pause"
      /\ UNCHANGED <<file, gap, done, cover, died, closed, enabled, faults, crashed>>
  BY DEF Load, disk
<1>3. /\ work' \in State /\ work'.doneAt = file.doneAt
      /\ work'.attempts = IF answer = "go" /\ file.fruitless THEN MAX_FRUITLESS - 1 ELSE file.attempts
  BY <1>1, ApplyTyped DEF VInv, VTypeOK
<1>4. woken' = IF answer = "go" /\ file.fruitless THEN OneMore(since) ELSE since
  BY <1>1
<1>5. since \in 0..MAX_FRUITLESS+1 /\ woken \in Nat /\ file.attempts \in 0..MAX_FRUITLESS
  BY ReviveAssumption DEF VInv, VTypeOK, State
<1>6. /\ OneMore(since) \in Nat /\ OneMore(since) <= MAX_FRUITLESS - 1
      /\ OneMore(since) > 0 => since > 0
  BY <1>5, ReviveAssumption DEF OneMore
<1>7. VTypeOK'
  <2>1. woken' \in 0..MAX_FRUITLESS+1
    BY <1>4, <1>5, <1>6, ReviveAssumption
  <2>2. card' \in BOOLEAN /\ snoozed' \in BOOLEAN
    BY <1>1 DEF VInv, VTypeOK
  <2>3. view' \in [done : 0..TOTAL, closed : Closures]
    BY <1>1, <2>2 DEF VInv, VTypeOK
  <2> QED BY <1>2, <1>3, <2>1, <2>2, <2>3 DEF VInv, VTypeOK
<1>8. ASSUME ~crashed', view'.done # TOTAL PROVE Counted'
  <2>1. view.done # TOTAL /\ Counted /\ view.done \in 0..TOTAL /\ done \in 0..TOTAL
    BY <1>1, <1>2, <1>8 DEF VInv, CapKept, VTypeOK
  <2>2. since <= file.attempts /\ (since > 0 => file.doneAt = done)
    BY <1>2, <1>5, <2>1, ReviveAssumption DEF VInv, Counted, Current
  <2>3. woken' <= work'.attempts /\ (woken' > 0 => work'.doneAt = done)
    BY <1>3, <1>4, <1>5, <1>6, <2>2, ReviveAssumption
  <2> QED BY <1>1, <1>2, <2>3 DEF Counted, Current
<1>9. ~crashed' => woken' <= MAX_FRUITLESS
  BY <1>2, <1>4, <1>5, <1>6, ReviveAssumption DEF VInv, CapKept
<1> QED BY <1>1, <1>2, <1>7, <1>8, <1>9 DEF VInv, VTypeOK, SpawnsInBudget, CapKept

(* A session lost to the account is taken off both counts.                     *)
LEMMA PauseKeeps == VInv /\ Pause => VInv'
<1> SUFFICES ASSUME VInv, Pause PROVE VInv'
  OBVIOUS
<1>1. PICK answer \in {"none", "go", "off", "gone"}, raise \in BOOLEAN :
        LET heard == [work EXCEPT !.pcard = @ /\ answer = "none",
                                  !.paused = @ /\ answer \in {"none", "gone"}]
            lost == answer # "off" /\ heard.revived /\ died
            st == IF lost THEN Refund(heard) ELSE heard
        IN /\ answer = "none" \/ work.pcard
           /\ raise => st.paused /\ ~st.pcard
           /\ st.paused /\ ~heard.paused => raise
           /\ work' = [st EXCEPT !.pcard = @ \/ raise]
           /\ enabled' = (enabled /\ answer # "off")
           /\ pc' = IF answer = "off" \/ st.paused \/ view.done = TOTAL THEN "write" ELSE "decide"
           /\ woken' = IF lost THEN Less(woken) ELSE woken
  BY DEF Pause
<1> DEFINE heard == [work EXCEPT !.pcard = @ /\ answer = "none",
                                 !.paused = @ /\ answer \in {"none", "gone"}]
           lost == answer # "off" /\ heard.revived /\ died
           st == IF lost THEN Refund(heard) ELSE heard
<1>2. /\ work' = [st EXCEPT !.pcard = @ \/ raise]
      /\ enabled' = (enabled /\ answer # "off")
      /\ pc' = IF answer = "off" \/ st.paused \/ view.done = TOTAL THEN "write" ELSE "decide"
      /\ woken' = IF lost THEN Less(woken) ELSE woken
  BY <1>1
<1>3. /\ pc = "pause" /\ UNCHANGED <<file, gap, view, done, cover, died, closed, snoozed, card, faults, crashed>>
  BY DEF Pause, disk, plan
<1>4. heard \in State /\ heard.doneAt = work.doneAt /\ heard.attempts = work.attempts
  <2>1. work \in State
    BY DEF VInv, VTypeOK
  <2> QED BY <2>1 DEF State
<1> HIDE DEF heard
<1>5. /\ st \in State /\ st.doneAt = work.doneAt
      /\ st.attempts = IF lost THEN Less(work.attempts) ELSE work.attempts
  <2>1. /\ Refund(heard) \in State /\ Refund(heard).doneAt = heard.doneAt
        /\ Refund(heard).attempts = Less(heard.attempts)
    BY <1>4, RefundTyped
  <2> QED BY <1>4, <2>1
<1> HIDE DEF st
<1>6. work' \in State /\ work'.doneAt = st.doneAt /\ work'.attempts = st.attempts
  BY <1>2, <1>5 DEF State
<1> HIDE DEF lost
<1>7. /\ woken \in Nat /\ woken <= MAX_FRUITLESS + 1 /\ work.attempts \in Nat
      /\ woken' \in Nat /\ woken' <= woken /\ (woken' > 0 => woken > 0)
  BY <1>2, LessTyped, ReviveAssumption DEF VInv, VTypeOK, State, Less
<1>8. VTypeOK'
  <2>1. woken' \in 0..MAX_FRUITLESS+1
    BY <1>7, ReviveAssumption
  <2> QED BY <1>2, <1>3, <1>6, <2>1 DEF VInv, VTypeOK
<1>9. ASSUME ~crashed', view'.done # TOTAL PROVE Counted'
  <2>1. woken <= work.attempts /\ (woken > 0 => work.doneAt = view.done)
    BY <1>3, <1>9 DEF VInv, CapKept, Counted, Current
  <2>2. woken' <= work'.attempts
    BY <1>2, <1>5, <1>6, <1>7, <2>1 DEF Less
  <2> QED BY <1>2, <1>3, <1>5, <1>6, <1>7, <2>1, <2>2 DEF Counted, Current
<1> QED BY <1>2, <1>3, <1>7, <1>8, <1>9, ReviveAssumption DEF VInv, SpawnsInBudget, CapKept

(* Attempts are forgiven only when none of the sessions woken still counts.     *)
LEMMA DecideKeeps == VInv /\ Decide => VInv'
<1> SUFFICES ASSUME VInv, Decide PROVE VInv'
  OBVIOUS
<1>1. PICK online \in BOOLEAN, slot \in BOOLEAN :
        LET st == Thawed(work, Lost(online))
            f == Forgiven(st)
            o == Left(f)
        IN /\ (online /\ slot) \/ faults < MAX_FAULTS
           /\ faults' = IF online /\ slot THEN faults ELSE faults + 1
           /\ IF ~online \/ st.card THEN Idle(st)
              ELSE IF snoozed \/ Covered \/ view.closed = "abandoned"
                   THEN Idle([f EXCEPT !.orphan = None])
              ELSE IF o.orphan < GRACE THEN Idle(o)
              ELSE IF ~o.approved /\ view.closed # "no" THEN Ask(o, FALSE)
              ELSE IF o.attempts >= MAX_FRUITLESS THEN Ask(o, TRUE)
              ELSE IF ~slot THEN Idle(o)
              ELSE work' = o /\ pc' = "spawn" /\ UNCHANGED <<card, snoozed>>
  BY DEF Decide
<1> DEFINE st == Thawed(work, Lost(online))
           f == Forgiven(st)
           o == Left(f)
<1>2. /\ pc = "decide"
      /\ UNCHANGED <<file, gap, view, done, cover, died, closed, enabled, woken, crashed>>
  BY DEF Decide, disk
<1>3. /\ (online /\ slot) \/ faults < MAX_FAULTS
      /\ faults' = IF online /\ slot THEN faults ELSE faults + 1
      /\ \/ Idle(st) \/ Idle([f EXCEPT !.orphan = None]) \/ Idle(o) \/ Ask(o, FALSE) \/ Ask(o, TRUE)
         \/ /\ ~(o.attempts >= MAX_FRUITLESS)
            /\ work' = o /\ pc' = "spawn" /\ UNCHANGED <<card, snoozed>>
  BY <1>1
<1>4. st \in State /\ st.doneAt = work.doneAt /\ st.attempts = work.attempts
  BY ThawedTyped DEF VInv, VTypeOK
<1> HIDE DEF st
<1>5. /\ f \in State /\ f.doneAt = work.doneAt
      /\ f.attempts = IF view.done > work.doneAt THEN 0 ELSE work.attempts
  BY <1>4, ForgivenTyped
<1> HIDE DEF f
<1>6. o \in State /\ o.doneAt = f.doneAt /\ o.attempts = f.attempts
  BY <1>5, ForgivenTyped
<1> HIDE DEF o
<1>7. /\ work' \in State /\ work'.doneAt = work.doneAt
      /\ \/ work'.attempts = work.attempts
         \/ work'.attempts = f.attempts
      /\ pc' \in {"write", "spawn"} /\ (pc' = "spawn" => work'.attempts < MAX_FRUITLESS)
      /\ card' \in BOOLEAN /\ snoozed' \in BOOLEAN
  <2>1. CASE Idle(st) \/ Idle([f EXCEPT !.orphan = None]) \/ Idle(o)
    <3>1. /\ [f EXCEPT !.orphan = None] \in State /\ [f EXCEPT !.orphan = None].doneAt = f.doneAt
          /\ [f EXCEPT !.orphan = None].attempts = f.attempts
      BY <1>5 DEF State, None
    <3> QED BY <1>4, <1>5, <1>6, <2>1, <3>1 DEF Idle, VInv, VTypeOK
  <2>2. ASSUME NEW b \in BOOLEAN, Ask(o, b)
        PROVE  /\ work' \in State /\ work'.doneAt = work.doneAt /\ work'.attempts = f.attempts
               /\ pc' = "write" /\ card' \in BOOLEAN /\ snoozed' \in BOOLEAN
    <3>1. work' = [o EXCEPT !.card = TRUE, !.fruitless = b, !.orphan = None]
      BY <2>2 DEF Ask
    <3>2. work' \in State /\ work'.doneAt = o.doneAt /\ work'.attempts = o.attempts
      BY <1>6, <3>1 DEF State, None
    <3> QED BY <1>5, <1>6, <2>2, <3>2 DEF Ask, VInv, VTypeOK
  <2>3. CASE /\ ~(o.attempts >= MAX_FRUITLESS)
             /\ work' = o /\ pc' = "spawn" /\ UNCHANGED <<card, snoozed>>
    <3>1. o.attempts < MAX_FRUITLESS
      BY <1>6, <2>3, ReviveAssumption DEF State
    <3> QED BY <1>5, <1>6, <2>3, <3>1 DEF VInv, VTypeOK
  <2> QED BY <1>3, <2>1, <2>2, <2>3
<1>8. VTypeOK'
  <2>1. faults' \in 0..MAX_FAULTS
    BY <1>3, ReviveAssumption DEF VInv, VTypeOK
  <2> QED BY <1>2, <1>7, <2>1 DEF VInv, VTypeOK
<1>9. ASSUME ~crashed', view'.done # TOTAL PROVE Counted'
  <2>1. woken <= work.attempts /\ (woken > 0 => work.doneAt = view.done)
    BY <1>2, <1>9 DEF VInv, CapKept, Counted, Current
  <2>2. woken \in Nat /\ view.done \in Nat /\ f.attempts \in Nat /\ work.attempts \in Nat
    BY <1>5 DEF VInv, VTypeOK, State
  <2>3. woken <= f.attempts
    BY <1>5, <2>1, <2>2
  <2> QED BY <1>2, <1>7, <2>1, <2>3 DEF Counted, Current
<1> QED BY <1>2, <1>7, <1>8, <1>9 DEF VInv, SpawnsInBudget, CapKept

(* Waking a session, or failing to.                                            *)
LEMMA SpawnKeeps == VInv /\ (Spawned \/ SpawnFails) => VInv'
<1> SUFFICES ASSUME VInv, Spawned \/ SpawnFails PROVE VInv'
  OBVIOUS
<1>0. /\ pc = "spawn" /\ work.attempts \in 0..MAX_FRUITLESS - 1 /\ view.done # TOTAL
      /\ woken \in 0..MAX_FRUITLESS + 1
      /\ ~crashed => woken <= work.attempts /\ (woken > 0 => work.doneAt = view.done)
  BY ReviveAssumption DEF Spawned, SpawnFails, VInv, VTypeOK, State, SpawnsInBudget, CapKept, Counted, Current
<1>1. CASE Spawned
  <2>1. /\ pc' = "attribute" /\ cover' = "stray" /\ died' = FALSE
        /\ woken' = IF woken > MAX_FRUITLESS THEN woken ELSE woken + 1
        /\ UNCHANGED <<file, gap, work, view, done, closed, snoozed, enabled, card, faults, crashed>>
    BY <1>1 DEF Spawned, disk, boss
  <2>2. woken' \in 0..MAX_FRUITLESS + 1
    BY <1>0, <2>1, ReviveAssumption
  <2>3. VTypeOK'
    BY <2>1, <2>2 DEF VInv, VTypeOK
  <2>4. ~crashed => woken' <= MAX_FRUITLESS /\ woken' <= work.attempts + 1
    BY <1>0, <2>1, ReviveAssumption
  <2> QED BY <1>0, <2>1, <2>3, <2>4, ReviveAssumption DEF VInv, SpawnsInBudget, CapKept, Counted
<1>2. CASE SpawnFails
  <2>1. /\ pc' = "write" /\ work' = [work EXCEPT !.attempts = @ + 1, !.orphan = 0]
        /\ UNCHANGED <<file, gap, view, done, cover, died, closed, snoozed, enabled, card, woken, crashed>>
    BY <1>2 DEF SpawnFails, disk, plan, boss
  <2>2. faults' \in 0..MAX_FAULTS
    BY <1>2, ReviveAssumption DEF SpawnFails, VInv, VTypeOK
  <2>3. /\ work' \in State /\ work'.doneAt = work.doneAt /\ work'.attempts = work.attempts + 1
    <3>1. work.attempts + 1 \in 0..MAX_FRUITLESS /\ 0 \in 0..MAX_AGE
      BY <1>0, ReviveAssumption DEF MAX_AGE
    <3> QED BY <2>1, <3>1 DEF VInv, VTypeOK, State
  <2>4. VTypeOK'
    BY <2>1, <2>2, <2>3 DEF VInv, VTypeOK
  <2>5. ~crashed' => Counted'
    BY <1>0, <2>1, <2>3, ReviveAssumption DEF Counted, Current
  <2> QED BY <2>1, <2>4, <2>5 DEF VInv, SpawnsInBudget, CapKept
<1> QED BY <1>1, <1>2

(* The woken session is counted.                                              *)
LEMMA AttributeKeeps == VInv /\ Attribute => VInv'
<1> SUFFICES ASSUME VInv, Attribute PROVE VInv'
  OBVIOUS
<1>1. /\ pc = "attribute" /\ work.attempts \in 0..MAX_FRUITLESS - 1 /\ woken \in Nat
      /\ ~crashed => woken <= work.attempts + 1
  BY ReviveAssumption DEF Attribute, VInv, VTypeOK, State, SpawnsInBudget, CapKept, Counted
<1>2. /\ pc' = "write" /\ closed' = "no"
      /\ cover' = IF cover = "stray" THEN "revived" ELSE cover
      /\ work' = [work EXCEPT !.attempts = @ + 1, !.doneAt = view.done, !.revived = TRUE,
                              !.orphan = None, !.approved = FALSE]
      /\ UNCHANGED <<file, gap, view, done, died, snoozed, enabled, card, faults, woken, crashed>>
  BY DEF Attribute, disk
<1>3. work' \in State /\ work'.attempts = work.attempts + 1 /\ work'.doneAt = view.done
  <2>1. work.attempts + 1 \in 0..MAX_FRUITLESS /\ view.done \in 0..TOTAL
    BY <1>1, ReviveAssumption DEF VInv, VTypeOK
  <2> QED BY <1>2, <2>1 DEF VInv, VTypeOK, State, None
<1>4. VTypeOK'
  BY <1>2, <1>3 DEF VInv, VTypeOK, Closures
<1>5. ~crashed' => Counted'
  BY <1>1, <1>2, <1>3 DEF Counted, Current
<1> QED BY <1>2, <1>4, <1>5 DEF VInv, SpawnsInBudget, CapKept

(* The state is written; a finished plan is never revived again.               *)
LEMMA WriteKeeps == VInv /\ (Write \/ Crash) => VInv'
<1> SUFFICES ASSUME VInv, Write \/ Crash PROVE VInv'
  OBVIOUS
<1>1. Fresh \in State
  BY ReviveAssumption DEF Fresh, State, None
<1>2. /\ pc' = "idle" /\ work' = Fresh /\ view' = [view EXCEPT !.closed = "no"]
      /\ UNCHANGED <<done, cover, closed, snoozed, enabled, card, woken>>
  BY DEF Write, Crash, plan, boss
<1>3. /\ view' \in [done : 0..TOTAL, closed : Closures] /\ view'.done = view.done
      /\ 0 \in 0..MAX_GAP /\ view.done \in 0..TOTAL
  <2>1. view \in [done : 0..TOTAL, closed : Closures] /\ "no" \in Closures
    BY DEF VInv, VTypeOK, Closures
  <2>2. [view EXCEPT !.closed = "no"] \in [done : 0..TOTAL, closed : Closures]
        /\ [view EXCEPT !.closed = "no"].done = view.done
    BY <2>1
  <2>3. 0 \in 0..MAX_GAP /\ view.done \in 0..TOTAL
    BY <2>1, ReviveAssumption
  <2> QED BY <1>2, <2>2, <2>3
<1>4. CASE Write
  <2>1. /\ pc = "write" /\ gap' = 0 /\ died' = (died /\ work.revived)
        /\ file' = IF view.done = TOTAL /\ ~work.card
                   THEN [Fresh EXCEPT !.doneAt = TOTAL, !.paused = work.paused, !.pcard = work.pcard]
                   ELSE work
        /\ UNCHANGED <<faults, crashed>>
    BY <1>4 DEF Write
  <2>2. file' \in State /\ (view.done # TOTAL => file' = work)
    <3>1. TOTAL \in 0..TOTAL /\ work.paused \in BOOLEAN /\ work.pcard \in BOOLEAN
      BY ReviveAssumption DEF VInv, VTypeOK, State
    <3> QED BY <1>1, <2>1, <3>1 DEF VInv, VTypeOK, State
  <2>3. VTypeOK'
    BY <1>1, <1>2, <1>3, <2>1, <2>2 DEF VInv, VTypeOK
  <2>4. ASSUME ~crashed', view'.done # TOTAL PROVE Counted'
    BY <1>2, <1>3, <2>1, <2>2, <2>4 DEF VInv, CapKept, Counted, Current
  <2> QED BY <1>2, <1>3, <2>1, <2>3, <2>4 DEF VInv, SpawnsInBudget, CapKept
<1>5. CASE Crash
  <2>1. crashed' = TRUE /\ UNCHANGED <<file, gap, died>>
    BY <1>5 DEF Crash, disk, plan
  <2>2. faults' \in 0..MAX_FAULTS
    BY <1>5, ReviveAssumption DEF Crash, VInv, VTypeOK
  <2>3. VTypeOK'
    BY <1>1, <1>2, <1>3, <2>1, <2>2 DEF VInv, VTypeOK
  <2> QED BY <1>2, <1>3, <2>1, <2>3 DEF VInv, SpawnsInBudget, CapKept
<1> QED BY <1>4, <1>5

(* What happens around a pass touches neither count.                           *)
LEMMA AroundKeeps == VInv /\ Around => VInv'
<1> SUFFICES ASSUME VInv, Around PROVE VInv'
  OBVIOUS
<1>1. UNCHANGED <<pc, work, view, woken, crashed, faults>>
  BY DEF Around, Interval, Covers, Leaves, TicksBox, BossCloses, SnoozeEnds, TurnsOn, memory
<1>2. /\ file' \in State /\ file'.attempts = file.attempts /\ file'.doneAt = file.doneAt
      /\ gap' \in 0..MAX_GAP
  <2>1. CASE Interval
    <3>1. gap' \in 0..MAX_GAP
      BY <2>1, ReviveAssumption DEF Interval, VInv, VTypeOK
    <3>2. (IF file.orphan \in {None, MAX_AGE} THEN file.orphan ELSE file.orphan + 1) \in {None} \cup 0..MAX_AGE
      BY ReviveAssumption DEF VInv, VTypeOK, State, MAX_AGE
    <3> QED BY <2>1, <3>1, <3>2 DEF Interval, VInv, VTypeOK, State
  <2>2. CASE ~Interval
    BY <2>2 DEF Around, Covers, Leaves, TicksBox, BossCloses, SnoozeEnds, TurnsOn, disk, VInv, VTypeOK
  <2> QED BY <2>1, <2>2
<1>3. done' \in 0..TOTAL /\ done <= done'
  BY ReviveAssumption DEF Around, Interval, Covers, Leaves, TicksBox, BossCloses, SnoozeEnds, TurnsOn, plan,
     VInv, VTypeOK
<1>4. /\ cover' \in {"none", "owner", "other", "stray", "revived"} /\ died' \in BOOLEAN
      /\ closed' \in Closures /\ snoozed' \in BOOLEAN
  BY DEF Around, Interval, Covers, Leaves, TicksBox, BossCloses, SnoozeEnds, TurnsOn, plan, Closures,
     VInv, VTypeOK
<1>5. enabled' \in BOOLEAN /\ card' \in BOOLEAN
  BY DEF Around, Interval, Covers, Leaves, TicksBox, BossCloses, SnoozeEnds, TurnsOn, boss, VInv, VTypeOK
<1>6. VTypeOK'
  BY <1>1, <1>2, <1>3, <1>4, <1>5 DEF VInv, VTypeOK
<1>7. view.done \in Nat /\ done \in Nat
  BY DEF VInv, VTypeOK
<1>8. Counted => Counted'
  BY <1>1, <1>2 DEF Counted, Current
<1> QED BY <1>1, <1>3, <1>6, <1>7, <1>8 DEF VInv, SpawnsInBudget, CapKept
-----------------------------------------------------------------------------
LEMMA ReviveInvariant == Spec => []VInv
<1>1. VInv /\ [Next]_vars => VInv'
  <2>1. CASE UNCHANGED vars
    BY <2>1 DEF vars, disk, memory, plan, boss, VInv, VTypeOK, SpawnsInBudget, CapKept, Counted, Current
  <2> QED BY <2>1, LoadKeeps, PauseKeeps, DecideKeeps, SpawnKeeps, AttributeKeeps, WriteKeeps, AroundKeeps
             DEF Next, Pass
<1> QED BY ReviveInit, <1>1, PTL DEF Spec

(* Every variable of the reviver keeps its type.                               *)
THEOREM ReviveTypes == Spec => []VTypeOK
<1>1. VInv => VTypeOK
  BY DEF VInv
<1> QED BY ReviveInvariant, <1>1, PTL

(* Whatever the cap, and in whatever order pauses, refunds, snoozes, closings    *)
(* and failed spawns come, the reviver wakes no more than MAX_FRUITLESS sessions  *)
(* in a row without a box ticked, unless a pass died.                          *)
THEOREM WokenStaysCapped == Spec => []WokenCapped
<1>1. VInv => WokenCapped
  BY DEF VInv, CapKept, WokenCapped
<1> QED BY ReviveInvariant, <1>1, PTL
-----------------------------------------------------------------------------
(* Handoff. *)

Chains == [ChainIds -> Seq(Sessions \X Sessions)]

\* The i-th link of chain id leads from s to t.
Entry(ch, id, i, s, t) == i \in DOMAIN ch[id] /\ ch[id][i] = <<s, t>>

(* The predicates of the model, in terms of entries.                          *)
LEMMA Entries ==
  ASSUME NEW ch \in Chains, NEW id \in ChainIds
  PROVE  /\ Len(ch[id]) \in Nat /\ DOMAIN ch[id] = 1..Len(ch[id])
         /\ ch[id] = <<>> <=> Len(ch[id]) = 0
         /\ \A i \in DOMAIN ch[id] : \E s, t \in Sessions : ch[id][i] = <<s, t>>
<1>1. ch[id] \in Seq(Sessions \X Sessions)
  BY DEF Chains
<1>2. Len(ch[id]) \in Nat /\ DOMAIN ch[id] = 1..Len(ch[id])
  BY <1>1
<1>3. ch[id] = <<>> <=> Len(ch[id]) = 0
  BY <1>1, EmptySeq
<1>4. \A i \in DOMAIN ch[id] : ch[id][i] \in Sessions \X Sessions
  BY <1>1, <1>2, ElementOfSeq
<1> QED BY <1>2, <1>3, <1>4

\* dh is ch with the link from s to t put at the end of chain id, or taken off it.
Appends(ch, dh, id, s, t) == dh = [ch EXCEPT ![id] = Append(@, <<s, t>>)]
TakesBack(ch, dh, id, s, t) == dh = [ch EXCEPT ![id] = RemoveFirst(@, <<s, t>>)]

(* A link put at the end of a chain is one entry more.                         *)
LEMMA EntryAppended ==
  ASSUME NEW ch \in Chains, NEW id \in ChainIds, NEW s \in Sessions, NEW t \in Sessions,
         NEW dh, Appends(ch, dh, id, s, t)
  PROVE  /\ dh \in Chains
         /\ Len(dh[id]) = Len(ch[id]) + 1
         /\ \A jd \in ChainIds : jd # id => dh[jd] = ch[jd]
         /\ \A jd \in ChainIds : \A i, r, u :
              Entry(dh, jd, i, r, u) <=>
                \/ Entry(ch, jd, i, r, u)
                \/ jd = id /\ i = Len(ch[id]) + 1 /\ r = s /\ u = t
<1>0. ch[id] \in Seq(Sessions \X Sessions) /\ <<s, t>> \in Sessions \X Sessions
  BY DEF Chains
<1>1. dh[id] = Append(ch[id], <<s, t>>) /\ \A jd \in ChainIds : jd # id => dh[jd] = ch[jd]
  BY DEF Chains, Appends
<1>2. /\ dh[id] \in Seq(Sessions \X Sessions)
      /\ Len(dh[id]) = Len(ch[id]) + 1
      /\ \A i \in 1..Len(ch[id]) : dh[id][i] = ch[id][i]
      /\ dh[id][Len(ch[id]) + 1] = <<s, t>>
  BY <1>0, <1>1, AppendProperties
<1>3. dh \in Chains
  BY <1>2 DEF Chains, Appends
<1>4. /\ DOMAIN dh[id] = 1..Len(ch[id]) + 1 /\ DOMAIN ch[id] = 1..Len(ch[id])
      /\ Len(ch[id]) \in Nat
  BY <1>0, <1>2, LenProperties
<1>5. ASSUME NEW i, NEW r, NEW u
      PROVE  Entry(dh, id, i, r, u) <=> Entry(ch, id, i, r, u) \/ (i = Len(ch[id]) + 1 /\ r = s /\ u = t)
  <2>1. CASE i \in 1..Len(ch[id])
    BY <1>2, <1>4, <2>1 DEF Entry
  <2>2. CASE i = Len(ch[id]) + 1
    BY <1>2, <1>4, <2>2 DEF Entry
  <2>3. CASE i \notin 1..Len(ch[id]) + 1
    BY <1>4, <2>3 DEF Entry
  <2> QED BY <1>4, <2>1, <2>2, <2>3
<1>6. ASSUME NEW jd \in ChainIds, jd # id, NEW i, NEW r, NEW u
      PROVE  Entry(dh, jd, i, r, u) <=> Entry(ch, jd, i, r, u)
  BY <1>1, <1>6 DEF Entry
<1> QED BY <1>1, <1>2, <1>3, <1>5, <1>6

(* The last link of a chain, when it is there once, is removed.                *)
LEMMA EntryRemoved ==
  ASSUME NEW ch \in Chains, NEW id \in ChainIds, NEW s \in Sessions, NEW t \in Sessions,
         NEW dh, TakesBack(ch, dh, id, s, t),
         Entry(ch, id, Len(ch[id]), s, t),
         \A i : Entry(ch, id, i, s, t) => i = Len(ch[id])
  PROVE  /\ dh \in Chains
         /\ Len(dh[id]) = Len(ch[id]) - 1
         /\ \A jd \in ChainIds : jd # id => dh[jd] = ch[jd]
         /\ \A jd \in ChainIds : \A i, r, u :
              Entry(dh, jd, i, r, u) <=> Entry(ch, jd, i, r, u) /\ ~(jd = id /\ i = Len(ch[id]))
<1> DEFINE q == ch[id]
           n == Len(ch[id])
           e == <<s, t>>
<1>0. /\ q \in Seq(Sessions \X Sessions) /\ e \in Sessions \X Sessions
      /\ n \in Nat /\ DOMAIN q = 1..n
  BY LenProperties DEF Chains
<1>1. n \in 1..n /\ q[n] = e /\ \A i \in 1..n : q[i] = e => i = n
  BY <1>0 DEF Entry
<1>2. SelectInSeq(q, LAMBDA v : v = e) = n
  <2>1. {i \in 1..Len(q) : q[i] = e} = {n}
    BY <1>0, <1>1
  <2>2. Min({n}) = n
    BY <1>0 DEF Min
  <2> QED BY <2>1, <2>2 DEF SelectInSeq
<1>3. RemoveFirst(q, e) = SubSeq(q, 1, n - 1) \o SubSeq(q, n + 1, n)
  BY <1>0, <1>1, <1>2 DEF RemoveFirst, RemoveAt
<1>4. SubSeq(q, n + 1, n) = <<>>
  BY <1>0, SubSeqEmpty
<1>5. /\ SubSeq(q, 1, n - 1) \in Seq(Sessions \X Sessions)
      /\ Len(SubSeq(q, 1, n - 1)) = n - 1
      /\ \A i \in 1..n - 1 : SubSeq(q, 1, n - 1)[i] = q[i]
  <2>1. \A i \in 1..n - 1 : q[i] \in Sessions \X Sessions
    BY <1>0, ElementOfSeq
  <2> QED BY <1>0, <1>1, <2>1, SubSeqProperties
<1>6. RemoveFirst(q, e) = SubSeq(q, 1, n - 1)
  BY <1>3, <1>4, <1>5, ConcatEmptySeq
<1>7. dh[id] = SubSeq(q, 1, n - 1) /\ \A jd \in ChainIds : jd # id => dh[jd] = ch[jd]
  BY <1>6 DEF Chains, TakesBack
<1>8. dh \in Chains
  BY <1>5, <1>7 DEF Chains, TakesBack
<1>9. DOMAIN dh[id] = 1..n - 1
  BY <1>5, <1>7, LenProperties
<1>10. ASSUME NEW i, NEW r, NEW u
       PROVE  Entry(dh, id, i, r, u) <=> Entry(ch, id, i, r, u) /\ i # n
  <2>1. CASE i \in 1..n - 1
    <3>1. i \in 1..n /\ i # n
      BY <1>0, <2>1
    <3>2. dh[id][i] = ch[id][i]
      BY <1>5, <1>7, <2>1, Zenon
    <3> QED BY <1>0, <1>9, <2>1, <3>1, <3>2 DEF Entry
  <2>2. CASE i \notin 1..n - 1
    BY <1>0, <1>9, <2>2 DEF Entry
  <2> QED BY <2>1, <2>2
<1>11. ASSUME NEW jd \in ChainIds, jd # id, NEW i, NEW r, NEW u
       PROVE  Entry(dh, jd, i, r, u) <=> Entry(ch, jd, i, r, u)
  BY <1>7, <1>11 DEF Entry
<1>12. Len(dh[id]) = Len(ch[id]) - 1
  BY <1>5, <1>7
<1> QED BY <1>7, <1>8, <1>10, <1>11, <1>12
-----------------------------------------------------------------------------
(* The chains as the proof reads them; ch is a store of chains.               *)
Leads(ch, s, t) == \E id \in ChainIds, i \in Nat : Entry(ch, id, i, s, t)
LedOn(ch, id, t) == \E i \in Nat, s \in Sessions : Entry(ch, id, i, s, t)
Led(ch, t) == \E id \in ChainIds : LedOn(ch, id, t)
Relays(ch, s) == \E t \in Sessions : Leads(ch, s, t)
RelaysOn(ch, id, s) == \E i \in Nat, t \in Sessions : Entry(ch, id, i, s, t)

\* What a consumer has in each of its steps.
Shaped(c) ==
  /\ proc[c].at = "idle" => proc[c] = IdleConsumer
  /\ proc[c].at = "take" <=> proc[c].at # "idle" /\ proc[c].baton = NoBaton
  /\ proc[c].to = First <=> ~(proc[c].at = "link" \/ (tool = "claude" /\ proc[c].at \in {"spawn", "unlink"}))
  /\ proc[c].at = "unlink" => tool = "claude"
  /\ proc[c].at # "idle" => life[proc[c].from] # "unborn"
  /\ proc[c].to # First => (life[proc[c].to] = "unborn" <=> tool = "claude")
Shape == \A c \in Consumers : Shaped(c)

\* Only a session that was started has a baton or a link of its own.
AliveAt(s) ==
  /\ asked[s] # NoBaton => life[s] = "running"
  /\ pending[s] # NoBaton => life[s] # "unborn"
  /\ Relays(chain, s) => life[s] # "unborn"
Alive == life[First] # "unborn" /\ \A s \in Sessions : AliveAt(s)

\* A Claude session waits for its hook.
WaitsAt(c) == tool = "claude" /\ proc[c].at # "idle" =>
  /\ life[proc[c].from] = "idle"
  /\ proc[c].at # "take" => pending[proc[c].from] = NoBaton
  /\ \A d \in Consumers : proc[d].at # "idle" /\ proc[d].from = proc[c].from => c = d
Waits == \A c \in Consumers : WaitsAt(c)

\* A successor is somebody's, and once.
DistinctAt(c) ==
  /\ proc[c].at = "link" => ~Led(chain, proc[c].to)
  /\ proc[c].to # First => \A d \in Consumers : proc[d].to = proc[c].to => c = d
Distinct ==
  /\ \A id, jd \in ChainIds : \A i, j \in Nat : \A r, s, t \in Sessions :
       Entry(chain, id, i, r, t) /\ Entry(chain, jd, j, s, t) => id = jd /\ i = j
  /\ ~Led(chain, First)
  /\ \A c \in Consumers : DistinctAt(c)

\* Consumer c has a baton of s and has not given up on it.
InHandBy(c, s) == proc[c].from = s /\ proc[c].baton # NoBaton /\ proc[c].at # "unlink"
\* ... and has not recorded the link.
Carries(c, s) == /\ proc[c].from = s
                 /\ proc[c].at \in {"check", "link"} \/ (tool = "codex" /\ proc[c].at = "spawn")
\* A baton of s, wherever it is, goes to chain k.
Names(s, k) ==
  asked[s].chain = k \/ pending[s].chain = k \/ \E c \in Consumers : Carries(c, s) /\ proc[c].baton.chain = k

\* A session that was not disturbed has one baton at a time, on the one chain it is on.
OnIt(ch, id, s) == LedOn(ch, id, s) \/ RelaysOn(ch, id, s)
Unused(s) == ~Led(chain, s) /\ ~Relays(chain, s) /\ \A k \in ChainIds \cup {New} : ~Names(s, k)
Untorn(s) ==
  /\ \A c \in Consumers : InHandBy(c, s) =>
       pending[s] = NoBaton /\ \A d \in Consumers : InHandBy(d, s) => c = d
  /\ \A id, jd \in ChainIds : OnIt(chain, id, s) /\ OnIt(chain, jd, s) => id = jd
  /\ Names(s, New) => ~Led(chain, s) /\ ~Unlinked(s)
  /\ \A id \in ChainIds : Names(s, id) => LedOn(chain, id, s)
  /\ Unlinked(s) => Unused(s)

\* Its links are its successors, except in the middle of a relay.
Relaying(c) == proc[c].at \in {"link", "spawn", "unlink"}
\* c is in the middle of a relay of s.
Midway(s, c) ==
  IF tool = "codex"
  THEN ~Relays(chain, s) /\ heirs[s] = (IF proc[c].at = "link" THEN {proc[c].to} ELSE {})
  ELSE /\ heirs[s] = {}
       /\ IF proc[c].at = "link" THEN ~Relays(chain, s)
          ELSE \A t \in Sessions : Leads(chain, s, t) <=> t = proc[c].to
Ends(s) ==
  /\ \A t, u \in heirs[s] : t = u
  /\ (\A c \in Consumers : proc[c].from = s => ~Relaying(c)) =>
       \A t \in Sessions : Leads(chain, s, t) <=> t \in heirs[s]
  /\ \A c \in Consumers : proc[c].from = s /\ Relaying(c) => Midway(s, c)

EndsOK == \A s \in Sessions \ torn : Untorn(s) /\ Ends(s)

\* The chain of a Claude session is one path from First; a baton is at its end.
LastOf(ch, id, s, t) == Entry(ch, id, Len(ch[id]), s, t)
Paths ==
  /\ \A id \in ChainIds : Len(chain[id]) < MAX_CHAIN_HOPS
  /\ \A id \in ChainIds : \A s, t \in Sessions : Entry(chain, id, 1, s, t) => s = First
  /\ \A id \in ChainIds : \A i \in Nat : \A r, s, t, u \in Sessions :
       Entry(chain, id, i, r, s) /\ Entry(chain, id, i + 1, t, u) => s = t
  /\ \A id, jd \in ChainIds : chain[id] # <<>> /\ chain[jd] # <<>> => id = jd
Depths ==
  /\ depth[First] = 1
  /\ \A s \in Sessions : IF life[s] = "unborn" THEN depth[s] = 0 ELSE s = First \/ Led(chain, s)
  /\ \A id \in ChainIds : \A i \in Nat : \A s, t \in Sessions :
       Entry(chain, id, i, s, t) /\ life[t] # "unborn" => depth[t] = i + 1
Tails ==
  /\ \A s \in Sessions :
       /\ Names(s, New) => s = First /\ \A id \in ChainIds : chain[id] = <<>>
       /\ \A id \in ChainIds : Names(s, id) =>
            /\ Len(chain[id]) + 1 < MAX_CHAIN_HOPS
            /\ \E r \in Sessions : LastOf(chain, id, r, s)
  /\ \A c \in Consumers : proc[c].at \in {"spawn", "unlink"} =>
       /\ proc[c].baton.chain \in ChainIds
       /\ LastOf(chain, proc[c].baton.chain, proc[c].from, proc[c].to)
ClaudeOK == tool = "claude" => Paths /\ Depths /\ Tails

HInv == HTypeOK /\ Shape /\ Alive /\ Waits /\ Distinct /\ EndsOK /\ ClaudeOK
-----------------------------------------------------------------------------
(* What the steps do, consumer by consumer and session by session.            *)
Steps == {"idle", "take", "check", "link", "spawn", "unlink"}
Consumer == [at : Steps, from : Sessions, to : Sessions, baton : Batons \cup {NoBaton}]
Does(c, p) == /\ p \in Consumer /\ proc' \in [Consumers -> Consumer] /\ proc'[c] = p
              /\ \A d \in Consumers : d # c => proc'[d] = proc[d]
\* Consumer c at step a, with successor t and baton b.
To(c, a, t, b) == [at |-> a, from |-> proc[c].from, to |-> t, baton |-> b]

LEMMA Typed ==
  ASSUME HTypeOK, NEW c \in Consumers
  PROVE  /\ proc \in [Consumers -> Consumer] /\ proc[c] \in Consumer
         /\ proc[c].from \in Sessions /\ proc[c].to \in Sessions
         /\ proc[c].baton \in Batons \cup {NoBaton} /\ proc[c].at \in Steps
         /\ IdleConsumer \in Consumer
         /\ \A a \in Steps, t \in Sessions, b \in Batons \cup {NoBaton} : To(c, a, t, b) \in Consumer
  BY HandoffAssumption DEF HTypeOK, Consumer, Steps, IdleConsumer, To

LEMMA DoneDoes ==
  ASSUME HTypeOK, NEW c \in Consumers, Done(c)
  PROVE  Does(c, IdleConsumer)
  BY Typed DEF Done, Does

LEMMA MovesDoes ==
  ASSUME HTypeOK, NEW c \in Consumers, NEW a \in Steps, NEW t \in Sessions,
         NEW b \in Batons \cup {NoBaton}, Moves(c, a, t, b)
  PROVE  Does(c, To(c, a, t, b))
  BY Typed DEF Moves, Does, To

LEMMA TakeDoes ==
  ASSUME HTypeOK, NEW c \in Consumers, Take(c), NEW s, s = proc[c].from
  PROVE  /\ proc[c].at = "take" /\ s \in Sessions
         /\ \/ Does(c, IdleConsumer)
            \/ pending[s] \in Batons /\ Does(c, To(c, "check", proc[c].to, pending[s]))
         /\ pending' \in [Sessions -> Batons \cup {NoBaton}] /\ pending'[s] = NoBaton
         /\ \A r \in Sessions : r # s => pending'[r] = pending[r]
         /\ UNCHANGED <<tool, life, asked, chain, failures, heirs, depth, torn>>
<1>1. s \in Sessions /\ pending[s] \in Batons \cup {NoBaton}
  BY Typed DEF HTypeOK
<1>2. CASE Done(c)
  BY <1>1, <1>2, DoneDoes DEF Take, HTypeOK, ghosts
<1>3. CASE pending[s] # NoBaton /\ Moves(c, "check", proc[c].to, pending[s])
  <2>1. Does(c, To(c, "check", proc[c].to, pending[s]))
    BY <1>1, <1>3, MovesDoes, Typed DEF Steps
  <2>2. /\ proc[c].at = "take" /\ pending' \in [Sessions -> Batons \cup {NoBaton}] /\ pending'[s] = NoBaton
        /\ \A r \in Sessions : r # s => pending'[r] = pending[r]
        /\ UNCHANGED <<tool, life, asked, chain, failures, heirs, depth, torn>>
    BY <1>1 DEF Take, HTypeOK, ghosts
  <2> QED BY <1>1, <1>3, <2>1, <2>2
<1> QED BY <1>2, <1>3 DEF Take

LEMMA CheckDoes ==
  ASSUME HTypeOK, NEW c \in Consumers, Check(c), NEW s, s = proc[c].from
  PROVE  /\ proc[c].at = "check" /\ s \in Sessions
         /\ \/ Does(c, IdleConsumer)
            \/ /\ Containing(s) = {} \/ \E id \in Containing(s) : ~RelayedOn(id, s)
               /\ \/ /\ tool = "claude"
                     /\ \E t \in Sessions : Nameless(t) /\ Does(c, To(c, "link", t, proc[c].baton))
                  \/ tool = "codex" /\ Does(c, To(c, "spawn", proc[c].to, proc[c].baton))
         /\ UNCHANGED <<tool, life, asked, pending, chain, failures, heirs, depth, torn>>
<1>1. s \in Sessions /\ UNCHANGED <<tool, life, asked, pending, chain, failures, heirs, depth, torn>>
  BY Typed DEF Check, files, ghosts
<1>2. CASE Done(c)
  BY <1>1, <1>2, DoneDoes DEF Check
<1>3. CASE /\ Containing(s) = {} \/ \E id \in Containing(s) : ~RelayedOn(id, s)
           /\ tool = "claude" /\ \E t \in Sessions : Nameless(t) /\ Moves(c, "link", t, proc[c].baton)
  <2>1. PICK t \in Sessions : Nameless(t) /\ Moves(c, "link", t, proc[c].baton)
    BY <1>3
  <2>2. Does(c, To(c, "link", t, proc[c].baton))
    BY <2>1, MovesDoes, Typed DEF Steps
  <2>3. proc[c].at = "check"
    BY DEF Check
  <2> QED BY <1>1, <1>3, <2>1, <2>2, <2>3
<1>4. CASE /\ Containing(s) = {} \/ \E id \in Containing(s) : ~RelayedOn(id, s)
           /\ tool # "claude" /\ Moves(c, "spawn", proc[c].to, proc[c].baton)
  <2>1. Does(c, To(c, "spawn", proc[c].to, proc[c].baton))
    BY <1>4, MovesDoes, Typed DEF Steps
  <2>2. proc[c].at = "check" /\ tool \in {"claude", "codex"}
    BY DEF Check, HTypeOK
  <2> QED BY <1>1, <1>4, <2>1, <2>2
<1> QED BY <1>2, <1>3, <1>4 DEF Check

LEMMA SuccessorFailsDoes ==
  ASSUME HTypeOK, NEW c \in Consumers, SuccessorFails(c)
  PROVE  /\ proc[c].at = "spawn" /\ failures' \in 0..MAX_FAILURES
         /\ IF tool = "claude" THEN Does(c, To(c, "unlink", proc[c].to, proc[c].baton))
            ELSE Does(c, IdleConsumer)
         /\ UNCHANGED <<tool, life, asked, pending, chain, heirs, depth, torn>>
<1>1. /\ proc[c].at = "spawn" /\ failures' \in 0..MAX_FAILURES
      /\ UNCHANGED <<tool, life, asked, pending, chain, heirs, depth, torn>>
  BY HandoffAssumption DEF SuccessorFails, Fails, HTypeOK, files, ghosts
<1>2. CASE tool = "claude"
  <2>1. Moves(c, "unlink", proc[c].to, proc[c].baton)
    BY <1>2 DEF SuccessorFails
  <2>2. Does(c, To(c, "unlink", proc[c].to, proc[c].baton))
    BY <2>1, MovesDoes, Typed DEF Steps
  <2> QED BY <1>1, <1>2, <2>2
<1>3. CASE tool # "claude"
  BY <1>1, <1>3, DoneDoes DEF SuccessorFails
<1> QED BY <1>2, <1>3

LEMMA KilledDoes ==
  ASSUME HTypeOK, NEW c \in Consumers, Killed(c)
  PROVE  /\ proc[c].at # "idle" /\ Does(c, IdleConsumer) /\ failures' \in 0..MAX_FAILURES
         /\ torn \subseteq torn' /\ torn' \subseteq Sessions
         /\ proc[c].at \in {"link", "spawn", "unlink"} => proc[c].from \in torn'
         /\ UNCHANGED <<tool, life, asked, pending, chain, heirs, depth>>
<1>1. Does(c, IdleConsumer)
  BY DoneDoes DEF Killed
<1>2. /\ proc[c].at # "idle" /\ failures' \in 0..MAX_FAILURES
      /\ UNCHANGED <<tool, life, asked, pending, chain, heirs, depth>>
  BY HandoffAssumption DEF Killed, Fails, HTypeOK, files
<1>3. /\ torn \subseteq torn' /\ torn' \subseteq Sessions
      /\ proc[c].at \in {"link", "spawn", "unlink"} => proc[c].from \in torn'
  BY Typed DEF Killed, HTypeOK
<1> QED BY <1>1, <1>2, <1>3

\* Session t becomes a running successor of s.
Starts1(s, t) ==
  /\ life' \in [Sessions -> {"unborn", "running", "idle"}] /\ life'[t] = "running"
  /\ \A r \in Sessions : r # t => life'[r] = life[r]
  /\ heirs' \in [Sessions -> SUBSET Sessions] /\ heirs'[s] = heirs[s] \cup {t}
  /\ \A r \in Sessions : r # s => heirs'[r] = heirs[r]
  /\ depth' \in [Sessions -> Nat] /\ depth'[t] = depth[s] + 1
  /\ \A r \in Sessions : r # t => depth'[r] = depth[r]

LEMMA SpawnDoes ==
  ASSUME HTypeOK, NEW c \in Consumers, Spawn(c), NEW s, s = proc[c].from
  PROVE  /\ proc[c].at = "spawn" /\ s \in Sessions
         /\ \/ tool = "claude" /\ Does(c, IdleConsumer) /\ Starts1(s, proc[c].to)
            \/ /\ tool = "codex"
               /\ \E t \in Sessions : /\ Nameless(t) /\ Starts1(s, t)
                                      /\ Does(c, To(c, "link", t, proc[c].baton))
         /\ UNCHANGED <<tool, asked, pending, chain, failures, torn>>
<1>1. /\ proc[c].at = "spawn" /\ s \in Sessions /\ proc[c].to \in Sessions
      /\ UNCHANGED <<tool, asked, pending, chain, failures, torn>>
  BY Typed DEF Spawn, files
<1>2. ASSUME NEW t \in Sessions, Start(s, t)
      PROVE  Starts1(s, t)
  BY <1>1, <1>2 DEF Start, Starts1, HTypeOK
<1>3. CASE tool = "claude" /\ Start(s, proc[c].to) /\ Done(c)
  BY <1>1, <1>2, <1>3, DoneDoes
<1>4. CASE tool = "codex" /\ \E t \in Sessions : Nameless(t) /\ Start(s, t) /\ Moves(c, "link", t, proc[c].baton)
  <2>1. PICK t \in Sessions : Nameless(t) /\ Start(s, t) /\ Moves(c, "link", t, proc[c].baton)
    BY <1>4
  <2>2. Does(c, To(c, "link", t, proc[c].baton))
    BY <2>1, MovesDoes, Typed DEF Steps
  <2> QED BY <1>1, <1>2, <1>4, <2>1, <2>2
<1> QED BY <1>3, <1>4 DEF Spawn
-----------------------------------------------------------------------------
LEMMA EntryTypes ==
  ASSUME NEW ch \in Chains, NEW id \in ChainIds, NEW i, NEW s, NEW t, Entry(ch, id, i, s, t)
  PROVE  i \in Nat /\ 1 <= i /\ i <= Len(ch[id]) /\ s \in Sessions /\ t \in Sessions
<1>1. PICK r \in Sessions, u \in Sessions : ch[id][i] = <<r, u>>
  BY Entries DEF Entry
<1>2. s = r /\ t = u
  BY <1>1 DEF Entry
<1>3. i \in 1..Len(ch[id]) /\ Len(ch[id]) \in Nat
  BY Entries DEF Entry
<1> QED BY <1>1, <1>2, <1>3

LEMMA EntryAt ==
  ASSUME NEW ch \in Chains, NEW id \in ChainIds, NEW i \in 1..Len(ch[id])
  PROVE  i \in Nat /\ \E s, t \in Sessions : Entry(ch, id, i, s, t)
  BY Entries DEF Entry

LEMMA EntryOne ==
  ASSUME NEW ch, NEW id, NEW i, NEW s, NEW t, NEW r, NEW u, Entry(ch, id, i, s, t), Entry(ch, id, i, r, u)
  PROVE  s = r /\ t = u
  BY DEF Entry

(* The predicates of the model, read off the chains.                          *)
LEMMA Readings ==
  ASSUME HTypeOK, NEW id \in ChainIds, NEW s \in Sessions
  PROVE  /\ RelayedOn(id, s) <=> RelaysOn(chain, id, s)
         /\ On(id, s) <=> LedOn(chain, id, s) \/ RelaysOn(chain, id, s)
<1> USE DEF HTypeOK
<1>0. chain \in Chains
  BY DEF Chains
<1>1. RelayedOn(id, s) => RelaysOn(chain, id, s)
  <2>1. ASSUME NEW i \in DOMAIN chain[id], chain[id][i][1] = s
        PROVE  RelaysOn(chain, id, s)
    <3>1. PICK r \in Sessions, u \in Sessions : chain[id][i] = <<r, u>>
      BY <1>0, Entries
    <3>2. Entry(chain, id, i, s, u)
      BY <2>1, <3>1 DEF Entry
    <3> QED BY <1>0, <3>1, <3>2, EntryTypes DEF RelaysOn
  <2> QED BY <2>1 DEF RelayedOn
<1>2. RelaysOn(chain, id, s) => RelayedOn(id, s)
  BY DEF RelaysOn, RelayedOn, Entry
<1>3. On(id, s) => LedOn(chain, id, s) \/ RelaysOn(chain, id, s)
  <2>1. ASSUME NEW i \in DOMAIN chain[id], s \in {chain[id][i][1], chain[id][i][2]}
        PROVE  LedOn(chain, id, s) \/ RelaysOn(chain, id, s)
    <3>1. PICK r \in Sessions, u \in Sessions : chain[id][i] = <<r, u>>
      BY <1>0, Entries
    <3>2. Entry(chain, id, i, r, u)
      BY <3>1 DEF Entry
    <3>3. i \in Nat /\ (s = r \/ s = u)
      BY <1>0, <2>1, <3>1, <3>2, EntryTypes
    <3> QED BY <3>2, <3>3 DEF RelaysOn, LedOn
  <2> QED BY <2>1 DEF On
<1>4. LedOn(chain, id, s) => On(id, s)
  BY DEF LedOn, On, Entry
<1>5. RelaysOn(chain, id, s) => On(id, s)
  BY DEF RelaysOn, On, Entry
<1> QED BY <1>1, <1>2, <1>3, <1>4, <1>5

LEMMA LinkedReads ==
  ASSUME HTypeOK, NEW s \in Sessions, NEW t \in Sessions
  PROVE  Linked(s, t) <=> Leads(chain, s, t)
<1>0. chain \in Chains
  BY DEF Chains, HTypeOK
<1>1. Linked(s, t) => Leads(chain, s, t)
  <2>1. ASSUME NEW id \in ChainIds, NEW i \in DOMAIN chain[id], chain[id][i] = <<s, t>>
        PROVE  Leads(chain, s, t)
    <3>1. Entry(chain, id, i, s, t)
      BY <2>1 DEF Entry
    <3>2. i \in Nat
      BY <1>0, <3>1, EntryTypes
    <3> QED BY <3>1, <3>2 DEF Leads
  <2> QED BY <2>1 DEF Linked
<1>2. Leads(chain, s, t) => Linked(s, t)
  BY DEF Leads, Linked, Entry
<1> QED BY <1>1, <1>2

(* How the readings go together.                                              *)
LEMMA Reads ==
  ASSUME NEW ch \in Chains
  PROVE  /\ \A s \in Sessions : Relays(ch, s) <=> \E id \in ChainIds : RelaysOn(ch, id, s)
         /\ \A s, t \in Sessions : Leads(ch, s, t) => Led(ch, t) /\ Relays(ch, s)
  BY DEF Relays, RelaysOn, Leads, Led, LedOn

LEMMA Appended ==
  ASSUME NEW ch \in Chains, NEW id \in ChainIds, NEW s \in Sessions, NEW t \in Sessions,
         NEW dh, Appends(ch, dh, id, s, t)
  PROVE  /\ \A r, u : Leads(dh, r, u) <=> Leads(ch, r, u) \/ (r = s /\ u = t)
         /\ \A jd \in ChainIds : \A u : LedOn(dh, jd, u) <=> LedOn(ch, jd, u) \/ (jd = id /\ u = t)
         /\ \A jd \in ChainIds : \A r : RelaysOn(dh, jd, r) <=> RelaysOn(ch, jd, r) \/ (jd = id /\ r = s)
         /\ \A u : Led(dh, u) <=> Led(ch, u) \/ u = t
         /\ \A r : Relays(dh, r) <=> Relays(ch, r) \/ r = s
<1> DEFINE n == Len(ch[id]) + 1
<1>1. n \in Nat
  BY Entries
<1>2. /\ dh \in Chains /\ Len(dh[id]) = n
      /\ \A jd \in ChainIds : jd # id => dh[jd] = ch[jd]
      /\ \A jd \in ChainIds : \A i, r, u :
           Entry(dh, jd, i, r, u) <=> Entry(ch, jd, i, r, u) \/ (jd = id /\ i = n /\ r = s /\ u = t)
  BY EntryAppended
<1> HIDE DEF n
<1>3. \A r, u : Leads(dh, r, u) <=> Leads(ch, r, u) \/ (r = s /\ u = t)
  <2>1. ASSUME NEW r, NEW u, Leads(dh, r, u)
        PROVE  Leads(ch, r, u) \/ (r = s /\ u = t)
    BY <1>2, <2>1 DEF Leads
  <2>2. ASSUME NEW r, NEW u, Leads(ch, r, u)
        PROVE  Leads(dh, r, u)
    BY <1>2, <2>2 DEF Leads
  <2>3. Leads(dh, s, t)
    BY <1>1, <1>2 DEF Leads
  <2> QED BY <2>1, <2>2, <2>3
<1>4. \A jd \in ChainIds : \A u : LedOn(dh, jd, u) <=> LedOn(ch, jd, u) \/ (jd = id /\ u = t)
  <2>1. ASSUME NEW jd \in ChainIds, NEW u, LedOn(dh, jd, u)
        PROVE  LedOn(ch, jd, u) \/ (jd = id /\ u = t)
    BY <1>2, <2>1 DEF LedOn
  <2>2. ASSUME NEW jd \in ChainIds, NEW u, LedOn(ch, jd, u)
        PROVE  LedOn(dh, jd, u)
    BY <1>2, <2>2 DEF LedOn
  <2>3. LedOn(dh, id, t)
    BY <1>1, <1>2 DEF LedOn
  <2> QED BY <2>1, <2>2, <2>3
<1>5. \A jd \in ChainIds : \A r : RelaysOn(dh, jd, r) <=> RelaysOn(ch, jd, r) \/ (jd = id /\ r = s)
  BY <1>1, <1>2 DEF RelaysOn
<1>6. \A u : Led(dh, u) <=> Led(ch, u) \/ u = t
  BY <1>4 DEF Led
<1>7. \A r : Relays(dh, r) <=> Relays(ch, r) \/ r = s
  BY <1>3 DEF Relays
<1> QED BY <1>3, <1>4, <1>5, <1>6, <1>7

(* The last link of a chain is taken back, and nothing else leads to its end. *)
LEMMA Removed ==
  ASSUME NEW ch \in Chains, NEW id \in ChainIds, NEW s \in Sessions, NEW t \in Sessions,
         NEW dh, TakesBack(ch, dh, id, s, t),
         LastOf(ch, id, s, t),
         \A jd \in ChainIds : \A i \in Nat : \A r \in Sessions :
           Entry(ch, jd, i, r, t) => jd = id /\ i = Len(ch[id])
  PROVE  /\ dh \in Chains /\ Len(dh[id]) = Len(ch[id]) - 1
         /\ \A jd \in ChainIds : jd # id => dh[jd] = ch[jd]
         /\ \A jd \in ChainIds : \A i, r, u : Entry(dh, jd, i, r, u) <=> Entry(ch, jd, i, r, u) /\ u # t
         /\ \A r, u : Leads(dh, r, u) <=> Leads(ch, r, u) /\ u # t
         /\ \A jd \in ChainIds : \A u : LedOn(dh, jd, u) <=> LedOn(ch, jd, u) /\ u # t
         /\ \A u : Led(dh, u) <=> Led(ch, u) /\ u # t
         /\ \A jd \in ChainIds : \A r : RelaysOn(dh, jd, r) => RelaysOn(ch, jd, r)
         /\ \A r : Relays(dh, r) => Relays(ch, r)
<1> DEFINE n == Len(ch[id])
<1>0. Entry(ch, id, n, s, t)
  BY DEF LastOf
<1>1. \A i : Entry(ch, id, i, s, t) => i = n
  BY EntryTypes
<1>2. /\ dh \in Chains /\ Len(dh[id]) = n - 1
      /\ \A jd \in ChainIds : jd # id => dh[jd] = ch[jd]
      /\ \A jd \in ChainIds : \A i, r, u :
           Entry(dh, jd, i, r, u) <=> Entry(ch, jd, i, r, u) /\ ~(jd = id /\ i = n)
  BY <1>0, <1>1, EntryRemoved
<1>3. \A jd \in ChainIds : \A i, r, u : Entry(dh, jd, i, r, u) <=> Entry(ch, jd, i, r, u) /\ u # t
  <2>1. ASSUME NEW jd \in ChainIds, NEW i, NEW r, NEW u, Entry(ch, jd, i, r, u), u = t
        PROVE  jd = id /\ i = n
    BY <2>1, EntryTypes
  <2>2. ASSUME NEW i, NEW r, NEW u, Entry(ch, id, i, r, u), i = n
        PROVE  u = t
    BY <1>0, <2>2, EntryOne
  <2> QED BY <1>2, <2>1, <2>2
<1> HIDE DEF n
<1>4. \A r, u : Leads(dh, r, u) <=> Leads(ch, r, u) /\ u # t
  BY <1>3 DEF Leads
<1>5. \A jd \in ChainIds : \A u : LedOn(dh, jd, u) <=> LedOn(ch, jd, u) /\ u # t
  BY <1>3 DEF LedOn
<1>6. \A u : Led(dh, u) <=> Led(ch, u) /\ u # t
  BY <1>5 DEF Led
<1>7. \A jd \in ChainIds : \A r : RelaysOn(dh, jd, r) => RelaysOn(ch, jd, r)
  BY <1>3 DEF RelaysOn
<1>8. \A r : Relays(dh, r) => Relays(ch, r)
  BY <1>4 DEF Relays
<1> QED BY <1>2, <1>3, <1>4, <1>5, <1>6, <1>7, <1>8 DEF n
-----------------------------------------------------------------------------
(* A session that is on its chain and has not relayed is the end of the path, *)
(* so its hop count is the length of the path.                                *)
LEMMA TailHop ==
  ASSUME HTypeOK, Distinct, Paths, NEW id \in ChainIds, NEW s \in Sessions,
         LedOn(chain, id, s), ~RelaysOn(chain, id, s)
  PROVE  /\ \E r \in Sessions : LastOf(chain, id, r, s)
         /\ HopOf(chain[id], s) = Len(chain[id]) + 1
<1> DEFINE links == chain[id]
           n == Len(links)
<1>0. chain \in Chains /\ n \in Nat /\ DOMAIN links = 1..n
  <2>1. chain \in Chains
    BY DEF HTypeOK, Chains
  <2> QED BY <2>1, Entries
<1>1. PICK i \in Nat, r \in Sessions : Entry(chain, id, i, r, s)
  BY DEF LedOn
<1>2. i \in 1..n
  BY <1>0, <1>1, EntryTypes
<1>3. i = n
  <2>1. SUFFICES ASSUME i + 1 \in 1..n
                 PROVE  FALSE
    BY <1>0, <1>2, <2>1
  <2>2. PICK t \in Sessions, u \in Sessions : Entry(chain, id, i + 1, t, u)
    BY <1>0, <2>1, EntryAt
  <2>3. s = t
    BY <1>1, <2>2 DEF Paths
  <2> QED BY <2>1, <2>2, <2>3 DEF RelaysOn
<1>4. ASSUME NEW j \in 1..n
      PROVE  s \in {links[j][1], links[j][2]} <=> j = n
  <2>1. PICK t \in Sessions, u \in Sessions : Entry(chain, id, j, t, u) /\ j \in Nat
    BY <1>0, EntryAt
  <2>2. links[j][1] = t /\ links[j][2] = u
    BY <2>1 DEF Entry
  <2>3. t # s
    BY <2>1 DEF RelaysOn
  <2>4. u = s => j = n
    BY <1>1, <1>3, <2>1 DEF Distinct
  <2>5. j = n => u = s
    BY <1>1, <1>3, <2>1, EntryOne
  <2> QED BY <2>2, <2>3, <2>4, <2>5
<1>5. (CHOOSE j \in DOMAIN links :
         s \in {links[j][1], links[j][2]} /\ \A k \in 1..j - 1 : s \notin {links[k][1], links[k][2]}) = n
  <2>1. \A j \in 1..n : (s \in {links[j][1], links[j][2]}
                          /\ \A k \in 1..j - 1 : s \notin {links[k][1], links[k][2]}) <=> j = n
    <3>1. \A k \in 1..n - 1 : s \notin {links[k][1], links[k][2]}
      BY <1>0, <1>4
    <3> QED BY <1>4, <3>1
  <2> QED BY <1>0, <1>2, <1>3, <2>1
<1>6. links[n][1] # s
  <2>1. links[n][1] = r
    BY <1>1, <1>3 DEF Entry
  <2> QED BY <1>1, <2>1 DEF RelaysOn
<1>7. Starts(links, n) = {1}
  <2>1. ASSUME NEW j \in 1..n, j # 1
        PROVE  links[j - 1][2] = links[j][1]
    <3>1. j - 1 \in 1..n /\ j - 1 \in Nat /\ (j - 1) + 1 = j
      BY <1>0, <2>1
    <3>2. PICK a \in Sessions, b \in Sessions : Entry(chain, id, j - 1, a, b)
      BY <1>0, <3>1, EntryAt
    <3>3. PICK t \in Sessions, u \in Sessions : Entry(chain, id, j, t, u)
      BY <1>0, EntryAt
    <3>4. b = t
      BY <3>1, <3>2, <3>3 DEF Paths
    <3> QED BY <3>2, <3>3, <3>4 DEF Entry
  <2>2. 1 \in 1..n
    BY <1>0, <1>2
  <2> QED BY <2>1, <2>2 DEF Starts
<1>8. Cardinality({1}) = 1
  BY FS_Singleton
<1>9. HopOf(links, s) = n + Cardinality(Starts(links, n)) - 0
  BY <1>5, <1>6 DEF HopOf
<1> QED BY <1>0, <1>1, <1>3, <1>7, <1>8, <1>9 DEF LastOf

(* There is always a chain without a file: the first links of the chains lead *)
(* to sessions of their own, and none of them is First.                       *)
LEMMA FreeIdIs ==
  ASSUME HTypeOK, Distinct
  PROVE  FreeId \in ChainIds /\ chain[FreeId] = <<>>
<1>0. chain \in Chains
  BY DEF HTypeOK, Chains
<1>1. SUFFICES ASSUME \A id \in ChainIds : chain[id] # <<>>
               PROVE  FALSE
  BY <1>1 DEF FreeId
<1> DEFINE F == [id \in ChainIds |-> chain[id][1][2]]
           N == Cardinality(Sessions)
<1>2. \A id \in ChainIds : \E s \in Sessions : Entry(chain, id, 1, s, F[id]) /\ F[id] \in Sessions
  <2>1. ASSUME NEW id \in ChainIds
        PROVE  \E s \in Sessions : Entry(chain, id, 1, s, F[id]) /\ F[id] \in Sessions
    <3>1. 1 \in 1..Len(chain[id])
      BY <1>0, <1>1, Entries
    <3>2. PICK s \in Sessions, t \in Sessions : Entry(chain, id, 1, s, t)
      BY <1>0, <3>1, EntryAt
    <3>3. F[id] = t
      BY <3>2 DEF Entry
    <3> QED BY <3>2, <3>3
  <2> QED BY <2>1
<1>3. \A id \in ChainIds : F[id] # First
  BY <1>2 DEF Distinct, Led, LedOn
<1>4. \A id, jd \in ChainIds : F[id] = F[jd] => id = jd
  <2>1. ASSUME NEW id \in ChainIds, NEW jd \in ChainIds, F[id] = F[jd]
        PROVE  id = jd
    <3>1. PICK r \in Sessions : Entry(chain, id, 1, r, F[id]) /\ F[id] \in Sessions
      BY <1>2
    <3>2. PICK s \in Sessions : Entry(chain, jd, 1, s, F[id])
      BY <1>2, <2>1
    <3>3. 1 \in Nat
      OBVIOUS
    <3> QED BY <3>1, <3>2, <3>3 DEF Distinct
  <2> QED BY <2>1
<1> HIDE DEF F
<1>5. F \in [ChainIds -> Sessions \ {First}]
  BY <1>2, <1>3 DEF F
<1>6. N \in Nat /\ IsFiniteSet(Sessions) /\ First \in Sessions
  BY HandoffAssumption, FS_CardinalityType
<1>7. IsFiniteSet(Sessions \ {First}) /\ Cardinality(Sessions \ {First}) = N - 1
  BY <1>6, FS_RemoveElement
<1>8. IsFiniteSet(ChainIds) /\ Cardinality(ChainIds) = N
  <2>1. N # 0
    BY <1>6, FS_EmptySet
  <2> QED BY <1>6, <2>1, FS_Interval DEF ChainIds
<1>9. F \in Injection(ChainIds, Sessions \ {First})
  BY <1>4, <1>5 DEF Injection, IsInjective
<1>10. Cardinality(ChainIds) <= Cardinality(Sessions \ {First})
  BY <1>7, <1>9, FS_Injection
<1> QED BY <1>6, <1>7, <1>8, <1>10

LEMMA LinkDoes ==
  ASSUME HTypeOK, Shape, Distinct, NEW c \in Consumers, Link(c),
         NEW s, s = proc[c].from, NEW t, t = proc[c].to
  PROVE  \E id \in ChainIds :
         /\ proc[c].at = "link" /\ s \in Sessions /\ t \in Sessions
         /\ IF proc[c].baton.chain = New THEN chain[id] = <<>> ELSE id = proc[c].baton.chain
         /\ Appends(chain, chain', id, s, t) /\ chain \in Chains /\ chain' \in Chains
         /\ IF tool = "codex" THEN Does(c, IdleConsumer)
            ELSE /\ [chain |-> id, old |-> proc[c].baton.old] \in Batons
                 /\ Does(c, To(c, "spawn", t, [chain |-> id, old |-> proc[c].baton.old]))
         /\ UNCHANGED <<tool, life, asked, pending, failures, heirs, depth, torn>>
<1> DEFINE b == proc[c].baton
           id == IF b.chain # New THEN b.chain ELSE FreeId
<1>1. /\ proc[c].at = "link" /\ s \in Sessions /\ t \in Sessions
      /\ UNCHANGED <<tool, life, asked, pending, failures, heirs, depth, torn>>
  BY Typed DEF Link, ghosts
<1>2. b \in Batons
  BY <1>1, Typed DEF Shape, Shaped
<1>3. /\ id \in ChainIds
      /\ IF b.chain = New THEN chain[id] = <<>> ELSE id = b.chain
  BY <1>2, FreeIdIs DEF Batons
<1>4. Appends(chain, chain', id, s, t) /\ chain \in Chains
  BY DEF Link, Appends, Chains, HTypeOK
<1>5. chain' \in Chains
  BY <1>1, <1>3, <1>4, EntryAppended
<1>6. [chain |-> id, old |-> b.old] \in Batons
  BY <1>2, <1>3 DEF Batons
<1>7. CASE tool = "codex"
  <2>1. Does(c, IdleConsumer)
    BY <1>7, DoneDoes DEF Link
  <2> QED BY <1>1, <1>3, <1>4, <1>5, <1>7, <2>1
<1>8. CASE tool # "codex"
  <2>1. Moves(c, "spawn", t, [chain |-> id, old |-> b.old])
    BY <1>8 DEF Link
  <2>2. Does(c, To(c, "spawn", t, [chain |-> id, old |-> b.old]))
    BY <1>1, <1>6, <2>1, MovesDoes DEF Steps
  <2> QED BY <1>1, <1>3, <1>4, <1>5, <1>6, <1>8, <2>2
<1> QED BY <1>7, <1>8

LEMMA UnlinkDoes ==
  ASSUME HTypeOK, Shape, Distinct, ClaudeOK, NEW c \in Consumers, Unlink(c),
         NEW s, s = proc[c].from, NEW t, t = proc[c].to, NEW id, id = proc[c].baton.chain
  PROVE  /\ proc[c].at = "unlink" /\ tool = "claude" /\ s \in Sessions /\ t \in Sessions /\ id \in ChainIds
         /\ LastOf(chain, id, s, t) /\ TakesBack(chain, chain', id, s, t)
         /\ \A jd \in ChainIds : \A i \in Nat : \A r \in Sessions :
              Entry(chain, jd, i, r, t) => jd = id /\ i = Len(chain[id])
         /\ chain \in Chains /\ chain' \in Chains /\ Does(c, IdleConsumer)
         /\ UNCHANGED <<tool, life, asked, pending, failures, heirs, depth, torn>>
<1>1. /\ proc[c].at = "unlink" /\ s \in Sessions /\ t \in Sessions /\ Does(c, IdleConsumer)
      /\ UNCHANGED <<tool, life, asked, pending, failures, heirs, depth, torn>>
  BY Typed, DoneDoes DEF Unlink, ghosts
<1>2. tool = "claude"
  BY <1>1 DEF Shape, Shaped
<1>3. id \in ChainIds /\ LastOf(chain, id, s, t)
  BY <1>1, <1>2 DEF ClaudeOK, Tails
<1>4. TakesBack(chain, chain', id, s, t) /\ chain \in Chains
  BY DEF Unlink, TakesBack, Chains, HTypeOK
<1>5. Len(chain[id]) \in Nat
  BY <1>3, <1>4, Entries
<1>6. \A jd \in ChainIds : \A i \in Nat : \A r \in Sessions :
        Entry(chain, jd, i, r, t) => jd = id /\ i = Len(chain[id])
  BY <1>1, <1>3, <1>5 DEF Distinct, LastOf
<1>7. chain' \in Chains
  BY <1>1, <1>3, <1>4, <1>6, Removed
<1> QED BY <1>1, <1>2, <1>3, <1>4, <1>6, <1>7
-----------------------------------------------------------------------------
(* What a session can do.                                                     *)
LEMMA RegisterDoes ==
  ASSUME HTypeOK, NEW s \in Sessions, Register(s)
  PROVE  \E k \in ChainIds \cup {New} :
         /\ life[s] = "running" /\ asked[s] = NoBaton
         /\ IF k = New THEN Containing(s) = {}
            ELSE k \in Containing(s) /\ ~RelayedOn(k, s) /\ HopOf(chain[k], s) < MAX_CHAIN_HOPS
         /\ asked' \in [Sessions -> Batons \cup {NoBaton}] /\ asked'[s] = [chain |-> k, old |-> FALSE]
         /\ \A r \in Sessions : r # s => asked'[r] = asked[r]
         /\ torn \subseteq torn' /\ torn' \subseteq Sessions /\ (Unlinked(s) => s \in torn')
         /\ UNCHANGED <<tool, life, pending, chain, proc, failures, heirs, depth>>
<1>0. New \notin ChainIds
  BY DEF New, ChainIds
<1>1. /\ life[s] = "running" /\ asked[s] = NoBaton
      /\ torn \subseteq torn' /\ torn' \subseteq Sessions /\ (Unlinked(s) => s \in torn')
      /\ UNCHANGED <<tool, life, pending, chain, proc, failures, heirs, depth>>
  BY DEF Register, files, HTypeOK
<1>2. PICK k \in ChainIds \cup {New} :
        /\ IF k = New THEN Containing(s) = {}
           ELSE k \in Containing(s) /\ ~RelayedOn(k, s) /\ HopOf(chain[k], s) < MAX_CHAIN_HOPS
        /\ asked' = [asked EXCEPT ![s] = [chain |-> k, old |-> FALSE]]
  BY <1>0 DEF Register, Containing
<1>3. [chain |-> k, old |-> FALSE] \in Batons
  BY DEF Batons
<1>4. /\ asked' \in [Sessions -> Batons \cup {NoBaton}] /\ asked'[s] = [chain |-> k, old |-> FALSE]
      /\ \A r \in Sessions : r # s => asked'[r] = asked[r]
  BY <1>2, <1>3 DEF HTypeOK
<1> QED BY <1>1, <1>2, <1>4

LEMMA WritePendingDoes ==
  ASSUME HTypeOK, NEW s \in Sessions, WritePending(s)
  PROVE  /\ asked[s] # NoBaton
         /\ asked' \in [Sessions -> Batons \cup {NoBaton}] /\ asked'[s] = NoBaton
         /\ pending' \in [Sessions -> Batons \cup {NoBaton}] /\ pending'[s] = asked[s]
         /\ \A r \in Sessions : r # s => asked'[r] = asked[r] /\ pending'[r] = pending[r]
         /\ torn \subseteq torn' /\ torn' \subseteq Sessions /\ (InHand(s) => s \in torn')
         /\ UNCHANGED <<tool, life, chain, proc, failures, heirs, depth>>
  BY DEF WritePending, HTypeOK

LEMMA ExpireDoes ==
  ASSUME HTypeOK, NEW s \in Sessions, Expire(s)
  PROVE  /\ pending[s] # NoBaton
         /\ pending' \in [Sessions -> Batons \cup {NoBaton}] /\ pending'[s].chain = pending[s].chain
         /\ pending'[s] # NoBaton
         /\ \A r \in Sessions : r # s => pending'[r] = pending[r]
         /\ UNCHANGED <<tool, life, asked, chain, proc, failures, heirs, depth, torn>>
<1>1. pending[s] \in Batons
  BY DEF Expire, HTypeOK
<1>2. pending' = [pending EXCEPT ![s] = [chain |-> pending[s].chain, old |-> TRUE]]
  BY DEF Expire
<1>3. [chain |-> pending[s].chain, old |-> TRUE] \in Batons
  BY <1>1 DEF Batons
<1>4. NoBaton \notin Batons
  BY DEF NoBaton, Batons, ChainIds, New
<1>5. /\ pending' \in [Sessions -> Batons \cup {NoBaton}]
      /\ pending'[s] = [chain |-> pending[s].chain, old |-> TRUE]
      /\ \A r \in Sessions : r # s => pending'[r] = pending[r]
  BY <1>2, <1>3 DEF HTypeOK
<1>6. pending'[s].chain = pending[s].chain
  BY <1>5
<1>8. pending'[s] # NoBaton
  BY <1>3, <1>4, <1>5
<1>7. pending[s] # NoBaton /\ UNCHANGED <<tool, life, asked, chain, proc, failures, heirs, depth, torn>>
  BY DEF Expire, ghosts
<1> QED BY <1>5, <1>6, <1>7, <1>8

LEMMA PromptDoes ==
  ASSUME HTypeOK, NEW s \in Sessions, Prompt(s)
  PROVE  /\ life[s] = "idle" /\ (tool = "claude" => ~Busy(s))
         /\ life' \in [Sessions -> {"unborn", "running", "idle"}] /\ life'[s] = "running"
         /\ pending' \in [Sessions -> Batons \cup {NoBaton}] /\ pending'[s] \in {NoBaton, pending[s]}
         /\ \A r \in Sessions : r # s => life'[r] = life[r] /\ pending'[r] = pending[r]
         /\ UNCHANGED <<tool, asked, chain, proc, failures, heirs, depth, torn>>
  BY DEF Prompt, HTypeOK, ghosts

\* A consumer that has heard the turn of s end.
Hears(s) == [at |-> "take", from |-> s, to |-> First, baton |-> NoBaton]

LEMMA TurnEndsDoes ==
  ASSUME HTypeOK, NEW s \in Sessions, TurnEnds(s)
  PROVE  /\ life[s] = "running" /\ asked[s] = NoBaton
         /\ life' \in [Sessions -> {"unborn", "running", "idle"}] /\ life'[s] = "idle"
         /\ \A r \in Sessions : r # s => life'[r] = life[r]
         /\ proc' \in [Consumers -> Consumer]
         /\ \A c \in Consumers :
              proc'[c] = proc[c] \/ (/\ proc[c].at = "idle"
                                     /\ proc'[c] = Hears(s))
         /\ tool = "claude" => \E h \in Consumers : \A c \in Consumers : c # h => proc'[c] = proc[c]
         /\ UNCHANGED <<tool, asked, pending, chain, failures, heirs, depth, torn>>
<1>1. /\ life[s] = "running" /\ asked[s] = NoBaton
      /\ life' \in [Sessions -> {"unborn", "running", "idle"}] /\ life'[s] = "idle"
      /\ \A r \in Sessions : r # s => life'[r] = life[r]
      /\ UNCHANGED <<tool, asked, pending, chain, failures, heirs, depth, torn>>
  BY DEF TurnEnds, HTypeOK, files, ghosts
<1>2. PICK heard \in SUBSET {c \in Consumers : proc[c].at = "idle"} :
        /\ tool = "claude" => \E c \in Consumers : heard = {c}
        /\ proc' = [c \in Consumers |-> IF c \in heard THEN Hears(s) ELSE proc[c]]
  BY DEF TurnEnds, Hears
<1>3. Hears(s) \in Consumer
  BY HandoffAssumption DEF Consumer, Steps, Hears
<1>4. proc \in [Consumers -> Consumer]
  BY DEF HTypeOK, Consumer, Steps
<1>5. proc' \in [Consumers -> Consumer]
  BY <1>2, <1>3, <1>4
<1>6. \A c \in Consumers : proc'[c] = proc[c] \/ (proc[c].at = "idle" /\ proc'[c] = Hears(s))
  BY <1>2
<1>7. tool = "claude" => \E h \in Consumers : \A c \in Consumers : c # h => proc'[c] = proc[c]
  BY <1>2
<1> QED BY <1>1, <1>5, <1>6, <1>7

LEMMA TurnDiesDoes ==
  ASSUME HTypeOK, NEW s \in Sessions, TurnDies(s)
  PROVE  /\ life[s] = "running" /\ failures' \in 0..MAX_FAILURES
         /\ life' \in [Sessions -> {"unborn", "running", "idle"}] /\ life'[s] = "idle"
         /\ asked' \in [Sessions -> Batons \cup {NoBaton}] /\ asked'[s] = NoBaton
         /\ \A r \in Sessions : r # s => life'[r] = life[r] /\ asked'[r] = asked[r]
         /\ UNCHANGED <<tool, pending, chain, proc, heirs, depth, torn>>
  BY HandoffAssumption DEF TurnDies, Fails, HTypeOK, files, ghosts
-----------------------------------------------------------------------------
(* Types, and what each consumer has.                                         *)
LEMMA TypedAs ==
  [Consumers -> [at : {"idle", "take", "check", "link", "spawn", "unlink"},
                 from : Sessions, to : Sessions, baton : Batons \cup {NoBaton}]]
    = [Consumers -> Consumer]
BY DEF Consumer, Steps

LEMMA HTypeOKNext ==
  ASSUME HInv, [HNext]_hvars
  PROVE  HTypeOK'
<1>1. CASE UNCHANGED hvars
  BY <1>1 DEF HInv, HTypeOK, hvars, files, ghosts
<1>2. ASSUME NEW s \in Sessions, Register(s)
      PROVE  HTypeOK'
  BY <1>2, RegisterDoes, TypedAs DEF HInv, HTypeOK
<1>3. ASSUME NEW s \in Sessions, WritePending(s)
      PROVE  HTypeOK'
  BY <1>3, WritePendingDoes, TypedAs DEF HInv, HTypeOK
<1>4. ASSUME NEW s \in Sessions, Expire(s)
      PROVE  HTypeOK'
  BY <1>4, ExpireDoes, TypedAs DEF HInv, HTypeOK
<1>5. ASSUME NEW s \in Sessions, Prompt(s)
      PROVE  HTypeOK'
  BY <1>5, PromptDoes, TypedAs DEF HInv, HTypeOK
<1>6. ASSUME NEW s \in Sessions, TurnEnds(s)
      PROVE  HTypeOK'
  BY <1>6, TurnEndsDoes, TypedAs DEF HInv, HTypeOK
<1>7. ASSUME NEW s \in Sessions, TurnDies(s)
      PROVE  HTypeOK'
  BY <1>7, TurnDiesDoes, TypedAs DEF HInv, HTypeOK
<1>8. ASSUME NEW c \in Consumers, Take(c)
      PROVE  HTypeOK'
  BY <1>8, TakeDoes, TypedAs DEF HInv, HTypeOK, Does
<1>9. ASSUME NEW c \in Consumers, Check(c)
      PROVE  HTypeOK'
  BY <1>9, CheckDoes, TypedAs DEF HInv, HTypeOK, Does
<1>10. ASSUME NEW c \in Consumers, Link(c)
      PROVE  HTypeOK'
  BY <1>10, LinkDoes, TypedAs DEF HInv, HTypeOK, Does, Chains
<1>11. ASSUME NEW c \in Consumers, Spawn(c)
      PROVE  HTypeOK'
  BY <1>11, SpawnDoes, TypedAs DEF HInv, HTypeOK, Does, Starts1
<1>12. ASSUME NEW c \in Consumers, SuccessorFails(c)
      PROVE  HTypeOK'
  BY <1>12, SuccessorFailsDoes, TypedAs DEF HInv, HTypeOK, Does
<1>13. ASSUME NEW c \in Consumers, Unlink(c)
      PROVE  HTypeOK'
  BY <1>13, UnlinkDoes, TypedAs DEF HInv, HTypeOK, Does, Chains
<1>14. ASSUME NEW c \in Consumers, Killed(c)
      PROVE  HTypeOK'
  BY <1>14, KilledDoes, TypedAs DEF HInv, HTypeOK, Does
<1> QED BY <1>1, <1>2, <1>3, <1>4, <1>5, <1>6, <1>7, <1>8, <1>9, <1>10, <1>11, <1>12, <1>13, <1>14 DEF HNext

LEMMA NoBatonIs == NoBaton \notin Batons /\ New \notin ChainIds /\ NoBaton.chain \notin ChainIds \cup {New}
BY DEF NoBaton, Batons, ChainIds, New

LEMMA ToIs ==
  ASSUME NEW c, NEW a, NEW t, NEW b
  PROVE  /\ To(c, a, t, b).at = a /\ To(c, a, t, b).from = proc[c].from
         /\ To(c, a, t, b).to = t /\ To(c, a, t, b).baton = b
BY DEF To

LEMMA IdleIs == IdleConsumer.at = "idle" /\ IdleConsumer.from = First
                /\ IdleConsumer.to = First /\ IdleConsumer.baton = NoBaton
BY DEF IdleConsumer

LEMMA HearsIs ==
  ASSUME NEW s
  PROVE  Hears(s).at = "take" /\ Hears(s).from = s /\ Hears(s).to = First /\ Hears(s).baton = NoBaton
BY DEF Hears

LEMMA ShapeNext ==
  ASSUME HInv, [HNext]_hvars
  PROVE  Shape'
<1>0. HTypeOK /\ Shape /\ Alive /\ Distinct /\ ClaudeOK
  BY DEF HInv
<1>a. \A d \in Consumers : Shaped(d) /\ proc[d].to \in Sessions /\ proc[d].from \in Sessions
  BY <1>0, Typed DEF Shape
<1>1. CASE UNCHANGED hvars
  BY <1>0, <1>1 DEF Shape, Shaped, hvars, files, ghosts
<1>2. ASSUME NEW s \in Sessions, Register(s)
      PROVE  Shape'
  <2>1. UNCHANGED <<tool, life, proc>>
    BY <1>0, <1>2, RegisterDoes
  <2> QED BY <1>0, <2>1 DEF Shape, Shaped
<1>3. ASSUME NEW s \in Sessions, WritePending(s)
      PROVE  Shape'
  BY <1>0, <1>a, <1>3, WritePendingDoes DEF Shape, Shaped
<1>4. ASSUME NEW s \in Sessions, Expire(s)
      PROVE  Shape'
  BY <1>0, <1>a, <1>4, ExpireDoes DEF Shape, Shaped
<1>5. ASSUME NEW s \in Sessions, Prompt(s)
      PROVE  Shape'
  BY <1>0, <1>a, <1>5, PromptDoes DEF Shape, Shaped
<1>6. ASSUME NEW s \in Sessions, TurnEnds(s)
      PROVE  Shape'
  <2> SUFFICES ASSUME NEW d \in Consumers
               PROVE  Shaped(d)'
    BY DEF Shape
  <2> QED BY <1>0, <1>a, <1>6, TurnEndsDoes, HearsIs DEF Shaped
<1>7. ASSUME NEW s \in Sessions, TurnDies(s)
      PROVE  Shape'
  BY <1>0, <1>a, <1>7, TurnDiesDoes DEF Shape, Shaped
<1>8. ASSUME NEW c \in Consumers, Take(c)
      PROVE  Shape'
  <2> SUFFICES ASSUME NEW d \in Consumers
               PROVE  Shaped(d)'
    BY DEF Shape
  <2>1. CASE d = c
    BY <1>0, <1>a, <1>8, <2>1, TakeDoes, ToIs, IdleIs, NoBatonIs DEF Shaped, Does
  <2>2. CASE d # c
    BY <1>0, <1>a, <1>8, <2>2, TakeDoes DEF Shaped, Does
  <2> QED BY <2>1, <2>2
<1>9. ASSUME NEW c \in Consumers, Check(c)
      PROVE  Shape'
  <2> SUFFICES ASSUME NEW d \in Consumers
               PROVE  Shaped(d)'
    BY DEF Shape
  <2>1. CASE d = c
    BY <1>0, <1>a, <1>9, <2>1, CheckDoes, ToIs, IdleIs, NoBatonIs DEF Shaped, Does, Nameless, Alive
  <2>2. CASE d # c
    BY <1>0, <1>a, <1>9, <2>2, CheckDoes DEF Shaped, Does, Nameless, Alive
  <2> QED BY <2>1, <2>2
<1>10. ASSUME NEW c \in Consumers, Link(c)
      PROVE  Shape'
  <2>1. PICK id \in ChainIds :
          /\ proc[c].at = "link"
          /\ IF tool = "codex" THEN Does(c, IdleConsumer)
             ELSE /\ [chain |-> id, old |-> proc[c].baton.old] \in Batons
                  /\ Does(c, To(c, "spawn", proc[c].to, [chain |-> id, old |-> proc[c].baton.old]))
          /\ UNCHANGED <<tool, life>>
    BY <1>0, <1>10, LinkDoes
  <2> SUFFICES ASSUME NEW d \in Consumers
               PROVE  Shaped(d)'
    BY DEF Shape
  <2>2. CASE d = c
    BY <1>0, <1>a, <2>1, <2>2, ToIs, IdleIs, NoBatonIs DEF Shaped, Does, HTypeOK
  <2>3. CASE d # c
    BY <1>0, <1>a, <2>1, <2>3 DEF Shaped, Does
  <2> QED BY <2>2, <2>3
<1>11. ASSUME NEW c \in Consumers, Spawn(c)
      PROVE  Shape'
  <2> SUFFICES ASSUME NEW d \in Consumers
               PROVE  Shaped(d)'
    BY DEF Shape
  <2>1. CASE d = c
    BY <1>0, <1>a, <1>11, <2>1, SpawnDoes, ToIs, IdleIs, NoBatonIs DEF Shaped, Does, Starts1, Nameless, Alive, AliveAt, Distinct, DistinctAt
  <2>2. CASE d # c
    BY <1>0, <1>a, <1>11, <2>2, SpawnDoes DEF Shaped, Does, Starts1, Nameless, Alive, AliveAt, Distinct, DistinctAt
  <2> QED BY <2>1, <2>2
<1>12. ASSUME NEW c \in Consumers, SuccessorFails(c)
      PROVE  Shape'
  <2> SUFFICES ASSUME NEW d \in Consumers
               PROVE  Shaped(d)'
    BY DEF Shape
  <2>1. CASE d = c
    BY <1>0, <1>a, <1>12, <2>1, SuccessorFailsDoes, ToIs, IdleIs, NoBatonIs DEF Shaped, Does
  <2>2. CASE d # c
    BY <1>0, <1>a, <1>12, <2>2, SuccessorFailsDoes DEF Shaped, Does
  <2> QED BY <2>1, <2>2
<1>13. ASSUME NEW c \in Consumers, Unlink(c)
      PROVE  Shape'
  <2> SUFFICES ASSUME NEW d \in Consumers
               PROVE  Shaped(d)'
    BY DEF Shape
  <2>1. CASE d = c
    BY <1>0, <1>a, <1>13, <2>1, UnlinkDoes, ToIs, IdleIs, NoBatonIs DEF Shaped, Does
  <2>2. CASE d # c
    BY <1>0, <1>a, <1>13, <2>2, UnlinkDoes DEF Shaped, Does
  <2> QED BY <2>1, <2>2
<1>14. ASSUME NEW c \in Consumers, Killed(c)
      PROVE  Shape'
  <2> SUFFICES ASSUME NEW d \in Consumers
               PROVE  Shaped(d)'
    BY DEF Shape
  <2>1. CASE d = c
    BY <1>0, <1>a, <1>14, <2>1, KilledDoes, ToIs, IdleIs, NoBatonIs DEF Shaped, Does
  <2>2. CASE d # c
    BY <1>0, <1>a, <1>14, <2>2, KilledDoes DEF Shaped, Does
  <2> QED BY <2>1, <2>2
<1> QED BY <1>1, <1>2, <1>3, <1>4, <1>5, <1>6, <1>7, <1>8, <1>9, <1>10, <1>11, <1>12, <1>13, <1>14 DEF HNext
LEMMA AliveNext ==
  ASSUME HInv, [HNext]_hvars
  PROVE  Alive'
<1>0. HTypeOK /\ Shape /\ Alive /\ Waits /\ Distinct /\ ClaudeOK
  BY DEF HInv
<1>a. \A d \in Consumers : /\ Shaped(d) /\ WaitsAt(d) /\ DistinctAt(d)
                           /\ proc[d].to \in Sessions /\ proc[d].from \in Sessions
  BY <1>0, Typed DEF Shape, Waits, Distinct
<1>b. First \in Sessions /\ chain \in Chains /\ \A r \in Sessions : AliveAt(r)
  BY <1>0, HandoffAssumption DEF Alive, HTypeOK, Chains
<1>1. CASE UNCHANGED hvars
  BY <1>0, <1>1 DEF Alive, AliveAt, hvars, files, ghosts
<1>2. ASSUME NEW s \in Sessions, Register(s)
      PROVE  Alive'
  <2>1. /\ life[s] = "running" /\ UNCHANGED <<life, pending, chain>>
        /\ \A r \in Sessions : r # s => asked'[r] = asked[r]
    BY <1>0, <1>2, RegisterDoes
  <2> QED BY <1>0, <1>b, <2>1 DEF Alive, AliveAt
<1>3. ASSUME NEW s \in Sessions, WritePending(s)
      PROVE  Alive'
  BY <1>0, <1>b, <1>3, WritePendingDoes DEF Alive, AliveAt
<1>4. ASSUME NEW s \in Sessions, Expire(s)
      PROVE  Alive'
  BY <1>0, <1>b, <1>4, ExpireDoes DEF Alive, AliveAt
<1>5. ASSUME NEW s \in Sessions, Prompt(s)
      PROVE  Alive'
  BY <1>0, <1>b, <1>5, PromptDoes DEF Alive, AliveAt
<1>6. ASSUME NEW s \in Sessions, TurnEnds(s)
      PROVE  Alive'
  BY <1>0, <1>b, <1>6, TurnEndsDoes DEF Alive, AliveAt
<1>7. ASSUME NEW s \in Sessions, TurnDies(s)
      PROVE  Alive'
  BY <1>0, <1>b, <1>7, TurnDiesDoes DEF Alive, AliveAt
<1>8. ASSUME NEW c \in Consumers, Take(c)
      PROVE  Alive'
  <2>1. /\ \A r \in Sessions : pending'[r] \in {NoBaton, pending[r]}
        /\ UNCHANGED <<life, asked, chain>>
    BY <1>0, <1>8, TakeDoes
  <2> QED BY <1>0, <1>b, <2>1 DEF Alive, AliveAt
<1>9. ASSUME NEW c \in Consumers, Check(c)
      PROVE  Alive'
  <2>1. UNCHANGED <<life, asked, pending, chain>>
    BY <1>0, <1>9, CheckDoes
  <2> QED BY <1>0, <1>b, <2>1 DEF Alive, AliveAt
<1>10. ASSUME NEW c \in Consumers, Link(c)
      PROVE  Alive'
  <2>1. PICK id \in ChainIds :
          /\ proc[c].at = "link"
          /\ IF proc[c].baton.chain = New THEN chain[id] = <<>> ELSE id = proc[c].baton.chain
          /\ Appends(chain, chain', id, proc[c].from, proc[c].to) /\ chain' \in Chains
          /\ IF tool = "codex" THEN Does(c, IdleConsumer)
             ELSE /\ [chain |-> id, old |-> proc[c].baton.old] \in Batons
                  /\ Does(c, To(c, "spawn", proc[c].to, [chain |-> id, old |-> proc[c].baton.old]))
          /\ UNCHANGED <<tool, life, asked, pending, failures, heirs, depth, torn>>
    BY <1>0, <1>10, LinkDoes
  <2>2. /\ \A r, u : Leads(chain', r, u) <=> Leads(chain, r, u) \/ (r = proc[c].from /\ u = proc[c].to)
        /\ \A u : Led(chain', u) <=> Led(chain, u) \/ u = proc[c].to
        /\ \A r : Relays(chain', r) <=> Relays(chain, r) \/ r = proc[c].from
    BY <1>a, <1>b, <2>1, Appended
  <2> QED BY <1>0, <1>a, <1>b, <2>1, <2>2 DEF Alive, AliveAt, Shaped
<1>11. ASSUME NEW c \in Consumers, Spawn(c)
      PROVE  Alive'
  BY <1>0, <1>a, <1>b, <1>11, SpawnDoes DEF Alive, AliveAt, Starts1
<1>12. ASSUME NEW c \in Consumers, SuccessorFails(c)
      PROVE  Alive'
  BY <1>0, <1>b, <1>12, SuccessorFailsDoes DEF Alive, AliveAt
<1>13. ASSUME NEW c \in Consumers, Unlink(c)
      PROVE  Alive'
  <2>1. PICK id \in ChainIds :
          /\ proc[c].at = "unlink" /\ tool = "claude" /\ id = proc[c].baton.chain
          /\ LastOf(chain, id, proc[c].from, proc[c].to)
          /\ TakesBack(chain, chain', id, proc[c].from, proc[c].to) /\ chain' \in Chains
          /\ \A jd \in ChainIds : \A i \in Nat : \A r \in Sessions :
               Entry(chain, jd, i, r, proc[c].to) => jd = id /\ i = Len(chain[id])
          /\ Does(c, IdleConsumer)
          /\ UNCHANGED <<tool, life, asked, pending, failures, heirs, depth, torn>>
    BY <1>0, <1>13, UnlinkDoes
  <2>2. /\ \A r, u : Leads(chain', r, u) <=> Leads(chain, r, u) /\ u # proc[c].to
        /\ \A u : Led(chain', u) <=> Led(chain, u) /\ u # proc[c].to
        /\ \A r : Relays(chain', r) => Relays(chain, r)
    BY <1>a, <1>b, <2>1, Removed
  <2> QED BY <1>0, <1>b, <2>1, <2>2 DEF Alive, AliveAt
<1>14. ASSUME NEW c \in Consumers, Killed(c)
      PROVE  Alive'
  BY <1>0, <1>b, <1>14, KilledDoes DEF Alive, AliveAt
<1> QED BY <1>1, <1>2, <1>3, <1>4, <1>5, <1>6, <1>7, <1>8, <1>9, <1>10, <1>11, <1>12, <1>13, <1>14 DEF HNext

LEMMA WaitsNext ==
  ASSUME HInv, [HNext]_hvars
  PROVE  Waits'
<1>0. HTypeOK /\ Shape /\ Alive /\ Waits /\ Distinct /\ ClaudeOK
  BY DEF HInv
<1>a. \A d \in Consumers : /\ Shaped(d) /\ WaitsAt(d) /\ DistinctAt(d)
                           /\ proc[d].to \in Sessions /\ proc[d].from \in Sessions
  BY <1>0, Typed DEF Shape, Waits, Distinct
<1>b. First \in Sessions /\ chain \in Chains /\ \A r \in Sessions : AliveAt(r)
  BY <1>0, HandoffAssumption DEF Alive, HTypeOK, Chains
<1>1. CASE UNCHANGED hvars
  BY <1>0, <1>1 DEF Waits, WaitsAt, hvars, files, ghosts
<1>2. ASSUME NEW s \in Sessions, Register(s)
      PROVE  Waits'
  <2>1. UNCHANGED <<tool, life, pending, proc>>
    BY <1>0, <1>2, RegisterDoes
  <2> QED BY <1>0, <2>1 DEF Waits, WaitsAt
<1>3. ASSUME NEW s \in Sessions, WritePending(s)
      PROVE  Waits'
  BY <1>0, <1>a, <1>b, <1>3, WritePendingDoes DEF Waits, WaitsAt, AliveAt
<1>4. ASSUME NEW s \in Sessions, Expire(s)
      PROVE  Waits'
  BY <1>0, <1>a, <1>b, <1>4, ExpireDoes DEF Waits, WaitsAt, AliveAt
<1>5. ASSUME NEW s \in Sessions, Prompt(s)
      PROVE  Waits'
  BY <1>0, <1>a, <1>b, <1>5, PromptDoes DEF Waits, WaitsAt, Busy
<1>6. ASSUME NEW s \in Sessions, TurnEnds(s)
      PROVE  Waits'
  <2> SUFFICES ASSUME NEW d \in Consumers
               PROVE  WaitsAt(d)'
    BY DEF Waits
  <2> QED BY <1>0, <1>a, <1>b, <1>6, TurnEndsDoes, HearsIs DEF WaitsAt
<1>7. ASSUME NEW s \in Sessions, TurnDies(s)
      PROVE  Waits'
  BY <1>0, <1>a, <1>b, <1>7, TurnDiesDoes DEF Waits, WaitsAt, AliveAt
<1>8. ASSUME NEW c \in Consumers, Take(c)
      PROVE  Waits'
  <2> SUFFICES ASSUME NEW d \in Consumers
               PROVE  WaitsAt(d)'
    BY DEF Waits
  <2>2. CASE d = c
    BY <1>0, <1>a, <1>8, <2>2, TakeDoes, ToIs, IdleIs DEF WaitsAt, Does
  <2>3. CASE d # c
    BY <1>0, <1>a, <1>8, <2>3, TakeDoes, ToIs, IdleIs DEF WaitsAt, Does
  <2> QED BY <2>2, <2>3
<1>9. ASSUME NEW c \in Consumers, Check(c)
      PROVE  Waits'
  <2> SUFFICES ASSUME NEW d \in Consumers
               PROVE  WaitsAt(d)'
    BY DEF Waits
  <2>2. CASE d = c
    BY <1>0, <1>a, <1>9, <2>2, CheckDoes, ToIs, IdleIs DEF WaitsAt, Does
  <2>3. CASE d # c
    BY <1>0, <1>a, <1>9, <2>3, CheckDoes, ToIs, IdleIs DEF WaitsAt, Does
  <2> QED BY <2>2, <2>3
<1>10. ASSUME NEW c \in Consumers, Link(c)
      PROVE  Waits'
  <2>1. PICK id \in ChainIds :
          /\ proc[c].at = "link"
          /\ IF proc[c].baton.chain = New THEN chain[id] = <<>> ELSE id = proc[c].baton.chain
          /\ Appends(chain, chain', id, proc[c].from, proc[c].to) /\ chain' \in Chains
          /\ IF tool = "codex" THEN Does(c, IdleConsumer)
             ELSE /\ [chain |-> id, old |-> proc[c].baton.old] \in Batons
                  /\ Does(c, To(c, "spawn", proc[c].to, [chain |-> id, old |-> proc[c].baton.old]))
          /\ UNCHANGED <<tool, life, asked, pending, failures, heirs, depth, torn>>
    BY <1>0, <1>10, LinkDoes
  <2> SUFFICES ASSUME NEW d \in Consumers
               PROVE  WaitsAt(d)'
    BY DEF Waits
  <2> QED BY <1>0, <1>a, <2>1, ToIs, IdleIs DEF WaitsAt, Does
<1>11. ASSUME NEW c \in Consumers, Spawn(c)
      PROVE  Waits'
  <2> SUFFICES ASSUME NEW d \in Consumers
               PROVE  WaitsAt(d)'
    BY DEF Waits
  <2>2. CASE d = c
    BY <1>0, <1>a, <1>11, <2>2, SpawnDoes, ToIs, IdleIs DEF WaitsAt, Does, Starts1
  <2>3. CASE d # c
    BY <1>0, <1>a, <1>11, <2>3, SpawnDoes, ToIs, IdleIs DEF WaitsAt, Does, Starts1, Shaped
  <2> QED BY <2>2, <2>3
<1>12. ASSUME NEW c \in Consumers, SuccessorFails(c)
      PROVE  Waits'
  <2> SUFFICES ASSUME NEW d \in Consumers
               PROVE  WaitsAt(d)'
    BY DEF Waits
  <2>2. CASE d = c
    BY <1>0, <1>a, <1>12, <2>2, SuccessorFailsDoes, ToIs, IdleIs DEF WaitsAt, Does
  <2>3. CASE d # c
    BY <1>0, <1>a, <1>12, <2>3, SuccessorFailsDoes, ToIs, IdleIs DEF WaitsAt, Does
  <2> QED BY <2>2, <2>3
<1>13. ASSUME NEW c \in Consumers, Unlink(c)
      PROVE  Waits'
  <2>1. PICK id \in ChainIds :
          /\ proc[c].at = "unlink" /\ tool = "claude" /\ id = proc[c].baton.chain
          /\ LastOf(chain, id, proc[c].from, proc[c].to)
          /\ TakesBack(chain, chain', id, proc[c].from, proc[c].to) /\ chain' \in Chains
          /\ \A jd \in ChainIds : \A i \in Nat : \A r \in Sessions :
               Entry(chain, jd, i, r, proc[c].to) => jd = id /\ i = Len(chain[id])
          /\ Does(c, IdleConsumer)
          /\ UNCHANGED <<tool, life, asked, pending, failures, heirs, depth, torn>>
    BY <1>0, <1>13, UnlinkDoes
  <2> SUFFICES ASSUME NEW d \in Consumers
               PROVE  WaitsAt(d)'
    BY DEF Waits
  <2> QED BY <1>0, <1>a, <2>1, ToIs, IdleIs DEF WaitsAt, Does
<1>14. ASSUME NEW c \in Consumers, Killed(c)
      PROVE  Waits'
  <2> SUFFICES ASSUME NEW d \in Consumers
               PROVE  WaitsAt(d)'
    BY DEF Waits
  <2>2. CASE d = c
    BY <1>0, <1>a, <1>14, <2>2, KilledDoes, ToIs, IdleIs DEF WaitsAt, Does
  <2>3. CASE d # c
    BY <1>0, <1>a, <1>14, <2>3, KilledDoes, ToIs, IdleIs DEF WaitsAt, Does
  <2> QED BY <2>2, <2>3
<1> QED BY <1>1, <1>2, <1>3, <1>4, <1>5, <1>6, <1>7, <1>8, <1>9, <1>10, <1>11, <1>12, <1>13, <1>14 DEF HNext

(* A session that has no name yet is on no chain and nobody's successor.       *)
LEMMA NamelessIs ==
  ASSUME HTypeOK, Alive, NEW t \in Sessions, Nameless(t)
  PROVE  /\ life[t] = "unborn" /\ t # First /\ ~Led(chain, t) /\ ~Relays(chain, t)
         /\ \A id \in ChainIds : ~LedOn(chain, id, t) /\ ~RelaysOn(chain, id, t)
         /\ \A d \in Consumers : proc[d].to # t
<1>1. life[t] = "unborn" /\ Containing(t) = {} /\ \A d \in Consumers : proc[d].to = t => t = First
  BY DEF Nameless
<1>2. t # First
  BY <1>1 DEF Alive
<1>3. \A id \in ChainIds : ~On(id, t)
  BY <1>1 DEF Containing
<1>4. \A id \in ChainIds : ~LedOn(chain, id, t) /\ ~RelaysOn(chain, id, t)
  BY <1>3, Readings
<1>5. ~Led(chain, t)
  BY <1>4 DEF Led
<1>6. ~Relays(chain, t)
  BY <1>4 DEF Relays, RelaysOn, Leads
<1> QED BY <1>1, <1>2, <1>4, <1>5, <1>6

LEMMA DistinctNext ==
  ASSUME HInv, [HNext]_hvars
  PROVE  Distinct'
<1>0. HTypeOK /\ Shape /\ Alive /\ Waits /\ Distinct /\ ClaudeOK
  BY DEF HInv
<1>a. \A d \in Consumers : /\ Shaped(d) /\ WaitsAt(d) /\ DistinctAt(d)
                           /\ proc[d].to \in Sessions /\ proc[d].from \in Sessions
  BY <1>0, Typed DEF Shape, Waits, Distinct
<1>b. First \in Sessions /\ chain \in Chains /\ \A r \in Sessions : AliveAt(r)
  BY <1>0, HandoffAssumption DEF Alive, HTypeOK, Chains
<1>1. CASE UNCHANGED hvars
  BY <1>0, <1>1 DEF Distinct, DistinctAt, hvars, files, ghosts
<1>2. ASSUME NEW s \in Sessions, Register(s)
      PROVE  Distinct'
  <2>1. UNCHANGED <<proc, chain>>
    BY <1>0, <1>2, RegisterDoes
  <2> QED BY <1>0, <2>1 DEF Distinct, DistinctAt
<1>3. ASSUME NEW s \in Sessions, WritePending(s)
      PROVE  Distinct'
  <2>1. UNCHANGED <<proc, chain>>
    BY <1>0, <1>3, WritePendingDoes
  <2> QED BY <1>0, <2>1 DEF Distinct, DistinctAt
<1>4. ASSUME NEW s \in Sessions, Expire(s)
      PROVE  Distinct'
  <2>1. UNCHANGED <<proc, chain>>
    BY <1>0, <1>4, ExpireDoes
  <2> QED BY <1>0, <2>1 DEF Distinct, DistinctAt
<1>5. ASSUME NEW s \in Sessions, Prompt(s)
      PROVE  Distinct'
  <2>1. UNCHANGED <<proc, chain>>
    BY <1>0, <1>5, PromptDoes
  <2> QED BY <1>0, <2>1 DEF Distinct, DistinctAt
<1>6. ASSUME NEW s \in Sessions, TurnEnds(s)
      PROVE  Distinct'
  <2>1. UNCHANGED chain
    BY <1>0, <1>6, TurnEndsDoes
  <2> SUFFICES ASSUME NEW d \in Consumers
               PROVE  DistinctAt(d)'
    BY <1>0, <2>1 DEF Distinct
  <2> QED BY <1>0, <1>a, <2>1, <1>6, TurnEndsDoes, HearsIs DEF DistinctAt
<1>7. ASSUME NEW s \in Sessions, TurnDies(s)
      PROVE  Distinct'
  <2>1. UNCHANGED <<proc, chain>>
    BY <1>0, <1>7, TurnDiesDoes
  <2> QED BY <1>0, <2>1 DEF Distinct, DistinctAt
<1>8. ASSUME NEW c \in Consumers, Take(c)
      PROVE  Distinct'
  <2>1. UNCHANGED chain
    BY <1>0, <1>8, TakeDoes
  <2> SUFFICES ASSUME NEW d \in Consumers
               PROVE  DistinctAt(d)'
    BY <1>0, <2>1 DEF Distinct
  <2>2. CASE d = c
    BY <1>0, <1>a, <1>8, <2>1, <2>2, TakeDoes, ToIs, IdleIs DEF DistinctAt, Does
  <2>3. CASE d # c
    BY <1>0, <1>a, <1>8, <2>1, <2>3, TakeDoes, ToIs, IdleIs DEF DistinctAt, Does
  <2> QED BY <2>2, <2>3
<1>9. ASSUME NEW c \in Consumers, Check(c)
      PROVE  Distinct'
  <2>1. UNCHANGED chain
    BY <1>0, <1>9, CheckDoes
  <2> SUFFICES ASSUME NEW d \in Consumers
               PROVE  DistinctAt(d)'
    BY <1>0, <2>1 DEF Distinct
  <2>2. CASE Does(c, IdleConsumer) \/ Does(c, To(c, "spawn", proc[c].to, proc[c].baton))
    BY <1>0, <1>a, <2>1, <2>2, ToIs, IdleIs DEF DistinctAt, Does
  <2>3. CASE \E t \in Sessions : Nameless(t) /\ Does(c, To(c, "link", t, proc[c].baton))
    <3>1. PICK t \in Sessions : Nameless(t) /\ Does(c, To(c, "link", t, proc[c].baton))
      BY <2>3
    <3>2. ~Led(chain, t) /\ t # First /\ \A e \in Consumers : proc[e].to # t
      BY <1>0, <3>1, NamelessIs
    <3> QED BY <1>0, <1>a, <2>1, <3>1, <3>2, ToIs DEF DistinctAt, Does
  <2> QED BY <1>0, <1>9, <2>2, <2>3, CheckDoes
<1>10. ASSUME NEW c \in Consumers, Link(c)
      PROVE  Distinct'
  <2>1. PICK id \in ChainIds :
          /\ proc[c].at = "link"
          /\ IF proc[c].baton.chain = New THEN chain[id] = <<>> ELSE id = proc[c].baton.chain
          /\ Appends(chain, chain', id, proc[c].from, proc[c].to) /\ chain' \in Chains
          /\ IF tool = "codex" THEN Does(c, IdleConsumer)
             ELSE /\ [chain |-> id, old |-> proc[c].baton.old] \in Batons
                  /\ Does(c, To(c, "spawn", proc[c].to, [chain |-> id, old |-> proc[c].baton.old]))
          /\ UNCHANGED <<tool, life, asked, pending, failures, heirs, depth, torn>>
    BY <1>0, <1>10, LinkDoes
  <2>2. /\ \A r, u : Leads(chain', r, u) <=> Leads(chain, r, u) \/ (r = proc[c].from /\ u = proc[c].to)
        /\ \A u : Led(chain', u) <=> Led(chain, u) \/ u = proc[c].to
        /\ \A r : Relays(chain', r) <=> Relays(chain, r) \/ r = proc[c].from
    BY <1>a, <1>b, <2>1, Appended
  <2> DEFINE n == Len(chain[id]) + 1
  <2>3. \A jd \in ChainIds : \A i, r, u :
          Entry(chain', jd, i, r, u) <=>
            Entry(chain, jd, i, r, u) \/ (jd = id /\ i = n /\ r = proc[c].from /\ u = proc[c].to)
    BY <1>a, <1>b, <2>1, EntryAppended
  <2> HIDE DEF n
  <2>4. /\ ~Led(chain, proc[c].to) /\ proc[c].to # First
        /\ \A d \in Consumers : proc[d].to = proc[c].to => d = c
    BY <1>a, <2>1 DEF Shaped, DistinctAt
  <2>5. \A jd \in ChainIds : \A i \in Nat : \A r \in Sessions : ~Entry(chain, jd, i, r, proc[c].to)
    BY <2>4 DEF Led, LedOn
  <2>6. \A jd, kd \in ChainIds : \A i, j \in Nat : \A r, s, t \in Sessions :
          Entry(chain', jd, i, r, t) /\ Entry(chain', kd, j, s, t) => jd = kd /\ i = j
    BY <1>0, <2>3, <2>5 DEF Distinct
  <2>7. ~Led(chain', First)
    BY <1>0, <2>2, <2>4 DEF Distinct
  <2>8. ASSUME NEW d \in Consumers
        PROVE  DistinctAt(d)'
    BY <1>a, <2>1, <2>2, <2>4, ToIs, IdleIs DEF DistinctAt, Does, Shaped
  <2> QED BY <2>6, <2>7, <2>8 DEF Distinct
<1>11. ASSUME NEW c \in Consumers, Spawn(c)
      PROVE  Distinct'
  <2>1. UNCHANGED chain
    BY <1>0, <1>11, SpawnDoes
  <2> SUFFICES ASSUME NEW d \in Consumers
               PROVE  DistinctAt(d)'
    BY <1>0, <2>1 DEF Distinct
  <2>2. CASE Does(c, IdleConsumer)
    BY <1>0, <1>a, <2>1, <2>2, ToIs, IdleIs DEF DistinctAt, Does
  <2>3. CASE \E t \in Sessions : Nameless(t) /\ Does(c, To(c, "link", t, proc[c].baton))
    <3>1. PICK t \in Sessions : Nameless(t) /\ Does(c, To(c, "link", t, proc[c].baton))
      BY <2>3
    <3>2. ~Led(chain, t) /\ t # First /\ \A e \in Consumers : proc[e].to # t
      BY <1>0, <3>1, NamelessIs
    <3> QED BY <1>0, <1>a, <2>1, <3>1, <3>2, ToIs DEF DistinctAt, Does
  <2> QED BY <1>0, <1>11, <2>2, <2>3, SpawnDoes
<1>12. ASSUME NEW c \in Consumers, SuccessorFails(c)
      PROVE  Distinct'
  <2>1. UNCHANGED chain
    BY <1>0, <1>12, SuccessorFailsDoes
  <2> SUFFICES ASSUME NEW d \in Consumers
               PROVE  DistinctAt(d)'
    BY <1>0, <2>1 DEF Distinct
  <2>2. CASE d = c
    BY <1>0, <1>a, <1>12, <2>1, <2>2, SuccessorFailsDoes, ToIs, IdleIs DEF DistinctAt, Does
  <2>3. CASE d # c
    BY <1>0, <1>a, <1>12, <2>1, <2>3, SuccessorFailsDoes, ToIs, IdleIs DEF DistinctAt, Does
  <2> QED BY <2>2, <2>3
<1>13. ASSUME NEW c \in Consumers, Unlink(c)
      PROVE  Distinct'
  <2>1. PICK id \in ChainIds :
          /\ proc[c].at = "unlink" /\ tool = "claude" /\ id = proc[c].baton.chain
          /\ LastOf(chain, id, proc[c].from, proc[c].to)
          /\ TakesBack(chain, chain', id, proc[c].from, proc[c].to) /\ chain' \in Chains
          /\ \A jd \in ChainIds : \A i \in Nat : \A r \in Sessions :
               Entry(chain, jd, i, r, proc[c].to) => jd = id /\ i = Len(chain[id])
          /\ Does(c, IdleConsumer)
          /\ UNCHANGED <<tool, life, asked, pending, failures, heirs, depth, torn>>
    BY <1>0, <1>13, UnlinkDoes
  <2>2. /\ \A r, u : Leads(chain', r, u) <=> Leads(chain, r, u) /\ u # proc[c].to
        /\ \A u : Led(chain', u) <=> Led(chain, u) /\ u # proc[c].to
        /\ \A r : Relays(chain', r) => Relays(chain, r)
    BY <1>a, <1>b, <2>1, Removed
  <2>3. \A jd \in ChainIds : \A i, r, u : Entry(chain', jd, i, r, u) <=> Entry(chain, jd, i, r, u) /\ u # proc[c].to
    BY <1>a, <1>b, <2>1, Removed
  <2>4. \A jd, kd \in ChainIds : \A i, j \in Nat : \A r, s, t \in Sessions :
          Entry(chain', jd, i, r, t) /\ Entry(chain', kd, j, s, t) => jd = kd /\ i = j
    BY <1>0, <2>3 DEF Distinct
  <2>5. ~Led(chain', First)
    BY <1>0, <2>2 DEF Distinct
  <2>6. ASSUME NEW d \in Consumers
        PROVE  DistinctAt(d)'
    BY <1>a, <2>1, <2>2, IdleIs DEF DistinctAt, Does
  <2> QED BY <2>4, <2>5, <2>6 DEF Distinct
<1>14. ASSUME NEW c \in Consumers, Killed(c)
      PROVE  Distinct'
  <2>1. UNCHANGED chain
    BY <1>0, <1>14, KilledDoes
  <2> SUFFICES ASSUME NEW d \in Consumers
               PROVE  DistinctAt(d)'
    BY <1>0, <2>1 DEF Distinct
  <2>2. CASE d = c
    BY <1>0, <1>a, <1>14, <2>1, <2>2, KilledDoes, ToIs, IdleIs DEF DistinctAt, Does
  <2>3. CASE d # c
    BY <1>0, <1>a, <1>14, <2>1, <2>3, KilledDoes, ToIs, IdleIs DEF DistinctAt, Does
  <2> QED BY <2>2, <2>3
<1> QED BY <1>1, <1>2, <1>3, <1>4, <1>5, <1>6, <1>7, <1>8, <1>9, <1>10, <1>11, <1>12, <1>13, <1>14 DEF HNext

-----------------------------------------------------------------------------
(* Who holds a baton.                                                         *)

\* No step but a registration gives a session a baton for a chain.
LEMMA NamesShrink ==
  ASSUME HInv, [HNext]_hvars, \A s \in Sessions : ~Register(s),
         NEW r \in Sessions, NEW k \in ChainIds \cup {New}, Names(r, k)'
  PROVE  Names(r, k)
<1>0. HTypeOK /\ Shape /\ Distinct /\ ClaudeOK /\ NoBaton.chain # k
  BY NoBatonIs DEF HInv
<1>1. CASE UNCHANGED hvars
  BY <1>1 DEF Names, Carries, hvars, files
<1>2. ASSUME NEW s \in Sessions, WritePending(s)
      PROVE  Names(r, k)
  BY <1>0, <1>2, WritePendingDoes DEF Names, Carries
<1>3. ASSUME NEW s \in Sessions, Expire(s)
      PROVE  Names(r, k)
  BY <1>0, <1>3, ExpireDoes DEF Names, Carries
<1>4. ASSUME NEW s \in Sessions, Prompt(s)
      PROVE  Names(r, k)
  BY <1>0, <1>4, PromptDoes DEF Names, Carries
<1>5. ASSUME NEW s \in Sessions, TurnEnds(s)
      PROVE  Names(r, k)
  BY <1>0, <1>5, TurnEndsDoes, HearsIs DEF Names, Carries
<1>6. ASSUME NEW s \in Sessions, TurnDies(s)
      PROVE  Names(r, k)
  BY <1>0, <1>6, TurnDiesDoes DEF Names, Carries
<1>7. ASSUME NEW c \in Consumers, Take(c)
      PROVE  Names(r, k)
  BY <1>0, <1>7, TakeDoes, ToIs, IdleIs DEF Names, Carries, Does
<1>8. ASSUME NEW c \in Consumers, Check(c)
      PROVE  Names(r, k)
  BY <1>0, <1>8, CheckDoes, ToIs, IdleIs DEF Names, Carries, Does
<1>9. ASSUME NEW c \in Consumers, Link(c)
      PROVE  Names(r, k)
  <2>1. PICK id \in ChainIds :
          /\ UNCHANGED <<tool, asked, pending>>
          /\ IF tool = "codex" THEN Does(c, IdleConsumer)
             ELSE Does(c, To(c, "spawn", proc[c].to, [chain |-> id, old |-> proc[c].baton.old]))
    BY <1>0, <1>9, LinkDoes
  <2>2. /\ \A d \in Consumers : d # c => proc'[d] = proc[d]
        /\ proc'[c].at \in {"idle", "spawn"} /\ (proc'[c].at = "spawn" => tool # "codex")
    BY <2>1, ToIs, IdleIs DEF Does
  <2> QED BY <1>0, <2>1, <2>2 DEF Names, Carries
<1>10. ASSUME NEW c \in Consumers, Spawn(c)
       PROVE  Names(r, k)
  BY <1>0, <1>10, SpawnDoes, ToIs, IdleIs DEF Names, Carries, Does
<1>11. ASSUME NEW c \in Consumers, SuccessorFails(c)
       PROVE  Names(r, k)
  BY <1>0, <1>11, SuccessorFailsDoes, ToIs, IdleIs DEF Names, Carries, Does
<1>12. ASSUME NEW c \in Consumers, Unlink(c)
       PROVE  Names(r, k)
  <2>1. /\ UNCHANGED <<tool, asked, pending>> /\ proc'[c].at = "idle"
        /\ \A d \in Consumers : d # c => proc'[d] = proc[d]
    BY <1>0, <1>12, UnlinkDoes, IdleIs DEF Does
  <2> QED BY <1>0, <2>1 DEF Names, Carries
<1>13. ASSUME NEW c \in Consumers, Killed(c)
       PROVE  Names(r, k)
  BY <1>0, <1>13, KilledDoes, IdleIs DEF Names, Carries, Does
<1> QED BY <1>1, <1>2, <1>3, <1>4, <1>5, <1>6, <1>7, <1>8, <1>9, <1>10, <1>11, <1>12, <1>13 DEF HNext

\* A session that was not started has none.
LEMMA UnbornNames ==
  ASSUME HInv, NEW s \in Sessions, life[s] = "unborn", NEW k \in ChainIds \cup {New}
  PROVE  ~Names(s, k)
<1>1. asked[s] = NoBaton /\ pending[s] = NoBaton
  BY DEF HInv, Alive, AliveAt
<1>2. \A c \in Consumers : ~Carries(c, s)
  BY DEF HInv, Shape, Shaped, Carries
<1> QED BY <1>1, <1>2, NoBatonIs DEF Names

\* One consumer at a time is past taking the baton.
LEMMA OneHand ==
  ASSUME HInv, NEW s \in Sessions \ torn, NEW c \in Consumers, NEW d \in Consumers,
         proc[c].from = s, proc[d].from = s,
         proc[c].at \notin {"idle", "take"}, proc[d].at \notin {"idle", "take"}
  PROVE  c = d
<1>1. CASE tool = "claude"
  BY <1>1 DEF HInv, Waits, WaitsAt
<1>2. CASE tool # "claude"
  <2>1. InHandBy(c, s) /\ InHandBy(d, s)
    BY <1>2 DEF HInv, Shape, Shaped, InHandBy
  <2> QED BY <2>1 DEF HInv, EndsOK, Untorn
<1> QED BY <1>1, <1>2

\* A step that leaves the chains alone and hands nobody a baton or a successor that has one.
LEMMA Calm ==
  ASSUME NEW r \in Sessions, Untorn(r), chain' = chain,
         \A k \in ChainIds \cup {New} : Names(r, k)' => Names(r, k),
         Unlinked(r)' => Unused(r),
         \A c \in Consumers : InHandBy(c, r)' =>
           pending'[r] = NoBaton /\ \A d \in Consumers : InHandBy(d, r)' => c = d
  PROVE  Untorn(r)'
<1>1. Unlinked(r)' => Unused(r)'
  BY DEF Unused
<1>2. Names(r, New)' => ~Led(chain, r) /\ ~Unlinked(r)'
  BY DEF Untorn, Unused
<1>3. \A id \in ChainIds : Names(r, id)' => LedOn(chain, id, r)
  BY DEF Untorn
<1> QED BY <1>1, <1>2, <1>3 DEF Untorn
(* torn is never undone.                                                      *)
LEMMA TornGrows ==
  ASSUME HInv, [HNext]_hvars
  PROVE  torn \subseteq torn'
<1>0. HTypeOK /\ Shape /\ Distinct /\ ClaudeOK
  BY DEF HInv
<1>1. CASE UNCHANGED hvars
  BY <1>1 DEF hvars, ghosts
<1>2. ASSUME NEW s \in Sessions, Register(s) \/ WritePending(s) \/ Expire(s) \/ Prompt(s) \/ TurnEnds(s) \/ TurnDies(s)
      PROVE  torn \subseteq torn'
  BY <1>2 DEF Register, WritePending, Expire, Prompt, TurnEnds, TurnDies, ghosts
<1>3. ASSUME NEW c \in Consumers, Take(c) \/ Check(c) \/ Link(c) \/ Spawn(c) \/ SuccessorFails(c) \/ Unlink(c) \/ Killed(c)
      PROVE  torn \subseteq torn'
  BY <1>3 DEF Take, Check, Link, Spawn, SuccessorFails, Unlink, Killed, ghosts
<1> QED BY <1>1, <1>2, <1>3 DEF HNext

LEMMA TypedTool == HTypeOK => tool \in {"claude", "codex"}
BY DEF HTypeOK

LEMMA UntornNext ==
  ASSUME HInv, [HNext]_hvars, NEW r \in Sessions \ torn'
  PROVE  Untorn(r)'
<1>0. HTypeOK /\ Shape /\ Alive /\ Waits /\ Distinct /\ ClaudeOK
  BY DEF HInv
<1>a. \A d \in Consumers : /\ Shaped(d) /\ WaitsAt(d) /\ DistinctAt(d)
                           /\ proc[d].to \in Sessions /\ proc[d].from \in Sessions
  BY <1>0, Typed DEF Shape, Waits, Distinct
<1>b. First \in Sessions /\ chain \in Chains /\ AliveAt(r)
  BY <1>0, HandoffAssumption DEF Alive, HTypeOK, Chains
<1>d. Untorn(r) /\ Ends(r)
  BY TornGrows DEF HInv, EndsOK
<1>e. (\A s \in Sessions : ~Register(s)) => \A k \in ChainIds \cup {New} : Names(r, k)' => Names(r, k)
  BY NamesShrink
<1>1. CASE UNCHANGED hvars
  BY <1>1, <1>d DEF Untorn, Unused, Names, Carries, Unlinked, InHandBy, hvars, files
<1>2. ASSUME NEW s \in Sessions, Register(s)
      PROVE  Untorn(r)'
  <2>1. PICK k \in ChainIds \cup {New} :
          /\ IF k = New THEN Containing(s) = {} ELSE k \in Containing(s) /\ ~RelayedOn(k, s)
          /\ asked'[s] = [chain |-> k, old |-> FALSE]
          /\ \A q \in Sessions : q # s => asked'[q] = asked[q]
          /\ Unlinked(s) => s \in torn'
          /\ UNCHANGED <<tool, pending, chain, proc>>
    BY <1>0, <1>2, RegisterDoes
  <2>2. (Unlinked(r)' <=> Unlinked(r)) /\ \A d \in Consumers : InHandBy(d, r)' <=> InHandBy(d, r)
    BY <2>1 DEF Unlinked, InHandBy
  <2>3. CASE r # s
    <3>1. \A j \in ChainIds \cup {New} : Names(r, j)' => Names(r, j)
      BY <2>1, <2>3 DEF Names, Carries
    <3> QED BY <1>d, <2>1, <2>2, <3>1, Calm DEF Untorn
  <2>4. CASE r = s
    <3>0. ~Unlinked(r)
      BY <2>1, <2>4
    <3>1. asked'[s].chain = k
      BY <2>1
    <3>2. \A j \in ChainIds \cup {New} : Names(r, j)' => Names(r, j) \/ j = k
      BY <2>1, <2>4, <3>1 DEF Names, Carries
    <3>3. k = New => ~Led(chain, r)
      <4>1. k = New => \A id \in ChainIds : ~On(id, r)
        BY <2>1, <2>4 DEF Containing
      <4> QED BY <1>0, <4>1, Readings DEF Led
    <3>4. k # New => LedOn(chain, k, r)
      BY <1>0, <2>1, <2>4, Readings DEF Containing
    <3>5. Names(r, New)' => ~Led(chain, r)
      BY <1>d, <3>2, <3>3 DEF Untorn
    <3>6. \A id \in ChainIds : Names(r, id)' => LedOn(chain, id, r)
      BY <1>d, <3>2, <3>4, NoBatonIs DEF Untorn
    <3> QED BY <1>d, <2>1, <2>2, <3>0, <3>5, <3>6 DEF Untorn
  <2> QED BY <2>3, <2>4
<1>3. ASSUME NEW s \in Sessions, WritePending(s), \A q \in Sessions : ~Register(q)
      PROVE  Untorn(r)'
  <2> SUFFICES /\ chain' = chain /\ (Unlinked(r)' => Unlinked(r))
               /\ \A d \in Consumers : InHandBy(d, r)' => InHandBy(d, r) /\ (pending[r] = NoBaton => pending'[r] = NoBaton)
    BY <1>d, <1>e, <1>3, Calm DEF Untorn
  <2>1. ASSUME NEW d \in Consumers, InHandBy(d, r), s = r
        PROVE  FALSE
    BY <1>0, <1>3, <2>1, WritePendingDoes DEF InHand, InHandBy
  <2> QED BY <1>0, <1>3, <2>1, WritePendingDoes DEF Unlinked, InHandBy
<1>4. ASSUME NEW s \in Sessions, Expire(s), \A q \in Sessions : ~Register(q)
      PROVE  Untorn(r)'
  <2> SUFFICES /\ chain' = chain /\ (Unlinked(r)' => Unlinked(r))
               /\ \A d \in Consumers : InHandBy(d, r)' => InHandBy(d, r) /\ (pending[r] = NoBaton => pending'[r] = NoBaton)
    BY <1>d, <1>e, <1>4, Calm DEF Untorn
  <2> QED BY <1>0, <1>4, ExpireDoes DEF Unlinked, InHandBy
<1>5. ASSUME NEW s \in Sessions, Prompt(s), \A q \in Sessions : ~Register(q)
      PROVE  Untorn(r)'
  <2> SUFFICES /\ chain' = chain /\ (Unlinked(r)' => Unlinked(r))
               /\ \A d \in Consumers : InHandBy(d, r)' => InHandBy(d, r) /\ (pending[r] = NoBaton => pending'[r] = NoBaton)
    BY <1>d, <1>e, <1>5, Calm DEF Untorn
  <2> QED BY <1>0, <1>5, PromptDoes DEF Unlinked, InHandBy
<1>6. ASSUME NEW s \in Sessions, TurnEnds(s), \A q \in Sessions : ~Register(q)
      PROVE  Untorn(r)'
  <2> SUFFICES /\ chain' = chain /\ (Unlinked(r)' => Unlinked(r))
               /\ \A d \in Consumers : InHandBy(d, r)' => InHandBy(d, r) /\ (pending[r] = NoBaton => pending'[r] = NoBaton)
    BY <1>d, <1>e, <1>6, Calm DEF Untorn
  <2> QED BY <1>0, <1>6, TurnEndsDoes, HearsIs DEF Unlinked, InHandBy
<1>7. ASSUME NEW s \in Sessions, TurnDies(s), \A q \in Sessions : ~Register(q)
      PROVE  Untorn(r)'
  <2> SUFFICES /\ chain' = chain /\ (Unlinked(r)' => Unlinked(r))
               /\ \A d \in Consumers : InHandBy(d, r)' => InHandBy(d, r) /\ (pending[r] = NoBaton => pending'[r] = NoBaton)
    BY <1>d, <1>e, <1>7, Calm DEF Untorn
  <2> QED BY <1>0, <1>7, TurnDiesDoes DEF Unlinked, InHandBy
<1>8. ASSUME NEW c \in Consumers, Take(c), \A q \in Sessions : ~Register(q)
      PROVE  Untorn(r)'
  <2> DEFINE s == proc[c].from
  <2>1. chain' = chain /\ (Unlinked(r)' => Unlinked(r))
    BY <1>0, <1>8, TakeDoes, ToIs, IdleIs DEF Unlinked, Does
  <2>2. CASE Does(c, IdleConsumer)
    <3>1. \A d \in Consumers : InHandBy(d, r)' => InHandBy(d, r) /\ (pending[r] = NoBaton => pending'[r] = NoBaton)
      BY <1>0, <1>8, <2>2, TakeDoes, IdleIs DEF InHandBy, Does
    <3> QED BY <1>d, <1>e, <1>8, <2>1, <3>1, Calm DEF Untorn
  <2>3. CASE pending[s] \in Batons /\ Does(c, To(c, "check", proc[c].to, pending[s]))
    <3>1. CASE r = s
      <4>1. \A d \in Consumers : ~InHandBy(d, r)
        BY <1>d, <2>3, <3>1, NoBatonIs DEF Untorn
      <4>2. \A d \in Consumers : InHandBy(d, r)' => d = c
        BY <2>3, <4>1 DEF InHandBy, Does
      <4>3. pending'[r] = NoBaton
        BY <1>0, <1>8, <3>1, TakeDoes
      <4> QED BY <1>d, <1>e, <1>8, <2>1, <4>2, <4>3, Calm DEF Untorn
    <3>2. CASE r # s
      <4>1. \A d \in Consumers : InHandBy(d, r)' => InHandBy(d, r)
        BY <2>3, <3>2, ToIs DEF InHandBy, Does
      <4>2. pending'[r] = pending[r]
        BY <1>0, <1>8, <3>2, TakeDoes
      <4> QED BY <1>d, <1>e, <1>8, <2>1, <4>1, <4>2, Calm DEF Untorn
    <3> QED BY <3>1, <3>2
  <2> QED BY <1>0, <1>8, <2>2, <2>3, TakeDoes
<1>9. ASSUME NEW c \in Consumers, Check(c), \A q \in Sessions : ~Register(q)
      PROVE  Untorn(r)'
  <2>1. chain' = chain /\ UNCHANGED pending
    BY <1>0, <1>9, CheckDoes
  <2>2. \A d \in Consumers : InHandBy(d, r)' => InHandBy(d, r)
    BY <1>0, <1>a, <1>9, CheckDoes, ToIs, IdleIs DEF InHandBy, Does, Shaped
  <2>3. Unlinked(r)' => Unlinked(r) \/ Nameless(r)
    BY <1>0, <1>9, CheckDoes, ToIs, IdleIs DEF Unlinked, Does
  <2>4. Nameless(r) => Unused(r)
    BY <1>0, NamelessIs, UnbornNames DEF Unused
  <2> QED BY <1>d, <1>e, <1>9, <2>1, <2>2, <2>3, <2>4, Calm DEF Untorn
<1>10. ASSUME NEW c \in Consumers, Link(c), \A q \in Sessions : ~Register(q)
      PROVE  Untorn(r)'
  <2>1. PICK id \in ChainIds :
          /\ proc[c].at = "link"
          /\ IF proc[c].baton.chain = New THEN chain[id] = <<>> ELSE id = proc[c].baton.chain
          /\ Appends(chain, chain', id, proc[c].from, proc[c].to) /\ chain' \in Chains
          /\ IF tool = "codex" THEN Does(c, IdleConsumer)
             ELSE /\ [chain |-> id, old |-> proc[c].baton.old] \in Batons
                  /\ Does(c, To(c, "spawn", proc[c].to, [chain |-> id, old |-> proc[c].baton.old]))
          /\ UNCHANGED <<tool, life, asked, pending, failures, heirs, depth, torn>>
    BY <1>0, <1>10, LinkDoes
  <2>2. /\ \A q, u : Leads(chain', q, u) <=> Leads(chain, q, u) \/ (q = proc[c].from /\ u = proc[c].to)
        /\ \A u : Led(chain', u) <=> Led(chain, u) \/ u = proc[c].to
        /\ \A q : Relays(chain', q) <=> Relays(chain, q) \/ q = proc[c].from
    BY <1>a, <1>b, <2>1, Appended
  <2> DEFINE s == proc[c].from
             t == proc[c].to
             k == proc[c].baton.chain
  <2>3. /\ \A jd \in ChainIds : \A u : LedOn(chain', jd, u) <=> LedOn(chain, jd, u) \/ (jd = id /\ u = t)
        /\ \A jd \in ChainIds : \A q : RelaysOn(chain', jd, q) <=> RelaysOn(chain, jd, q) \/ (jd = id /\ q = s)
    BY <1>a, <1>b, <2>1, Appended
  <2>4. /\ ~Led(chain, t) /\ t # First /\ Unlinked(t)
        /\ \A d \in Consumers : proc[d].to = t => d = c
    BY <1>a, <2>1 DEF Shaped, DistinctAt, Unlinked
  <2>5. Names(s, k) /\ k \in ChainIds \cup {New} /\ (k # New => id = k)
    <3>1. proc[c].baton \in Batons
      BY <1>0, <1>a, <2>1, Typed DEF Shaped
    <3>2. Carries(c, s)
      BY <2>1 DEF Carries
    <3>3. Names(s, k)
      BY <3>2 DEF Names
    <3> QED BY <2>1, <3>1, <3>3 DEF Batons
  <2>6. r = s => ~Relays(chain, s)
    BY <1>d, <2>1, TypedTool DEF Ends, Midway, Relaying
  <2>7. UNCHANGED pending /\ \A d \in Consumers : InHandBy(d, r)' => InHandBy(d, r)
    BY <1>a, <2>1, ToIs, IdleIs DEF InHandBy, Does, Shaped
  <2>8. \A d \in Consumers : InHandBy(d, r)' =>
          pending'[r] = NoBaton /\ \A e \in Consumers : InHandBy(e, r)' => d = e
    BY <1>d, <2>7 DEF Untorn
  <2>9. Unlinked(r)' => Unlinked(r) /\ r # t
    BY <2>1, <2>4, ToIs, IdleIs DEF Unlinked, Does
  <2>10. r = t => Unused(t)
    BY <1>d, <2>4 DEF Untorn
  <2>11. \A jd \in ChainIds : OnIt(chain, jd, r) => Led(chain, r) \/ Relays(chain, r)
    BY <1>b, Reads DEF OnIt, Led
  <2>12. ASSUME NEW jd \in ChainIds, OnIt(chain', jd, r)
         PROVE  OnIt(chain, jd, r) \/ (jd = id /\ (r = s \/ r = t))
    BY <2>3, <2>12 DEF OnIt
  <2>13. r = s /\ k = New => ~Led(chain, s)
    BY <1>d, <2>5 DEF Untorn
  <2>14. r = s /\ k # New => OnIt(chain, id, s)
    BY <1>d, <2>5 DEF Untorn, OnIt
  <2>15. \A jd, kd \in ChainIds : OnIt(chain', jd, r) /\ OnIt(chain', kd, r) => jd = kd
    <3>1. \A jd, kd \in ChainIds : OnIt(chain, jd, r) /\ OnIt(chain, kd, r) => jd = kd
      BY <1>d DEF Untorn
    <3>2. CASE r = t
      BY <2>10, <2>11, <2>12, <3>2 DEF Unused
    <3>3. CASE r = s /\ r # t /\ k = New
      BY <2>6, <2>11, <2>12, <2>13, <3>3
    <3>4. CASE r = s /\ r # t /\ k # New
      BY <2>12, <2>14, <3>1, <3>4
    <3>5. CASE r # s /\ r # t
      BY <2>12, <3>1, <3>5
    <3> QED BY <3>2, <3>3, <3>4, <3>5
  <2>16. \A j \in ChainIds \cup {New} : Names(r, j)' => Names(r, j)
    BY <1>e, <1>10
  <2>17. Names(r, New)' => ~Led(chain', r) /\ ~Unlinked(r)'
    BY <1>d, <2>2, <2>4, <2>9, <2>16 DEF Untorn
  <2>18. \A jd \in ChainIds : Names(r, jd)' => LedOn(chain', jd, r)
    BY <1>d, <2>3, <2>16 DEF Untorn
  <2>19. Unlinked(r)' => Unused(r)'
    BY <1>d, <2>2, <2>5, <2>9, <2>16 DEF Untorn, Unused
  <2> QED BY <2>8, <2>15, <2>17, <2>18, <2>19 DEF Untorn
<1>11. ASSUME NEW c \in Consumers, Spawn(c), \A q \in Sessions : ~Register(q)
      PROVE  Untorn(r)'
  <2>1. chain' = chain /\ UNCHANGED pending
    BY <1>0, <1>11, SpawnDoes
  <2>2. \A d \in Consumers : InHandBy(d, r)' => InHandBy(d, r)
    BY <1>0, <1>a, <1>11, SpawnDoes, ToIs, IdleIs DEF InHandBy, Does, Shaped
  <2>3. Unlinked(r)' => Unlinked(r) \/ Nameless(r)
    BY <1>0, <1>11, SpawnDoes, ToIs, IdleIs DEF Unlinked, Does
  <2>4. Nameless(r) => Unused(r)
    BY <1>0, NamelessIs, UnbornNames DEF Unused
  <2> QED BY <1>d, <1>e, <1>11, <2>1, <2>2, <2>3, <2>4, Calm DEF Untorn
<1>12. ASSUME NEW c \in Consumers, SuccessorFails(c), \A q \in Sessions : ~Register(q)
      PROVE  Untorn(r)'
  <2> SUFFICES /\ chain' = chain /\ (Unlinked(r)' => Unlinked(r))
               /\ \A d \in Consumers : InHandBy(d, r)' => InHandBy(d, r) /\ (pending[r] = NoBaton => pending'[r] = NoBaton)
    BY <1>d, <1>e, <1>12, Calm DEF Untorn
  <2> QED BY <1>0, <1>12, SuccessorFailsDoes, ToIs, IdleIs DEF Unlinked, InHandBy, Does
<1>13. ASSUME NEW c \in Consumers, Unlink(c), \A q \in Sessions : ~Register(q)
      PROVE  Untorn(r)'
  <2>1. PICK id \in ChainIds :
          /\ proc[c].at = "unlink" /\ tool = "claude" /\ id = proc[c].baton.chain
          /\ LastOf(chain, id, proc[c].from, proc[c].to)
          /\ TakesBack(chain, chain', id, proc[c].from, proc[c].to) /\ chain' \in Chains
          /\ \A jd \in ChainIds : \A i \in Nat : \A q \in Sessions :
               Entry(chain, jd, i, q, proc[c].to) => jd = id /\ i = Len(chain[id])
          /\ Does(c, IdleConsumer)
          /\ UNCHANGED <<tool, life, asked, pending, failures, heirs, depth, torn>>
    BY <1>0, <1>13, UnlinkDoes
  <2>2. /\ \A q, u : Leads(chain', q, u) <=> Leads(chain, q, u) /\ u # proc[c].to
        /\ \A u : Led(chain', u) <=> Led(chain, u) /\ u # proc[c].to
        /\ \A q : Relays(chain', q) => Relays(chain, q)
    BY <1>a, <1>b, <2>1, Removed
  <2>3. /\ \A jd \in ChainIds : \A u : LedOn(chain', jd, u) <=> LedOn(chain, jd, u) /\ u # proc[c].to
        /\ \A jd \in ChainIds : \A q : RelaysOn(chain', jd, q) => RelaysOn(chain, jd, q)
    BY <1>a, <1>b, <2>1, Removed
  <2>4. \A jd \in ChainIds : OnIt(chain', jd, r) => OnIt(chain, jd, r)
    BY <2>3 DEF OnIt
  <2>5. \A j \in ChainIds \cup {New} : Names(r, j)' => Names(r, j)
    BY <1>e, <1>13
  <2>6. Unlinked(r)' => Unlinked(r)
    BY <2>1, IdleIs DEF Unlinked, Does
  <2>7. UNCHANGED pending /\ \A d \in Consumers : InHandBy(d, r)' => InHandBy(d, r)
    BY <2>1, IdleIs DEF InHandBy, Does
  <2>8. ASSUME NEW jd \in ChainIds, Names(r, jd)
        PROVE  r # proc[c].to
    <3>1. life[proc[c].to] = "unborn"
      BY <1>a, <2>1 DEF Shaped
    <3> QED BY <2>8, <3>1, UnbornNames
  <2>9. \A jd \in ChainIds : Names(r, jd)' => LedOn(chain', jd, r)
    BY <1>d, <2>3, <2>5, <2>8 DEF Untorn
  <2>10. Names(r, New)' => ~Led(chain', r) /\ ~Unlinked(r)'
    BY <1>d, <2>2, <2>5, <2>6 DEF Untorn
  <2>11. Unlinked(r)' => Unused(r)'
    BY <1>d, <2>2, <2>5, <2>6 DEF Untorn, Unused
  <2>12. \A jd, kd \in ChainIds : OnIt(chain', jd, r) /\ OnIt(chain', kd, r) => jd = kd
    BY <1>d, <2>4 DEF Untorn
  <2>13. \A d \in Consumers : InHandBy(d, r)' =>
           pending'[r] = NoBaton /\ \A e \in Consumers : InHandBy(e, r)' => d = e
    BY <1>d, <2>7 DEF Untorn
  <2> QED BY <2>9, <2>10, <2>11, <2>12, <2>13 DEF Untorn
<1>14. ASSUME NEW c \in Consumers, Killed(c), \A q \in Sessions : ~Register(q)
      PROVE  Untorn(r)'
  <2> SUFFICES /\ chain' = chain /\ (Unlinked(r)' => Unlinked(r))
               /\ \A d \in Consumers : InHandBy(d, r)' => InHandBy(d, r) /\ (pending[r] = NoBaton => pending'[r] = NoBaton)
    BY <1>d, <1>e, <1>14, Calm DEF Untorn
  <2> QED BY <1>0, <1>14, KilledDoes, ToIs, IdleIs DEF Unlinked, InHandBy, Does
<1> QED BY <1>1, <1>2, <1>3, <1>4, <1>5, <1>6, <1>7, <1>8, <1>9, <1>10, <1>11, <1>12, <1>13, <1>14 DEF HNext

\* What a step that neither starts nor links anything, and stops no relay of r, keeps.
LEMMA EndsKept ==
  ASSUME NEW r, Ends(r), UNCHANGED tool, heirs'[r] = heirs[r],
         \A t \in Sessions : Leads(chain', r, t) <=> Leads(chain, r, t),
         Relays(chain', r) => Relays(chain, r),
         \A d \in Consumers : /\ (proc[d].from = r /\ Relaying(d)) <=> (proc'[d].from = r /\ Relaying(d)')
                              /\ proc[d].from = r /\ Relaying(d) =>
                                   proc'[d].at = proc[d].at /\ proc'[d].to = proc[d].to
  PROVE  Ends(r)'
<1>1. \A t, u \in heirs'[r] : t = u
  BY DEF Ends
<1>2. ASSUME \A d \in Consumers : proc'[d].from = r => ~Relaying(d)'
      PROVE  \A t \in Sessions : Leads(chain', r, t) <=> t \in heirs'[r]
  <2>1. \A d \in Consumers : proc[d].from = r => ~Relaying(d)
    BY <1>2
  <2>2. \A t \in Sessions : Leads(chain, r, t) <=> t \in heirs[r]
    BY <2>1 DEF Ends
  <2> QED BY <2>2
<1>3. ASSUME NEW d \in Consumers, proc'[d].from = r /\ Relaying(d)'
      PROVE  Midway(r, d)'
  <2>1. proc[d].from = r /\ Relaying(d) /\ proc'[d].at = proc[d].at /\ proc'[d].to = proc[d].to
    BY <1>3
  <2>2. Midway(r, d)
    BY <2>1 DEF Ends
  <2> QED BY <2>1, <2>2 DEF Midway
<1> QED BY <1>1, <1>2, <1>3 DEF Ends

LEMMA EndsNext ==
  ASSUME HInv, [HNext]_hvars, NEW r \in Sessions \ torn'
  PROVE  Ends(r)'
<1>0. HTypeOK /\ Shape /\ Alive /\ Waits /\ Distinct /\ ClaudeOK
  BY DEF HInv
<1>a. \A d \in Consumers : /\ Shaped(d) /\ WaitsAt(d) /\ DistinctAt(d)
                           /\ proc[d].to \in Sessions /\ proc[d].from \in Sessions
  BY <1>0, Typed DEF Shape, Waits, Distinct
<1>b. First \in Sessions /\ chain \in Chains /\ AliveAt(r)
  BY <1>0, HandoffAssumption DEF Alive, HTypeOK, Chains
<1>d. Untorn(r) /\ Ends(r)
  BY TornGrows DEF HInv, EndsOK
<1>1. CASE UNCHANGED hvars
  BY <1>1, <1>d DEF Ends, Midway, Relaying, hvars, files, ghosts
<1>2. ASSUME NEW s \in Sessions, Register(s)
      PROVE  Ends(r)'
  <2>1. UNCHANGED <<tool, chain, heirs>>
    BY <1>0, <1>2, RegisterDoes
  <2>2. \A d \in Consumers : /\ (proc[d].from = r /\ Relaying(d)) <=> (proc'[d].from = r /\ Relaying(d)')
                             /\ proc[d].from = r /\ Relaying(d) =>
                                  proc'[d].at = proc[d].at /\ proc'[d].to = proc[d].to
    BY <1>0, <1>2, RegisterDoes DEF Relaying
  <2> QED BY <1>d, <2>1, <2>2, EndsKept
<1>3. ASSUME NEW s \in Sessions, WritePending(s)
      PROVE  Ends(r)'
  <2>1. UNCHANGED <<tool, chain, heirs>>
    BY <1>0, <1>3, WritePendingDoes
  <2>2. \A d \in Consumers : /\ (proc[d].from = r /\ Relaying(d)) <=> (proc'[d].from = r /\ Relaying(d)')
                             /\ proc[d].from = r /\ Relaying(d) =>
                                  proc'[d].at = proc[d].at /\ proc'[d].to = proc[d].to
    BY <1>0, <1>3, WritePendingDoes DEF Relaying
  <2> QED BY <1>d, <2>1, <2>2, EndsKept
<1>4. ASSUME NEW s \in Sessions, Expire(s)
      PROVE  Ends(r)'
  <2>1. UNCHANGED <<tool, chain, heirs>>
    BY <1>0, <1>4, ExpireDoes
  <2>2. \A d \in Consumers : /\ (proc[d].from = r /\ Relaying(d)) <=> (proc'[d].from = r /\ Relaying(d)')
                             /\ proc[d].from = r /\ Relaying(d) =>
                                  proc'[d].at = proc[d].at /\ proc'[d].to = proc[d].to
    BY <1>0, <1>4, ExpireDoes DEF Relaying
  <2> QED BY <1>d, <2>1, <2>2, EndsKept
<1>5. ASSUME NEW s \in Sessions, Prompt(s)
      PROVE  Ends(r)'
  <2>1. UNCHANGED <<tool, chain, heirs>>
    BY <1>0, <1>5, PromptDoes
  <2>2. \A d \in Consumers : /\ (proc[d].from = r /\ Relaying(d)) <=> (proc'[d].from = r /\ Relaying(d)')
                             /\ proc[d].from = r /\ Relaying(d) =>
                                  proc'[d].at = proc[d].at /\ proc'[d].to = proc[d].to
    BY <1>0, <1>5, PromptDoes DEF Relaying
  <2> QED BY <1>d, <2>1, <2>2, EndsKept
<1>6. ASSUME NEW s \in Sessions, TurnEnds(s)
      PROVE  Ends(r)'
  <2>1. UNCHANGED <<tool, chain, heirs>>
    BY <1>0, <1>6, TurnEndsDoes
  <2>2. \A d \in Consumers : /\ (proc[d].from = r /\ Relaying(d)) <=> (proc'[d].from = r /\ Relaying(d)')
                             /\ proc[d].from = r /\ Relaying(d) =>
                                  proc'[d].at = proc[d].at /\ proc'[d].to = proc[d].to
    BY <1>0, <1>6, TurnEndsDoes, HearsIs DEF Relaying
  <2> QED BY <1>d, <2>1, <2>2, EndsKept
<1>7. ASSUME NEW s \in Sessions, TurnDies(s)
      PROVE  Ends(r)'
  <2>1. UNCHANGED <<tool, chain, heirs>>
    BY <1>0, <1>7, TurnDiesDoes
  <2>2. \A d \in Consumers : /\ (proc[d].from = r /\ Relaying(d)) <=> (proc'[d].from = r /\ Relaying(d)')
                             /\ proc[d].from = r /\ Relaying(d) =>
                                  proc'[d].at = proc[d].at /\ proc'[d].to = proc[d].to
    BY <1>0, <1>7, TurnDiesDoes DEF Relaying
  <2> QED BY <1>d, <2>1, <2>2, EndsKept
<1>8. ASSUME NEW c \in Consumers, Take(c)
      PROVE  Ends(r)'
  <2>1. UNCHANGED <<tool, chain, heirs>>
    BY <1>0, <1>8, TakeDoes
  <2>2. \A d \in Consumers : /\ (proc[d].from = r /\ Relaying(d)) <=> (proc'[d].from = r /\ Relaying(d)')
                             /\ proc[d].from = r /\ Relaying(d) =>
                                  proc'[d].at = proc[d].at /\ proc'[d].to = proc[d].to
    BY <1>0, <1>8, TakeDoes, ToIs, IdleIs DEF Relaying, Does
  <2> QED BY <1>d, <2>1, <2>2, EndsKept
<1>9. ASSUME NEW c \in Consumers, Check(c)
      PROVE  Ends(r)'
  <2>1. /\ UNCHANGED <<tool, chain, heirs>> /\ proc[c].at = "check"
        /\ \/ Does(c, IdleConsumer)
           \/ /\ Containing(proc[c].from) = {} \/ \E id \in Containing(proc[c].from) : ~RelayedOn(id, proc[c].from)
              /\ \E t \in Sessions, a \in {"link", "spawn"} : /\ Does(c, To(c, a, t, proc[c].baton))
                                                            /\ a = IF tool = "claude" THEN "link" ELSE "spawn"
    BY <1>0, <1>a, <1>9, CheckDoes
  <2>2. ASSUME proc[c].from = r, NEW d \in Consumers, proc[d].from = r
        PROVE  ~Relaying(d)
    BY <2>1, <2>2, OneHand, TornGrows DEF Relaying
  <2>3. CASE proc[c].from # r
    <3>1. \A d \in Consumers : /\ (proc[d].from = r /\ Relaying(d)) <=> (proc'[d].from = r /\ Relaying(d)')
                               /\ proc[d].from = r /\ Relaying(d) => proc'[d] = proc[d]
      BY <2>1, <2>3, ToIs, IdleIs DEF Does, Relaying
    <3> QED BY <1>d, <2>1, <3>1, EndsKept
  <2>4. CASE proc[c].from = r
    <3>1. \A t \in Sessions : Leads(chain, r, t) <=> t \in heirs[r]
      BY <1>d, <2>2, <2>4 DEF Ends
    <3>2. CASE Does(c, IdleConsumer)
      <4>1. \A d \in Consumers : proc'[d].from = r => ~Relaying(d)'
        BY <2>2, <2>4, <3>2, IdleIs DEF Does, Relaying
      <4> QED BY <1>d, <2>1, <3>1, <4>1 DEF Ends
    <3>3. ASSUME Containing(r) = {} \/ \E id \in Containing(r) : ~RelayedOn(id, r)
          PROVE  ~Relays(chain, r)
      <4>1. CASE Containing(r) = {}
        <5>1. \A id \in ChainIds : ~On(id, r)
          BY <4>1 DEF Containing
        <5> QED BY <1>0, <1>b, <5>1, Readings, Reads
      <4>2. CASE \E id \in Containing(r) : ~RelayedOn(id, r)
        <5>1. PICK id \in ChainIds : On(id, r) /\ ~RelayedOn(id, r)
          BY <4>2 DEF Containing
        <5>2. OnIt(chain, id, r) /\ ~RelaysOn(chain, id, r)
          BY <1>0, <5>1, Readings DEF OnIt
        <5>3. \A jd \in ChainIds : RelaysOn(chain, jd, r) => jd = id
          BY <1>d, <5>2 DEF Untorn, OnIt
        <5> QED BY <1>b, <5>2, <5>3, Reads
      <4> QED BY <3>3, <4>1, <4>2
    <3>4. CASE ~Does(c, IdleConsumer)
      <4>1. ~Relays(chain, r)
        BY <2>1, <2>4, <3>3, <3>4
      <4>2. PICK t \in Sessions, a \in {"link", "spawn"} : /\ Does(c, To(c, a, t, proc[c].baton))
                                                         /\ a = IF tool = "claude" THEN "link" ELSE "spawn"
        BY <2>1, <3>4
      <4>3. /\ \A d \in Consumers : proc'[d].from = r /\ Relaying(d)' => d = c
            /\ proc'[c].at = a /\ proc'[c].from = r /\ Relaying(c)'
        BY <2>2, <2>4, <4>2, ToIs DEF Does, Relaying
      <4>4. heirs[r] = {}
        <5>1. heirs[r] \subseteq Sessions
          BY <1>0 DEF HTypeOK
        <5>2. \A t2 \in Sessions : ~Leads(chain, r, t2)
          BY <1>b, <4>1, Reads
        <5> QED BY <3>1, <5>1, <5>2
      <4>5. Midway(r, c)'
        BY <1>0, <2>1, <4>1, <4>2, <4>3, <4>4, TypedTool DEF Midway
      <4> QED BY <1>d, <2>1, <4>3, <4>5 DEF Ends
    <3> QED BY <3>2, <3>4
  <2> QED BY <2>3, <2>4
<1>10. ASSUME NEW c \in Consumers, Link(c)
      PROVE  Ends(r)'
  <2>1. PICK id \in ChainIds :
          /\ proc[c].at = "link"
          /\ IF proc[c].baton.chain = New THEN chain[id] = <<>> ELSE id = proc[c].baton.chain
          /\ Appends(chain, chain', id, proc[c].from, proc[c].to) /\ chain' \in Chains
          /\ IF tool = "codex" THEN Does(c, IdleConsumer)
             ELSE /\ [chain |-> id, old |-> proc[c].baton.old] \in Batons
                  /\ Does(c, To(c, "spawn", proc[c].to, [chain |-> id, old |-> proc[c].baton.old]))
          /\ UNCHANGED <<tool, life, asked, pending, failures, heirs, depth, torn>>
    BY <1>0, <1>10, LinkDoes
  <2>2. /\ \A q, u : Leads(chain', q, u) <=> Leads(chain, q, u) \/ (q = proc[c].from /\ u = proc[c].to)
        /\ \A u : Led(chain', u) <=> Led(chain, u) \/ u = proc[c].to
        /\ \A q : Relays(chain', q) <=> Relays(chain, q) \/ q = proc[c].from
    BY <1>a, <1>b, <2>1, Appended
  <2>3. ASSUME proc[c].from = r, NEW d \in Consumers, proc[d].from = r, Relaying(d)
        PROVE  d = c
    BY <2>1, <2>3, OneHand, TornGrows DEF Relaying
  <2>4. CASE proc[c].from # r
    <3>1. \A d \in Consumers : /\ (proc[d].from = r /\ Relaying(d)) <=> (proc'[d].from = r /\ Relaying(d)')
                               /\ proc[d].from = r /\ Relaying(d) => proc'[d] = proc[d]
      BY <2>1, <2>4, ToIs, IdleIs DEF Does, Relaying
    <3>2. /\ \A u : Leads(chain', r, u) <=> Leads(chain, r, u)
          /\ Relays(chain', r) <=> Relays(chain, r)
      BY <2>2, <2>4
    <3> QED BY <1>d, <2>1, <3>1, <3>2, EndsKept
  <2>5. CASE proc[c].from = r
    <3>1. Midway(r, c) /\ ~Relays(chain, r)
      BY <1>d, <2>1, <2>5 DEF Ends, Relaying, Midway
    <3>2. \A u \in Sessions : Leads(chain', r, u) <=> u = proc[c].to
      BY <1>b, <2>2, <2>5, <3>1, Reads
    <3>3. CASE tool = "codex"
      <4>1. heirs[r] = {proc[c].to}
        BY <2>1, <3>1, <3>3 DEF Midway
      <4>2. \A d \in Consumers : proc'[d].from = r => ~Relaying(d)'
        BY <2>1, <2>3, <2>5, <3>3, IdleIs DEF Does, Relaying
      <4> QED BY <2>1, <3>2, <4>1, <4>2 DEF Ends
    <3>4. CASE tool # "codex"
      <4>1. heirs[r] = {}
        BY <2>1, <3>1, <3>4 DEF Midway
      <4>2. /\ \A d \in Consumers : proc'[d].from = r /\ Relaying(d)' => d = c
            /\ proc'[c].at = "spawn" /\ proc'[c].from = r /\ proc'[c].to = proc[c].to /\ Relaying(c)'
        BY <2>1, <2>3, <2>5, <3>4, ToIs DEF Does, Relaying
      <4>3. Midway(r, c)'
        BY <2>1, <3>2, <3>4, <4>1, <4>2 DEF Midway
      <4> QED BY <2>1, <4>1, <4>2, <4>3 DEF Ends
    <3> QED BY <3>3, <3>4
  <2> QED BY <2>4, <2>5
<1>11. ASSUME NEW c \in Consumers, Spawn(c)
      PROVE  Ends(r)'
  <2>1. /\ UNCHANGED <<tool, chain>> /\ proc[c].at = "spawn"
        /\ \/ tool = "claude" /\ Does(c, IdleConsumer) /\ Starts1(proc[c].from, proc[c].to)
           \/ /\ tool = "codex"
              /\ \E t \in Sessions : Starts1(proc[c].from, t) /\ Does(c, To(c, "link", t, proc[c].baton))
    BY <1>0, <1>11, SpawnDoes
  <2>2. ASSUME proc[c].from = r, NEW d \in Consumers, proc[d].from = r, Relaying(d)
        PROVE  d = c
    BY <2>1, <2>2, OneHand, TornGrows DEF Relaying
  <2>3. CASE proc[c].from # r
    <3>1. \A d \in Consumers : /\ (proc[d].from = r /\ Relaying(d)) <=> (proc'[d].from = r /\ Relaying(d)')
                               /\ proc[d].from = r /\ Relaying(d) => proc'[d] = proc[d]
      BY <2>1, <2>3, ToIs, IdleIs DEF Does, Relaying
    <3>2. heirs'[r] = heirs[r]
      BY <2>1, <2>3 DEF Starts1
    <3> QED BY <1>d, <2>1, <3>1, <3>2, EndsKept
  <2>4. CASE proc[c].from = r
    <3>1. Midway(r, c)
      BY <1>d, <2>1, <2>4 DEF Ends, Relaying
    <3>2. CASE tool = "claude"
      <4>1. heirs'[r] = {proc[c].to} /\ \A t \in Sessions : Leads(chain, r, t) <=> t = proc[c].to
        BY <2>1, <2>4, <3>1, <3>2 DEF Midway, Starts1
      <4>2. \A d \in Consumers : proc'[d].from = r => ~Relaying(d)'
        BY <2>1, <2>2, <2>4, <3>2, IdleIs DEF Does, Relaying
      <4> QED BY <2>1, <4>1, <4>2 DEF Ends
    <3>3. CASE tool # "claude"
      <4>1. PICK t \in Sessions : Starts1(r, t) /\ Does(c, To(c, "link", t, proc[c].baton))
        BY <2>1, <2>4, <3>3
      <4>2. ~Relays(chain, r) /\ heirs'[r] = {t}
        BY <2>1, <3>1, <3>3, <4>1 DEF Midway, Starts1
      <4>3. /\ \A d \in Consumers : proc'[d].from = r /\ Relaying(d)' => d = c
            /\ proc'[c].at = "link" /\ proc'[c].from = r /\ proc'[c].to = t /\ Relaying(c)'
        BY <2>2, <2>4, <4>1, ToIs DEF Does, Relaying
      <4>4. Midway(r, c)'
        BY <2>1, <3>3, <4>2, <4>3 DEF Midway
      <4> QED BY <2>1, <4>2, <4>3, <4>4 DEF Ends
    <3> QED BY <3>2, <3>3
  <2> QED BY <2>3, <2>4
<1>12. ASSUME NEW c \in Consumers, SuccessorFails(c)
      PROVE  Ends(r)'
  <2>1. /\ UNCHANGED <<tool, chain, heirs>> /\ proc[c].at = "spawn"
        /\ IF tool = "claude" THEN Does(c, To(c, "unlink", proc[c].to, proc[c].baton)) ELSE Does(c, IdleConsumer)
    BY <1>0, <1>12, SuccessorFailsDoes
  <2>2. ASSUME proc[c].from = r, NEW d \in Consumers, proc[d].from = r, Relaying(d)
        PROVE  d = c
    BY <2>1, <2>2, OneHand, TornGrows DEF Relaying
  <2>3. CASE proc[c].from # r
    <3>1. \A d \in Consumers : /\ (proc[d].from = r /\ Relaying(d)) <=> (proc'[d].from = r /\ Relaying(d)')
                               /\ proc[d].from = r /\ Relaying(d) => proc'[d] = proc[d]
      BY <2>1, <2>3, ToIs, IdleIs DEF Does, Relaying
    <3> QED BY <1>d, <2>1, <3>1, EndsKept
  <2>4. CASE proc[c].from = r
    <3>1. Midway(r, c)
      BY <1>d, <2>1, <2>4 DEF Ends, Relaying
    <3>2. CASE tool = "claude"
      <4>1. /\ \A d \in Consumers : proc'[d].from = r /\ Relaying(d)' => d = c
            /\ proc'[c].at = "unlink" /\ proc'[c].from = r /\ proc'[c].to = proc[c].to /\ Relaying(c)'
        BY <2>1, <2>2, <2>4, <3>2, ToIs DEF Does, Relaying
      <4>2. Midway(r, c)'
        BY <2>1, <3>1, <3>2, <4>1 DEF Midway
      <4> QED BY <1>d, <2>1, <4>1, <4>2 DEF Ends
    <3>3. CASE tool # "claude"
      <4>1. tool = "codex"
        BY <1>0, <3>3, TypedTool
      <4>2. ~Relays(chain, r) /\ heirs[r] = {}
        BY <2>1, <3>1, <4>1 DEF Midway
      <4>3. \A d \in Consumers : proc'[d].from = r => ~Relaying(d)'
        BY <2>1, <2>2, <2>4, <3>3, IdleIs DEF Does, Relaying
      <4>4. \A t \in Sessions : ~Leads(chain, r, t)
        BY <1>b, <4>2, Reads
      <4> QED BY <2>1, <4>2, <4>3, <4>4 DEF Ends
    <3> QED BY <3>2, <3>3
  <2> QED BY <2>3, <2>4
<1>13. ASSUME NEW c \in Consumers, Unlink(c)
      PROVE  Ends(r)'
  <2>1. PICK id \in ChainIds :
          /\ proc[c].at = "unlink" /\ tool = "claude" /\ id = proc[c].baton.chain
          /\ LastOf(chain, id, proc[c].from, proc[c].to)
          /\ TakesBack(chain, chain', id, proc[c].from, proc[c].to) /\ chain' \in Chains
          /\ \A jd \in ChainIds : \A i \in Nat : \A q \in Sessions :
               Entry(chain, jd, i, q, proc[c].to) => jd = id /\ i = Len(chain[id])
          /\ Does(c, IdleConsumer)
          /\ UNCHANGED <<tool, life, asked, pending, failures, heirs, depth, torn>>
    BY <1>0, <1>13, UnlinkDoes
  <2>2. /\ \A q, u : Leads(chain', q, u) <=> Leads(chain, q, u) /\ u # proc[c].to
        /\ \A u : Led(chain', u) <=> Led(chain, u) /\ u # proc[c].to
        /\ \A q : Relays(chain', q) => Relays(chain, q)
    BY <1>a, <1>b, <2>1, Removed
  <2>3. ASSUME proc[c].from = r, NEW d \in Consumers, proc[d].from = r, Relaying(d)
        PROVE  d = c
    BY <2>1, <2>3, OneHand, TornGrows DEF Relaying
  <2>4. CASE proc[c].from # r
    <3>1. \A d \in Consumers : /\ (proc[d].from = r /\ Relaying(d)) <=> (proc'[d].from = r /\ Relaying(d)')
                               /\ proc[d].from = r /\ Relaying(d) => proc'[d] = proc[d]
      BY <2>1, <2>4, IdleIs DEF Does, Relaying
    <3>2. ~Leads(chain, r, proc[c].to)
      BY <2>1, <2>4, EntryOne DEF Leads, LastOf
    <3>3. /\ \A u : Leads(chain', r, u) <=> Leads(chain, r, u)
          /\ Relays(chain', r) => Relays(chain, r)
      BY <2>2, <3>2
    <3> QED BY <1>d, <2>1, <3>1, <3>3, EndsKept
  <2>5. CASE proc[c].from = r
    <3>1. Midway(r, c)
      BY <1>d, <2>1, <2>5 DEF Ends, Relaying
    <3>2. heirs[r] = {} /\ \A u \in Sessions : ~Leads(chain', r, u)
      BY <2>1, <2>2, <3>1 DEF Midway
    <3>3. \A d \in Consumers : proc'[d].from = r => ~Relaying(d)'
      BY <2>1, <2>3, <2>5, IdleIs DEF Does, Relaying
    <3> QED BY <2>1, <3>2, <3>3 DEF Ends
  <2> QED BY <2>4, <2>5
<1>14. ASSUME NEW c \in Consumers, Killed(c)
      PROVE  Ends(r)'
  <2>1. proc[c].from = r => ~Relaying(c)
    BY <1>0, <1>14, KilledDoes DEF Relaying
  <2>2. UNCHANGED <<tool, chain, heirs>> /\ Does(c, IdleConsumer)
    BY <1>0, <1>14, KilledDoes
  <2>3. \A d \in Consumers : /\ (proc[d].from = r /\ Relaying(d)) <=> (proc'[d].from = r /\ Relaying(d)')
                             /\ proc[d].from = r /\ Relaying(d) => proc'[d].at = proc[d].at /\ proc'[d].to = proc[d].to
    BY <2>1, <2>2, IdleIs DEF Does, Relaying
  <2> QED BY <1>d, <2>2, <2>3, EndsKept
<1> QED BY <1>1, <1>2, <1>3, <1>4, <1>5, <1>6, <1>7, <1>8, <1>9, <1>10, <1>11, <1>12, <1>13, <1>14 DEF HNext

LEMMA EndsOKNext ==
  ASSUME HInv, [HNext]_hvars
  PROVE  EndsOK'
BY UntornNext, EndsNext DEF EndsOK
-----------------------------------------------------------------------------
(* A Claude relay is one path.                                                *)
LinkStep == \E c \in Consumers : Link(c)
UnlinkStep == \E c \in Consumers : Unlink(c)
SpawnStep == \E c \in Consumers : Spawn(c)
RegisterStep == \E s \in Sessions : Register(s)

LEMMA ToolKept == [HNext]_hvars => tool' = tool
BY DEF HNext, Register, WritePending, Expire, Prompt, TurnEnds, TurnDies, Take, Check, Link, Spawn,
       SuccessorFails, Unlink, Killed, hvars

LEMMA ChainKept ==
  ASSUME [HNext]_hvars, ~LinkStep, ~UnlinkStep
  PROVE  chain' = chain
BY DEF HNext, LinkStep, UnlinkStep, Register, WritePending, Expire, Prompt, TurnEnds, TurnDies, Take, Check, Spawn,
       SuccessorFails, Killed, hvars, files

LEMMA DepthKept ==
  ASSUME HInv, [HNext]_hvars, ~SpawnStep
  PROVE  UNCHANGED depth /\ \A r \in Sessions : life'[r] = "unborn" <=> life[r] = "unborn"
<1>0. HTypeOK
  BY DEF HInv
<1>1. CASE UNCHANGED hvars
  BY <1>1 DEF hvars, ghosts
<1>2. ASSUME NEW s \in Sessions, Register(s) \/ WritePending(s) \/ Expire(s)
      PROVE  UNCHANGED <<depth, life>>
  BY <1>2 DEF Register, WritePending, Expire, ghosts
<1>3. ASSUME NEW s \in Sessions, Prompt(s) \/ TurnEnds(s) \/ TurnDies(s)
      PROVE  UNCHANGED depth /\ \A r \in Sessions : life'[r] = "unborn" <=> life[r] = "unborn"
  BY <1>0, <1>3, PromptDoes, TurnEndsDoes, TurnDiesDoes
<1>4. ASSUME NEW c \in Consumers, Take(c) \/ Check(c) \/ Link(c) \/ SuccessorFails(c) \/ Unlink(c) \/ Killed(c)
      PROVE  UNCHANGED <<depth, life>>
  BY <1>4 DEF Take, Check, Link, SuccessorFails, Unlink, Killed, ghosts
<1> QED BY <1>1, <1>2, <1>3, <1>4 DEF HNext, SpawnStep

\* The baton of a Claude session whose consumer is past taking it is with the consumer.
LEMMA OnlyHand ==
  ASSUME HInv, tool = "claude", NEW c \in Consumers, NEW s \in Sessions, proc[c].from = s,
         proc[c].at \notin {"idle", "take"}
  PROVE  asked[s] = NoBaton /\ pending[s] = NoBaton /\ \A d \in Consumers : Carries(d, s) => d = c
<1>1. life[s] = "idle" /\ pending[s] = NoBaton
  BY DEF HInv, Waits, WaitsAt
<1>2. asked[s] = NoBaton
  BY <1>1 DEF HInv, Alive, AliveAt
<1>3. \A d \in Consumers : Carries(d, s) => d = c
  BY DEF HInv, Waits, WaitsAt, Carries
<1> QED BY <1>1, <1>2, <1>3

LEMMA LastIs ==
  ASSUME NEW ch \in Chains, NEW id \in ChainIds, NEW s, NEW t, LastOf(ch, id, s, t)
  PROVE  ch[id] # <<>> /\ Len(ch[id]) \in Nat /\ Len(ch[id]) >= 1 /\ s \in Sessions /\ t \in Sessions
BY EntryTypes, Entries DEF LastOf

(* What a Claude consumer that records a link finds: nothing at all when its   *)
(* baton starts a chain, otherwise the path that ends in its session.          *)
LEMMA LinkFinds ==
  ASSUME HInv, tool = "claude", NEW c \in Consumers, Link(c), NEW s, s = proc[c].from,
         NEW id \in ChainIds, proc[c].at = "link",
         IF proc[c].baton.chain = New THEN chain[id] = <<>> ELSE id = proc[c].baton.chain
  PROVE  /\ Len(chain[id]) \in Nat /\ Len(chain[id]) + 1 < MAX_CHAIN_HOPS
         /\ \A jd \in ChainIds : jd # id => chain[jd] = <<>>
         /\ \/ s = First /\ chain[id] = <<>>
            \/ \E r \in Sessions : LastOf(chain, id, r, s)
<1>0. /\ HTypeOK /\ Shape /\ Paths /\ Tails /\ chain \in Chains /\ s \in Sessions
      /\ MAX_CHAIN_HOPS \in Nat /\ MAX_CHAIN_HOPS > 1
  BY Typed, HandoffAssumption DEF HInv, ClaudeOK, HTypeOK, Chains
<1>1. Len(chain[id]) \in Nat /\ (chain[id] = <<>> <=> Len(chain[id]) = 0)
  BY <1>0, Entries
<1>2. proc[c].baton \in Batons
  BY <1>0, Typed DEF Shape, Shaped
<1>3. Carries(c, s)
  BY DEF Carries
<1>4. CASE proc[c].baton.chain = New
  <2>1. Names(s, New)
    BY <1>3, <1>4 DEF Names
  <2>2. s = First /\ \A jd \in ChainIds : chain[jd] = <<>>
    BY <1>0, <2>1 DEF Tails
  <2> QED BY <1>0, <1>1, <1>4, <2>2
<1>5. CASE proc[c].baton.chain # New
  <2>1. Names(s, id)
    BY <1>3, <1>5 DEF Names
  <2>2. Len(chain[id]) + 1 < MAX_CHAIN_HOPS /\ \E r \in Sessions : LastOf(chain, id, r, s)
    BY <1>0, <2>1 DEF Tails
  <2>3. chain[id] # <<>>
    BY <1>0, <2>2, LastIs
  <2>4. \A jd \in ChainIds : jd # id => chain[jd] = <<>>
    BY <1>0, <2>3 DEF Paths
  <2> QED BY <1>1, <2>2, <2>4
<1> QED BY <1>4, <1>5

LEMMA PathsNext ==
  ASSUME HInv, [HNext]_hvars, tool = "claude"
  PROVE  Paths'
<1>0. HTypeOK /\ Shape /\ Distinct /\ ClaudeOK /\ Paths /\ Tails /\ chain \in Chains
  BY DEF HInv, ClaudeOK, HTypeOK, Chains
<1>1. CASE ~LinkStep /\ ~UnlinkStep
  BY <1>0, <1>1, ChainKept DEF Paths
<1>2. ASSUME NEW c \in Consumers, Link(c)
      PROVE  Paths'
  <2> DEFINE s == proc[c].from
             t == proc[c].to
  <2>1. PICK id \in ChainIds :
          /\ proc[c].at = "link" /\ s \in Sessions /\ t \in Sessions
          /\ IF proc[c].baton.chain = New THEN chain[id] = <<>> ELSE id = proc[c].baton.chain
          /\ Appends(chain, chain', id, s, t) /\ chain' \in Chains
    BY <1>0, <1>2, LinkDoes
  <2> DEFINE n == Len(chain[id])
  <2>2. /\ n \in Nat /\ n + 1 < MAX_CHAIN_HOPS
        /\ \A jd \in ChainIds : jd # id => chain[jd] = <<>>
        /\ (s = First /\ chain[id] = <<>>) \/ \E r \in Sessions : LastOf(chain, id, r, s)
    BY <1>2, <2>1, LinkFinds
  <2>3. /\ Len(chain'[id]) = n + 1
        /\ \A jd \in ChainIds : jd # id => chain'[jd] = chain[jd]
        /\ \A jd \in ChainIds : \A i, r, u :
             Entry(chain', jd, i, r, u) <=> Entry(chain, jd, i, r, u) \/ (jd = id /\ i = n + 1 /\ r = s /\ u = t)
    BY <1>0, <2>1, EntryAppended
  <2>4. \A jd \in ChainIds : \A i, r, u : Entry(chain, jd, i, r, u) => i \in Nat /\ 1 <= i /\ i <= Len(chain[jd])
    BY <1>0, EntryTypes
  <2>5. \A jd \in ChainIds : Len(chain'[jd]) < MAX_CHAIN_HOPS
    BY <1>0, <2>2, <2>3 DEF Paths
  <2>6. ASSUME NEW jd \in ChainIds, NEW r \in Sessions, NEW u \in Sessions, Entry(chain', jd, 1, r, u)
        PROVE  r = First
    <3>1. CASE Entry(chain, jd, 1, r, u)
      BY <1>0, <3>1 DEF Paths
    <3>2. CASE jd = id /\ 1 = n + 1 /\ r = s
      <4>1. \A q \in Sessions : ~LastOf(chain, id, q, s)
        BY <2>2, <2>4, <3>2 DEF LastOf
      <4> QED BY <2>2, <3>2, <4>1
    <3> QED BY <2>3, <2>6, <3>1, <3>2
  <2>7. ASSUME NEW jd \in ChainIds, NEW i \in Nat, NEW r \in Sessions, NEW q \in Sessions,
               NEW v \in Sessions, NEW u \in Sessions,
               Entry(chain', jd, i, r, q), Entry(chain', jd, i + 1, v, u)
        PROVE  q = v
    <3>1. CASE Entry(chain, jd, i, r, q) /\ Entry(chain, jd, i + 1, v, u)
      BY <1>0, <3>1 DEF Paths
    <3>2. CASE jd = id /\ i = n + 1
      <4>1. i + 1 # n + 1 /\ ~Entry(chain, jd, i + 1, v, u)
        BY <2>2, <2>4, <3>2
      <4> QED BY <2>3, <2>7, <4>1
    <3>3. CASE jd = id /\ i + 1 = n + 1 /\ v = s /\ Entry(chain, jd, i, r, q)
      <4>1. i = n /\ n # 0
        BY <2>2, <2>4, <3>3
      <4>2. chain[id] # <<>>
        BY <1>0, <4>1, Entries
      <4>3. PICK p \in Sessions : LastOf(chain, id, p, s)
        BY <2>2, <4>2
      <4> QED BY <3>3, <4>1, <4>3, EntryOne DEF LastOf
    <3> QED BY <2>3, <2>7, <3>1, <3>2, <3>3
  <2>8. \A jd, kd \in ChainIds : chain'[jd] # <<>> /\ chain'[kd] # <<>> => jd = kd
    BY <2>2, <2>3
  <2> QED BY <2>5, <2>6, <2>7, <2>8 DEF Paths
<1>3. ASSUME NEW c \in Consumers, Unlink(c)
      PROVE  Paths'
  <2>1. PICK id \in ChainIds :
          /\ LastOf(chain, id, proc[c].from, proc[c].to) /\ proc[c].from \in Sessions /\ proc[c].to \in Sessions
          /\ TakesBack(chain, chain', id, proc[c].from, proc[c].to)
          /\ \A jd \in ChainIds : \A i \in Nat : \A r \in Sessions :
               Entry(chain, jd, i, r, proc[c].to) => jd = id /\ i = Len(chain[id])
    BY <1>0, <1>3, UnlinkDoes
  <2>2. /\ Len(chain'[id]) = Len(chain[id]) - 1
        /\ \A jd \in ChainIds : jd # id => chain'[jd] = chain[jd]
        /\ \A jd \in ChainIds : \A i, r, u : Entry(chain', jd, i, r, u) => Entry(chain, jd, i, r, u)
    BY <1>0, <2>1, Removed
  <2>3. Len(chain[id]) \in Nat /\ chain[id] # <<>>
    BY <1>0, <2>1, LastIs
  <2>4. MAX_CHAIN_HOPS \in Nat
    BY HandoffAssumption
  <2>5. \A jd \in ChainIds : Len(chain'[jd]) < MAX_CHAIN_HOPS
    BY <1>0, <2>2, <2>3, <2>4 DEF Paths
  <2>6. \A jd, kd \in ChainIds : chain'[jd] # <<>> /\ chain'[kd] # <<>> => jd = kd
    BY <1>0, <2>2, <2>3 DEF Paths
  <2>7. \A jd \in ChainIds : \A r, u \in Sessions : Entry(chain', jd, 1, r, u) => r = First
    BY <1>0, <2>2 DEF Paths
  <2>8. \A jd \in ChainIds : \A i \in Nat : \A r, q, v, u \in Sessions :
          Entry(chain', jd, i, r, q) /\ Entry(chain', jd, i + 1, v, u) => q = v
    BY <1>0, <2>2 DEF Paths
  <2> QED BY <2>5, <2>6, <2>7, <2>8 DEF Paths
<1> QED BY <1>1, <1>2, <1>3 DEF LinkStep, UnlinkStep

LEMMA DepthsNext ==
  ASSUME HInv, [HNext]_hvars, tool = "claude"
  PROVE  Depths'
<1>0. HTypeOK /\ Shape /\ Alive /\ Distinct /\ ClaudeOK /\ Paths /\ Depths /\ Tails /\ chain \in Chains /\ First \in Sessions
  BY HandoffAssumption DEF HInv, ClaudeOK, HTypeOK, Chains
<1>a. \A d \in Consumers : Shaped(d) /\ proc[d].to \in Sessions /\ proc[d].from \in Sessions
  BY <1>0, Typed DEF Shape
<1>1. CASE ~LinkStep /\ ~UnlinkStep /\ ~SpawnStep
  BY <1>0, <1>1, ChainKept, DepthKept DEF Depths
<1>2. ASSUME NEW c \in Consumers, Link(c)
      PROVE  Depths'
  <2>1. PICK id \in ChainIds :
          /\ proc[c].at = "link" /\ UNCHANGED <<life, depth>>
          /\ Appends(chain, chain', id, proc[c].from, proc[c].to)
    BY <1>0, <1>2, LinkDoes
  <2>2. /\ \A jd \in ChainIds : \A i, r, u :
             Entry(chain', jd, i, r, u) => Entry(chain, jd, i, r, u) \/ u = proc[c].to
        /\ \A u : Led(chain, u) => Led(chain', u)
    BY <1>0, <1>a, <2>1, EntryAppended, Appended
  <2>3. life[proc[c].to] = "unborn"
    BY <1>a, <2>1 DEF Shaped
  <2> QED BY <1>0, <2>1, <2>2, <2>3 DEF Depths
<1>3. ASSUME NEW c \in Consumers, Unlink(c)
      PROVE  Depths'
  <2>1. PICK id \in ChainIds :
          /\ LastOf(chain, id, proc[c].from, proc[c].to)
          /\ TakesBack(chain, chain', id, proc[c].from, proc[c].to)
          /\ \A jd \in ChainIds : \A i \in Nat : \A r \in Sessions :
               Entry(chain, jd, i, r, proc[c].to) => jd = id /\ i = Len(chain[id])
          /\ proc[c].at = "unlink" /\ UNCHANGED <<life, depth>>
    BY <1>0, <1>3, UnlinkDoes
  <2>2. /\ \A jd \in ChainIds : \A i, r, u : Entry(chain', jd, i, r, u) => Entry(chain, jd, i, r, u)
        /\ \A u : Led(chain, u) /\ u # proc[c].to => Led(chain', u)
    BY <1>0, <1>a, <2>1, Removed
  <2>3. life[proc[c].to] = "unborn"
    BY <1>a, <2>1 DEF Shaped
  <2> QED BY <1>0, <2>1, <2>2, <2>3 DEF Depths
<1>4. ASSUME NEW c \in Consumers, Spawn(c)
      PROVE  Depths'
  <2> DEFINE s == proc[c].from
             t == proc[c].to
             id == proc[c].baton.chain
             n == Len(chain[id])
  <2>1. proc[c].at = "spawn" /\ Starts1(s, t) /\ UNCHANGED chain
    BY <1>0, <1>4, SpawnDoes
  <2>2. id \in ChainIds /\ LastOf(chain, id, s, t)
    BY <1>0, <2>1 DEF Tails
  <2>3. n \in Nat /\ n >= 1 /\ Entry(chain, id, n, s, t)
    BY <1>0, <2>2, LastIs DEF LastOf
  <2>4. life[t] = "unborn" /\ t # First /\ life[s] # "unborn" /\ s # t
    BY <1>a, <2>1 DEF Shaped
  <2>5. depth[s] = n
    <3>1. CASE n = 1
      BY <1>0, <1>a, <2>2, <2>3, <3>1 DEF Paths, Depths
    <3>2. CASE n # 1
      <4>0. \A m \in Nat : m >= 1 /\ m # 1 => m - 1 \in 1..m /\ m - 1 \in Nat /\ (m - 1) + 1 = m
        OBVIOUS
      <4>1. n - 1 \in 1..n /\ n - 1 \in Nat /\ (n - 1) + 1 = n
        BY <2>3, <3>2, <4>0
      <4>2. PICK q \in Sessions, u \in Sessions : Entry(chain, id, n - 1, q, u)
        BY <1>0, <2>2, <4>1, EntryAt
      <4>3. u = s
        BY <1>0, <1>a, <2>2, <2>3, <4>1, <4>2 DEF Paths
      <4>4. depth[s] = (n - 1) + 1
        BY <1>0, <2>2, <2>4, <4>1, <4>2, <4>3 DEF Depths
      <4> QED BY <4>1, <4>4
    <3> QED BY <3>1, <3>2
  <2>6. depth'[t] = n + 1 /\ \A r \in Sessions : r # t => depth'[r] = depth[r] /\ life'[r] = life[r]
    BY <1>a, <2>1, <2>5 DEF Starts1
  <2>7. Led(chain, t)
    BY <1>a, <2>2, <2>3 DEF Led, LedOn
  <2>8. \A jd \in ChainIds : \A i \in Nat : \A r \in Sessions : Entry(chain, jd, i, r, t) => i = n
    BY <1>0, <1>a, <2>2, <2>3 DEF Distinct
  <2>9. life'[t] = "running"
    BY <2>1 DEF Starts1
  <2>10. depth'[First] = 1
    BY <1>0, <2>4, <2>6 DEF Depths
  <2>11. \A r \in Sessions : IF life'[r] = "unborn" THEN depth'[r] = 0 ELSE r = First \/ Led(chain', r)
    BY <1>0, <2>1, <2>6, <2>7, <2>9 DEF Depths
  <2>12. \A jd \in ChainIds : \A i \in Nat : \A r, u \in Sessions :
           Entry(chain', jd, i, r, u) /\ life'[u] # "unborn" => depth'[u] = i + 1
    BY <1>0, <2>1, <2>6, <2>8 DEF Depths
  <2> QED BY <2>10, <2>11, <2>12 DEF Depths
<1> QED BY <1>1, <1>2, <1>3, <1>4 DEF LinkStep, UnlinkStep, SpawnStep

\* A consumer in the middle of a relay stays there with what it has, or is done.
LEMMA MidKept ==
  ASSUME HInv, [HNext]_hvars, tool = "claude", ~LinkStep, NEW d \in Consumers, proc'[d].at \in {"spawn", "unlink"}
  PROVE  /\ proc[d].at \in {"spawn", "unlink"}
         /\ proc'[d].from = proc[d].from /\ proc'[d].to = proc[d].to /\ proc'[d].baton = proc[d].baton
<1>0. HTypeOK /\ Shape /\ Distinct /\ ClaudeOK
  BY DEF HInv
<1>1. CASE UNCHANGED hvars
  BY <1>1 DEF hvars
<1>2. ASSUME NEW s \in Sessions, Register(s) \/ WritePending(s) \/ Expire(s) \/ Prompt(s) \/ TurnDies(s)
      PROVE  UNCHANGED proc
  BY <1>2 DEF Register, WritePending, Expire, Prompt, TurnDies
<1>3. ASSUME NEW s \in Sessions, TurnEnds(s)
      PROVE  proc'[d] = proc[d]
  BY <1>0, <1>3, TurnEndsDoes, HearsIs
<1>4. ASSUME NEW c \in Consumers, Take(c)
      PROVE  proc'[d] = proc[d]
  BY <1>0, <1>4, TakeDoes, ToIs, IdleIs DEF Does
<1>5. ASSUME NEW c \in Consumers, Check(c)
      PROVE  proc'[d] = proc[d]
  BY <1>0, <1>5, CheckDoes, ToIs, IdleIs DEF Does
<1>6. ASSUME NEW c \in Consumers, Spawn(c)
      PROVE  proc'[d] = proc[d]
  BY <1>0, <1>6, SpawnDoes, IdleIs DEF Does
<1>7. ASSUME NEW c \in Consumers, SuccessorFails(c)
      PROVE  /\ proc[d].at \in {"spawn", "unlink"}
             /\ proc'[d].from = proc[d].from /\ proc'[d].to = proc[d].to /\ proc'[d].baton = proc[d].baton
  BY <1>0, <1>7, SuccessorFailsDoes, ToIs DEF Does
<1>8. ASSUME NEW c \in Consumers, Unlink(c)
      PROVE  proc'[d] = proc[d]
  BY <1>0, <1>8, UnlinkDoes, IdleIs DEF Does
<1>9. ASSUME NEW c \in Consumers, Killed(c)
      PROVE  proc'[d] = proc[d]
  BY <1>0, <1>9, KilledDoes, IdleIs DEF Does
<1> QED BY <1>1, <1>2, <1>3, <1>4, <1>5, <1>6, <1>7, <1>8, <1>9 DEF HNext, LinkStep

LEMMA TailsNext ==
  ASSUME HInv, [HNext]_hvars, tool = "claude"
  PROVE  Tails'
<1>0. HTypeOK /\ Shape /\ Alive /\ Distinct /\ ClaudeOK /\ Paths /\ Depths /\ Tails /\ chain \in Chains /\ First \in Sessions
  BY HandoffAssumption DEF HInv, ClaudeOK, HTypeOK, Chains
<1>a. \A d \in Consumers : Shaped(d) /\ DistinctAt(d) /\ proc[d].to \in Sessions /\ proc[d].from \in Sessions
  BY <1>0, Typed DEF Shape, Distinct
<1>1. CASE ~RegisterStep /\ ~LinkStep /\ ~UnlinkStep
  <2>1. UNCHANGED chain
    BY <1>1, ChainKept
  <2>2. \A r \in Sessions, k \in ChainIds \cup {New} : Names(r, k)' => Names(r, k)
    BY <1>1, NamesShrink DEF RegisterStep
  <2>3. ASSUME NEW d \in Consumers, proc'[d].at \in {"spawn", "unlink"}
        PROVE  /\ proc'[d].baton.chain \in ChainIds
               /\ LastOf(chain, proc'[d].baton.chain, proc'[d].from, proc'[d].to)
    BY <1>0, <1>1, <2>3, MidKept DEF Tails
  <2> QED BY <1>0, <2>1, <2>2, <2>3 DEF Tails
<1>2. ASSUME NEW s \in Sessions, Register(s)
      PROVE  Tails'
  <2>1. PICK k \in ChainIds \cup {New} :
          /\ life[s] = "running"
          /\ IF k = New THEN Containing(s) = {}
             ELSE k \in Containing(s) /\ ~RelayedOn(k, s) /\ HopOf(chain[k], s) < MAX_CHAIN_HOPS
          /\ asked'[s] = [chain |-> k, old |-> FALSE]
          /\ \A q \in Sessions : q # s => asked'[q] = asked[q]
          /\ UNCHANGED <<tool, pending, chain, proc>>
    BY <1>0, <1>2, RegisterDoes
  <2>2. asked'[s].chain = k
    BY <2>1
  <2>3. \A r \in Sessions, j \in ChainIds \cup {New} : Names(r, j)' => Names(r, j) \/ (r = s /\ j = k)
    BY <2>1, <2>2 DEF Names, Carries
  <2>4. k = New => s = First /\ \A id \in ChainIds : chain[id] = <<>>
    <3>1. SUFFICES ASSUME k = New
                   PROVE  s = First /\ \A id \in ChainIds : chain[id] = <<>>
      OBVIOUS
    <3>2. \A id \in ChainIds : ~LedOn(chain, id, s) /\ ~RelaysOn(chain, id, s)
      BY <1>0, <2>1, <3>1, Readings DEF Containing
    <3>3. s = First
      BY <1>0, <2>1, <3>2 DEF Depths, Led
    <3>4. ASSUME NEW id \in ChainIds, chain[id] # <<>>
          PROVE  FALSE
      <4>1. 1 \in 1..Len(chain[id])
        BY <1>0, <3>4, Entries
      <4>2. PICK q \in Sessions, u \in Sessions : Entry(chain, id, 1, q, u)
        BY <1>0, <4>1, EntryAt
      <4>3. q = s
        BY <1>0, <3>3, <4>2 DEF Paths
      <4>4. 1 \in Nat
        OBVIOUS
      <4> QED BY <3>2, <4>2, <4>3, <4>4 DEF RelaysOn
    <3> QED BY <3>3, <3>4
  <2>5. k # New => Len(chain[k]) + 1 < MAX_CHAIN_HOPS /\ \E r \in Sessions : LastOf(chain, k, r, s)
    <3>1. SUFFICES ASSUME k # New
                   PROVE  Len(chain[k]) + 1 < MAX_CHAIN_HOPS /\ \E r \in Sessions : LastOf(chain, k, r, s)
      OBVIOUS
    <3>2. LedOn(chain, k, s) /\ ~RelaysOn(chain, k, s)
      BY <1>0, <2>1, <3>1, Readings DEF Containing
    <3> QED BY <1>0, <2>1, <3>1, <3>2, TailHop
  <2> QED BY <1>0, <2>1, <2>3, <2>4, <2>5, NoBatonIs DEF Tails
<1>3. ASSUME NEW c \in Consumers, Link(c), ~RegisterStep
      PROVE  Tails'
  <2> DEFINE s == proc[c].from
             t == proc[c].to
  <2>1. PICK id \in ChainIds :
          /\ proc[c].at = "link" /\ s \in Sessions /\ t \in Sessions
          /\ IF proc[c].baton.chain = New THEN chain[id] = <<>> ELSE id = proc[c].baton.chain
          /\ Appends(chain, chain', id, s, t) /\ chain' \in Chains
          /\ IF tool = "codex" THEN Does(c, IdleConsumer)
             ELSE Does(c, To(c, "spawn", t, [chain |-> id, old |-> proc[c].baton.old]))
          /\ UNCHANGED <<asked, pending>>
    BY <1>0, <1>3, LinkDoes
  <2>2. /\ \A jd \in ChainIds : jd # id => chain[jd] = <<>>
        /\ (s = First /\ chain[id] = <<>>) \/ \E r \in Sessions : LastOf(chain, id, r, s)
    BY <1>3, <2>1, LinkFinds
  <2>3. /\ Len(chain'[id]) = Len(chain[id]) + 1
        /\ Entry(chain', id, Len(chain[id]) + 1, s, t)
    BY <1>0, <2>1, EntryAppended
  <2>4. /\ \A d \in Consumers : d # c => proc'[d] = proc[d]
        /\ proc'[c].at = "spawn" /\ proc'[c].from = s /\ proc'[c].to = t /\ proc'[c].baton.chain = id
    BY <2>1, ToIs DEF Does
  <2>5. life[s] # "unborn"
    BY <1>a, <2>1 DEF Shaped
  <2>6. ASSUME NEW d \in Consumers, d # c, proc[d].at \in {"spawn", "unlink"}
        PROVE  FALSE
    <3>1. proc[d].baton.chain \in ChainIds /\ LastOf(chain, proc[d].baton.chain, proc[d].from, proc[d].to)
      BY <1>0, <2>6 DEF Tails
    <3>2. chain[proc[d].baton.chain] # <<>>
      BY <1>0, <3>1, LastIs
    <3>3. PICK r \in Sessions : LastOf(chain, id, r, s) /\ id = proc[d].baton.chain
      BY <2>2, <3>1, <3>2
    <3>4. proc[d].to = s
      BY <3>1, <3>3, EntryOne DEF LastOf
    <3> QED BY <1>a, <2>5, <2>6, <3>4 DEF Shaped
  <2>7. ASSUME NEW r \in Sessions, NEW k \in ChainIds \cup {New}, Names(r, k)'
        PROVE  FALSE
    <3>1. Names(r, k)
      BY <1>3, <2>7, NamesShrink DEF RegisterStep
    <3>2. r # s
      <4>1. SUFFICES ASSUME proc[c].from = r
                     PROVE  FALSE
        OBVIOUS
      <4>2. asked[r] = NoBaton /\ pending[r] = NoBaton /\ \A d \in Consumers : Carries(d, r) => d = c
        BY <2>1, <4>1, OnlyHand
      <4>3. \A d \in Consumers : ~Carries(d, r)'
        BY <2>4, <4>2, ToolKept DEF Carries
      <4>4. asked'[r].chain # k /\ pending'[r].chain # k
        BY <2>1, <4>2, NoBatonIs
      <4> QED BY <2>7, <4>3, <4>4 DEF Names
    <3>3. CASE k = New
      <4>1. r = First /\ \A jd \in ChainIds : chain[jd] = <<>>
        BY <1>0, <3>1, <3>3 DEF Tails
      <4>2. \A q \in Sessions : ~LastOf(chain, id, q, s)
        BY <1>0, <4>1, LastIs
      <4> QED BY <2>2, <3>2, <4>1, <4>2
    <3>4. CASE k # New
      <4>1. PICK q \in Sessions : LastOf(chain, k, q, r)
        BY <1>0, <3>1, <3>4 DEF Tails
      <4>2. chain[k] # <<>>
        BY <1>0, <3>4, <4>1, LastIs
      <4>3. PICK p \in Sessions : LastOf(chain, id, p, s) /\ id = k
        BY <2>2, <3>4, <4>2
      <4> QED BY <3>2, <4>1, <4>3, EntryOne DEF LastOf
    <3> QED BY <3>3, <3>4
  <2>8. LastOf(chain', id, s, t)
    BY <2>3 DEF LastOf
  <2> QED BY <2>4, <2>6, <2>7, <2>8 DEF Tails
<1>4. ASSUME NEW c \in Consumers, Unlink(c), ~RegisterStep
      PROVE  Tails'
  <2> DEFINE s == proc[c].from
             t == proc[c].to
             id == proc[c].baton.chain
  <2>1. /\ proc[c].at = "unlink" /\ id \in ChainIds /\ LastOf(chain, id, s, t) /\ Does(c, IdleConsumer)
    BY <1>0, <1>4, UnlinkDoes
  <2>2. chain[id] # <<>>
    BY <1>0, <2>1, LastIs
  <2>3. \A jd \in ChainIds : chain[jd] # <<>> => jd = id
    BY <1>0, <2>1, <2>2 DEF Paths
  <2>4. life[t] = "unborn" /\ t # First /\ \A d \in Consumers : proc[d].to = t => d = c
    BY <1>a, <2>1 DEF Shaped, DistinctAt
  <2>5. ASSUME NEW r \in Sessions, NEW k \in ChainIds \cup {New}
        PROVE  ~Names(r, k)'
    <3>1. Names(r, k)' => Names(r, k)
      BY <1>4, NamesShrink DEF RegisterStep
    <3>2. CASE k = New
      BY <1>0, <2>1, <2>2, <3>1, <3>2 DEF Tails
    <3>3. CASE k # New
      <4>1. SUFFICES ASSUME Names(r, k)
                     PROVE  FALSE
        BY <3>1
      <4>2. PICK q \in Sessions : LastOf(chain, k, q, r)
        BY <1>0, <3>3, <4>1 DEF Tails
      <4>3. k = id
        BY <1>0, <2>3, <3>3, <4>2, LastIs
      <4>4. r = t
        BY <2>1, <4>2, <4>3, EntryOne DEF LastOf
      <4> QED BY <2>4, <4>1, <4>4, UnbornNames
    <3> QED BY <3>2, <3>3
  <2>6. ASSUME NEW d \in Consumers, proc'[d].at \in {"spawn", "unlink"}
        PROVE  FALSE
    <3>1. d # c /\ proc'[d] = proc[d]
      BY <2>1, <2>6, IdleIs DEF Does
    <3>2. proc[d].baton.chain \in ChainIds /\ LastOf(chain, proc[d].baton.chain, proc[d].from, proc[d].to)
      BY <1>0, <2>6, <3>1 DEF Tails
    <3>3. proc[d].baton.chain = id
      BY <1>0, <2>3, <3>2, LastIs
    <3>4. proc[d].to = t
      BY <2>1, <3>2, <3>3, EntryOne DEF LastOf
    <3> QED BY <2>4, <3>1, <3>4
  <2> QED BY <2>5, <2>6 DEF Tails
<1> QED BY <1>1, <1>2, <1>3, <1>4 DEF RegisterStep, LinkStep, UnlinkStep
-----------------------------------------------------------------------------
(* At the start nothing has been registered, relayed or recorded.             *)
LEMMA HInvInit == HInit => HInv
<1> SUFFICES ASSUME HInit
             PROVE  HInv
  OBVIOUS
<1>0. /\ First \in Sessions /\ MAX_CHAIN_HOPS \in Nat /\ MAX_CHAIN_HOPS > 1 /\ MAX_FAILURES \in Nat
      /\ NoBaton \in Batons \cup {NoBaton} /\ NoBaton.chain \notin ChainIds \cup {New}
  BY HandoffAssumption, NoBatonIs
<1>1. /\ tool \in {"claude", "codex"} /\ failures = 0 /\ torn = {}
      /\ life = [s \in Sessions |-> IF s = First THEN "running" ELSE "unborn"]
      /\ depth = [s \in Sessions |-> IF s = First THEN 1 ELSE 0]
      /\ proc = [c \in Consumers |-> IdleConsumer] /\ chain = [id \in ChainIds |-> <<>>]
      /\ \A s \in Sessions : asked[s] = NoBaton /\ pending[s] = NoBaton /\ heirs[s] = {}
      /\ \A id \in ChainIds : chain[id] = <<>>
      /\ \A c \in Consumers : proc[c] = IdleConsumer
      /\ asked = [s \in Sessions |-> NoBaton] /\ pending = [s \in Sessions |-> NoBaton]
      /\ heirs = [s \in Sessions |-> {}]
  BY DEF HInit
<1>2. chain \in Chains
  BY <1>1 DEF Chains
<1>3. HTypeOK
  <2>1. IdleConsumer \in Consumer
    BY <1>0 DEF IdleConsumer, Consumer, Steps
  <2>2. proc \in [Consumers -> Consumer]
    BY <1>1, <2>1
  <2>3. life \in [Sessions -> {"unborn", "running", "idle"}] /\ depth \in [Sessions -> Nat]
    BY <1>1
  <2> QED BY <1>0, <1>1, <1>2, <2>2, <2>3, TypedAs DEF HTypeOK, Chains
<1>4. \A id \in ChainIds : Len(chain[id]) = 0 /\ \A i, s, t : ~Entry(chain, id, i, s, t)
  BY <1>1 DEF Entry
<1>5. /\ \A s, t : ~Leads(chain, s, t)
      /\ \A id \in ChainIds : \A t : ~LedOn(chain, id, t) /\ ~RelaysOn(chain, id, t)
  BY <1>4 DEF Leads, LedOn, RelaysOn
<1>6. /\ \A t : ~Led(chain, t) /\ ~Relays(chain, t)
  BY <1>5 DEF Led, Relays
<1>7. Shape
  BY <1>1, <1>0, IdleIs DEF Shape, Shaped
<1>8. Alive
  BY <1>0, <1>1, <1>6 DEF Alive, AliveAt
<1>9. Waits
  BY <1>1, IdleIs DEF Waits, WaitsAt
<1>10. Distinct
  BY <1>1, <1>4, <1>6, IdleIs DEF Distinct, DistinctAt
<1>11. \A s \in Sessions, k \in ChainIds \cup {New} : ~Names(s, k)
  BY <1>0, <1>1, IdleIs DEF Names, Carries
<1>12. EndsOK
  <2>1. ASSUME NEW s \in Sessions
        PROVE  Untorn(s)
    BY <1>1, <1>5, <1>11, IdleIs DEF Untorn, InHandBy, OnIt, Unlinked
  <2>2. ASSUME NEW s \in Sessions
        PROVE  Ends(s)
    BY <1>1, <1>5, IdleIs DEF Ends, Relaying
  <2> QED BY <2>1, <2>2 DEF EndsOK
<1>13. ClaudeOK
  <2>1. Paths
    BY <1>0, <1>1, <1>4 DEF Paths
  <2>2. Depths
    BY <1>0, <1>1, <1>4 DEF Depths
  <2>3. Tails
    BY <1>1, <1>11, IdleIs DEF Tails
  <2> QED BY <2>1, <2>2, <2>3 DEF ClaudeOK
<1> QED BY <1>3, <1>7, <1>8, <1>9, <1>10, <1>12, <1>13 DEF HInv

LEMMA HInvNext == HInv /\ [HNext]_hvars => HInv'
<1> SUFFICES ASSUME HInv, [HNext]_hvars
             PROVE  HInv'
  OBVIOUS
<1>1. HTypeOK' /\ Shape' /\ Alive' /\ Waits' /\ Distinct' /\ EndsOK'
  BY HTypeOKNext, ShapeNext, AliveNext, WaitsNext, DistinctNext, EndsOKNext
<1>2. ClaudeOK'
  BY ToolKept, PathsNext, DepthsNext, TailsNext DEF ClaudeOK
<1> QED BY <1>1, <1>2 DEF HInv

LEMMA HInvariant == HSpec => []HInv
BY HInvInit, HInvNext, PTL DEF HSpec

(* The relay keeps its types (handoff.rs: the pending record, the chain files  *)
(* and the consumers of a turn's end).                                         *)
THEOREM HandoffTypes == HSpec => []HTypeOK
<1>1. HInv => HTypeOK
  BY DEF HInv
<1> QED BY <1>1, HInvariant, PTL

(* A baton is handed on once: take_pending_in claims by a rename, register_in  *)
(* and the backstop in consume_and_spawn_in refuse a second relay, and so a     *)
(* session has one successor unless it was disturbed in the middle of a relay.  *)
THEOREM HandsOnOnce == HSpec => []OneHeir
<1>1. HInv => OneHeir
  <2> SUFFICES ASSUME HInv, NEW s \in Sessions, s \notin torn
               PROVE  Cardinality(heirs[s]) <= 1
    BY DEF OneHeir
  <2>1. \A t, u \in heirs[s] : t = u
    BY DEF HInv, EndsOK, Ends
  <2>2. CASE heirs[s] = {}
    BY <2>2, FS_EmptySet
  <2>3. CASE heirs[s] # {}
    <3>1. PICK t : heirs[s] = {t}
      BY <2>1, <2>3
    <3>2. Cardinality({t}) = 1
      BY FS_Singleton
    <3> QED BY <3>1, <3>2
  <2> QED BY <2>2, <2>3
<1> QED BY <1>1, HInvariant, PTL

(* record_link_in and unlink_in: outside a relay the links of a session are    *)
(* the successors that were started for it, no more and no less.                *)
THEOREM LinksAreHeirs == HSpec => []ChainsAreTrue
<1>1. HInv => ChainsAreTrue
  <2> SUFFICES ASSUME HInv, NEW s \in Sessions, NEW t \in Sessions, s \notin torn, ~Busy(s)
               PROVE  Linked(s, t) <=> t \in heirs[s]
    BY DEF ChainsAreTrue
  <2>1. \A c \in Consumers : proc[c].from = s => ~Relaying(c)
    BY DEF Busy, Relaying
  <2>2. Leads(chain, s, t) <=> t \in heirs[s]
    BY <2>1 DEF HInv, EndsOK, Ends
  <2> QED BY <2>2, LinkedReads DEF HInv
<1> QED BY <1>1, HInvariant, PTL

(* MAX_CHAIN_HOPS in register_in: whatever fails or dies, and also for a        *)
(* session that was disturbed, a Claude relay ends at the cap.                  *)
THEOREM RelayEnds == HSpec => []RelayCapped
<1>1. HInv => RelayCapped
  <2> SUFFICES ASSUME HInv, tool = "claude", NEW s \in Sessions
               PROVE  depth[s] <= MAX_CHAIN_HOPS
    BY DEF RelayCapped
  <2>1. Paths /\ Depths /\ chain \in Chains /\ MAX_CHAIN_HOPS \in Nat /\ MAX_CHAIN_HOPS > 1
    BY HandoffAssumption DEF HInv, ClaudeOK, HTypeOK, Chains
  <2>2. CASE life[s] = "unborn" \/ s = First
    BY <2>1, <2>2 DEF Depths
  <2>3. CASE life[s] # "unborn" /\ s # First
    <3>1. PICK id \in ChainIds, i \in Nat, r \in Sessions : Entry(chain, id, i, r, s)
      BY <2>1, <2>3 DEF Depths, Led, LedOn
    <3>2. depth[s] = i + 1
      BY <2>1, <2>3, <3>1 DEF Depths
    <3>3. i <= Len(chain[id]) /\ Len(chain[id]) \in Nat
      BY <2>1, <3>1, EntryTypes, Entries
    <3>4. Len(chain[id]) < MAX_CHAIN_HOPS
      BY <2>1 DEF Paths
    <3> QED BY <2>1, <3>2, <3>3, <3>4
  <2> QED BY <2>2, <2>3
<1> QED BY <1>1, HInvariant, PTL
=============================================================================
