---------------------------- MODULE Watch_proofs ----------------------------
(***************************************************************************)
(* Proofs about Watch, for any number of timers, sweeps and handoffs and   *)
(* any durations: its types, that every fire but the first needs a record  *)
(* that was put back, and that a removed record stays removed once nobody  *)
(* holds a copy of it without the lock.                                    *)
(***************************************************************************)
EXTENDS Watch, TLAPS

\* Whoever is in the store lock is there alone, and its record is there.
LockHeld ==
  /\ \A t \in Timers : timer[t].pc \in {"unlink", "beat"} => rec # NoRecord
  /\ \A t, u \in Timers :
       timer[t].pc \in {"unlink", "beat"} /\ timer[u].pc \in {"unlink", "beat"} => t = u

\* What is going to be written is a record.
CopiesHeld ==
  /\ \A t \in Timers : timer[t].pc \in {"beat", "mark"} => timer[t].copy # NoRecord
  /\ \A w \in Writers : writer[w].pc \in {"write", "arm"} => writer[w].copy # NoRecord

\* After a fire the record is gone, unless it was put back.
FiredAndGone == fires > 0 => rec = NoRecord \/ back

IInv == WTypeOK /\ LockHeld /\ CopiesHeld /\ FiredAndGone /\ OneFirePerRecord
-----------------------------------------------------------------------------
(* Ageing keeps a record a record, and nothing nothing.                      *)
LEMMA OlderTyped ==
  ASSUME NEW r \in WatchRecord \cup {NoRecord}
  PROVE  /\ Older(r) \in WatchRecord \cup {NoRecord}
         /\ Older(r) = NoRecord <=> r = NoRecord
<1>1. CASE r = NoRecord
  BY <1>1 DEF Older
<1>2. CASE r \in WatchRecord
  <2>1. Older(r) \in WatchRecord
    BY <1>2, WatchAssumption DEF Older, WatchRecord
  <2> QED BY <1>2, <2>1, NoRecordAssumption
<1> QED BY <1>1, <1>2

(* A count stops at two.                                                     *)
LEMMA CountedTwice == \A n \in 0..2 : Once(n) \in 0..2
  BY DEF Once

(* A timer that moves on, with a copy of the record or without, is a timer.    *)
LEMMA TimerMoves ==
  ASSUME timer \in [Timers -> Timer], NEW t \in Timers, NEW pc \in TimerPC
  PROVE  /\ Goto(t, pc) => timer' \in [Timers -> Timer]
         /\ \A r \in WatchRecord \cup {NoRecord} : Copy(t, pc, r) => timer' \in [Timers -> Timer]
         /\ \A d \in BOOLEAN :
              timer' = [timer EXCEPT ![t] = [@ EXCEPT !.pc = pc, !.due = d]]
              => timer' \in [Timers -> Timer]
         /\ Die(t) => timer' \in [Timers -> Timer]
<1>1. [timer[t] EXCEPT !.pc = pc] \in Timer
  BY DEF Timer
<1>2. ASSUME NEW r \in WatchRecord \cup {NoRecord}
      PROVE  [timer[t] EXCEPT !.pc = pc, !.copy = r] \in Timer
  BY DEF Timer
<1>3. ASSUME NEW d \in BOOLEAN PROVE [timer[t] EXCEPT !.pc = pc, !.due = d] \in Timer
  BY DEF Timer
<1>4. NoTimer \in Timer
  BY WatchAssumption DEF NoTimer, Timer, TimerPC
<1> QED BY <1>1, <1>2, <1>3, <1>4 DEF Goto, Copy, Die

(* The initial state satisfies the invariant.                                *)
LEMMA WatchInit == Init => IInv
<1> SUFFICES ASSUME Init PROVE IInv
  OBVIOUS
<1>1. NewRecord \in WatchRecord /\ NewRecord # NoRecord
  <2>1. NewRecord \in WatchRecord
    BY WatchAssumption DEF NewRecord, WatchRecord
  <2> QED BY <2>1, NoRecordAssumption
<1>2. NoTimer \in Timer
  BY WatchAssumption DEF NoTimer, Timer, TimerPC
<1>3. WTypeOK
  <2>1. rec \in WatchRecord \cup {NoRecord} /\ now \in 0..TIMEOUT
    BY <1>1, WatchAssumption DEF Init
  <2>2. timer \in [Timers -> Timer]
    BY <1>2 DEF Init
  <2>3. writer \in [Writers -> Writer]
    BY <1>1 DEF Init, Writer
  <2>4. crashes \in 0..MAX_CRASHES /\ fires \in 0..2
    BY WatchAssumption DEF Init
  <2> QED BY <2>1, <2>2, <2>3, <2>4 DEF Init, WTypeOK
<1>4. LockHeld /\ CopiesHeld
  BY <1>1 DEF Init, LockHeld, CopiesHeld, NoTimer
<1> QED BY <1>3, <1>4 DEF Init, IInv, FiredAndGone, OneFirePerRecord
-----------------------------------------------------------------------------
(* Every action keeps the variables in their types.                          *)
LEMMA WatchTyped == WTypeOK /\ CopiesHeld /\ [Next]_vars => WTypeOK'
<1> SUFFICES ASSUME WTypeOK, CopiesHeld, [Next]_vars PROVE WTypeOK'
  OBVIOUS
<1> USE DEF WTypeOK
<1>1. ASSUME NEW t \in Timers, TimerStep(t) PROVE WTypeOK'
  <2>0. AfterPoll(t) \in TimerPC
    BY DEF AfterPoll, TimerPC
  <2>1. CASE Wake(t)
    <3>1. CASE ~Current(t)
      BY <2>1, <3>1, TimerMoves DEF Wake, TimerPC, session, ghosts
    <3>2. CASE Current(t)
      <4> DEFINE d == ~Expired /\ ~rec.checked /\ now >= EXPECT
                 pc == IF Expired THEN "claim" ELSE "probe"
      <4>1. d \in BOOLEAN /\ pc \in TimerPC
        BY DEF TimerPC
      <4>2. timer' = [timer EXCEPT ![t] = [@ EXCEPT !.pc = pc, !.due = d]]
        BY <2>1, <3>2 DEF Wake
      <4> HIDE DEF d, pc
      <4>3. timer' \in [Timers -> Timer]
        BY <4>1, <4>2, TimerMoves
      <4> QED BY <2>1, <4>3 DEF Wake, session, ghosts
    <3> QED BY <3>1, <3>2
  <2>2. CASE Claim(t)
    BY <2>2, TimerMoves DEF Claim, TimerPC, session, ghosts
  <2>3. CASE Unlink(t)
    <3>1. timer' \in [Timers -> Timer]
      BY <2>3, TimerMoves DEF Unlink, TimerPC
    <3>2. fires' \in 0..2
      BY <2>3, CountedTwice DEF Unlink
    <3> QED BY <2>3, <3>1, <3>2 DEF Unlink, session
  <2>4. CASE Touch(t)
    <3>1. CASE Current(t)
      <4>1. [rec EXCEPT !.beat = 0] \in WatchRecord
        BY <3>1, WatchAssumption DEF Current, WatchRecord
      <4>2. Copy(t, "beat", [rec EXCEPT !.beat = 0])
        BY <2>4, <3>1 DEF Touch
      <4>3. timer' \in [Timers -> Timer]
        BY <4>1, <4>2, TimerMoves DEF TimerPC
      <4> QED BY <2>4, <4>3 DEF Touch, session, ghosts
    <3>2. CASE ~Current(t)
      BY <2>0, <2>4, <3>2, TimerMoves DEF Touch, session, ghosts
    <3> QED BY <3>1, <3>2
  <2>5. CASE Beat(t)
    <3>1. timer' \in [Timers -> Timer]
      BY <2>0, <2>5, TimerMoves DEF Beat
    <3>2. timer[t].copy \in WatchRecord \cup {NoRecord}
      BY DEF Timer
    <3> QED BY <2>5, <3>1, <3>2 DEF Beat, Put, session
  <2>6. CASE CheckIn(t)
    <3>1. CASE Current(t) /\ ~rec.checked
      <4>1. [rec EXCEPT !.checked = TRUE] \in WatchRecord
        BY <3>1 DEF Current, WatchRecord
      <4>2. Copy(t, "mark", [rec EXCEPT !.checked = TRUE])
        BY <2>6, <3>1 DEF CheckIn
      <4>3. timer' \in [Timers -> Timer]
        BY <4>1, <4>2, TimerMoves DEF TimerPC
      <4> QED BY <2>6, <4>3 DEF CheckIn, session, ghosts
    <3>2. CASE ~(Current(t) /\ ~rec.checked)
      BY <2>6, <3>2, TimerMoves DEF CheckIn, TimerPC, session, ghosts
    <3> QED BY <3>1, <3>2
  <2>7. CASE Mark(t)
    <3>1. timer' \in [Timers -> Timer]
      BY <2>7, TimerMoves DEF Mark, TimerPC
    <3>2. timer[t].copy \in WatchRecord \cup {NoRecord}
      BY DEF Timer
    <3> QED BY <2>7, <3>1, <3>2 DEF Mark, Put, session
  <2>8. CASE Defer(t)
    BY <2>8, TimerMoves DEF Defer, TimerPC, session, ghosts
  <2>9. CASE Cut(t)
    BY <2>9, TimerMoves DEF Cut, TimerPC, ghosts
  <2>10. CASE Resume(t)
    <3>1. timer' \in [Timers -> Timer]
      BY <2>10, TimerMoves DEF Resume, TimerPC
    <3>2. alive' \in BOOLEAN
      BY <2>10 DEF Resume
    <3> QED BY <2>10, <3>1, <3>2 DEF Resume, ghosts
  <2> QED BY <1>1, <2>1, <2>2, <2>3, <2>4, <2>5, <2>6, <2>7, <2>8, <2>9, <2>10 DEF TimerStep
<1>2. ASSUME NEW t \in Timers, Probe(t) \/ TimerDies(t) PROVE WTypeOK'
  <2>1. CASE Probe(t)
    <3>1. timer' \in [Timers -> Timer]
      BY <2>1, TimerMoves DEF Probe, TimerPC
    <3> QED BY <2>1, <3>1 DEF Probe, session, ghosts
  <2>2. CASE TimerDies(t)
    <3>1. timer' \in [Timers -> Timer]
      BY <2>2, TimerMoves DEF TimerDies, TimerPC
    <3>2. crashes' \in 0..MAX_CRASHES
      BY <2>2, WatchAssumption DEF TimerDies
    <3> QED BY <2>2, <3>1, <3>2 DEF TimerDies, session, ghosts
  <2> QED BY <1>2, <2>1, <2>2
<1>3. ASSUME NEW w \in Writers, WriterStep(w) PROVE WTypeOK'
  <2>1. CASE SweepRead(w)
    <3>1. [rec EXCEPT !.gen = NextGeneration(@), !.beat = 0] \in WatchRecord
      <4>1. rec \in WatchRecord
        BY <2>1 DEF SweepRead
      <4>2. NextGeneration(rec.gen) \in 0..GENERATIONS-1
        BY <4>1, WatchAssumption DEF WatchRecord, NextGeneration
      <4>3. 0 \in 0..STRANDED+1
        BY WatchAssumption
      <4> HIDE DEF NextGeneration
      <4> QED BY <4>1, <4>2, <4>3 DEF WatchRecord
    <3> QED BY <2>1, <3>1 DEF SweepRead, Turn, session, ghosts, Writer
  <2>2. CASE SweepWrite(w)
    BY <2>2 DEF SweepWrite, Put, session, Writer
  <2>3. CASE MoveRead(w)
    BY <2>3 DEF MoveRead, Turn, session, ghosts, Writer
  <2>4. CASE MoveWrite(w)
    BY <2>4 DEF MoveWrite, Put, Turn, session, Writer
  <2>5. ASSUME NEW t \in Timers, Arm(w, t) PROVE WTypeOK'
    <3>1. writer[w].copy.gen \in 0..GENERATIONS-1
      BY <2>5 DEF Arm, CopiesHeld, Writer, WatchRecord
    <3>2. [NoTimer EXCEPT !.pc = "nap", !.gen = writer[w].copy.gen] \in Timer
      BY <3>1 DEF NoTimer, Timer, TimerPC
    <3> QED BY <2>5, <3>2 DEF Arm, Turn, session, ghosts, Writer
  <2> QED BY <1>3, <2>1, <2>2, <2>3, <2>4, <2>5 DEF WriterStep
<1>4. ASSUME NEW w \in Writers, WriterDies(w) PROVE WTypeOK'
  BY <1>4, WatchAssumption DEF WriterDies, Turn, session, ghosts, Writer
<1>5. CASE Stop
  BY <1>5 DEF Stop, session, ghosts
<1>6. CASE SessionChanges
  BY <1>6 DEF SessionChanges, ghosts
<1>7. CASE Tick
  <2>1. rec' \in WatchRecord \cup {NoRecord} /\ now' \in 0..TIMEOUT
    <3>1. rec' = Older(rec) /\ now' = IF Expired THEN now ELSE now + 1
      BY <1>7 DEF Tick
    <3>2. now' \in 0..TIMEOUT
      BY <3>1, WatchAssumption DEF Expired
    <3> QED BY <3>1, <3>2, OlderTyped
  <2>2. ASSUME NEW t \in Timers PROVE timer'[t] \in Timer
    <3>1. Older(timer[t].copy) \in WatchRecord \cup {NoRecord}
      BY OlderTyped DEF Timer
    <3>2. timer'[t] = [timer[t] EXCEPT !.copy = Older(@),
                                       !.pc = IF @ = "sleep" THEN "nap" ELSE @]
      BY <1>7 DEF Tick
    <3> QED BY <3>1, <3>2 DEF Timer, TimerPC
  <2>3. ASSUME NEW w \in Writers PROVE writer'[w] \in Writer
    <3>1. Older(writer[w].copy) \in WatchRecord \cup {NoRecord}
      BY OlderTyped DEF Writer
    <3> QED BY <1>7, <3>1 DEF Tick, Writer
  <2> QED BY <1>7, <2>1, <2>2, <2>3 DEF Tick, session, ghosts
<1>8. CASE UNCHANGED vars
  BY <1>8 DEF vars, session, ghosts
<1> QED BY <1>1, <1>2, <1>3, <1>4, <1>5, <1>6, <1>7, <1>8 DEF Next
-----------------------------------------------------------------------------
(* What a write of the record leaves standing.                               *)
LEMMA PutKeeps ==
  ASSUME FiredAndGone, OneFirePerRecord, NEW r, Put(r), UNCHANGED fires
  PROVE  FiredAndGone' /\ OneFirePerRecord'
BY DEF FiredAndGone, OneFirePerRecord, Put

(* A step of one timer outside the lock, which takes no copy to be written.    *)
LEMMA TimerLeavesLock ==
  ASSUME IInv, NEW t \in Timers, UNCHANGED <<rec, writer, fires, back>>,
         NEW pc \in TimerPC \ {"unlink", "beat", "mark"},
         \/ Goto(t, pc) \/ Die(t)
         \/ \E d \in BOOLEAN : timer' = [timer EXCEPT ![t] = [@ EXCEPT !.pc = pc, !.due = d]]
  PROVE  LockHeld' /\ CopiesHeld' /\ FiredAndGone' /\ OneFirePerRecord'
<1>1. \A u \in Timers \ {t} : timer'[u] = timer[u]
  BY DEF Goto, Die, IInv, WTypeOK
<1>2. timer'[t].pc \notin {"unlink", "beat", "mark"}
  <2>1. CASE Goto(t, pc)
    BY <2>1 DEF Goto, IInv, WTypeOK, Timer
  <2>2. CASE Die(t)
    BY <2>2 DEF Die, NoTimer, IInv, WTypeOK
  <2>3. ASSUME NEW d \in BOOLEAN, timer' = [timer EXCEPT ![t] = [@ EXCEPT !.pc = pc, !.due = d]]
        PROVE  timer'[t].pc \notin {"unlink", "beat", "mark"}
    <3>1. timer[t] \in Timer
      BY DEF IInv, WTypeOK
    <3>2. timer'[t] = [timer[t] EXCEPT !.pc = pc, !.due = d]
      BY <2>3 DEF IInv, WTypeOK
    <3> QED BY <3>1, <3>2 DEF Timer
  <2> QED BY <2>1, <2>2, <2>3
<1> QED
  BY <1>1, <1>2 DEF IInv, LockHeld, CopiesHeld, FiredAndGone, OneFirePerRecord

(* Every step preserves the lock discipline and what it is for.                *)
LEMMA WatchStep == IInv /\ [Next]_vars => IInv'
<1> SUFFICES ASSUME IInv, [Next]_vars PROVE IInv'
  OBVIOUS
<1>0. WTypeOK'
  BY WatchTyped DEF IInv
<1> DEFINE Rest == LockHeld /\ CopiesHeld /\ FiredAndGone /\ OneFirePerRecord
<1> SUFFICES Rest'
  BY <1>0 DEF IInv
<1> USE DEF IInv
<1>a. {"sleep", "cut", "resume"} \subseteq TimerPC \ {"unlink", "beat", "mark"}
  BY DEF TimerPC
<1>1. ASSUME NEW t \in Timers, TimerStep(t) PROVE Rest'
  <2>1. CASE Wake(t)
    <3>1. CASE ~Current(t)
      BY <2>1, <3>1, TimerLeavesLock DEF Wake, TimerPC, ghosts
    <3>2. CASE Current(t)
      <4> DEFINE d == ~Expired /\ ~rec.checked /\ now >= EXPECT
                 pc == IF Expired THEN "claim" ELSE "probe"
      <4>1. d \in BOOLEAN /\ pc \in TimerPC \ {"unlink", "beat", "mark"}
        BY DEF TimerPC
      <4>2. timer' = [timer EXCEPT ![t] = [@ EXCEPT !.pc = pc, !.due = d]]
        BY <2>1, <3>2 DEF Wake
      <4>3. UNCHANGED <<rec, writer, fires, back>>
        BY <2>1 DEF Wake, ghosts
      <4> HIDE DEF d, pc
      <4> QED BY <4>1, <4>2, <4>3, TimerLeavesLock
    <3> QED BY <3>1, <3>2
  <2>2. CASE Claim(t)
    <3>1. CASE Current(t)
      <4>1. timer' = [timer EXCEPT ![t].pc = "unlink"] /\ UNCHANGED <<rec, writer, fires, back>>
        BY <2>2, <3>1 DEF Claim, Goto, ghosts
      <4>2. \A u \in Timers : timer[u].pc \notin {"unlink", "beat"}
        BY <2>2 DEF Claim, Locked
      <4>3. rec # NoRecord
        BY <3>1 DEF Current
      <4>4. /\ \A u \in Timers \ {t} : timer'[u] = timer[u]
            /\ timer'[t].pc = "unlink"
        BY <4>1 DEF WTypeOK, Timer
      <4> QED BY <4>1, <4>2, <4>3, <4>4 DEF LockHeld, CopiesHeld, FiredAndGone, OneFirePerRecord
    <3>2. CASE ~Current(t)
      BY <1>a, <2>2, <3>2, TimerLeavesLock DEF Claim, ghosts
    <3> QED BY <3>1, <3>2
  <2>3. CASE Unlink(t)
    <3>1. timer' = [timer EXCEPT ![t].pc = "defer"] /\ timer[t].pc = "unlink"
      BY <2>3 DEF Unlink, Goto, At
    <3>2. /\ \A u \in Timers \ {t} : timer'[u] = timer[u]
          /\ timer'[t].pc = "defer"
      BY <3>1 DEF WTypeOK, Timer
    <3>3. \A u \in Timers : timer'[u].pc \notin {"unlink", "beat"}
      BY <3>1, <3>2 DEF LockHeld
    <3>4. CopiesHeld'
      BY <2>3, <3>2 DEF CopiesHeld, Unlink
    <3>5. fires = 0 \/ back
      BY <3>1 DEF LockHeld, FiredAndGone, WTypeOK
    <3>6. FiredAndGone' /\ OneFirePerRecord'
      BY <2>3, <3>5 DEF Unlink, Once, FiredAndGone, OneFirePerRecord, WTypeOK
    <3> QED BY <3>3, <3>4, <3>6 DEF LockHeld
  <2>4. CASE Touch(t)
    <3>1. CASE Current(t)
      <4> DEFINE r == [rec EXCEPT !.beat = 0]
      <4>1. timer' = [timer EXCEPT ![t] = [@ EXCEPT !.pc = "beat", !.copy = r]]
        BY <2>4, <3>1 DEF Touch, Copy
      <4>2. \A u \in Timers : timer[u].pc \notin {"unlink", "beat"}
        BY <2>4 DEF Touch, Locked
      <4>3. rec # NoRecord /\ r # NoRecord
        <5>1. r \in WatchRecord /\ rec # NoRecord
          BY <3>1, WatchAssumption DEF Current, WTypeOK, WatchRecord
        <5> QED BY <5>1, NoRecordAssumption
      <4> HIDE DEF r
      <4>4. /\ \A u \in Timers \ {t} : timer'[u] = timer[u]
            /\ timer'[t].pc = "beat" /\ timer'[t].copy = r
        BY <4>1 DEF WTypeOK, Timer
      <4>5. UNCHANGED <<rec, writer, fires, back>>
        BY <2>4 DEF Touch, ghosts
      <4> QED BY <4>2, <4>3, <4>4, <4>5 DEF LockHeld, CopiesHeld, FiredAndGone, OneFirePerRecord
    <3>2. CASE ~Current(t)
      <4>1. AfterPoll(t) \in TimerPC \ {"unlink", "beat", "mark"}
        BY DEF AfterPoll, TimerPC
      <4> QED BY <4>1, <2>4, <3>2, TimerLeavesLock DEF Touch, ghosts
    <3> QED BY <3>1, <3>2
  <2>5. ASSUME Beat(t) \/ Mark(t) PROVE Rest'
    <3> DEFINE pc == IF Beat(t) THEN AfterPoll(t) ELSE "cut"
    <3>1. pc \notin {"unlink", "beat", "mark"}
      BY DEF AfterPoll
    <3>2. timer' = [timer EXCEPT ![t] = [@ EXCEPT !.pc = pc, !.copy = NoRecord]]
      BY <2>5 DEF Beat, Mark, Copy
    <3> HIDE DEF pc
    <3>3. /\ \A u \in Timers \ {t} : timer'[u] = timer[u]
          /\ timer'[t].pc \notin {"unlink", "beat", "mark"}
      BY <3>1, <3>2 DEF WTypeOK, Timer
    <3>4. Put(timer[t].copy) /\ UNCHANGED fires /\ UNCHANGED writer
      BY <2>5 DEF Beat, Mark
    <3>5. rec' # NoRecord
      BY <2>5, <3>4 DEF Beat, Mark, At, Put, CopiesHeld
    <3>6. FiredAndGone' /\ OneFirePerRecord'
      BY <3>4, PutKeeps
    <3> QED BY <3>3, <3>4, <3>5, <3>6 DEF LockHeld, CopiesHeld
  <2>6. CASE CheckIn(t)
    <3>1. CASE Current(t) /\ ~rec.checked
      <4> DEFINE r == [rec EXCEPT !.checked = TRUE]
      <4>1. timer' = [timer EXCEPT ![t] = [@ EXCEPT !.pc = "mark", !.copy = r]]
        BY <2>6, <3>1 DEF CheckIn, Copy
      <4>2. r # NoRecord
        <5>1. r \in WatchRecord
          BY <3>1 DEF Current, WTypeOK, WatchRecord
        <5> QED BY <5>1, NoRecordAssumption
      <4> HIDE DEF r
      <4>3. /\ \A u \in Timers \ {t} : timer'[u] = timer[u]
            /\ timer'[t].pc = "mark" /\ timer'[t].copy = r
        BY <4>1 DEF WTypeOK, Timer
      <4>4. UNCHANGED <<rec, writer, fires, back>>
        BY <2>6 DEF CheckIn, ghosts
      <4> QED BY <4>2, <4>3, <4>4 DEF LockHeld, CopiesHeld, FiredAndGone, OneFirePerRecord
    <3>2. CASE ~(Current(t) /\ ~rec.checked)
      BY <2>6, <3>2, TimerLeavesLock DEF CheckIn, TimerPC, ghosts
    <3> QED BY <3>1, <3>2
  <2>7. CASE Defer(t)
    BY <1>a, <2>7, TimerLeavesLock DEF Defer, ghosts
  <2>8. CASE Cut(t)
    BY <1>a, <2>8, TimerLeavesLock DEF Cut, ghosts
  <2>9. CASE Resume(t)
    BY <1>a, <2>9, TimerLeavesLock DEF Resume, ghosts
  <2> QED BY <1>1, <2>1, <2>2, <2>3, <2>4, <2>5, <2>6, <2>7, <2>8, <2>9 DEF TimerStep
<1>2. ASSUME NEW t \in Timers, Probe(t) \/ TimerDies(t) PROVE Rest'
  <2>1. CASE Probe(t)
    <3>1. CASE Goto(t, "touch")
      BY <2>1, <3>1, TimerLeavesLock DEF Probe, TimerPC, ghosts
    <3>2. CASE timer' = [timer EXCEPT ![t] = [@ EXCEPT !.pc = "claim", !.due = FALSE]]
      BY <2>1, <3>2, TimerLeavesLock DEF Probe, TimerPC, ghosts
    <3> QED BY <2>1, <3>1, <3>2 DEF Probe
  <2>2. CASE TimerDies(t)
    BY <1>a, <2>2, TimerLeavesLock DEF TimerDies, ghosts
  <2> QED BY <1>2, <2>1, <2>2
<1>3. ASSUME NEW w \in Writers, WriterStep(w) PROVE Rest'
  <2>1. ASSUME SweepRead(w) \/ MoveRead(w) PROVE Rest'
    <3>1. rec \in WatchRecord
      BY <2>1 DEF SweepRead, MoveRead, WTypeOK
    <3>2. PICK r : r # NoRecord /\ Turn(w, "write", r)
      <4>1. [rec EXCEPT !.gen = NextGeneration(@), !.beat = 0] # NoRecord
        <5>1. NextGeneration(rec.gen) \in 0..GENERATIONS-1
          BY <3>1, WatchAssumption DEF WatchRecord, NextGeneration
        <5>2. 0 \in 0..STRANDED+1
          BY WatchAssumption
        <5> HIDE DEF NextGeneration
        <5>3. [rec EXCEPT !.gen = NextGeneration(@), !.beat = 0] \in WatchRecord
          BY <3>1, <5>1, <5>2 DEF WatchRecord
        <5> QED BY <5>3, NoRecordAssumption
      <4> QED BY <2>1, <3>1, <4>1, NoRecordAssumption DEF SweepRead, MoveRead
    <3>3. UNCHANGED <<rec, timer, fires, back>>
      BY <2>1 DEF SweepRead, MoveRead, ghosts
    <3>4. /\ \A v \in Writers \ {w} : writer'[v] = writer[v]
          /\ writer'[w].copy # NoRecord
      BY <3>2 DEF Turn, WTypeOK
    <3> QED BY <3>3, <3>4 DEF LockHeld, CopiesHeld, FiredAndGone, OneFirePerRecord
  <2>2. ASSUME SweepWrite(w) \/ MoveWrite(w) PROVE Rest'
    <3>1. Put(writer[w].copy) /\ writer[w].pc = "write" /\ UNCHANGED <<timer, fires>>
      BY <2>2 DEF SweepWrite, MoveWrite
    <3>2. rec' # NoRecord
      BY <3>1 DEF CopiesHeld, Put
    <3>3. /\ \A v \in Writers \ {w} : writer'[v] = writer[v]
          /\ writer'[w].pc \in {"write", "arm"} => writer'[w].copy = writer[w].copy
      BY <2>2 DEF SweepWrite, MoveWrite, Turn, WTypeOK, Writer
    <3>4. FiredAndGone' /\ OneFirePerRecord'
      BY <3>1, PutKeeps
    <3> QED BY <3>1, <3>2, <3>3, <3>4 DEF LockHeld, CopiesHeld
  <2>3. ASSUME NEW t \in Timers, Arm(w, t) PROVE Rest'
    <3>1. /\ \A u \in Timers \ {t} : timer'[u] = timer[u]
          /\ timer'[t].pc = "nap"
      BY <2>3 DEF Arm, NoTimer, WTypeOK
    <3>2. /\ \A v \in Writers \ {w} : writer'[v] = writer[v]
          /\ writer'[w].pc \in {"done", "idle"}
      BY <2>3 DEF Arm, Turn, WTypeOK
    <3>3. UNCHANGED <<rec, fires, back>>
      BY <2>3 DEF Arm, ghosts
    <3> QED BY <3>1, <3>2, <3>3 DEF LockHeld, CopiesHeld, FiredAndGone, OneFirePerRecord
  <2> QED BY <1>3, <2>1, <2>2, <2>3 DEF WriterStep
<1>4. ASSUME NEW w \in Writers, WriterDies(w) PROVE Rest'
  <2>1. /\ \A v \in Writers \ {w} : writer'[v] = writer[v]
        /\ writer'[w].pc \in {"done", "idle"}
    BY <1>4 DEF WriterDies, Turn, WTypeOK
  <2>2. UNCHANGED <<rec, timer, fires, back>>
    BY <1>4 DEF WriterDies, ghosts
  <2> QED BY <2>1, <2>2 DEF LockHeld, CopiesHeld, FiredAndGone, OneFirePerRecord
<1>5. CASE Stop
  BY <1>5 DEF Stop, Locked, ghosts, LockHeld, CopiesHeld, FiredAndGone, OneFirePerRecord
<1>6. CASE SessionChanges
  BY <1>6 DEF SessionChanges, ghosts, LockHeld, CopiesHeld, FiredAndGone, OneFirePerRecord
<1>7. CASE Tick
  <2>1. rec' = NoRecord <=> rec = NoRecord
    BY <1>7, OlderTyped DEF Tick, WTypeOK
  <2>2. ASSUME NEW t \in Timers
        PROVE  /\ timer'[t].pc \in {"unlink", "beat", "mark"} => timer'[t].pc = timer[t].pc
               /\ timer'[t].copy = NoRecord <=> timer[t].copy = NoRecord
    <3>1. timer[t] \in Timer
      BY DEF WTypeOK
    <3>2. timer'[t] = [timer[t] EXCEPT !.copy = Older(@),
                                       !.pc = IF @ = "sleep" THEN "nap" ELSE @]
      BY <1>7 DEF Tick
    <3>3. timer'[t].copy = Older(timer[t].copy)
      BY <3>1, <3>2 DEF Timer
    <3>4. timer'[t].pc = IF timer[t].pc = "sleep" THEN "nap" ELSE timer[t].pc
      BY <3>1, <3>2 DEF Timer
    <3>5. timer[t].copy \in WatchRecord \cup {NoRecord}
      BY <3>1 DEF Timer
    <3> QED BY <3>3, <3>4, <3>5, OlderTyped
  <2>3. ASSUME NEW w \in Writers
        PROVE  /\ writer'[w].pc = writer[w].pc
               /\ writer'[w].copy = NoRecord <=> writer[w].copy = NoRecord
    BY <1>7, OlderTyped DEF Tick, WTypeOK, Writer
  <2>4. UNCHANGED <<fires, back>>
    BY <1>7 DEF Tick, ghosts
  <2> QED BY <2>1, <2>2, <2>3, <2>4 DEF LockHeld, CopiesHeld, FiredAndGone, OneFirePerRecord
<1>8. CASE UNCHANGED vars
  BY <1>8 DEF vars, ghosts, LockHeld, CopiesHeld, FiredAndGone, OneFirePerRecord
<1> QED BY <1>1, <1>2, <1>3, <1>4, <1>5, <1>6, <1>7, <1>8 DEF Next
-----------------------------------------------------------------------------
(* The invariant holds in every reachable state.                             *)
LEMMA IInvHolds == Spec => []IInv
  BY WatchInit, WatchStep, PTL DEF Spec

(* Every variable keeps its type.                                            *)
THEOREM WatchTypes == Spec => []WTypeOK
  BY IInvHolds, PTL DEF IInv

(* However many timers poll one watch, sweeps re-arm it and handoffs move it,  *)
(* it fires again only after an unlocked writer put its record back.           *)
THEOREM FiresOncePerRecord == Spec => []OneFirePerRecord
  BY IInvHolds, PTL DEF IInv

(* Only an unlocked read-modify-write in flight can bring a removed record     *)
(* back: no heartbeat does, whatever timer it comes from.                      *)
THEOREM RemovedStaysRemoved == Spec => GoneStaysGone
<1>1. IInv /\ [Next]_vars => [rec = NoRecord /\ Unlocked = {} => rec' = NoRecord]_vars
  <2> SUFFICES ASSUME IInv, Next, rec = NoRecord, Unlocked = {} PROVE rec' = NoRecord
    OBVIOUS
  <2>1. ASSUME NEW t \in Timers, TimerStep(t) \/ Probe(t) \/ TimerDies(t) PROVE rec' = NoRecord
    <3>1. timer[t].pc \notin {"beat", "mark"}
      BY DEF IInv, LockHeld, Unlocked
    <3> QED BY <2>1, <3>1 DEF TimerStep, Wake, Claim, Unlink, Touch, Beat, CheckIn, Mark, Defer,
                 Cut, Resume, Probe, TimerDies, At
  <2>2. ASSUME NEW w \in Writers, WriterStep(w) \/ WriterDies(w) PROVE rec' = NoRecord
    <3>1. writer[w].pc # "write"
      BY DEF Unlocked
    <3> QED BY <2>2, <3>1 DEF WriterStep, SweepRead, SweepWrite, MoveRead, MoveWrite, Arm, WriterDies
  <2>3. CASE Stop \/ SessionChanges \/ Tick
    BY <2>3 DEF Stop, SessionChanges, Tick, Older
  <2> QED BY <2>1, <2>2, <2>3 DEF Next
<1> QED BY <1>1, IInvHolds, PTL DEF Spec, GoneStaysGone
=============================================================================
