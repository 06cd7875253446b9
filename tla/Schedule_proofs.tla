--------------------------- MODULE Schedule_proofs ---------------------------
(***************************************************************************)
(* Proofs about Schedule, for any number of timers, sweeps and edits and   *)
(* any durations: its types, that a second session needs a write of a copy *)
(* that was out of date, and that a settled schedule stays settled.        *)
(***************************************************************************)
EXTENDS Schedule, TLAPS

\* A claim is written as a record that is not pending any more.
FlipHeld == \A t \in Procs : At(t, "flip") => proc[t].copy # NoRecord /\ ~Pending(proc[t].copy)

\* The fire is taken: a session was spawned or is about to be.
Claimed == spawned > 0 \/ \E t \in Procs : At(t, "spawn")

\* Whoever is up to date and means to fire, or to write a pending record, has
\* read one.
UpToDate == \A p \in Procs \ raced : At(p, "flip") \/ Pending(proc[p].copy) => Pending(rec)

\* While every write is of an up-to-date copy there is one claim, and after it no
\* pending record.
OneClaim ==
  /\ Claimed => ~Pending(rec)
  /\ spawned <= 1
  /\ spawned > 0 => \A t \in Procs : ~At(t, "spawn")
  /\ \A t, u \in Procs : At(t, "spawn") /\ At(u, "spawn") => t = u

IInv == STypeOK /\ FlipHeld /\ UpToDate /\ (~lost => OneClaim)
-----------------------------------------------------------------------------
(* Lateness is a number.                                                      *)
LEMMA LateTyped == LATE \in Nat /\ 0 \in 0..STRANDED+1
  BY ScheduleAssumption DEF LATE

(* Ageing keeps a record a record, pending or not as it was.                 *)
LEMMA OlderTyped ==
  ASSUME NEW r \in ScheduleRecord \cup {NoRecord}
  PROVE  /\ Older(r) \in ScheduleRecord \cup {NoRecord}
         /\ Older(r) = NoRecord <=> r = NoRecord
         /\ Pending(Older(r)) <=> Pending(r)
<1>1. CASE r = NoRecord
  BY <1>1 DEF Older
<1>2. CASE r \in ScheduleRecord
  <2> DEFINE left == IF r.left > -LATE THEN r.left - 1 ELSE r.left
             beat == IF r.beat <= STRANDED THEN r.beat + 1 ELSE r.beat
  <2>0. left \in -LATE..AHEAD /\ beat \in 0..STRANDED+1
    BY <1>2, LateTyped, ScheduleAssumption DEF ScheduleRecord
  <2>2. Older(r) = [r EXCEPT !.left = left, !.beat = beat]
    BY <1>2, NoRecordAssumption DEF Older
  <2> HIDE DEF left, beat
  <2>1. Older(r) \in ScheduleRecord /\ Older(r).pending = r.pending
    BY <1>2, <2>0, <2>2 DEF ScheduleRecord
  <2> QED BY <1>2, <2>1, NoRecordAssumption DEF Pending
<1> QED BY <1>1, <1>2

(* Every process that moves on, with a copy or without, is a process.        *)
LEMMA ProcMoves ==
  ASSUME proc \in [Procs -> Proc], NEW p \in Procs
  PROVE  /\ \A pc \in TimerPC \cup {"arm"} : Goto(p, pc) => proc' \in [Procs -> Proc]
         /\ \A pc \in TimerPC \cup {"arm"}, r \in ScheduleRecord \cup {NoRecord} :
              Take(p, pc, r) => proc' \in [Procs -> Proc]
         /\ Quit(p) => proc' \in [Procs -> Proc]
         /\ \A k \in Proc : proc' = [proc EXCEPT ![p] = k] => proc' \in [Procs -> Proc]
<1>1. ASSUME NEW pc \in TimerPC \cup {"arm"} PROVE [proc[p] EXCEPT !.pc = pc] \in Proc
  BY DEF Proc
<1>2. ASSUME NEW pc \in TimerPC \cup {"arm"}, NEW r \in ScheduleRecord \cup {NoRecord}
      PROVE  [proc[p] EXCEPT !.pc = pc, !.copy = r] \in Proc
  BY DEF Proc
<1>3. \A pc \in {"none", "done"} : Absent(pc) \in Proc
  BY ScheduleAssumption DEF Absent, Proc, TimerPC
<1> QED BY <1>1, <1>2, <1>3 DEF Goto, Take, Quit

(* What a process reads is the record or nothing.                            *)
LEMMA SeenTyped ==
  ASSUME rec \in ScheduleRecord \cup {NoRecord}, NEW p \in Procs, NEW r \in Seen(p)
  PROVE  r \in {rec, NoRecord} /\ r \in ScheduleRecord \cup {NoRecord}
  BY DEF Seen

(* A flipped record is a record that is not pending.                          *)
LEMMA FlippedTyped ==
  ASSUME NEW r \in ScheduleRecord, NEW b \in BOOLEAN
  PROVE  Flipped(r, b) \in ScheduleRecord /\ Flipped(r, b).pending = FALSE
<1>1. NextGeneration(r.gen) \in 0..GENERATIONS-1
  BY ScheduleAssumption DEF NextGeneration, ScheduleRecord
<1> QED BY <1>1 DEF Flipped, ScheduleRecord

(* A record moved on one generation, with a new fire time or heartbeat.       *)
LEMMA MovedTyped ==
  ASSUME NEW r \in ScheduleRecord, NEW n \in {r.left} \cup 1..AHEAD
  PROVE  /\ NextGeneration(r.gen) \in 0..GENERATIONS-1
         /\ [r EXCEPT !.gen = NextGeneration(@), !.left = n] \in ScheduleRecord
         /\ [r EXCEPT !.gen = NextGeneration(@), !.beat = 0] \in ScheduleRecord
         /\ [r EXCEPT !.beat = 0] \in ScheduleRecord
<1>1. NextGeneration(r.gen) \in 0..GENERATIONS-1
  BY ScheduleAssumption DEF NextGeneration, ScheduleRecord
<1>2. n \in -LATE..AHEAD
  BY ScheduleAssumption DEF ScheduleRecord, LATE
<1>3. 0 \in 0..STRANDED+1
  BY ScheduleAssumption
<1> QED BY <1>1, <1>2, <1>3 DEF ScheduleRecord
-----------------------------------------------------------------------------
(* The initial state satisfies the invariant.                                *)
LEMMA ScheduleInit == Init => IInv
<1> SUFFICES ASSUME Init PROVE IInv
  OBVIOUS
<1>1. rec \in ScheduleRecord
  BY ScheduleAssumption DEF Init, ScheduleRecord, LATE
<1>2. \A pc \in {"none", "arm", "idle"} : Absent(pc) \in Proc /\ Absent(pc).pc = pc
                                          /\ Absent(pc).copy = NoRecord
  BY ScheduleAssumption DEF Absent, Proc, TimerPC
<1>3. /\ proc \in [Procs -> Proc]
      /\ \A p \in Procs : proc[p].pc \in {"none", "arm", "idle"} /\ proc[p].copy = NoRecord
  BY <1>2 DEF Init
<1>4. STypeOK
  <2>1. crashes = 0 /\ spawned = 0 /\ raced = {} /\ lost = FALSE
    BY DEF Init
  <2>2. 0 \in 0..MAX_CRASHES
    BY ScheduleAssumption
  <2>3. crashes \in 0..MAX_CRASHES /\ spawned \in 0..2
    BY <2>1, <2>2
  <2>4. raced \subseteq Procs /\ lost \in BOOLEAN
    BY <2>1, Zenon
  <2> QED BY <1>1, <1>3, <2>3, <2>4 DEF STypeOK
<1>5. FlipHeld /\ UpToDate
  BY <1>3 DEF FlipHeld, UpToDate, At, Pending
<1>6. OneClaim
  BY <1>3 DEF Init, OneClaim, Claimed, At
<1> QED BY <1>4, <1>5, <1>6 DEF IInv
-----------------------------------------------------------------------------
(* Every action keeps the variables in their types.                          *)
LEMMA ScheduleTyped == STypeOK /\ FlipHeld /\ [Next]_vars => STypeOK'
<1> SUFFICES ASSUME STypeOK, FlipHeld, [Next]_vars PROVE STypeOK'
  OBVIOUS
<1> USE DEF STypeOK, ghosts
<1>0. ASSUME NEW p \in Procs, Put(p), proc[p].copy \in ScheduleRecord \cup {NoRecord}
      PROVE  /\ rec' \in ScheduleRecord \cup {NoRecord}
             /\ lost' \in BOOLEAN /\ raced' \subseteq Procs
  BY <1>0 DEF Put, Holders
<1>1. ASSUME NEW p \in Procs PROVE proc[p] \in Proc /\ proc[p].copy \in ScheduleRecord \cup {NoRecord}
  BY DEF Proc
<1>2. ASSUME NEW t \in Timers, TimerStep(t) \/ Probe(t) PROVE STypeOK'
  <2> t \in Procs
    BY DEF Procs
  <2>1. CASE Wake(t)
    <3> PICK r \in Seen(t) :
           IF r = NoRecord THEN Quit(t)
           ELSE IF r.gen # proc[t].gen \/ ~r.pending THEN Quit(t)
           ELSE IF ~Due(r) THEN Goto(t, "sleep")
           ELSE IF Gated /\ ~Expired(r) THEN Goto(t, "probe")
           ELSE proc' = [proc EXCEPT ![t] = [@ EXCEPT !.pc = "claim", !.abandon = Expired(r)]]
      BY <2>1 DEF Wake
    <3>1. Expired(r) \in BOOLEAN
      BY ScheduleAssumption DEF Expired
    <3>2. [proc[t] EXCEPT !.pc = "claim", !.abandon = Expired(r)] \in Proc
      BY <1>1, <3>1 DEF Proc, TimerPC
    <3>3. proc' \in [Procs -> Proc]
      BY <3>2, ProcMoves DEF TimerPC
    <3> QED BY <2>1, <3>3 DEF Wake
  <2>2. CASE Probe(t)
    <3>1. [proc[t] EXCEPT !.pc = "claim", !.abandon = FALSE] \in Proc
      BY <1>1 DEF Proc, TimerPC
    <3>2. proc' \in [Procs -> Proc]
      BY <2>2, <3>1, ProcMoves DEF Probe, TimerPC
    <3> QED BY <2>2, <3>2 DEF Probe
  <2>3. CASE Claim(t)
    <3> PICK r \in Seen(t) :
           IF r = NoRecord THEN Quit(t)
           ELSE IF ~r.pending \/ r.gen # proc[t].gen THEN Quit(t)
           ELSE IF ~Due(r) THEN Goto(t, "nap")
           ELSE Take(t, "flip", Flipped(r, proc[t].abandon))
      BY <2>3 DEF Claim
    <3>1. proc[t].abandon \in BOOLEAN
      BY <1>1 DEF Proc
    <3>2. r # NoRecord => Flipped(r, proc[t].abandon) \in ScheduleRecord \cup {NoRecord}
      BY <3>1, SeenTyped, FlippedTyped
    <3>3. proc' \in [Procs -> Proc]
      BY <3>2, ProcMoves DEF TimerPC
    <3> QED BY <2>3, <3>3 DEF Claim
  <2>4. CASE Flip(t)
    <3>1. proc' \in [Procs -> Proc]
      BY <2>4, ProcMoves DEF Flip, TimerPC
    <3> QED BY <1>0, <1>1, <2>4, <3>1 DEF Flip
  <2>5. CASE Spawn(t)
    <3>1. proc' \in [Procs -> Proc]
      BY <2>5, ProcMoves DEF Spawn, TimerPC
    <3>2. spawned' \in 0..2
      BY <2>5 DEF Spawn
    <3> QED BY <2>5, <3>1, <3>2 DEF Spawn
  <2>6. CASE Stamp(t)
    <3>1. proc' \in [Procs -> Proc]
      BY <2>6, SeenTyped, ProcMoves DEF Stamp, TimerPC
    <3> QED BY <2>6, <3>1 DEF Stamp
  <2>7. CASE Mark(t)
    <3>1. proc' \in [Procs -> Proc]
      BY <2>7, ProcMoves DEF Mark
    <3> QED BY <1>0, <1>1, <2>7, <3>1 DEF Mark
  <2>8. CASE Touch(t)
    <3> PICK r \in Seen(t) :
           IF r # NoRecord /\ r.pending /\ r.gen = proc[t].gen
           THEN Take(t, "beat", [r EXCEPT !.beat = 0])
           ELSE Goto(t, "sleep")
      BY <2>8 DEF Touch
    <3>1. r # NoRecord => [r EXCEPT !.beat = 0] \in ScheduleRecord
      BY SeenTyped, LateTyped DEF ScheduleRecord
    <3>2. proc' \in [Procs -> Proc]
      BY <3>1, ProcMoves DEF TimerPC
    <3> QED BY <2>8, <3>2 DEF Touch
  <2>9. CASE Beat(t)
    <3>1. proc' \in [Procs -> Proc]
      BY <2>9, ProcMoves DEF Beat, TimerPC
    <3> QED BY <1>0, <1>1, <2>9, <3>1 DEF Beat
  <2> QED BY <1>2, <2>1, <2>2, <2>3, <2>4, <2>5, <2>6, <2>7, <2>8, <2>9 DEF TimerStep
<1>3. ASSUME NEW w \in Writers, SweepRead(w) \/ EditRead(w) PROVE STypeOK'
  <2> w \in Procs
    BY DEF Procs
  <2>0. rec \in ScheduleRecord
    BY <1>3 DEF SweepRead, EditRead
  <2>1. \A n \in {rec.left} \cup 1..AHEAD, r \in ScheduleRecord :
          [pc |-> "write", gen |-> NextGeneration(rec.gen), abandon |-> FALSE, copy |-> r] \in Proc
    BY <2>0, MovedTyped DEF Proc
  <2>2. proc' \in [Procs -> Proc]
    <3>1. CASE SweepRead(w)
      BY <2>0, <2>1, <3>1, MovedTyped, ProcMoves DEF SweepRead
    <3>2. CASE EditRead(w)
      BY <2>0, <2>1, <3>2, MovedTyped, ProcMoves DEF EditRead
    <3> QED BY <1>3, <3>1, <3>2
  <2> QED BY <1>3, <2>2 DEF SweepRead, EditRead
<1>4. ASSUME NEW w \in Writers, Write(w) PROVE STypeOK'
  <2> w \in Procs
    BY DEF Procs
  <2>1. proc' \in [Procs -> Proc]
    BY <1>4, ProcMoves DEF Write
  <2> QED BY <1>0, <1>1, <1>4, <2>1 DEF Write
<1>5. ASSUME NEW w \in Writers, NEW t \in Timers, Arm(w, t) PROVE STypeOK'
  <2>1. w \in Procs /\ t \in Procs
    BY DEF Procs
  <2>2. \A pc \in {"nap", "idle", "done"} : Absent(pc) \in Proc
    BY ScheduleAssumption DEF Absent, Proc, TimerPC
  <2>3. [Absent("nap") EXCEPT !.gen = proc[w].gen] \in Proc
    BY <1>1, <2>1, <2>2 DEF Proc
  <2>4. proc' \in [Procs -> Proc]
    BY <1>5, <2>1, <2>2, <2>3 DEF Arm
  <2> QED BY <1>5, <2>4 DEF Arm
<1>6. ASSUME NEW p \in Procs, Dies(p) PROVE STypeOK'
  <2>1. Absent("idle") \in Proc
    BY ScheduleAssumption DEF Absent, Proc
  <2>2. proc' \in [Procs -> Proc]
    BY <1>6, <2>1, ProcMoves DEF Dies
  <2>3. crashes' \in 0..MAX_CRASHES
    BY <1>6, ScheduleAssumption DEF Dies
  <2> QED BY <1>6, <2>2, <2>3 DEF Dies
<1>7. CASE Cancel
  BY <1>7 DEF Cancel, Holders
<1>8. CASE Tick
  <2>1. ASSUME NEW p \in Procs
        PROVE  [proc[p] EXCEPT !.copy = Older(@), !.pc = IF @ = "sleep" THEN "nap" ELSE @] \in Proc
    BY <1>1, OlderTyped DEF Proc, TimerPC
  <2>2. proc' \in [Procs -> Proc]
    BY <1>8, <2>1 DEF Tick
  <2> QED BY <1>8, <2>2, OlderTyped DEF Tick
<1>9. CASE UNCHANGED vars
  BY <1>9 DEF vars
<1> QED
  BY <1>2, <1>3, <1>4, <1>5, <1>6, <1>7, <1>8, <1>9 DEF Next, WriterStep, Writers
-----------------------------------------------------------------------------
Kept == FlipHeld' /\ UpToDate' /\ (~lost' => OneClaim')

\* p is at pc with copy c afterwards, everybody else where they were.
Moves(p, pc, c) ==
  \A q \in Procs : /\ proc'[q].pc = IF q = p THEN pc ELSE proc[q].pc
                   /\ proc'[q].copy = IF q = p THEN c ELSE proc[q].copy

(* What the three ways of moving on do to a process.                          *)
LEMMA MovesOn ==
  ASSUME proc \in [Procs -> Proc], NEW p \in Procs
  PROVE  /\ \A pc : Goto(p, pc) => Moves(p, pc, proc[p].copy)
         /\ \A pc, r : Take(p, pc, r) => Moves(p, pc, r)
         /\ Quit(p) => Moves(p, IF p \in Timers THEN "none" ELSE "done", NoRecord)
         /\ \A k : proc' = [proc EXCEPT ![p] = k] => Moves(p, k.pc, k.copy)
<1>1. ASSUME NEW k, proc' = [proc EXCEPT ![p] = k] PROVE Moves(p, k.pc, k.copy)
  BY <1>1 DEF Moves
<1>2. ASSUME NEW pc, Goto(p, pc) PROVE Moves(p, pc, proc[p].copy)
  BY <1>2 DEF Moves, Goto, Proc
<1>3. ASSUME NEW pc, NEW r, Take(p, pc, r) PROVE Moves(p, pc, r)
  BY <1>3 DEF Moves, Take, Proc
<1>4. Quit(p) => Moves(p, IF p \in Timers THEN "none" ELSE "done", NoRecord)
  <2> DEFINE d == IF p \in Timers THEN "none" ELSE "done"
  <2>1. Absent(d).pc = d /\ Absent(d).copy = NoRecord
    BY DEF Absent
  <2>2. Quit(p) => proc' = [proc EXCEPT ![p] = Absent(d)]
    BY DEF Quit
  <2> QED BY <1>1, <2>1, <2>2
<1> QED BY <1>1, <1>2, <1>3, <1>4

(* A process that does not touch the record, and takes a copy of it, if it does, *)
(* only to fire or to write what is there.                                      *)
LEMMA ReadKeeps ==
  ASSUME IInv, NEW p \in Procs, NEW pc, NEW c, Moves(p, pc, c),
         rec' = rec, spawned' = spawned, lost' = lost, raced \ {p} \subseteq raced', pc # "spawn",
         pc = "flip" => c # NoRecord /\ ~Pending(c),
         pc = "flip" \/ Pending(c) => Pending(rec) \/ (p \in raced' /\ pc # "flip")
  PROVE  Kept
<1> USE DEF IInv, Moves, At
<1>1. FlipHeld'
  BY DEF FlipHeld, Pending
<1>2. UpToDate'
  BY DEF UpToDate, Pending
<1>3. ASSUME ~lost' PROVE OneClaim'
  BY <1>3 DEF OneClaim, Claimed, Pending
<1> QED BY <1>1, <1>2, <1>3 DEF Kept

(* A process that writes its copy back and keeps none.                          *)
LEMMA WriteKeeps ==
  ASSUME IInv, NEW p \in Procs, NEW pc, Moves(p, pc, NoRecord), Put(p),
         spawned' = spawned, pc \notin {"flip", "spawn"}
  PROVE  Kept
<1> USE DEF IInv, Moves, At
<1>1. FlipHeld'
  BY DEF FlipHeld, Pending
<1>2. UpToDate'
  BY DEF UpToDate, FlipHeld, Pending, Put, Holders
<1>3. ASSUME ~lost' PROVE OneClaim'
  <2>1. ~lost /\ p \notin raced
    BY <1>3 DEF Put
  <2>2. Claimed' => Claimed
    BY DEF Claimed
  <2>3. Claimed => ~Pending(rec')
    BY <2>1 DEF UpToDate, OneClaim, Put
  <2> QED BY <2>1, <2>2, <2>3 DEF OneClaim, Claimed, Pending
<1> QED BY <1>1, <1>2, <1>3 DEF Kept

(* Every action keeps the claim single while writes are of up-to-date copies.    *)
LEMMA ScheduleKept == IInv /\ [Next]_vars => Kept
<1> SUFFICES ASSUME IInv, [Next]_vars PROVE Kept
  OBVIOUS
<1> USE DEF ghosts
<1>0. /\ proc \in [Procs -> Proc] /\ rec \in ScheduleRecord \cup {NoRecord}
      /\ \A p \in Procs : proc[p].copy \in ScheduleRecord \cup {NoRecord}
      /\ \A p \in Procs : Pending(proc[p].copy) => Pending(rec) \/ p \in raced
  BY DEF IInv, STypeOK, Proc, UpToDate
<1>1. ASSUME NEW t \in Timers, TimerStep(t) \/ Probe(t) PROVE Kept
  <2> t \in Procs
    BY DEF Procs
  <2>1. CASE Wake(t)
    <3>1. \/ Quit(t) \/ Goto(t, "sleep") \/ Goto(t, "probe")
          \/ \E b : proc' = [proc EXCEPT ![t] = [@ EXCEPT !.pc = "claim", !.abandon = b]]
      BY <2>1 DEF Wake
    <3>2. \E pc \in {"none", "sleep", "probe", "claim"} :
             Moves(t, pc, NoRecord) \/ Moves(t, pc, proc[t].copy)
      <4>1. CASE Quit(t) \/ Goto(t, "sleep") \/ Goto(t, "probe")
        BY <1>0, <4>1, MovesOn
      <4>2. CASE \E b : proc' = [proc EXCEPT ![t] = [@ EXCEPT !.pc = "claim", !.abandon = b]]
        BY <1>0, <4>2 DEF Moves, Proc
      <4> QED BY <3>1, <4>1, <4>2
    <3> QED BY <1>0, <2>1, <3>2, ReadKeeps DEF Wake, Pending
  <2>2. CASE Probe(t)
    <3>0. \/ Goto(t, "touch")
          \/ proc' = [proc EXCEPT ![t] = [@ EXCEPT !.pc = "claim", !.abandon = FALSE]]
      BY <2>2 DEF Probe
    <3>1. \E pc \in {"touch", "claim"} : Moves(t, pc, proc[t].copy)
      <4>1. CASE Goto(t, "touch")
        BY <1>0, <4>1, MovesOn
      <4>2. CASE proc' = [proc EXCEPT ![t] = [@ EXCEPT !.pc = "claim", !.abandon = FALSE]]
        BY <1>0, <4>2 DEF Moves, Proc
      <4> QED BY <3>0, <4>1, <4>2
    <3> QED BY <1>0, <2>2, <3>1, ReadKeeps DEF Probe
  <2>3. CASE Claim(t)
    <3> PICK r \in Seen(t) :
           IF r = NoRecord THEN Quit(t)
           ELSE IF ~r.pending \/ r.gen # proc[t].gen THEN Quit(t)
           ELSE IF ~Due(r) THEN Goto(t, "nap")
           ELSE Take(t, "flip", Flipped(r, proc[t].abandon))
      BY <2>3 DEF Claim
    <3>1. CASE Quit(t)
      BY <1>0, <2>3, <3>1, MovesOn, ReadKeeps DEF Claim, Pending
    <3>2. CASE Goto(t, "nap")
      BY <1>0, <2>3, <3>2, MovesOn, ReadKeeps DEF Claim
    <3>3. CASE r # NoRecord /\ r.pending /\ Take(t, "flip", Flipped(r, proc[t].abandon))
      <4>1. r = rec /\ Pending(rec) /\ proc[t].abandon \in BOOLEAN
        BY <1>0, <3>3, SeenTyped DEF Pending, Proc
      <4>2. Flipped(r, proc[t].abandon) # NoRecord /\ ~Pending(Flipped(r, proc[t].abandon))
        BY <1>0, <3>3, <4>1, FlippedTyped, NoRecordAssumption DEF Pending
      <4> QED BY <1>0, <2>3, <3>3, <4>1, <4>2, MovesOn, ReadKeeps DEF Claim
    <3> QED BY <3>1, <3>2, <3>3
  <2>4. CASE Flip(t) /\ proc[t].abandon
    BY <1>0, <2>4, MovesOn, WriteKeeps DEF Flip
  <2>5. CASE Flip(t) /\ ~proc[t].abandon
    <3>1. Moves(t, "spawn", NoRecord) /\ Put(t) /\ spawned' = spawned
      BY <1>0, <2>5, MovesOn DEF Flip
    <3>2. FlipHeld'
      BY <3>1 DEF FlipHeld, IInv, Moves, At, Pending
    <3>3. UpToDate'
      BY <3>1 DEF UpToDate, FlipHeld, IInv, Moves, At, Pending, Put, Holders
    <3>4. ASSUME ~lost' PROVE OneClaim'
      <4>1. ~lost /\ t \notin raced
        BY <3>1, <3>4 DEF Put
      <4>2. At(t, "flip")
        BY <2>5 DEF Flip
      <4>3. ~Claimed
        BY <4>1, <4>2 DEF IInv, UpToDate, OneClaim
      <4>4. ~Pending(rec')
        BY <3>1, <4>2 DEF Put, IInv, FlipHeld
      <4>5. spawned' = 0
        BY <3>1, <4>3 DEF Claimed, IInv, STypeOK
      <4> QED BY <3>1, <4>3, <4>4, <4>5 DEF OneClaim, Claimed, Moves, At, Pending
    <3> QED BY <3>2, <3>3, <3>4 DEF Kept
  <2>6. CASE Spawn(t) /\ Quit(t) /\ UNCHANGED spawned
    BY <1>0, <2>6, MovesOn, ReadKeeps DEF Spawn, Pending
  <2>7. CASE Spawn(t) /\ spawned' = (IF spawned < 2 THEN spawned + 1 ELSE spawned) /\ Goto(t, "stamp")
    <3>1. Moves(t, "stamp", proc[t].copy) /\ rec' = rec /\ lost' = lost /\ raced' = raced
      BY <1>0, <2>7, MovesOn DEF Spawn
    <3>2. FlipHeld'
      BY <3>1 DEF FlipHeld, IInv, Moves, At, Pending
    <3>3. UpToDate'
      BY <3>1 DEF UpToDate, IInv, Moves, At, Pending
    <3>4. ASSUME ~lost' PROVE OneClaim'
      <4>1. OneClaim /\ At(t, "spawn") /\ spawned \in 0..2
        BY <2>7, <3>1, <3>4 DEF Spawn, IInv, STypeOK
      <4>2. spawned = 0
        BY <4>1 DEF OneClaim
      <4> QED BY <2>7, <3>1, <4>1, <4>2 DEF OneClaim, Claimed, Moves, At, Pending
    <3> QED BY <3>2, <3>3, <3>4 DEF Kept
  <2>8. CASE Stamp(t)
    <3>1. Quit(t) \/ Take(t, "mark", rec)
      BY <1>0, <2>8, SeenTyped DEF Stamp
    <3> QED BY <1>0, <2>8, <3>1, MovesOn, ReadKeeps DEF Stamp, Pending
  <2>9. CASE Mark(t)
    BY <1>0, <2>9, MovesOn, WriteKeeps DEF Mark
  <2>10. CASE Touch(t)
    <3>1. \/ Goto(t, "sleep")
          \/ Pending(rec) /\ Take(t, "beat", [rec EXCEPT !.beat = 0])
      BY <1>0, <2>10, SeenTyped DEF Touch, Pending
    <3> QED BY <1>0, <2>10, <3>1, MovesOn, ReadKeeps DEF Touch
  <2>11. CASE Beat(t)
    BY <1>0, <2>11, MovesOn, WriteKeeps DEF Beat
  <2> QED BY <1>1, <2>1, <2>2, <2>3, <2>4, <2>5, <2>6, <2>7, <2>8, <2>9, <2>10, <2>11
          DEF TimerStep, Spawn
<1>2. ASSUME NEW w \in Writers, SweepRead(w) \/ EditRead(w) PROVE Kept
  <2> w \in Procs
    BY DEF Procs
  <2> DEFINE d(r) == [pc |-> "write", gen |-> NextGeneration(rec.gen), abandon |-> FALSE, copy |-> r]
  <2>1. PICK r : proc' = [proc EXCEPT ![w] = d(r)]
    BY <1>2 DEF SweepRead, EditRead
  <2>2. Moves(w, "write", r)
    <3>1. d(r).pc = "write" /\ d(r).copy = r
      OBVIOUS
    <3> QED BY <1>0, <2>1, <3>1, MovesOn
  <2>3. Pending(rec) /\ rec' = rec /\ UNCHANGED ghosts
    BY <1>2 DEF SweepRead, EditRead, Pending
  <2> QED BY <2>2, <2>3, ReadKeeps DEF ghosts
<1>3. ASSUME NEW w \in Writers, Write(w) PROVE Kept
  BY <1>0, <1>3, MovesOn, WriteKeeps DEF Write, Procs
<1>4. ASSUME NEW w \in Writers, NEW t \in Timers, Arm(w, t) PROVE Kept
  <2>1. \A q \in Procs : \/ proc'[q] = proc[q]
                         \/ proc'[q].pc \in {"nap", "idle", "done"} /\ proc'[q].copy = NoRecord
    BY <1>0, <1>4 DEF Arm, Absent, Procs
  <2>2. rec' = rec /\ UNCHANGED ghosts
    BY <1>4 DEF Arm
  <2>3. FlipHeld' /\ UpToDate'
    BY <2>1, <2>2 DEF IInv, FlipHeld, UpToDate, At, Pending
  <2>4. ASSUME ~lost' PROVE OneClaim'
    BY <2>1, <2>2, <2>4 DEF IInv, OneClaim, Claimed, At, Pending
  <2> QED BY <2>3, <2>4 DEF Kept
<1>5. ASSUME NEW p \in Procs, Dies(p) PROVE Kept
  <2>1. \E pc \in {"idle", "none", "done"} : Moves(p, pc, NoRecord)
    BY <1>0, <1>5, MovesOn DEF Dies, Moves, Absent, Proc
  <2> QED BY <1>5, <2>1, ReadKeeps DEF Dies, Pending
<1>6. CASE Cancel
  <2>1. FlipHeld'
    BY <1>6 DEF Cancel, IInv, FlipHeld, At, Pending
  <2>2. UpToDate'
    BY <1>6 DEF Cancel, IInv, FlipHeld, UpToDate, At, Pending, Holders
  <2>3. ASSUME ~lost' PROVE OneClaim'
    BY <1>6, <2>3 DEF Cancel, IInv, OneClaim, Claimed, At, Pending
  <2> QED BY <2>1, <2>2, <2>3 DEF Kept
<1>7. CASE Tick
  <2>1. \A q \in Procs : /\ proc'[q].copy = Older(proc[q].copy)
                         /\ proc'[q].pc = IF At(q, "sleep") THEN "nap" ELSE proc[q].pc
    BY <1>0, <1>7 DEF Tick, At, Proc
  <2>2. rec' = Older(rec) /\ UNCHANGED ghosts
    BY <1>7 DEF Tick
  <2>3. \A q \in Procs : /\ At(q, "flip")' <=> At(q, "flip")
                         /\ At(q, "spawn")' <=> At(q, "spawn")
                         /\ Pending(proc'[q].copy) <=> Pending(proc[q].copy)
                         /\ proc'[q].copy = NoRecord <=> proc[q].copy = NoRecord
    BY <1>0, <2>1, OlderTyped DEF At
  <2>4. Pending(rec') <=> Pending(rec)
    BY <1>0, <2>2, OlderTyped
  <2>5. FlipHeld' /\ UpToDate'
    BY <2>2, <2>3, <2>4 DEF IInv, FlipHeld, UpToDate, Pending
  <2>6. ASSUME ~lost' PROVE OneClaim'
    BY <2>2, <2>3, <2>4, <2>6 DEF IInv, OneClaim, Claimed, Pending
  <2> QED BY <2>5, <2>6 DEF Kept
<1>8. CASE UNCHANGED vars
  BY <1>8 DEF vars, Kept, IInv, FlipHeld, UpToDate, OneClaim, Claimed, At, Pending
<1> QED
  BY <1>1, <1>2, <1>3, <1>4, <1>5, <1>6, <1>7, <1>8 DEF Next, WriterStep, Writers
-----------------------------------------------------------------------------
(* The invariant is one of the specification.                                *)
THEOREM ScheduleInvariant == Spec => []IInv
<1>1. IInv /\ [Next]_vars => IInv'
  BY ScheduleTyped, ScheduleKept DEF IInv, Kept
<1> QED BY ScheduleInit, <1>1, PTL DEF Spec

(* Every variable of the schedule keeps its type.                             *)
THEOREM ScheduleTypes == Spec => []STypeOK
<1>1. IInv => STypeOK
  BY DEF IInv
<1> QED BY ScheduleInvariant, <1>1, PTL

(* A second session is spawned only after a write of a copy of a record that   *)
(* had been replaced (claim_transition_in has no lock).                       *)
THEOREM OnceWhenSerialised == Spec => []OnceIfSerialised
<1>1. IInv => OnceIfSerialised
  BY DEF IInv, STypeOK, OneClaim, OnceIfSerialised
<1> QED BY ScheduleInvariant, <1>1, PTL

(* No step of a settled schedule spawns anything or makes a record pending.    *)
LEMMA SettledStep == IInv /\ [Next]_vars /\ Settled => Settled' /\ UNCHANGED spawned
<1> SUFFICES ASSUME IInv, [Next]_vars, Settled PROVE Settled' /\ UNCHANGED spawned
  OBVIOUS
<1> USE DEF ghosts
<1>0. /\ proc \in [Procs -> Proc] /\ rec \in ScheduleRecord \cup {NoRecord}
      /\ \A p \in Procs : proc[p].copy \in ScheduleRecord \cup {NoRecord}
      /\ ~Pending(rec)
      /\ \A p \in Procs : ~Pending(proc[p].copy) /\ proc[p].pc \notin {"flip", "spawn"}
  BY DEF IInv, STypeOK, Proc, Settled
<1>1. ASSUME NEW p \in Procs, NEW pc, NEW c, Moves(p, pc, c), ~Pending(c), ~Pending(rec'),
             pc \notin {"flip", "spawn"}
      PROVE  Settled'
  BY <1>0, <1>1 DEF Settled, Moves, Pending
<1>2. ASSUME NEW p \in Procs, NEW pc, Moves(p, pc, NoRecord), Put(p), pc \notin {"flip", "spawn"}
      PROVE  Settled'
  BY <1>0, <1>1, <1>2 DEF Put, Pending
<1>3. ASSUME NEW t \in Timers, TimerStep(t) \/ Probe(t) PROVE Settled' /\ UNCHANGED spawned
  <2> t \in Procs
    BY DEF Procs
  <2>0. ~Flip(t) /\ ~Spawn(t)
    BY <1>0 DEF Flip, Spawn, At
  <2>1. CASE Wake(t)
    <3>1. \E pc \in {"none", "sleep", "probe", "claim"} :
             Moves(t, pc, NoRecord) \/ Moves(t, pc, proc[t].copy)
      <4>1. CASE Quit(t) \/ Goto(t, "sleep") \/ Goto(t, "probe")
        BY <1>0, <4>1, MovesOn
      <4>2. CASE \E b : proc' = [proc EXCEPT ![t] = [@ EXCEPT !.pc = "claim", !.abandon = b]]
        BY <1>0, <4>2 DEF Moves, Proc
      <4> QED BY <2>1, <4>1, <4>2 DEF Wake
    <3> QED BY <1>0, <1>1, <2>1, <3>1 DEF Wake, Pending
  <2>2. CASE Probe(t)
    <3>1. \E pc \in {"touch", "claim"} : Moves(t, pc, proc[t].copy)
      <4>1. CASE Goto(t, "touch")
        BY <1>0, <4>1, MovesOn
      <4>2. CASE proc' = [proc EXCEPT ![t] = [@ EXCEPT !.pc = "claim", !.abandon = FALSE]]
        BY <1>0, <4>2 DEF Moves, Proc
      <4> QED BY <2>2, <4>1, <4>2 DEF Probe
    <3> QED BY <1>0, <1>1, <2>2, <3>1 DEF Probe
  <2>3. CASE Claim(t)
    <3>1. \E r \in Seen(t) : Quit(t) \/ Goto(t, "nap") \/ (r # NoRecord /\ r.pending)
      BY <2>3 DEF Claim
    <3>2. Quit(t) \/ Goto(t, "nap")
      BY <1>0, <3>1, SeenTyped DEF Pending
    <3> QED BY <1>0, <1>1, <2>3, <3>2, MovesOn DEF Claim, Pending
  <2>4. CASE Stamp(t)
    <3>1. Quit(t) \/ Take(t, "mark", rec)
      BY <1>0, <2>4, SeenTyped DEF Stamp
    <3> QED BY <1>0, <1>1, <2>4, <3>1, MovesOn DEF Stamp, Pending
  <2>5. CASE Mark(t)
    BY <1>0, <1>2, <2>5, MovesOn DEF Mark
  <2>6. CASE Touch(t)
    <3>1. \E r \in Seen(t) : Goto(t, "sleep") \/ (r # NoRecord /\ r.pending)
      BY <2>6 DEF Touch
    <3>2. Goto(t, "sleep")
      BY <1>0, <3>1, SeenTyped DEF Pending
    <3> QED BY <1>0, <1>1, <2>6, <3>2, MovesOn DEF Touch
  <2>7. CASE Beat(t)
    BY <1>0, <1>2, <2>7, MovesOn DEF Beat
  <2> QED BY <1>3, <2>0, <2>1, <2>2, <2>3, <2>4, <2>5, <2>6, <2>7 DEF TimerStep
<1>4. ASSUME NEW w \in Writers PROVE ~SweepRead(w) /\ ~EditRead(w)
  BY <1>0 DEF SweepRead, EditRead, Pending
<1>5. ASSUME NEW w \in Writers, Write(w) PROVE Settled' /\ UNCHANGED spawned
  BY <1>0, <1>2, <1>5, MovesOn DEF Write, Procs
<1>6. ASSUME NEW w \in Writers, NEW t \in Timers, Arm(w, t) PROVE Settled' /\ UNCHANGED spawned
  <2>1. \A q \in Procs : \/ proc'[q] = proc[q]
                         \/ proc'[q].pc \in {"nap", "idle", "done"} /\ proc'[q].copy = NoRecord
    BY <1>0, <1>6 DEF Arm, Absent, Procs
  <2> QED BY <1>0, <1>6, <2>1 DEF Arm, Settled, Pending
<1>7. ASSUME NEW p \in Procs, Dies(p) PROVE Settled' /\ UNCHANGED spawned
  <2>1. \E pc \in {"idle", "none", "done"} : Moves(p, pc, NoRecord)
    BY <1>0, <1>7, MovesOn DEF Dies, Moves, Absent, Proc
  <2> QED BY <1>0, <1>1, <1>7, <2>1 DEF Dies, Pending
<1>8. CASE Cancel
  BY <1>0, <1>8 DEF Cancel, Settled, Pending
<1>9. CASE Tick
  <2>1. \A q \in Procs : /\ proc'[q].copy = Older(proc[q].copy)
                         /\ proc'[q].pc = IF At(q, "sleep") THEN "nap" ELSE proc[q].pc
    BY <1>0, <1>9 DEF Tick, At, Proc
  <2>2. ~Pending(rec') /\ UNCHANGED spawned
    BY <1>0, <1>9, OlderTyped DEF Tick
  <2>3. \A q \in Procs : ~Pending(proc'[q].copy) /\ proc'[q].pc \notin {"flip", "spawn"}
    BY <1>0, <2>1, OlderTyped
  <2> QED BY <2>2, <2>3 DEF Settled, Pending
<1>10. CASE UNCHANGED vars
  BY <1>10 DEF vars, Settled, Pending
<1> QED
  BY <1>3, <1>4, <1>5, <1>6, <1>7, <1>8, <1>9, <1>10 DEF Next, WriterStep, Writers

(* Fired, abandoned or cancelled is for good.                                  *)
THEOREM SettledStays == Spec => SettledForGood
<1>1. IInv /\ [Next]_vars => [Settled => Settled' /\ UNCHANGED spawned]_vars
  BY SettledStep
<1> QED BY ScheduleInvariant, <1>1, PTL DEF Spec, SettledForGood
=============================================================================
