-------------------------- MODULE AgentLoop_proofs --------------------------
(***************************************************************************)
(* Proofs about AgentLoop, for any number of timers, sweeps and edits and  *)
(* any interval and limit: its types, that an iteration over the limit     *)
(* needs a write of a copy that was out of date, and that a loop that is   *)
(* gone stays gone.                                                        *)
(***************************************************************************)
EXTENDS AgentLoop, FiniteSetTheorems, TLAPS

\* Who is going to write has a record to write.
CopyPC == {"fire", "pass", "mark", "write"}
CopyHeld == \A p \in Procs : proc[p].pc \in CopyPC => proc[p].copy # NoRecord

\* An up-to-date copy counts as many iterations as the record, and one more for the
\* claim it is going to write, which the record has room for.
UpToDate ==
  \A p \in Procs \ raced : proc[p].copy # NoRecord =>
    /\ rec # NoRecord /\ proc[p].copy.done = rec.done + (IF At(p, "fire") THEN 1 ELSE 0)
    /\ At(p, "fire") => Live(rec)

\* The record counts the iterations that were, or are about to be, spawned.
Counted == spawned + Cardinality(Spawners) <= IF rec = NoRecord THEN MAX_ITERATIONS ELSE rec.done

IInv == LTypeOK /\ CopyHeld /\ UpToDate /\ (~lost => Counted)
-----------------------------------------------------------------------------
(* Ageing keeps a record a record, its count of iterations and its limit.    *)
LEMMA OlderTyped ==
  ASSUME NEW r \in LoopRecord \cup {NoRecord}
  PROVE  /\ Older(r) \in LoopRecord \cup {NoRecord}
         /\ Older(r) = NoRecord <=> r = NoRecord
         /\ r # NoRecord => Older(r).done = r.done /\ Older(r).max = r.max
<1>1. CASE r = NoRecord
  BY <1>1 DEF Older
<1>2. CASE r \in LoopRecord
  <2>1. r.left > -(STRANDED+1) => r.left - 1 \in -(STRANDED+1)..INTERVAL
    BY <1>2, LoopAssumption DEF LoopRecord
  <2>2. r.left > -(STRANDED+1) => [r EXCEPT !.left = r.left - 1] \in LoopRecord
    BY <1>2, <2>1 DEF LoopRecord
  <2>3. Older(r) \in LoopRecord /\ Older(r).done = r.done /\ Older(r).max = r.max
    BY <1>2, <2>2 DEF Older, LoopRecord
  <2> QED BY <1>2, <2>3, NoRecordAssumption
<1> QED BY <1>1, <1>2

(* What a process reads is the record or nothing.                            *)
LEMMA SeenTyped ==
  ASSUME rec \in LoopRecord \cup {NoRecord}, NEW p \in Procs, NEW r \in Seen(p)
  PROVE  r \in {rec, NoRecord} /\ r \in LoopRecord \cup {NoRecord}
  BY DEF Seen

(* A skip moves a record on; an iteration counts it too.                      *)
LEMMA ClaimTyped ==
  ASSUME NEW r \in LoopRecord
  PROVE  /\ Skipped(r) \in LoopRecord /\ Skipped(r).done = r.done
         /\ Live(r) => Iterated(r) \in LoopRecord /\ Iterated(r).done = r.done + 1
<1>1. NextGeneration(r.gen) \in 0..GENERATIONS-1 /\ INTERVAL \in -(STRANDED+1)..INTERVAL
  BY LoopAssumption DEF NextGeneration, LoopRecord
<1>2. Skipped(r) \in LoopRecord /\ Skipped(r).done = r.done
  BY <1>1 DEF Skipped, LoopRecord
<1>3. ASSUME Live(r) PROVE r.done + 1 \in 0..MAX_ITERATIONS
  BY <1>3, LoopAssumption DEF Live, LoopRecord
<1> QED BY <1>2, <1>3 DEF Iterated, LoopRecord

(* An edited record is a record with the count it had.                         *)
LEMMA EditTyped ==
  ASSUME NEW r \in LoopRecord, NEW n \in {r.left, INTERVAL}, NEW m \in 1..MAX_ITERATIONS
  PROVE  /\ NextGeneration(r.gen) \in 0..GENERATIONS-1
         /\ [r EXCEPT !.gen = NextGeneration(@), !.left = n, !.max = m] \in LoopRecord
         /\ [r EXCEPT !.gen = NextGeneration(@), !.left = n, !.max = m].done = r.done
<1>1. NextGeneration(r.gen) \in 0..GENERATIONS-1 /\ n \in -(STRANDED+1)..INTERVAL
  BY LoopAssumption DEF NextGeneration, LoopRecord
<1> QED BY <1>1 DEF LoopRecord

\* p is at pc with copy c and generation g afterwards, everybody else as they were.
Moves(p, pc, g, c) == proc' = [proc EXCEPT ![p] = [pc |-> pc, gen |-> g, copy |-> c]]

(* What the four ways of moving on do to a process.                            *)
LEMMA MovesOn ==
  ASSUME proc \in [Procs -> Proc], NEW p \in Procs
  PROVE  /\ \A pc : Goto(p, pc) => Moves(p, pc, proc[p].gen, proc[p].copy)
         /\ \A pc, r : Take(p, pc, r) => Moves(p, pc, proc[p].gen, r)
         /\ \A pc : Drive(p, pc) => Moves(p, pc, proc[p].copy.gen, NoRecord)
         /\ Quit(p) => Moves(p, IF p \in Timers THEN "none" ELSE "done", 0, NoRecord)
<1>0. proc[p] \in Proc
  OBVIOUS
<1>1. ASSUME NEW pc PROVE [proc[p] EXCEPT !.pc = pc] = [pc |-> pc, gen |-> proc[p].gen, copy |-> proc[p].copy]
  BY <1>0 DEF Proc
<1> QED BY <1>1 DEF Moves, Goto, Take, Drive, Quit, Absent

(* A process that has moved is a process.                                      *)
LEMMA MovesTyped ==
  ASSUME proc \in [Procs -> Proc], NEW p \in Procs,
         NEW pc \in TimerPC \cup {"idle", "write", "arm", "done"},
         NEW g \in 0..GENERATIONS-1, NEW c \in LoopRecord \cup {NoRecord}, Moves(p, pc, g, c)
  PROVE  /\ proc' \in [Procs -> Proc]
         /\ proc'[p].pc = pc /\ proc'[p].copy = c
         /\ \A q \in Procs : q # p => proc'[q] = proc[q]
  BY DEF Moves, Proc

\* Every process that may move moves in its type.
LEMMA Typed ==
  ASSUME LTypeOK, NEW p \in Procs
  PROVE  /\ proc \in [Procs -> Proc] /\ rec \in LoopRecord \cup {NoRecord}
         /\ proc[p].gen \in 0..GENERATIONS-1 /\ 0 \in 0..GENERATIONS-1
         /\ proc[p].copy \in LoopRecord \cup {NoRecord}
         /\ proc[p].copy # NoRecord => proc[p].copy.gen \in 0..GENERATIONS-1
  BY LoopAssumption DEF LTypeOK, Proc, LoopRecord
-----------------------------------------------------------------------------
Step(p, pc, g, c) ==
  /\ Moves(p, pc, g, c)
  /\ g \in 0..GENERATIONS-1 /\ c \in LoopRecord \cup {NoRecord}

(* A process that replaces the record by a record keeps every type.             *)
LEMMA PutTyped ==
  ASSUME LTypeOK, NEW p \in Procs, NEW r \in LoopRecord \cup {NoRecord}, Put(p, r)
  PROVE  rec' \in LoopRecord \cup {NoRecord} /\ lost' \in BOOLEAN /\ raced' \subseteq Procs
  BY DEF LTypeOK, Put, Holders

(* The step of a timer, as a move of that timer.                                *)
LEMMA TimerMoves ==
  ASSUME LTypeOK, CopyHeld, NEW t \in Timers, TimerStep(t)
  PROVE  \E pc \in TimerPC : \E g, c : Step(t, pc, g, c)
<1> t \in Procs
  BY DEF Procs
<1> USE MovesOn, Typed DEF Step, TimerPC
<1>1. CASE Wake(t)
  BY <1>1 DEF Wake
<1>2. CASE Probe(t)
  BY <1>2 DEF Probe
<1>3. CASE Claim(t)
  <2> PICK r \in Seen(t) :
        IF Grants(t, r) THEN Take(t, "fire", Iterated(r)) ELSE Refused(t, r)
    BY <1>3 DEF Claim
  <2>1. Grants(t, r) => Iterated(r) \in LoopRecord
    BY SeenTyped, ClaimTyped DEF Grants
  <2> QED BY <2>1 DEF Refused
<1>4. CASE Fire(t)
  BY <1>4 DEF Fire, CopyHeld, CopyPC, At
<1>5. CASE Skip(t)
  <2> PICK r \in Seen(t) :
        IF Grants(t, r) THEN Take(t, "pass", Skipped(r)) ELSE Refused(t, r)
    BY <1>5 DEF Skip
  <2>1. Grants(t, r) => Skipped(r) \in LoopRecord
    BY SeenTyped, ClaimTyped DEF Grants
  <2> QED BY <2>1 DEF Refused
<1>6. CASE Pass(t)
  BY <1>6 DEF Pass, CopyHeld, CopyPC, At
<1>7. CASE Spawn(t)
  BY <1>7 DEF Spawn
<1>8. CASE Stamp(t)
  BY <1>8, SeenTyped DEF Stamp
<1>9. CASE Mark(t)
  BY <1>9 DEF Mark
<1>10. CASE Retire(t)
  BY <1>10 DEF Retire
<1> QED BY <1>1, <1>2, <1>3, <1>4, <1>5, <1>6, <1>7, <1>8, <1>9, <1>10 DEF TimerStep
-----------------------------------------------------------------------------
(* The initial state satisfies the invariant.                                *)
LEMMA LoopInit == Init => IInv
<1> SUFFICES ASSUME Init PROVE IInv
  OBVIOUS
<1>1. rec \in LoopRecord /\ rec.done = 0
  BY LoopAssumption DEF Init, LoopRecord
<1>2. \A pc \in {"none", "arm", "idle"} : Absent(pc) \in Proc /\ Absent(pc).pc = pc
                                          /\ Absent(pc).copy = NoRecord
  BY LoopAssumption DEF Absent, Proc, TimerPC
<1>3. /\ proc \in [Procs -> Proc]
      /\ \A p \in Procs : proc[p].pc \in {"none", "arm", "idle"} /\ proc[p].copy = NoRecord
  BY <1>2 DEF Init
<1>4. LTypeOK
  <2>1. crashes = 0 /\ spawned = 0 /\ raced = {} /\ lost = FALSE
    BY DEF Init
  <2>2. crashes \in 0..MAX_CRASHES /\ spawned \in 0..MAX_ITERATIONS+1
    BY <2>1, LoopAssumption
  <2>3. raced \subseteq Procs /\ lost \in BOOLEAN
    BY <2>1, Zenon
  <2> QED BY <1>1, <1>3, <2>2, <2>3 DEF LTypeOK
<1>5. CopyHeld /\ UpToDate
  BY <1>3 DEF CopyHeld, CopyPC, UpToDate, At
<1>6. Counted
  <2>1. Spawners = {}
    BY <1>3 DEF Spawners, At, Procs
  <2> QED BY <1>1, <2>1, FS_EmptySet, NoRecordAssumption DEF Init, Counted
<1> QED BY <1>4, <1>5, <1>6 DEF IInv
-----------------------------------------------------------------------------
(* Every action keeps the variables in their types.                          *)
LEMMA LoopTyped == LTypeOK /\ CopyHeld /\ [Next]_vars => LTypeOK'
<1> SUFFICES ASSUME LTypeOK, CopyHeld, [Next]_vars PROVE LTypeOK'
  OBVIOUS
<1> USE DEF ghosts
<1>0. /\ crashes \in 0..MAX_CRASHES /\ spawned \in 0..MAX_ITERATIONS+1
      /\ raced \subseteq Procs /\ lost \in BOOLEAN
  BY DEF LTypeOK
<1>1. ASSUME NEW t \in Timers, TimerStep(t) PROVE LTypeOK'
  <2> t \in Procs
    BY DEF Procs
  <2>1. proc' \in [Procs -> Proc]
    BY <1>1, TimerMoves, MovesTyped, Typed DEF Step
  <2>2. ASSUME NEW r \in LoopRecord \cup {NoRecord}, Put(t, r), UNCHANGED <<crashes, spawned>>
        PROVE  LTypeOK'
    BY <1>0, <2>1, <2>2, PutTyped DEF LTypeOK
  <2>3. ASSUME UNCHANGED <<rec, crashes, ghosts>> PROVE LTypeOK'
    BY <1>0, <2>1, <2>3 DEF LTypeOK
  <2>4. CASE Wake(t) \/ Probe(t) \/ Claim(t) \/ Skip(t) \/ Stamp(t)
    BY <2>3, <2>4 DEF Wake, Probe, Claim, Skip, Stamp
  <2>5. CASE Fire(t) \/ Pass(t) \/ Mark(t)
    BY <2>2, <2>5, Typed DEF Fire, Pass, Mark
  <2>6. CASE Spawn(t)
    <3>1. spawned' \in 0..MAX_ITERATIONS+1
      BY <1>0, <2>6, LoopAssumption DEF Spawn
    <3> QED BY <1>0, <2>1, <2>6, <3>1 DEF Spawn, LTypeOK
  <2>7. CASE Retire(t)
    BY <1>0, <2>1, <2>7 DEF Retire, LTypeOK, Holders
  <2> QED BY <1>1, <2>4, <2>5, <2>6, <2>7 DEF TimerStep
<1>2. ASSUME NEW w \in Writers, Sweep(w) PROVE LTypeOK'
  <2>1. rec \in LoopRecord /\ w \in Procs
    BY <1>2 DEF Sweep, LTypeOK, Procs
  <2>2. [Absent("arm") EXCEPT !.gen = rec.gen] \in Proc
    BY <2>1 DEF Absent, Proc, LoopRecord
  <2>3. proc' \in [Procs -> Proc]
    BY <1>2, <2>1, <2>2 DEF Sweep, LTypeOK
  <2> QED BY <1>0, <1>2, <2>3 DEF Sweep, LTypeOK
<1>3. ASSUME NEW w \in Writers, EditRead(w) PROVE LTypeOK'
  <2>1. rec \in LoopRecord /\ w \in Procs
    BY <1>3 DEF EditRead, LTypeOK, Procs
  <2>2. ASSUME NEW r \in LoopRecord
        PROVE  [pc |-> "write", gen |-> NextGeneration(rec.gen), copy |-> r] \in Proc
    <3>1. NextGeneration(rec.gen) \in 0..GENERATIONS-1
      BY <2>1, LoopAssumption DEF NextGeneration, LoopRecord
    <3> QED BY <3>1 DEF Proc
  <2>3. PICK n \in {rec.left, INTERVAL}, m \in 1..MAX_ITERATIONS :
          proc' = [proc EXCEPT ![w] = [pc |-> "write", gen |-> NextGeneration(rec.gen),
            copy |-> [rec EXCEPT !.gen = NextGeneration(@), !.left = n, !.max = m]]]
    BY <1>3 DEF EditRead
  <2>4. proc' \in [Procs -> Proc]
    BY <2>1, <2>2, <2>3, EditTyped DEF LTypeOK
  <2> QED BY <1>0, <1>3, <2>4 DEF EditRead, LTypeOK
<1>4. ASSUME NEW w \in Writers, Write(w) PROVE LTypeOK'
  <2>1. w \in Procs
    BY DEF Procs
  <2>2. proc' \in [Procs -> Proc]
    <3>1. /\ proc \in [Procs -> Proc] /\ proc[w].gen \in 0..GENERATIONS-1
      BY <2>1, Typed
    <3>2. Moves(w, "arm", proc[w].gen, NoRecord)
      BY <1>4 DEF Write, Take, Moves
    <3> QED BY <2>1, <3>1, <3>2, MovesTyped
  <2> QED BY <1>0, <1>4, <2>1, <2>2, PutTyped, Typed DEF Write, LTypeOK
<1>5. ASSUME NEW w \in Writers, NEW t \in Timers, Arm(w, t) PROVE LTypeOK'
  <2>1. w \in Procs /\ t \in Procs
    BY DEF Procs
  <2>2. \A pc \in {"nap", "idle", "done"} : Absent(pc) \in Proc
    BY LoopAssumption DEF Absent, Proc, TimerPC
  <2>3. [Absent("nap") EXCEPT !.gen = proc[w].gen] \in Proc
    BY <2>1, <2>2, Typed DEF Proc
  <2>4. proc' \in [Procs -> Proc]
    BY <1>5, <2>1, <2>2, <2>3 DEF Arm, LTypeOK
  <2> QED BY <1>0, <1>5, <2>4 DEF Arm, LTypeOK
<1>6. ASSUME NEW p \in Procs, Dies(p) PROVE LTypeOK'
  <2>1. Absent("idle") \in Proc /\ Absent("none") \in Proc /\ Absent("done") \in Proc
    BY LoopAssumption DEF Absent, Proc, TimerPC
  <2>2. proc' \in [Procs -> Proc]
    BY <1>6, <2>1 DEF Dies, Quit, LTypeOK
  <2>3. crashes' \in 0..MAX_CRASHES
    BY <1>0, <1>6, LoopAssumption DEF Dies
  <2> QED BY <1>0, <1>6, <2>2, <2>3 DEF Dies, LTypeOK
<1>7. CASE Stop
  BY <1>7 DEF Stop, LTypeOK, Holders
<1>8. CASE Tick
  <2>1. ASSUME NEW p \in Procs
        PROVE  [proc[p] EXCEPT !.copy = Older(@), !.pc = IF @ = "sleep" THEN "nap" ELSE @] \in Proc
    <3>1. proc[p] \in Proc /\ Older(proc[p].copy) \in LoopRecord \cup {NoRecord}
      BY OlderTyped DEF LTypeOK, Proc
    <3> QED BY <3>1 DEF Proc, TimerPC
  <2>2. proc' \in [Procs -> Proc]
    BY <1>8, <2>1 DEF Tick
  <2> QED BY <1>8, <2>2, OlderTyped DEF Tick, LTypeOK
<1>9. CASE UNCHANGED vars
  BY <1>9 DEF vars, LTypeOK
<1> QED
  BY <1>1, <1>2, <1>3, <1>4, <1>5, <1>6, <1>7, <1>8, <1>9 DEF Next, WriterStep, Writers
-----------------------------------------------------------------------------
Kept == CopyHeld' /\ UpToDate' /\ (~lost' => Counted')

(* The timers that hold a claim are finitely many.                             *)
LEMMA SpawnersCounted ==
  /\ IsFiniteSet(Spawners) /\ Cardinality(Spawners) \in Nat
  /\ \A S \in SUBSET Spawners : Cardinality(S) \in Nat /\ Cardinality(S) <= Cardinality(Spawners)
<1>1. IsFiniteSet(Spawners)
  BY LoopAssumption, FS_Subset DEF Spawners
<1> QED BY <1>1, FS_Subset, FS_CardinalityType

(* Fewer claims held, as many iterations spawned, and the record counts no less. *)
LEMMA CountedStill ==
  ASSUME IInv, Counted, LTypeOK', Spawners' \subseteq Spawners, spawned' = spawned,
         rec' # NoRecord => rec # NoRecord /\ rec'.done = rec.done
  PROVE  Counted'
<1>1. Cardinality(Spawners') \in Nat /\ Cardinality(Spawners') <= Cardinality(Spawners)
  BY SpawnersCounted
<1>2. spawned \in Nat /\ MAX_ITERATIONS \in Nat
  BY LoopAssumption DEF IInv, LTypeOK
<1>3. rec # NoRecord => rec.done \in 0..MAX_ITERATIONS
  BY DEF IInv, LTypeOK, LoopRecord
<1>4. Cardinality(Spawners) \in Nat
  BY SpawnersCounted
<1> QED BY <1>1, <1>2, <1>3, <1>4 DEF Counted

(* A process that does not touch the record, and takes a copy of it if it does.  *)
LEMMA ReadKeeps ==
  ASSUME IInv, LTypeOK', NEW p \in Procs, NEW pc \in TimerPC \cup {"idle", "write", "arm", "done"},
         NEW g, NEW c, Step(p, pc, g, c),
         rec' = rec, spawned' = spawned, lost' = lost, raced \ {p} \subseteq raced', pc # "spawn",
         pc \in CopyPC => c # NoRecord,
         p \notin raced' /\ c # NoRecord =>
           /\ rec # NoRecord /\ c.done = rec.done + (IF pc = "fire" THEN 1 ELSE 0)
           /\ pc = "fire" => Live(rec)
  PROVE  Kept
<1>0. /\ proc'[p].pc = pc /\ proc'[p].copy = c
      /\ \A q \in Procs : q # p => proc'[q] = proc[q]
  BY MovesTyped DEF Step, IInv, LTypeOK
<1>1. CopyHeld'
  BY <1>0 DEF IInv, CopyHeld, CopyPC, At
<1>2. UpToDate'
  BY <1>0 DEF IInv, UpToDate, At
<1>3. Spawners' \subseteq Spawners
  BY <1>0 DEF Spawners, At, Procs
<1>4. ASSUME ~lost' PROVE Counted'
  BY <1>3, <1>4, CountedStill DEF IInv
<1> QED BY <1>1, <1>2, <1>4 DEF Kept

(* A process that replaces the record by one with as many iterations.            *)
LEMMA WriteKeeps ==
  ASSUME IInv, LTypeOK', NEW p \in Procs, NEW pc \in TimerPC \cup {"idle", "write", "arm", "done"},
         NEW g, Step(p, pc, g, NoRecord), NEW r, Put(p, r),
         spawned' = spawned, pc \notin CopyPC \cup {"spawn"},
         p \notin raced => r # NoRecord /\ rec # NoRecord /\ r.done = rec.done
  PROVE  Kept
<1>0. /\ proc'[p].pc = pc /\ proc'[p].copy = NoRecord
      /\ \A q \in Procs : q # p => proc'[q] = proc[q]
  BY MovesTyped DEF Step, IInv, LTypeOK
<1>1. CopyHeld'
  BY <1>0 DEF IInv, CopyHeld, CopyPC, At
<1>2. UpToDate'
  BY <1>0 DEF UpToDate, Put, Holders, At
<1>3. Spawners' \subseteq Spawners
  BY <1>0 DEF Spawners, At, Procs
<1>4. ASSUME ~lost' PROVE Counted'
  <2>1. ~lost /\ p \notin raced /\ rec' = r
    BY <1>4 DEF Put
  <2> QED BY <1>3, <2>1, CountedStill DEF IInv
<1> QED BY <1>1, <1>2, <1>4 DEF Kept

(* A claim that is written counts the iteration it gives out.                   *)
LEMMA FireKeeps == ASSUME IInv, LTypeOK', NEW t \in Timers, Fire(t) PROVE Kept
<1> DEFINE c == proc[t].copy
           r == IF Live(c) THEN c ELSE NoRecord
<1>1. t \in Procs /\ At(t, "fire") /\ c # NoRecord /\ c \in LoopRecord /\ Put(t, r) /\ spawned' = spawned
  BY Typed DEF Fire, IInv, CopyHeld, CopyPC, At, Procs
<1>2. /\ proc'[t].pc = "spawn" /\ proc'[t].copy = NoRecord
      /\ \A q \in Procs : q # t => proc'[q] = proc[q]
  <2>1. Step(t, "spawn", c.gen, NoRecord)
    BY <1>1, MovesOn, Typed DEF Fire, Step, IInv
  <2> QED BY <1>1, <2>1, MovesTyped, Typed DEF Step, IInv, TimerPC
<1> HIDE DEF c, r
<1>3. CopyHeld'
  BY <1>2 DEF IInv, CopyHeld, CopyPC, At
<1>4. UpToDate'
  BY <1>1, <1>2 DEF UpToDate, Put, Holders, At
<1>5. ASSUME ~lost' PROVE Counted'
  <2>1. ~lost /\ t \notin raced /\ rec' = r
    BY <1>1, <1>5 DEF Put
  <2>2. rec # NoRecord /\ c.done = rec.done + 1
    BY <1>1, <2>1 DEF IInv, UpToDate, c
  <2>3. Spawners' = Spawners \cup {t} /\ t \notin Spawners
    BY <1>1, <1>2 DEF Spawners, At, Procs
  <2>4. Cardinality(Spawners') = Cardinality(Spawners) + 1
    BY <2>3, SpawnersCounted, FS_AddElement
  <2>5. c.done \in 0..MAX_ITERATIONS /\ (rec' # NoRecord => rec'.done = c.done)
    BY <1>1, <2>1 DEF r, LoopRecord
  <2>6. spawned + Cardinality(Spawners) <= rec.done /\ rec.done \in Nat
    BY <2>1, <2>2 DEF IInv, Counted, LTypeOK, LoopRecord
  <2>7. spawned \in Nat /\ Cardinality(Spawners) \in Nat
    BY SpawnersCounted DEF IInv, LTypeOK
  <2> QED BY <1>1, <2>2, <2>4, <2>5, <2>6, <2>7, LoopAssumption DEF Counted
<1> QED BY <1>3, <1>4, <1>5 DEF Kept

(* A session that starts turns a claim into an iteration.                        *)
LEMMA SpawnKeeps == ASSUME IInv, LTypeOK', NEW t \in Timers, Spawn(t) PROVE Kept
<1> t \in Procs
  BY DEF Procs
<1>1. CASE spawned' = spawned /\ Goto(t, "nap")
  <2>1. Step(t, "nap", proc[t].gen, proc[t].copy)
    BY <1>1, MovesOn, Typed DEF Step, IInv
  <2>2. t \notin raced /\ proc[t].copy # NoRecord =>
          rec # NoRecord /\ proc[t].copy.done = rec.done
    BY DEF IInv, UpToDate, Spawn, At, LTypeOK, LoopRecord
  <2> QED BY <1>1, <2>1, <2>2, ReadKeeps DEF Spawn, TimerPC, CopyPC, IInv, LTypeOK, LoopRecord
<1>2. CASE spawned' = (IF spawned <= MAX_ITERATIONS THEN spawned + 1 ELSE spawned) /\ Goto(t, "stamp")
  <2>1. /\ proc'[t].pc = "stamp" /\ proc'[t].copy = proc[t].copy
        /\ \A q \in Procs : q # t => proc'[q] = proc[q]
    <3>1. Step(t, "stamp", proc[t].gen, proc[t].copy)
      BY <1>2, MovesOn, Typed DEF Step, IInv
    <3> QED BY <3>1, MovesTyped, Typed DEF Step, IInv, TimerPC
  <2>2. At(t, "spawn") /\ rec' = rec /\ lost' = lost /\ raced' = raced
    BY DEF Spawn
  <2>3. CopyHeld' /\ UpToDate'
    BY <2>1, <2>2 DEF IInv, CopyHeld, CopyPC, UpToDate, At
  <2>4. ASSUME ~lost' PROVE Counted'
    <3>1. Spawners' = Spawners \ {t} /\ t \in Spawners
      BY <2>1, <2>2 DEF Spawners, At, Procs
    <3>2. Cardinality(Spawners') = Cardinality(Spawners) - 1
      BY <3>1, SpawnersCounted, FS_RemoveElement
    <3>3. spawned \in Nat /\ Cardinality(Spawners) \in Nat
      BY SpawnersCounted DEF IInv, LTypeOK
    <3>4. Counted
      BY <2>2, <2>4 DEF IInv
    <3>5. spawned' <= spawned + 1 /\ spawned' \in Nat
      BY <1>2, <3>3, LoopAssumption
    <3>6. (IF rec = NoRecord THEN MAX_ITERATIONS ELSE rec.done) \in Nat
      BY LoopAssumption DEF IInv, LTypeOK, LoopRecord
    <3> QED BY <2>2, <3>2, <3>3, <3>4, <3>5, <3>6 DEF Counted
  <2> QED BY <2>3, <2>4 DEF Kept
<1> QED BY <1>1, <1>2 DEF Spawn

(* Removing the record leaves no up-to-date copy, and keeps the count.           *)
LEMMA GoneKeeps ==
  ASSUME IInv, LTypeOK', rec' = NoRecord, lost' = lost, spawned' = spawned,
         raced' = raced \cup Holders,
         \A q \in Procs : \/ proc'[q] = proc[q]
                          \/ proc'[q].pc \in {"none", "done"} /\ proc'[q].copy = NoRecord
  PROVE  Kept
<1>1. CopyHeld' /\ UpToDate'
  BY DEF IInv, CopyHeld, CopyPC, UpToDate, At, Holders
<1>2. Spawners' \subseteq Spawners
  BY DEF Spawners, At, Procs
<1>3. ASSUME ~lost' PROVE Counted'
  BY <1>2, <1>3, CountedStill DEF IInv
<1> QED BY <1>1, <1>3 DEF Kept

(* Every action keeps the count while writes are of up-to-date copies.           *)
LEMMA LoopKept == IInv /\ LTypeOK' /\ [Next]_vars => Kept
<1> SUFFICES ASSUME IInv, LTypeOK', [Next]_vars PROVE Kept
  OBVIOUS
<1> USE DEF ghosts
<1>0. /\ LTypeOK /\ CopyHeld
      /\ \A p \in Procs : p \notin raced /\ proc[p].copy # NoRecord /\ ~At(p, "fire") =>
           rec # NoRecord /\ proc[p].copy.done = rec.done
      /\ rec # NoRecord => rec \in LoopRecord /\ rec.done \in Nat
  BY DEF IInv, UpToDate, LTypeOK, LoopRecord
<1>1. ASSUME NEW p \in Procs, NEW pc \in TimerPC, pc \notin CopyPC \cup {"spawn"},
             Goto(p, pc) \/ Quit(p), ~At(p, "fire"), UNCHANGED <<rec, ghosts>>
      PROVE  Kept
  <2>1. CASE Goto(p, pc)
    <3>1. Step(p, pc, proc[p].gen, proc[p].copy)
      BY <1>0, <2>1, MovesOn, Typed DEF Step
    <3> QED BY <1>0, <1>1, <3>1, ReadKeeps DEF CopyPC
  <2>2. CASE Quit(p)
    <3>1. PICK d \in {"none", "done"} : Step(p, d, 0, NoRecord)
      BY <1>0, <2>2, MovesOn, Typed DEF Step
    <3>2. d \in TimerPC \cup {"idle", "write", "arm", "done"} /\ d \notin CopyPC \cup {"spawn"}
      BY <3>1 DEF TimerPC, CopyPC
    <3> QED BY <1>0, <1>1, <3>1, <3>2, ReadKeeps
  <2> QED BY <1>1, <2>1, <2>2
<1>2. ASSUME NEW p \in Procs, NEW pc \in TimerPC \cup {"arm"}, NEW g \in 0..GENERATIONS-1,
             Moves(p, pc, g, NoRecord), pc \notin CopyPC \cup {"spawn"}, ~At(p, "fire"),
             Put(p, proc[p].copy), proc[p].pc \in CopyPC, spawned' = spawned
      PROVE  Kept
  <2>1. Step(p, pc, g, NoRecord)
    BY <1>2 DEF Step
  <2>2. proc[p].copy # NoRecord
    BY <1>0, <1>2 DEF CopyHeld
  <2> QED BY <1>0, <1>2, <2>1, <2>2, WriteKeeps
<1>3. ASSUME NEW t \in Timers, TimerStep(t) PROVE Kept
  <2> t \in Procs
    BY DEF Procs
  <2>1. CASE Wake(t)
    BY <1>1, <2>1 DEF Wake, At, TimerPC, CopyPC
  <2>2. CASE Probe(t)
    BY <1>1, <2>2 DEF Probe, At, TimerPC, CopyPC
  <2>3. CASE Claim(t)
    <3> PICK r \in Seen(t) :
          IF Grants(t, r) THEN Take(t, "fire", Iterated(r)) ELSE Refused(t, r)
      BY <2>3 DEF Claim
    <3>1. CASE Grants(t, r)
      <4>1. r = rec /\ rec \in LoopRecord
        BY <1>0, <3>1, SeenTyped DEF Grants
      <4>2. /\ Iterated(rec) \in LoopRecord /\ Iterated(rec).done = rec.done + 1
            /\ rec # NoRecord /\ Iterated(rec) # NoRecord /\ Live(rec)
        BY <3>1, <4>1, ClaimTyped, NoRecordAssumption DEF Grants
      <4>3. Step(t, "fire", proc[t].gen, Iterated(rec))
        BY <1>0, <3>1, <4>1, <4>2, MovesOn, Typed DEF Step
      <4> QED BY <2>3, <4>2, <4>3, ReadKeeps DEF Claim, TimerPC
    <3>2. CASE ~Grants(t, r)
      BY <1>1, <2>3, <3>2 DEF Claim, Refused, At, TimerPC, CopyPC
    <3> QED BY <3>1, <3>2
  <2>4. CASE Skip(t)
    <3> PICK r \in Seen(t) :
          IF Grants(t, r) THEN Take(t, "pass", Skipped(r)) ELSE Refused(t, r)
      BY <2>4 DEF Skip
    <3>1. CASE Grants(t, r)
      <4>1. r = rec /\ rec \in LoopRecord
        BY <1>0, <3>1, SeenTyped DEF Grants
      <4>2. Skipped(rec) \in LoopRecord /\ Skipped(rec).done = rec.done
        BY <4>1, ClaimTyped
      <4>3. Step(t, "pass", proc[t].gen, Skipped(rec))
        BY <1>0, <3>1, <4>1, <4>2, MovesOn, Typed DEF Step
      <4> QED BY <1>0, <2>4, <4>1, <4>2, <4>3, ReadKeeps, NoRecordAssumption DEF Skip, TimerPC
    <3>2. CASE ~Grants(t, r)
      BY <1>1, <2>4, <3>2 DEF Skip, Refused, At, TimerPC, CopyPC
    <3> QED BY <3>1, <3>2
  <2>5. CASE Fire(t)
    BY <2>5, FireKeeps
  <2>6. CASE Pass(t)
    <3>1. proc[t].copy # NoRecord /\ Moves(t, "nap", proc[t].copy.gen, NoRecord)
      BY <1>0, <2>6, MovesOn, Typed DEF Pass, CopyHeld, CopyPC, At
    <3> QED BY <1>0, <1>2, <2>6, <3>1, Typed DEF Pass, At, TimerPC, CopyPC
  <2>7. CASE Spawn(t)
    BY <2>7, SpawnKeeps
  <2>8. CASE Stamp(t)
    <3>1. Goto(t, "nap") \/ (rec # NoRecord /\ Take(t, "mark", rec))
      BY <1>0, <2>8, SeenTyped DEF Stamp, LTypeOK
    <3>2. CASE Goto(t, "nap")
      BY <1>1, <2>8, <3>2 DEF Stamp, At, TimerPC, CopyPC
    <3>3. CASE rec # NoRecord /\ Take(t, "mark", rec)
      <4>1. Step(t, "mark", proc[t].gen, rec)
        BY <1>0, <3>3, MovesOn, Typed DEF Step
      <4> QED BY <1>0, <2>8, <3>3, <4>1, ReadKeeps DEF Stamp, TimerPC
    <3> QED BY <3>1, <3>2, <3>3
  <2>9. CASE Mark(t)
    <3>1. Moves(t, "nap", proc[t].gen, NoRecord)
      BY <1>0, <2>9, MovesOn, Typed DEF Mark
    <3> QED BY <1>0, <1>2, <2>9, <3>1, Typed DEF Mark, At, TimerPC, CopyPC
  <2>10. CASE Retire(t)
    <3>1. \A q \in Procs : \/ proc'[q] = proc[q]
                           \/ proc'[q].pc \in {"none", "done"} /\ proc'[q].copy = NoRecord
      BY <1>0, <2>10, Typed DEF Retire, Quit, Absent
    <3> QED BY <2>10, <3>1, GoneKeeps DEF Retire
  <2> QED BY <1>3, <2>1, <2>2, <2>3, <2>4, <2>5, <2>6, <2>7, <2>8, <2>9, <2>10 DEF TimerStep
<1>4. ASSUME NEW w \in Writers, Sweep(w) PROVE Kept
  <2>1. w \in Procs /\ rec \in LoopRecord
    BY <1>0, <1>4 DEF Sweep, Procs
  <2>2. rec.gen \in 0..GENERATIONS-1
    BY <2>1 DEF LoopRecord
  <2>3. [Absent("arm") EXCEPT !.gen = rec.gen] = [pc |-> "arm", gen |-> rec.gen, copy |-> NoRecord]
    BY DEF Absent
  <2>4. Step(w, "arm", rec.gen, NoRecord)
    BY <1>4, <2>2, <2>3 DEF Sweep, Step, Moves
  <2> QED BY <1>4, <2>1, <2>4, ReadKeeps DEF Sweep, CopyPC
<1>5. ASSUME NEW w \in Writers, EditRead(w) PROVE Kept
  <2>1. w \in Procs /\ rec # NoRecord /\ rec \in LoopRecord
    BY <1>0, <1>5 DEF EditRead, Procs
  <2>2. PICK n \in {rec.left, INTERVAL}, m \in 1..MAX_ITERATIONS :
          Moves(w, "write", NextGeneration(rec.gen),
                [rec EXCEPT !.gen = NextGeneration(@), !.left = n, !.max = m])
    BY <1>5 DEF EditRead, Moves
  <2> DEFINE c == [rec EXCEPT !.gen = NextGeneration(@), !.left = n, !.max = m]
  <2>3. c \in LoopRecord /\ c.done = rec.done /\ NextGeneration(rec.gen) \in 0..GENERATIONS-1
    BY <2>1, EditTyped
  <2>4. Step(w, "write", NextGeneration(rec.gen), c)
    BY <2>2, <2>3 DEF Step
  <2> HIDE DEF c
  <2> QED BY <1>0, <1>5, <2>1, <2>3, <2>4, ReadKeeps, NoRecordAssumption DEF EditRead
<1>6. ASSUME NEW w \in Writers, Write(w) PROVE Kept
  <2>1. w \in Procs
    BY DEF Procs
  <2>2. Moves(w, "arm", proc[w].gen, NoRecord)
    BY <1>0, <1>6, <2>1, MovesOn, Typed DEF Write
  <2> QED BY <1>0, <1>2, <1>6, <2>1, <2>2, Typed DEF Write, At, CopyPC
<1>7. ASSUME NEW w \in Writers, NEW t \in Timers, Arm(w, t) PROVE Kept
  <2>1. \A q \in Procs : \/ proc'[q] = proc[q]
                         \/ proc'[q].pc \in {"nap", "idle", "done"} /\ proc'[q].copy = NoRecord
    <3>1. proc \in [Procs -> Proc] /\ t \in Procs /\ w \in Procs
      BY <1>0 DEF LTypeOK, Procs
    <3> QED BY <1>7, <3>1 DEF Arm, Absent
  <2>2. rec' = rec /\ UNCHANGED ghosts
    BY <1>7 DEF Arm
  <2>3. CopyHeld' /\ UpToDate'
    BY <2>1, <2>2 DEF IInv, CopyHeld, CopyPC, UpToDate, At
  <2>4. Spawners' \subseteq Spawners
    BY <2>1 DEF Spawners, At, Procs
  <2>5. ASSUME ~lost' PROVE Counted'
    BY <2>2, <2>4, <2>5, CountedStill DEF IInv
  <2> QED BY <2>3, <2>5 DEF Kept
<1>8. ASSUME NEW p \in Procs, Dies(p) PROVE Kept
  <2>1. PICK d \in {"idle", "none", "done"} : Step(p, d, 0, NoRecord)
    BY <1>0, <1>8, Typed DEF Dies, Quit, Absent, Step, Moves
  <2>2. d \in TimerPC \cup {"idle", "write", "arm", "done"} /\ d \notin CopyPC \cup {"spawn"}
    BY <2>1 DEF TimerPC, CopyPC
  <2> QED BY <1>8, <2>1, <2>2, ReadKeeps DEF Dies
<1>9. CASE Stop
  BY <1>9, GoneKeeps DEF Stop
<1>10. CASE Tick
  <2>1. \A q \in Procs : /\ proc'[q].copy = Older(proc[q].copy)
                         /\ proc'[q].pc = IF At(q, "sleep") THEN "nap" ELSE proc[q].pc
    <3>1. proc \in [Procs -> Proc]
      BY <1>0 DEF LTypeOK
    <3> QED BY <1>10, <3>1 DEF Tick, At, Proc
  <2>2. rec' = Older(rec) /\ UNCHANGED ghosts
    BY <1>10 DEF Tick
  <2>3. \A q \in Procs : /\ (proc'[q].pc \in CopyPC) <=> (proc[q].pc \in CopyPC)
                         /\ At(q, "spawn")' <=> At(q, "spawn")
                         /\ At(q, "fire")' <=> At(q, "fire")
                         /\ proc'[q].copy = NoRecord <=> proc[q].copy = NoRecord
                         /\ proc[q].copy # NoRecord => proc'[q].copy.done = proc[q].copy.done
    BY <1>0, <2>1, Typed, OlderTyped DEF At, CopyPC
  <2>4. /\ rec' = NoRecord <=> rec = NoRecord
        /\ rec # NoRecord => rec'.done = rec.done /\ (Live(rec) => Live(rec)')
    BY <1>0, <2>2, OlderTyped DEF LTypeOK, Live
  <2>5. CopyHeld' /\ UpToDate'
    BY <2>2, <2>3, <2>4 DEF IInv, CopyHeld, UpToDate
  <2>6. Spawners' \subseteq Spawners
    BY <2>3 DEF Spawners, Procs
  <2>7. ASSUME ~lost' PROVE Counted'
    BY <2>2, <2>4, <2>6, <2>7, CountedStill DEF IInv
  <2> QED BY <2>5, <2>7 DEF Kept
<1>11. CASE UNCHANGED vars
  BY <1>11 DEF vars, Kept, IInv, CopyHeld, CopyPC, UpToDate, Counted, Spawners, At
<1> QED
  BY <1>3, <1>4, <1>5, <1>6, <1>7, <1>8, <1>9, <1>10, <1>11 DEF Next, WriterStep, Writers
-----------------------------------------------------------------------------
(* The invariant is one of the specification.                                *)
THEOREM LoopInvariant == Spec => []IInv
<1>1. IInv /\ [Next]_vars => IInv'
  BY LoopTyped, LoopKept DEF IInv, Kept
<1> QED BY LoopInit, <1>1, PTL DEF Spec

(* Every variable of the loop keeps its type.                                  *)
THEOREM LoopTypes == Spec => []LTypeOK
<1>1. IInv => LTypeOK
  BY DEF IInv
<1> QED BY LoopInvariant, <1>1, PTL

(* A timer that comes to hold a claim has just written it.                      *)
LEMMA OnlyFireGives ==
  ASSUME LTypeOK, [Next]_vars, NEW t \in Timers, ~At(t, "spawn"), At(t, "spawn")'
  PROVE  Fire(t)
<1>0. t \in Procs /\ proc \in [Procs -> Proc] /\ proc'[t].pc # proc[t].pc
  BY DEF Procs, LTypeOK, At
<1>1. ASSUME NEW u \in Timers, TimerStep(u) PROVE u = t
  <2>1. \A q \in Procs : q # u => proc'[q] = proc[q]
    <3>1. \/ \E pc : Goto(u, pc)
          \/ \E pc, r : Take(u, pc, r)
          \/ \E pc : Drive(u, pc)
          \/ Quit(u)
      <4>1. ASSUME NEW r, Refused(u, r) PROVE Goto(u, "nap") \/ Quit(u)
        BY <4>1 DEF Refused
      <4>2. CASE Wake(u) \/ Probe(u) \/ Spawn(u) \/ Retire(u)
        BY <4>2 DEF Wake, Probe, Spawn, Retire
      <4>3. CASE Claim(u) \/ Skip(u)
        BY <4>1, <4>3 DEF Claim, Skip
      <4>4. CASE Stamp(u) \/ Mark(u)
        BY <4>4 DEF Stamp, Mark
      <4>5. CASE Fire(u) \/ Pass(u)
        BY <4>5 DEF Fire, Pass
      <4> QED BY <1>1, <4>2, <4>3, <4>4, <4>5 DEF TimerStep
    <3> QED BY <1>0, <3>1 DEF Goto, Take, Drive, Quit
  <2> QED BY <1>0, <2>1
<1>2. ASSUME TimerStep(t) PROVE Fire(t)
  <2>1. ASSUME NEW pc, pc # "spawn", NEW g, NEW c, Moves(t, pc, g, c) PROVE FALSE
    BY <1>0, <2>1 DEF Moves, At
  <2>2. ASSUME NEW pc, pc # "spawn", Goto(t, pc) PROVE FALSE
    BY <1>0, <2>2 DEF Goto, At
  <2>3. ASSUME NEW pc, pc # "spawn", NEW r, Take(t, pc, r) PROVE FALSE
    BY <2>1, <2>3 DEF Take, Moves
  <2>4. ~Quit(t)
    BY <2>1 DEF Quit, Absent, Moves
  <2>5. ~Drive(t, "nap")
    BY <2>1 DEF Drive, Moves
  <2>6. ASSUME NEW r PROVE ~Refused(t, r)
    BY <2>2, <2>4 DEF Refused
  <2>7. ~Wake(t) /\ ~Probe(t) /\ ~Retire(t)
    BY <2>2, <2>4 DEF Wake, Probe, Retire
  <2>8. ~Spawn(t)
    BY <2>2 DEF Spawn
  <2>9. ~Claim(t) /\ ~Skip(t)
    BY <2>3, <2>6 DEF Claim, Skip
  <2>10. ~Stamp(t) /\ ~Mark(t) /\ ~Pass(t)
    BY <2>2, <2>3, <2>5 DEF Stamp, Mark, Pass
  <2> QED BY <1>2, <2>7, <2>8, <2>9, <2>10 DEF TimerStep
<1>3. ASSUME NEW w \in Writers, WriterStep(w) \/ EditRead(w) PROVE FALSE
  <2>1. w \in Procs /\ w # t
    BY LoopAssumption DEF Procs, Writers
  <2>2. ~EditRead(w) /\ ~Write(w) /\ ~Sweep(w)
    BY <1>0, <2>1 DEF EditRead, Write, Sweep, Take
  <2>3. ASSUME NEW u \in Timers, Arm(w, u) PROVE FALSE
    <3>1. proc'[t] = proc[t] \/ proc'[t].pc = "nap"
      BY <1>0, <2>1, <2>3 DEF Arm, Absent
    <3> QED BY <1>0, <3>1 DEF At
  <2> QED BY <1>3, <2>2, <2>3 DEF WriterStep
<1>4. ASSUME NEW p \in Procs, Dies(p) PROVE FALSE
  <2>1. proc'[t] = proc[t] \/ proc'[t].pc \in {"idle", "none", "done"}
    BY <1>0, <1>4 DEF Dies, Quit, Absent
  <2> QED BY <1>0, <2>1 DEF At
<1>5. ~Stop
  BY <1>0 DEF Stop
<1>6. ASSUME Tick PROVE FALSE
  <2>1. proc'[t].pc = IF At(t, "sleep") THEN "nap" ELSE proc[t].pc
    BY <1>0, <1>6 DEF Tick, At, Proc
  <2> QED BY <1>0, <2>1 DEF At
<1>7. proc' # proc
  BY <1>0
<1>8. Next
  BY <1>7 DEF vars
<1> QED
  BY <1>1, <1>2, <1>3, <1>4, <1>5, <1>6, <1>8 DEF Next, Writers

(* No iteration is let loose beyond what the record in force asks for, unless a  *)
(* copy of a replaced record was written (claim_fire_in has no lock).            *)
THEOREM CeilingWhenSerialised == Spec => CeilingIfSerialised
<1>1. ASSUME IInv, [Next]_vars, NEW t \in Timers, ~At(t, "spawn"), At(t, "spawn")', ~lost'
      PROVE  rec # NoRecord /\ spawned + Cardinality(Spawners) < rec.max
  <2>1. Fire(t) /\ t \in Procs
    BY <1>1, OnlyFireGives DEF IInv, Procs
  <2>2. ~lost /\ t \notin raced /\ At(t, "fire") /\ proc[t].copy # NoRecord
    BY <1>1, <2>1 DEF Fire, Put, IInv, CopyHeld, CopyPC, At
  <2>3. rec # NoRecord /\ rec \in LoopRecord /\ Live(rec)
    BY <1>1, <2>1, <2>2 DEF IInv, UpToDate, LTypeOK
  <2>4. spawned + Cardinality(Spawners) <= rec.done
    BY <1>1, <2>2, <2>3 DEF IInv, Counted
  <2>5. rec.done \in Nat /\ rec.max \in Nat /\ rec.done < rec.max
    BY <2>3 DEF LoopRecord, Live
  <2>6. spawned \in Nat /\ Cardinality(Spawners) \in Nat
    BY <1>1, SpawnersCounted DEF IInv, LTypeOK
  <2> QED BY <2>3, <2>4, <2>5, <2>6
<1>2. IInv /\ [Next]_vars => [WithinCeiling]_vars
  BY <1>1 DEF WithinCeiling
<1> QED BY LoopInvariant, <1>2, PTL DEF Spec, CeilingIfSerialised

(* No step of a loop that is gone spawns anything or writes a record.           *)
LEMMA StoppedStep == LTypeOK /\ CopyHeld /\ [Next]_vars /\ Stopped => Stopped' /\ UNCHANGED spawned
<1> SUFFICES ASSUME LTypeOK, CopyHeld, [Next]_vars, Stopped PROVE Stopped' /\ UNCHANGED spawned
  OBVIOUS
<1> USE DEF ghosts
<1>0. /\ rec = NoRecord
      /\ \A p \in Procs : proc[p].copy = NoRecord /\ proc[p].pc \notin CopyPC \cup {"spawn"}
  BY DEF Stopped, CopyHeld
<1>1. \A p \in Procs : \A r \in Seen(p) : r = NoRecord
  BY <1>0 DEF Seen
<1>2. ASSUME NEW p \in Procs, NEW pc \in {"nap", "claim", "skip", "none", "done", "idle"},
             NEW g \in 0..GENERATIONS-1, Moves(p, pc, g, NoRecord), rec' = NoRecord
      PROVE  Stopped'
  BY <1>0, <1>2 DEF Stopped, Moves, LTypeOK
<1>3. ASSUME NEW t \in Timers, TimerStep(t) PROVE Stopped' /\ UNCHANGED spawned
  <2> t \in Procs
    BY DEF Procs
  <2>0. ~Fire(t) /\ ~Pass(t) /\ ~Mark(t) /\ ~Spawn(t)
    BY <1>0 DEF Fire, Pass, Mark, Spawn, At, CopyPC
  <2>1. CASE Wake(t)
    <3>1. Quit(t)
      BY <1>1, <2>1 DEF Wake
    <3> QED BY <1>0, <1>2, <2>1, <3>1, MovesOn, Typed DEF Wake
  <2>2. CASE Probe(t)
    BY <1>0, <1>2, <2>2, MovesOn, Typed DEF Probe
  <2>3. CASE Claim(t)
    <3>1. Quit(t)
      BY <1>1, <2>3 DEF Claim, Grants, Refused
    <3> QED BY <1>0, <1>2, <2>3, <3>1, MovesOn, Typed DEF Claim
  <2>4. CASE Skip(t)
    <3>1. Quit(t)
      BY <1>1, <2>4 DEF Skip, Grants, Refused
    <3> QED BY <1>0, <1>2, <2>4, <3>1, MovesOn, Typed DEF Skip
  <2>5. CASE Stamp(t)
    <3>1. Goto(t, "nap")
      BY <1>1, <2>5 DEF Stamp
    <3> QED BY <1>0, <1>2, <2>5, <3>1, MovesOn, Typed DEF Stamp
  <2>6. CASE Retire(t)
    BY <1>0, <1>2, <2>6, MovesOn, Typed DEF Retire
  <2> QED BY <1>3, <2>0, <2>1, <2>2, <2>3, <2>4, <2>5, <2>6 DEF TimerStep
<1>4. ASSUME NEW w \in Writers PROVE ~Sweep(w) /\ ~EditRead(w) /\ ~Write(w)
  BY <1>0 DEF Sweep, EditRead, Write, At, CopyPC, Procs
<1>5. ASSUME NEW w \in Writers, NEW t \in Timers, Arm(w, t) PROVE Stopped' /\ UNCHANGED spawned
  <2>1. \A q \in Procs : \/ proc'[q] = proc[q]
                         \/ proc'[q].pc \in {"nap", "idle", "done"} /\ proc'[q].copy = NoRecord
    <3>1. proc \in [Procs -> Proc] /\ t \in Procs /\ w \in Procs
      BY DEF LTypeOK, Procs
    <3> QED BY <1>5, <3>1 DEF Arm, Absent
  <2> QED BY <1>0, <1>5, <2>1 DEF Arm, Stopped
<1>6. ASSUME NEW p \in Procs, Dies(p) PROVE Stopped' /\ UNCHANGED spawned
  <2>1. PICK d \in {"idle", "none", "done"} : Moves(p, d, 0, NoRecord)
    BY <1>6 DEF Dies, Quit, Absent, Moves
  <2> QED BY <1>0, <1>2, <1>6, <2>1, Typed DEF Dies
<1>7. ~Stop
  BY <1>0 DEF Stop
<1>8. CASE Tick
  <2>1. \A q \in Procs : /\ proc'[q].copy = Older(proc[q].copy)
                         /\ proc'[q].pc = IF At(q, "sleep") THEN "nap" ELSE proc[q].pc
    <3>1. proc \in [Procs -> Proc]
      BY DEF LTypeOK
    <3> QED BY <1>8, <3>1 DEF Tick, At, Proc
  <2>2. Older(NoRecord) = NoRecord
    BY DEF Older
  <2>3. \A q \in Procs : proc'[q].copy = NoRecord /\ proc'[q].pc # "spawn"
    BY <1>0, <2>1, <2>2
  <2>4. rec' = NoRecord /\ UNCHANGED spawned
    BY <1>0, <1>8, <2>2 DEF Tick
  <2> QED BY <2>3, <2>4 DEF Stopped
<1>9. CASE UNCHANGED vars
  BY <1>9 DEF vars, Stopped
<1> QED
  BY <1>3, <1>4, <1>5, <1>6, <1>7, <1>8, <1>9 DEF Next, WriterStep, Writers

(* Stopped, or ended, is for good.                                             *)
THEOREM StoppedStays == Spec => StoppedForGood
<1>1. IInv /\ [Next]_vars => [Stopped => Stopped' /\ UNCHANGED spawned]_vars
  BY StoppedStep DEF IInv
<1> QED BY LoopInvariant, <1>1, PTL DEF Spec, StoppedForGood
=============================================================================
