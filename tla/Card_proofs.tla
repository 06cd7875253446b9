---------------------------- MODULE Card_proofs ----------------------------
(***************************************************************************)
(* Proofs about Card, for any number of clients, sweeps and drains: its    *)
(* types, that an answer is given once, and that the card is not lost.     *)
(***************************************************************************)
EXTENDS Card, TLAPS

\* Who is at work on the files of the card.
WorkPC == {"move", "clean", "reopen", "mark", "kill", "resume", "unlock", "remove"}
Work == {p \in Procs : proc[p] \in WorkPC}

\* The wait is over but for the removal of files.
RestPC == {"gotRest", "lateRest", "goneRest", "park"}

\* A drain reopens a card, the others answer or recover it.
Roles == \A p \in Procs :
  /\ proc[p] \in {"reopen", "mark"} => p \in Drainers
  /\ proc[p] \in {"recover", "move", "clean", "kill", "resume"} => p \notin Drainers

\* While the turn waits the card is its own.
WaitOwns == wait # "off" =>
  /\ Work = {} /\ ~parked /\ delivered = 0
  /\ req <=> wait \notin RestPC

\* Where the card is while somebody works on it, and when nobody does.
WorkOwns ==
  /\ \A p, q \in Work : p = q
  /\ Work = {} => ~(req /\ parked)
  /\ \A p \in Work :
       /\ proc[p] = "move" => req /\ resp # "none" /\ ~parked
       /\ proc[p] = "clean" => parked
       /\ proc[p] \in {"kill", "resume", "reopen"} => parked /\ ~req
       /\ proc[p] \in {"mark", "unlock", "remove"} /\ p \in Drainers => (req \/ closed) /\ delivered = 0
       /\ proc[p] \in {"unlock", "remove"} /\ p \notin Drainers => delivered = 1

\* After an answer was given nobody finds the card to give another one.
Given == delivered # 0 =>
  /\ delivered = 1 /\ ~req
  /\ Work = {} => ~parked
  /\ \A p \in Work : proc[p] \in {"unlock", "remove"} /\ p \notin Drainers

Core == WaitOwns /\ WorkOwns /\ Given /\ (delivered = 0 /\ ~closed => Kept)

IInv == CTypeOK /\ Roles /\ (~raced => Core)
-----------------------------------------------------------------------------
LEMMA CardInit == Init => IInv
<1> SUFFICES ASSUME Init PROVE IInv
  OBVIOUS
<1>1. CTypeOK
  <2>1. proc \in [Procs -> ProcPC] /\ wakes \in 0..MAX_WAKES /\ crashes \in 0..MAX_CRASHES
    BY CardAssumption DEF Init, ProcPC
  <2>2. /\ req \in BOOLEAN /\ parked \in BOOLEAN /\ detached \in BOOLEAN /\ claimed \in BOOLEAN
        /\ closed \in BOOLEAN /\ raced \in BOOLEAN
    BY DEF Init
  <2>3. /\ resp \in {"none", "fresh", "old"} /\ turn = "running" /\ wait \in WaitPC /\ lock = Nobody
        /\ delivered \in 0..2
    BY DEF Init, WaitPC
  <2> QED BY <2>1, <2>2, <2>3 DEF CTypeOK
<1>2. Roles /\ Work = {}
  BY DEF Init, Roles, Work, WorkPC
<1>3. Core
  BY <1>2 DEF Init, Core, WaitOwns, WorkOwns, Given, Kept, RestPC
<1> QED BY <1>1, <1>2, <1>3 DEF IInv

(* A process that moves on keeps the types.                                    *)
LEMMA ProcMoves ==
  ASSUME CTypeOK, NEW p \in Procs, NEW pc \in ProcPC, Goto(p, pc)
  PROVE  proc' \in [Procs -> ProcPC] /\ proc'[p] = pc /\ \A q \in Procs \ {p} : proc'[q] = proc[q]
  BY DEF CTypeOK, Goto

\* What the types say of the lock and of who is where.
LockOK ==
  /\ proc \in [Procs -> ProcPC] /\ lock \in Procs \cup {Nobody}
  /\ lock # Nobody => proc[lock] \in {"kill", "resume", "unlock", "reopen", "mark"}

(* The lock stays what it is when a process moves that does not have it.        *)
LEMMA LockStays ==
  ASSUME CTypeOK, NEW p \in Procs, NEW pc \in ProcPC, Goto(p, pc), lock' = lock,
         proc[p] \notin {"kill", "resume", "unlock", "reopen", "mark"}
  PROVE  LockOK'
<1>1. proc' \in [Procs -> ProcPC] /\ \A q \in Procs \ {p} : proc'[q] = proc[q]
  BY ProcMoves
<1>2. lock # Nobody => lock \in Procs \ {p}
  BY DEF CTypeOK
<1> QED BY <1>1, <1>2 DEF CTypeOK, LockOK

LEMMA CardTyped == CTypeOK /\ [Next]_vars => CTypeOK'
<1> SUFFICES ASSUME CTypeOK, [Next]_vars PROVE CTypeOK'
  OBVIOUS
<1>0. /\ Clients \subseteq Procs /\ Sweepers \subseteq Procs /\ Drainers \subseteq Procs
      /\ Nobody \notin Procs
  BY CardAssumption DEF Procs
<1>1. CASE WaitStep
  <2>1. CASE Poll
    <3>1. wait' \in WaitPC /\ turn = "running"
      BY <2>1 DEF CTypeOK, Poll, WaitPC
    <3> QED BY <2>1, <3>1 DEF CTypeOK, Poll, counters, ghosts
  <2>2. CASE Peek
    <3>1. wait' \in WaitPC /\ turn = "running"
      BY <2>2 DEF CTypeOK, Peek, WaitPC
    <3> QED BY <2>2, <3>1 DEF CTypeOK, Peek, counters, ghosts
  <2>3. CASE RemoveRequest
    <3>1. wait' \in WaitPC /\ turn = "running"
      BY <2>3 DEF CTypeOK, RemoveRequest, Rest, WaitPC
    <3> QED BY <2>3, <3>1 DEF CTypeOK, RemoveRequest, counters, ghosts
  <2>4. CASE RemoveRest
    <3>1. delivered' \in 0..2
      BY <2>4 DEF CTypeOK, RemoveRest, Delivered
    <3>2. closed' \in BOOLEAN /\ wait' \in WaitPC /\ turn = "running"
      BY <2>4 DEF CTypeOK, RemoveRest, WaitPC
    <3> QED BY <2>4, <3>1, <3>2 DEF CTypeOK, RemoveRest, counters
  <2>5. CASE Park
    BY <2>5 DEF CTypeOK, Park, WaitPC, counters, ghosts
  <2> QED BY <1>1, <2>1, <2>2, <2>3, <2>4, <2>5 DEF WaitStep
<1>2. CASE WaitAgain \/ Withdraw \/ TurnEnds \/ TurnSeen \/ Settle
  <2>1. CASE WaitAgain
    BY <2>1 DEF CTypeOK, WaitAgain, WaitPC, Company, counters
  <2>2. CASE Withdraw
    BY <2>2 DEF CTypeOK, Withdraw, session, counters
  <2>3. CASE TurnEnds \/ TurnSeen
    BY <2>3 DEF CTypeOK, TurnEnds, TurnSeen, files, counters, ghosts
  <2>4. CASE Settle
    BY <2>4 DEF CTypeOK, Settle, session, counters, ghosts
  <2> QED BY <1>2, <2>1, <2>2, <2>3, <2>4
<1>3. CASE TurnDies
  BY <1>3, CardAssumption DEF CTypeOK, TurnDies, TurnGone, WaitPC, files
<1>4. ASSUME NEW p \in Procs, Locks(p, "kill") \/ Locks(p, "reopen") PROVE CTypeOK'
  BY <1>0, <1>4, ProcMoves DEF CTypeOK, Locks, Company, files, session, counters, ProcPC
<1>5. ASSUME NEW p \in Procs, Kill(p) PROVE CTypeOK'
  BY <1>0, <1>5, ProcMoves DEF CTypeOK, Kill, TurnGone, files, session, counters, ProcPC, WaitPC
<1>6. ASSUME NEW p \in Procs, Resume(p) PROVE CTypeOK'
  BY <1>0, <1>6, ProcMoves DEF CTypeOK, Resume, Delivered, files, counters, ProcPC
<1>7. ASSUME NEW p \in Procs, Unlock(p) \/ Remove(p) \/ Recover(p) \/ Move(p) \/ Clean(p) PROVE CTypeOK'
  <2>1. CASE Unlock(p)
    BY <1>0, <2>1, ProcMoves DEF CTypeOK, Unlock, files, session, counters, ghosts, ProcPC
  <2>2. CASE Remove(p)
    <3>1. LockOK'
      BY <2>2, LockStays DEF Remove, At, ProcPC
    <3> QED BY <2>2, <3>1 DEF CTypeOK, LockOK, Remove, session, counters, ghosts
  <2>3. CASE Recover(p)
    <3>1. PICK pc \in {"move", "unclaim", "idle"} : Goto(p, pc)
      BY <2>3 DEF Recover
    <3> QED BY <1>0, <2>3, <3>1, ProcMoves DEF CTypeOK, Recover, At, Company, Orphaned, files, session, counters, ProcPC
  <2>4. CASE Move(p)
    <3>1. LockOK'
      BY <2>4, LockStays DEF Move, At, ProcPC
    <3> QED BY <2>4, <3>1 DEF CTypeOK, LockOK, Move, session, counters, ghosts
  <2>5. CASE Clean(p)
    <3>1. LockOK'
      BY <2>5, LockStays DEF Clean, At, ProcPC
    <3> QED BY <2>5, <3>1 DEF CTypeOK, LockOK, Clean, session, counters, ghosts
  <2> QED BY <1>7, <2>1, <2>2, <2>3, <2>4, <2>5
<1>8. ASSUME NEW p \in Procs, Answer(p) \/ Check(p) \/ Write(p) \/ SweepLook(p) \/ SweepClaim(p) \/ Unclaim(p)
      PROVE  CTypeOK'
  <2>1. CASE Answer(p) \/ Check(p)
    <3>1. PICK pc \in {"lock", "check", "write", "idle"} : Goto(p, pc)
      BY <2>1 DEF Answer, Check
    <3> QED BY <1>0, <2>1, <3>1, ProcMoves DEF CTypeOK, Answer, Check, At, files, session, counters, ghosts, ProcPC
  <2>2. CASE Write(p)
    <3>1. LockOK'
      BY <2>2, LockStays DEF Write, At, ProcPC
    <3> QED BY <2>2, <3>1 DEF CTypeOK, LockOK, Write, session, counters, ghosts
  <2>3. CASE SweepLook(p)
    <3>1. LockOK'
      <4>1. CASE UNCHANGED proc
        BY <2>3, <4>1 DEF SweepLook, CTypeOK, LockOK
      <4>2. CASE Goto(p, "claim")
        BY <2>3, <4>2, LockStays DEF SweepLook, At, ProcPC
      <4> QED BY <2>3, <4>1, <4>2 DEF SweepLook
    <3> QED BY <2>3, <3>1 DEF CTypeOK, LockOK, SweepLook, session, counters, ghosts
  <2>4. CASE SweepClaim(p)
    <3>1. PICK pc \in {"recover", "idle"} : Goto(p, pc)
      BY <2>4 DEF SweepClaim
    <3>2. LockOK'
      BY <2>4, <3>1, LockStays DEF SweepClaim, At, ProcPC
    <3> QED BY <2>4, <3>2 DEF CTypeOK, LockOK, SweepClaim, session, counters, ghosts
  <2>5. CASE Unclaim(p)
    <3>1. LockOK'
      BY <2>5, LockStays DEF Unclaim, At, ProcPC
    <3> QED BY <2>5, <3>1 DEF CTypeOK, LockOK, Unclaim, session, counters, ghosts
  <2> QED BY <1>8, <2>1, <2>2, <2>3, <2>4, <2>5
<1>9. ASSUME NEW p \in Procs, Unpark(p) \/ Reopen(p) \/ Mark(p) \/ Wake(p) PROVE CTypeOK'
  <2>1. CASE Unpark(p)
    BY <1>0, <2>1, ProcMoves DEF CTypeOK, Unpark, At, files, session, counters, ghosts, ProcPC
  <2>2. CASE Reopen(p)
    BY <1>0, <2>2, ProcMoves DEF CTypeOK, Reopen, session, counters, ghosts, ProcPC
  <2>3. CASE Mark(p)
    BY <1>0, <2>3, ProcMoves DEF CTypeOK, Mark, session, counters, ghosts, ProcPC
  <2>4. CASE Wake(p)
    BY <2>4, CardAssumption DEF CTypeOK, Wake, files, ghosts
  <2> QED BY <1>9, <2>1, <2>2, <2>3, <2>4
<1>10. ASSUME NEW p \in Procs, Dies(p) PROVE CTypeOK'
  BY <1>0, <1>10, ProcMoves, CardAssumption DEF CTypeOK, Dies, files, session, ProcPC
<1>11. CASE UNCHANGED vars
  BY <1>11 DEF CTypeOK, vars, files, session, counters, ghosts
<1> QED
  BY <1>0, <1>1, <1>2, <1>3, <1>4, <1>5, <1>6, <1>7, <1>8, <1>9, <1>10, <1>11
  DEF Next, ClientStep, SweepStep, DrainStep, Recovery
-----------------------------------------------------------------------------
(* What a client or a sweep does, a drain does not, and the other way round.     *)
LEMMA RolesKept == CTypeOK /\ Roles /\ [Next]_vars => Roles'
<1> SUFFICES ASSUME CTypeOK, Roles, [Next]_vars PROVE Roles'
  OBVIOUS
<1>0. /\ Clients \subseteq Procs \ Drainers /\ Sweepers \subseteq Procs \ Drainers
      /\ Drainers \subseteq Procs \ (Clients \cup Sweepers)
  BY CardAssumption DEF Procs
<1>1. ASSUME NEW p \in Procs \ Drainers, NEW pc, pc \notin {"reopen", "mark"}, Goto(p, pc) PROVE Roles'
  BY <1>1 DEF Roles, Goto, CTypeOK
<1>2. ASSUME NEW p \in Drainers, NEW pc, pc \notin {"recover", "move", "clean", "kill", "resume"}, Goto(p, pc)
      PROVE  Roles'
  BY <1>0, <1>2 DEF Roles, Goto, CTypeOK
<1>3. ASSUME proc' = proc PROVE Roles'
  BY <1>3 DEF Roles
<1>4. CASE WaitStep \/ WaitAgain \/ Withdraw \/ TurnEnds \/ TurnSeen \/ TurnDies \/ Settle \/ UNCHANGED vars
  BY <1>3, <1>4 DEF WaitStep, Poll, Peek, RemoveRequest, RemoveRest, Park, WaitAgain, Withdraw, TurnEnds,
     TurnSeen, TurnDies, Settle, vars
<1>5. ASSUME NEW p \in Procs \ Drainers, Recovery(p) PROVE Roles'
  <2>1. \E pc \in {"move", "unclaim", "idle", "clean", "kill", "resume", "unlock", "remove"} : Goto(p, pc)
    BY <1>5 DEF Recovery, Recover, Move, Clean, Kill, Resume, Unlock, Remove
  <2> QED BY <1>1, <2>1
<1>6. ASSUME NEW c \in Clients, Answer(c) \/ Locks(c, "kill") \/ Check(c) \/ Write(c) PROVE Roles'
  <2>1. \E pc \in {"lock", "check", "kill", "idle", "write", "recover"} : Goto(c, pc)
    BY <1>6 DEF Answer, Locks, Check, Write
  <2> QED BY <1>0, <1>1, <2>1
<1>7. ASSUME NEW s \in Sweepers, SweepLook(s) \/ SweepClaim(s) \/ Unclaim(s) PROVE Roles'
  <2>1. proc' = proc \/ \E pc \in {"claim", "recover", "idle"} : Goto(s, pc)
    BY <1>7 DEF SweepLook, SweepClaim, Unclaim
  <2> QED BY <1>0, <1>1, <1>3, <2>1
<1>8. ASSUME NEW d \in Drainers, Unpark(d) \/ DrainStep(d) \/ Wake(d) PROVE Roles'
  <2>1. proc' = proc \/ \E pc \in {"lock", "reopen", "idle", "mark", "unlock", "remove"} : Goto(d, pc)
    BY <1>0, <1>8 DEF Unpark, DrainStep, Locks, Reopen, Mark, Unlock, Remove, Wake
  <2> QED BY <1>2, <1>3, <2>1
<1>9. ASSUME NEW p \in Procs, Dies(p) PROVE Roles'
  <2>1. Goto(p, "idle")
    BY <1>9 DEF Dies
  <2> QED BY <2>1 DEF Roles, Goto, CTypeOK
<1> QED
  BY <1>0, <1>4, <1>5, <1>6, <1>7, <1>8, <1>9 DEF Next, ClientStep, SweepStep
-----------------------------------------------------------------------------
(* A step of somebody who is not at work and leaves the card where it is.       *)
LEMMA Aside ==
  ASSUME Core, UNCHANGED <<req, parked, wait, delivered, closed>>,
         resp # "none" => resp' # "none",
         Work' = Work, \A p \in Work : proc'[p] = proc[p]
  PROVE  Core'
<1>1. WaitOwns' /\ Given' /\ (delivered' = 0 /\ ~closed' => Kept')
  BY DEF Core, WaitOwns, Given, Kept
<1>2. WorkOwns'
  BY DEF Core, WorkOwns
<1> QED BY <1>1, <1>2 DEF Core

(* Whoever moves between steps that are not work leaves the workers alone.      *)
LEMMA Outside ==
  ASSUME CTypeOK, NEW p \in Procs, NEW pc \in ProcPC \ WorkPC, Goto(p, pc), proc[p] \notin WorkPC
  PROVE  Work' = Work /\ \A q \in Work : proc'[q] = proc[q]
  BY DEF CTypeOK, Goto, Work

(* A worker that goes on is the only one, and one that stops was.               *)
LEMMA Alone ==
  ASSUME CTypeOK, WorkOwns, NEW p \in Procs, NEW pc \in ProcPC, Goto(p, pc), p \in Work
  PROVE  /\ Work = {p} /\ proc'[p] = pc
         /\ Work' = IF pc \in WorkPC THEN {p} ELSE {}
  BY DEF CTypeOK, Goto, Work, WorkOwns

(* Who starts to work is alone, or two were at work at once.                    *)
LEMMA Enters ==
  ASSUME CTypeOK, NEW p \in Procs, NEW pc \in WorkPC, Goto(p, pc), p \notin Work, ~Company(p)
  PROVE  Work = {} /\ Work' = {p} /\ proc'[p] = pc
<1>1. Work = {}
  BY DEF Company, Work, WorkPC
<1> QED BY <1>1 DEF CTypeOK, Goto, Work

(* The turn that waits has the card to itself.                                 *)
LEMMA WaitKeeps ==
  ASSUME CTypeOK, Core, WaitStep \/ WaitAgain \/ Withdraw \/ TurnDies, ~raced'
  PROVE  Core'
<1>0. proc' = proc /\ Work' = Work
  BY DEF WaitStep, Poll, Peek, RemoveRequest, RemoveRest, Park, WaitAgain, Withdraw, TurnDies, Work
<1>1. CASE Poll \/ Peek
  <2>1. /\ wait # "off" /\ req /\ UNCHANGED <<req, parked, delivered, closed>>
        /\ wait' \notin RestPC
    BY <1>1 DEF Poll, Peek, Core, WaitOwns, RestPC, ghosts
  <2> QED BY <1>0, <2>1 DEF Core, WaitOwns, WorkOwns, Given, Kept, RestPC
<1>2. CASE RemoveRequest
  <2>1. /\ wait # "off" /\ ~req' /\ UNCHANGED <<parked, delivered, closed>>
        /\ wait' \in RestPC
    BY <1>2 DEF RemoveRequest, Rest, RestPC, ghosts
  <2> QED BY <1>0, <2>1 DEF Core, WaitOwns, WorkOwns, Given, Kept, RestPC
<1>3. CASE RemoveRest
  <2>1. /\ wait # "off" /\ ~req /\ Work = {} /\ ~parked /\ delivered = 0
        /\ UNCHANGED <<req, parked>>
    BY <1>3 DEF RemoveRest, Core, WaitOwns, RestPC
  <2>2. \/ wait' = "off" /\ delivered' = 1 /\ closed' = closed
        \/ wait' = "off" /\ delivered' = 0 /\ closed'
        \/ wait' = "park" /\ delivered' = 0 /\ closed' = closed
    BY <1>3, <2>1 DEF RemoveRest, Delivered
  <2> QED BY <1>0, <2>1, <2>2 DEF Core, WaitOwns, WorkOwns, Given, Kept, RestPC
<1>4. CASE Park
  <2>1. /\ wait # "off" /\ ~req /\ Work = {} /\ delivered = 0 /\ parked' /\ wait' = "off"
        /\ UNCHANGED <<req, delivered, closed>>
    BY <1>4 DEF Park, Core, WaitOwns, RestPC, ghosts
  <2> QED BY <1>0, <2>1 DEF Core, WaitOwns, WorkOwns, Given, Kept, RestPC
<1>5. CASE WaitAgain
  <2>1. /\ wait = "off" /\ req /\ wait' = "poll" /\ UNCHANGED <<req, parked, delivered, closed>>
        /\ ~Company(Nobody)
    BY <1>5 DEF WaitAgain
  <2>2. Work = {}
    BY <2>1, CardAssumption DEF Company, Work, WorkPC
  <2> QED BY <1>0, <2>1, <2>2 DEF Core, WaitOwns, WorkOwns, Given, Kept, RestPC
<1>6. CASE Withdraw
  <2>1. /\ wait = "off" /\ wait' = "off" /\ ~req' /\ closed' /\ resp = "none" /\ UNCHANGED <<parked, delivered>>
    BY <1>6 DEF Withdraw, session
  <2> QED BY <1>0, <2>1 DEF Core, WaitOwns, WorkOwns, Given
<1>7. CASE TurnDies
  <2>1. /\ wait' = "off" /\ closed' = (closed \/ wait \in RestPC)
        /\ UNCHANGED <<req, resp, parked, delivered>>
    BY <1>7 DEF TurnDies, TurnGone, files, RestPC
  <2> QED BY <1>0, <2>1 DEF Core, WaitOwns, WorkOwns, Given, Kept, RestPC
<1> QED BY <1>1, <1>2, <1>3, <1>4, <1>5, <1>6, <1>7 DEF WaitStep

(* Steps that neither begin nor end work on the card.                           *)
LEMMA AsideKeeps ==
  ASSUME CTypeOK, Core,
         \/ TurnEnds \/ TurnSeen \/ Settle \/ UNCHANGED vars
         \/ \E c \in Clients : Answer(c) \/ Check(c) \/ Write(c)
         \/ \E s \in Sweepers : SweepLook(s) \/ SweepClaim(s) \/ Unclaim(s)
         \/ \E d \in Drainers : Unpark(d) \/ Wake(d)
  PROVE  Core'
<1>0. /\ Clients \subseteq Procs /\ Sweepers \subseteq Procs /\ Drainers \subseteq Procs
  BY DEF Procs
<1>1. ASSUME UNCHANGED <<req, parked, wait, delivered, closed, proc>>, resp # "none" => resp' # "none"
      PROVE  Core'
  BY <1>1, Aside DEF Work
<1>2. ASSUME NEW p \in Procs, NEW pc \in ProcPC \ WorkPC, Goto(p, pc), proc[p] \notin WorkPC,
             UNCHANGED <<req, parked, wait, delivered, closed>>, resp # "none" => resp' # "none"
      PROVE  Core'
  BY <1>2, Aside, Outside
<1>3. CASE TurnEnds \/ TurnSeen \/ Settle \/ UNCHANGED vars
  BY <1>1, <1>3 DEF TurnEnds, TurnSeen, Settle, vars, files, session, counters, ghosts
<1>4. ASSUME NEW c \in Clients, Answer(c) \/ Check(c) \/ Write(c) PROVE Core'
  <2>1. \E pc \in {"lock", "check", "write", "idle", "recover"} : Goto(c, pc)
    BY <1>4 DEF Answer, Check, Write
  <2>2. /\ proc[c] \notin WorkPC
        /\ UNCHANGED <<req, parked, wait, delivered, closed>>
        /\ resp # "none" => resp' # "none"
    BY <1>4 DEF Answer, Check, Write, At, WorkPC, files, session, ghosts
  <2> QED BY <1>0, <1>2, <2>1, <2>2 DEF ProcPC, WorkPC
<1>5. ASSUME NEW s \in Sweepers, SweepLook(s) \/ SweepClaim(s) \/ Unclaim(s) PROVE Core'
  <2>1. proc' = proc \/ \E pc \in {"claim", "recover", "idle"} : Goto(s, pc)
    BY <1>5 DEF SweepLook, SweepClaim, Unclaim
  <2>2. /\ proc[s] \notin WorkPC
        /\ UNCHANGED <<req, parked, wait, delivered, closed, resp>>
    BY <1>5 DEF SweepLook, SweepClaim, Unclaim, At, WorkPC, session, ghosts
  <2> QED BY <1>0, <1>1, <1>2, <2>1, <2>2 DEF ProcPC, WorkPC
<1>6. ASSUME NEW d \in Drainers, Unpark(d) \/ Wake(d) PROVE Core'
  <2>1. CASE Unpark(d)
    BY <1>0, <1>2, <2>1 DEF Unpark, At, ProcPC, WorkPC, files, session, ghosts
  <2>2. CASE Wake(d)
    BY <1>1, <2>2 DEF Wake, files, ghosts
  <2> QED BY <1>6, <2>1, <2>2
<1> QED BY <1>3, <1>4, <1>5, <1>6

(* Who begins to work finds the card in one place, not answered, and nobody     *)
(* waiting for it.                                                              *)
LEMMA BeginKeeps ==
  ASSUME CTypeOK, Core, NEW p \in Procs, ~raced',
         Locks(p, "kill") \/ Locks(p, "reopen") \/ Recover(p)
  PROVE  Core'
<1>0. p \notin Work /\ UNCHANGED <<req, parked, resp, wait, delivered, closed>>
  BY DEF Locks, Recover, At, Work, WorkPC, files, session
<1>1. CASE \E pc \in {"check", "idle", "unclaim"} : Goto(p, pc)
  BY <1>0, <1>1, Aside, Outside DEF Work, ProcPC, WorkPC
<1>2. CASE parked /\ \E pc \in {"kill", "reopen"} : Goto(p, pc) /\ ~Company(p)
  <2>1. PICK pc \in {"kill", "reopen"} : Goto(p, pc)
    BY <1>2
  <2>2. Work = {} /\ Work' = {p} /\ proc'[p] = pc
    BY <1>0, <1>2, <2>1, Enters DEF WorkPC
  <2>3. wait = "off" /\ ~req /\ parked /\ delivered = 0
    BY <1>2, <2>2 DEF Core, WaitOwns, WorkOwns, Given
  <2> QED BY <1>0, <2>1, <2>2, <2>3 DEF Core, WaitOwns, WorkOwns, Given, Kept
<1>3. CASE Orphaned /\ Goto(p, "move") /\ ~Company(p)
  <2>1. Work = {} /\ Work' = {p} /\ proc'[p] = "move"
    BY <1>0, <1>3, Enters DEF WorkPC
  <2>2. wait = "off" /\ req /\ resp # "none" /\ ~parked /\ delivered = 0
    BY <1>3, <2>1 DEF Orphaned, CTypeOK, Core, WorkOwns, Given
  <2> QED BY <1>0, <2>1, <2>2 DEF Core, WaitOwns, WorkOwns, Given, Kept
<1> QED
  <2>1. CASE Locks(p, "kill") \/ Locks(p, "reopen")
    BY <1>1, <1>2, <2>1 DEF Locks
  <2>2. CASE Recover(p)
    BY <1>1, <1>3, <2>2 DEF Recover
  <2> QED BY <2>1, <2>2

(* Each step of the one who works leaves the card in a place of its own.        *)
LEMMA WorkKeeps ==
  ASSUME CTypeOK, Roles, Core, NEW p \in Procs,
         \/ Move(p) \/ Clean(p) \/ Kill(p) \/ Resume(p) \/ Unlock(p) \/ Remove(p)
         \/ Reopen(p) \/ Mark(p)
  PROVE  Core'
<1>0. p \in Work
  BY DEF Move, Clean, Kill, Resume, Unlock, Remove, Reopen, Mark, At, Work, WorkPC
<1>1. Work = {p} /\ wait = "off"
  BY <1>0 DEF Core, WaitOwns, WorkOwns
<1>2. ASSUME NEW pc \in WorkPC, Goto(p, pc)
      PROVE  Work' = {p} /\ proc'[p] = pc
  BY <1>0, <1>2, Alone DEF Core, ProcPC, WorkPC
<1>3. ASSUME NEW pc \in ProcPC \ WorkPC, Goto(p, pc)
      PROVE  Work' = {}
  BY <1>0, <1>3, Alone DEF Core
<1>4. delivered = 0 \/ proc[p] \in {"unlock", "remove"}
  BY <1>0 DEF Core, Given
<1>5. CASE Move(p)
  <2>1. Work' = {p} /\ proc'[p] = "clean"
    BY <1>2, <1>5 DEF Move, WorkPC
  <2>2. /\ req /\ parked' /\ delivered = 0 /\ UNCHANGED <<req, wait, delivered, closed>>
    BY <1>0, <1>4, <1>5 DEF Move, At, Core, WorkOwns, session, ghosts
  <2> QED BY <1>1, <2>1, <2>2 DEF Core, WaitOwns, WorkOwns, Given, Kept
<1>6. CASE Clean(p)
  <2>1. Work' = {p} /\ proc'[p] = "kill"
    BY <1>2, <1>6 DEF Clean, WorkPC
  <2>2. /\ ~req' /\ parked' /\ delivered = 0 /\ UNCHANGED <<wait, delivered, closed>>
    BY <1>0, <1>4, <1>6 DEF Clean, At, Core, WorkOwns, session, ghosts
  <2> QED BY <1>1, <2>1, <2>2 DEF Core, WaitOwns, WorkOwns, Given, Kept
<1>7. CASE Kill(p)
  <2>1. parked /\ ~req /\ delivered = 0
    BY <1>0, <1>4, <1>7 DEF Kill, At, Core, WorkOwns
  <2>2. Work' = {p} /\ proc'[p] = "resume"
    BY <1>2, <1>7, <2>1 DEF Kill, WorkPC
  <2>3. wait' = "off" /\ UNCHANGED <<req, parked, delivered>>
    BY <1>1, <1>7 DEF Kill, TurnGone, files, session
  <2> QED BY <2>1, <2>2, <2>3 DEF Core, WaitOwns, WorkOwns, Given, Kept
<1>8. CASE Resume(p)
  <2>1. parked /\ ~req /\ delivered = 0 /\ p \notin Drainers
    BY <1>0, <1>4, <1>8 DEF Resume, At, Core, WorkOwns, Roles
  <2>2. UNCHANGED <<req, parked, wait, closed>>
    BY <1>8 DEF Resume, files
  <2>3. CASE turn = "none"
    <3>1. Work' = {p} /\ proc'[p] = "unlock" /\ delivered' = 1
      BY <1>2, <1>8, <2>1, <2>3 DEF Resume, Delivered, WorkPC
    <3> QED BY <1>1, <2>1, <2>2, <3>1 DEF Core, WaitOwns, WorkOwns, Given, Kept
  <2>4. CASE turn # "none"
    <3>1. Work' = {} /\ delivered' = 0
      BY <1>3, <1>8, <2>1, <2>4 DEF Resume, ProcPC, WorkPC
    <3> QED BY <1>1, <2>1, <2>2, <3>1 DEF Core, WaitOwns, WorkOwns, Given, Kept
  <2> QED BY <2>3, <2>4
<1>9. CASE Unlock(p)
  <2>1. Work' = {p} /\ proc'[p] = "remove" /\ proc[p] = "unlock"
    BY <1>2, <1>9 DEF Unlock, At, WorkPC
  <2>2. UNCHANGED <<req, parked, wait, delivered, closed>>
    BY <1>9 DEF Unlock, files, session, ghosts
  <2> QED BY <1>1, <2>1, <2>2 DEF Core, WaitOwns, WorkOwns, Given, Kept
<1>10. CASE Remove(p)
  <2>1. Work' = {} /\ ~parked' /\ UNCHANGED <<req, wait, delivered, closed>>
    BY <1>3, <1>10 DEF Remove, ProcPC, WorkPC, session, ghosts
  <2>2. \/ delivered = 0 /\ (req \/ closed)
        \/ delivered = 1 /\ ~req
    BY <1>0, <1>10 DEF Remove, At, Core, WorkOwns, Given
  <2> QED BY <1>1, <2>1, <2>2 DEF Core, WaitOwns, WorkOwns, Given, Kept
<1>11. CASE Reopen(p)
  <2>1. Work' = {p} /\ proc'[p] = "mark"
    BY <1>2, <1>11 DEF Reopen, WorkPC
  <2>2. /\ req' /\ p \in Drainers /\ delivered = 0 /\ UNCHANGED <<wait, delivered, closed>>
    BY <1>4, <1>11 DEF Reopen, At, Roles, session, ghosts
  <2> QED BY <1>1, <2>1, <2>2 DEF Core, WaitOwns, WorkOwns, Given, Kept
<1>12. CASE Mark(p)
  <2>1. Work' = {p} /\ proc'[p] = "unlock" /\ proc[p] = "mark" /\ p \in Drainers
    BY <1>2, <1>12 DEF Mark, At, WorkPC, Roles
  <2>2. /\ req \/ closed
        /\ delivered = 0 /\ UNCHANGED <<req, parked, wait, delivered, closed>>
    BY <1>0, <2>1, <1>12 DEF Mark, Core, WorkOwns, session, ghosts
  <2> QED BY <1>1, <2>1, <2>2 DEF Core, WaitOwns, WorkOwns, Given, Kept
<1> QED BY <1>5, <1>6, <1>7, <1>8, <1>9, <1>10, <1>11, <1>12

(* A worker that dies leaves the card in one place, or it is set aside as raced. *)
LEMMA DeathKeeps ==
  ASSUME CTypeOK, Core, NEW p \in Procs, Dies(p), ~raced'
  PROVE  Core'
<1>1. Goto(p, "idle") /\ UNCHANGED <<req, resp, parked, wait, delivered, closed>>
      /\ proc[p] \notin {"clean", "mark", "unlock", "remove"}
  BY DEF Dies, files, session
<1>2. CASE p \notin Work
  BY <1>1, <1>2, Aside, Outside DEF Work, ProcPC, WorkPC
<1>3. CASE p \in Work
  <2>1. Work = {p} /\ Work' = {} /\ wait = "off"
    BY <1>1, <1>3, Alone DEF Core, WaitOwns, ProcPC, WorkPC
  <2>2. /\ delivered = 0
        /\ \/ req /\ ~parked
           \/ parked /\ ~req
    BY <1>1, <1>3 DEF Core, Given, WorkOwns, Work, WorkPC
  <2> QED BY <1>1, <2>1, <2>2 DEF Core, WaitOwns, WorkOwns, Given, Kept
<1> QED BY <1>2, <1>3

(* What two did at once is not forgotten.                                       *)
LEMMA RacedStays == [Next]_vars /\ ~raced' => ~raced
<1> SUFFICES ASSUME [Next]_vars, raced PROVE raced'
  OBVIOUS
<1>1. CASE WaitStep \/ WaitAgain \/ Withdraw \/ TurnEnds \/ TurnSeen \/ TurnDies \/ Settle \/ UNCHANGED vars
  BY <1>1 DEF WaitStep, Poll, Peek, RemoveRequest, RemoveRest, Park, WaitAgain, Withdraw, TurnEnds,
     TurnSeen, TurnDies, Settle, vars, ghosts
<1>2. ASSUME NEW p, Recovery(p) PROVE raced'
  BY <1>2 DEF Recovery, Recover, Move, Clean, Kill, Resume, Unlock, Remove, ghosts
<1>3. ASSUME NEW p, Answer(p) \/ Locks(p, "kill") \/ Locks(p, "reopen") \/ Check(p) \/ Write(p) \/ Dies(p)
      PROVE  raced'
  BY <1>3 DEF Answer, Locks, Check, Write, Dies, ghosts
<1>4. ASSUME NEW p, SweepLook(p) \/ SweepClaim(p) \/ Unclaim(p) PROVE raced'
  BY <1>4 DEF SweepLook, SweepClaim, Unclaim, ghosts
<1>5. ASSUME NEW p, Unpark(p) \/ Reopen(p) \/ Mark(p) \/ Wake(p) \/ Unlock(p) \/ Remove(p) PROVE raced'
  BY <1>5 DEF Unpark, Reopen, Mark, Wake, Unlock, Remove, ghosts
<1> QED
  BY <1>1, <1>2, <1>3, <1>4, <1>5 DEF Next, ClientStep, SweepStep, DrainStep

LEMMA CoreKept == IInv /\ [Next]_vars /\ ~raced' => Core'
<1> SUFFICES ASSUME CTypeOK, Roles, Core, [Next]_vars, ~raced' PROVE Core'
  BY RacedStays DEF IInv
<1>0. Clients \subseteq Procs /\ Sweepers \subseteq Procs /\ Drainers \subseteq Procs
  BY DEF Procs
<1>1. CASE WaitStep \/ WaitAgain \/ Withdraw \/ TurnDies
  BY <1>1, WaitKeeps
<1>2. CASE TurnEnds \/ TurnSeen \/ Settle \/ UNCHANGED vars
  BY <1>2, AsideKeeps
<1>3. ASSUME NEW p \in Procs, Recovery(p) PROVE Core'
  BY <1>3, BeginKeeps, WorkKeeps DEF Recovery
<1>4. ASSUME NEW c \in Clients, Answer(c) \/ ClientStep(c) PROVE Core'
  BY <1>0, <1>3, <1>4, AsideKeeps, BeginKeeps DEF ClientStep
<1>5. ASSUME NEW s \in Sweepers, SweepStep(s) PROVE Core'
  BY <1>0, <1>3, <1>5, AsideKeeps DEF SweepStep
<1>6. ASSUME NEW d \in Drainers, Unpark(d) \/ DrainStep(d) \/ Wake(d) PROVE Core'
  BY <1>0, <1>6, AsideKeeps, BeginKeeps, WorkKeeps DEF DrainStep
<1>7. ASSUME NEW p \in Procs, Dies(p) PROVE Core'
  BY <1>7, DeathKeeps
<1> QED BY <1>1, <1>2, <1>4, <1>5, <1>6, <1>7 DEF Next
-----------------------------------------------------------------------------
LEMMA CardInvariant == Spec => []IInv
<1>1. IInv /\ [Next]_vars => IInv'
  BY CardTyped, RolesKept, CoreKept DEF IInv
<1> QED BY CardInit, <1>1, PTL DEF Spec

(* The types of the model.                                                     *)
THEOREM CardTypes == Spec => []CTypeOK
<1>1. IInv => CTypeOK
  BY DEF IInv
<1> QED BY <1>1, CardInvariant, PTL

(* An answer is delivered once, whoever answers, sweeps and drains, as long as  *)
(* no two worked on the card at once (recover_orphaned_response_with, deliver). *)
THEOREM AnsweredOnce == Spec => []OneDelivery
<1>1. IInv => OneDelivery
  BY DEF IInv, CTypeOK, Core, Given, OneDelivery
<1> QED BY <1>1, CardInvariant, PTL

(* A card that was neither answered nor closed is somewhere, through every      *)
(* park, recovery, reopening and death (park_and_stop, unpark_for_messages).    *)
THEOREM CardIsKept == Spec => []CardKept
<1>1. IInv => CardKept
  BY DEF IInv, Core, CardKept
<1> QED BY <1>1, CardInvariant, PTL
=============================================================================
