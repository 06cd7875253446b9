-------------------------------- MODULE Card --------------------------------
(***************************************************************************)
(* claw-fleet-core/src/parked.rs, mcp_ipc.rs, ask_preempt.rs and the       *)
(* waiting half of fleet__ask in mcp_server.rs: ONE decision card.         *)
(*                                                                         *)
(* The card is a request file while its producer, inside the turn that     *)
(* asked, polls for the response file; a parked file once the producer     *)
(* gave up; and a request file with a detached record after it stepped     *)
(* aside for a message.  Clients answer it, the refresh tick sweeps it     *)
(* back to a session that ended, a drain of queued messages reopens it.    *)
(*                                                                         *)
(* A step is one file operation, or several that nobody can tell apart.    *)
(* Left out: what is asked and answered, dismissals, sessions Fleet did    *)
(* not launch (they are never parked), and a second card of the session.   *)
(***************************************************************************)
EXTENDS Naturals, FiniteSets

CONSTANTS
  Clients,     \* desktop, phone, browser: whoever delivers an answer
  Sweepers,    \* refresh ticks
  Drainers,    \* drains of the session's message queue
  Nobody,
  MAX_WAKES,   \* turns a drain may start (a bound)
  MAX_CRASHES  \* turns and Fleet processes that may die (a bound)

Procs == Clients \cup Sweepers \cup Drainers

ASSUME CardAssumption ==
  /\ Clients \cap Sweepers = {} /\ Clients \cap Drainers = {} /\ Sweepers \cap Drainers = {}
  /\ Nobody \notin Procs
  /\ MAX_WAKES \in Nat /\ MAX_CRASHES \in Nat

VARIABLES
  req,       \* <id>.json: the card is open
  resp,      \* <id>.response.json, younger or older than the settle time
  parked,    \* parked/<id>.json
  detached,  \* the detached record
  claimed,   \* the record under the name a sweep renames it to
  lock,      \* who holds the lock file of the parked card
  turn,      \* the session's turn; a starting one has a lease and no process yet
  wait,      \* what the turn's call of fleet__ask is doing
  proc,      \* proc[p]: what client, sweep or drain p is doing
  wakes, crashes,
  delivered, \* answers the session was given, counted up to two
  closed,    \* withdrawn, given up with the consumer gone, or the turn died closing it
  raced      \* two worked on the card at the same time, the turn included, or one
             \* died with the card in two places, or answered and still parked

files == <<req, resp, parked, detached, claimed>>
session == <<turn, wait>>
counters == <<wakes, crashes>>
ghosts == <<delivered, closed, raced>>
vars == <<files, lock, session, proc, counters, ghosts>>
-----------------------------------------------------------------------------
\* got, late and gone: an answer, the timeout, a lost heartbeat; then the request
\* is removed, then the rest.
WaitPC == {"off", "poll", "peek", "got", "late", "gone", "gotRest", "lateRest", "goneRest", "park"}
ProcPC == {"idle", "lock", "kill", "resume", "unlock", "remove",
           "check", "write", "recover", "move", "clean", "claim", "unclaim", "reopen", "mark"}

CTypeOK ==
  /\ req \in BOOLEAN /\ parked \in BOOLEAN
  /\ resp \in {"none", "fresh", "old"}
  /\ detached \in BOOLEAN /\ claimed \in BOOLEAN
  /\ lock \in Procs \cup {Nobody}
  /\ turn \in {"none", "starting", "running"} /\ wait \in WaitPC
  /\ proc \in [Procs -> ProcPC]
  /\ wakes \in 0..MAX_WAKES /\ crashes \in 0..MAX_CRASHES
  /\ delivered \in 0..2 /\ closed \in BOOLEAN /\ raced \in BOOLEAN
  /\ turn # "running" => wait = "off"
  /\ lock # Nobody => proc[lock] \in {"kill", "resume", "unlock", "reopen", "mark"}

\* The card was just asked.
Init ==
  /\ req = TRUE /\ resp = "none" /\ parked = FALSE /\ detached = FALSE /\ claimed = FALSE /\ lock = Nobody
  /\ turn = "running" /\ wait = "poll"
  /\ proc = [p \in Procs |-> "idle"]
  /\ wakes = 0 /\ crashes = 0 /\ delivered = 0 /\ closed = FALSE /\ raced = FALSE

At(p, pc) == proc[p] = pc
Goto(p, pc) == proc' = [proc EXCEPT ![p] = pc]
Company(p) == \E q \in Procs \ {p} :
  proc[q] \in {"move", "clean", "reopen", "mark", "kill", "resume", "unlock", "remove"}
Delivered == delivered' = IF delivered < 2 THEN delivered + 1 ELSE delivered
-----------------------------------------------------------------------------
\* await_card polls: an answer, the timeout, the lost consumer, or a message in the
\* inbox, for which the card steps aside.
Poll ==
  /\ wait = "poll"
  /\ IF resp # "none"
     THEN wait' = "got" /\ UNCHANGED detached
     ELSE \/ wait' \in {"late", "gone"} /\ UNCHANGED detached
          \/ wait' = "peek" /\ detached' = TRUE
  /\ UNCHANGED <<req, resp, parked, claimed, lock, turn, proc, counters, ghosts>>

\* An answer that came before the detached record is taken after all.
Peek ==
  /\ wait = "peek"
  /\ IF resp # "none" THEN wait' = "got" /\ detached' = FALSE ELSE wait' = "off" /\ UNCHANGED detached
  /\ UNCHANGED <<req, resp, parked, claimed, lock, turn, proc, counters, ghosts>>

Rest == [got |-> "gotRest", late |-> "lateRest", gone |-> "goneRest"]

\* cleanup: first the request, then the response and the detached record.
RemoveRequest ==
  /\ wait \in DOMAIN Rest
  /\ req' = FALSE /\ wait' = Rest[wait]
  /\ UNCHANGED <<resp, parked, detached, claimed, lock, turn, proc, counters, ghosts>>

RemoveRest ==
  /\ wait \in {"gotRest", "lateRest", "goneRest"}
  /\ resp' = "none"
  /\ detached' = FALSE
  /\ \/ wait = "gotRest" /\ wait' = "off" /\ Delivered /\ UNCHANGED closed
     \/ wait = "goneRest" /\ wait' = "off" /\ closed' = TRUE /\ UNCHANGED delivered
     \/ wait = "lateRest" /\ wait' = "park" /\ UNCHANGED <<delivered, closed>>
  /\ UNCHANGED <<req, parked, claimed, lock, turn, proc, counters, raced>>

\* park_and_stop: the card is parked; the interrupt follows once the notice is read.
Park ==
  /\ wait = "park"
  /\ parked' = TRUE /\ wait' = "off"
  /\ UNCHANGED <<req, resp, detached, claimed, lock, turn, proc, counters, ghosts>>

\* fleet__ask action=wait on a card that is open.
WaitAgain ==
  /\ turn = "running" /\ wait = "off" /\ req
  /\ wait' = "poll"
  /\ detached' = FALSE
  /\ raced' = (raced \/ Company(Nobody))
  /\ UNCHANGED <<req, resp, parked, claimed, lock, turn, proc, counters, delivered, closed>>

\* action=withdraw, under the lock write_response takes too.
Withdraw ==
  /\ turn = "running" /\ wait = "off" /\ req /\ resp = "none"
  /\ \A c \in Clients : ~At(c, "write")
  /\ req' = FALSE /\ closed' = TRUE
  /\ detached' = FALSE
  /\ UNCHANGED <<resp, parked, claimed, lock, session, proc, counters, delivered, raced>>

\* The turn ends by itself, or is interrupted after its card was parked.
TurnEnds ==
  /\ turn = "running" /\ wait = "off"
  /\ turn' = "none"
  /\ UNCHANGED <<files, lock, wait, proc, counters, ghosts>>

\* The process of a started turn shows up.
TurnSeen ==
  /\ turn = "starting" /\ turn' = "running"
  /\ UNCHANGED <<files, lock, wait, proc, counters, ghosts>>

\* Mutant: the server outlives the turn that called it.
TurnGoneAlone == turn' = "none" /\ UNCHANGED <<wait, closed>>

\* The server's call ends with its turn.
TurnGone ==
  /\ turn' = "none" /\ wait' = "off"
  /\ closed' = (closed \/ wait \in {"gotRest", "lateRest", "goneRest", "park"})

TurnDies ==
  /\ turn # "none"
  /\ crashes < MAX_CRASHES /\ crashes' = crashes + 1
  /\ TurnGone
  /\ UNCHANGED <<files, lock, proc, wakes, delivered, raced>>

WaitStep == Poll \/ Peek \/ RemoveRequest \/ RemoveRest \/ Park
-----------------------------------------------------------------------------
OnScreen == parked \/ (req /\ resp = "none")

\* deliver: a parked card is resolved under its lock, an open one gets a response.
Answer(c) ==
  /\ At(c, "idle") /\ OnScreen
  /\ Goto(c, IF parked THEN "lock" ELSE "check")
  /\ UNCHANGED <<files, lock, session, counters, ghosts>>

\* with_card_lock, and whether the card is still parked.
Locks(p, parkedNext) ==
  /\ At(p, "lock") /\ lock = Nobody
  /\ IF parked
     THEN /\ lock' = p /\ Goto(p, parkedNext)
          /\ raced' = (raced \/ Company(p))
     ELSE /\ Goto(p, IF p \in Clients THEN "check" ELSE "idle")
          /\ UNCHANGED <<lock, raced>>
  /\ UNCHANGED <<files, session, counters, delivered, closed>>

\* answer_with: a turn that still runs is interrupted first.
Kill(p) ==
  /\ At(p, "kill")
  /\ IF ~parked THEN Goto(p, IF p \in Sweepers THEN "unclaim" ELSE "idle") /\ UNCHANGED <<session, closed>>
     ELSE /\ Goto(p, "resume")
          /\ IF turn = "running" THEN TurnGone ELSE UNCHANGED <<session, closed>>
  /\ lock' = IF ~parked /\ lock = p THEN Nobody ELSE lock
  /\ UNCHANGED <<files, counters, delivered, raced>>

\* Mutant: a refused resume drops the card as a granted one does.
ResumeOrDrop(p) ==
  /\ At(p, "resume") /\ Goto(p, "unlock")
  /\ IF turn = "none" THEN turn' = "starting" /\ Delivered ELSE UNCHANGED <<turn, delivered>>
  /\ UNCHANGED <<files, lock, wait, counters, closed, raced>>

\* The resume with the answer: the lease grants it or the card stays parked.
Resume(p) ==
  /\ At(p, "resume")
  /\ IF turn = "none"
     THEN turn' = "starting" /\ Delivered /\ Goto(p, "unlock") /\ UNCHANGED lock
     ELSE /\ Goto(p, IF p \in Sweepers THEN "unclaim" ELSE "idle")
          /\ lock' = IF lock = p THEN Nobody ELSE lock
          /\ UNCHANGED <<turn, delivered>>
  /\ UNCHANGED <<files, wait, counters, closed, raced>>

\* discard: the lock file goes first, whoever holds it, then the card.
Unlock(p) ==
  /\ At(p, "unlock")
  /\ lock' = Nobody /\ Goto(p, "remove")
  /\ UNCHANGED <<files, session, counters, ghosts>>

Remove(p) ==
  /\ At(p, "remove")
  /\ parked' = FALSE /\ Goto(p, "idle")
  /\ claimed' = IF p \in Sweepers THEN FALSE ELSE claimed
  /\ UNCHANGED <<req, resp, detached, lock, session, counters, ghosts>>

\* write_response: the request must be there, under a lock, when it is written.
Check(c) ==
  /\ At(c, "check") /\ \A d \in Clients : ~At(d, "write")
  /\ Goto(c, IF req THEN "write" ELSE "idle")
  /\ UNCHANGED <<files, lock, session, counters, ghosts>>

Write(c) ==
  /\ At(c, "write")
  /\ resp' = "fresh" /\ Goto(c, "recover")
  /\ UNCHANGED <<req, parked, detached, claimed, lock, session, counters, ghosts>>
-----------------------------------------------------------------------------
\* Mutant: an answered request is recovered whether or not its turn lives.
OrphanedAnyway == req /\ resp # "none"

\* recover_orphaned_response: nobody is left to read the answer.  A turn that is
\* only starting counts for a card that stepped aside.
Orphaned == req /\ resp # "none" /\ (turn = "none" \/ (turn = "starting" /\ ~detached /\ ~claimed))

Recover(p) ==
  /\ At(p, "recover")
  /\ Goto(p, IF Orphaned THEN "move" ELSE IF p \in Sweepers THEN "unclaim" ELSE "idle")
  /\ raced' = (raced \/ (Orphaned /\ Company(p)))
  /\ UNCHANGED <<files, lock, session, counters, delivered, closed>>

\* The card is parked, then the live pair goes, then it is answered.
Move(p) ==
  /\ At(p, "move")
  /\ parked' = TRUE /\ Goto(p, "clean")
  /\ UNCHANGED <<req, resp, detached, claimed, lock, session, counters, ghosts>>

Clean(p) ==
  /\ At(p, "clean")
  /\ req' = FALSE /\ resp' = "none" /\ Goto(p, "kill")
  /\ detached' = FALSE
  /\ UNCHANGED <<parked, claimed, lock, session, counters, ghosts>>

Recovery(p) == Recover(p) \/ Move(p) \/ Clean(p) \/ Kill(p) \/ Resume(p) \/ Unlock(p) \/ Remove(p)

\* sweep_one: a detached card without a request is pruned; one that was answered a
\* while ago, in a session that is over, is claimed.
SweepLook(s) ==
  /\ At(s, "idle") /\ detached
  /\ IF ~req THEN detached' = FALSE /\ UNCHANGED proc
     ELSE resp = "old" /\ turn # "running" /\ Goto(s, "claim") /\ UNCHANGED detached
  /\ UNCHANGED <<req, resp, parked, claimed, lock, session, counters, ghosts>>

\* Claim by rename, so that two sweeps never both resume the session.
SweepClaim(s) ==
  /\ At(s, "claim")
  /\ IF detached
     THEN detached' = FALSE /\ claimed' = TRUE /\ Goto(s, "recover")
     ELSE Goto(s, "idle") /\ UNCHANGED <<detached, claimed>>
  /\ UNCHANGED <<req, resp, parked, lock, session, counters, ghosts>>

\* Mutant: the record keeps the sweep's name.
UnclaimForgets(s) ==
  /\ At(s, "unclaim") /\ Goto(s, "idle")
  /\ UNCHANGED <<files, lock, session, counters, ghosts>>

\* Declined or failed: the record gets its name back.
Unclaim(s) ==
  /\ At(s, "unclaim")
  /\ detached' = (detached \/ claimed) /\ claimed' = FALSE /\ Goto(s, "idle")
  /\ UNCHANGED <<req, resp, parked, lock, session, counters, ghosts>>

SweepStep(s) == SweepLook(s) \/ SweepClaim(s) \/ Unclaim(s) \/ Recovery(s)
ClientStep(c) == Locks(c, "kill") \/ Check(c) \/ Write(c) \/ Recovery(c)
-----------------------------------------------------------------------------
\* A drain finds a parked card in the way: unpark_for_messages reopens it.
Unpark(d) ==
  /\ At(d, "idle") /\ parked /\ turn = "none" /\ wakes < MAX_WAKES
  /\ Goto(d, "lock")
  /\ UNCHANGED <<files, lock, session, counters, ghosts>>

Reopen(d) ==
  /\ At(d, "reopen")
  /\ req' = TRUE /\ Goto(d, "mark")
  /\ UNCHANGED <<resp, parked, detached, claimed, lock, session, counters, ghosts>>

Mark(d) ==
  /\ At(d, "mark")
  /\ detached' = TRUE /\ Goto(d, "unlock")
  /\ UNCHANGED <<req, resp, parked, claimed, lock, session, counters, ghosts>>

\* Nothing parked is in the way: the messages wake the session.
Wake(d) ==
  /\ At(d, "idle") /\ ~parked /\ turn = "none" /\ wakes < MAX_WAKES
  /\ turn' = "starting" /\ wakes' = wakes + 1
  /\ UNCHANGED <<files, lock, wait, proc, crashes, ghosts>>

DrainStep(d) == Locks(d, "reopen") \/ Reopen(d) \/ Mark(d) \/ Unlock(d) \/ Remove(d)

\* A Fleet process dies; the system releases its lock.
Dies(p) ==
  /\ proc[p] # "idle"
  /\ crashes < MAX_CRASHES /\ crashes' = crashes + 1
  /\ Goto(p, "idle")
  /\ lock' = IF lock = p THEN Nobody ELSE lock
  /\ raced' = (raced \/ proc[p] \in {"clean", "mark", "unlock", "remove"})
  /\ UNCHANGED <<files, session, wakes, delivered, closed>>

\* The response is older than SWEEP_SETTLE_MS; whoever wrote it is done with it.
Settle ==
  /\ resp = "fresh" /\ resp' = "old"
  /\ \A c \in Clients : proc[c] \notin {"recover", "move", "clean"}
  /\ UNCHANGED <<req, parked, detached, claimed, lock, session, proc, counters, ghosts>>

Next ==
  \/ WaitStep \/ WaitAgain \/ Withdraw \/ TurnEnds \/ TurnSeen \/ TurnDies \/ Settle
  \/ \E c \in Clients : Answer(c) \/ ClientStep(c)
  \/ \E s \in Sweepers : SweepStep(s)
  \/ \E d \in Drainers : Unpark(d) \/ DrainStep(d) \/ Wake(d)
  \/ \E p \in Procs : Dies(p)

Spec == Init /\ [][Next]_vars

\* Whatever has begun goes on, the refresh tick comes round and a turn ends; a
\* client need not answer, a drain need not come, and the turn need not wait again.
Fairness ==
  /\ WF_vars(WaitStep) /\ WF_vars(TurnEnds) /\ WF_vars(TurnSeen) /\ WF_vars(Settle)
  /\ \A c \in Clients : WF_vars(ClientStep(c))
  /\ \A s \in Sweepers : WF_vars(SweepStep(s))
  /\ \A d \in Drainers : WF_vars(DrainStep(d))

FairSpec == Spec /\ Fairness
-----------------------------------------------------------------------------
\* The duplicate-resume gate (recover_orphaned_response_with): the session is given an
\* answer once, by its own poll, from the parked card or by a sweep, unless two
\* worked on the card at once or one died half-way.
OneDelivery == delivered > 1 => raced

\* Until it is answered or closed, the card is on disk or in the hands of the
\* turn that is about to park it (park_and_stop, recover, unpark_for_messages).
Kept == req \/ parked \/ wait \in {"gotRest", "lateRest", "goneRest", "park"}
CardKept == delivered = 0 /\ ~closed /\ ~raced => Kept

\* The comment in unpark_for_messages: "an answer arriving now either resolves the
\* parked card first (and we find it gone) or finds the open request after".
SwapKeeps == delivered = 0 /\ ~closed => Kept

\* The answer to a card that stepped aside reaches the session in the end (sweep_idle),
\* whatever its turn does about it, or the card is asked again because the lease refused the
\* resume; unless it is closed, a process dies meanwhile, or two worked on the card.
AskedAgain == parked /\ ~Company(Nobody)
AnswerSwept == \A k \in 0..MAX_CRASHES :
  (detached /\ req /\ resp # "none" /\ crashes = k) ~> (delivered > 0 \/ AskedAgain \/ closed \/ raced \/ crashes > k)
=============================================================================
