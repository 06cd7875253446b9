--------------------------- MODULE PendingMessage ---------------------------
(***************************************************************************)
(* claw-fleet-core/src/pending_message.rs: follow-ups queued for ONE       *)
(* session that is mid-turn, delivered as one resume when the turn ends.   *)
(*                                                                         *)
(* Senders (front ends, agents) and drainers (fs-watch flush, polling      *)
(* fallback, 30 s ticker, in every Fleet process) share two files without  *)
(* a lock, so each file operation is an action: reading the queue, writing *)
(* it back, the renaming that claims it, the reading and removing of the   *)
(* claim.                                                                  *)
(*                                                                         *)
(* The session itself is what the drive lease promises (OneDriver): a      *)
(* resume is granted only when no turn is in flight.  Workspaces, framing  *)
(* and dsh sessions are left out; a file write is atomic here (in the code *)
(* it truncates first).                                                    *)
(***************************************************************************)
EXTENDS Naturals, Sequences, SequencesExt, FiniteSets

CONSTANTS
  Messages,    \* the follow-ups; each is sent at most once
  Senders,     \* callers of enqueue and remove_at
  Drainers,    \* callers of drain_if_idle
  NoFile,      \* the path does not exist
  Queued,      \* the messages queued before the first step
  MAX_RETRIES, \* config.max_server_error_retries; 0 stands for a retry switched off
  MAX_DEATHS   \* drains that are cut off by the death of their process (a bound)

ASSUME QueuedAssumption ==
  /\ Queued \in Seq(Messages) /\ IsInjective(Queued)
  /\ NoFile \notin Seq(Messages)
  /\ MAX_RETRIES \in Nat /\ MAX_DEATHS \in Nat

VARIABLES
  queue,       \* <session>.json
  claim,       \* <session>.draining
  sender,      \* sender[s]: a read-modify-write of the queue under way
  drainer,     \* drainer[d]: a drain_if_idle under way
  turn,        \* a turn is in flight on the session
  errored,     \* the last turn ended RateLimited or ServerErrored
  tries,       \* server_errors: the retries the ticker spent on this errored session
  card,        \* the session's parked card
  retired,     \* a successor is on record
  sent,        \* messages handed to enqueue
  delivered,   \* delivered[m]: how many turns were given m
  gone,        \* messages cancelled, failed with the spawn, or moved on
  deaths,
  mixed        \* messages claimed while somebody was writing the queue back, or
               \* while an earlier claim was not read yet

files == <<queue, claim>>
session == <<turn, errored, tries, card, retired>>
fate == <<deaths, mixed>>
vars == <<files, sender, drainer, session, sent, delivered, gone, fate>>

Content(f) == IF f = NoFile THEN <<>> ELSE f
Has(q, m) == \E i \in DOMAIN q : q[i] = m

Idle == [pc |-> "idle", q |-> <<>>]

DrainPC == {"idle", "look", "skip", "claim", "read", "moveclaim", "moveread", "resume",
            "move", "requeue", "rewrite", "release"}

PTypeOK ==
  /\ queue \in Seq(Messages) \cup {NoFile} /\ claim \in Seq(Messages) \cup {NoFile}
  /\ sender \in [Senders -> [pc : {"idle", "write"}, q : Seq(Messages)]]
  /\ drainer \in [Drainers -> [pc : DrainPC, q : Seq(Messages)]]
  /\ turn \in BOOLEAN /\ errored \in BOOLEAN /\ retired \in BOOLEAN
  /\ card \in {"none", "ask", "other"} /\ tries \in 0..MAX_RETRIES
  /\ sent \subseteq Messages /\ gone \subseteq Messages
  /\ delivered \in [Messages -> Nat]
  /\ deaths \in 0..MAX_DEATHS /\ mixed \subseteq Messages

Init ==
  /\ queue = IF Queued = <<>> THEN NoFile ELSE Queued
  /\ claim = NoFile
  /\ sender = [s \in Senders |-> Idle]
  /\ drainer = [d \in Drainers |-> Idle]
  /\ turn \in BOOLEAN /\ errored = FALSE /\ tries = 0 /\ card = "none" /\ retired = FALSE
  /\ sent = ToSet(Queued)
  /\ delivered = [m \in Messages |-> 0]
  /\ gone = {}
  /\ deaths = 0 /\ mixed = {}

Deliver(q) == delivered' = [m \in Messages |-> delivered[m] + IF Has(q, m) THEN 1 ELSE 0]
-----------------------------------------------------------------------------
\* enqueue: a live turn may take the message straight away, over its socket.
Inject(s, m) ==
  /\ sender[s].pc = "idle" /\ m \notin sent /\ ~retired
  /\ turn
  /\ sent' = sent \cup {m}
  /\ Deliver(<<m>>)
  /\ UNCHANGED <<files, sender, drainer, session, gone, fate>>

\* enqueue, append_to_queue: read the queue, add the message.  Once a successor
\* is on record the message is addressed to it and never gets here.
EnqueueRead(s, m) ==
  /\ sender[s].pc = "idle" /\ m \notin sent /\ ~retired
  /\ sent' = sent \cup {m}
  /\ sender' = [sender EXCEPT ![s] = [pc |-> "write", q |-> Append(Content(queue), m)]]
  /\ UNCHANGED <<files, drainer, session, delivered, gone, fate>>

\* remove_at: read the queue, take one message out.
CancelRead(s, i) ==
  /\ sender[s].pc = "idle"
  /\ i \in DOMAIN Content(queue)
  /\ sender' = [sender EXCEPT ![s] = [pc |-> "write", q |-> RemoveAt(queue, i)]]
  /\ gone' = gone \cup {queue[i]}
  /\ UNCHANGED <<files, drainer, session, sent, delivered, fate>>

\* write_queue, or clear when nothing is left.
SenderWrite(s) ==
  /\ sender[s].pc = "write"
  /\ queue' = IF sender[s].q = <<>> THEN NoFile ELSE sender[s].q
  /\ sender' = [sender EXCEPT ![s] = Idle]
  /\ UNCHANGED <<claim, drainer, session, sent, delivered, gone, fate>>
-----------------------------------------------------------------------------
At(d, pc) == drainer[d].pc = pc
Goto(d, pc) == drainer' = [drainer EXCEPT ![d].pc = pc]
Take(d, pc, q) == drainer' = [drainer EXCEPT ![d] = [pc |-> pc, q |-> q]]
Return(d) == drainer' = [drainer EXCEPT ![d] = Idle]

\* The scan drain_if_idle is called with, which may be old when it is: is the
\* turn over, and not one the retry will take up again (is_drainable)?
Scan(d) ==
  /\ At(d, "idle")
  /\ Goto(d, IF ~turn /\ ~errored THEN "look" ELSE "skip")
  /\ UNCHANGED <<files, sender, session, sent, delivered, gone, fate>>

\* drain_if_idle up to the claim: something is queued; a retired session's queue
\* moves on; otherwise no turn may have begun since the scan, and a parked card
\* must be one that steps aside.
Look(d) ==
  /\ drainer[d].pc \in {"look", "skip"}
  /\ \/ /\ queue # NoFile /\ retired
        /\ Goto(d, "moveclaim") /\ UNCHANGED card
     \/ /\ queue # NoFile /\ ~retired /\ At(d, "look") /\ ~turn /\ card # "other"
        /\ card' = "none"
        /\ Goto(d, "claim")
     \/ /\ queue = NoFile \/ (~retired /\ (At(d, "skip") \/ turn \/ card = "other"))
        /\ Return(d) /\ UNCHANGED card
  /\ UNCHANGED <<files, sender, turn, errored, tries, retired, sent, delivered, gone, fate>>

\* What a claim takes from under the hands of others.
Raced == IF \E d \in Drainers : drainer[d].pc \in {"read", "moveread"}
         THEN ToSet(Content(queue))
         ELSE {m \in ToSet(Content(queue)) :
                 \/ \E s \in Senders : Has(sender[s].q, m)
                 \/ \E d \in Drainers : At(d, "rewrite") /\ Has(drainer[d].q, m)}

\* Mutant: the queue is read and then deleted, as before 2026-09-08.
ClaimByReading(d) ==
  /\ drainer[d].pc \in {"claim", "moveclaim"}
  /\ claim' = IF queue # NoFile THEN queue ELSE claim
  /\ Goto(d, IF drainer[d].pc = "claim" THEN "read" ELSE "moveread")
  /\ UNCHANGED <<queue, sender, session, sent, delivered, gone, fate>>

\* claim_queue, the rename: it replaces whatever the claim file was.
Claim(d) ==
  /\ drainer[d].pc \in {"claim", "moveclaim"}
  /\ IF queue = NoFile
     THEN Return(d) /\ UNCHANGED files
     ELSE /\ claim' = queue /\ queue' = NoFile
          /\ Goto(d, IF At(d, "claim") THEN "read" ELSE "moveread")
  /\ mixed' = mixed \cup Raced
  /\ UNCHANGED <<sender, session, sent, delivered, gone, deaths>>

\* Mutant: that the claim file is gone by then is not noticed.
ReadClaimAnyway(d) ==
  /\ drainer[d].pc \in {"read", "moveread"}
  /\ Take(d, IF At(d, "read") THEN "resume" ELSE "move", claim)
  /\ UNCHANGED <<files, sender, session, sent, delivered, gone, fate>>

\* claim_queue, the reading of the claim file.
ReadClaim(d) ==
  /\ drainer[d].pc \in {"read", "moveread"}
  /\ IF claim = NoFile THEN Return(d)
     ELSE Take(d, IF At(d, "read") THEN "resume" ELSE "move", claim)
  /\ UNCHANGED <<files, sender, session, sent, delivered, gone, fate>>

\* resume_session, class Answer: refused while a turn is in flight or once a
\* successor is on record.
Refused == turn \/ retired

Resume(d) ==
  /\ At(d, "resume") /\ ~Refused
  /\ turn' = TRUE
  /\ Deliver(drainer[d].q)
  /\ Goto(d, "release")
  /\ UNCHANGED <<files, sender, errored, tries, card, retired, sent, gone, fate>>

\* The process does not start: the text is given up.
ResumeFails(d) ==
  /\ At(d, "resume") /\ ~Refused
  /\ gone' = gone \cup ToSet(drainer[d].q)
  /\ Goto(d, "release")
  /\ UNCHANGED <<files, sender, session, sent, delivered, fate>>

ResumeRefused(d) ==
  /\ At(d, "resume") /\ Refused
  /\ Goto(d, "requeue")
  /\ UNCHANGED <<files, sender, session, sent, delivered, gone, fate>>

\* requeue_at_head: read what was queued meanwhile, put the claimed in front.
RequeueRead(d) ==
  /\ At(d, "requeue")
  /\ Take(d, "rewrite", drainer[d].q \o Content(queue))
  /\ UNCHANGED <<files, sender, session, sent, delivered, gone, fate>>

RequeueWrite(d) ==
  /\ At(d, "rewrite")
  /\ queue' = drainer[d].q
  /\ Goto(d, "release")
  /\ UNCHANGED <<claim, sender, session, sent, delivered, gone, fate>>

\* The queue of a retired session goes to the live end of its succession.
Move(d) ==
  /\ At(d, "move")
  /\ gone' = gone \cup ToSet(drainer[d].q)
  /\ Goto(d, "release")
  /\ UNCHANGED <<files, sender, session, sent, delivered, fate>>

\* release_claim.
Release(d) ==
  /\ At(d, "release")
  /\ claim' = NoFile
  /\ Return(d)
  /\ UNCHANGED <<queue, sender, session, sent, delivered, gone, fate>>

Drain(d) ==
  \/ Scan(d) \/ Look(d) \/ Claim(d) \/ ReadClaim(d)
  \/ Resume(d) \/ ResumeFails(d) \/ ResumeRefused(d)
  \/ RequeueRead(d) \/ RequeueWrite(d) \/ Move(d) \/ Release(d)
-----------------------------------------------------------------------------
\* The class of the intent a queue stands for (derived_pending).
\* Mutant: the drain's own class.
AnswerClass == "answer"
QueueClass == "continue"

\* The ticker's retry of an errored session, unless an intent of a higher class
\* than its own stands (a parked card's does, a queue's must not) or the retries
\* of this error are spent.  One is spent although the resume is turned away or
\* does not start; of a rate limit only those are counted.
Retry ==
  /\ errored /\ ~turn /\ ~retired
  /\ card = "none"
  /\ queue # NoFile => QueueClass # "answer"
  /\ tries < MAX_RETRIES
  /\ \/ turn' = TRUE /\ errored' = FALSE /\ tries' \in {tries, tries + 1}
     \/ tries' = tries + 1 /\ UNCHANGED <<turn, errored>>
  /\ UNCHANGED <<files, sender, drainer, card, retired, sent, delivered, gone, fate>>

\* A tick that finds the session no longer errored gives it its retries back.
EpisodeEnds ==
  /\ ~errored /\ tries # 0
  /\ tries' = 0
  /\ UNCHANGED <<files, sender, drainer, turn, errored, card, retired, sent, delivered, gone, fate>>

\* A turn ends well, on an error, or by parking a card.
TurnEnds ==
  /\ turn /\ turn' = FALSE
  /\ \/ errored' \in BOOLEAN /\ UNCHANGED card
     \/ card' \in {"ask", "other"} /\ errored' = FALSE
  /\ UNCHANGED <<files, sender, drainer, tries, retired, sent, delivered, gone, fate>>

\* Somebody else's turn: the user, a watch, the answer to the card.
TurnStarts ==
  /\ ~turn /\ turn' = TRUE
  /\ errored' = FALSE /\ card' = "none"
  /\ UNCHANGED <<files, sender, drainer, tries, retired, sent, delivered, gone, fate>>

Retire ==
  /\ ~retired /\ retired' = TRUE
  /\ UNCHANGED <<files, sender, drainer, turn, errored, tries, card, sent, delivered, gone, fate>>

Send(s) ==
  \/ \E m \in Messages : Inject(s, m) \/ EnqueueRead(s, m)
  \/ \E i \in 1..Len(Content(queue)) : CancelRead(s, i)
  \/ SenderWrite(s)

\* A Fleet process dies in the middle of a drain; what it claimed stays in the
\* claim file, which nobody reads without claiming anew.
Dies(d) ==
  /\ ~At(d, "idle")
  /\ deaths < MAX_DEATHS /\ deaths' = deaths + 1
  /\ Return(d)
  /\ UNCHANGED <<files, sender, session, sent, delivered, gone, mixed>>

Next ==
  \/ \E s \in Senders : Send(s)
  \/ \E d \in Drainers : Drain(d) \/ Dies(d)
  \/ Retry \/ EpisodeEnds \/ TurnEnds \/ TurnStarts \/ Retire

Spec == Init /\ [][Next]_vars

(* Every Fleet process keeps draining, also after it was restarted; senders     *)
(* finish their write, and the ticker, online, comes round to every retry it    *)
(* has left.  Turns need not end, and no retry need start one.                  *)
Fairness ==
  /\ \A s \in Senders : WF_vars(SenderWrite(s))
  /\ \A d \in Drainers : WF_vars(Drain(d))
  /\ WF_vars(Retry)

FairSpec == Spec /\ Fairness
-----------------------------------------------------------------------------
(* No message is handed to two turns, however many drainers meet on one queue   *)
(* (the double spawn of 2026-09-08, and what claim_queue's rename is for) and    *)
(* whoever of them dies, unless it was claimed while somebody was writing the *)
(* queue back or another claim was waiting to be read.                          *)
DeliveredOnce == \A m \in Messages : delivered[m] <= 1 \/ m \in mixed

\* Where a message can be after it was handed to enqueue.
Somewhere(m) ==
  \/ Has(Content(queue), m) \/ Has(Content(claim), m)
  \/ \E s \in Senders : Has(sender[s].q, m)
  \/ \E d \in Drainers : Has(drainer[d].q, m)
  \/ delivered[m] > 0 \/ m \in gone

(* A message that was neither cancelled nor moved nor lost to a spawn that      *)
(* could not start is still on its way or was delivered.                        *)
NothingLost == \A m \in sent : Somewhere(m)

(* The retry and the drain never wait for each other: on a session that is left *)
(* alone, what is queued is taken up.  Two kinds of session are not: one with a *)
(* card that only the user can clear (a card that would step aside does not for *)
(* an errored session), and an errored one whose retries are spent or switched  *)
(* off, which no drain touches until somebody else brings it back: there the    *)
(* queue waits for good.  A claim that its dead drainer left behind is no queue *)
(* and nothing takes it up.                                                     *)
LeftAlone ==
  /\ ~turn /\ card # "other"
  /\ ~(errored /\ (card = "ask" \/ tries = MAX_RETRIES))

QueueIsDrained ==
  <>[]LeftAlone => \A m \in Messages : []<>(~Has(Content(queue), m))
=============================================================================
