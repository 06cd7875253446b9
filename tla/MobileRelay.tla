---------------------------- MODULE MobileRelay ----------------------------
(***************************************************************************)
(* A decision answered on a phone, end to end: mobile-web/src/relay.ts     *)
(* (answerViaReq), fleet-relay/src/registry.rs and ws.rs (one channel),    *)
(* claw-fleet-core/src/mobile_relay.rs (the host's connection and its      *)
(* handlers) and relay_role.rs (which Fleet process may be the host).      *)
(*                                                                         *)
(* A phone sends its answer in attempts, each a frame with an id of its    *)
(* own.  The relay passes a frame on to every host connection in the       *)
(* channel, or holds it for the next one to join.  Connections break on    *)
(* either side first, hosts quit, the relay restarts.                      *)
(*                                                                         *)
(* Left out: what is sealed in a frame, presence, notifications, what the  *)
(* host sends of its own, other requests, the caps on channels, a phone    *)
(* whose user tries again (a further attempt), and what reaches a phone of *)
(* an attempt it no longer waits for, which it ignores.                    *)
(***************************************************************************)
EXTENDS Naturals, Sequences, FiniteSets, SequencesExt

CONSTANTS
  Phones,
  Hosts,          \* the Fleet processes of the machine that may join as agent
  Desktop,        \* the one of them that is the desktop app
  Conns,          \* names for connections of hosts, used again (a bound)
  Nobody,
  ANSWER_MAX_ATTEMPTS,
  OUT_QUEUE_CAP,
  MAX_PENDING,
  MAX_FAULTS      \* broken connections, quits, restarts and panics (a bound)

ASSUME RelayAssumption ==
  /\ Desktop \in Hosts /\ Nobody \notin Hosts \cup Conns
  /\ "gone" \notin Hosts
  /\ ANSWER_MAX_ATTEMPTS \in Nat \ {0} /\ MAX_FAULTS \in Nat
  /\ MAX_PENDING \in Nat \ {0} /\ OUT_QUEUE_CAP \in Nat /\ MAX_PENDING <= OUT_QUEUE_CAP

Frames == Phones \X (1..ANSWER_MAX_ATTEMPTS)

VARIABLES
  link,    \* phones with a socket to the relay
  attempt, \* attempt[p]: how many frames phone p has sent
  told,    \* told[p]: what the user of p was told
  up,      \* up[p]: frames of p on their way to the relay
  down,    \* down[p]: reports and replies on their way to p, of the attempt it waits for
  agents,  \* connections in the channel
  out,     \* out[c]: frames before the write pump of c
  broken,  \* connections whose write pump has given up
  held,    \* frames in custody, oldest first
  stage,   \* stage[h]: what the connection loop of h is doing; off: h is not running
  sock,    \* sock[h]: the connection h reads from
  holder,  \* relay-agent.json; gone: the process recorded there is dead
  job,     \* job[h]: handlers at work in h
  claimed, \* hosts that remember the card as answered
  stuck,   \* those of them whose delivery panicked, and not over an answered card: the
           \* claim was not given back
  answered,\* the card took an answer
  faults,
  settled, \* frames a handler is done with or that were dropped, whoever did it
  hasty    \* a duplicate was told yes before the card took an answer, while the delivery
           \* was under way or over a claim that a panic left

phone == <<link, attempt, told, up, down>>
channel == <<agents, out, broken, held>>
role == <<stage, sock, holder>>
work == <<job, claimed, stuck, answered>>
ghosts == <<settled, hasty>>
vars == <<phone, channel, role, work, faults, ghosts>>
-----------------------------------------------------------------------------
Told == {"nothing", "asking", "queued", "applied", "refused", "failed"}
Reports == {"queued", "yes", "no"}
Jobs == [frame : Frames, pc : {"claim", "deliver"}]

MTypeOK ==
  /\ link \subseteq Phones
  /\ attempt \in [Phones -> 0..ANSWER_MAX_ATTEMPTS] /\ told \in [Phones -> Told]
  /\ up \in [Phones -> Seq(Frames)] /\ down \in [Phones -> SUBSET Reports]
  /\ \A p \in Phones : up[p] \in Seq({p} \X (1..attempt[p]))
  /\ agents \subseteq Conns /\ broken \subseteq agents
  /\ out \in [Conns -> Seq(Frames)] /\ \A c \in Conns : Len(out[c]) <= OUT_QUEUE_CAP
  /\ held \in Seq(Frames) /\ Len(held) <= MAX_PENDING
  /\ stage \in [Hosts -> {"off", "out", "joining", "in"}]
  /\ sock \in [Hosts -> Conns \cup {Nobody}]
  /\ \A h \in Hosts : sock[h] # Nobody <=> stage[h] = "in"
  /\ holder \in Hosts \cup {Nobody, "gone"}
  /\ job \in [Hosts -> SUBSET Jobs]
  /\ claimed \subseteq Hosts /\ stuck \subseteq Hosts /\ answered \in BOOLEAN
  /\ faults \in 0..MAX_FAULTS
  /\ settled \subseteq Frames /\ hasty \in BOOLEAN

Init ==
  /\ link = Phones /\ attempt = [p \in Phones |-> 0] /\ told = [p \in Phones |-> "nothing"]
  /\ up = [p \in Phones |-> <<>>] /\ down = [p \in Phones |-> {}]
  /\ agents = {} /\ out = [c \in Conns |-> <<>>] /\ broken = {} /\ held = <<>>
  /\ stage = [h \in Hosts |-> "off"] /\ sock = [h \in Hosts |-> Nobody] /\ holder = Nobody
  /\ job = [h \in Hosts |-> {}] /\ claimed = {} /\ stuck = {} /\ answered = FALSE
  /\ faults = 0 /\ settled = {} /\ hasty = FALSE

Fault == faults < MAX_FAULTS /\ faults' = faults + 1
Reads(h, c) == sock[h] = c
Drops(frames) == settled' = settled \cup frames

\* What is sent to p of attempt n; a phone ignores what it does not wait for.
Tell(p, n, what) ==
  down' = IF p \in link /\ told[p] = "asking" /\ n = attempt[p]
          THEN [down EXCEPT ![p] = @ \cup {what}] ELSE down
-----------------------------------------------------------------------------
Opens(p) ==
  /\ p \notin link /\ link' = link \cup {p}
  /\ UNCHANGED <<attempt, told, up, down, channel, role, work, faults, ghosts>>

\* request: a new id, sent if the socket is open.
Sends(p) ==
  /\ attempt' = [attempt EXCEPT ![p] = @ + 1]
  /\ up' = [up EXCEPT ![p] = Append(@, <<p, attempt[p] + 1>>)]

\* answerViaReq
Answer(p) ==
  /\ p \in link /\ told[p] = "nothing"
  /\ told' = [told EXCEPT ![p] = "asking"]
  /\ Sends(p)
  /\ UNCHANGED <<link, down, channel, role, work, faults, ghosts>>

\* REQUEST_TIMEOUT_MS: what still comes for this attempt is ignored.
TimesOut(p) ==
  /\ told[p] = "asking"
  /\ IF attempt[p] < ANSWER_MAX_ATTEMPTS
     THEN Sends(p) /\ UNCHANGED told
     ELSE told' = [told EXCEPT ![p] = "failed"] /\ UNCHANGED <<attempt, up>>
  /\ down' = [down EXCEPT ![p] = {}]
  /\ UNCHANGED <<link, channel, role, work, faults, ghosts>>

\* handleMsgAck and reply.
Receive(p) == \E what \in down[p] :
  /\ down' = [down EXCEPT ![p] = {}]
  /\ told' = [told EXCEPT ![p] = [queued |-> "queued", yes |-> "applied", no |-> "refused"][what]]
  /\ UNCHANGED <<link, attempt, up, channel, role, work, faults, ghosts>>

\* onclose fails what is pending, and the attempts left find no socket.
Failing(gone) == told' = [p \in Phones |-> IF p \in gone /\ told[p] = "asking" THEN "failed" ELSE told[p]]

\* Mutant: the channel goes with its last connection, whatever is held.
DropCollects(p) ==
  /\ p \in link /\ link' = link \ {p}
  /\ Failing({p})
  /\ down' = [down EXCEPT ![p] = {}] /\ UNCHANGED up
  /\ held' = IF agents = {} /\ link' = {} THEN <<>> ELSE held
  /\ UNCHANGED <<attempt, agents, out, broken, role, work, faults, ghosts>>

\* The socket of a phone closes; what it sent last may or may not have arrived.  A
\* channel with frames in custody outlives its connections (is_empty).
Drop(p) ==
  /\ p \in link /\ link' = link \ {p}
  /\ Failing({p})
  /\ down' = [down EXCEPT ![p] = {}]
  /\ up' \in {up, [up EXCEPT ![p] = <<>>]}
  /\ UNCHANGED <<attempt, channel, role, work, faults, ghosts>>
-----------------------------------------------------------------------------
Fits(c) == c \notin broken /\ Len(out[c]) < OUT_QUEUE_CAP

\* Mutant: the cap on the frames in custody is not looked at.
HoldAlways(f) == held' = Append(held, f) /\ UNCHANGED settled

\* The oldest goes if there are too many.
Hold(f) ==
  IF Len(held) = MAX_PENDING
  THEN held' = Append(Tail(held), f) /\ Drops({Head(held)})
  ELSE held' = Append(held, f) /\ UNCHANGED settled

\* deliver_or_queue and the report on it (of delivered the phone makes nothing).
Take(p) ==
  /\ up[p] # <<>> /\ up' = [up EXCEPT ![p] = Tail(@)]
  /\ LET f == Head(up[p])
         takers == {c \in agents : Fits(c)}
     IN IF takers # {}
        THEN /\ out' = [c \in Conns |-> IF c \in takers THEN Append(out[c], f) ELSE out[c]]
             /\ UNCHANGED <<held, settled, down>>
        ELSE Hold(f) /\ Tell(p, f[2], "queued") /\ UNCHANGED out
  /\ UNCHANGED <<link, attempt, told, agents, broken, role, work, faults, hasty>>

\* A frame in custody is past its lifetime (pending_ttl); the code drops it before it
\* looks at what it holds the next time.
Expire ==
  /\ held # <<>> /\ held' = Tail(held) /\ Drops({Head(held)})
  /\ UNCHANGED <<phone, agents, out, broken, role, work, faults, hasty>>

\* The write pump: what is written to a socket nobody reads is gone.
Pump(c) ==
  /\ c \in agents \ broken /\ out[c] # <<>>
  /\ out' = [out EXCEPT ![c] = Tail(@)]
  /\ job' = [h \in Hosts |-> IF Reads(h, c) THEN job[h] \cup {[frame |-> Head(out[c]), pc |-> "claim"]} ELSE job[h]]
  /\ Drops(IF \E h \in Hosts : Reads(h, c) THEN {} ELSE {Head(out[c])})
  /\ UNCHANGED <<phone, agents, broken, held, role, claimed, stuck, answered, faults, hasty>>

Empties(c) ==
  /\ out' = [out EXCEPT ![c] = <<>>]
  /\ Drops(ToSet(out[c]))

\* WRITE_TIMEOUT: the pump of a peer that stopped reading gives up.
Stall(c) ==
  /\ c \in agents \ broken /\ out[c] # <<>>
  /\ Fault /\ broken' = broken \cup {c} /\ Empties(c)
  /\ UNCHANGED <<phone, agents, held, role, work, hasty>>

Leaves(c) ==
  /\ agents' = agents \ {c} /\ broken' = broken \ {c} /\ Empties(c)
  /\ UNCHANGED <<phone, held, role, work, hasty>>

\* The ping of a connection finds no peer, no pump, or no room before the pump.
PingFails(c) ==
  /\ c \in agents
  /\ (\A h \in Hosts : ~Reads(h, c)) \/ c \in broken \/ Len(out[c]) = OUT_QUEUE_CAP
  /\ Leaves(c) /\ UNCHANGED faults

\* The network loses a connection, and the relay is the first to see it.
Cut(c) == c \in agents /\ Fault /\ Leaves(c)

\* The relay keeps everything in memory.
RelayRestarts ==
  /\ Fault
  /\ agents' = {} /\ broken' = {} /\ held' = <<>> /\ out' = [c \in Conns |-> <<>>]
  /\ link' = {} /\ Failing(link) /\ up' = [p \in Phones |-> <<>>] /\ down' = [p \in Phones |-> {}]
  /\ Drops(ToSet(held) \cup UNION {ToSet(out[c]) : c \in Conns})
  /\ UNCHANGED <<attempt, role, work, hasty>>
-----------------------------------------------------------------------------
\* Mutant: the record of a process that is gone still counts.
MayJoinIfFree(h) == holder \in {Nobody, h} \/ h = Desktop

\* may_join: the role is free, or its holder is dead, or this is the desktop app.
MayJoin(h) == holder \in {Nobody, "gone", h} \/ h = Desktop

\* claim, under the lock of the file.
ClaimRole(h) ==
  /\ stage[h] = "out" /\ MayJoin(h)
  /\ holder' = h /\ stage' = [stage EXCEPT ![h] = "joining"]
  /\ UNCHANGED <<phone, channel, sock, work, faults, ghosts>>

\* join: the new connection gets what is held, oldest first.
Join(h) == \E c \in Conns \ agents :
  /\ stage[h] = "joining" /\ \A g \in Hosts : ~Reads(g, c)
  /\ stage' = [stage EXCEPT ![h] = "in"] /\ sock' = [sock EXCEPT ![h] = c]
  /\ agents' = agents \cup {c}
  /\ out' = [out EXCEPT ![c] = held] /\ held' = <<>>
  /\ UNCHANGED <<phone, broken, holder, work, faults, ghosts>>

Goes(h, to) ==
  /\ stage' = [stage EXCEPT ![h] = to] /\ sock' = [sock EXCEPT ![h] = Nobody]
  /\ UNCHANGED <<phone, channel>>

\* connect_ws fails, or the socket dies and the host is the first to see it.
Disconnect(h) ==
  /\ stage[h] \in {"joining", "in"} /\ Fault /\ Goes(h, "out")
  /\ UNCHANGED <<holder, work, ghosts>>

\* Mutant: only a record that is gone makes a host leave.
IsPreemptedByNone(h) == holder = Nobody

IsPreempted(h) == holder \notin {h, Nobody}

\* The loop of a connection: the relay is gone, or the role was taken over.
Quits(h) ==
  /\ stage[h] = "in" /\ (sock[h] \notin agents \/ IsPreempted(h))
  /\ Goes(h, "out")
  /\ UNCHANGED <<holder, work, faults, ghosts>>

Starts(h) ==
  /\ stage[h] = "off" /\ stage' = [stage EXCEPT ![h] = "out"]
  /\ UNCHANGED <<phone, channel, sock, holder, work, faults, ghosts>>

\* The process ends; what it remembers and what its handlers have in hand is gone.
Dies(h) ==
  /\ stage[h] # "off" /\ Fault /\ Goes(h, "off")
  /\ holder' = IF holder = h THEN "gone" ELSE holder
  /\ job' = [job EXCEPT ![h] = {}] /\ claimed' = claimed \ {h} /\ stuck' = stuck \ {h}
  /\ Drops({j.frame : j \in job[h]})
  /\ UNCHANGED <<answered, hasty>>
-----------------------------------------------------------------------------
\* The reply goes over the connection the host has when the handler is done.
Reply(h, j, what) ==
  /\ Drops({j.frame})
  /\ IF sock[h] \in agents THEN Tell(j.frame[1], j.frame[2], what) ELSE UNCHANGED down

\* claim_decision_answer: one handler delivers, another says yes at once.
Claim(h) == \E j \in job[h] :
  /\ j.pc = "claim"
  /\ IF h \in claimed
     THEN /\ job' = [job EXCEPT ![h] = @ \ {j}] /\ Reply(h, j, "yes")
          /\ hasty' = (hasty \/ (~answered /\ (h \in stuck \/ \E k \in job[h] : k.pc = "deliver")))
          /\ UNCHANGED claimed
     ELSE /\ job' = [job EXCEPT ![h] = (@ \ {j}) \cup {[j EXCEPT !.pc = "deliver"]}]
          /\ claimed' = claimed \cup {h}
          /\ UNCHANGED <<down, settled, hasty>>
  /\ UNCHANGED <<link, attempt, told, up, channel, role, stuck, answered, faults>>

Unclaim(h) == claimed' = claimed \ {h} /\ stuck' = stuck \ {h}

\* The handler panics, before or after the card took the answer: the phone is told no,
\* and nothing gives the claim back.
Panics(h, j) ==
  /\ Fault /\ Reply(h, j, "no") /\ answered' \in {answered, TRUE}
  /\ stuck' = IF answered' THEN stuck ELSE stuck \cup {h}
  /\ UNCHANGED claimed

\* Mutant: a delivery that fails keeps its claim too.
DeliverOrKeep(h) == \E j \in job[h] :
  /\ j.pc = "deliver" /\ job' = [job EXCEPT ![h] = @ \ {j}]
  /\ \/ Reply(h, j, "yes") /\ answered' = TRUE /\ UNCHANGED <<claimed, stuck, faults>>
     \/ Reply(h, j, "no") /\ UNCHANGED <<claimed, stuck, answered, faults>>
     \/ Panics(h, j)
  /\ UNCHANGED <<link, attempt, told, up, channel, role, hasty>>

\* deliver_decision_answer: the card takes the answer (a second one too, as long as its
\* asker has not read the first), or there is no card any more or its session could not
\* be resumed, and the claim is given back.
Deliver(h) == \E j \in job[h] :
  /\ j.pc = "deliver" /\ job' = [job EXCEPT ![h] = @ \ {j}]
  /\ \/ Reply(h, j, "yes") /\ answered' = TRUE /\ UNCHANGED <<claimed, stuck, faults>>
     \/ Reply(h, j, "no") /\ Unclaim(h) /\ UNCHANGED <<answered, faults>>
     \/ Panics(h, j)
  /\ UNCHANGED <<link, attempt, told, up, channel, role, hasty>>

\* ANSWER_DEDUP_TTL_MS, long compared to a delivery.
Forget(h) ==
  /\ h \in claimed /\ Unclaim(h) /\ \A j \in job[h] : j.pc # "deliver"
  /\ UNCHANGED <<phone, channel, role, job, answered, faults, ghosts>>

Handle(h) == Claim(h) \/ Deliver(h)

Next ==
  \/ \E p \in Phones : Opens(p) \/ Answer(p) \/ TimesOut(p) \/ Receive(p) \/ Drop(p) \/ Take(p)
  \/ \E c \in Conns : Pump(c) \/ Stall(c) \/ PingFails(c) \/ Cut(c)
  \/ Expire \/ RelayRestarts
  \/ \E h \in Hosts : ClaimRole(h) \/ Join(h) \/ Disconnect(h) \/ Quits(h) \/ Starts(h) \/ Dies(h)
                      \/ Handle(h) \/ Forget(h)

Spec == Init /\ [][Next]_vars

\* The relay and the loops of the hosts go on; nobody need start, answer or open.
Fairness ==
  /\ \A p \in Phones : WF_vars(Take(p))
  /\ \A c \in Conns : WF_vars(Pump(c)) /\ WF_vars(PingFails(c))
  /\ \A h \in Hosts : WF_vars(ClaimRole(h)) /\ WF_vars(Join(h)) /\ WF_vars(Quits(h)) /\ WF_vars(Handle(h))

FairSpec == Spec /\ Fairness
-----------------------------------------------------------------------------
Queued(p) == told[p] = "queued"
AnswerOf(p) == <<p, attempt[p]>>

\* Where a frame can be that will be handled.
OnItsWay(f) ==
  \/ f \in ToSet(held)
  \/ \E c \in agents : f \in ToSet(out[c])
  \/ \E h \in Hosts : \E j \in job[h] : j.frame = f

\* A frame in custody was given to no host, now or before.
NotYetGiven(f) ==
  /\ f \notin settled /\ \A c \in Conns : f \notin ToSet(out[c])
  /\ \A h \in Hosts : \A j \in job[h] : j.frame # f
  /\ Cardinality({i \in DOMAIN held : held[i] = f}) = 1

\* The comment on Channel.is_empty: "a queue held for an absent agent must outlive the
\* client that handed it over".  An answer the user was told is in custody is somewhere,
\* unless it was handled, or dropped for its age, the cap, or a connection or process
\* lost; and a join replays nothing that was handed on (deliver_or_queue, join).
Custody ==
  /\ \A p \in Phones : Queued(p) => OnItsWay(AnswerOf(p)) \/ AnswerOf(p) \in settled
  /\ \A f \in ToSet(held) : NotYetGiven(f)

\* "Resolves once the desktop confirms delivery" (answerViaReq): the user is told so
\* only when the card is answered, or in one of the two cases in which a host says yes
\* without knowing: while the delivery another attempt began may still fail, and after
\* one that panicked, whose claim counts as an answer until it is forgotten.  A delivery
\* that fails otherwise leaves nothing for a later attempt to be deceived by.
SuccessIsTrue == \A p \in Phones : told[p] = "applied" => answered \/ hasty

\* A frame that came while every pump was full stays behind a host that reads again.
Behind(f) == f \in ToSet(held) /\ \E c \in agents \ broken, h \in Hosts : Reads(h, c)

\* An answer in custody reaches a handler in the end (the relay "will hand it to the
\* desktop when it reconnects", DecisionsView.tsx), although roles change and connections
\* linger, unless it is dropped, stays behind, or no host is running.
QueuedIsServed == \A p \in Phones :
  Queued(p) ~> \/ AnswerOf(p) \in settled \/ Behind(AnswerOf(p))
               \/ \A h \in Hosts : stage[h] = "off"

\* Two processes of a machine in the channel run every write twice; one of them leaves
\* (relay_role, is_preempted).
DoublesEnd == \A h, g \in Hosts : h # g =>
  ((stage[h] = "in" /\ stage[g] = "in") ~> ~(stage[h] = "in" /\ stage[g] = "in"))
=============================================================================
