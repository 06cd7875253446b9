------------------------------ MODULE Handoff ------------------------------
(***************************************************************************)
(* claw-fleet-core/src/handoff.rs: a session registers a baton, and when   *)
(* its turn ends a consumer takes the baton and starts the successor.      *)
(*                                                                         *)
(* A consumer is the Stop hook of a Claude session, which the session      *)
(* waits for and which is killed when it overruns; or, for a tool that     *)
(* mints its own session ids (codex, dsh), any number of listeners that    *)
(* hear the turn end while the session may already run again.  None of        *)
(* them holds a lock: the rename of the pending record is the claim.       *)
(*                                                                         *)
(* A chain file is read and written back in one step.  Left out: notes,    *)
(* goals, plans and watches that go along; a source that does not honour   *)
(* the session id it was given.                                            *)
(***************************************************************************)
EXTENDS Integers, FiniteSets, SequencesExt

CONSTANTS
  Sessions, First,   \* First starts the work; the others are successors to be
  Consumers,         \* turn ends that are being handled at once (a bound)
  MAX_CHAIN_HOPS,
  MAX_FAILURES       \* spawns that fail, consumers and turns that die (a bound)

ASSUME HandoffAssumption ==
  /\ First \in Sessions /\ IsFiniteSet(Sessions)
  /\ MAX_CHAIN_HOPS \in Nat \ {0, 1}   \* a first relay is not counted
  /\ MAX_FAILURES \in Nat

VARIABLES
  tool,     \* "claude" is given a session id, "codex" mints its own
  life,     \* "unborn", "running" a turn or "idle"
  asked,    \* the registration the session's turn is about to write
  pending,  \* handoffs/pending
  chain,    \* handoffs/chain: the links of each chain, oldest first
  proc,     \* what each consumer is doing, for which session
  failures,
  heirs,    \* the successors that were started for a session
  depth,    \* sessions on the way from First to this one, both included
  torn      \* sessions that registered, or lost their consumer, in the middle of a relay

files == <<pending, chain>>
ghosts == <<heirs, depth, torn>>
hvars == <<tool, life, asked, files, proc, failures, ghosts>>
-----------------------------------------------------------------------------
ChainIds == 1..Cardinality(Sessions)
New == 0   \* the id of a chain that has no file yet; every such chain is another one
NoBaton == [chain |-> -1, old |-> FALSE]
Batons == [chain : ChainIds \cup {New}, old : BOOLEAN]
IdleConsumer == [at |-> "idle", from |-> First, to |-> First, baton |-> NoBaton]

HTypeOK ==
  /\ tool \in {"claude", "codex"}
  /\ life \in [Sessions -> {"unborn", "running", "idle"}]
  /\ asked \in [Sessions -> Batons \cup {NoBaton}] /\ pending \in [Sessions -> Batons \cup {NoBaton}]
  /\ chain \in [ChainIds -> Seq(Sessions \X Sessions)]
  /\ proc \in [Consumers -> [at : {"idle", "take", "check", "link", "spawn", "unlink"},
                             from : Sessions, to : Sessions, baton : Batons \cup {NoBaton}]]
  /\ failures \in 0..MAX_FAILURES
  /\ heirs \in [Sessions -> SUBSET Sessions] /\ torn \subseteq Sessions
  /\ depth \in [Sessions -> Nat]

HInit ==
  /\ tool \in {"claude", "codex"}
  /\ life = [s \in Sessions |-> IF s = First THEN "running" ELSE "unborn"]
  /\ asked = [s \in Sessions |-> NoBaton] /\ pending = [s \in Sessions |-> NoBaton]
  /\ chain = [id \in ChainIds |-> <<>>]
  /\ proc = [c \in Consumers |-> IdleConsumer] /\ failures = 0
  /\ heirs = [s \in Sessions |-> {}] /\ torn = {}
  /\ depth = [s \in Sessions |-> IF s = First THEN 1 ELSE 0]

Busy(s) == \E c \in Consumers : proc[c].at # "idle" /\ proc[c].from = s
\* A consumer has the baton of s and has not recorded the link yet.
InHand(s) == \E c \in Consumers : proc[c].from = s /\ proc[c].baton # NoBaton /\ proc[c].at # "unlink"
\* The link that leads to s is not recorded yet.
Unlinked(s) == \E c \in Consumers : proc[c].at = "link" /\ proc[c].to = s
Fails == failures < MAX_FAILURES /\ failures' = failures + 1
-----------------------------------------------------------------------------
\* The links before which session_ids writes down their first end: the first, and those
\* that do not start where the one before them ended.
Starts(links, i) == {j \in 1..i : j = 1 \/ links[j - 1][2] # links[j][1]}

\* hop_of: the place of s among the session_ids, which are two for a link that starts
\* anew and one for a link that goes on.
HopOf(links, s) ==
  LET i == CHOOSE j \in DOMAIN links :
             s \in {links[j][1], links[j][2]} /\ \A k \in 1..j - 1 : s \notin {links[k][1], links[k][2]}
  IN i + Cardinality(Starts(links, i)) - (IF links[i][1] = s THEN 1 ELSE 0)

On(id, s) == \E i \in DOMAIN chain[id] : s \in {chain[id][i][1], chain[id][i][2]}
\* successor_of: s has passed its baton on.
RelayedOn(id, s) == \E i \in DOMAIN chain[id] : chain[id][i][1] = s

\* chain_containing_in: the first chain of the store with s on it, whichever it is.
Containing(s) == {id \in ChainIds : On(id, s)}

\* Mutant: the length of the chain is not looked at.
RegisterUncapped(s) ==
  /\ life[s] = "running" /\ asked[s] = NoBaton
  /\ \/ /\ Containing(s) = {}
        /\ asked' = [asked EXCEPT ![s] = [chain |-> New, old |-> FALSE]]
     \/ \E id \in Containing(s) :
          /\ ~RelayedOn(id, s)
          /\ asked' = [asked EXCEPT ![s] = [chain |-> id, old |-> FALSE]]
  /\ UNCHANGED <<tool, life, files, proc, failures, ghosts>>

\* register_in: refused once relayed and at the end of the longest chain.
Register(s) ==
  /\ life[s] = "running" /\ asked[s] = NoBaton
  /\ \/ /\ Containing(s) = {}
        /\ asked' = [asked EXCEPT ![s] = [chain |-> New, old |-> FALSE]]
     \/ \E id \in Containing(s) :
          /\ ~RelayedOn(id, s) /\ HopOf(chain[id], s) < MAX_CHAIN_HOPS
          /\ asked' = [asked EXCEPT ![s] = [chain |-> id, old |-> FALSE]]
  /\ torn' = IF Unlinked(s) THEN torn \cup {s} ELSE torn
  /\ UNCHANGED <<tool, life, files, proc, failures, heirs, depth>>

WritePending(s) ==
  /\ asked[s] # NoBaton
  /\ pending' = [pending EXCEPT ![s] = asked[s]] /\ asked' = [asked EXCEPT ![s] = NoBaton]
  /\ torn' = IF InHand(s) THEN torn \cup {s} ELSE torn
  /\ UNCHANGED <<tool, life, chain, proc, failures, heirs, depth>>

\* EXPIRY_MS go by.
Expire(s) ==
  /\ pending[s] # NoBaton /\ pending' = [pending EXCEPT ![s] = [chain |-> @.chain, old |-> TRUE]]
  /\ UNCHANGED <<tool, life, asked, chain, proc, failures, ghosts>>

\* cmd_session_resume: the user takes over and the registration is dropped; a prompt the
\* harness injects leaves it alone.  Claude waits for its Stop hook first.
Prompt(s) ==
  /\ life[s] = "idle" /\ (tool = "claude" => ~Busy(s))
  /\ life' = [life EXCEPT ![s] = "running"]
  /\ \/ pending' = [pending EXCEPT ![s] = NoBaton]
     \/ UNCHANGED pending
  /\ UNCHANGED <<tool, asked, chain, proc, failures, ghosts>>

\* The turn ends and is heard: by the Stop hook, or by some listeners.
TurnEnds(s) ==
  /\ life[s] = "running" /\ asked[s] = NoBaton
  /\ life' = [life EXCEPT ![s] = "idle"]
  /\ \E heard \in SUBSET {c \in Consumers : proc[c].at = "idle"} :
       /\ heard # {} /\ (tool = "claude" => \E c \in Consumers : heard = {c})
       /\ proc' = [c \in Consumers |->
                     IF c \in heard THEN [at |-> "take", from |-> s, to |-> First, baton |-> NoBaton]
                     ELSE proc[c]]
  /\ UNCHANGED <<tool, asked, files, failures, ghosts>>

\* It dies, and nobody hears.
TurnDies(s) ==
  /\ life[s] = "running" /\ Fails
  /\ life' = [life EXCEPT ![s] = "idle"] /\ asked' = [asked EXCEPT ![s] = NoBaton]
  /\ UNCHANGED <<tool, files, proc, ghosts>>
-----------------------------------------------------------------------------
Done(c) == proc' = [proc EXCEPT ![c] = IdleConsumer]

\* Consumer c goes on to a step, with a successor and a baton.
Moves(c, at, to, baton) ==
  proc' = [proc EXCEPT ![c] = [at |-> at, from |-> proc[c].from, to |-> to, baton |-> baton]]

\* Mutant: the record is read where it lies, and removed by another hand.
TakeCopies(c) ==
  LET s == proc[c].from
  IN /\ proc[c].at = "take"
     /\ IF pending[s] = NoBaton \/ pending[s].old THEN Done(c)
        ELSE Moves(c, "check", proc[c].to, pending[s])
     /\ UNCHANGED <<tool, life, asked, files, failures, ghosts>>

\* take_pending_in: claimed by a rename, gone even when it has expired.
Take(c) ==
  LET s == proc[c].from
  IN /\ proc[c].at = "take"
     /\ IF pending[s] = NoBaton \/ pending[s].old THEN Done(c)
        ELSE Moves(c, "check", proc[c].to, pending[s])
     /\ pending' = [pending EXCEPT ![s] = NoBaton]
     /\ UNCHANGED <<tool, life, asked, chain, failures, ghosts>>

\* An id no session and no chain knows yet.
Nameless(t) ==
  /\ life[t] = "unborn" /\ Containing(t) = {}
  /\ \A d \in Consumers : proc[d].to = t => t = First

\* Whether the session has relayed already; a Claude successor gets its id here.
Check(c) ==
  LET s == proc[c].from
  IN /\ proc[c].at = "check"
     /\ \/ Containing(s) # {} /\ (\E id \in Containing(s) : RelayedOn(id, s)) /\ Done(c)
        \/ /\ \/ Containing(s) = {}
              \/ \E id \in Containing(s) : ~RelayedOn(id, s)
           /\ IF tool = "claude"
              THEN \E t \in Sessions :
                     /\ Nameless(t)
                     /\ Moves(c, "link", t, proc[c].baton)
              ELSE Moves(c, "spawn", proc[c].to, proc[c].baton)
     /\ UNCHANGED <<tool, life, asked, files, failures, ghosts>>

\* A chain without a file.
FreeId == CHOOSE id \in ChainIds : chain[id] = <<>>

\* record_link_in: before the spawn when the id is known, after it when it is not.
Link(c) ==
  LET p == proc[c]
      id == IF p.baton.chain # New THEN p.baton.chain
            ELSE FreeId
  IN /\ p.at = "link"
     /\ chain' = [chain EXCEPT ![id] = Append(@, <<p.from, p.to>>)]
     /\ IF tool = "codex" THEN Done(c)
        ELSE Moves(c, "spawn", p.to, [chain |-> id, old |-> p.baton.old])
     /\ UNCHANGED <<tool, life, asked, pending, failures, ghosts>>

Start(s, t) ==
  /\ life' = [life EXCEPT ![t] = "running"]
  /\ heirs' = [heirs EXCEPT ![s] = @ \cup {t}]
  /\ depth' = [depth EXCEPT ![t] = depth[s] + 1]

Spawn(c) ==
  LET p == proc[c]
  IN /\ p.at = "spawn"
     /\ \/ tool = "claude" /\ Start(p.from, p.to) /\ Done(c)
        \/ /\ tool = "codex"
           /\ \E t \in Sessions : Nameless(t) /\ Start(p.from, t)
                                  /\ Moves(c, "link", t, p.baton)
     /\ UNCHANGED <<tool, asked, files, failures, torn>>

\* Mutant: the link to a successor that never started stays.
SuccessorFailsLinked(c) ==
  /\ proc[c].at = "spawn" /\ Fails /\ Done(c)
  /\ UNCHANGED <<tool, life, asked, files, ghosts>>

SuccessorFails(c) ==
  /\ proc[c].at = "spawn" /\ Fails
  /\ IF tool = "claude" THEN Moves(c, "unlink", proc[c].to, proc[c].baton) ELSE Done(c)
  /\ UNCHANGED <<tool, life, asked, files, ghosts>>

\* unlink_in; a successor's id is used once, so its link is the only one.
Unlink(c) ==
  LET p == proc[c]
  IN /\ p.at = "unlink" /\ Done(c)
     /\ chain' = [chain EXCEPT ![p.baton.chain] =
                    RemoveFirst(@, <<p.from, p.to>>)]
     /\ UNCHANGED <<tool, life, asked, pending, failures, ghosts>>

\* The hook overruns its budget and is killed, or the listener goes down.
Killed(c) ==
  /\ proc[c].at # "idle" /\ Fails /\ Done(c)
  /\ torn' = IF proc[c].at \in {"link", "spawn", "unlink"} THEN torn \cup {proc[c].from} ELSE torn
  /\ UNCHANGED <<tool, life, asked, files, heirs, depth>>

HNext ==
  \/ \E s \in Sessions :
       Register(s) \/ WritePending(s) \/ Expire(s) \/ Prompt(s) \/ TurnEnds(s) \/ TurnDies(s)
  \/ \E c \in Consumers :
       Take(c) \/ Check(c) \/ Link(c) \/ Spawn(c) \/ SuccessorFails(c) \/ Unlink(c) \/ Killed(c)

HSpec == HInit /\ [][HNext]_hvars
-----------------------------------------------------------------------------
\* A baton is handed on once (the rename in take_pending_in, the refusal in register_in,
\* the backstop in consume_and_spawn_in): a session has one successor, however many
\* listeners hear its turn end, unless it registered before the link that leads to it or
\* the one that leads on was recorded, or a consumer died in between.
OneHeir == \A s \in Sessions : Cardinality(heirs[s]) <= 1 \/ s \in torn

\* The chains tell the truth about who succeeded whom, once nobody is in the middle of
\* it: no started successor is missing, and no link leads to one that never started,
\* which would keep the session from ever relaying.
Linked(s, t) == \E id \in ChainIds : \E i \in DOMAIN chain[id] : chain[id][i] = <<s, t>>
ChainsAreTrue == \A s, t \in Sessions :
  s \in torn \/ Busy(s) \/ (Linked(s, t) <=> t \in heirs[s])

\* A Claude relay is never longer than MAX_CHAIN_HOPS: a successor finds itself on its
\* chain as soon as it runs, whatever failed or died on the way.
RelayCapped == tool = "claude" => \A s \in Sessions : depth[s] <= MAX_CHAIN_HOPS
=============================================================================
