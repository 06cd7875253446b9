----------------------- MODULE PendingMessage_proofs -----------------------
(***************************************************************************)
(* Proofs about PendingMessage, for any number of messages, senders and    *)
(* drainers: its types, and that a message is delivered twice only if it   *)
(* was claimed while somebody was writing the queue back, or together with *)
(* a claim that was not read yet.                                          *)
(***************************************************************************)
EXTENDS PendingMessage, TLAPS

\* m is in the queue, or in a copy of it that somebody will write back.
Waiting(m) ==
  \/ Has(Content(queue), m)
  \/ \E s \in Senders : Has(sender[s].q, m)
  \/ \E d \in Drainers : At(d, "rewrite") /\ Has(drainer[d].q, m)

\* m is in the claim file, and somebody is about to read it.
Readers == {d \in Drainers : drainer[d].pc \in {"read", "moveread"}}
Claimed(m) == Readers # {} /\ Has(Content(claim), m)

\* Who has m in hand, to deliver it, put it back or move it on.
Carriers(m) == {d \in Drainers : drainer[d].pc \in {"resume", "requeue", "move"} /\ Has(drainer[d].q, m)}

\* A message that was not sent is nowhere.
Nowhere(m) == delivered[m] = 0 /\ ~Waiting(m) /\ ~Claimed(m) /\ Carriers(m) = {}

\* It waits, or is claimed, or is carried, or was delivered, and by one drainer.
OnePlace(m) ==
  /\ delivered[m] <= 1
  /\ delivered[m] = 1 => ~Waiting(m) /\ ~Claimed(m) /\ Carriers(m) = {}
  /\ Claimed(m) => ~Waiting(m) /\ Carriers(m) = {} /\ \A d, e \in Readers : d = e
  /\ Carriers(m) # {} => ~Waiting(m) /\ \A d, e \in Carriers(m) : d = e

IInv ==
  /\ PTypeOK
  /\ \A m \in Messages \ sent : Nowhere(m)
  /\ \A m \in Messages \ mixed : OnePlace(m)

\* What a step has to do about one message.
Kept(m) == /\ Nowhere(m) /\ m \notin sent' => Nowhere(m)'
           /\ OnePlace(m) /\ m \notin mixed' => OnePlace(m)'
-----------------------------------------------------------------------------
(* What is in a queue after a message was added, taken out, or put in front.   *)
LEMMA AppendHas ==
  ASSUME NEW q \in Seq(Messages), NEW m \in Messages, NEW n
  PROVE  Append(q, m) \in Seq(Messages) /\ (Has(Append(q, m), n) <=> Has(q, n) \/ n = m)
<1>1. Append(q, m) \in Seq(Messages) /\ Len(Append(q, m)) = Len(q) + 1
  OBVIOUS
<1>2. /\ \A i \in 1..Len(q) : Append(q, m)[i] = q[i]
      /\ Append(q, m)[Len(q) + 1] = m
  OBVIOUS
<1>3. DOMAIN Append(q, m) = 1..(Len(q) + 1) /\ DOMAIN q = 1..Len(q) /\ Len(q) \in Nat
  BY <1>1
<1> QED BY <1>1, <1>2, <1>3 DEF Has

LEMMA ConcatHas ==
  ASSUME NEW q \in Seq(Messages), NEW r \in Seq(Messages), NEW n
  PROVE  q \o r \in Seq(Messages) /\ (Has(q \o r, n) <=> Has(q, n) \/ Has(r, n))
<1>1. q \o r \in Seq(Messages) /\ Len(q \o r) = Len(q) + Len(r)
  OBVIOUS
<1>2. /\ \A i \in 1..Len(q) : (q \o r)[i] = q[i]
      /\ \A i \in 1..Len(r) : (q \o r)[Len(q) + i] = r[i]
  OBVIOUS
<1>3. /\ DOMAIN (q \o r) = 1..(Len(q) + Len(r)) /\ DOMAIN q = 1..Len(q) /\ DOMAIN r = 1..Len(r)
      /\ Len(q) \in Nat /\ Len(r) \in Nat
  BY <1>1
<1>4. ASSUME Has(q \o r, n) PROVE Has(q, n) \/ Has(r, n)
  <2>1. PICK i \in 1..(Len(q) + Len(r)) : (q \o r)[i] = n
    BY <1>3, <1>4 DEF Has
  <2>2. CASE i <= Len(q)
    BY <1>2, <1>3, <2>1, <2>2 DEF Has
  <2>3. CASE i > Len(q)
    <3>1. i - Len(q) \in 1..Len(r) /\ Len(q) + (i - Len(q)) = i
      BY <1>3, <2>1, <2>3
    <3> QED BY <1>2, <1>3, <2>1, <3>1 DEF Has
  <2> QED BY <1>3, <2>1, <2>2, <2>3
<1>5. ASSUME Has(q, n) \/ Has(r, n) PROVE Has(q \o r, n)
  <2>1. CASE Has(q, n)
    BY <1>2, <1>3, <2>1 DEF Has
  <2>2. CASE Has(r, n)
    <3>1. PICK i \in 1..Len(r) : r[i] = n
      BY <1>3, <2>2 DEF Has
    <3>2. Len(q) + i \in 1..(Len(q) + Len(r))
      BY <1>3, <3>1
    <3> QED BY <1>2, <1>3, <3>1, <3>2 DEF Has
  <2> QED BY <1>5, <2>1, <2>2
<1> QED BY <1>1, <1>4, <1>5

LEMMA RemoveHas ==
  ASSUME NEW q \in Seq(Messages), NEW i \in DOMAIN q, NEW n
  PROVE  RemoveAt(q, i) \in Seq(Messages) /\ (Has(RemoveAt(q, i), n) => Has(q, n))
<1> DEFINE a == SubSeq(q, 1, i - 1)
           b == SubSeq(q, i + 1, Len(q))
<1>1. i \in 1..Len(q) /\ Len(q) \in Nat /\ DOMAIN q = 1..Len(q)
  OBVIOUS
<1>2. a \in Seq(Messages) /\ b \in Seq(Messages)
  BY <1>1
<1>3. Has(a, n) => Has(q, n)
  <2>1. Len(a) = i - 1 /\ \A j \in 1..(i - 1) : a[j] = q[j]
    BY <1>1
  <2> QED BY <1>1, <1>2, <2>1 DEF Has
<1>4. Has(b, n) => Has(q, n)
  <2>1. Len(b) = Len(q) - i /\ \A j \in 1..(Len(q) - i) : b[j] = q[i + j]
    BY <1>1
  <2>2. \A j \in 1..(Len(q) - i) : i + j \in 1..Len(q)
    BY <1>1
  <2> QED BY <1>1, <1>2, <2>1, <2>2 DEF Has
<1> QED BY <1>2, <1>3, <1>4, ConcatHas DEF RemoveAt
-----------------------------------------------------------------------------
(* A drainer that moves on is a drainer.                                      *)
LEMMA DrainerMoves ==
  ASSUME PTypeOK, NEW d \in Drainers, NEW pc \in DrainPC
  PROVE  /\ Goto(d, pc) => drainer' \in [Drainers -> [pc : DrainPC, q : Seq(Messages)]]
         /\ \A q \in Seq(Messages) :
              Take(d, pc, q) => drainer' \in [Drainers -> [pc : DrainPC, q : Seq(Messages)]]
         /\ Return(d) => drainer' \in [Drainers -> [pc : DrainPC, q : Seq(Messages)]]
<1>1. \A q \in Seq(Messages) : [pc |-> pc, q |-> q] \in [pc : DrainPC, q : Seq(Messages)]
  OBVIOUS
<1>2. Idle \in [pc : DrainPC, q : Seq(Messages)]
  BY DEF Idle, DrainPC
<1>3. [drainer[d] EXCEPT !.pc = pc] \in [pc : DrainPC, q : Seq(Messages)]
  BY DEF PTypeOK
<1>4. ASSUME NEW r \in [pc : DrainPC, q : Seq(Messages)]
      PROVE  [drainer EXCEPT ![d] = r] \in [Drainers -> [pc : DrainPC, q : Seq(Messages)]]
  BY DEF PTypeOK
<1>5. Goto(d, pc) => drainer' \in [Drainers -> [pc : DrainPC, q : Seq(Messages)]]
  BY <1>3, <1>4 DEF Goto
<1>6. ASSUME NEW q \in Seq(Messages), Take(d, pc, q)
      PROVE  drainer' \in [Drainers -> [pc : DrainPC, q : Seq(Messages)]]
  BY <1>1, <1>4, <1>6 DEF Take
<1>7. Return(d) => drainer' \in [Drainers -> [pc : DrainPC, q : Seq(Messages)]]
  BY <1>2, <1>4 DEF Return
<1> QED BY <1>5, <1>6, <1>7

LEMMA ContentTyped ==
  ASSUME PTypeOK
  PROVE  Content(queue) \in Seq(Messages) /\ Content(claim) \in Seq(Messages)
  BY DEF PTypeOK, Content

(* Nothing is delivered or claimed before the first step.                      *)
LEMMA QueueInit == Init => IInv
<1> SUFFICES ASSUME Init PROVE IInv
  OBVIOUS
<1>1. PTypeOK
  <2>1. Idle \in [pc : {"idle", "write"}, q : Seq(Messages)] /\ Idle \in [pc : DrainPC, q : Seq(Messages)]
    BY DEF Idle, DrainPC
  <2>2. ToSet(Queued) \subseteq Messages /\ Queued \in Seq(Messages)
    BY QueuedAssumption DEF ToSet
  <2>3. /\ queue \in Seq(Messages) \cup {NoFile} /\ claim \in Seq(Messages) \cup {NoFile}
        /\ sender \in [Senders -> [pc : {"idle", "write"}, q : Seq(Messages)]]
        /\ drainer \in [Drainers -> [pc : DrainPC, q : Seq(Messages)]]
    BY <2>1, <2>2 DEF Init
  <2>4. /\ sent \subseteq Messages /\ gone \subseteq Messages /\ mixed \subseteq Messages
        /\ delivered \in [Messages -> Nat] /\ deaths \in 0..MAX_DEATHS /\ tries \in 0..MAX_RETRIES
    BY <2>2, QueuedAssumption DEF Init
  <2> QED BY <2>3, <2>4 DEF Init, PTypeOK
<1>2. ASSUME NEW m \in Messages
      PROVE  /\ delivered[m] = 0 /\ Readers = {} /\ ~Claimed(m) /\ Carriers(m) = {}
             /\ Waiting(m) => m \in sent
  <2>1. \A n : ~Has(<<>>, n)
    BY DEF Has
  <2>2. Has(Content(queue), m) => m \in ToSet(Queued)
    BY <2>1, QueuedAssumption DEF Init, Content, Has, ToSet
  <2> QED BY <2>1, <2>2 DEF Init, Readers, Claimed, Carriers, Waiting, Idle, At
<1> QED BY <1>1, <1>2 DEF IInv, Nowhere, OnePlace

(* Every step keeps the types.                                                *)
LEMMA QueueTyped == PTypeOK /\ [Next]_vars => PTypeOK'
<1> SUFFICES ASSUME PTypeOK, [Next]_vars PROVE PTypeOK'
  OBVIOUS
<1>0. /\ Content(queue) \in Seq(Messages)
      /\ \A d \in Drainers : drainer[d].q \in Seq(Messages) /\ ToSet(drainer[d].q) \subseteq Messages
      /\ \A pc \in {"look", "skip", "claim", "read", "moveclaim", "moveread", "resume",
                    "move", "requeue", "rewrite", "release"} : pc \in DrainPC
  BY ContentTyped DEF PTypeOK, ToSet, DrainPC
<1>1. ASSUME NEW q PROVE Deliver(q) => delivered' \in [Messages -> Nat]
  BY DEF PTypeOK, Deliver
<1>2. ASSUME NEW s \in Senders, NEW m \in Messages, Inject(s, m) PROVE PTypeOK'
  BY <1>1, <1>2 DEF PTypeOK, Inject, files, session, fate
<1>3. ASSUME NEW s \in Senders, NEW m \in Messages, EnqueueRead(s, m) PROVE PTypeOK'
  <2>1. [pc |-> "write", q |-> Append(Content(queue), m)] \in [pc : {"idle", "write"}, q : Seq(Messages)]
    BY <1>0, AppendHas
  <2> QED BY <1>3, <2>1 DEF PTypeOK, EnqueueRead, files, session, fate
<1>4. ASSUME NEW s \in Senders, NEW i \in 1..Len(Content(queue)), CancelRead(s, i) PROVE PTypeOK'
  <2>1. queue \in Seq(Messages) /\ i \in DOMAIN queue /\ queue[i] \in Messages
    BY <1>0, <1>4 DEF PTypeOK, Content, CancelRead
  <2>2. [pc |-> "write", q |-> RemoveAt(queue, i)] \in [pc : {"idle", "write"}, q : Seq(Messages)]
    BY <2>1, RemoveHas
  <2> QED BY <1>4, <2>1, <2>2 DEF PTypeOK, CancelRead, files, session, fate
<1>5. ASSUME NEW s \in Senders, SenderWrite(s) PROVE PTypeOK'
  <2>1. Idle \in [pc : {"idle", "write"}, q : Seq(Messages)]
    BY DEF Idle
  <2> QED BY <1>5, <2>1 DEF PTypeOK, SenderWrite, session, fate
<1>6. ASSUME NEW d \in Drainers, Scan(d) \/ Look(d) \/ ResumeRefused(d) PROVE PTypeOK'
  BY <1>0, <1>6, DrainerMoves DEF PTypeOK, Scan, Look, ResumeRefused, files, session, fate
<1>7. ASSUME NEW d \in Drainers, Claim(d) PROVE PTypeOK'
  <2>1. Raced \subseteq Messages
    BY <1>0 DEF Raced, ToSet
  <2> QED BY <1>0, <1>7, <2>1, DrainerMoves DEF PTypeOK, Claim, files, session
<1>8. ASSUME NEW d \in Drainers, ReadClaim(d) PROVE PTypeOK'
  BY <1>0, <1>8, DrainerMoves DEF PTypeOK, ReadClaim, files, session, fate
<1>9. ASSUME NEW d \in Drainers, Resume(d) PROVE PTypeOK'
  BY <1>0, <1>1, <1>9, DrainerMoves DEF PTypeOK, Resume, files, fate
<1>10. ASSUME NEW d \in Drainers, ResumeFails(d) \/ Move(d) PROVE PTypeOK'
  BY <1>0, <1>10, DrainerMoves DEF PTypeOK, ResumeFails, Move, files, session, fate
<1>11. ASSUME NEW d \in Drainers, RequeueRead(d) PROVE PTypeOK'
  <2>1. drainer[d].q \o Content(queue) \in Seq(Messages)
    BY <1>0, ConcatHas
  <2> QED BY <1>0, <1>11, <2>1, DrainerMoves DEF PTypeOK, RequeueRead, files, session, fate
<1>12. ASSUME NEW d \in Drainers, RequeueWrite(d) \/ Release(d) PROVE PTypeOK'
  BY <1>0, <1>12, DrainerMoves DEF PTypeOK, RequeueWrite, Release, session, fate
<1>13. ASSUME NEW d \in Drainers, Dies(d) PROVE PTypeOK'
  BY <1>0, <1>13, DrainerMoves, QueuedAssumption DEF PTypeOK, Dies, files, session
<1>14. CASE Retry \/ EpisodeEnds \/ TurnEnds \/ TurnStarts \/ Retire
  <2>1. tries' \in 0..MAX_RETRIES
    BY <1>14, QueuedAssumption DEF PTypeOK, Retry, EpisodeEnds, TurnEnds, TurnStarts, Retire
  <2>2. turn' \in BOOLEAN /\ errored' \in BOOLEAN /\ retired' \in BOOLEAN /\ card' \in {"none", "ask", "other"}
    BY <1>14, Zenon DEF PTypeOK, Retry, EpisodeEnds, TurnEnds, TurnStarts, Retire
  <2>3. UNCHANGED <<files, sender, drainer, sent, delivered, gone, fate>>
    BY <1>14, Zenon DEF Retry, EpisodeEnds, TurnEnds, TurnStarts, Retire
  <2> QED BY <2>1, <2>2, <2>3 DEF PTypeOK, files, fate
<1>15. CASE UNCHANGED vars
  BY <1>15 DEF PTypeOK, vars, files, session, fate
<1> QED
  BY <1>2, <1>3, <1>4, <1>5, <1>6, <1>7, <1>8, <1>9, <1>10, <1>11, <1>12, <1>13, <1>14, <1>15
  DEF Next, Send, Drain
-----------------------------------------------------------------------------
(* A step that takes a message nowhere it was not keeps it in one place.       *)
LEMMA FewerPlaces ==
  ASSUME NEW m \in Messages,
         delivered'[m] = delivered[m], Waiting(m)' => Waiting(m),
         Readers' \subseteq Readers, Claimed(m)' => Claimed(m), Carriers(m)' \subseteq Carriers(m)
  PROVE  Kept(m)
  BY DEF Kept, Nowhere, OnePlace

(* Where a message is depends on the files and on who holds what.              *)
LEMMA SamePlaces ==
  ASSUME UNCHANGED <<files, sender, drainer, delivered>>, NEW m \in Messages
  PROVE  Kept(m)
  BY FewerPlaces DEF files, Waiting, Readers, Claimed, Carriers, At

(* A drainer that goes on to a step in which it holds nothing.                 *)
LEMMA LetsGo ==
  ASSUME PTypeOK, NEW d \in Drainers,
         NEW pc \in {"look", "skip", "claim", "moveclaim", "release"},
         Goto(d, pc) \/ Return(d),
         UNCHANGED <<sender, delivered>>, NEW m \in Messages,
         Has(Content(queue'), m) => Waiting(m),
         Has(Content(claim'), m) => Has(Content(claim), m)
  PROVE  Kept(m)
<1>1. /\ \A e \in Drainers \ {d} : drainer'[e] = drainer[e]
      /\ drainer'[d].pc \in {"idle", "look", "skip", "claim", "moveclaim", "release"}
  BY DEF Goto, Return, Idle, PTypeOK
<1>2. Readers' \subseteq Readers /\ Carriers(m)' \subseteq Carriers(m)
  BY <1>1 DEF Readers, Carriers
<1>3. Waiting(m)' => Waiting(m)
  BY <1>1 DEF Waiting, At
<1>4. Claimed(m)' => Claimed(m)
  BY <1>2 DEF Claimed
<1> QED BY <1>2, <1>3, <1>4, FewerPlaces

(* Senders: what they read goes on waiting, what they add was nowhere.         *)
LEMMA SenderKeeps ==
  ASSUME IInv, NEW s \in Senders, Send(s), NEW n \in Messages
  PROVE  Kept(n)
<1>0. PTypeOK /\ Content(queue) \in Seq(Messages) /\ \A m \in Messages \ sent : Nowhere(m)
  BY ContentTyped DEF IInv
<1>1. ASSUME NEW m \in Messages, Inject(s, m) PROVE Kept(n)
  <2>1. \A x : Has(<<m>>, x) <=> x = m
    BY DEF Has
  <2>2. /\ delivered'[n] = delivered[n] + IF n = m THEN 1 ELSE 0
        /\ (Waiting(n)' <=> Waiting(n)) /\ (Claimed(n)' <=> Claimed(n)) /\ Carriers(n)' = Carriers(n)
        /\ Readers' = Readers /\ m \notin sent /\ sent' = sent \cup {m}
    BY <1>0, <1>1, <2>1 DEF PTypeOK, Inject, Deliver, Waiting, Claimed, Carriers, Readers, At, files
  <2>3. CASE n = m
    BY <1>0, <2>2, <2>3 DEF Kept, Nowhere, OnePlace
  <2>4. CASE n # m
    <3>1. delivered'[n] = delivered[n]
      BY <1>0, <2>2, <2>4 DEF PTypeOK
    <3> QED BY <2>2, <3>1, FewerPlaces
  <2> QED BY <2>3, <2>4
<1>2. ASSUME NEW m \in Messages, EnqueueRead(s, m) PROVE Kept(n)
  <2>1. Has(sender'[s].q, n) <=> Has(Content(queue), n) \/ n = m
    BY <1>0, <1>2, AppendHas DEF EnqueueRead, PTypeOK
  <2>2. Waiting(n)' => Waiting(n) \/ n = m
    BY <1>0, <1>2, <2>1 DEF EnqueueRead, Waiting, At, files, PTypeOK
  <2>3. /\ delivered' = delivered /\ Claimed(n)' = Claimed(n) /\ Carriers(n)' = Carriers(n)
        /\ Readers' = Readers /\ m \notin sent /\ sent' = sent \cup {m}
    BY <1>2 DEF EnqueueRead, Claimed, Carriers, Readers, files
  <2> QED BY <1>0, <2>2, <2>3 DEF Kept, Nowhere, OnePlace
<1>3. ASSUME NEW i \in 1..Len(Content(queue)), CancelRead(s, i) PROVE Kept(n)
  <2>1. queue \in Seq(Messages) /\ i \in DOMAIN queue
    BY <1>0, <1>3 DEF PTypeOK, Content, CancelRead
  <2>2. Has(sender'[s].q, n) => Has(Content(queue), n)
    BY <1>0, <1>3, <2>1, RemoveHas DEF CancelRead, PTypeOK, Content
  <2>3. Waiting(n)' => Waiting(n)
    BY <1>0, <1>3, <2>2 DEF CancelRead, Waiting, At, files, PTypeOK
  <2> QED BY <1>3, <2>3, FewerPlaces DEF CancelRead, Claimed, Carriers, Readers, files
<1>4. CASE SenderWrite(s)
  <2>1. \A x : ~Has(<<>>, x)
    BY DEF Has
  <2>2. Has(Content(queue'), n) => Has(sender[s].q, n)
    BY <1>0, <1>4, <2>1 DEF SenderWrite, Content, PTypeOK
  <2>3. Waiting(n)' => Waiting(n)
    BY <1>0, <1>4, <2>1, <2>2 DEF SenderWrite, Waiting, At, Idle, PTypeOK
  <2> QED BY <1>4, <2>3, FewerPlaces DEF SenderWrite, Claimed, Carriers, Readers
<1> QED BY <1>1, <1>2, <1>3, <1>4 DEF Send
-----------------------------------------------------------------------------
(* A claim that nobody else has a hand in is one place.                        *)
LEMMA ClaimKeeps ==
  ASSUME PTypeOK, NEW d \in Drainers, Claim(d), NEW m \in Messages
  PROVE  Kept(m)
<1>0. \A x : ~Has(<<>>, x) /\ (Has(Content(queue), x) => x \in ToSet(Content(queue)))
  BY DEF Has, ToSet
<1>1. CASE queue = NoFile
  BY <1>1, LetsGo DEF Claim, Waiting, files, session
<1>2. CASE queue # NoFile
  <2>1. PICK pc \in {"read", "moveread"} : Goto(d, pc)
    BY <1>2 DEF Claim
  <2>2. /\ \A e \in Drainers \ {d} : drainer'[e] = drainer[e]
        /\ drainer'[d].pc = pc /\ drainer[d].pc \in {"claim", "moveclaim"}
        /\ drainer'[d].q = drainer[d].q
    BY <2>1 DEF Claim, Goto, PTypeOK
  <2>3. /\ claim' = queue /\ Content(queue') = <<>> /\ sender' = sender
        /\ delivered' = delivered /\ sent' = sent /\ mixed' = mixed \cup Raced
    BY <1>2 DEF Claim, Content, session
  <2>4. Readers' = Readers \cup {d} /\ Carriers(m)' = Carriers(m)
    BY <2>2 DEF Readers, Carriers
  <2>5. /\ Waiting(m)' => Waiting(m)
        /\ Claimed(m)' => Has(Content(queue), m) /\ Waiting(m)
    BY <1>0, <2>2, <2>3 DEF Waiting, Claimed, Content, At
  <2>6. ASSUME Claimed(m)', m \notin mixed' PROVE ~Waiting(m)' /\ Readers = {}
    <3>1. m \in ToSet(Content(queue)) /\ m \notin Raced
      BY <1>0, <2>3, <2>5, <2>6
    <3>2. /\ Readers = {} /\ \A s \in Senders : ~Has(sender[s].q, m)
          /\ \A e \in Drainers : ~(At(e, "rewrite") /\ Has(drainer[e].q, m))
      BY <3>1 DEF Raced, Readers
    <3> QED BY <1>0, <2>2, <2>3, <3>2 DEF Waiting, At
  <2>7. Nowhere(m) /\ m \notin sent' => Nowhere(m)'
    BY <2>3, <2>4, <2>5 DEF Nowhere
  <2>8. OnePlace(m) /\ m \notin mixed' => OnePlace(m)'
    BY <2>3, <2>4, <2>5, <2>6 DEF OnePlace
  <2> QED BY <2>7, <2>8 DEF Kept
<1> QED BY <1>1, <1>2

(* The one who claimed it reads it.                                            *)
LEMMA ReadKeeps ==
  ASSUME PTypeOK, NEW d \in Drainers, ReadClaim(d), NEW m \in Messages
  PROVE  Kept(m)
<1>1. CASE claim = NoFile
  BY <1>1, LetsGo DEF ReadClaim, Waiting, files
<1>2. CASE claim # NoFile
  <2>1. PICK pc \in {"resume", "move"} : Take(d, pc, claim)
    BY <1>2 DEF ReadClaim
  <2>2. /\ \A e \in Drainers \ {d} : drainer'[e] = drainer[e]
        /\ drainer'[d].pc = pc /\ drainer'[d].q = claim /\ d \in Readers /\ d \notin Carriers(m)
    BY <2>1 DEF ReadClaim, Take, PTypeOK, Readers, Carriers
  <2>3. files' = files /\ sender' = sender /\ delivered' = delivered /\ sent' = sent /\ mixed' = mixed
    BY DEF ReadClaim, fate
  <2>4. Readers' = Readers \ {d} /\ (Waiting(m)' <=> Waiting(m))
    BY <2>2, <2>3 DEF Readers, Waiting, At, files
  <2>5. Carriers(m)' = IF Claimed(m) THEN Carriers(m) \cup {d} ELSE Carriers(m)
    BY <1>2, <2>2 DEF Carriers, Claimed, Content
  <2>6. Claimed(m)' => Claimed(m) /\ Readers \ {d} # {}
    BY <2>3, <2>4 DEF Claimed, files
  <2> QED BY <2>2, <2>3, <2>4, <2>5, <2>6 DEF Kept, Nowhere, OnePlace
<1> QED BY <1>1, <1>2

(* What was carried is delivered, once.                                        *)
LEMMA ResumeKeeps ==
  ASSUME PTypeOK, NEW d \in Drainers, Resume(d), NEW m \in Messages
  PROVE  Kept(m)
<1>1. /\ \A e \in Drainers \ {d} : drainer'[e] = drainer[e]
      /\ drainer'[d].pc = "release" /\ drainer[d].pc = "resume"
  BY DEF Resume, Goto, At, PTypeOK
<1>2. files' = files /\ sender' = sender /\ sent' = sent /\ mixed' = mixed
  BY DEF Resume, fate
<1>3. delivered'[m] = delivered[m] + IF d \in Carriers(m) THEN 1 ELSE 0
  BY <1>1 DEF Resume, Deliver, Carriers
<1>4. /\ Readers' = Readers /\ (Waiting(m)' <=> Waiting(m)) /\ (Claimed(m)' <=> Claimed(m))
      /\ Carriers(m)' = Carriers(m) \ {d}
  BY <1>1, <1>2 DEF Readers, Waiting, Claimed, Carriers, At, files
<1>5. delivered[m] \in Nat
  BY DEF PTypeOK
<1> QED BY <1>2, <1>3, <1>4, <1>5 DEF Kept, Nowhere, OnePlace

(* What was carried waits again.                                               *)
LEMMA RequeueKeeps ==
  ASSUME PTypeOK, NEW d \in Drainers, RequeueRead(d), NEW m \in Messages
  PROVE  Kept(m)
<1>1. /\ \A e \in Drainers \ {d} : drainer'[e] = drainer[e]
      /\ drainer'[d].pc = "rewrite" /\ drainer[d].pc = "requeue"
      /\ drainer'[d].q = drainer[d].q \o Content(queue)
  BY DEF RequeueRead, Take, At, PTypeOK
<1>2. files' = files /\ sender' = sender /\ sent' = sent /\ mixed' = mixed /\ delivered' = delivered
  BY DEF RequeueRead, fate
<1>3. Has(drainer'[d].q, m) <=> Has(drainer[d].q, m) \/ Has(Content(queue), m)
  BY <1>1, ConcatHas, ContentTyped DEF PTypeOK
<1>4. /\ Readers' = Readers /\ (Claimed(m)' <=> Claimed(m)) /\ Carriers(m)' = Carriers(m) \ {d}
      /\ Waiting(m)' => Waiting(m) \/ d \in Carriers(m)
  BY <1>1, <1>2, <1>3 DEF Readers, Waiting, Claimed, Carriers, At, files
<1> QED BY <1>2, <1>4 DEF Kept, Nowhere, OnePlace

(* The other steps of a drain take a message nowhere new.                      *)
LEMMA DrainKeeps ==
  ASSUME PTypeOK, NEW d \in Drainers, Drain(d) \/ Dies(d), NEW m \in Messages
  PROVE  Kept(m)
<1>1. CASE Scan(d) \/ Look(d) \/ ResumeFails(d) \/ Move(d) \/ Dies(d)
  <2>1. \/ \E pc \in {"look", "skip", "claim", "moveclaim", "release"} : Goto(d, pc)
        \/ Return(d)
    BY <1>1 DEF Scan, Look, ResumeFails, Move, Dies
  <2>2. UNCHANGED <<files, sender, delivered>>
    BY <1>1 DEF Scan, Look, ResumeFails, Move, Dies
  <2>3. Has(Content(queue'), m) => Waiting(m)
    BY <2>2 DEF files, Waiting
  <2>4. \E pc \in {"look", "skip", "claim", "moveclaim", "release"} : Goto(d, pc) \/ Return(d)
    BY <2>1
  <2> QED BY <2>2, <2>3, <2>4, LetsGo DEF files
<1>2. CASE ResumeRefused(d)
  <2>1. /\ \A e \in Drainers \ {d} : drainer'[e] = drainer[e]
        /\ drainer'[d].pc = "requeue" /\ drainer[d].pc = "resume" /\ drainer'[d].q = drainer[d].q
    BY <1>2 DEF ResumeRefused, Goto, At, PTypeOK
  <2>2. Readers' = Readers /\ Carriers(m)' = Carriers(m)
    BY <2>1 DEF Readers, Carriers
  <2> QED BY <1>2, <2>1, <2>2, FewerPlaces DEF ResumeRefused, Waiting, Claimed, At, files
<1>3. CASE RequeueWrite(d)
  <2>1. Has(Content(queue'), m) => Waiting(m)
    BY <1>3, QueuedAssumption DEF RequeueWrite, Waiting, Content, PTypeOK
  <2> QED BY <1>3, <2>1, LetsGo DEF RequeueWrite
<1>4. CASE Release(d)
  <2>1. ~Has(Content(claim'), m)
    BY <1>4 DEF Release, Content, Has
  <2> QED BY <1>4, <2>1, LetsGo DEF Release, Waiting
<1> QED BY <1>1, <1>2, <1>3, <1>4, ClaimKeeps, ReadKeeps, ResumeKeeps, RequeueKeeps DEF Drain

(* Every step keeps every message in one place.                                *)
LEMMA QueueStep == IInv /\ [Next]_vars => IInv'
<1> SUFFICES ASSUME IInv, [Next]_vars PROVE IInv'
  OBVIOUS
<1>1. ASSUME NEW m \in Messages PROVE Kept(m)
  <2>1. CASE Retry \/ EpisodeEnds \/ TurnEnds \/ TurnStarts \/ Retire
    BY <2>1, SamePlaces DEF Retry, EpisodeEnds, TurnEnds, TurnStarts, Retire
  <2>2. CASE UNCHANGED vars
    BY <2>2, SamePlaces DEF vars
  <2> QED BY <2>1, <2>2, SenderKeeps, DrainKeeps DEF IInv, Next
<1>2. sent \subseteq sent' /\ mixed \subseteq mixed'
  BY DEF Next, vars, fate, session, Send, Drain, Inject, EnqueueRead, CancelRead, SenderWrite, Scan, Look,
         Claim, ReadClaim, Resume, ResumeFails, ResumeRefused, RequeueRead, RequeueWrite, Move,
         Release, Dies, Retry, EpisodeEnds, TurnEnds, TurnStarts, Retire
<1> QED BY <1>1, <1>2, QueueTyped DEF IInv, Kept

LEMMA QueueInvariant == Spec => []IInv
  BY QueueInit, QueueStep, PTL DEF Spec

(* Every variable of the queue keeps its type.                                 *)
THEOREM QueueTypes == Spec => []PTypeOK
<1>1. IInv => PTypeOK
  BY DEF IInv
<1> QED BY QueueInvariant, <1>1, PTL

(* However many drainers meet on one queue and die, a message that was not      *)
(* claimed under the hands of a writer or of another reader is delivered once   *)
(* (claim_queue's rename).                                                     *)
THEOREM DeliveredOnceAlways == Spec => []DeliveredOnce
<1>1. IInv => DeliveredOnce
  BY DEF IInv, OnePlace, DeliveredOnce
<1> QED BY QueueInvariant, <1>1, PTL
=============================================================================
