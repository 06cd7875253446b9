------------------------- MODULE MobileRelay_proofs -------------------------
(***************************************************************************)
(* Proofs about MobileRelay, for any number of phones, hosts and           *)
(* connections and any caps: its types, that a frame in custody was given  *)
(* to nobody and that an answer in custody is somewhere, and that a phone  *)
(* is told its answer was applied only when it was.                        *)
(***************************************************************************)
EXTENDS MobileRelay, SequenceTheorems, FiniteSetTheorems, TLAPS

\* No frame twice.
Once(s) == \A i, j \in DOMAIN s : s[i] = s[j] => i = j

\* The frames phone p has sent when it sent n.
Own(p, n) == {p} \X (1..n)

\* The types, by who keeps the state.
PhoneTypes ==
  /\ link \subseteq Phones
  /\ attempt \in [Phones -> 0..ANSWER_MAX_ATTEMPTS] /\ told \in [Phones -> Told]
  /\ up \in [Phones -> Seq(Frames)] /\ down \in [Phones -> SUBSET Reports]
  /\ \A p \in Phones : up[p] \in Seq(Own(p, attempt[p]))

ChannelTypes ==
  /\ agents \subseteq Conns /\ broken \subseteq agents
  /\ out \in [Conns -> Seq(Frames)] /\ \A c \in Conns : Len(out[c]) <= OUT_QUEUE_CAP
  /\ held \in Seq(Frames) /\ Len(held) <= MAX_PENDING

RoleTypes ==
  /\ stage \in [Hosts -> {"off", "out", "joining", "in"}]
  /\ sock \in [Hosts -> Conns \cup {Nobody}]
  /\ \A h \in Hosts : sock[h] # Nobody <=> stage[h] = "in"
  /\ holder \in Hosts \cup {Nobody, "gone"}

WorkTypes ==
  /\ job \in [Hosts -> SUBSET Jobs] /\ claimed \subseteq Hosts /\ stuck \subseteq Hosts
  /\ answered \in BOOLEAN

RestTypes == faults \in 0..MAX_FAULTS /\ settled \subseteq Frames /\ hasty \in BOOLEAN

\* A phone that told its user nothing of the answer has sent none, and only one that
\* waits is told something.
Sent == \A p \in Phones :
  /\ told[p] = "nothing" => attempt[p] = 0
  /\ down[p] # {} => told[p] = "asking"

\* A frame was handed on: to a connection, to a handler, or for good.
Outgoing(f) == \E c \in Conns : f \in ToSet(out[c])
Working(f) == \E h \in Hosts : \E j \in job[h] : j.frame = f
Given(f) == f \in settled \/ Outgoing(f) \/ Working(f)

\* Where an answer in custody is afterwards.
Cared(f) == OnItsWay(f) \/ f \in settled

\* No frame comes before the attempt it belongs to, so that a new one is not there yet.
Numbered == \A f \in Frames : f \in ToSet(held) \/ Given(f) => f[2] <= attempt[f[1]]

\* A frame arrives at the relay once, and is held before it is handed on.
UpOnce == \A p \in Phones : Once(up[p]) /\ \A f \in ToSet(up[p]) : f \notin ToSet(held) /\ ~Given(f)
HeldOnce == Once(held) /\ \A f \in ToSet(held) : ~Given(f)

\* What a phone heard of its answer or is about to hear.
HearsQueued(p) == Queued(p) \/ "queued" \in down[p]
HearsYes(p) == told[p] = "applied" \/ "yes" \in down[p]

Kept == \A p \in Phones : \A f \in {AnswerOf(p)} : HearsQueued(p) => Cared(f)

\* A claim that is remembered was made good, or its handler panicked or is still at work.
Claimed == \A h \in claimed : answered \/ h \in stuck \/ \E j \in job[h] : j.pc = "deliver"
Truthful == \A p \in Phones : HearsYes(p) => answered \/ hasty

Placed == Numbered /\ UpOnce /\ HeldOnce
MInv == MTypeOK /\ Sent /\ Placed /\ Kept /\ Claimed /\ Truthful

LEMMA TypesAre == MTypeOK <=> PhoneTypes /\ ChannelTypes /\ RoleTypes /\ WorkTypes /\ RestTypes
BY DEF MTypeOK, PhoneTypes, ChannelTypes, RoleTypes, WorkTypes, RestTypes, Own

LEMMA TypesNext == PhoneTypes' /\ ChannelTypes' /\ RoleTypes' /\ WorkTypes' /\ RestTypes' => MTypeOK'
BY DEF MTypeOK, PhoneTypes, ChannelTypes, RoleTypes, WorkTypes, RestTypes, Own
-----------------------------------------------------------------------------
(* Sequences. *)

LEMMA SetOf ==
  ASSUME NEW S, NEW s \in Seq(S)
  PROVE  /\ ToSet(s) = {s[i] : i \in 1..Len(s)} /\ ToSet(s) \subseteq S
         /\ DOMAIN s = 1..Len(s) /\ Len(s) \in Nat
<1>1. Len(s) \in Nat /\ DOMAIN s = 1..Len(s) /\ \A i \in 1..Len(s) : s[i] \in S
  BY LenProperties, ElementOfSeq
<1> QED BY <1>1 DEF ToSet

LEMMA EmptySet == ToSet(<<>>) = {} /\ Once(<<>>)
BY DEF ToSet, Once

LEMMA TailSet ==
  ASSUME NEW S, NEW s \in Seq(S), s # <<>>
  PROVE  /\ Head(s) \in S /\ Tail(s) \in Seq(S) /\ Len(Tail(s)) = Len(s) - 1
         /\ ToSet(s) = {Head(s)} \cup ToSet(Tail(s))
         /\ Once(s) => Once(Tail(s)) /\ Head(s) \notin ToSet(Tail(s))
<1>1. /\ Len(s) \in Nat \ {0} /\ Head(s) = s[1] /\ Tail(s) \in Seq(S) /\ Len(Tail(s)) = Len(s) - 1
      /\ \A i \in 1..Len(Tail(s)) : Tail(s)[i] = s[i + 1]
  BY HeadTailProperties, EmptySeq, LenProperties
<1>2. /\ DOMAIN s = 1..Len(s) /\ ToSet(s) = {s[i] : i \in 1..Len(s)} /\ ToSet(s) \subseteq S
  BY SetOf
<1>3. DOMAIN Tail(s) = 1..(Len(s) - 1) /\ ToSet(Tail(s)) = {Tail(s)[i] : i \in 1..(Len(s) - 1)}
  BY <1>1, SetOf
<1>4. s[1] \in ToSet(s)
  BY <1>1, <1>2
<1>5. ASSUME NEW i \in 1..Len(s), i # 1 PROVE i - 1 \in 1..(Len(s) - 1) /\ Tail(s)[i - 1] = s[i]
  <2>1. i - 1 \in 1..Len(Tail(s)) /\ (i - 1) + 1 = i
    BY <1>1, <1>5
  <2>2. Tail(s)[i - 1] = s[(i - 1) + 1]
    BY <2>1, <1>1
  <2> QED BY <2>1, <2>2, <1>1
<1>6. ToSet(s) = {Head(s)} \cup ToSet(Tail(s))
  <2>1. ASSUME NEW x \in ToSet(s) PROVE x \in {Head(s)} \cup ToSet(Tail(s))
    <3>1. PICK i \in 1..Len(s) : x = s[i]
      BY <2>1, <1>2
    <3>2. CASE i = 1
      BY <3>1, <3>2, <1>1
    <3>3. CASE i # 1
      BY <3>1, <3>3, <1>3, <1>5
    <3> QED BY <3>2, <3>3
  <2>2. ASSUME NEW x \in ToSet(Tail(s)) PROVE x \in ToSet(s)
    BY <2>2, <1>1, <1>2, <1>3
  <2> QED BY <2>1, <2>2, <1>4, <1>1
<1>7. Once(s) => Once(Tail(s)) /\ Head(s) \notin ToSet(Tail(s))
  <2> SUFFICES ASSUME Once(s) PROVE Once(Tail(s)) /\ Head(s) \notin ToSet(Tail(s))
    OBVIOUS
  <2>1. \A i, j \in 1..Len(s) : s[i] = s[j] => i = j
    BY <1>2 DEF Once
  <2>2. ASSUME NEW i \in 1..(Len(s) - 1), NEW j \in 1..(Len(s) - 1), Tail(s)[i] = Tail(s)[j] PROVE i = j
    <3>1. i + 1 \in 1..Len(s) /\ j + 1 \in 1..Len(s) /\ s[i + 1] = s[j + 1]
      BY <2>2, <1>1
    <3>2. i + 1 = j + 1
      BY <3>1, <2>1
    <3> QED BY <3>2
  <2>3. ASSUME NEW i \in 1..(Len(s) - 1), Tail(s)[i] = s[1] PROVE FALSE
    <3>1. i + 1 \in 1..Len(s) /\ 1 \in 1..Len(s) /\ s[i + 1] = s[1]
      BY <2>3, <1>1
    <3>2. i + 1 = 1
      BY <3>1, <2>1
    <3> QED BY <3>2
  <2> QED BY <2>2, <2>3, <1>1, <1>3 DEF Once
<1> QED BY <1>1, <1>2, <1>4, <1>6, <1>7

LEMMA AppendSet ==
  ASSUME NEW S, NEW s \in Seq(S), NEW e \in S
  PROVE  /\ Append(s, e) \in Seq(S) /\ Len(Append(s, e)) = Len(s) + 1
         /\ ToSet(Append(s, e)) = ToSet(s) \cup {e}
         /\ Once(s) /\ e \notin ToSet(s) => Once(Append(s, e))
<1> DEFINE t == Append(s, e)
<1>1. /\ t \in Seq(S) /\ Len(t) = Len(s) + 1 /\ t[Len(s) + 1] = e
      /\ \A i \in 1..Len(s) : t[i] = s[i]
  BY AppendProperties
<1>2. /\ Len(s) \in Nat /\ DOMAIN s = 1..Len(s) /\ DOMAIN t = 1..(Len(s) + 1)
      /\ ToSet(s) = {s[i] : i \in 1..Len(s)} /\ ToSet(t) = {t[i] : i \in 1..(Len(s) + 1)}
  BY <1>1, SetOf
<1> HIDE DEF t
<1>3. \A i \in 1..(Len(s) + 1) : i = Len(s) + 1 \/ (i \in 1..Len(s) /\ t[i] = s[i])
  BY <1>1, <1>2
<1>4. Len(s) + 1 \in 1..(Len(s) + 1)
  BY <1>2
<1>5. ToSet(t) = ToSet(s) \cup {e}
  <2>1. ASSUME NEW x \in ToSet(t) PROVE x \in ToSet(s) \cup {e}
    BY <2>1, <1>1, <1>2, <1>3
  <2>2. ASSUME NEW x \in ToSet(s) PROVE x \in ToSet(t)
    BY <2>2, <1>1, <1>2
  <2>3. e \in ToSet(t)
    BY <1>1, <1>2, <1>4
  <2> QED BY <2>1, <2>2, <2>3
<1>6. Once(s) /\ e \notin ToSet(s) => Once(t)
  <2> SUFFICES ASSUME Once(s), e \notin ToSet(s),
                      NEW i \in 1..(Len(s) + 1), NEW j \in 1..(Len(s) + 1), t[i] = t[j]
               PROVE  i = j
    BY <1>2 DEF Once
  <2>1. CASE i \in 1..Len(s) /\ j \in 1..Len(s)
    BY <2>1, <1>1, <1>2 DEF Once
  <2>2. CASE i = Len(s) + 1 /\ j \in 1..Len(s)
    BY <2>2, <1>1, <1>2
  <2>3. CASE j = Len(s) + 1 /\ i \in 1..Len(s)
    BY <2>3, <1>1, <1>2
  <2> QED BY <2>1, <2>2, <2>3, <1>3
<1> QED BY <1>1, <1>5, <1>6 DEF t

LEMMA OneOf ==
  ASSUME NEW S, NEW s \in Seq(S), Once(s), NEW e \in ToSet(s)
  PROVE  Cardinality({i \in DOMAIN s : s[i] = e}) = 1
<1>1. PICK i \in DOMAIN s : s[i] = e
  BY SetOf
<1>2. {k \in DOMAIN s : s[k] = e} = {i}
  BY <1>1 DEF Once
<1> QED BY <1>2, FS_Singleton
-----------------------------------------------------------------------------
(* What the steps leave alone keeps its types. *)

LEMMA Same ==
  /\ PhoneTypes /\ UNCHANGED phone => PhoneTypes'
  /\ ChannelTypes /\ UNCHANGED channel => ChannelTypes'
  /\ RoleTypes /\ UNCHANGED role => RoleTypes'
  /\ WorkTypes /\ UNCHANGED work => WorkTypes'
BY DEF PhoneTypes, ChannelTypes, RoleTypes, WorkTypes, phone, channel, role, work

\* What a phone may have sent on: frames of its own, numbered.
LEMMA FramesOf ==
  ASSUME PhoneTypes, NEW p \in Phones, up[p] # <<>>
  PROVE  /\ Head(up[p]) \in Frames /\ Head(up[p])[1] = p /\ Head(up[p])[2] \in 1..attempt[p]
         /\ Head(up[p]) = <<p, Head(up[p])[2]>>
         /\ Tail(up[p]) \in Seq(Own(p, attempt[p])) /\ Tail(up[p]) \in Seq(Frames)
<1>1. up[p] \in Seq(Own(p, attempt[p])) /\ up[p] \in Seq(Frames)
  BY DEF PhoneTypes
<1>2. Head(up[p]) \in Own(p, attempt[p]) /\ Tail(up[p]) \in Seq(Own(p, attempt[p]))
  BY <1>1, TailSet
<1>3. Head(up[p]) \in Frames /\ Tail(up[p]) \in Seq(Frames)
  BY <1>1, TailSet
<1> QED BY <1>2, <1>3 DEF Own

LEMMA InFrames ==
  ASSUME NEW f \in Frames
  PROVE  f[1] \in Phones /\ f[2] \in 1..ANSWER_MAX_ATTEMPTS /\ f = <<f[1], f[2]>>
BY DEF Frames

LEMMA TellTypes ==
  ASSUME PhoneTypes, NEW p \in Phones, NEW n, NEW what \in Reports, Tell(p, n, what)
  PROVE  down' \in [Phones -> SUBSET Reports]
BY DEF PhoneTypes, Tell

LEMMA SendsTypes ==
  ASSUME PhoneTypes, NEW p \in Phones, attempt[p] < ANSWER_MAX_ATTEMPTS, Sends(p)
  PROVE  /\ attempt' \in [Phones -> 0..ANSWER_MAX_ATTEMPTS] /\ up' \in [Phones -> Seq(Frames)]
         /\ \A q \in Phones : up'[q] \in Seq(Own(q, attempt'[q]))
         /\ attempt'[p] = attempt[p] + 1 /\ \A q \in Phones \ {p} : attempt'[q] = attempt[q]
         /\ up'[p] = Append(up[p], <<p, attempt'[p]>>) /\ \A q \in Phones \ {p} : up'[q] = up[q]
<1>1. /\ attempt \in [Phones -> 0..ANSWER_MAX_ATTEMPTS] /\ up \in [Phones -> Seq(Frames)]
      /\ \A q \in Phones : up[q] \in Seq(Own(q, attempt[q]))
  BY DEF PhoneTypes
<1>2. ANSWER_MAX_ATTEMPTS \in Nat
  BY RelayAssumption
<1>3. attempt[p] \in Nat /\ attempt[p] + 1 \in 1..ANSWER_MAX_ATTEMPTS
  BY <1>1, <1>2
<1>4. /\ attempt' \in [Phones -> 0..ANSWER_MAX_ATTEMPTS]
      /\ attempt'[p] = attempt[p] + 1 /\ \A q \in Phones \ {p} : attempt'[q] = attempt[q]
  BY <1>1, <1>2, <1>3 DEF Sends
<1>5. up' = [up EXCEPT ![p] = Append(@, <<p, attempt[p] + 1>>)]
  BY DEF Sends
<1>6. <<p, attempt[p] + 1>> \in Frames
  BY <1>3 DEF Frames
<1>7. Append(up[p], <<p, attempt[p] + 1>>) \in Seq(Frames)
  BY <1>1, <1>6, AppendSet
<1>8. up' \in [Phones -> Seq(Frames)]
  BY <1>1, <1>5, <1>7
<1>9. up'[p] = Append(up[p], <<p, attempt'[p]>>) /\ \A q \in Phones \ {p} : up'[q] = up[q]
  BY <1>1, <1>5, <1>4
<1>10. up'[p] \in Seq(Own(p, attempt'[p]))
  <2>1. Own(p, attempt[p]) \subseteq Own(p, attempt'[p])
    BY <1>3, <1>4 DEF Own
  <2>2. up[p] \in Seq(Own(p, attempt'[p]))
    BY <1>1, <2>1, SeqMonotonic
  <2>3. <<p, attempt'[p]>> \in Own(p, attempt'[p])
    BY <1>3, <1>4 DEF Own
  <2> QED BY <2>2, <2>3, <1>9, AppendSet
<1>11. \A q \in Phones : up'[q] \in Seq(Own(q, attempt'[q]))
  BY <1>1, <1>4, <1>9, <1>10
<1> QED BY <1>4, <1>8, <1>9, <1>11

\* The frames of jobs are frames.
LEMMA InJobs ==
  ASSUME WorkTypes, NEW h \in Hosts, NEW j \in job[h]
  PROVE  j \in Jobs /\ j.frame \in Frames /\ j.pc \in {"claim", "deliver"}
         /\ [j EXCEPT !.pc = "deliver"] \in Jobs
         /\ [j EXCEPT !.pc = "deliver"].frame = j.frame
         /\ [j EXCEPT !.pc = "deliver"].pc = "deliver"
BY DEF WorkTypes, Jobs

LEMMA ReplyTypes ==
  ASSUME PhoneTypes, WorkTypes, settled \subseteq Frames,
         NEW h \in Hosts, NEW j \in job[h], NEW what \in Reports, Reply(h, j, what)
  PROVE  down' \in [Phones -> SUBSET Reports] /\ settled' \subseteq Frames
<1>1. j.frame \in Frames /\ j.frame[1] \in Phones
  BY InJobs, InFrames
<1>2. settled' \subseteq Frames
  BY <1>1 DEF Reply, Drops
<1>3. CASE sock[h] \in agents
  BY <1>1, <1>2, <1>3, TellTypes DEF Reply
<1>4. CASE sock[h] \notin agents
  BY <1>2, <1>4 DEF Reply, PhoneTypes
<1> QED BY <1>3, <1>4
-----------------------------------------------------------------------------
(* The types of every step. *)

LEMMA InitTypes == Init => MTypeOK
<1> SUFFICES ASSUME Init PROVE MTypeOK
  OBVIOUS
<1> USE RelayAssumption
<1>1. \A S : <<>> \in Seq(S) /\ Len(<<>>) = 0
  BY EmptySeq
<1>2. PhoneTypes
  <2>1. link \subseteq Phones /\ attempt \in [Phones -> 0..ANSWER_MAX_ATTEMPTS]
    BY DEF Init
  <2>2. told \in [Phones -> Told] /\ down \in [Phones -> SUBSET Reports]
    BY DEF Init, Told
  <2>3. up \in [Phones -> Seq(Frames)] /\ \A p \in Phones : up[p] \in Seq(Own(p, attempt[p]))
    BY <1>1 DEF Init
  <2> QED BY <2>1, <2>2, <2>3 DEF PhoneTypes
<1>3. ChannelTypes
  BY <1>1 DEF Init, ChannelTypes
<1>4. RoleTypes
  BY DEF Init, RoleTypes
<1>5. WorkTypes /\ RestTypes
  <2>1. faults \in 0..MAX_FAULTS
    BY DEF Init
  <2>2. answered \in BOOLEAN /\ hasty \in BOOLEAN
    BY Zenon DEF Init
  <2>3. job \in [Hosts -> SUBSET Jobs] /\ claimed \subseteq Hosts /\ stuck \subseteq Hosts /\ settled \subseteq Frames
    BY DEF Init
  <2> QED BY <2>1, <2>2, <2>3 DEF WorkTypes, RestTypes
<1> QED BY <1>2, <1>3, <1>4, <1>5, TypesAre

LEMMA FailingTypes ==
  ASSUME PhoneTypes, NEW gone, Failing(gone)
  PROVE  told' \in [Phones -> Told]
BY DEF PhoneTypes, Failing, Told

LEMMA PhonesTypes ==
  ASSUME MTypeOK, Sent, NEW p \in Phones, Opens(p) \/ Answer(p) \/ TimesOut(p) \/ Receive(p) \/ Drop(p)
  PROVE  MTypeOK'
<1>1. PhoneTypes /\ ChannelTypes /\ RoleTypes /\ WorkTypes /\ RestTypes
  BY TypesAre
<1>2. UNCHANGED <<channel, role, work, faults, ghosts>>
  BY DEF Opens, Answer, TimesOut, Receive, Drop
<1>3. ChannelTypes' /\ RoleTypes' /\ WorkTypes' /\ RestTypes'
  BY <1>1, <1>2, Same DEF RestTypes, ghosts
<1>4. ASSUME Opens(p) PROVE PhoneTypes'
  BY <1>1, <1>4 DEF Opens, PhoneTypes
<1>5. /\ attempt \in [Phones -> 0..ANSWER_MAX_ATTEMPTS] /\ told \in [Phones -> Told]
      /\ down \in [Phones -> SUBSET Reports] /\ link \subseteq Phones
      /\ up \in [Phones -> Seq(Frames)] /\ \A q \in Phones : up[q] \in Seq(Own(q, attempt[q]))
  BY <1>1 DEF PhoneTypes
<1>6. ASSUME attempt[p] = 0 \/ attempt[p] < ANSWER_MAX_ATTEMPTS, Sends(p),
             told' \in [Phones -> Told], down' \in [Phones -> SUBSET Reports], UNCHANGED link
      PROVE  PhoneTypes'
  <2>1. attempt[p] < ANSWER_MAX_ATTEMPTS
    BY <1>6, RelayAssumption
  <2> QED BY <2>1, <1>1, <1>5, <1>6, SendsTypes DEF PhoneTypes
<1>7. ASSUME Answer(p) PROVE PhoneTypes'
  <2>1. told' \in [Phones -> Told] /\ UNCHANGED <<link, down>> /\ Sends(p) /\ told[p] = "nothing"
    BY <1>5, <1>7 DEF Answer, Told
  <2>2. attempt[p] = 0
    BY <2>1 DEF Sent
  <2> QED BY <2>1, <2>2, <1>5, <1>6
<1>8. ASSUME TimesOut(p) PROVE PhoneTypes'
  <2>1. down' \in [Phones -> SUBSET Reports] /\ UNCHANGED link
    BY <1>5, <1>8 DEF TimesOut
  <2>2. CASE attempt[p] < ANSWER_MAX_ATTEMPTS
    BY <2>1, <2>2, <1>5, <1>6, <1>8 DEF TimesOut
  <2>3. CASE ~(attempt[p] < ANSWER_MAX_ATTEMPTS)
    <3>1. told' \in [Phones -> Told] /\ UNCHANGED <<attempt, up>>
      BY <2>3, <1>5, <1>8 DEF TimesOut, Told
    <3> QED BY <3>1, <2>1, <1>5 DEF PhoneTypes
  <2> QED BY <2>2, <2>3
<1>9. ASSUME Receive(p) PROVE PhoneTypes'
  <2>1. PICK what \in down[p] :
          /\ down' = [down EXCEPT ![p] = {}]
          /\ told' = [told EXCEPT ![p] = [queued |-> "queued", yes |-> "applied", no |-> "refused"][what]]
    BY <1>9 DEF Receive
  <2>2. what = "queued" \/ what = "yes" \/ what = "no"
    BY <1>5 DEF Reports
  <2>3. [queued |-> "queued", yes |-> "applied", no |-> "refused"][what] \in Told
    BY <2>2 DEF Told
  <2>4. told' \in [Phones -> Told] /\ down' \in [Phones -> SUBSET Reports]
    BY <2>1, <2>3, <1>5
  <2> QED BY <2>4, <1>5, <1>9 DEF Receive, PhoneTypes
<1>10. ASSUME Drop(p) PROVE PhoneTypes'
  <2>1. link' \subseteq Phones /\ told' \in [Phones -> Told] /\ down' \in [Phones -> SUBSET Reports]
    BY <1>1, <1>5, <1>10, FailingTypes DEF Drop
  <2>2. UNCHANGED attempt /\ up' \in {up, [up EXCEPT ![p] = <<>>]}
    BY <1>10 DEF Drop
  <2>3. \A S : <<>> \in Seq(S)
    BY EmptySeq
  <2>4. up' \in [Phones -> Seq(Frames)] /\ \A q \in Phones : up'[q] \in Seq(Own(q, attempt'[q]))
    BY <2>2, <2>3, <1>5
  <2> QED BY <2>1, <2>2, <2>4, <1>5 DEF PhoneTypes
<1>11. PhoneTypes'
  BY <1>4, <1>7, <1>8, <1>9, <1>10
<1> QED BY <1>3, <1>11, TypesNext

LEMMA HoldTypes ==
  ASSUME ChannelTypes, RestTypes, NEW f \in Frames, Hold(f)
  PROVE  held' \in Seq(Frames) /\ Len(held') <= MAX_PENDING /\ settled' \subseteq Frames
<1>1. held \in Seq(Frames) /\ Len(held) \in Nat /\ Len(held) <= MAX_PENDING /\ settled \subseteq Frames
  BY LenProperties DEF ChannelTypes, RestTypes
<1>2. MAX_PENDING \in Nat \ {0}
  BY RelayAssumption
<1>3. CASE Len(held) = MAX_PENDING
  <2>1. held # <<>>
    BY <1>2, <1>3, EmptySeq
  <2>2. Tail(held) \in Seq(Frames) /\ Len(Tail(held)) = Len(held) - 1 /\ Head(held) \in Frames
    BY <2>1, <1>1, TailSet
  <2>3. held' = Append(Tail(held), f) /\ settled' = settled \cup {Head(held)}
    BY <1>3 DEF Hold, Drops
  <2>4. held' \in Seq(Frames) /\ Len(held') = Len(Tail(held)) + 1
    BY <2>2, <2>3, AppendSet
  <2> QED BY <2>2, <2>3, <2>4, <1>1, <1>2, <1>3
<1>4. CASE Len(held) # MAX_PENDING
  <2>1. held' = Append(held, f) /\ UNCHANGED settled
    BY <1>4 DEF Hold
  <2>2. held' \in Seq(Frames) /\ Len(held') = Len(held) + 1
    BY <2>1, <1>1, AppendSet
  <2> QED BY <2>1, <2>2, <1>1, <1>2, <1>4
<1> QED BY <1>3, <1>4

LEMMA TakeTypes ==
  ASSUME MTypeOK, NEW p \in Phones, Take(p)
  PROVE  MTypeOK'
<1>1. PhoneTypes /\ ChannelTypes /\ RoleTypes /\ WorkTypes /\ RestTypes
  BY TypesAre
<1>2. /\ attempt \in [Phones -> 0..ANSWER_MAX_ATTEMPTS] /\ told \in [Phones -> Told]
      /\ down \in [Phones -> SUBSET Reports] /\ link \subseteq Phones
      /\ up \in [Phones -> Seq(Frames)] /\ \A q \in Phones : up[q] \in Seq(Own(q, attempt[q]))
  BY <1>1 DEF PhoneTypes
<1> DEFINE f == Head(up[p])
           takers == {c \in agents : Fits(c)}
<1>3. /\ up[p] # <<>> /\ up' = [up EXCEPT ![p] = Tail(@)]
      /\ UNCHANGED <<link, attempt, told, agents, broken, role, work, faults, hasty>>
  BY DEF Take
<1>4. \/ /\ out' = [c \in Conns |-> IF c \in takers THEN Append(out[c], f) ELSE out[c]]
         /\ UNCHANGED <<held, settled, down>>
      \/ Hold(f) /\ Tell(p, f[2], "queued") /\ UNCHANGED out
  BY DEF Take
<1>5. f \in Frames /\ Tail(up[p]) \in Seq(Own(p, attempt[p])) /\ Tail(up[p]) \in Seq(Frames)
  BY <1>1, <1>3, FramesOf
<1> HIDE DEF f
<1>6. up' \in [Phones -> Seq(Frames)] /\ \A q \in Phones : up'[q] \in Seq(Own(q, attempt'[q]))
  BY <1>2, <1>3, <1>5
<1>7. /\ out' \in [Conns -> Seq(Frames)] /\ \A c \in Conns : Len(out'[c]) <= OUT_QUEUE_CAP
      /\ held' \in Seq(Frames) /\ Len(held') <= MAX_PENDING
      /\ down' \in [Phones -> SUBSET Reports] /\ settled' \subseteq Frames
  <2>1. CASE Hold(f) /\ Tell(p, f[2], "queued") /\ UNCHANGED out
    <3>1. held' \in Seq(Frames) /\ Len(held') <= MAX_PENDING /\ settled' \subseteq Frames
      BY <2>1, <1>1, <1>5, HoldTypes
    <3>2. "queued" \in Reports
      BY DEF Reports
    <3>3. down' \in [Phones -> SUBSET Reports]
      BY <2>1, <3>2, <1>1, TellTypes
    <3> QED BY <3>1, <3>3, <2>1, <1>1 DEF ChannelTypes
  <2>2. CASE /\ out' = [c \in Conns |-> IF c \in takers THEN Append(out[c], f) ELSE out[c]]
             /\ UNCHANGED <<held, settled, down>>
    <3>1. ASSUME NEW c \in Conns PROVE out'[c] \in Seq(Frames) /\ Len(out'[c]) <= OUT_QUEUE_CAP
      <4>1. out[c] \in Seq(Frames) /\ Len(out[c]) \in Nat /\ Len(out[c]) <= OUT_QUEUE_CAP
        BY <1>1, LenProperties DEF ChannelTypes
      <4>2. Append(out[c], f) \in Seq(Frames) /\ Len(Append(out[c], f)) = Len(out[c]) + 1
        BY <4>1, <1>5, AppendSet
      <4>3. c \in takers => Len(out[c]) < OUT_QUEUE_CAP
        BY DEF Fits
      <4>4. OUT_QUEUE_CAP \in Nat
        BY RelayAssumption
      <4>5. out'[c] = IF c \in takers THEN Append(out[c], f) ELSE out[c]
        BY <2>2
      <4> HIDE DEF takers
      <4> QED BY <4>1, <4>2, <4>3, <4>4, <4>5
    <3>2. out' \in [Conns -> Seq(Frames)]
      BY <2>2, <3>1
    <3> QED BY <2>2, <3>1, <3>2, <1>1, <1>2 DEF ChannelTypes, RestTypes
  <2> QED BY <2>1, <2>2, <1>4
<1>8. PhoneTypes'
  BY <1>2, <1>3, <1>6, <1>7 DEF PhoneTypes
<1>9. ChannelTypes'
  BY <1>1, <1>3, <1>7 DEF ChannelTypes
<1>10. RoleTypes' /\ WorkTypes' /\ RestTypes'
  BY <1>1, <1>3, <1>7, Same DEF RestTypes
<1> QED BY <1>8, <1>9, <1>10, TypesNext
-----------------------------------------------------------------------------
LEMMA EmptiesTypes ==
  ASSUME ChannelTypes, RestTypes, NEW c \in Conns, Empties(c)
  PROVE  /\ out' \in [Conns -> Seq(Frames)] /\ \A d \in Conns : Len(out'[d]) <= OUT_QUEUE_CAP
         /\ settled' \subseteq Frames
<1>1. /\ out \in [Conns -> Seq(Frames)] /\ \A d \in Conns : Len(out[d]) <= OUT_QUEUE_CAP
      /\ settled \subseteq Frames
  BY DEF ChannelTypes, RestTypes
<1>2. out' = [out EXCEPT ![c] = <<>>] /\ settled' = settled \cup ToSet(out[c])
  BY DEF Empties, Drops
<1>3. ToSet(out[c]) \subseteq Frames /\ <<>> \in Seq(Frames) /\ Len(<<>>) = 0 /\ 0 <= OUT_QUEUE_CAP
  BY <1>1, SetOf, EmptySeq, RelayAssumption
<1> QED BY <1>1, <1>2, <1>3

LEMMA PumpTypes ==
  ASSUME MTypeOK, NEW c \in Conns, Pump(c)
  PROVE  MTypeOK'
<1>1. PhoneTypes /\ ChannelTypes /\ RoleTypes /\ WorkTypes /\ RestTypes
  BY TypesAre
<1>2. out \in [Conns -> Seq(Frames)] /\ \A d \in Conns : Len(out[d]) <= OUT_QUEUE_CAP
  BY <1>1 DEF ChannelTypes
<1>3. /\ out[c] # <<>> /\ out' = [out EXCEPT ![c] = Tail(@)]
      /\ job' = [h \in Hosts |-> IF Reads(h, c) THEN job[h] \cup {[frame |-> Head(out[c]), pc |-> "claim"]} ELSE job[h]]
      /\ Drops(IF \E h \in Hosts : Reads(h, c) THEN {} ELSE {Head(out[c])})
      /\ UNCHANGED <<phone, agents, broken, held, role, claimed, stuck, answered, faults, hasty>>
  BY DEF Pump
<1>4. /\ Head(out[c]) \in Frames /\ Tail(out[c]) \in Seq(Frames)
      /\ Len(Tail(out[c])) = Len(out[c]) - 1 /\ Len(out[c]) \in Nat
  BY <1>2, <1>3, TailSet, LenProperties
<1>5. ChannelTypes'
  <2>1. Len(Tail(out[c])) <= OUT_QUEUE_CAP
    BY <1>2, <1>4, RelayAssumption
  <2>2. /\ out' \in [Conns -> Seq(Frames)] /\ \A d \in Conns : Len(out'[d]) <= OUT_QUEUE_CAP
    BY <2>1, <1>2, <1>3, <1>4
  <2> QED BY <2>2, <1>1, <1>3 DEF ChannelTypes
<1>6. WorkTypes'
  <2>1. [frame |-> Head(out[c]), pc |-> "claim"] \in Jobs
    BY <1>4 DEF Jobs
  <2>2. job' \in [Hosts -> SUBSET Jobs]
    BY <2>1, <1>1, <1>3 DEF WorkTypes
  <2> QED BY <2>2, <1>1, <1>3 DEF WorkTypes
<1>7. RestTypes'
  BY <1>1, <1>3, <1>4 DEF RestTypes, Drops
<1>8. PhoneTypes' /\ RoleTypes'
  BY <1>1, <1>3, Same
<1> QED BY <1>5, <1>6, <1>7, <1>8, TypesNext

LEMMA ChannelsTypes ==
  ASSUME MTypeOK, NEW c \in Conns, Stall(c) \/ PingFails(c) \/ Cut(c)
  PROVE  MTypeOK'
<1>1. PhoneTypes /\ ChannelTypes /\ RoleTypes /\ WorkTypes /\ RestTypes
  BY TypesAre
<1>2. /\ Empties(c) /\ UNCHANGED <<phone, held, role, work, hasty>>
      /\ agents' \subseteq agents /\ broken' \subseteq agents'
  BY <1>1 DEF Stall, PingFails, Cut, Leaves, ChannelTypes
<1>3. faults' = faults \/ Fault
  BY DEF Stall, PingFails, Cut
<1>4. ChannelTypes'
  BY <1>1, <1>2, EmptiesTypes DEF ChannelTypes
<1>5. RestTypes'
  <2>1. faults' \in 0..MAX_FAULTS
    BY <1>1, <1>3, RelayAssumption DEF RestTypes, Fault
  <2> QED BY <2>1, <1>1, <1>2, EmptiesTypes DEF RestTypes
<1>6. PhoneTypes' /\ RoleTypes' /\ WorkTypes'
  BY <1>1, <1>2, Same
<1> QED BY <1>4, <1>5, <1>6, TypesNext

LEMMA ExpireTypes ==
  ASSUME MTypeOK, Expire
  PROVE  MTypeOK'
<1>1. PhoneTypes /\ ChannelTypes /\ RoleTypes /\ WorkTypes /\ RestTypes
  BY TypesAre
<1>2. /\ held # <<>> /\ held' = Tail(held) /\ settled' = settled \cup {Head(held)}
      /\ UNCHANGED <<phone, agents, out, broken, role, work, faults, hasty>>
  BY DEF Expire, Drops
<1>3. held \in Seq(Frames) /\ Len(held) \in Nat /\ Len(held) <= MAX_PENDING /\ MAX_PENDING \in Nat
  BY <1>1, LenProperties, RelayAssumption DEF ChannelTypes
<1>4. Head(held) \in Frames /\ Tail(held) \in Seq(Frames) /\ Len(Tail(held)) <= MAX_PENDING
  BY <1>2, <1>3, TailSet
<1>5. ChannelTypes' /\ RestTypes'
  BY <1>1, <1>2, <1>4 DEF ChannelTypes, RestTypes
<1>6. PhoneTypes' /\ RoleTypes' /\ WorkTypes'
  BY <1>1, <1>2, Same
<1> QED BY <1>5, <1>6, TypesNext

LEMMA RestartTypes ==
  ASSUME MTypeOK, RelayRestarts
  PROVE  MTypeOK'
<1>1. PhoneTypes /\ ChannelTypes /\ RoleTypes /\ WorkTypes /\ RestTypes
  BY TypesAre
<1>2. \A S : <<>> \in Seq(S) /\ Len(<<>>) = 0
  BY EmptySeq
<1>3. OUT_QUEUE_CAP \in Nat /\ MAX_PENDING \in Nat /\ MAX_FAULTS \in Nat
  BY RelayAssumption
<1>4. PhoneTypes'
  <2>1. told' \in [Phones -> Told] /\ UNCHANGED attempt /\ link' = {}
    BY <1>1, FailingTypes DEF RelayRestarts
  <2>2. up' = [p \in Phones |-> <<>>] /\ down' = [p \in Phones |-> {}]
    BY DEF RelayRestarts
  <2>3. up' \in [Phones -> Seq(Frames)] /\ \A p \in Phones : up'[p] \in Seq(Own(p, attempt'[p]))
    BY <2>2, <1>2
  <2>4. down' \in [Phones -> SUBSET Reports]
    BY <2>2
  <2> QED BY <2>1, <2>3, <2>4, <1>1 DEF PhoneTypes
<1>5. ChannelTypes'
  <2>1. agents' = {} /\ broken' = {} /\ held' = <<>> /\ out' = [c \in Conns |-> <<>>]
    BY DEF RelayRestarts
  <2>2. out' \in [Conns -> Seq(Frames)] /\ \A c \in Conns : Len(out'[c]) <= OUT_QUEUE_CAP
    BY <2>1, <1>2, <1>3
  <2>3. held' \in Seq(Frames) /\ Len(held') <= MAX_PENDING
    BY <2>1, <1>2, <1>3
  <2> QED BY <2>1, <2>2, <2>3 DEF ChannelTypes
<1>6. RestTypes'
  <2>1. settled' = settled \cup ToSet(held) \cup UNION {ToSet(out[c]) : c \in Conns}
    BY DEF RelayRestarts, Drops
  <2>2. ToSet(held) \subseteq Frames /\ \A c \in Conns : ToSet(out[c]) \subseteq Frames
    BY <1>1, SetOf DEF ChannelTypes
  <2>3. settled' \subseteq Frames
    BY <2>1, <2>2, <1>1 DEF RestTypes
  <2>4. faults' \in 0..MAX_FAULTS
    BY <1>1, <1>3 DEF RestTypes, RelayRestarts, Fault
  <2> QED BY <2>3, <2>4, <1>1 DEF RestTypes, RelayRestarts
<1>7. RoleTypes' /\ WorkTypes'
  BY <1>1, Same DEF RelayRestarts
<1> QED BY <1>4, <1>5, <1>6, <1>7, TypesNext
-----------------------------------------------------------------------------
LEMMA HostsTypes ==
  ASSUME MTypeOK, NEW h \in Hosts, ClaimRole(h) \/ Disconnect(h) \/ Quits(h) \/ Starts(h)
  PROVE  MTypeOK'
<1>1. PhoneTypes /\ ChannelTypes /\ RoleTypes /\ WorkTypes /\ RestTypes
  BY TypesAre
<1>2. UNCHANGED <<phone, channel, work, ghosts>>
  BY DEF ClaimRole, Disconnect, Quits, Starts, Goes
<1>3. RoleTypes'
  <2>1. CASE ClaimRole(h)
    BY <2>1, <1>1, RelayAssumption DEF ClaimRole, RoleTypes
  <2>2. CASE Disconnect(h) \/ Quits(h)
    BY <2>2, <1>1, RelayAssumption DEF Disconnect, Quits, Goes, RoleTypes
  <2>3. CASE Starts(h)
    BY <2>3, <1>1, RelayAssumption DEF Starts, RoleTypes
  <2> QED BY <2>1, <2>2, <2>3
<1>4. faults' = faults \/ Fault
  BY DEF ClaimRole, Disconnect, Quits, Starts
<1>5. faults' \in 0..MAX_FAULTS
  BY <1>1, <1>4, RelayAssumption DEF RestTypes, Fault
<1>6. PhoneTypes' /\ ChannelTypes' /\ WorkTypes'
  BY <1>1, <1>2, Same
<1>7. RestTypes'
  BY <1>1, <1>2, <1>5 DEF RestTypes, ghosts
<1> QED BY <1>3, <1>6, <1>7, TypesNext

LEMMA JoinTypes ==
  ASSUME MTypeOK, NEW h \in Hosts, Join(h)
  PROVE  MTypeOK'
<1>1. PhoneTypes /\ ChannelTypes /\ RoleTypes /\ WorkTypes /\ RestTypes
  BY TypesAre
<1>2. PICK c \in Conns \ agents :
        /\ stage[h] = "joining" /\ stage' = [stage EXCEPT ![h] = "in"] /\ sock' = [sock EXCEPT ![h] = c]
        /\ agents' = agents \cup {c}
        /\ out' = [out EXCEPT ![c] = held] /\ held' = <<>>
        /\ UNCHANGED <<phone, broken, holder, work, faults, ghosts>>
  BY DEF Join
<1>3. RoleTypes'
  BY <1>1, <1>2, RelayAssumption DEF RoleTypes
<1>4. ChannelTypes'
  <2>1. held \in Seq(Frames) /\ Len(held) <= OUT_QUEUE_CAP
    BY <1>1, LenProperties, RelayAssumption DEF ChannelTypes
  <2>2. out' \in [Conns -> Seq(Frames)] /\ \A d \in Conns : Len(out'[d]) <= OUT_QUEUE_CAP
    BY <2>1, <1>1, <1>2 DEF ChannelTypes
  <2>3. held' \in Seq(Frames) /\ Len(held') <= MAX_PENDING
    BY <1>2, EmptySeq, RelayAssumption
  <2> QED BY <2>2, <2>3, <1>1, <1>2 DEF ChannelTypes
<1>5. PhoneTypes' /\ WorkTypes' /\ RestTypes'
  BY <1>1, <1>2, Same DEF RestTypes, ghosts
<1> QED BY <1>3, <1>4, <1>5, TypesNext

LEMMA DiesTypes ==
  ASSUME MTypeOK, NEW h \in Hosts, Dies(h)
  PROVE  MTypeOK'
<1>1. PhoneTypes /\ ChannelTypes /\ RoleTypes /\ WorkTypes /\ RestTypes
  BY TypesAre
<1>2. /\ Fault /\ stage' = [stage EXCEPT ![h] = "off"] /\ sock' = [sock EXCEPT ![h] = Nobody]
      /\ holder' = IF holder = h THEN "gone" ELSE holder
      /\ job' = [job EXCEPT ![h] = {}] /\ claimed' = claimed \ {h}
      /\ stuck' = stuck \ {h} /\ settled' = settled \cup {j.frame : j \in job[h]}
      /\ UNCHANGED <<phone, channel, answered, hasty>>
  BY DEF Dies, Goes, Drops
<1>3. RoleTypes'
  <2>1. /\ stage' \in [Hosts -> {"off", "out", "joining", "in"}]
        /\ sock' \in [Hosts -> Conns \cup {Nobody}]
        /\ \A g \in Hosts : sock'[g] # Nobody <=> stage'[g] = "in"
    BY <1>1, <1>2 DEF RoleTypes
  <2>2. holder' \in Hosts \cup {Nobody, "gone"}
    BY <1>1, <1>2 DEF RoleTypes
  <2> QED BY <2>1, <2>2 DEF RoleTypes
<1>4. WorkTypes'
  BY <1>1, <1>2 DEF WorkTypes
<1>5. RestTypes'
  <2>1. faults' \in 0..MAX_FAULTS
    BY <1>1, <1>2, RelayAssumption DEF RestTypes, Fault
  <2>2. \A j \in job[h] : j.frame \in Frames
    BY <1>1, InJobs
  <2> QED BY <2>1, <2>2, <1>1, <1>2 DEF RestTypes
<1>6. PhoneTypes' /\ ChannelTypes'
  BY <1>1, <1>2, Same
<1> QED BY <1>3, <1>4, <1>5, <1>6, TypesNext

\* What a delivery does to the state of its host.
LEMMA Outcome ==
  ASSUME NEW h \in Hosts, Deliver(h)
  PROVE  \E j \in job[h] :
           /\ job' = [job EXCEPT ![h] = @ \ {j}]
           /\ \/ Reply(h, j, "yes") /\ answered' = TRUE /\ UNCHANGED <<claimed, stuck, faults>>
              \/ Reply(h, j, "no") /\ Unclaim(h) /\ UNCHANGED <<answered, faults>>
              \/ Panics(h, j)
BY DEF Deliver

\* What a handler leaves of the state of its host.
LEMMA HandlerTypes ==
  ASSUME MTypeOK, NEW h \in Hosts, Claim(h) \/ Deliver(h) \/ Forget(h)
  PROVE  MTypeOK'
<1>1. PhoneTypes /\ ChannelTypes /\ RoleTypes /\ WorkTypes /\ RestTypes
  BY TypesAre
<1>2. UNCHANGED <<link, attempt, told, up, channel, role>>
  BY DEF Claim, Deliver, Forget, phone
<1>3. ChannelTypes' /\ RoleTypes'
  BY <1>1, <1>2, Same
<1>4. settled \subseteq Frames /\ hasty \in BOOLEAN /\ faults \in 0..MAX_FAULTS
  BY <1>1 DEF RestTypes
<1>5. /\ down' \in [Phones -> SUBSET Reports] /\ settled' \subseteq Frames
      /\ hasty' \in BOOLEAN /\ faults' \in 0..MAX_FAULTS /\ WorkTypes'
  <2>1. CASE Claim(h)
    <3>1. PICK j \in job[h] :
            IF h \in claimed
            THEN /\ job' = [job EXCEPT ![h] = @ \ {j}] /\ Reply(h, j, "yes")
                 /\ hasty' = (hasty \/ (~answered /\ (h \in stuck \/ \E k \in job[h] : k.pc = "deliver")))
                 /\ UNCHANGED claimed
            ELSE /\ job' = [job EXCEPT ![h] = (@ \ {j}) \cup {[j EXCEPT !.pc = "deliver"]}]
                 /\ claimed' = claimed \cup {h}
                 /\ UNCHANGED <<down, settled, hasty>>
      BY <2>1 DEF Claim
    <3>2. UNCHANGED <<answered, stuck, faults>>
      BY <2>1 DEF Claim
    <3>3. CASE h \in claimed
      <4>1. job' = [job EXCEPT ![h] = @ \ {j}] /\ Reply(h, j, "yes") /\ UNCHANGED claimed
        BY <3>1, <3>3
      <4>2. hasty' = (hasty \/ (~answered /\ (h \in stuck \/ \E k \in job[h] : k.pc = "deliver")))
        BY <3>1, <3>3
      <4>3. "yes" \in Reports
        BY DEF Reports
      <4>4. hasty' \in BOOLEAN
        BY <4>2, <1>4, Zenon
      <4>5. WorkTypes'
        BY <4>1, <3>2, <1>1 DEF WorkTypes
      <4> QED BY <4>1, <4>3, <4>4, <4>5, <3>2, <1>1, <1>4, ReplyTypes
    <3>4. CASE h \notin claimed
      <4>1. [j EXCEPT !.pc = "deliver"] \in Jobs
        BY <1>1, InJobs
      <4>2. job' = [job EXCEPT ![h] = (@ \ {j}) \cup {[j EXCEPT !.pc = "deliver"]}]
            /\ claimed' = claimed \cup {h} /\ UNCHANGED <<down, settled, hasty>>
        BY <3>1, <3>4
      <4>3. WorkTypes'
        BY <4>1, <4>2, <3>2, <1>1 DEF WorkTypes
      <4> QED BY <4>2, <4>3, <3>2, <1>1, <1>4 DEF PhoneTypes
    <3> QED BY <3>3, <3>4
  <2>2. CASE Deliver(h)
    <3>1. PICK j \in job[h] :
            /\ job' = [job EXCEPT ![h] = @ \ {j}]
            /\ \/ Reply(h, j, "yes") /\ answered' = TRUE /\ UNCHANGED <<claimed, stuck, faults>>
               \/ Reply(h, j, "no") /\ Unclaim(h) /\ UNCHANGED <<answered, faults>>
               \/ Panics(h, j)
      BY <2>2, Outcome
    <3>2. down' \in [Phones -> SUBSET Reports] /\ settled' \subseteq Frames
      <4>1. "yes" \in Reports /\ "no" \in Reports /\ (Reply(h, j, "yes") \/ Reply(h, j, "no"))
        BY <3>1 DEF Reports, Panics
      <4> QED BY <4>1, <1>1, <1>4, ReplyTypes
    <3>3. answered' \in BOOLEAN
      <4>1. answered' = TRUE \/ answered' = answered
        BY <3>1 DEF Panics
      <4> QED BY <4>1, <1>1, Zenon DEF WorkTypes
    <3>4. claimed' \subseteq Hosts /\ stuck' \subseteq Hosts
      <4>1. claimed' \subseteq claimed /\ stuck' \subseteq stuck \cup {h}
        BY <3>1 DEF Panics, Unclaim
      <4> QED BY <4>1, <1>1 DEF WorkTypes
    <3>5. job' \in [Hosts -> SUBSET Jobs]
      BY <3>1, <1>1 DEF WorkTypes
    <3>6. faults' \in 0..MAX_FAULTS
      <4>1. faults' = faults \/ Fault
        BY <3>1 DEF Panics
      <4> QED BY <4>1, <1>4, RelayAssumption DEF Fault
    <3>7. hasty' = hasty
      BY <2>2 DEF Deliver
    <3> QED BY <3>2, <3>3, <3>4, <3>5, <3>6, <3>7, <1>4 DEF WorkTypes
  <2>3. CASE Forget(h)
    BY <2>3, <1>1, <1>4 DEF Forget, Unclaim, WorkTypes, PhoneTypes, phone, ghosts
  <2> QED BY <2>1, <2>2, <2>3
<1>6. PhoneTypes'
  BY <1>1, <1>2, <1>5 DEF PhoneTypes
<1>7. RestTypes'
  BY <1>5 DEF RestTypes
<1> QED BY <1>3, <1>5, <1>6, <1>7, TypesNext

LEMMA NextTypes == MTypeOK /\ Sent /\ [Next]_vars => MTypeOK'
<1> SUFFICES ASSUME MTypeOK, Sent, [Next]_vars PROVE MTypeOK'
  OBVIOUS
<1>1. CASE UNCHANGED vars
  <2>1. UNCHANGED <<phone, channel, role, work, faults, ghosts>>
    BY <1>1 DEF vars
  <2>2. PhoneTypes /\ ChannelTypes /\ RoleTypes /\ WorkTypes /\ RestTypes
    BY TypesAre
  <2>3. PhoneTypes' /\ ChannelTypes' /\ RoleTypes' /\ WorkTypes' /\ RestTypes'
    BY <2>1, <2>2, Same DEF RestTypes, ghosts
  <2> QED BY <2>3, TypesNext
<1>2. CASE Next
  BY <1>2, PhonesTypes, TakeTypes, PumpTypes, ChannelsTypes, ExpireTypes, RestartTypes, HostsTypes,
     JoinTypes, DiesTypes, HandlerTypes DEF Next, Handle
<1> QED BY <1>1, <1>2
-----------------------------------------------------------------------------
(* Where the frames go: a step that takes no frame from a phone. *)

Onward ==
  /\ attempt' = attempt /\ \A p \in Phones : up'[p] \in {up[p], <<>>}
  /\ Once(held')
  /\ \A f \in Frames :
       /\ f \in ToSet(held') => f \in ToSet(held) /\ ~Given(f)'
       /\ Given(f)' => Given(f) \/ f \in ToSet(held)
  /\ \A f : Cared(f) => Cared(f)'

LEMMA HeldFrames == MTypeOK => held \in Seq(Frames) /\ ToSet(held) \subseteq Frames
BY SetOf DEF MTypeOK

LEMMA UpFrames ==
  ASSUME MTypeOK, NEW p \in Phones
  PROVE  up[p] \in Seq(Frames) /\ ToSet(up[p]) \subseteq Frames
BY SetOf DEF MTypeOK

LEMMA OnwardPlaces ==
  ASSUME MTypeOK, MTypeOK', Placed, Onward
  PROVE  Placed'
<1>1. /\ attempt' = attempt /\ \A p \in Phones : up'[p] \in {up[p], <<>>}
      /\ Once(held')
      /\ \A f \in Frames :
           /\ f \in ToSet(held') => f \in ToSet(held) /\ ~Given(f)'
           /\ Given(f)' => Given(f) \/ f \in ToSet(held)
  BY DEF Onward
<1>2. Numbered /\ UpOnce /\ HeldOnce
  BY DEF Placed
<1>3. ToSet(held') \subseteq Frames
  BY SetOf DEF MTypeOK
<1>4. Numbered'
  BY <1>1, <1>2 DEF Numbered
<1>5. HeldOnce'
  BY <1>1, <1>3 DEF HeldOnce
<1>6. UpOnce'
  <2> SUFFICES ASSUME NEW p \in Phones
               PROVE  Once(up'[p]) /\ \A f \in ToSet(up'[p]) : f \notin ToSet(held') /\ ~Given(f)'
    BY DEF UpOnce
  <2>1. CASE up'[p] = <<>>
    BY <2>1, EmptySet
  <2>2. CASE up'[p] = up[p]
    <3>1. Once(up[p]) /\ \A f \in ToSet(up[p]) : f \in Frames /\ f \notin ToSet(held) /\ ~Given(f)
      BY <1>2, UpFrames DEF UpOnce
    <3> QED BY <3>1, <2>2, <1>1
  <2> QED BY <2>1, <2>2, <1>1
<1> QED BY <1>4, <1>5, <1>6 DEF Placed

\* Nothing moves.
LEMMA StillOnward ==
  ASSUME HeldOnce, UNCHANGED <<attempt, agents, out, held, job, settled>>,
         \A p \in Phones : up'[p] \in {up[p], <<>>}
  PROVE  Onward
BY DEF Onward, HeldOnce, Given, Outgoing, Working, Cared, OnItsWay

LEMMA ExpireOnward ==
  ASSUME MTypeOK, HeldOnce, Expire
  PROVE  Onward
<1>1. /\ held # <<>> /\ held' = Tail(held) /\ settled' = settled \cup {Head(held)}
      /\ UNCHANGED <<attempt, up, agents, out, job>>
  BY DEF Expire, Drops, phone, work
<1>2. /\ ToSet(held) = {Head(held)} \cup ToSet(Tail(held))
      /\ Once(Tail(held)) /\ Head(held) \notin ToSet(Tail(held))
  BY <1>1, HeldFrames, TailSet DEF HeldOnce
<1>3. \A f : Given(f)' <=> Given(f) \/ f = Head(held)
  BY <1>1 DEF Given, Outgoing, Working
<1>4. \A f : Cared(f) => Cared(f)'
  BY <1>1, <1>2 DEF Cared, OnItsWay
<1> QED BY <1>1, <1>2, <1>3, <1>4 DEF Onward, HeldOnce

LEMMA PumpOnward ==
  ASSUME MTypeOK, HeldOnce, NEW c \in Conns, Pump(c)
  PROVE  Onward
<1>1. out \in [Conns -> Seq(Frames)] /\ job \in [Hosts -> SUBSET Jobs]
  BY DEF MTypeOK
<1>2. /\ c \in agents /\ out[c] # <<>> /\ out' = [out EXCEPT ![c] = Tail(@)]
      /\ job' = [h \in Hosts |-> IF Reads(h, c) THEN job[h] \cup {[frame |-> Head(out[c]), pc |-> "claim"]} ELSE job[h]]
      /\ settled' = settled \cup (IF \E h \in Hosts : Reads(h, c) THEN {} ELSE {Head(out[c])})
      /\ UNCHANGED <<attempt, up, agents, held>>
  BY DEF Pump, Drops, phone
<1>3. ToSet(out[c]) = {Head(out[c])} \cup ToSet(Tail(out[c]))
  BY <1>1, <1>2, TailSet
<1>4. out'[c] = Tail(out[c]) /\ \A d \in Conns \ {c} : out'[d] = out[d]
  BY <1>1, <1>2
<1>5. ASSUME NEW h \in Hosts
      PROVE  job[h] \subseteq job'[h] /\ \A j \in job'[h] : j \in job[h] \/ (Reads(h, c) /\ j.frame = Head(out[c]))
  BY <1>2
<1>6. ASSUME NEW h \in Hosts, Reads(h, c) PROVE \E j \in job'[h] : j.frame = Head(out[c])
  <2>1. [frame |-> Head(out[c]), pc |-> "claim"] \in job'[h]
    BY <1>2, <1>6
  <2> QED BY <2>1
<1>7. \A f : Given(f)' => Given(f)
  <2> SUFFICES ASSUME NEW f, Given(f)' PROVE Given(f)
    OBVIOUS
  <2>1. f = Head(out[c]) => Given(f)
    BY <1>3 DEF Given, Outgoing
  <2>2. f \in settled' => f \in settled \/ f = Head(out[c])
    BY <1>2
  <2>3. (\E d \in Conns : f \in ToSet(out'[d])) => Outgoing(f)
    BY <1>3, <1>4 DEF Outgoing
  <2>4. (\E h \in Hosts : \E j \in job'[h] : j.frame = f) => Working(f) \/ f = Head(out[c])
    BY <1>5 DEF Working
  <2>5. f \in settled' \/ (\E d \in Conns : f \in ToSet(out'[d])) \/ (\E h \in Hosts : \E j \in job'[h] : j.frame = f)
    BY DEF Given, Outgoing, Working
  <2> QED BY <2>1, <2>2, <2>3, <2>4, <2>5 DEF Given
<1>8. \A f : Cared(f) => Cared(f)'
  <2> SUFFICES ASSUME NEW f, Cared(f) PROVE Cared(f)'
    OBVIOUS
  <2>1. f = Head(out[c]) => Cared(f)'
    <3>1. CASE \E h \in Hosts : Reads(h, c)
      BY <3>1, <1>6 DEF Cared, OnItsWay
    <3>2. CASE ~ \E h \in Hosts : Reads(h, c)
      BY <3>2, <1>2 DEF Cared
    <3> QED BY <3>1, <3>2
  <2>2. CASE f \in settled \/ f \in ToSet(held)
    BY <2>2, <1>2 DEF Cared, OnItsWay
  <2>3. CASE \E d \in agents : f \in ToSet(out[d])
    <3>1. agents \subseteq Conns
      BY DEF MTypeOK
    <3>2. f = Head(out[c]) \/ \E d \in agents : f \in ToSet(out'[d])
      BY <2>3, <3>1, <1>3, <1>4
    <3>3. (\E d \in agents : f \in ToSet(out'[d])) => Cared(f)'
      BY <1>2 DEF Cared, OnItsWay
    <3> QED BY <3>2, <3>3, <2>1
  <2>4. CASE \E h \in Hosts : \E j \in job[h] : j.frame = f
    BY <2>4, <1>5 DEF Cared, OnItsWay
  <2> QED BY <2>2, <2>3, <2>4 DEF Cared, OnItsWay
<1>9. Once(held') /\ \A f \in ToSet(held) : ~Given(f)
  BY <1>2 DEF HeldOnce
<1> QED BY <1>2, <1>7, <1>8, <1>9 DEF Onward

LEMMA EmptiesOnward ==
  ASSUME MTypeOK, HeldOnce, NEW c \in Conns, Empties(c),
         agents' = agents \/ agents' = agents \ {c}, UNCHANGED <<attempt, up, held, job>>
  PROVE  Onward
<1>1. agents \subseteq Conns /\ out \in [Conns -> Seq(Frames)]
  BY DEF MTypeOK
<1>2. out' = [out EXCEPT ![c] = <<>>] /\ settled' = settled \cup ToSet(out[c])
  BY DEF Empties, Drops
<1>3. ToSet(out'[c]) = {} /\ \A d \in Conns \ {c} : out'[d] = out[d]
  BY <1>1, <1>2, EmptySet
<1>4. \A f : Given(f)' => Given(f)
  BY <1>2, <1>3 DEF Given, Outgoing, Working
<1>5. \A f : Cared(f) => Cared(f)'
  <2> SUFFICES ASSUME NEW f, Cared(f) PROVE Cared(f)'
    OBVIOUS
  <2>1. CASE f \in settled \/ f \in ToSet(held) \/ \E h \in Hosts : \E j \in job[h] : j.frame = f
    BY <2>1, <1>2 DEF Cared, OnItsWay
  <2>2. CASE \E d \in agents : f \in ToSet(out[d])
    <3>1. PICK d \in agents : f \in ToSet(out[d])
      BY <2>2
    <3>2. CASE d = c
      BY <3>1, <3>2, <1>2 DEF Cared
    <3>3. CASE d # c
      BY <3>1, <3>3, <1>1, <1>3 DEF Cared, OnItsWay
    <3> QED BY <3>2, <3>3
  <2> QED BY <2>1, <2>2 DEF Cared, OnItsWay
<1> QED BY <1>4, <1>5 DEF Onward, HeldOnce

LEMMA RestartOnward ==
  ASSUME MTypeOK, RelayRestarts
  PROVE  Onward
<1>1. /\ held' = <<>> /\ out' = [d \in Conns |-> <<>>]
      /\ settled' = settled \cup ToSet(held) \cup UNION {ToSet(out[d]) : d \in Conns}
      /\ up' = [p \in Phones |-> <<>>]
      /\ UNCHANGED <<attempt, job>> /\ agents \subseteq Conns
  BY DEF RelayRestarts, Drops, work, MTypeOK
<1>2. ToSet(held') = {} /\ Once(held') /\ \A d \in Conns : ToSet(out'[d]) = {}
  BY <1>1, EmptySet
<1>3. \A f : Given(f)' => Given(f) \/ f \in ToSet(held)
  BY <1>1, <1>2 DEF Given, Outgoing, Working
<1>4. \A f : Cared(f) => Cared(f)'
  BY <1>1 DEF Cared, OnItsWay
<1> QED BY <1>1, <1>2, <1>3, <1>4 DEF Onward

LEMMA JoinOnward ==
  ASSUME MTypeOK, NEW h \in Hosts, Join(h)
  PROVE  Onward
<1>1. agents \subseteq Conns /\ out \in [Conns -> Seq(Frames)]
  BY DEF MTypeOK
<1>2. PICK c \in Conns \ agents :
        /\ agents' = agents \cup {c} /\ out' = [out EXCEPT ![c] = held] /\ held' = <<>>
        /\ UNCHANGED <<attempt, up, job, settled>>
  BY DEF Join, phone, work, ghosts
<1>3. ToSet(held') = {} /\ Once(held')
  BY <1>2, EmptySet
<1>4. out'[c] = held /\ \A d \in Conns \ {c} : out'[d] = out[d]
  BY <1>1, <1>2
<1>5. \A f : Given(f)' => Given(f) \/ f \in ToSet(held)
  BY <1>2, <1>4 DEF Given, Outgoing, Working
<1>6. \A f : Cared(f) => Cared(f)'
  BY <1>1, <1>2, <1>4 DEF Cared, OnItsWay
<1> QED BY <1>2, <1>3, <1>5, <1>6 DEF Onward

\* The jobs of a host that are gone were settled.
LEMMA JobsOnward ==
  ASSUME MTypeOK, HeldOnce, NEW h \in Hosts,
         \A g \in Hosts \ {h} : job'[g] = job[g],
         \A j \in job[h] : (\E k \in job'[h] : k.frame = j.frame) \/ j.frame \in settled',
         \A k \in job'[h] : \E j \in job[h] : k.frame = j.frame,
         settled \subseteq settled', \A f \in settled' \ settled : Working(f),
         UNCHANGED <<attempt, up, agents, out, held>>
  PROVE  Onward
<1>1. \A f : Working(f)' => Working(f)
  BY DEF Working
<1>2. \A f : Given(f)' => Given(f)
  BY <1>1 DEF Given, Outgoing
<1>3. \A f : Cared(f) => Cared(f)'
  <2> SUFFICES ASSUME NEW f, Cared(f) PROVE Cared(f)'
    OBVIOUS
  <2>1. CASE f \in settled \/ f \in ToSet(held) \/ \E d \in agents : f \in ToSet(out[d])
    BY <2>1 DEF Cared, OnItsWay
  <2>2. CASE \E g \in Hosts : \E j \in job[g] : j.frame = f
    BY <2>2 DEF Cared, OnItsWay
  <2> QED BY <2>1, <2>2 DEF Cared, OnItsWay
<1> QED BY <1>2, <1>3 DEF Onward, HeldOnce

LEMMA DiesOnward ==
  ASSUME MTypeOK, HeldOnce, NEW h \in Hosts, Dies(h)
  PROVE  Onward
<1>1. /\ job' = [job EXCEPT ![h] = {}] /\ settled' = settled \cup {j.frame : j \in job[h]}
      /\ UNCHANGED <<attempt, up, agents, out, held>> /\ job \in [Hosts -> SUBSET Jobs]
  BY DEF Dies, Goes, Drops, phone, channel, MTypeOK
<1>2. \A f \in settled' \ settled : Working(f)
  BY <1>1 DEF Working
<1>3. job'[h] = {} /\ \A g \in Hosts \ {h} : job'[g] = job[g]
  BY <1>1
<1> QED BY <1>1, <1>2, <1>3, JobsOnward

LEMMA HandlerOnward ==
  ASSUME MTypeOK, HeldOnce, NEW h \in Hosts, Claim(h) \/ Deliver(h)
  PROVE  Onward
<1>1. WorkTypes /\ job \in [Hosts -> SUBSET Jobs]
  BY TypesAre DEF WorkTypes
<1>2. PICK j \in job[h] :
        \/ job' = [job EXCEPT ![h] = @ \ {j}] /\ settled' = settled \cup {j.frame}
        \/ job' = [job EXCEPT ![h] = (@ \ {j}) \cup {[j EXCEPT !.pc = "deliver"]}] /\ settled' = settled
  BY DEF Claim, Deliver, Panics, Reply, Drops
<1>3. UNCHANGED <<attempt, up, agents, out, held>>
  BY DEF Claim, Deliver, channel
<1>4. [j EXCEPT !.pc = "deliver"].frame = j.frame
  BY <1>1, InJobs
<1>5. \A g \in Hosts \ {h} : job'[g] = job[g]
  BY <1>1, <1>2
<1>6. \/ job'[h] = job[h] \ {j} /\ settled' = settled \cup {j.frame}
      \/ job'[h] = (job[h] \ {j}) \cup {[j EXCEPT !.pc = "deliver"]} /\ settled' = settled
  BY <1>1, <1>2
<1> DEFINE k == [j EXCEPT !.pc = "deliver"]
<1>7. k.frame = j.frame
  BY <1>4
<1>8. \/ job'[h] = job[h] \ {j} /\ settled' = settled \cup {j.frame}
      \/ job'[h] = (job[h] \ {j}) \cup {k} /\ settled' = settled
  BY <1>6
<1> HIDE DEF k
<1>9. \A f \in settled' \ settled : Working(f)
  BY <1>2, <1>8 DEF Working
<1>10. \A i \in job[h] : (\E g \in job'[h] : g.frame = i.frame) \/ i.frame \in settled'
  BY <1>7, <1>8
<1>11. \A g \in job'[h] : \E i \in job[h] : g.frame = i.frame
  BY <1>7, <1>8
<1>12. settled \subseteq settled'
  BY <1>8
<1> QED BY <1>3, <1>5, <1>9, <1>10, <1>11, <1>12, JobsOnward
-----------------------------------------------------------------------------
(* A new frame, and one the relay takes. *)

\* A new frame has a number of its own.
LEMMA SendsPlaces ==
  ASSUME MTypeOK, MTypeOK', Placed, NEW p \in Phones, attempt[p] < ANSWER_MAX_ATTEMPTS, Sends(p),
         UNCHANGED <<out, held, job, settled>>
  PROVE  Placed'
<1> DEFINE n == attempt'[p]
           e == <<p, attempt'[p]>>
<1>1. /\ n = attempt[p] + 1 /\ \A q \in Phones \ {p} : attempt'[q] = attempt[q]
      /\ up'[p] = Append(up[p], e) /\ \A q \in Phones \ {p} : up'[q] = up[q]
  BY TypesAre, SendsTypes
<1>2. Numbered /\ UpOnce /\ HeldOnce
  BY DEF Placed
<1>3. attempt[p] \in Nat /\ e \in Frames /\ e[1] = p /\ e[2] = attempt[p] + 1
  BY <1>1, RelayAssumption DEF MTypeOK, Frames
<1> HIDE DEF n, e
<1>4. \A f : Given(f)' <=> Given(f)
  BY DEF Given, Outgoing, Working
<1>5. e \notin ToSet(held) /\ ~Given(e)
  BY <1>2, <1>3 DEF Numbered
<1>6. e \notin ToSet(up[p])
  <2>1. ToSet(up[p]) \subseteq Own(p, attempt[p])
    BY TypesAre, SetOf DEF PhoneTypes
  <2> QED BY <2>1, <1>3 DEF Own
<1>7. Numbered'
  <2> SUFFICES ASSUME NEW f \in Frames, f \in ToSet(held) \/ Given(f)
               PROVE  f[2] <= attempt'[f[1]]
    BY <1>4 DEF Numbered
  <2>1. f[1] \in Phones /\ f[2] \in Nat /\ f[2] <= attempt[f[1]]
    BY <1>2, InFrames DEF Numbered
  <2>2. attempt'[f[1]] = attempt[f[1]] \/ (f[1] = p /\ attempt'[f[1]] = attempt[p] + 1)
    BY <2>1, <1>1 DEF n
  <2> QED BY <2>1, <2>2, <1>3
<1>8. HeldOnce'
  BY <1>2, <1>4 DEF HeldOnce
<1>9. UpOnce'
  <2> SUFFICES ASSUME NEW q \in Phones
               PROVE  Once(up'[q]) /\ \A f \in ToSet(up'[q]) : f \notin ToSet(held) /\ ~Given(f)
    BY <1>4 DEF UpOnce
  <2>1. Once(up[q]) /\ \A f \in ToSet(up[q]) : f \notin ToSet(held) /\ ~Given(f)
    BY <1>2 DEF UpOnce
  <2>2. CASE q # p
    BY <2>1, <2>2, <1>1
  <2>3. CASE q = p
    <3>1. ToSet(up'[p]) = ToSet(up[p]) \cup {e} /\ Once(up'[p])
      BY <2>1, <2>3, <1>1, <1>3, <1>6, UpFrames, AppendSet
    <3> QED BY <3>1, <2>1, <2>3, <1>5
  <2> QED BY <2>2, <2>3
<1> QED BY <1>7, <1>8, <1>9 DEF Placed

\* Where a frame goes that the relay takes: to connections, or into custody, where it
\* may drive out the oldest.
LEMMA TakeMoves ==
  ASSUME MTypeOK, Placed, NEW p \in Phones, Take(p), NEW e, e = Head(up[p])
  PROVE  /\ e \in Frames /\ e = <<p, e[2]>> /\ e[2] \in 1..attempt[p]
         /\ e \in ToSet(up[p]) /\ e \notin ToSet(held) /\ ~Given(e)
         /\ up[p] # <<>> /\ up'[p] = Tail(up[p]) /\ \A q \in Phones \ {p} : up'[q] = up[q]
         /\ UNCHANGED <<link, attempt, told, agents, job>>
         /\ Once(held') /\ \A f \in ToSet(held') : f \in ToSet(held) \cup {e} /\ ~Given(f)'
         /\ \A f : Given(f)' => Given(f) \/ f \in ToSet(held) \cup {e}
         /\ \A f : Cared(f) => Cared(f)'
         /\ UNCHANGED down \/ (Tell(p, e[2], "queued") /\ Cared(e)')
<1> DEFINE takers == {c \in agents : Fits(c)}
<1>1. PhoneTypes /\ up[p] # <<>> /\ up' = [up EXCEPT ![p] = Tail(@)]
      /\ UNCHANGED <<link, attempt, told, agents, job>>
  BY TypesAre DEF Take, work
<1>2. \/ /\ takers # {} /\ out' = [c \in Conns |-> IF c \in takers THEN Append(out[c], e) ELSE out[c]]
         /\ UNCHANGED <<held, settled, down>>
      \/ Hold(e) /\ Tell(p, e[2], "queued") /\ UNCHANGED out
  BY DEF Take
<1>3. e \in Frames /\ e = <<p, e[2]>> /\ e[2] \in 1..attempt[p]
  BY <1>1, FramesOf
<1>4. up'[p] = Tail(up[p]) /\ \A q \in Phones \ {p} : up'[q] = up[q]
  BY <1>1 DEF PhoneTypes
<1>5. e \in ToSet(up[p])
  BY <1>1, UpFrames, TailSet
<1>6. e \notin ToSet(held) /\ ~Given(e)
  BY <1>5 DEF Placed, UpOnce
<1>7. held \in Seq(Frames) /\ Once(held) /\ \A f \in ToSet(held) : ~Given(f)
  BY HeldFrames DEF Placed, HeldOnce
<1>8. agents \subseteq Conns /\ out \in [Conns -> Seq(Frames)]
  BY DEF MTypeOK
<1>9. /\ Once(held') /\ \A f \in ToSet(held') : f \in ToSet(held) \cup {e} /\ ~Given(f)'
      /\ \A f : Given(f)' => Given(f) \/ f \in ToSet(held) \cup {e}
      /\ \A f : Cared(f) => Cared(f)'
      /\ UNCHANGED down \/ (Tell(p, e[2], "queued") /\ Cared(e)')
  <2>1. CASE /\ out' = [c \in Conns |-> IF c \in takers THEN Append(out[c], e) ELSE out[c]]
             /\ UNCHANGED <<held, settled, down>>
    <3>1. \A c \in Conns : ToSet(out[c]) \subseteq ToSet(out'[c]) /\ ToSet(out'[c]) \subseteq ToSet(out[c]) \cup {e}
      <4> SUFFICES ASSUME NEW c \in Conns
                   PROVE  ToSet(out[c]) \subseteq ToSet(out'[c]) /\ ToSet(out'[c]) \subseteq ToSet(out[c]) \cup {e}
        OBVIOUS
      <4>1. out'[c] = out[c] \/ out'[c] = Append(out[c], e)
        BY <2>1
      <4>2. ToSet(Append(out[c], e)) = ToSet(out[c]) \cup {e}
        BY <1>3, <1>8, AppendSet
      <4> QED BY <4>1, <4>2
    <3>2. \A f : Given(f)' => Given(f) \/ f = e
      BY <3>1, <2>1, <1>1 DEF Given, Outgoing, Working
    <3>3. \A f : Cared(f) => Cared(f)'
      BY <3>1, <2>1, <1>1, <1>8 DEF Cared, OnItsWay
    <3> QED BY <3>2, <3>3, <2>1, <1>6, <1>7
  <2>2. CASE Hold(e) /\ Tell(p, e[2], "queued") /\ UNCHANGED out
    <3>1. CASE Len(held) = MAX_PENDING
      <4>1. held' = Append(Tail(held), e) /\ settled' = settled \cup {Head(held)}
        BY <2>2, <3>1 DEF Hold, Drops
      <4>2. held # <<>>
        BY <3>1, RelayAssumption, EmptySeq
      <4>3. /\ Tail(held) \in Seq(Frames) /\ Once(Tail(held))
            /\ ToSet(held) = {Head(held)} \cup ToSet(Tail(held)) /\ Head(held) \notin ToSet(Tail(held))
        BY <4>2, <1>7, TailSet
      <4>4. ToSet(held') = ToSet(Tail(held)) \cup {e} /\ Once(held')
        <5>1. e \notin ToSet(Tail(held))
          BY <4>3, <1>6
        <5> DEFINE s == Tail(held)
        <5>2. s \in Seq(Frames) /\ Once(s) /\ e \notin ToSet(s) /\ e \in Frames
          BY <5>1, <4>3, <1>3
        <5> HIDE DEF s
        <5>3. ToSet(Append(s, e)) = ToSet(s) \cup {e} /\ Once(Append(s, e))
          BY <5>2, AppendSet
        <5> QED BY <5>3, <4>1 DEF s
      <4>5. \A f : Given(f)' <=> Given(f) \/ f = Head(held)
        BY <4>1, <2>2, <1>1 DEF Given, Outgoing, Working
      <4>6. \A f : Cared(f) => Cared(f)'
        BY <4>1, <4>3, <4>4, <2>2, <1>1 DEF Cared, OnItsWay
      <4>7. Cared(e)'
        BY <4>4 DEF Cared, OnItsWay
      <4>8. \A f \in ToSet(held') : f \in ToSet(held) \cup {e} /\ ~Given(f)'
        BY <4>3, <4>4, <4>5, <1>6, <1>7
      <4> QED BY <4>3, <4>4, <4>5, <4>6, <4>7, <4>8, <2>2
    <3>2. CASE Len(held) # MAX_PENDING
      <4>1. held' = Append(held, e) /\ UNCHANGED settled
        BY <2>2, <3>2 DEF Hold
      <4>2. ToSet(held') = ToSet(held) \cup {e} /\ Once(held')
        BY <4>1, <1>3, <1>6, <1>7, AppendSet
      <4>3. \A f : Given(f)' <=> Given(f)
        BY <4>1, <2>2, <1>1 DEF Given, Outgoing, Working
      <4>4. \A f : Cared(f) => Cared(f)'
        BY <4>1, <4>2, <2>2, <1>1 DEF Cared, OnItsWay
      <4>5. Cared(e)'
        BY <4>2 DEF Cared, OnItsWay
      <4> QED BY <4>2, <4>3, <4>4, <4>5, <2>2, <1>6, <1>7
    <3> QED BY <3>1, <3>2
  <2> QED BY <2>1, <2>2, <1>2
<1> QED BY <1>1, <1>3, <1>4, <1>5, <1>6, <1>9

LEMMA TakePlaces ==
  ASSUME MTypeOK, MTypeOK', Placed, NEW p \in Phones, Take(p)
  PROVE  Placed'
<1>0. PICK e : e = Head(up[p])
  OBVIOUS
<1>1. /\ e \in Frames /\ e = <<p, e[2]>> /\ e[2] \in 1..attempt[p] /\ e \in ToSet(up[p])
      /\ up[p] # <<>> /\ up'[p] = Tail(up[p]) /\ \A q \in Phones \ {p} : up'[q] = up[q]
      /\ UNCHANGED attempt
      /\ Once(held') /\ \A f \in ToSet(held') : f \in ToSet(held) \cup {e} /\ ~Given(f)'
      /\ \A f : Given(f)' => Given(f) \/ f \in ToSet(held) \cup {e}
  BY <1>0, TakeMoves
<1>2. e[1] = p /\ e[2] <= attempt[p] /\ e[2] \in Nat /\ attempt[p] \in Nat
  BY <1>1 DEF MTypeOK
<1>3. /\ ToSet(up[p]) = {e} \cup ToSet(Tail(up[p]))
      /\ Once(up[p]) => Once(Tail(up[p])) /\ e \notin ToSet(Tail(up[p]))
  BY <1>0, <1>1, UpFrames, TailSet
<1>4. Numbered /\ UpOnce /\ HeldOnce
  BY DEF Placed
<1>5. Numbered'
  <2> SUFFICES ASSUME NEW f \in Frames, f \in ToSet(held)' \/ Given(f)'
               PROVE  f[2] <= attempt'[f[1]]
    BY DEF Numbered
  <2>1. f \in ToSet(held) \/ Given(f) \/ f = e
    BY <1>1
  <2> QED BY <2>1, <1>1, <1>2, <1>4 DEF Numbered
<1>6. HeldOnce'
  BY <1>1 DEF HeldOnce
<1>7. UpOnce'
  <2> SUFFICES ASSUME NEW q \in Phones
               PROVE  Once(up'[q]) /\ \A f \in ToSet(up'[q]) : f \notin ToSet(held)' /\ ~Given(f)'
    BY DEF UpOnce
  <2>1. Once(up[q]) /\ \A f \in ToSet(up[q]) : f \notin ToSet(held) /\ ~Given(f)
    BY <1>4 DEF UpOnce
  <2>2. Once(up'[q]) /\ ToSet(up'[q]) \subseteq ToSet(up[q]) /\ e \notin ToSet(up'[q])
    <3>1. CASE q = p
      BY <3>1, <2>1, <1>1, <1>3
    <3>2. CASE q # p
      <4>1. ToSet(up[q]) \subseteq Own(q, attempt[q])
        BY TypesAre, SetOf DEF PhoneTypes
      <4>2. e \notin ToSet(up[q])
        BY <4>1, <3>2, <1>2 DEF Own
      <4> QED BY <4>2, <3>2, <2>1, <1>1
    <3> QED BY <3>1, <3>2
  <2> QED BY <2>1, <2>2, <1>1
<1> QED BY <1>5, <1>6, <1>7 DEF Placed
-----------------------------------------------------------------------------
(* What a phone hears. *)

\* Nothing is heard that was not sent, and nothing of an answer before.
Hears ==
  /\ answered => answered'
  /\ hasty => hasty'
  /\ \A p \in Phones :
       /\ told'[p] = "nothing" => told[p] = "nothing" /\ attempt'[p] = attempt[p]
       /\ down'[p] # {} => told'[p] = "asking"
       /\ HearsYes(p)' => HearsYes(p) \/ answered' \/ hasty'

\* No phone hears that its answer is in custody, but for those that did before.
NoneQueued == \A p \in Phones : HearsQueued(p)' => HearsQueued(p) /\ attempt'[p] = attempt[p]

LEMMA HearsNext ==
  /\ Sent /\ Hears => Sent'
  /\ Truthful /\ Hears => Truthful'
<1>1. Sent /\ Hears => Sent'
  BY DEF Sent, Hears
<1>2. ASSUME Truthful, Hears PROVE Truthful'
  BY <1>2, Zenon DEF Truthful, Hears
<1> QED BY <1>1, <1>2

LEMMA KeptNext ==
  ASSUME Kept, NoneQueued, \A f : Cared(f) => Cared(f)'
  PROVE  Kept'
<1> SUFFICES ASSUME NEW p \in Phones, NEW f, HearsQueued(p)', f = <<p, attempt'[p]>>
             PROVE  Cared(f)'
  BY DEF Kept, AnswerOf
<1>1. HearsQueued(p) /\ attempt'[p] = attempt[p]
  BY DEF NoneQueued
<1> QED BY <1>1 DEF Kept, AnswerOf

LEMMA StillHears ==
  ASSUME Sent, UNCHANGED <<attempt, told, down, answered, hasty>>
  PROVE  Hears /\ NoneQueued
BY DEF Sent, Hears, NoneQueued, HearsYes, HearsQueued, Queued
-----------------------------------------------------------------------------
LEMMA FailingIs ==
  ASSUME MTypeOK, NEW gone, Failing(gone), NEW p \in Phones
  PROVE  told'[p] = told[p] \/ (told[p] = "asking" /\ told'[p] = "failed")
BY DEF MTypeOK, Failing

LEMMA PhonesHear ==
  ASSUME MTypeOK, Sent, NEW p \in Phones, Opens(p) \/ Answer(p) \/ TimesOut(p) \/ Receive(p) \/ Drop(p)
  PROVE  Hears /\ NoneQueued
<1>1. /\ attempt \in [Phones -> 0..ANSWER_MAX_ATTEMPTS] /\ told \in [Phones -> Told]
      /\ down \in [Phones -> SUBSET Reports]
  BY DEF MTypeOK
<1>2. answered' = answered /\ hasty' = hasty
  BY DEF Opens, Answer, TimesOut, Receive, Drop, work, ghosts
<1> DEFINE Quiet(q) == told'[q] = told[q] /\ down'[q] = down[q] /\ attempt'[q] = attempt[q]
<1>3. ASSUME \A q \in Phones :
               \/ Quiet(q)
               \/ told'[q] \in {"asking", "failed"} /\ down'[q] = {}
               \/ /\ attempt'[q] = attempt[q] /\ down'[q] = {}
                  /\ \/ told'[q] = "queued" /\ "queued" \in down[q]
                     \/ told'[q] = "applied" /\ "yes" \in down[q]
                     \/ told'[q] = "refused"
      PROVE  Hears /\ NoneQueued
  BY <1>2, <1>3 DEF Hears, NoneQueued, HearsYes, HearsQueued, Queued, Sent
<1>4. CASE Opens(p)
  BY <1>3, <1>4 DEF Opens
<1>5. CASE Answer(p)
  <2>1. /\ told[p] = "nothing" /\ told' = [told EXCEPT ![p] = "asking"] /\ UNCHANGED down
        /\ attempt' = [attempt EXCEPT ![p] = @ + 1]
    BY <1>5 DEF Answer, Sends
  <2>2. down[p] = {}
    BY <2>1 DEF Sent
  <2>3. told'[p] = "asking" /\ down'[p] = {} /\ \A q \in Phones \ {p} : Quiet(q)
    BY <2>1, <2>2, <1>1
  <2> QED BY <2>3, <1>3
<1>6. CASE TimesOut(p)
  <2>1. down' = [down EXCEPT ![p] = {}] /\ told[p] = "asking"
    BY <1>6 DEF TimesOut
  <2>2. \/ attempt' = [attempt EXCEPT ![p] = @ + 1] /\ told' = told
        \/ told' = [told EXCEPT ![p] = "failed"] /\ attempt' = attempt
    BY <1>6 DEF TimesOut, Sends
  <2>3. told'[p] \in {"asking", "failed"} /\ down'[p] = {} /\ \A q \in Phones \ {p} : Quiet(q)
    BY <2>1, <2>2, <1>1
  <2> QED BY <2>3, <1>3
<1>7. CASE Receive(p)
  <2>1. PICK what \in down[p] :
          /\ down' = [down EXCEPT ![p] = {}]
          /\ told' = [told EXCEPT ![p] = [queued |-> "queued", yes |-> "applied", no |-> "refused"][what]]
          /\ UNCHANGED attempt
    BY <1>7 DEF Receive
  <2>2. what = "queued" \/ what = "yes" \/ what = "no"
    BY <1>1 DEF Reports
  <2>3. \/ told'[p] = "queued" /\ "queued" \in down[p]
        \/ told'[p] = "applied" /\ "yes" \in down[p]
        \/ told'[p] = "refused"
    BY <2>1, <2>2, <1>1
  <2>4. attempt'[p] = attempt[p] /\ down'[p] = {} /\ \A q \in Phones \ {p} : Quiet(q)
    BY <2>1, <1>1
  <2> QED BY <2>3, <2>4, <1>3
<1>8. CASE Drop(p)
  <2>1. Failing({p}) /\ down' = [down EXCEPT ![p] = {}] /\ UNCHANGED attempt
    BY <1>8 DEF Drop
  <2>2. \A q \in Phones \ {p} : Quiet(q)
    BY <2>1, <1>1 DEF Failing
  <2>3. down'[p] = {} /\ attempt'[p] = attempt[p]
    BY <2>1, <1>1
  <2>4. told'[p] = "failed" \/ (told'[p] = told[p] /\ told[p] # "asking")
    BY <2>1, <1>1 DEF Failing
  <2>5. told'[p] = "failed" \/ Quiet(p)
    BY <2>3, <2>4 DEF Sent
  <2> QED BY <2>2, <2>3, <2>5, <1>3
<1> QED BY <1>4, <1>5, <1>6, <1>7, <1>8

LEMMA RestartHears ==
  ASSUME MTypeOK, Sent, RelayRestarts
  PROVE  Hears /\ NoneQueued
<1>1. /\ down' = [q \in Phones |-> {}] /\ UNCHANGED <<attempt, answered, hasty>>
      /\ \A q \in Phones : told'[q] = told[q] \/ told'[q] = "failed"
  BY FailingIs DEF RelayRestarts, work
<1> QED BY <1>1 DEF Hears, NoneQueued, HearsYes, HearsQueued, Queued

\* What Tell brings, for each phone.
LEMMA TellIs ==
  ASSUME MTypeOK, NEW p \in Phones, NEW n, NEW what, Tell(p, n, what), NEW q \in Phones
  PROVE  \/ down'[q] = down[q]
         \/ q = p /\ told[p] = "asking" /\ n = attempt[p] /\ down'[p] = down[p] \cup {what}
BY DEF MTypeOK, Tell

LEMMA ReplyHears ==
  ASSUME MTypeOK, Sent, NEW h \in Hosts, NEW j \in job[h], NEW what, Reply(h, j, what),
         what \in {"yes", "no"}, what = "yes" => answered' \/ hasty',
         answered => answered', hasty => hasty', UNCHANGED <<attempt, told>>
  PROVE  Hears /\ NoneQueued
<1>1. j.frame[1] \in Phones
  BY TypesAre, InJobs, InFrames
<1>2. ASSUME NEW q \in Phones
      PROVE  down'[q] = down[q] \/ (told[q] = "asking" /\ down'[q] = down[q] \cup {what})
  <2>1. CASE sock[h] \in agents
    BY <2>1, <1>1, TellIs DEF Reply
  <2>2. CASE sock[h] \notin agents
    BY <2>2 DEF Reply
  <2> QED BY <2>1, <2>2
<1>3. NoneQueued
  BY <1>2 DEF NoneQueued, HearsQueued, Queued
<1>4. ASSUME NEW q \in Phones
      PROVE  /\ told'[q] = "nothing" => told[q] = "nothing" /\ attempt'[q] = attempt[q]
             /\ down'[q] # {} => told'[q] = "asking"
             /\ HearsYes(q)' => HearsYes(q) \/ answered' \/ hasty'
  <2>1. told'[q] = told[q] /\ attempt'[q] = attempt[q]
    OBVIOUS
  <2>2. down'[q] # {} => told'[q] = "asking"
    BY <2>1, <1>2 DEF Sent
  <2>3. "yes" \in down'[q] => "yes" \in down[q] \/ what = "yes"
    BY <1>2
  <2>4. HearsYes(q)' => HearsYes(q) \/ what = "yes"
    BY <2>1, <2>3 DEF HearsYes
  <2>5. HearsYes(q)' => HearsYes(q) \/ answered' \/ hasty'
    BY <2>4, Zenon
  <2> QED BY <2>1, <2>2, <2>5
<1>5. Hears
  BY <1>4, Zenon DEF Hears
<1> QED BY <1>3, <1>5

\* A frame taken into custody is there when its phone hears of it.
LEMMA TakeKept ==
  ASSUME MTypeOK, Sent, Placed, Kept, NEW p \in Phones, Take(p)
  PROVE  Hears /\ Kept'
<1>1. PICK e : e = Head(up[p])
  OBVIOUS
<1>2. /\ e = <<p, e[2]>> /\ UNCHANGED <<link, attempt, told>>
      /\ \A f : Cared(f) => Cared(f)'
      /\ UNCHANGED down \/ (Tell(p, e[2], "queued") /\ Cared(e)')
  BY <1>1, TakeMoves
<1>3. UNCHANGED <<answered, hasty>>
  BY DEF Take, work
<1>4. ASSUME NEW q \in Phones
      PROVE  \/ down'[q] = down[q]
             \/ /\ q = p /\ told[p] = "asking" /\ e[2] = attempt[p]
                /\ down'[p] = down[p] \cup {"queued"} /\ Cared(e)'
  BY <1>2, TellIs
<1>5. Hears
  BY <1>2, <1>3, <1>4 DEF Hears, HearsYes, Sent
<1>6. Kept'
  <2> SUFFICES ASSUME NEW q \in Phones, NEW f, HearsQueued(q)', f = <<q, attempt'[q]>>
               PROVE  Cared(f)'
    BY DEF Kept, AnswerOf
  <2>1. CASE HearsQueued(q)
    BY <2>1, <1>2 DEF Kept, AnswerOf
  <2>2. CASE ~HearsQueued(q)
    <3>1. down'[q] # down[q]
      BY <2>2, <1>2 DEF HearsQueued, Queued
    <3>2. q = p /\ e[2] = attempt[p] /\ Cared(e)'
      BY <3>1, <1>4
    <3>3. f = e
      BY <3>2, <1>2
    <3> QED BY <3>2, <3>3
  <2> QED BY <2>1, <2>2
<1> QED BY <1>5, <1>6
-----------------------------------------------------------------------------
(* The invariant. *)

LEMMA StillClaimed ==
  ASSUME MTypeOK, Claimed, UNCHANGED <<answered, claimed, stuck>>, \A h \in Hosts : job[h] \subseteq job'[h]
  PROVE  Claimed'
<1>1. claimed \subseteq Hosts
  BY DEF MTypeOK
<1>2. ASSUME NEW h \in claimed PROVE answered \/ h \in stuck \/ \E j \in job'[h] : j.pc = "deliver"
  BY <1>1, Zenon DEF Claimed
<1> QED BY <1>2, Zenon DEF Claimed

LEMMA OnwardKeeps ==
  ASSUME MInv, MTypeOK', Onward, Hears, NoneQueued, Claimed'
  PROVE  MInv'
<1>1. Placed'
  BY OnwardPlaces DEF MInv
<1>2. Kept'
  BY KeptNext DEF MInv, Onward
<1>3. Sent' /\ Truthful'
  BY HearsNext DEF MInv
<1> QED BY <1>1, <1>2, <1>3 DEF MInv

LEMMA PhonesKeep ==
  ASSUME MInv, MTypeOK', NEW p \in Phones, Opens(p) \/ Answer(p) \/ TimesOut(p) \/ Receive(p) \/ Drop(p)
  PROVE  MInv'
<1>1. MTypeOK /\ Sent /\ Placed /\ Kept /\ Claimed /\ Truthful
  BY DEF MInv
<1>2. Hears /\ NoneQueued
  BY <1>1, PhonesHear
<1>3. UNCHANGED <<agents, out, held, job, settled, answered, claimed, stuck>>
  BY DEF Opens, Answer, TimesOut, Receive, Drop, channel, work, ghosts
<1>4. Claimed'
  BY <1>1, <1>3, StillClaimed
<1>5. CASE UNCHANGED attempt /\ \A q \in Phones : up'[q] \in {up[q], <<>>}
  <2>1. Onward
    BY <1>1, <1>3, <1>5, StillOnward DEF Placed
  <2> QED BY <2>1, <1>2, <1>4, OnwardKeeps
<1>6. CASE attempt[p] < ANSWER_MAX_ATTEMPTS /\ Sends(p)
  <2>1. Placed'
    BY <1>1, <1>3, <1>6, SendsPlaces
  <2>2. \A f : Cared(f) => Cared(f)'
    BY <1>3 DEF Cared, OnItsWay
  <2>3. Kept'
    BY <2>2, <1>1, <1>2, KeptNext
  <2>4. Sent' /\ Truthful'
    BY <1>1, <1>2, HearsNext
  <2> QED BY <2>1, <2>3, <2>4, <1>4 DEF MInv
<1>7. \/ UNCHANGED attempt /\ \A q \in Phones : up'[q] \in {up[q], <<>>}
      \/ attempt[p] < ANSWER_MAX_ATTEMPTS /\ Sends(p)
  <2>1. CASE Opens(p) \/ Receive(p)
    BY <2>1 DEF Opens, Receive
  <2>2. CASE Answer(p)
    <3>1. Sends(p) /\ attempt[p] = 0
      BY <2>2, <1>1 DEF Answer, Sent
    <3> QED BY <3>1, RelayAssumption
  <2>3. CASE TimesOut(p)
    BY <2>3 DEF TimesOut
  <2>4. CASE Drop(p)
    BY <2>4, <1>1 DEF Drop, MTypeOK
  <2> QED BY <2>1, <2>2, <2>3, <2>4
<1> QED BY <1>5, <1>6, <1>7

LEMMA TakeKeeps ==
  ASSUME MInv, MTypeOK', NEW p \in Phones, Take(p)
  PROVE  MInv'
<1>1. MTypeOK /\ Sent /\ Placed /\ Kept /\ Claimed /\ Truthful
  BY DEF MInv
<1>2. Placed'
  BY <1>1, TakePlaces
<1>3. Hears /\ Kept'
  BY <1>1, TakeKept
<1>4. UNCHANGED <<answered, claimed, stuck, job>>
  BY DEF Take, work
<1>5. Claimed'
  BY <1>1, <1>4, StillClaimed
<1> QED BY <1>1, <1>2, <1>3, <1>5, HearsNext DEF MInv

LEMMA ChannelsKeep ==
  ASSUME MInv, MTypeOK', NEW c \in Conns, Pump(c) \/ Stall(c) \/ PingFails(c) \/ Cut(c)
  PROVE  MInv'
<1>1. MTypeOK /\ Sent /\ Placed /\ Kept /\ Claimed /\ Truthful
  BY DEF MInv
<1>2. UNCHANGED <<attempt, told, up, down, held, answered, claimed, stuck, hasty>>
  BY DEF Pump, Stall, PingFails, Cut, Leaves, phone, work
<1>3. Hears /\ NoneQueued
  BY <1>1, <1>2, StillHears
<1>4. \A h \in Hosts : job[h] \subseteq job'[h]
  BY DEF Pump, Stall, PingFails, Cut, Leaves, work
<1>5. Claimed'
  BY <1>1, <1>2, <1>4, StillClaimed
<1>6. Onward
  <2>1. CASE Pump(c)
    BY <2>1, <1>1, PumpOnward DEF Placed
  <2>2. CASE Stall(c) \/ PingFails(c) \/ Cut(c)
    <3>1. Empties(c) /\ (agents' = agents \/ agents' = agents \ {c}) /\ UNCHANGED job
      BY <2>2 DEF Stall, PingFails, Cut, Leaves, work
    <3> QED BY <3>1, <1>1, <1>2, EmptiesOnward DEF Placed
  <2> QED BY <2>1, <2>2
<1> QED BY <1>3, <1>5, <1>6, OnwardKeeps

LEMMA RelayKeeps ==
  ASSUME MInv, MTypeOK', Expire \/ RelayRestarts
  PROVE  MInv'
<1>1. MTypeOK /\ Sent /\ Placed /\ Kept /\ Claimed /\ Truthful
  BY DEF MInv
<1>2. UNCHANGED <<job, answered, claimed, stuck>>
  BY DEF Expire, RelayRestarts, work
<1>3. Claimed'
  BY <1>1, <1>2, StillClaimed
<1>4. CASE Expire
  <2>1. UNCHANGED <<attempt, told, down, answered, hasty>>
    BY <1>4 DEF Expire, phone, work
  <2>2. Hears /\ NoneQueued
    BY <2>1, <1>1, StillHears
  <2> QED BY <2>2, <1>1, <1>3, <1>4, ExpireOnward, OnwardKeeps DEF Placed
<1>5. CASE RelayRestarts
  BY <1>1, <1>3, <1>5, RestartHears, RestartOnward, OnwardKeeps
<1> QED BY <1>4, <1>5

LEMMA HostsKeep ==
  ASSUME MInv, MTypeOK', NEW h \in Hosts,
         ClaimRole(h) \/ Join(h) \/ Disconnect(h) \/ Quits(h) \/ Starts(h) \/ Dies(h) \/ Forget(h)
  PROVE  MInv'
<1>1. MTypeOK /\ Sent /\ Placed /\ Kept /\ Claimed /\ Truthful
  BY DEF MInv
<1>2. UNCHANGED <<attempt, told, up, down, answered, hasty>>
  BY DEF ClaimRole, Join, Disconnect, Quits, Starts, Dies, Forget, Goes, phone, work, ghosts
<1>3. Hears /\ NoneQueued
  BY <1>1, <1>2, StillHears
<1>4. claimed \subseteq Hosts /\ job \in [Hosts -> SUBSET Jobs]
  BY <1>1 DEF MTypeOK
<1>5. Claimed'
  <2>1. CASE ClaimRole(h) \/ Join(h) \/ Disconnect(h) \/ Quits(h) \/ Starts(h)
    <3>1. UNCHANGED <<job, claimed, stuck>>
      BY <2>1 DEF ClaimRole, Join, Disconnect, Quits, Starts, work
    <3> QED BY <3>1, <1>1, <1>2, StillClaimed
  <2>2. CASE Dies(h) \/ Forget(h)
    <3>1. /\ claimed' = claimed \ {h} /\ stuck' = stuck \ {h}
          /\ \A g \in Hosts \ {h} : job'[g] = job[g]
      BY <2>2, <1>4 DEF Dies, Forget, Unclaim
    <3>2. \A g \in claimed' : g \in claimed /\ job'[g] = job[g] /\ (g \in stuck => g \in stuck')
      BY <3>1, <1>4
    <3> QED BY <3>2, <1>1, <1>2, Zenon DEF Claimed
  <2> QED BY <2>1, <2>2
<1>6. Onward
  <2>1. CASE ClaimRole(h) \/ Disconnect(h) \/ Quits(h) \/ Starts(h) \/ Forget(h)
    <3>1. UNCHANGED <<agents, out, held, job, settled>>
      BY <2>1 DEF ClaimRole, Disconnect, Quits, Starts, Forget, Goes, channel, work, ghosts
    <3> QED BY <3>1, <1>1, <1>2, StillOnward DEF Placed
  <2>2. CASE Join(h)
    BY <2>2, <1>1, JoinOnward
  <2>3. CASE Dies(h)
    BY <2>3, <1>1, DiesOnward DEF Placed
  <2> QED BY <2>1, <2>2, <2>3
<1> QED BY <1>3, <1>5, <1>6, OnwardKeeps

LEMMA ClaimKeeps ==
  ASSUME MInv, MTypeOK', NEW h \in Hosts, Claim(h)
  PROVE  MInv'
<1>1. MTypeOK /\ Sent /\ Placed /\ Kept /\ Claimed /\ Truthful /\ WorkTypes
  BY TypesAre DEF MInv
<1>2. claimed \subseteq Hosts /\ job \in [Hosts -> SUBSET Jobs]
  BY <1>1 DEF MTypeOK
<1>3. Onward
  BY <1>1, HandlerOnward DEF Placed
<1>4. UNCHANGED <<attempt, told, answered, stuck>>
  BY DEF Claim
<1>5. PICK j \in job[h] :
        /\ j.pc = "claim"
        /\ IF h \in claimed
           THEN /\ job' = [job EXCEPT ![h] = @ \ {j}] /\ Reply(h, j, "yes")
                /\ hasty' = (hasty \/ (~answered /\ (h \in stuck \/ \E k \in job[h] : k.pc = "deliver")))
                /\ UNCHANGED claimed
           ELSE /\ job' = [job EXCEPT ![h] = (@ \ {j}) \cup {[j EXCEPT !.pc = "deliver"]}]
                /\ claimed' = claimed \cup {h}
                /\ UNCHANGED <<down, settled, hasty>>
  BY DEF Claim
<1>6. \A g \in Hosts \ {h} : job'[g] = job[g]
  BY <1>2, <1>5
<1>7. CASE h \in claimed
  <2>1. /\ job'[h] = job[h] \ {j} /\ Reply(h, j, "yes") /\ claimed' = claimed
    BY <1>2, <1>5, <1>7
  <2>2. hasty' = (hasty \/ (~answered /\ (h \in stuck \/ \E k \in job[h] : k.pc = "deliver")))
    BY <1>5, <1>7
  <2>3. answered \/ h \in stuck \/ \E k \in job[h] : k.pc = "deliver"
    BY <1>1, <1>7, Zenon DEF Claimed
  <2>4. (hasty => hasty') /\ (answered => answered') /\ (answered' \/ hasty')
    BY <2>2, <2>3, <1>4, Zenon
  <2>5. Hears /\ NoneQueued
    BY <2>1, <2>4, <1>1, <1>4, ReplyHears
  <2>6. Claimed'
    <3>1. \A k \in job[h] : k.pc = "deliver" => k \in job'[h]
      BY <2>1, <1>5
    <3>2. ASSUME NEW g \in claimed PROVE answered \/ g \in stuck \/ \E k \in job'[g] : k.pc = "deliver"
      <4>1. g \in Hosts /\ (answered \/ g \in stuck \/ \E k \in job[g] : k.pc = "deliver")
        BY <1>1, <1>2, Zenon DEF Claimed
      <4>2. \A k \in job[g] : k.pc = "deliver" => k \in job'[g]
        BY <4>1, <3>1, <1>6
      <4> QED BY <4>1, <4>2, Zenon
    <3> QED BY <3>2, <2>1, <1>4, Zenon DEF Claimed
  <2> QED BY <2>5, <2>6, <1>3, OnwardKeeps
<1>8. CASE h \notin claimed
  <2>1. /\ job' = [job EXCEPT ![h] = (@ \ {j}) \cup {[j EXCEPT !.pc = "deliver"]}]
        /\ claimed' = claimed \cup {h} /\ UNCHANGED <<down, hasty>>
    BY <1>5, <1>8
  <2>2. Hears /\ NoneQueued
    BY <2>1, <1>1, <1>4, StillHears
  <2>3. [j EXCEPT !.pc = "deliver"].pc = "deliver" /\ [j EXCEPT !.pc = "deliver"] \in job'[h]
    BY <2>1, <1>1, <1>2, InJobs
  <2>4. \E k \in job'[h] : k.pc = "deliver"
    BY <2>3
  <2>5. Claimed'
    <3>1. ASSUME NEW g \in claimed' PROVE answered \/ g \in stuck \/ \E k \in job'[g] : k.pc = "deliver"
      <4>1. CASE g = h
        BY <4>1, <2>4
      <4>2. CASE g # h
        <5>1. g \in claimed /\ job'[g] = job[g]
          BY <4>2, <2>1, <1>2, <1>6
        <5> QED BY <5>1, <1>1, Zenon DEF Claimed
      <4> QED BY <4>1, <4>2
    <3> QED BY <3>1, <1>4, Zenon DEF Claimed
  <2> QED BY <2>2, <2>5, <1>3, OnwardKeeps
<1> QED BY <1>7, <1>8

LEMMA DeliverKeeps ==
  ASSUME MInv, MTypeOK', NEW h \in Hosts, Deliver(h)
  PROVE  MInv'
<1>1. MTypeOK /\ Sent /\ Placed /\ Kept /\ Claimed /\ Truthful
  BY DEF MInv
<1>2. claimed \subseteq Hosts /\ job \in [Hosts -> SUBSET Jobs]
  BY <1>1 DEF MTypeOK
<1>3. Onward
  BY <1>1, HandlerOnward DEF Placed
<1>4. UNCHANGED <<attempt, told, hasty>>
  BY DEF Deliver
<1>5. PICK j \in job[h] :
        /\ job' = [job EXCEPT ![h] = @ \ {j}]
        /\ \/ Reply(h, j, "yes") /\ answered' = TRUE /\ UNCHANGED <<claimed, stuck, faults>>
           \/ Reply(h, j, "no") /\ Unclaim(h) /\ UNCHANGED <<answered, faults>>
           \/ Panics(h, j)
  BY Outcome
<1>6. ASSUME Reply(h, j, "yes"), answered' = TRUE PROVE MInv'
  <2>1. Hears /\ NoneQueued
    BY <1>6, <1>1, <1>4, ReplyHears
  <2>2. Claimed'
    BY <1>6, Zenon DEF Claimed
  <2> QED BY <2>1, <2>2, <1>3, OnwardKeeps
<1>7. ASSUME Reply(h, j, "no"), answered => answered', Claimed' PROVE MInv'
  <2>1. Hears /\ NoneQueued
    BY <1>7, <1>1, <1>4, ReplyHears
  <2> QED BY <2>1, <1>7, <1>3, OnwardKeeps
<1>8. ASSUME Unclaim(h), UNCHANGED answered PROVE Claimed'
  <2>1. \A g \in claimed' : g \in claimed /\ job'[g] = job[g] /\ (g \in stuck => g \in stuck')
    BY <1>2, <1>5, <1>8 DEF Unclaim
  <2> QED BY <2>1, <1>1, <1>8, Zenon DEF Claimed
<1>9. ASSUME Panics(h, j) PROVE Claimed'
  <2>1. answered => answered'
    BY <1>9, Zenon DEF Panics
  <2>2. CASE answered'
    BY <2>2, Zenon DEF Claimed
  <2>3. CASE ~answered'
    <3>1. claimed' = claimed /\ stuck' = stuck \cup {h}
      BY <1>9, <2>3 DEF Panics
    <3>2. \A g \in claimed' : g \in claimed /\ (g \in stuck => g \in stuck') /\ (g # h => job'[g] = job[g])
      BY <3>1, <1>2, <1>5
    <3>3. h \in stuck' /\ ~answered
      BY <3>1, <2>1, <2>3
    <3> QED BY <3>2, <3>3, <1>1, Zenon DEF Claimed
  <2> QED BY <2>2, <2>3
<1> QED
  <2>1. CASE Reply(h, j, "yes") /\ answered' = TRUE
    BY <2>1, <1>6
  <2>2. CASE Reply(h, j, "no") /\ Unclaim(h) /\ UNCHANGED answered
    BY <2>2, <1>7, <1>8
  <2>3. CASE Panics(h, j)
    <3>1. Reply(h, j, "no")
      BY <2>3 DEF Panics
    <3>2. answered => answered'
      BY <2>3, Zenon DEF Panics
    <3> QED BY <3>1, <3>2, <2>3, <1>7, <1>9
  <2> QED BY <2>1, <2>2, <2>3, <1>5

LEMMA MInvInit == Init => MInv
<1> SUFFICES ASSUME Init PROVE MInv
  OBVIOUS
<1>1. MTypeOK
  BY InitTypes
<1>2. /\ attempt = [p \in Phones |-> 0] /\ told = [p \in Phones |-> "nothing"]
      /\ up = [p \in Phones |-> <<>>] /\ down = [p \in Phones |-> {}]
      /\ out = [c \in Conns |-> <<>>] /\ held = <<>> /\ job = [h \in Hosts |-> {}]
      /\ claimed = {} /\ settled = {}
  BY DEF Init
<1>3. ToSet(<<>>) = {} /\ Once(<<>>)
  BY EmptySet
<1>4. \A f : f \notin ToSet(held) /\ ~Given(f)
  BY <1>2, <1>3 DEF Given, Outgoing, Working
<1>5. Placed
  BY <1>2, <1>3, <1>4 DEF Placed, Numbered, UpOnce, HeldOnce
<1>6. Sent /\ Kept /\ Claimed /\ Truthful
  BY <1>2 DEF Sent, Kept, HearsQueued, Queued, Claimed, Truthful, HearsYes
<1> QED BY <1>1, <1>5, <1>6 DEF MInv

LEMMA MInvNext == MInv /\ [Next]_vars => MInv'
<1> SUFFICES ASSUME MInv, [Next]_vars PROVE MInv'
  OBVIOUS
<1>1. MTypeOK'
  BY NextTypes DEF MInv
<1>2. CASE UNCHANGED vars
  <2>1. MTypeOK /\ Sent /\ Placed /\ Claimed
    BY DEF MInv
  <2>2. UNCHANGED <<attempt, told, up, down, agents, out, held, job, claimed, stuck, answered, settled, hasty>>
    BY <1>2 DEF vars, phone, channel, work, ghosts
  <2>3. Hears /\ NoneQueued
    BY <2>1, <2>2, StillHears
  <2>4. Onward
    BY <2>1, <2>2, StillOnward DEF Placed
  <2>5. Claimed'
    BY <2>1, <2>2, StillClaimed
  <2> QED BY <2>3, <2>4, <2>5, <1>1, OnwardKeeps
<1>3. CASE Next
  BY <1>1, <1>3, PhonesKeep, TakeKeeps, ChannelsKeep, RelayKeeps, HostsKeep, ClaimKeeps, DeliverKeeps
     DEF Next, Handle
<1> QED BY <1>2, <1>3

LEMMA MInvariant == Spec => []MInv
BY MInvInit, MInvNext, PTL DEF Spec
-----------------------------------------------------------------------------
\* The state is what its types say in every step of phones, relay and hosts: no queue
\* before a pump and no custody grows past its cap, a host reads from a connection
\* exactly while it is in the channel, and every frame on its way bears the name of its
\* phone and the number of an attempt that was made.
THEOREM RelayTypes == Spec => []MTypeOK
<1>1. MInv => MTypeOK
  BY DEF MInv
<1> QED BY <1>1, MInvariant, PTL

\* Custody (deliver_or_queue, join, Channel.is_empty): an answer its user was told is in
\* custody is held, on its way or with a handler, unless it was handled or dropped; and
\* what is held was handed to nobody, and is held once.
THEOREM CustodyHolds == Spec => []Custody
<1>1. ASSUME MInv PROVE Custody
  <2>1. MTypeOK /\ Placed /\ Kept
    BY <1>1 DEF MInv
  <2>2. ASSUME NEW p \in Phones, Queued(p) PROVE OnItsWay(AnswerOf(p)) \/ AnswerOf(p) \in settled
    BY <2>1, <2>2 DEF Kept, HearsQueued, Cared
  <2>3. ASSUME NEW f \in ToSet(held) PROVE NotYetGiven(f)
    <3>1. ~Given(f) /\ Once(held) /\ held \in Seq(Frames)
      BY <2>1, HeldFrames DEF Placed, HeldOnce
    <3>2. Cardinality({i \in DOMAIN held : held[i] = f}) = 1
      BY <3>1, OneOf
    <3> QED BY <3>1, <3>2 DEF NotYetGiven, Given, Outgoing, Working
  <2> QED BY <2>2, <2>3 DEF Custody
<1> QED BY <1>1, MInvariant, PTL

\* SuccessIsTrue (answerViaReq): a phone whose user was told that the answer was applied
\* was told so of a card that took it, or by a host that took a claim for an answer while
\* its delivery was under way or after it had panicked; no other failure leaves a claim.
THEOREM SuccessHolds == Spec => []SuccessIsTrue
<1>1. ASSUME MInv PROVE SuccessIsTrue
  <2>1. Truthful
    BY <1>1 DEF MInv
  <2> QED BY <2>1, Zenon DEF Truthful, HearsYes, SuccessIsTrue
<1> QED BY <1>1, MInvariant, PTL
=============================================================================
