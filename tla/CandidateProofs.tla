-------------------------- MODULE CandidateProofs --------------------------
(***************************************************************************)
(* Theorems about Candidate, for any number of users, maintainLock()       *)
(* goroutines, sessions and waiting updates, however the calls race.       *)
(***************************************************************************)
EXTENDS Candidate, ConsulSessionProofs, FiniteSetTheorems, SequenceTheorems

(***************************************************************************)
(* What the calls to Consul and to the session leave behind.               *)
(***************************************************************************)
\* KV().Acquire: whoever won locks the key with the session it named.
LEMMA AcquireFacts ==
  ASSUME NEW s, NEW h \in Holders, NEW d, NEW up \in SUBSET Sessions,
         NEW a \in AcquireOutcomes(s, h, d, up)
  PROVE  a.holder \in Holders /\ a.won \in BOOLEAN /\ (a.won => a.holder \in Sessions)
BY DEF AcquireOutcomes, Answers, Holders

\* KV().Delete: the key is as it was, or nobody's.
LEMMA DeleteFacts ==
  ASSUME NEW h \in Holders, NEW d \in DeleteOutcomes(h)
  PROVE  d.holder \in {h, Nobody} /\ d.holder \in Holders
BY DEF DeleteOutcomes, Answers, Holders

\* The updates that find room in the buffer are updates, and there is room for them.
LEMMA PushFacts ==
  ASSUME TypeOK, NEW notes \in Seq(Updates), Push(notes)
  PROVE  queue' \in Seq(Updates) /\ Len(queue') <= MaxQueue
<1> DEFINE q == queue \o notes
           n == IF Len(q) < MaxQueue THEN Len(q) ELSE MaxQueue
<1>1. q \in Seq(Updates) /\ Len(q) \in Nat
  BY ConcatProperties, LenProperties DEF TypeOK
<1>2. n \in 0..Len(q) /\ n <= MaxQueue
  BY <1>1, CandidateAssumption
<1>3. \A i \in 1..n : q[i] \in Updates
  BY <1>1, <1>2, ElementOfSeq
<1>4. queue' = SubSeq(q, 1, n)
  BY DEF Push
<1> HIDE DEF q, n
<1>5. SubSeq(q, 1, n) \in Seq(Updates) /\ Len(SubSeq(q, 1, n)) = n
  BY <1>1, <1>2, <1>3, SubSeqProperties
<1> QED
  BY <1>2, <1>4, <1>5

\* Every outcome that c.ms can have, with the results it tells.
OwnOutcome == [id : Sessions \cup {NoSession}, up : SUBSET Sessions, oks : Seq(BOOLEAN)]

LEMMA TellingFacts ==
  ASSUME NEW x, x.id \in Sessions \cup {NoSession}, x.up \in SUBSET Sessions,
         NEW ok \in BOOLEAN, NEW done \in BOOLEAN
  PROVE  Own!Telling(x, <<ok>>) \in OwnOutcome /\ Own!Telling(x, <<ok, done>>) \in OwnOutcome
<1>1. <<ok>> \in Seq(BOOLEAN) /\ <<ok, done>> \in Seq(BOOLEAN)
  OBVIOUS
<1>2. ASSUME NEW oks \in Seq(BOOLEAN)
      PROVE  Own!Telling(x, oks) \in OwnOutcome
  BY DEF Own!Telling, OwnOutcome
<1> QED
  BY <1>1, <1>2

LEMMA EndedFacts ==
  ASSUME NEW s \in Sessions \cup {NoSession}, NEW us \in SUBSET Sessions,
         NEW oks \in Seq(BOOLEAN)
  PROVE  Own!Ended(s, us, oks) \subseteq OwnOutcome
<1>1. CASE s = NoSession
  BY <1>1 DEF Own!Ended, OwnOutcome
<1>2. CASE s # NoSession
  <2>1. Own!Ended(s, us, oks) =
          {Own!Telling(o, Append(oks, o.ok)) : o \in DestroyOutcomes(s, us)}
    BY <1>2 DEF Own!Ended, Own!DestroyOutcomes, DestroyOutcomes, Own!Outcome, Outcome
  <2>2. ASSUME NEW o \in DestroyOutcomes(s, us)
        PROVE  Own!Telling(o, Append(oks, o.ok)) \in OwnOutcome
    <3>1. o.id \in Sessions \cup {NoSession} /\ o.up \in SUBSET Sessions /\ o.ok \in BOOLEAN
      BY DestroyFacts
    <3>2. Append(oks, o.ok) \in Seq(BOOLEAN)
      BY <3>1, AppendProperties
    <3> QED
      BY <3>1, <3>2 DEF Own!Telling, OwnOutcome
  <2> QED
    BY <2>1, <2>2
<1> QED
  BY <1>1, <1>2

LEMMA OwnFacts ==
  ASSUME NEW s \in Sessions \cup {NoSession}, NEW up \in SUBSET Sessions
  PROVE  Own!Started(s, up) \cup Own!Stopped(s, up) \cup Own!Ticked(s, up) \subseteq OwnOutcome
<1>1. /\ \A v : Own!CreateOutcomes(s, v) = CreateOutcomes(s, v)
      /\ Own!RenewOutcomes(s, up) = RenewOutcomes(s, up)
      /\ Own!DestroyOutcomes(s, up) = DestroyOutcomes(s, up)
  BY DEF Own!CreateOutcomes, CreateOutcomes, Own!RenewOutcomes, RenewOutcomes,
         Own!DestroyOutcomes, DestroyOutcomes, Own!Outcome, Outcome
<1>2. ASSUME NEW v \in SUBSET Sessions, NEW x \in Own!CreateOutcomes(s, v),
             NEW ok \in BOOLEAN
      PROVE  /\ Own!Telling(x, <<x.ok>>) \in OwnOutcome
             /\ Own!Telling(x, <<ok, x.ok>>) \in OwnOutcome
  <2>1. x.id \in Sessions \cup {NoSession} /\ x.up \in SUBSET Sessions /\ x.ok \in BOOLEAN
    BY <1>1, CreateFacts
  <2> QED
    BY <2>1, TellingFacts
<1>3. ASSUME NEW r \in Own!RenewOutcomes(s, up) \cup Own!DestroyOutcomes(s, up)
      PROVE  /\ r.ok \in BOOLEAN /\ r.up \in SUBSET Sessions
             /\ Own!Telling(r, <<r.ok>>) \in OwnOutcome
             /\ Own!Telling(r, <<TRUE, r.ok>>) \in OwnOutcome
  <2>1. r.id \in Sessions \cup {NoSession} /\ r.up \in SUBSET Sessions /\ r.ok \in BOOLEAN
    BY <1>1, RenewFacts, DestroyFacts
  <2> QED
    BY <2>1, TellingFacts
<1>4. Own!Started(s, up) \subseteq OwnOutcome
  BY <1>2 DEF Own!Started
<1>5. Own!Ticked(s, up) \subseteq OwnOutcome
  <2> DEFINE lost == {r \in Own!RenewOutcomes(s, up) \cup Own!DestroyOutcomes(s, up) :
                        r.id = NoSession}
             Again(r) == {Own!Telling(o, <<r.ok, o.ok>>) : o \in Own!CreateOutcomes(s, r.up)}
  <2>1. CASE s = NoSession
    BY <1>2, <2>1 DEF Own!Ticked
  <2>2. CASE s # NoSession
    <3>1. {Own!Telling(r, <<r.ok>>) : r \in {r \in Own!RenewOutcomes(s, up) : r.id # NoSession}}
            \subseteq OwnOutcome
      BY <1>3
    <3>2. ASSUME NEW r \in lost PROVE Again(r) \subseteq OwnOutcome
      BY <1>2, <1>3
    <3>3. UNION {Again(r) : r \in lost} \subseteq OwnOutcome
      BY <3>2
    <3> QED
      BY <2>2, <3>1, <3>3 DEF Own!Ticked
  <2> QED
    BY <2>1, <2>2
<1>6. Own!Stopped(s, up) \subseteq OwnOutcome
  <2>1. <<TRUE>> \in Seq(BOOLEAN)
    OBVIOUS
  <2>2. Own!Ended(s, up, <<TRUE>>) \subseteq OwnOutcome
    BY <2>1, EndedFacts
  <2>3. ASSUME NEW t \in Own!Ticked(s, up)
        PROVE  Own!Ended(t.id, t.up, <<TRUE>> \o t.oks) \subseteq OwnOutcome
    <3>1. /\ t.id \in Sessions \cup {NoSession} /\ t.up \in SUBSET Sessions
          /\ t.oks \in Seq(BOOLEAN)
      BY <1>5 DEF OwnOutcome
    <3>2. <<TRUE>> \o t.oks \in Seq(BOOLEAN)
      BY <2>1, <3>1, ConcatProperties
    <3> QED
      BY <3>1, <3>2, EndedFacts
  <2> QED
    BY <2>2, <2>3 DEF Own!Stopped
<1> QED
  BY <1>4, <1>5, <1>6

LEMMA NotesFacts ==
  ASSUME NEW stopped \in BOOLEAN, NEW oks \in Seq(BOOLEAN)
  PROVE  Notes(stopped, oks) \in Seq(Updates)
<1>1. \A i \in 1..Len(oks) : [stopped |-> stopped, err |-> ~oks[i]] \in Updates
  BY DEF Updates
<1>2. DOMAIN oks = 1..Len(oks) /\ Len(oks) \in Nat
  BY LenProperties
<1>3. Notes(stopped, oks) = [i \in 1..Len(oks) |-> [stopped |-> stopped, err |-> ~oks[i]]]
  BY <1>2 DEF Notes
<1> QED
  BY <1>1, <1>2, <1>3, IsASeq

SessionOK ==
  /\ running \in BOOLEAN /\ sid \in Sessions \cup {NoSession}
  /\ queue \in Seq(Updates) /\ Len(queue) <= MaxQueue
  /\ upstream \in SUBSET Sessions /\ holder \in Holders /\ delay \in BOOLEAN

LEMMA UpstreamFacts ==
  ASSUME TypeOK, NEW up \in SUBSET Sessions, NEW h \in Holders, Upstream(up, h)
  PROVE  upstream' \in SUBSET Sessions /\ holder' \in Holders /\ delay' \in BOOLEAN
BY DEF Upstream, Released, Delayed, TypeOK, Holders

LEMMA BecomesFacts ==
  ASSUME TypeOK, NEW outcomes, NEW stopped \in BOOLEAN, NEW h \in Holders,
         outcomes \subseteq Own!Started(sid, upstream) \cup Own!Stopped(sid, upstream)
                              \cup Own!Ticked(sid, upstream),
         Becomes(outcomes, stopped, h), running' \in BOOLEAN
  PROVE  SessionOK'
<1> PICK o \in outcomes : sid' = o.id /\ Upstream(o.up, h) /\ Push(Notes(stopped, o.oks))
  BY DEF Becomes
<1>1. /\ o.id \in Sessions \cup {NoSession} /\ o.up \in SUBSET Sessions
      /\ o.oks \in Seq(BOOLEAN)
  BY OwnFacts DEF TypeOK, OwnOutcome
<1>2. queue' \in Seq(Updates) /\ Len(queue') <= MaxQueue
  BY <1>1, NotesFacts, PushFacts
<1> QED
  BY <1>1, <1>2, UpstreamFacts DEF SessionOK

LEMMA SessionRunFacts ==
  ASSUME TypeOK, SessionRun
  PROVE  SessionOK' /\ running'
<1>1. CASE running
  BY <1>1 DEF SessionRun, SessionOK, TypeOK, lock
<1>2. CASE ~running
  BY <1>2, BecomesFacts DEF SessionRun, TypeOK
<1> QED
  BY <1>1, <1>2 DEF TypeOK

LEMMA SessionStopFacts ==
  ASSUME TypeOK, NEW h \in Holders, SessionStop(h)
  PROVE  SessionOK' /\ ~running'
<1>1. CASE ~running
  BY <1>1, UpstreamFacts DEF SessionStop, SessionOK, TypeOK
<1>2. CASE running
  BY <1>2, BecomesFacts DEF SessionStop
<1> QED
  BY <1>1, <1>2 DEF TypeOK

LEMMA SessionTickFacts ==
  ASSUME TypeOK, SessionTick
  PROVE  SessionOK'
BY BecomesFacts DEF SessionTick, TypeOK
-----------------------------------------------------------------------------
(***************************************************************************)
(* Types, and who is in the critical section of c.mu.                      *)
(***************************************************************************)
\* Run() holds c.mu until it returns, a maintainLock() goroutine while its tick
\* refreshes the lock, and the handler after it is done with its update.
Sections ==
  /\ cs.at = "free" => cs = Free
  /\ cs.at # "free" => cs.by # Nil
  /\ cs.at = "acquire" => cs.sid \in Sessions
  /\ cs.by \in Users => pc[cs.by] = "run"
  /\ \A u \in Users : pc[u] = "run" => cs.by = u
  /\ cs.by \in Loops => loop[cs.by] = "select"
  /\ cs.by = Handler => update = Nil

Types == TypeOK /\ Sections

\* What a step leaves alone keeps its type.
FieldsOK == state \in States /\ elected \in BOOLEAN /\ told \in BOOLEAN /\ errs \in 0..3
ChannelsOK == /\ slot \in Users \cup {Nil} /\ closed \in BOOLEAN
              /\ reply \in SUBSET Users /\ drop \in [Loops -> Users \cup {Nil}]
PlacesOK == /\ cs \in Section /\ pc \in [Users -> UserPCs] /\ loop \in [Loops -> LoopPCs]
            /\ panicked \in BOOLEAN /\ update \in Updates \cup {Nil}

LEMMA TypesSplit == TypeOK <=> FieldsOK /\ ChannelsOK /\ PlacesOK /\ SessionOK
BY DEF TypeOK, FieldsOK, ChannelsOK, PlacesOK, SessionOK

LEMMA Kept ==
  ASSUME TypeOK
  PROVE  /\ UNCHANGED <<state, leader, errs>> => FieldsOK'
         /\ UNCHANGED channels => ChannelsOK'
         /\ UNCHANGED <<cs, pc, loop, panicked, update>> => PlacesOK'
         /\ UNCHANGED <<session, lock>> => SessionOK'
BY DEF TypeOK, FieldsOK, ChannelsOK, PlacesOK, SessionOK, leader, channels, session, lock

LEMMA SectionFacts ==
  ASSUME NEW g \in Users \cup Loops \cup {Handler}
  PROVE  /\ Free \in Section
         /\ [Free EXCEPT !.by = g, !.at = "look"] \in Section
         /\ [Free EXCEPT !.by = g, !.at = "look"].by = g
         /\ [Free EXCEPT !.by = g, !.at = "look"].at = "look"
BY DEF Free, Section

LEMMA ElectFacts ==
  ASSUME TypeOK, NEW e \in BOOLEAN, Elect(e)
  PROVE  elected' = e /\ told' \in BOOLEAN
BY DEF Elect, TypeOK

\* The end of a critical section of refreshLock().
LEMMA LeaveFacts ==
  ASSUME TypeOK, Sections, cs.at # "free", Leave, UNCHANGED <<loop, update>>
  PROVE  /\ cs' = Free /\ pc' \in [Users -> UserPCs] /\ Sections'
         /\ pc' = [u \in Users |-> IF u = cs.by THEN "idle" ELSE pc[u]]
<1>1. pc' = [u \in Users |-> IF u = cs.by THEN "idle" ELSE pc[u]]
  BY DEF Leave, Goto, TypeOK
<1>2. \A u \in Users : pc'[u] # "run"
  BY <1>1 DEF Sections
<1>3. Sections'
  BY <1>2, CandidateAssumption DEF Leave, Sections, Free
<1> QED
  BY <1>1, <1>3 DEF Leave, TypeOK, UserPCs

\* Who enters is alone in there.
LEMMA EnterFacts ==
  ASSUME TypeOK, Sections, cs = Free, NEW g \in Users \cup Loops \cup {Handler}, Enter(g),
         pc' = IF g \in Users THEN [pc EXCEPT ![g] = "run"] ELSE pc,
         \A l \in Loops : l = g => loop'[l] = "select",
         g = Handler => update' = Nil
  PROVE  cs' \in Section /\ pc' \in [Users -> UserPCs] /\ Sections'
<1>1. cs'.by = g /\ cs'.at = "look" /\ cs' \in Section
  BY SectionFacts DEF Enter
<1>2. \A u \in Users : pc[u] # "run"
  BY CandidateAssumption DEF Sections, Free
<1>3. pc' \in [Users -> UserPCs] /\ \A u \in Users : pc'[u] = "run" <=> u = g
  BY <1>2 DEF TypeOK, UserPCs
<1>4. Sections'
  BY <1>1, <1>3, CandidateAssumption DEF Sections
<1> QED
  BY <1>1, <1>3, <1>4

LEMMA TypesStep == Types /\ [Next]_vars => Types'
<1> SUFFICES ASSUME TypeOK, Sections, [Next]_vars
             PROVE  TypeOK' /\ Sections'
  BY DEF Types
<1> USE DEF leader, channels, session, lock
<1> DEFINE PCsOK == pc' \in [Users -> UserPCs]
<1>1. ASSUME FieldsOK', ChannelsOK', PlacesOK', SessionOK'
      PROVE  TypeOK'
  BY <1>1, TypesSplit DEF TypeOK, FieldsOK, ChannelsOK, PlacesOK, SessionOK
<1>2. ASSUME UNCHANGED <<cs, loop, update>>, NEW u \in Users, pc[u] # "run",
             NEW p \in UserPCs \ {"run"}, Goto(u, p)
      PROVE  PCsOK /\ Sections'
  BY <1>2, CandidateAssumption DEF Goto, TypeOK, Sections, Free
<1>3. ASSUME UNCHANGED <<cs, loop, update, pc>>
      PROVE  PCsOK /\ Sections'
  BY <1>3 DEF TypeOK, Sections
<1>4. CASE Look
  <2>1. FieldsOK'
    BY <1>4, Kept, ElectFacts DEF Look, FieldsOK, TypeOK
  <2>2. SessionOK'
    BY <1>4, Kept, SessionRunFacts DEF Look
  <2>3. cs' \in Section /\ PCsOK /\ Sections'
    <3>1. CASE UNCHANGED pc /\ sid # NoSession /\ cs' = [cs EXCEPT !.at = "acquire", !.sid = sid]
      <4>1. cs' = [by |-> cs.by, at |-> "acquire", sid |-> sid, won |-> cs.won] /\ cs.at = "look"
        BY <1>4, <3>1 DEF Look, TypeOK, Section
      <4>2. cs' \in Section
        BY <4>1 DEF TypeOK, Section
      <4> QED
        BY <1>4, <3>1, <4>1, <4>2, CandidateAssumption DEF Look, TypeOK, Sections, Free
    <3>2. CASE Leave
      BY <1>4, <3>2, LeaveFacts, SectionFacts DEF Look, Free, Section
    <3> QED
      BY <1>4, <3>1, <3>2 DEF Look
  <2> QED
    BY <1>1, <1>4, <2>1, <2>2, <2>3, Kept DEF Look, PlacesOK, TypeOK
<1>5. CASE Acquire
  <2> PICK a \in AcquireOutcomes(cs.sid, holder, delay, upstream) :
        holder' = a.holder /\ cs' = [cs EXCEPT !.at = "assign", !.won = a.won]
    BY <1>5 DEF Acquire
  <2>1. a.holder \in Holders /\ a.won \in BOOLEAN
    BY AcquireFacts DEF TypeOK
  <2>2. SessionOK'
    BY <1>5, <2>1 DEF Acquire, SessionOK, TypeOK
  <2>3. cs' = [by |-> cs.by, at |-> "assign", sid |-> cs.sid, won |-> a.won]
        /\ cs.at = "acquire" /\ cs' \in Section
    BY <1>5, <2>1 DEF Acquire, TypeOK, Section
  <2>4. Sections'
    BY <1>5, <2>3, CandidateAssumption DEF Acquire, Sections, Free
  <2> QED
    BY <1>1, <1>5, <2>2, <2>3, <2>4, Kept DEF Acquire, PlacesOK, TypeOK
<1>17. CASE Assign
  <2>1. FieldsOK'
    <3>1. cs.won \in BOOLEAN
      BY DEF TypeOK, Section
    <3> QED
      BY <1>17, <3>1, ElectFacts DEF Assign, FieldsOK, TypeOK
  <2>2. cs' \in Section /\ PCsOK /\ Sections'
    BY <1>17, LeaveFacts, SectionFacts DEF Assign, Free, Section
  <2> QED
    BY <1>1, <1>17, <2>1, <2>2, Kept DEF Assign, PlacesOK, TypeOK
<1>6. CASE \E u \in Users : Run(u)
  <2> PICK u \in Users : Run(u)
    BY <1>6
  <2>1. CASE UNCHANGED <<state, told, cs, pc, loop, session, lock>>
    BY <1>1, <1>3, <2>1, Kept DEF Run, PlacesOK, TypeOK
  <2>2. CASE /\ state' = "running" /\ told' = elected /\ SessionRun
             /\ \E l \in Loops : loop[l] = "none" /\ loop' = [loop EXCEPT ![l] = "select"]
             /\ Enter(u) /\ Goto(u, "run")
    <3>1. FieldsOK' /\ SessionOK'
      BY <2>2, SessionRunFacts DEF Run, FieldsOK, States, TypeOK
    <3>2. \A l \in Loops : l # u
      BY CandidateAssumption
    <3>3. cs' \in Section /\ PCsOK /\ Sections'
      BY <2>2, <3>2, EnterFacts, CandidateAssumption DEF Run, Unlocked, Goto
    <3>4. loop' \in [Loops -> LoopPCs]
      BY <2>2 DEF LoopPCs, TypeOK
    <3> QED
      BY <1>1, <3>1, <3>3, <3>4, Kept DEF Run, PlacesOK, TypeOK
  <2> QED
    BY <2>1, <2>2 DEF Run
<1>7. CASE \E u \in Users : Resign(u) \/ Shutdown(u)
  <2> PICK u \in Users : Resign(u) \/ Shutdown(u)
    BY <1>7
  <2>1. FieldsOK'
    BY DEF Resign, Shutdown, FieldsOK, States, TypeOK
  <2>2. UNCHANGED <<cs, loop, update>> /\ pc[u] = "idle"
        /\ (UNCHANGED pc \/ \E p \in {"resign.send", "shutdown.send", "shutdown.close"} : Goto(u, p))
    BY DEF Resign, Shutdown
  <2>3. PCsOK /\ Sections'
    BY <1>2, <1>3, <2>2 DEF UserPCs
  <2> QED
    BY <1>1, <2>1, <2>2, <2>3, Kept DEF Resign, Shutdown, PlacesOK, TypeOK
<1>8. CASE \E u \in Users : Continue(u)
  <2> PICK u \in Users : Continue(u)
    BY <1>8
  <2>1. UNCHANGED <<state, leader, errs, cs, loop, update, session, lock>>
    BY DEF Continue, Send, Await, Close
  <2>2. UNCHANGED pc \/ (pc[u] # "run" /\ \E p \in UserPCs \ {"run"} : Goto(u, p))
    BY DEF Continue, Send, Await, Close, UserPCs
  <2>3. PCsOK /\ Sections'
    BY <1>2, <1>3, <2>1, <2>2
  <2>4. ChannelsOK'
    BY DEF Continue, Send, Await, Close, ChannelsOK, TypeOK
  <2>5. panicked' \in BOOLEAN
    BY DEF Continue, Send, Await, Close, TypeOK
  <2> QED
    BY <1>1, <2>1, <2>3, <2>4, <2>5, Kept DEF PlacesOK, TypeOK
<1>9. CASE \E l \in Loops : Tick(l)
  <2> PICK l \in Loops : Tick(l)
    BY <1>9
  <2>1. l \notin Users /\ l # Handler /\ cs = Free
    BY CandidateAssumption DEF Tick, Unlocked
  <2>2. cs' \in Section /\ PCsOK /\ Sections'
    BY <2>1, EnterFacts DEF Tick
  <2> QED
    BY <1>1, <2>2, Kept DEF Tick, PlacesOK, TypeOK
<1>10. CASE \E l \in Loops : Receive(l)
  <2> PICK l \in Loops : Receive(l)
    BY <1>10
  <2>1. ChannelsOK' /\ loop' \in [Loops -> LoopPCs]
    BY DEF Receive, ChannelsOK, LoopPCs, TypeOK
  <2>2. Sections'
    BY DEF Receive, Sections, TypeOK
  <2> QED
    BY <1>1, <2>1, <2>2, Kept DEF Receive, PlacesOK, TypeOK
<1>11. CASE \E l \in Loops : DoStop(l)
  <2> PICK l \in Loops : DoStop(l)
    BY <1>11
  <2>1. SessionOK'
    BY DeleteFacts, SessionStopFacts DEF DoStop, TypeOK
  <2>2. ChannelsOK' /\ loop' \in [Loops -> LoopPCs]
    BY DEF DoStop, Answer, ChannelsOK, LoopPCs, TypeOK
  <2>3. FieldsOK'
    BY DEF DoStop, FieldsOK, TypeOK
  <2>4. Sections'
    BY CandidateAssumption DEF DoStop, Unlocked, Free, Sections
  <2> QED
    BY <1>1, <2>1, <2>2, <2>3, <2>4 DEF DoStop, PlacesOK, TypeOK
<1>12. CASE Deliver \/ Discard
  <2>1. queue' \in Seq(Updates) /\ Len(queue') <= MaxQueue /\ Head(queue) \in Updates
    <3>1. queue \in Seq(Updates) /\ queue # <<>> /\ Len(queue) \in Nat
      BY <1>12, LenProperties DEF Deliver, Discard, TypeOK
    <3>2. Head(queue) \in Updates /\ Tail(queue) \in Seq(Updates)
          /\ Len(Tail(queue)) = Len(queue) - 1
      BY <3>1, HeadTailProperties
    <3>3. Len(queue) <= MaxQueue /\ MaxQueue \in Nat
      BY CandidateAssumption DEF TypeOK
    <3>4. CASE queue' = Tail(queue)
      BY <3>1, <3>2, <3>3, <3>4
    <3>5. CASE Len(queue) > 1 /\ queue' = <<Head(queue)>> \o Tail(Tail(queue))
      <4>1. Tail(Tail(queue)) \in Seq(Updates) /\ Len(Tail(Tail(queue))) = Len(queue) - 2
        <5>1. Len(Tail(queue)) # 0
          BY <3>1, <3>2, <3>5
        <5>2. Len(<<>>) = 0
          OBVIOUS
        <5>3. Tail(queue) # <<>>
          BY <5>1, <5>2
        <5>4. Len(Tail(Tail(queue))) = Len(Tail(queue)) - 1 /\ Tail(Tail(queue)) \in Seq(Updates)
          BY <3>2, <5>3, HeadTailProperties
        <5> QED
          BY <3>1, <3>2, <5>4
      <4>2. <<Head(queue)>> \in Seq(Updates) /\ Len(<<Head(queue)>>) = 1
        BY <3>2
      <4> QED
        BY <3>1, <3>2, <3>3, <3>5, <4>1, <4>2, ConcatProperties
    <3> QED
      BY <1>12, <3>2, <3>4, <3>5 DEF Deliver, Discard
  <2>2. update' \in Updates \cup {Nil}
    BY <1>12, <2>1 DEF Deliver, Discard, TypeOK
  <2>3. Sections'
    BY <1>12 DEF Deliver, Discard, HandlerBusy, Sections
  <2> QED
    BY <1>1, <1>12, <2>1, <2>2, <2>3, Kept DEF Deliver, Discard, PlacesOK, SessionOK, TypeOK
<1>13. CASE Process
  <2>1. SessionOK'
    BY <1>13, Kept, SessionStopFacts DEF Process, TypeOK
  <2>2. FieldsOK'
    BY <1>13 DEF Process, Errors, FieldsOK, TypeOK
  <2>3. cs' \in Section /\ Sections'
    <3>1. CASE Enter(Handler)
      BY <1>13, <3>1, EnterFacts, CandidateAssumption DEF Process, Unlocked
    <3>2. CASE UNCHANGED cs
      BY <1>13, <3>2 DEF Process, Sections, TypeOK
    <3> QED
      BY <1>13, <3>1, <3>2 DEF Process
  <2> QED
    BY <1>1, <1>13, <2>1, <2>2, <2>3, Kept DEF Process, PlacesOK, TypeOK
<1>14. CASE SessionTick
  BY <1>1, <1>3, <1>14, Kept, SessionTickFacts DEF SessionTick, PlacesOK
<1>15. CASE Environment
  <2>1. SessionOK'
    <3>1. CASE \E s \in Sessions : Expire(s)
      BY <3>1, UpstreamFacts DEF Expire, SessionOK, TypeOK
    <3>2. CASE Locks(DelayEnds \/ RivalAcquires \/ RivalFails \/ RivalResigns)
      BY <3>2 DEF Locks, DelayEnds, RivalAcquires, RivalFails, RivalResigns, SessionOK, TypeOK,
                  Holders
    <3> QED
      BY <1>15, <3>1, <3>2 DEF Environment
  <2>2. UNCHANGED <<state, leader, errs, channels, cs, pc, loop, panicked, update>>
    BY <1>15 DEF Environment, Expire, Locks
  <2> QED
    BY <1>1, <1>3, <2>1, <2>2, Kept DEF PlacesOK
<1>16. CASE UNCHANGED vars
  BY <1>1, <1>3, <1>16, Kept DEF vars, PlacesOK
<1> QED
  BY <1>4, <1>5, <1>6, <1>7, <1>8, <1>9, <1>10, <1>11, <1>12, <1>13, <1>14, <1>15, <1>16,
     <1>17 DEF Next, Background, Activity, Maintain

LEMMA TypesInvariant == Spec => []Types
<1>1. Init => Types
  <2> SUFFICES ASSUME Init PROVE Types
    OBVIOUS
  <2>1. queue \in Seq(Updates) /\ Len(queue) <= MaxQueue
    BY EmptySeq, CandidateAssumption DEF Init
  <2>2. SessionOK
    BY <2>1, HolderAssumption DEF Init, SessionOK, Holders
  <2>3. FieldsOK
    <3>1. state \in States /\ errs \in 0..3
      BY DEF Init, States
    <3> QED
      BY <3>1 DEF Init, FieldsOK
  <2>4. ChannelsOK
    BY DEF Init, ChannelsOK
  <2>5. PlacesOK
    BY SectionFacts DEF Init, PlacesOK, UserPCs, LoopPCs, Free, Section
  <2>6. Sections
    BY CandidateAssumption DEF Init, Sections, Free
  <2> QED
    BY <2>2, <2>3, <2>4, <2>5, <2>6, TypesSplit DEF Types
<1> QED
  BY <1>1, TypesStep, PTL DEF Spec

\* The fields, channels and program counters stay in their ranges, and the buffer of
\* session updates within its length.
THEOREM TypeCorrect == Spec => []TypeOK
BY TypesInvariant, PTL DEF Types

\* The environments of the runs only restrict who calls what when.
LEMMA OpenUsers == OpenSpec => Spec
<1>1. [OpenNext]_vars => [Next]_vars
  BY DEF OpenNext, Next
<1> QED
  BY <1>1, PTL DEF OpenSpec, Spec

LEMMA SerialUsers == SerialSpec => OpenSpec
<1>1. [SerialNext]_vars => [OpenNext]_vars
  BY DEF SerialNext, OpenNext
<1> QED
  BY <1>1, PTL DEF SerialSpec, OpenSpec

\* A candidate that believes that it leads without locking the key was given the key by
\* Consul and lost it since, before or after it assigned the answer: none of the
\* library's own steps, in whatever order they come, makes up a leader or frees the
\* key of one that goes on believing.
THEOREM BelievesOnlyWhatItHeld == Spec => BelievesWhatItHeld
<1>1. TypeOK /\ [Next]_vars => [~Deluded /\ Deluded' => SessionTick \/ Environment]_vars
  <2> SUFFICES ASSUME TypeOK, [Next]_vars, ~SessionTick, ~Environment, ~Deluded, Deluded'
               PROVE  FALSE
    OBVIOUS
  <2> USE DEF leader, channels, session, lock
  <2>1. /\ (cs' = Free /\ elected') \/ (cs'.at = "assign" /\ cs'.won)
        /\ holder' \notin Sessions
    BY DEF Deluded, Believes, Free
  <2>2. ASSUME UNCHANGED <<cs, elected, holder>> PROVE FALSE
    BY <2>2 DEF Deluded, Believes
  <2>3. CASE Look
    <3>1. CASE cs' = [cs EXCEPT !.at = "acquire", !.sid = sid]
      <4>1. cs'.at = "acquire"
        BY <3>1 DEF TypeOK, Section
      <4> QED
        BY <2>1, <4>1 DEF Free
    <3>2. CASE Elect(FALSE) /\ Leave
      BY <2>1, <3>2 DEF Elect, Leave, Free
    <3> QED
      BY <2>3, <3>1, <3>2 DEF Look
  <2>4. CASE Acquire
    <3> PICK a \in AcquireOutcomes(cs.sid, holder, delay, upstream) :
          holder' = a.holder /\ cs' = [cs EXCEPT !.at = "assign", !.won = a.won]
      BY <2>4 DEF Acquire
    <3>1. a.won => a.holder \in Sessions
      BY AcquireFacts DEF TypeOK
    <3>2. cs'.won = a.won /\ cs'.at = "assign"
      BY DEF TypeOK, Section
    <3> QED
      BY <2>1, <3>1, <3>2 DEF Free
  <2>10. CASE Assign
    <3>1. cs' = Free /\ elected' = cs.won /\ cs.at = "assign" /\ UNCHANGED holder
      BY <2>10 DEF Assign, Elect, Leave
    <3> QED
      BY <2>1, <3>1 DEF Deluded, Believes, Free
  <2>5. CASE (\E u \in Users : Run(u)) \/ (\E l \in Loops : Tick(l))
    <3>1. CASE \E g \in Users \cup Loops : Enter(g)
      <4>1. cs'.at = "look"
        BY <3>1, SectionFacts DEF Enter
      <4> QED
        BY <2>1, <4>1 DEF Free
    <3> QED
      BY <2>2, <2>5, <3>1 DEF Run, Tick
  <2>6. CASE \E u \in Users : Resign(u) \/ Shutdown(u) \/ Continue(u)
    BY <2>2, <2>6 DEF Resign, Shutdown, Continue, Send, Await, Close
  <2>7. CASE \E l \in Loops : DoStop(l)
    BY <2>1, <2>7 DEF DoStop, Unlocked, Free
  <2>8. CASE (\E l \in Loops : Receive(l)) \/ Deliver \/ Discard \/ UNCHANGED vars
    BY <2>2, <2>8 DEF Receive, Deliver, Discard, vars
  <2>9. CASE Process
    <3>1. CASE Enter(Handler)
      BY <2>1, <3>1 DEF Enter, Free
    <3> QED
      BY <2>2, <2>9, <3>1 DEF Process
  <2> QED
    BY <2>3, <2>4, <2>5, <2>6, <2>7, <2>8, <2>9, <2>10 DEF Next, Background, Activity, Maintain
<1> QED
  BY <1>1, TypeCorrect, PTL DEF Spec, BelievesWhatItHeld
-----------------------------------------------------------------------------
(***************************************************************************)
(* The candidate's session is a SerialSession.                             *)
(***************************************************************************)
LEMMA SessionRunIsSerial ==
  ASSUME TypeOK, SessionRun
  PROVE  [Own!Next]_(Own!svars)
BY DEF SessionRun, Becomes, Upstream, TypeOK, Own!svars, Own!Next, Own!Run, Own!Becomes

LEMMA SessionStopIsSerial ==
  ASSUME TypeOK, NEW h, SessionStop(h)
  PROVE  [Own!Next]_(Own!svars)
BY DEF SessionStop, Becomes, Upstream, TypeOK, Own!svars, Own!Next, Own!Stop, Own!Becomes

LEMMA SessionTickIsSerial ==
  ASSUME TypeOK, SessionTick
  PROVE  Own!Next
BY DEF SessionTick, Becomes, Upstream, TypeOK, Own!Next, Own!Tick, Own!Becomes

\* Whatever the candidate, its handler and its timer do with their session, in whatever
\* order, are the calls of one serial user: SerialSession, which ManagedSession implements.
THEOREM SessionIsSerial == Spec => UsesSerialSession
<1>1. Init => Own!Init
  BY DEF Init, Own!Init
<1>2. TypeOK /\ [Next]_vars => [Own!Next]_(Own!svars)
  <2> SUFFICES ASSUME TypeOK, [Next]_vars
               PROVE  [Own!Next]_(Own!svars)
    OBVIOUS
  <2> USE DEF session, lock
  <2>1. CASE SessionRun \/ (\E h : SessionStop(h)) \/ SessionTick
    BY <2>1, SessionRunIsSerial, SessionStopIsSerial, SessionTickIsSerial
  <2>2. CASE UNCHANGED <<running, sid, upstream>>
    BY <2>2 DEF Own!svars
  <2>3. CASE Look
    BY <2>1, <2>2, <2>3 DEF Look
  <2>4. CASE Acquire \/ Assign
    BY <2>2, <2>4 DEF Acquire, Assign
  <2>5. CASE (\E u \in Users : Run(u)) \/ (\E l \in Loops : Tick(l) \/ DoStop(l)) \/ Process
    BY <2>1, <2>2, <2>5 DEF Run, Tick, DoStop, Process
  <2>6. CASE \/ \E u \in Users : Resign(u) \/ Shutdown(u) \/ Continue(u)
             \/ \E l \in Loops : Receive(l)
             \/ Deliver \/ Discard \/ UNCHANGED vars
    BY <2>2, <2>6 DEF Resign, Shutdown, Continue, Send, Await, Close, Receive, Deliver,
                      Discard, vars
  <2>7. CASE Environment
    <3>1. UNCHANGED <<running, sid>> /\ (UNCHANGED upstream \/ \E s \in upstream : upstream' = upstream \ {s})
      BY <2>7 DEF Environment, Expire, Upstream, Locks
    <3> QED
      BY <3>1 DEF Own!Next, Own!Lose, Own!svars
  <2> QED
    BY <2>1, <2>3, <2>4, <2>5, <2>6, <2>7 DEF Next, Background, Activity, Maintain
<1> QED
  BY <1>1, <1>2, TypeCorrect, PTL DEF Spec, UsesSerialSession, Own!Spec
-----------------------------------------------------------------------------
(***************************************************************************)
(* Resignations.                                                           *)
(***************************************************************************)
Awaiting == {"resign.await", "shutdown.await"}

\* The reply channel of a caller who waits is in one place: in c.stop, with one
\* maintainLock() goroutine, or answered.
RepliesOwed ==
  /\ slot # Nil => pc[slot] \in Awaiting /\ slot \notin reply /\ \A l \in Loops : drop[l] # slot
  /\ \A u \in reply : pc[u] \in Awaiting /\ \A l \in Loops : drop[l] # u
  /\ \A l \in Loops : drop[l] # Nil =>
       /\ loop[l] = "stopping" /\ pc[drop[l]] \in Awaiting
       /\ \A k \in Loops : drop[k] = drop[l] => k = l

LEMMA RepliesStep == Types /\ RepliesOwed /\ [Next]_vars => RepliesOwed'
<1> SUFFICES ASSUME TypeOK, Sections, RepliesOwed, [Next]_vars
             PROVE  RepliesOwed'
  BY DEF Types
<1> USE DEF channels, Awaiting
<1>1. ASSUME UNCHANGED <<slot, reply, drop>>,
             \A u \in Users : pc[u] \in Awaiting => pc'[u] = pc[u],
             \A l \in Loops : loop[l] = "stopping" => loop'[l] = "stopping"
      PROVE  RepliesOwed'
  BY <1>1 DEF RepliesOwed, TypeOK
<1>2. CASE Look \/ Acquire \/ Assign
  <2>1. UNCHANGED pc \/ Leave
    BY <1>2 DEF Look, Acquire, Assign
  <2>2. \A u \in Users : pc[u] \in Awaiting => pc'[u] = pc[u]
    BY <2>1 DEF Leave, Goto, Sections, TypeOK
  <2> QED
    BY <1>1, <1>2, <2>2 DEF Look, Acquire, Assign
<1>3. CASE \E u \in Users : Run(u)
  <2> PICK u \in Users : Run(u)
    BY <1>3
  <2>1. \A v \in Users : pc[v] \in Awaiting => pc'[v] = pc[v]
    BY DEF Run, Goto, TypeOK
  <2>2. \A l \in Loops : loop[l] = "stopping" => loop'[l] = "stopping"
    BY DEF Run, TypeOK
  <2> QED
    BY <1>1, <2>1, <2>2 DEF Run
<1>4. CASE \E u \in Users : Resign(u) \/ Shutdown(u) \/ Close(u)
  <2> PICK u \in Users : Resign(u) \/ Shutdown(u) \/ Close(u)
    BY <1>4
  <2>1. UNCHANGED <<slot, reply, drop, loop>>
    BY DEF Resign, Shutdown, Close
  <2>2. pc[u] \notin Awaiting /\ (UNCHANGED pc \/ \E p : Goto(u, p))
    BY DEF Resign, Shutdown, Close
  <2> QED
    BY <1>1, <2>1, <2>2 DEF Goto, TypeOK
<1>5. CASE \E u \in Users : Send(u)
  <2> PICK u \in Users : Send(u)
    BY <1>5
  <2>1. CASE UNCHANGED <<slot, pc>>
    BY <1>1, <2>1 DEF Send
  <2>2. CASE /\ slot = Nil /\ slot' = u
             /\ \E p \in Awaiting : Goto(u, p)
    <3>1. UNCHANGED <<reply, drop, loop>> /\ pc[u] \notin Awaiting
      BY DEF Send
    <3>2. pc'[u] \in Awaiting /\ \A v \in Users \ {u} : pc'[v] = pc[v]
      BY <2>2 DEF Goto, TypeOK
    <3>3. u \notin reply /\ \A l \in Loops : drop[l] # u
      BY <3>1, CandidateAssumption DEF RepliesOwed
    <3> QED
      BY <2>2, <3>1, <3>2, <3>3 DEF RepliesOwed, TypeOK
  <2> QED
    BY <2>1, <2>2 DEF Send
<1>6. CASE \E u \in Users : Await(u)
  <2> PICK u \in Users : Await(u)
    BY <1>6
  <2>1. UNCHANGED <<slot, drop, loop>> /\ reply' = reply \ {u} /\ u \in reply
    BY DEF Await
  <2>2. \A v \in Users \ {u} : pc'[v] = pc[v]
    BY DEF Await, Goto, TypeOK
  <2>3. slot # u /\ \A l \in Loops : drop[l] # u
    BY <2>1, CandidateAssumption DEF RepliesOwed
  <2> QED
    BY <2>1, <2>2, <2>3 DEF RepliesOwed, TypeOK
<1>7. CASE \E l \in Loops : Receive(l)
  <2> PICK l \in Loops : Receive(l)
    BY <1>7
  <2>1. slot' = Nil /\ drop'[l] = slot /\ loop'[l] = "stopping" /\ UNCHANGED <<reply, pc>>
    BY DEF Receive, TypeOK
  <2>2. \A k \in Loops \ {l} : drop'[k] = drop[k] /\ loop'[k] = loop[k]
    BY DEF Receive, TypeOK
  <2>3. slot # Nil => slot \notin reply /\ pc[slot] \in Awaiting /\ \A k \in Loops : drop[k] # slot
    BY DEF RepliesOwed
  <2>4. \A u \in reply : u # slot /\ pc'[u] \in Awaiting /\ \A k \in Loops : drop'[k] # u
    BY <2>1, <2>2, <2>3, CandidateAssumption DEF RepliesOwed, TypeOK
  <2>5. \A k \in Loops : drop'[k] # Nil =>
          /\ loop'[k] = "stopping" /\ pc'[drop'[k]] \in Awaiting
          /\ \A j \in Loops : drop'[j] = drop'[k] => j = k
    BY <2>1, <2>2, <2>3 DEF RepliesOwed
  <2> QED
    BY <2>1, <2>4, <2>5 DEF RepliesOwed
<1>8. CASE \E l \in Loops : DoStop(l)
  <2> PICK l \in Loops : DoStop(l)
    BY <1>8
  <2>1. UNCHANGED <<slot, pc>> /\ loop[l] = "stopping"
    BY DEF DoStop
  <2>2. CASE drop[l] = Nil
    <3>1. UNCHANGED <<reply, drop>> /\ \A k \in Loops \ {l} : loop'[k] = loop[k]
      BY <2>2 DEF DoStop, Answer, TypeOK
    <3> QED
      BY <2>1, <2>2, <3>1 DEF RepliesOwed
  <2>3. CASE drop[l] # Nil
    <3>1. /\ reply' = reply \cup {drop[l]} /\ drop'[l] = Nil
          /\ \A k \in Loops \ {l} : drop'[k] = drop[k] /\ loop'[k] = loop[k]
      BY <2>3 DEF DoStop, Answer, TypeOK
    <3>2. /\ drop[l] # slot /\ pc[drop[l]] \in Awaiting
          /\ \A k \in Loops \ {l} : drop[k] # drop[l]
      BY <2>3, CandidateAssumption DEF RepliesOwed
    <3>3. \A u \in reply' : pc'[u] \in Awaiting /\ \A k \in Loops : drop'[k] # u
      BY <2>1, <2>3, <3>1, <3>2, CandidateAssumption DEF RepliesOwed, TypeOK
    <3>4. slot' # Nil => pc'[slot'] \in Awaiting /\ slot' \notin reply'
                         /\ \A k \in Loops : drop'[k] # slot'
      BY <2>1, <3>1, <3>2 DEF RepliesOwed
    <3>5. \A k \in Loops : drop'[k] # Nil =>
            /\ loop'[k] = "stopping" /\ pc'[drop'[k]] \in Awaiting
            /\ \A j \in Loops : drop'[j] = drop'[k] => j = k
      BY <2>1, <3>1 DEF RepliesOwed
    <3> QED
      BY <3>3, <3>4, <3>5 DEF RepliesOwed
  <2> QED
    BY <2>2, <2>3
<1>9. CASE \/ \E l \in Loops : Tick(l)
           \/ Deliver \/ Discard \/ Process \/ SessionTick \/ Environment \/ UNCHANGED vars
  BY <1>1, <1>9 DEF Tick, Deliver, Discard, Process, SessionTick, Environment, Expire, Locks, vars
<1> QED
  BY <1>2, <1>3, <1>4, <1>5, <1>6, <1>7, <1>8, <1>9
     DEF Next, Background, Activity, Maintain, Continue

LEMMA RepliesInvariant == Spec => []RepliesOwed
<1>1. Init => RepliesOwed
  BY DEF Init, RepliesOwed
<1> QED
  BY <1>1, RepliesStep, TypesInvariant, PTL DEF Spec

LEMMA FiniteCounts ==
  /\ IsFiniteSet(Waiting) /\ Cardinality(Waiting) \in Nat
  /\ IsFiniteSet(Selecting) /\ Cardinality(Selecting) \in Nat
<1>1. Waiting \in SUBSET Users /\ Selecting \in SUBSET Loops
  BY DEF Waiting, Selecting
<1> QED
  BY <1>1, CandidateAssumption, FS_Subset, FS_CardinalityType

LEMMA FiniteCountsNext ==
  /\ IsFiniteSet(Waiting') /\ Cardinality(Waiting') \in Nat
  /\ IsFiniteSet(Selecting') /\ Cardinality(Selecting') \in Nat
<1>1. Waiting' \in SUBSET Users /\ Selecting' \in SUBSET Loops
  BY DEF Waiting, Selecting
<1> QED
  BY <1>1, CandidateAssumption, FS_Subset, FS_CardinalityType

LEMMA CountingStep ==
  Types /\ RepliesOwed /\ ResignFindsMaintainer /\ [OpenNext]_vars => ResignFindsMaintainer'
<1> SUFFICES ASSUME TypeOK, Sections, RepliesOwed, ResignFindsMaintainer, [OpenNext]_vars, ~closed'
             PROVE  Cardinality(Waiting') + Entrant' <= Cardinality(Selecting')
  BY DEF ResignFindsMaintainer, Types
<1> USE DEF channels
<1>0. ~closed /\ Cardinality(Waiting) + Entrant <= Cardinality(Selecting)
  <2>1. ~closed
    BY DEF OpenNext, Run, Resign, Shutdown, Background, Activity, Look, Acquire, Assign, Continue, Send,
           Await, Close, Maintain, Tick, Receive, DoStop, Deliver, Discard, Process, SessionTick,
           Environment, Expire, Locks, vars
  <2> QED
    BY <2>1 DEF ResignFindsMaintainer
<1>1. ASSUME Waiting' = Waiting, Selecting' = Selecting, UNCHANGED state
      PROVE  Cardinality(Waiting') + Entrant' <= Cardinality(Selecting')
  BY <1>0, <1>1 DEF Entrant
<1>2. CASE Look \/ Acquire \/ Assign
  <2>1. UNCHANGED pc \/ Leave
    BY <1>2 DEF Look, Acquire, Assign
  <2>2. UNCHANGED <<slot, loop, state>>
    BY <1>2 DEF Look, Acquire, Assign
  <2>3. Waiting' = Waiting
    BY <2>1, <2>2 DEF Leave, Goto, Sections, Waiting, TypeOK
  <2> QED
    BY <1>1, <2>2, <2>3 DEF Selecting
<1>3. CASE \E u \in Users : Run(u)
  <2> PICK u \in Users : Run(u)
    BY <1>3
  <2>1. UNCHANGED slot
    BY DEF Run
  <2>2. Waiting' = Waiting
    BY <2>1 DEF Run, Goto, Waiting, TypeOK
  <2>3. CASE UNCHANGED <<state, loop>>
    BY <1>1, <2>2, <2>3 DEF Selecting
  <2>4. CASE /\ state # "running" /\ state' = "running"
             /\ \E l \in Loops : loop[l] = "none" /\ loop' = [loop EXCEPT ![l] = "select"]
    <3> PICK l \in Loops : loop[l] = "none" /\ loop' = [loop EXCEPT ![l] = "select"]
      BY <2>4
    <3>1. Selecting' = Selecting \cup {l} /\ l \notin Selecting
      BY DEF Selecting, TypeOK
    <3>2. Cardinality(Selecting') = Cardinality(Selecting) + 1
      BY <3>1, FiniteCounts, FS_AddElement
    <3> QED
      BY <1>0, <2>2, <2>4, <3>2, FiniteCounts DEF Entrant
  <2> QED
    BY <2>3, <2>4 DEF Run
<1>4. CASE \E u \in Users : (Entered /\ Resign(u)) \/ Shutdown(u)
  <2> PICK u \in Users : (Entered /\ Resign(u)) \/ Shutdown(u)
    BY <1>4
  <2>1. UNCHANGED <<slot, loop>> /\ pc[u] = "idle" /\ slot # u
    BY CandidateAssumption DEF Resign, Shutdown, RepliesOwed, Awaiting
  <2>2. CASE state = "running"
    <3>1. state' # "running" /\ \E p \in {"resign.send", "shutdown.send"} : Goto(u, p)
      BY <2>2 DEF Resign, Shutdown, RequiresStop
    <3>2. Waiting' = Waiting \cup {u} /\ u \notin Waiting
      BY <2>1, <3>1 DEF Goto, Waiting, TypeOK
    <3>3. Cardinality(Waiting') = Cardinality(Waiting) + 1
      BY <3>2, FiniteCounts, FS_AddElement
    <3>4. Selecting' = Selecting
      BY <2>1 DEF Selecting
    <3> QED
      BY <1>0, <2>2, <3>1, <3>3, <3>4, FiniteCounts DEF Entrant
  <2>3. CASE state # "running"
    <3>1. state' # "running" /\ (UNCHANGED pc \/ Goto(u, "shutdown.close"))
      BY <2>3 DEF Resign, Shutdown, RequiresStop, Entered, TypeOK, States
    <3>2. Waiting' = Waiting /\ Selecting' = Selecting
      BY <2>1, <3>1 DEF Goto, Waiting, Selecting, TypeOK
    <3> QED
      BY <1>0, <2>3, <3>1, <3>2 DEF Entrant
  <2> QED
    BY <2>2, <2>3
<1>5. CASE \E u \in Users : Continue(u)
  <2> PICK u \in Users : Continue(u)
    BY <1>5
  <2>1. UNCHANGED <<loop, state>>
    BY DEF Continue, Send, Await, Close
  <2>2. CASE Send(u)
    <3>1. slot = Nil /\ slot' = u /\ \E p \in Awaiting : Goto(u, p)
      BY <1>0, <2>2 DEF Send, Awaiting
    <3>2. Waiting' = Waiting
      BY <2>2, <3>1, CandidateAssumption DEF Send, Goto, Awaiting, Waiting, TypeOK
    <3> QED
      BY <1>1, <2>1, <3>2 DEF Selecting
  <2>3. CASE Await(u) \/ Close(u)
    <3>1. UNCHANGED slot /\ pc[u] \notin {"resign.send", "shutdown.send"}
          /\ \E p \in {"idle", "shutdown.close"} : Goto(u, p)
      BY <2>3 DEF Await, Close
    <3>2. Waiting' = Waiting
      BY <3>1 DEF Goto, Waiting, TypeOK
    <3> QED
      BY <1>1, <2>1, <3>2 DEF Selecting
  <2> QED
    BY <2>2, <2>3 DEF Continue
<1>6. CASE \E l \in Loops : Receive(l)
  <2> PICK l \in Loops : Receive(l)
    BY <1>6
  <2>1. slot \in Users /\ slot' = Nil /\ UNCHANGED <<pc, state>>
    BY <1>0 DEF Receive, TypeOK
  <2>2. Waiting' = Waiting \ {slot} /\ slot \in Waiting
    BY <2>1, CandidateAssumption DEF Waiting, RepliesOwed, Awaiting
  <2>3. Selecting' = Selecting \ {l} /\ l \in Selecting
    BY DEF Receive, Selecting, TypeOK
  <2>4. /\ Cardinality(Waiting') = Cardinality(Waiting) - 1
        /\ Cardinality(Selecting') = Cardinality(Selecting) - 1
    BY <2>2, <2>3, FiniteCounts, FS_RemoveElement
  <2>5. Entrant' = Entrant /\ Entrant \in Nat
    BY <2>1 DEF Entrant
  <2> QED
    BY <1>0, <2>4, <2>5, FiniteCounts
<1>7. CASE \E l \in Loops : DoStop(l)
  <2> PICK l \in Loops : DoStop(l)
    BY <1>7
  <2>1. UNCHANGED <<pc, slot, state>>
    BY DEF DoStop
  <2>2. Selecting' = Selecting
    BY DEF DoStop, Answer, Selecting, TypeOK
  <2> QED
    BY <1>1, <2>1, <2>2 DEF Waiting
<1>8. CASE \/ \E l \in Loops : Tick(l)
           \/ Deliver \/ Discard \/ Process \/ SessionTick \/ Environment \/ UNCHANGED vars
  <2>1. UNCHANGED <<pc, slot, state, loop>>
    BY <1>8 DEF Tick, Deliver, Discard, Process, SessionTick, Environment, Expire, Locks, vars
  <2> QED
    BY <1>1, <2>1 DEF Waiting, Selecting
<1> QED
  BY <1>2, <1>3, <1>4, <1>5, <1>6, <1>7, <1>8 DEF OpenNext, Background, Activity, Maintain

\* Once a candidate has entered the pool, however many users make it leave and enter
\* again at the same time, every resignation has a maintainLock() goroutine to answer it.
THEOREM ResignMeetsMaintainer == OpenSpec => []ResignFindsMaintainer
<1>1. Init => ResignFindsMaintainer
  <2> SUFFICES ASSUME Init PROVE ResignFindsMaintainer
    OBVIOUS
  <2>1. Waiting = {} /\ Selecting = {} /\ Entrant = 0
    BY CandidateAssumption DEF Init, Waiting, Selecting, Entrant
  <2> QED
    BY <2>1, FS_EmptySet DEF ResignFindsMaintainer
<1> QED
  BY <1>1, CountingStep, OpenUsers, TypesInvariant, RepliesInvariant, PTL DEF OpenSpec
=============================================================================
