------------------------ MODULE ManagedServiceProofs ------------------------
(***************************************************************************)
(* Theorems about ManagedService, for any number of callers, maintain()    *)
(* goroutines and tags, however the calls race.                            *)
(***************************************************************************)
EXTENDS ManagedService, FiniteSetTheorems, TLAPS

(***************************************************************************)
(* What a refresh leaves behind.                                           *)
(***************************************************************************)
\* Agent().ServiceRegister: registered if no error is returned, else perhaps.
LEMMA RegisterFacts ==
  ASSUME NEW def, NEW a, NEW o \in RegisterOutcomes(def, a)
  PROVE  o.agent \in {a, def} /\ o.ok \in BOOLEAN /\ (o.ok => o.agent = def)
<1>1. CASE o = [agent |-> def, ok |-> TRUE]
  BY <1>1
<1>2. CASE o \in [agent : {a, def}, ok : {FALSE}]
  BY <1>2
<1> QED
  BY <1>1, <1>2 DEF RegisterOutcomes, Faulty

\* Agent().ServiceDeregister: gone if no error is returned, else perhaps.
LEMMA DeregisterFacts ==
  ASSUME NEW a, NEW o \in DeregisterOutcomes(a)
  PROVE  o.agent \in {a, Absent} /\ o.ok \in BOOLEAN /\ (o.ok => o.agent = Absent)
<1>1. CASE o = [agent |-> Absent, ok |-> TRUE]
  BY <1>1
<1>2. CASE o = [agent |-> Absent, ok |-> FALSE]
  BY <1>2
<1>3. CASE o \in [agent : {a, Absent}, ok : {FALSE}]
  BY <1>3
<1> QED
  BY <1>1, <1>2, <1>3 DEF DeregisterOutcomes, Faulty

\* refreshService(): a service the agent knows is left alone, a forgotten one is
\* restored or not; the copy is the old one or that of the agent, and the latter when
\* no error is returned.
LEMMA RefreshFacts ==
  ASSUME NEW s \in Definition, NEW a \in Definition \cup {Absent}, NEW r \in Definition,
         NEW o \in RefreshOutcomes(s, a, r)
  PROVE  /\ o.ok \in BOOLEAN /\ o.svc \in Definition
         /\ IF a # Absent THEN o.agent = a ELSE o.agent \in {Absent, r}
         /\ o.svc = s \/ (o.svc = o.agent /\ o.agent # Absent)
         /\ o.ok => o.svc = o.agent
<1> DEFINE Found(x)  == [svc |-> x, agent |-> x, ok |-> TRUE]
           Failed(x) == [svc |-> s, agent |-> x, ok |-> FALSE]
<1>1. \A x \in RegisterOutcomes(r, a) :
        x.agent \in {a, r} /\ x.ok \in BOOLEAN /\ (x.ok => x.agent = r)
  BY RegisterFacts
<1>2. \/ a # Absent /\ o = Found(a)
      \/ o = Failed(a)
      \/ /\ a = Absent
         /\ \E x \in RegisterOutcomes(r, a) : (x.ok /\ o = Found(x.agent)) \/ o = Failed(x.agent)
  BY DEF RefreshOutcomes, Faulty
<1>3. r # Absent
  BY ServiceAssumption DEF Definition
<1>4. ASSUME NEW x, x \in Definition, o = Found(x),
             IF a # Absent THEN x = a ELSE x = r
      PROVE  /\ o.ok \in BOOLEAN /\ o.svc \in Definition
             /\ IF a # Absent THEN o.agent = a ELSE o.agent \in {Absent, r}
             /\ o.svc = o.agent /\ o.agent # Absent
  BY <1>3, <1>4, ServiceAssumption DEF Definition
<1>5. ASSUME NEW x, o = Failed(x), IF a # Absent THEN x = a ELSE x \in {Absent, r}
      PROVE  /\ o.ok = FALSE /\ o.svc = s
             /\ IF a # Absent THEN o.agent = a ELSE o.agent \in {Absent, r}
  BY <1>5
<1> HIDE DEF Found, Failed
<1> QED
  BY <1>1, <1>2, <1>3, <1>4, <1>5

\* The definition a tag change or a refresh registers.
LEMMA RegistrationFacts ==
  ASSUME NEW tags \in SUBSET Tags
  PROVE  Registration(tags) \in Definition /\ Registration(tags).tags = tags
BY DEF Registration, Definition

\* Before the construction has succeeded nobody calls, and nothing runs.
NewIsQuiet ==
  state = "new" => (\A c \in Callers : pc[c] = "idle") /\ (\A l \in Loops : loop[l] = "none")

\* A refresh in the life of a service.
LEMMA RefreshStep ==
  ASSUME TypeOK, state # "new", NEW ok \in BOOLEAN, Refresh(ok)
  PROVE  /\ svc' \in Definition /\ agent' \in Definition \cup {Absent}
         /\ agent # Absent => agent' = agent
         /\ agent' # Absent => agent'.tags = IF agent # Absent THEN agent.tags ELSE svc.tags
         /\ svc' = svc \/ (svc' = agent' /\ agent' # Absent)
         /\ ok => svc' = agent'
<1>1. svc \in Definition /\ svc.tags \in SUBSET Tags /\ agent \in Definition \cup {Absent}
  BY DEF TypeOK, Definition
<1>2. Registration(svc.tags) \in Definition /\ Registration(svc.tags).tags = svc.tags
  BY <1>1, RegistrationFacts
<1>3. PICK o \in RefreshOutcomes(svc, agent, Registration(svc.tags)) :
        svc' = o.svc /\ agent' = o.agent /\ ok = o.ok
  BY DEF Refresh
<1>4. /\ o.svc \in Definition
      /\ IF agent # Absent THEN o.agent = agent ELSE o.agent \in {Absent, Registration(svc.tags)}
      /\ o.svc = svc \/ (o.svc = o.agent /\ o.agent # Absent)
      /\ o.ok => o.svc = o.agent
  BY <1>1, <1>2, RefreshFacts
<1> QED
  BY <1>1, <1>2, <1>3, <1>4
-----------------------------------------------------------------------------
(***************************************************************************)
(* Types.  That the copy is defined is part of them: every refresh has one *)
(* to fall back on.                                                        *)
(***************************************************************************)
Types == TypeOK /\ NewIsQuiet

LEMMA TypesStep == Types /\ [Next]_vars => Types'
<1> SUFFICES ASSUME Types, [Next]_vars
             PROVE  Types'
  OBVIOUS
<1> USE DEF watching, asked, history
<1>0. TypeOK /\ NewIsQuiet /\ (state # "new" => svc \in Definition)
  BY DEF Types, TypeOK
<1> DEFINE Settled == /\ clean' \in BOOLEAN /\ want' \in SUBSET Tags
<1>1. ASSUME NEW good, NEW tags \in SUBSET Tags, Asked(good, tags)
      PROVE  Settled
  BY <1>1, <1>0 DEF Asked, TypeOK
<1>2. ASSUME NEW ok \in BOOLEAN, Refresh(ok), state # "new"
      PROVE  svc' \in Definition /\ agent' \in Definition \cup {Absent}
  BY <1>0, <1>2, RefreshStep
<1>3. CASE New
  BY <1>0, <1>3, ServiceAssumption DEF New, Spawn, Types, NewIsQuiet, TypeOK, LoopPCs, Definition
<1>4. CASE \E c \in Callers : Register(c) /\ state # "new"
  BY <1>0, <1>4 DEF Register, Spawn, Types, NewIsQuiet, TypeOK, LoopPCs
<1>5. CASE \E c \in Callers : Deregister(c) /\ state # "new"
  BY <1>0, <1>5 DEF Deregister, Goto, Types, NewIsQuiet, TypeOK, CallPCs
<1>6. CASE \E c \in Callers : Shutdown(c) /\ state # "new"
  BY <1>0, <1>6 DEF Shutdown, Goto, Types, NewIsQuiet, TypeOK, CallPCs
<1>7. CASE \E c \in Callers : Close(c) \/ SendOnClosed(c) \/ (Retag(c) /\ state # "new")
  BY <1>0, <1>7 DEF Close, SendOnClosed, Retag, Goto, Types, NewIsQuiet, TypeOK, CallPCs
<1>8. CASE \E c \in Callers : ForceRefresh(c) /\ state # "new"
  <2> PICK c \in Callers : ForceRefresh(c) /\ state # "new"
    BY <1>8
  <2>1. Settled
    BY <1>0, <1>1 DEF ForceRefresh, TypeOK
  <2> QED
    BY <1>0, <2>1 DEF ForceRefresh, Goto, Types, NewIsQuiet, TypeOK, CallPCs
<1>9. CASE \E c \in Callers : ChangeTags(c)
  <2> PICK c \in Callers : ChangeTags(c)
    BY <1>9
  <2>0. state # "new" /\ svc \in Definition /\ want \in SUBSET Tags /\ clean \in BOOLEAN
    BY <1>0 DEF ChangeTags, NewIsQuiet, TypeOK
  <2>1. agent' \in Definition \cup {Absent} /\ pc' \in [Callers -> CallPCs] /\ Settled
    <3>1. CASE UNCHANGED <<agent, asked>> /\ \E p \in {"idle", AfterChange} : Goto(c, p)
      BY <1>0, <3>1 DEF Goto, AfterChange, TypeOK, CallPCs
    <3>2. ASSUME NEW given \in SUBSET Tags, NEW add \in BOOLEAN, NEW tags, NEW asks,
                 tags = IF add THEN svc.tags \cup given ELSE svc.tags \ given,
                 asks = IF add THEN want \cup given ELSE want \ given,
                 NEW o \in RegisterOutcomes(Registration(tags), agent),
                 agent' = o.agent,
                 Goto(c, IF o.ok THEN AfterChange ELSE "idle"),
                 Asked(o.ok /\ ~Unsettled, asks)
          PROVE  agent' \in Definition \cup {Absent} /\ pc' \in [Callers -> CallPCs] /\ Settled
      <4>1. tags \in SUBSET Tags /\ asks \in SUBSET Tags
        BY <2>0, <3>2 DEF Definition
      <4>2. agent' \in Definition \cup {Absent}
        BY <1>0, <3>2, <4>1, RegisterFacts, RegistrationFacts DEF TypeOK
      <4> QED
        BY <1>0, <1>1, <3>2, <4>1, <4>2 DEF Goto, AfterChange, TypeOK, CallPCs
    <3> QED
      BY <3>1, <3>2 DEF ChangeTags
  <2> QED
    BY <1>0, <2>0, <2>1 DEF ChangeTags, Types, NewIsQuiet, TypeOK
<1>10. CASE \E l \in Loops : ServeRefresh(l)
  <2> PICK l \in Loops : ServeRefresh(l)
    BY <1>10
  <2>0. state # "new" /\ want \in SUBSET Tags
    BY <1>0 DEF ServeRefresh, NewIsQuiet, TypeOK
  <2>1. svc' \in Definition /\ agent' \in Definition \cup {Absent} /\ Settled
    BY <1>1, <1>2, <2>0 DEF ServeRefresh
  <2>2. pc' \in [Callers -> CallPCs]
    BY <1>0 DEF ServeRefresh, Goto, TypeOK, CallPCs
  <2> QED
    BY <1>0, <2>0, <2>1, <2>2, ServiceAssumption
       DEF ServeRefresh, Types, NewIsQuiet, TypeOK, Definition
<1>11. CASE \E l \in Loops : ServeNobody(l) \/ Tick(l) \/ Updated(l)
  <2> PICK l \in Loops : ServeNobody(l) \/ Tick(l) \/ Updated(l)
    BY <1>11
  <2>0. state # "new"
    BY <1>0 DEF ServeNobody, Tick, Updated, NewIsQuiet
  <2>1. svc' \in Definition /\ agent' \in Definition \cup {Absent} /\ svc' # Absent
    BY <1>2, <2>0, ServiceAssumption DEF ServeNobody, Tick, Updated, Definition
  <2>2. mu' \in Loops \cup {Nil} /\ loop' \in [Loops -> LoopPCs] /\ update' \in [Loops -> BOOLEAN]
    BY <1>0 DEF ServeNobody, Tick, Updated, TypeOK, LoopPCs
  <2> QED
    BY <1>0, <2>0, <2>1, <2>2 DEF ServeNobody, Tick, Updated, Types, NewIsQuiet, TypeOK
<1>12. CASE \E l \in Loops : Rewatch(l) \/ Receive(l)
  <2>1. CASE \E l \in Loops : Rewatch(l)
    BY <1>0, <2>1 DEF Rewatch, Types, NewIsQuiet, TypeOK
  <2>2. CASE \E l \in Loops : Receive(l)
    <3> PICK l \in Loops : Receive(l)
      BY <2>2
    <3>1. pc' \in [Callers -> CallPCs] /\ drop' \in [Loops -> Callers \cup {Nil}]
      BY <1>0 DEF Receive, Goto, TypeOK, CallPCs
    <3> QED
      BY <1>0, <3>1 DEF Receive, Types, NewIsQuiet, TypeOK, LoopPCs
  <2> QED
    BY <1>12, <2>1, <2>2
<1>13. CASE \E l \in Loops : Remove(l)
  <2> PICK l \in Loops : Remove(l)
    BY <1>13
  <2>1. Settled
    BY <1>0, <1>1 DEF Remove, TypeOK
  <2>2. agent' \in Definition \cup {Absent} /\ failed' \in BOOLEAN
    BY <1>0, DeregisterFacts DEF Remove, TypeOK
  <2> QED
    BY <1>0, <2>1, <2>2 DEF Remove, Types, NewIsQuiet, TypeOK, LoopPCs
<1>14. CASE \E l \in Loops : Answer(l)
  BY <1>0, <1>14 DEF Answer, After, Goto, Types, NewIsQuiet, TypeOK, CallPCs, LoopPCs
<1>15. CASE \E l \in Loops : Watch(l)
  BY <1>0, <1>15 DEF Watch, PlanHit, PlanEnds, Types, NewIsQuiet, TypeOK
<1>16. CASE Vanish
  <2>1. Settled
    BY <1>0, <1>1, <1>16 DEF Vanish, TypeOK
  <2> QED
    BY <1>0, <1>16, <2>1 DEF Vanish, Types, NewIsQuiet, TypeOK
<1>17. CASE UNCHANGED vars
  BY <1>0, <1>17 DEF vars, Types, NewIsQuiet, TypeOK
<1> QED
  BY <1>0, <1>3, <1>4, <1>5, <1>6, <1>7, <1>8, <1>9, <1>10, <1>11, <1>12, <1>13, <1>14, <1>15,
     <1>16, <1>17 DEF Next, Call, Continue, Maintain, NewIsQuiet

LEMMA TypesInvariant == Spec => []Types
<1>1. Init => Types
  BY ServiceAssumption DEF Init, Types, TypeOK, NewIsQuiet, CallPCs, LoopPCs, Definition
<1> QED
  BY <1>1, TypesStep, PTL DEF Spec

\* The fields, channels and program counters stay in their ranges, and from its first
\* refresh on the local copy is defined.
THEOREM TypeCorrect == Spec => []TypeOK
BY TypesInvariant, PTL DEF Types
-----------------------------------------------------------------------------
(***************************************************************************)
(* Watch plans.                                                            *)
(***************************************************************************)
\* What PlanEndsFirst needs to be inductive: a name that is free for a new goroutine
\* has no plan of an old one, running or reported.
PlansEnded ==
  \A l \in Loops :
    /\ ~(plan[l] /\ reported[l])
    /\ loop[l] \in {"answer.nil", "answer.err", "none"} => ~plan[l] /\ ~reported[l]

LEMMA PlansStep == TypeOK /\ PlansEnded /\ [Next]_vars => PlansEnded'
<1> SUFFICES ASSUME TypeOK, PlansEnded, [Next]_vars
             PROVE  PlansEnded'
  OBVIOUS
<1> USE DEF PlansEnded
<1>1. CASE New \/ \E c \in Callers : Register(c)
  BY <1>1 DEF New, Register, Spawn, TypeOK
<1>2. CASE \E c \in Callers : \/ Deregister(c) \/ Shutdown(c) \/ Retag(c) \/ ForceRefresh(c)
                              \/ Continue(c)
  BY <1>2 DEF Deregister, Shutdown, Retag, ForceRefresh, Continue, Close, ChangeTags,
              SendOnClosed, watching
<1>3. CASE \E l \in Loops : ServeRefresh(l) \/ Tick(l) \/ Updated(l)
  BY <1>3 DEF ServeRefresh, Tick, Updated, watching
<1>4. CASE \E l \in Loops : ServeNobody(l) \/ Receive(l)
  BY <1>4 DEF ServeNobody, Receive, watching, TypeOK
<1>5. CASE \E l \in Loops : Rewatch(l)
  BY <1>5 DEF Rewatch, TypeOK
<1>6. CASE \E l \in Loops : Remove(l)
  BY <1>6 DEF Remove, PlanHasEnded, TypeOK
<1>7. CASE \E l \in Loops : Answer(l)
  BY <1>7 DEF Answer, After, watching, TypeOK
<1>8. CASE \E l \in Loops : Watch(l)
  BY <1>8 DEF Watch, PlanHit, PlanEnds, TypeOK
<1>9. CASE Vanish \/ UNCHANGED vars
  BY <1>9 DEF Vanish, vars, watching
<1> QED
  BY <1>1, <1>2, <1>3, <1>4, <1>5, <1>6, <1>7, <1>8, <1>9 DEF Next, Call, Continue, Maintain

\* No watch plan outlives the maintain() goroutine that closes its channels, however
\* many there are, and wpStopped never holds two ends.
THEOREM PlansEndFirst == Spec => []PlanEndsFirst
<1>1. Init => PlansEnded
  BY DEF Init, PlansEnded
<1>2. PlansEnded => PlanEndsFirst
  BY DEF PlansEnded, PlanEndsFirst
<1> QED
  BY <1>1, <1>2, PlansStep, TypeCorrect, PTL DEF Spec
-----------------------------------------------------------------------------
(***************************************************************************)
(* The stop protocol: every request finds a maintain() goroutine.          *)
(***************************************************************************)
Awaiting == {"deregister.await", "shutdown.await"}
Stopping == {"draining", "answer.nil", "answer.err"}

\* A goroutine on its way out holds the reply channel of a caller who waits for it,
\* and no other goroutine holds the same.
RepliesOwed ==
  \A l \in Loops : drop[l] # Nil =>
    /\ loop[l] \in Stopping /\ pc[drop[l]] \in Awaiting
    /\ \A k \in Loops : drop[k] = drop[l] => k = l

LEMMA RepliesStep == TypeOK /\ RepliesOwed /\ [Next]_vars => RepliesOwed'
<1> SUFFICES ASSUME TypeOK, RepliesOwed, [Next]_vars
             PROVE  RepliesOwed'
  OBVIOUS
<1> USE DEF RepliesOwed, Stopping, Awaiting
<1>0. Nil \notin Callers
  BY ServiceAssumption
<1>1. CASE New \/ \E c \in Callers : Register(c)
  BY <1>1 DEF New, Register, Spawn, TypeOK
<1>2. CASE \E c \in Callers : Deregister(c) \/ Shutdown(c) \/ Retag(c) \/ ForceRefresh(c)
                              \/ Continue(c)
  <2>1. UNCHANGED <<loop, drop>>
    BY <1>2 DEF Deregister, Shutdown, Retag, ForceRefresh, Continue, Close, ChangeTags, SendOnClosed
  <2>2. \A d \in Callers : pc[d] \in Awaiting => pc'[d] \in Awaiting
    <3>1. CASE \E c \in Callers : Deregister(c) \/ Shutdown(c) \/ Retag(c) \/ ForceRefresh(c)
      BY <3>1 DEF Deregister, Shutdown, Retag, ForceRefresh, Goto, TypeOK
    <3>2. CASE \E c \in Callers : Continue(c)
      <4> PICK c \in Callers : Continue(c)
        BY <3>2
      <4>1. pc' = pc \/ (pc[c] \notin Awaiting /\ \E p : Goto(c, p))
        BY DEF Continue, Close, ChangeTags, ForceRefresh, SendOnClosed
      <4> QED
        BY <4>1 DEF Goto, TypeOK
    <3> QED
      BY <1>2, <3>1, <3>2
  <2> QED
    BY <1>0, <2>1, <2>2 DEF TypeOK
<1>3. CASE \E l \in Loops : ServeRefresh(l)
  BY <1>0, <1>3 DEF ServeRefresh, Goto, TypeOK
<1>4. CASE \E l \in Loops : ServeNobody(l) \/ Tick(l) \/ Updated(l) \/ Rewatch(l) \/ Watch(l)
  BY <1>4 DEF ServeNobody, Tick, Updated, Rewatch, Watch, PlanHit, PlanEnds, TypeOK
<1>5. CASE \E l \in Loops : Receive(l)
  BY <1>0, <1>5 DEF Receive, Goto, TypeOK
<1>6. CASE \E l \in Loops : Remove(l)
  BY <1>6 DEF Remove, TypeOK
<1>7. CASE \E l \in Loops : Answer(l)
  BY <1>0, <1>7 DEF Answer, After, Goto, TypeOK
<1>8. CASE Vanish \/ UNCHANGED vars
  BY <1>8 DEF Vanish, vars
<1> QED
  BY <1>1, <1>2, <1>3, <1>4, <1>5, <1>6, <1>7, <1>8 DEF Next, Call, Continue, Maintain

LEMMA RepliesInvariant == Spec => []RepliesOwed
<1>1. Init => RepliesOwed
  BY DEF Init, RepliesOwed
<1> QED
  BY <1>1, RepliesStep, TypeCorrect, PTL DEF Spec

LEMMA FiniteCounts ==
  /\ IsFiniteSet(Waiting) /\ Cardinality(Waiting) \in Nat
  /\ IsFiniteSet(Selecting) /\ Cardinality(Selecting) \in Nat
<1>1. Waiting \in SUBSET Callers /\ Selecting \in SUBSET Loops
  BY DEF Waiting, Selecting
<1> QED
  BY <1>1, ServiceAssumption, FS_Subset, FS_CardinalityType

LEMMA FiniteCountsNext ==
  /\ IsFiniteSet(Waiting') /\ Cardinality(Waiting') \in Nat
  /\ IsFiniteSet(Selecting') /\ Cardinality(Selecting') \in Nat
<1>1. Waiting' \in SUBSET Callers /\ Selecting' \in SUBSET Loops
  BY DEF Waiting, Selecting
<1> QED
  BY <1>1, ServiceAssumption, FS_Subset, FS_CardinalityType

\* A service that starts to run has one goroutine more.
LEMMA CountSpawn ==
  ASSUME TypeOK, state # "running", state' = "running", Spawn, UNCHANGED pc,
         Cardinality(Waiting) + Running = Cardinality(Selecting)
  PROVE  Cardinality(Waiting') + Running' = Cardinality(Selecting')
<1> PICK l \in Loops : loop[l] = "none" /\ loop' = [loop EXCEPT ![l] = "select"]
  BY DEF Spawn
<1>1. Selecting' = Selecting \cup {l} /\ l \notin Selecting
  BY DEF Selecting, TypeOK
<1>2. Cardinality(Selecting') = Cardinality(Selecting) + 1
  BY <1>1, FiniteCounts, FS_AddElement
<1>3. Waiting' = Waiting
  BY DEF Waiting
<1> QED
  BY <1>2, <1>3, FiniteCounts DEF Running

\* A service that stops running has one request more on its way.
LEMMA CountStop ==
  ASSUME TypeOK, NEW c \in Callers, state = "running", state' # "running", UNCHANGED loop,
         pc[c] = "idle", NEW p \in {"deregister.send", "shutdown.send"}, Goto(c, p),
         Cardinality(Waiting) + Running = Cardinality(Selecting)
  PROVE  Cardinality(Waiting') + Running' = Cardinality(Selecting')
<1>1. Waiting' = Waiting \cup {c} /\ c \notin Waiting
  BY DEF Waiting, Goto, TypeOK
<1>2. Cardinality(Waiting') = Cardinality(Waiting) + 1
  BY <1>1, FiniteCounts, FS_AddElement
<1>3. Selecting' = Selecting
  BY DEF Selecting
<1> QED
  BY <1>2, <1>3, FiniteCounts DEF Running

LEMMA CountingStep ==
  TypeOK /\ RepliesOwed /\ StopFindsMaintainer /\ [Next]_vars => StopFindsMaintainer'
<1> SUFFICES ASSUME TypeOK, RepliesOwed, StopFindsMaintainer, [Next]_vars, ~closed'
             PROVE  Cardinality(Waiting') + Running' = Cardinality(Selecting')
  BY DEF StopFindsMaintainer
<1>0. ~closed /\ Cardinality(Waiting) + Running = Cardinality(Selecting)
  <2>1. ~closed
    BY DEF Next, Call, Continue, Maintain, Watch, New, Register, Deregister, Shutdown, Close,
           ForceRefresh, Retag, ChangeTags, SendOnClosed, ServeRefresh, ServeNobody, Tick,
           Updated, Rewatch, Receive, Remove, Answer, PlanHit, PlanEnds, Vanish, vars
  <2> QED
    BY <2>1 DEF StopFindsMaintainer
<1>1. CASE Waiting' = Waiting /\ Selecting' = Selecting /\ Running' = Running
  BY <1>0, <1>1
<1>2. CASE New \/ \E c \in Callers : Register(c)
  <2>1. UNCHANGED pc
    BY <1>2 DEF New, Register
  <2>2. CASE UNCHANGED <<state, loop>>
    BY <1>1, <2>1, <2>2 DEF Waiting, Selecting, Running
  <2>3. CASE state # "running" /\ state' = "running" /\ Spawn
    BY <1>0, <2>1, <2>3, CountSpawn
  <2> QED
    BY <1>2, <2>2, <2>3 DEF New, Register
<1>3. CASE \E c \in Callers : Deregister(c) \/ Shutdown(c)
  <2> PICK c \in Callers : Deregister(c) \/ Shutdown(c)
    BY <1>3
  <2>1. UNCHANGED loop /\ pc[c] = "idle"
    BY DEF Deregister, Shutdown
  <2>2. CASE state = "running"
    <3>1. state' # "running"
          /\ \E p \in {"deregister.send", "shutdown.send"} : Goto(c, p)
      BY <2>2 DEF Deregister, Shutdown, RequiresStop
    <3> QED
      BY <1>0, <2>1, <2>2, <3>1, CountStop
  <2>3. CASE state # "running"
    <3>1. state' # "running" /\ (UNCHANGED pc \/ Goto(c, "shutdown.close"))
      BY <2>3 DEF Deregister, Shutdown, RequiresStop
    <3>2. Waiting' = Waiting
      BY <2>1, <3>1 DEF Waiting, Goto, TypeOK
    <3> QED
      BY <1>1, <2>1, <2>3, <3>1, <3>2 DEF Selecting, Running
  <2> QED
    BY <2>2, <2>3
<1>4. CASE \E c \in Callers : Close(c) \/ ForceRefresh(c) \/ Retag(c) \/ ChangeTags(c) \/ SendOnClosed(c)
  <2> PICK c \in Callers : Close(c) \/ ForceRefresh(c) \/ Retag(c) \/ ChangeTags(c) \/ SendOnClosed(c)
    BY <1>4
  <2>1. UNCHANGED <<state, loop>>
    BY DEF Close, ForceRefresh, Retag, ChangeTags, SendOnClosed
  <2>2. \/ UNCHANGED pc
        \/ /\ pc[c] \notin {"deregister.send", "shutdown.send"}
           /\ \E p \in {"idle", "retag", "refresh", "refresh.send"} : Goto(c, p)
    BY DEF Close, ForceRefresh, Retag, ChangeTags, SendOnClosed, AfterChange
  <2>3. Waiting' = Waiting
    BY <2>2 DEF Waiting, Goto, TypeOK
  <2> QED
    BY <1>1, <2>1, <2>3 DEF Selecting, Running
<1>5. CASE \E l \in Loops : ServeRefresh(l)
  <2>1. Waiting' = Waiting
    BY <1>5 DEF ServeRefresh, Waiting, Goto, TypeOK
  <2> QED
    BY <1>1, <1>5, <2>1 DEF ServeRefresh, Selecting, Running
<1>6. CASE \E l \in Loops : ServeNobody(l) \/ Tick(l) \/ Updated(l) \/ Rewatch(l) \/ Watch(l)
  <2>1. UNCHANGED <<state, pc, loop>>
    BY <1>0, <1>6 DEF ServeNobody, Tick, Updated, Rewatch, Watch, PlanHit, PlanEnds
  <2> QED
    BY <1>1, <2>1 DEF Waiting, Selecting, Running
<1>7. CASE \E l \in Loops : Receive(l)
  <2> PICK l \in Loops : Receive(l)
    BY <1>7
  <2> PICK c \in Callers :
        /\ pc[c] \in {"deregister.send", "shutdown.send"}
        /\ \E p \in Awaiting : Goto(c, p)
    BY <1>0 DEF Receive, Awaiting
  <2>1. Waiting' = Waiting \ {c} /\ c \in Waiting
    BY DEF Waiting, Goto, Awaiting, TypeOK
  <2>2. Selecting' = Selecting \ {l} /\ l \in Selecting
    BY DEF Receive, Selecting, TypeOK
  <2>3. /\ Cardinality(Waiting') = Cardinality(Waiting) - 1
        /\ Cardinality(Selecting') = Cardinality(Selecting) - 1
    BY <2>1, <2>2, FiniteCounts, FS_RemoveElement
  <2>4. Running' = Running /\ Running \in Nat
    BY DEF Receive, Running
  <2> QED
    BY <1>0, <2>3, <2>4, FiniteCounts
<1>8. CASE \E l \in Loops : Remove(l)
  <2>1. Selecting' = Selecting
    BY <1>8 DEF Remove, Selecting, TypeOK
  <2> QED
    BY <1>1, <1>8, <2>1 DEF Remove, Waiting, Running
<1>9. CASE \E l \in Loops : Answer(l)
  <2> PICK l \in Loops : Answer(l)
    BY <1>9
  <2>1. Selecting' = Selecting
    BY DEF Answer, After, Selecting, TypeOK
  <2>2. CASE UNCHANGED pc
    BY <1>1, <2>1, <2>2 DEF Answer, Waiting, Running
  <2>3. CASE drop[l] # Nil /\ \E p \in {"shutdown.close", "idle"} : Goto(drop[l], p)
    <3>1. pc[drop[l]] \in Awaiting
      BY <2>3 DEF RepliesOwed
    <3>2. Waiting' = Waiting
      BY <2>3, <3>1 DEF Waiting, Goto, Awaiting, TypeOK
    <3> QED
      BY <1>1, <2>1, <3>2 DEF Answer, Running
  <2> QED
    BY <2>2, <2>3 DEF Answer, After
<1>10. CASE Vanish \/ UNCHANGED vars
  BY <1>1, <1>10 DEF Vanish, vars, Waiting, Selecting, Running
<1> QED
  BY <1>2, <1>3, <1>4, <1>5, <1>6, <1>7, <1>8, <1>9, <1>10 DEF Next, Call, Continue, Maintain

\* Deregister() and Shutdown() never wait for a goroutine that is not there, and none of
\* their requests ends the goroutine of a service that runs again, however many
\* callers race.
THEOREM StopMeetsMaintainer == Spec => []StopFindsMaintainer
<1>1. Init => StopFindsMaintainer
  <2> SUFFICES ASSUME Init PROVE StopFindsMaintainer
    OBVIOUS
  <2>1. Waiting = {} /\ Selecting = {} /\ Running = 0
    BY DEF Init, Waiting, Selecting, Running
  <2> QED
    BY <2>1, FS_EmptySet DEF StopFindsMaintainer
<1> QED
  BY <1>1, CountingStep, TypeCorrect, RepliesInvariant, PTL DEF Spec
-----------------------------------------------------------------------------
(***************************************************************************)
(* Shutdown().  What a stop relies on when it has overtaken no call that   *)
(* needs the goroutine it ends.                                            *)
(***************************************************************************)
ShutdownPCs == {"shutdown.send", "shutdown.await", "shutdown.close"}

\* Only Shutdown() closes the channels, and nothing follows it.
ShutdownIsLast ==
  /\ closed => state = "shutdowned"
  /\ \A c \in Callers : pc[c] \in ShutdownPCs => state = "shutdowned"

\* A Shutdown() is alone.
ShutdownIsAlone ==
  state = "shutdowned" => \A c, d \in Busy : c = d /\ pc[c] \in ShutdownPCs

\* When it closes the channels, no goroutine is left to receive from them.
ClosedIsQuiet == closed => Busy = {} /\ Selecting = {}

\* Every goroutine that stops was asked to by a caller.
StoppedOnRequest == \A l \in Loops : loop[l] \in Stopping => drop[l] # Nil

\* No tag change and no ForceRefresh() meets a stopped service.
NoneRelies == state \in {"stopped", "shutdowned"} => Relying = {}

Orderly == /\ ShutdownIsLast
           /\ ~misused => ShutdownIsAlone /\ ClosedIsQuiet /\ StoppedOnRequest /\ NoneRelies

LEMMA OrderlyStep ==
  TypeOK /\ NewIsQuiet /\ StopFindsMaintainer /\ Orderly /\ [Next]_vars => Orderly'
<1> SUFFICES ASSUME TypeOK, NewIsQuiet, StopFindsMaintainer, Orderly, [Next]_vars
             PROVE  Orderly'
  OBVIOUS
<1> DEFINE Quiet == ShutdownIsAlone /\ ClosedIsQuiet /\ StoppedOnRequest /\ NoneRelies
<1> USE DEF Orderly
<1>0. Nil \notin Callers \cup Loops
  BY ServiceAssumption
<1>1. ASSUME UNCHANGED <<state, closed, pc, loop, drop, misused>>
      PROVE  Orderly'
  BY <1>1 DEF ShutdownIsLast, ShutdownIsAlone, ClosedIsQuiet, StoppedOnRequest, NoneRelies,
              Busy, Relying, Selecting
<1>2. CASE New \/ \E c \in Callers : Register(c)
  <2>1. state # "shutdowned" \/ UNCHANGED <<state, loop>>
    BY <1>2 DEF New, Register
  <2>2. UNCHANGED <<closed, pc, drop, misused>>
    BY <1>2 DEF New, Register, history
  <2>3. CASE UNCHANGED <<state, loop>>
    BY <1>1, <2>2, <2>3
  <2>4. CASE state \in {"new", "stopped"} /\ state' = "running" /\ Spawn
    <3>1. ~closed /\ ShutdownIsLast'
      BY <2>2, <2>4 DEF ShutdownIsLast
    <3>2. ~misused => StoppedOnRequest'
      BY <2>2, <2>4 DEF StoppedOnRequest, Spawn, Stopping, TypeOK
    <3> QED
      BY <2>2, <2>4, <3>1, <3>2 DEF ShutdownIsAlone, ClosedIsQuiet, NoneRelies
  <2> QED
    BY <1>2, <2>3, <2>4 DEF New, Register
<1>3. CASE \E c \in Callers : Deregister(c)
  <2> PICK c \in Callers : Deregister(c)
    BY <1>3
  <2>1. CASE UNCHANGED <<state, pc, misused>>
    BY <1>1, <2>1 DEF Deregister
  <2>2. CASE /\ state = "running" /\ state' = "stopped" /\ Goto(c, "deregister.send")
             /\ misused' = (misused \/ Relying # {})
    <3>1. ~closed' /\ ShutdownIsLast'
      BY <2>2 DEF Deregister, ShutdownIsLast, ShutdownPCs, Goto, TypeOK
    <3>2. Relying = {} => Relying' = {}
      BY <2>2 DEF Relying, Goto, TypeOK
    <3> QED
      BY <2>2, <3>1, <3>2 DEF Deregister, ShutdownIsAlone, ClosedIsQuiet, StoppedOnRequest,
                              NoneRelies
  <2> QED
    BY <2>1, <2>2 DEF Deregister
<1>4. CASE \E c \in Callers : Shutdown(c)
  <2> PICK c \in Callers : Shutdown(c)
    BY <1>4
  <2>1. CASE UNCHANGED <<state, pc, misused>>
    BY <1>1, <2>1 DEF Shutdown
  <2>2. CASE /\ state # "shutdowned" /\ state' = "shutdowned"
             /\ \E p \in ShutdownPCs : Goto(c, p)
             /\ misused' = (misused \/ Busy # {})
    <3>1. ~closed' /\ ShutdownIsLast'
      BY <2>2 DEF Shutdown, ShutdownIsLast
    <3>2. Busy = {} => Busy' = {c} /\ pc'[c] \in ShutdownPCs
      BY <2>2 DEF Busy, ShutdownPCs, Goto, TypeOK
    <3>3. Busy = {} => Relying' = {}
      BY <2>2 DEF Busy, Relying, ShutdownPCs, Goto, TypeOK
    <3> QED
      BY <2>2, <3>1, <3>2, <3>3 DEF Shutdown, ShutdownIsAlone, ClosedIsQuiet,
                                    StoppedOnRequest, NoneRelies
  <2> QED
    BY <2>1, <2>2 DEF Shutdown, ShutdownPCs
<1>5. CASE \E c \in Callers : Close(c)
  <2> PICK c \in Callers : Close(c)
    BY <1>5
  <2>1. state = "shutdowned" /\ c \in Busy
    BY DEF Close, ShutdownIsLast, ShutdownPCs, Busy
  <2>2. ShutdownIsLast'
    BY <2>1 DEF Close, ShutdownIsLast
  <2>3. ASSUME ~misused
        PROVE  Busy = {c} /\ ~closed
    BY <2>1, <2>3 DEF ShutdownIsAlone, ClosedIsQuiet
  <2>4. ASSUME ~misused
        PROVE  Selecting = {}
    <3>1. Waiting = {} /\ Running = 0
      BY <2>1, <2>3, <2>4 DEF Close, Waiting, Running, Busy
    <3> QED
      BY <2>3, <2>4, <3>1, FiniteCounts, FS_EmptySet DEF StopFindsMaintainer
  <2>5. ~misused => Busy' = {} /\ Relying' = {}
    BY <2>3 DEF Close, Busy, Relying, Goto, TypeOK
  <2> QED
    BY <2>2, <2>4, <2>5 DEF Close, history, Selecting, ShutdownIsAlone, ClosedIsQuiet,
                            StoppedOnRequest, NoneRelies
<1>6. CASE \E c \in Callers : (ForceRefresh(c) /\ state # "new") \/ Retag(c) \/ ChangeTags(c)
  <2> PICK c \in Callers : (ForceRefresh(c) /\ state # "new") \/ Retag(c) \/ ChangeTags(c)
    BY <1>6
  <2>1. UNCHANGED <<state, closed, loop, drop, misused>>
    BY DEF ForceRefresh, Retag, ChangeTags, history
  <2>2. CASE state = "running"
    <3>1. ShutdownIsLast'
      BY <2>1, <2>2 DEF ForceRefresh, Retag, ChangeTags, AfterChange, Goto, ShutdownIsLast,
                        ShutdownPCs, TypeOK
    <3> QED
      BY <2>1, <2>2, <3>1 DEF ShutdownIsLast, ShutdownIsAlone, ClosedIsQuiet,
                              StoppedOnRequest, NoneRelies
  <2>3. CASE state # "running"
    <3>1. CASE pc' = pc
      BY <1>1, <2>1, <3>1
    <3>2. CASE c \in Relying /\ \E p \in {"idle", AfterChange} : Goto(c, p)
      <4>1. misused
        BY <2>3, <3>2 DEF NoneRelies, Relying, TypeOK, NewIsQuiet
      <4> QED
        BY <2>1, <3>2, <4>1 DEF ShutdownIsLast, ShutdownPCs, AfterChange, Goto, TypeOK
    <3>3. CASE pc[c] = "idle" /\ Goto(c, "idle")
      BY <3>1, <3>3 DEF Goto, TypeOK
    <3> QED
      BY <2>3, <3>1, <3>2, <3>3 DEF ForceRefresh, Retag, ChangeTags, Relying
  <2> QED
    BY <2>2, <2>3
<1>7. CASE \E l \in Loops : ServeRefresh(l)
  <2> PICK l \in Loops : ServeRefresh(l)
    BY <1>7
  <2> PICK c \in Callers : pc[c] = "refresh.send" /\ Goto(c, "idle")
    BY DEF ServeRefresh
  <2>1. UNCHANGED <<state, closed, loop, drop, misused>>
    BY DEF ServeRefresh
  <2>2. Busy' \subseteq Busy /\ Relying' \subseteq Relying
    BY DEF Busy, Relying, Goto, TypeOK
  <2>3. \A d \in Callers : d \in Busy' => pc'[d] = pc[d]
    BY DEF Busy, Goto, TypeOK
  <2> QED
    BY <2>1, <2>2, <2>3 DEF ShutdownIsLast, ShutdownIsAlone, ClosedIsQuiet, StoppedOnRequest,
                            NoneRelies, Selecting, Busy, ShutdownPCs
<1>8. CASE \E l \in Loops : ServeNobody(l)
  <2>1. misused
    BY <1>8 DEF ServeNobody, ClosedIsQuiet, Selecting
  <2> QED
    BY <1>8, <2>1 DEF ServeNobody, history, ShutdownIsLast
<1>9. CASE \E l \in Loops : Receive(l)
  <2> PICK l \in Loops : Receive(l)
    BY <1>9
  <2>1. UNCHANGED <<state, closed, misused>> /\ l \in Selecting
    BY DEF Receive, history, Selecting
  <2>2. CASE closed /\ UNCHANGED pc
    <3>1. misused
      BY <2>1, <2>2 DEF ClosedIsQuiet
    <3> QED
      BY <2>1, <2>2, <3>1 DEF ShutdownIsLast
  <2>3. ASSUME NEW c \in Callers, ~closed,
               pc[c] \in {"deregister.send", "shutdown.send"},
               Goto(c, IF pc[c] = "shutdown.send" THEN "shutdown.await" ELSE "deregister.await"),
               drop' = [drop EXCEPT ![l] = c]
        PROVE  Orderly'
    <3>1. ShutdownIsLast'
      BY <2>1, <2>3 DEF ShutdownIsLast, ShutdownPCs, Goto, TypeOK
    <3>2. Busy' = Busy /\ Relying' = Relying
      BY <2>3 DEF Busy, Relying, Goto, TypeOK
    <3>3. \A d \in Callers : pc[d] \in ShutdownPCs => pc'[d] \in ShutdownPCs
      BY <2>3 DEF ShutdownPCs, Goto, TypeOK
    <3>4. ~misused => StoppedOnRequest'
      BY <1>0, <2>3 DEF Receive, StoppedOnRequest, Stopping, TypeOK
    <3> QED
      BY <2>1, <2>3, <3>1, <3>2, <3>3, <3>4
         DEF ShutdownIsAlone, ClosedIsQuiet, NoneRelies, Busy
  <2> QED
    BY <2>2, <2>3 DEF Receive
<1>10. CASE \E l \in Loops : Remove(l) \/ Answer(l)
  <2> PICK l \in Loops : Remove(l) \/ Answer(l)
    BY <1>10
  <2>1. UNCHANGED <<state, closed, misused>> /\ Selecting' = Selecting
    BY DEF Remove, Answer, After, history, Selecting, TypeOK
  <2>2. ~misused => StoppedOnRequest'
    BY DEF Remove, Answer, After, StoppedOnRequest, Stopping, TypeOK
  <2>3. CASE UNCHANGED pc
    BY <2>1, <2>2, <2>3 DEF ShutdownIsLast, ShutdownIsAlone, ClosedIsQuiet, NoneRelies, Busy,
                            Relying
  <2>4. CASE /\ drop[l] # Nil
             /\ Goto(drop[l], IF pc[drop[l]] = "shutdown.await" THEN "shutdown.close" ELSE "idle")
    <3>1. ShutdownIsLast'
      BY <2>1, <2>4 DEF ShutdownIsLast, ShutdownPCs, Goto, TypeOK
    <3>2. Busy' \subseteq Busy /\ Relying' \subseteq Relying
      BY <2>4 DEF Busy, Relying, Goto, TypeOK
    <3>3. \A d \in Callers : d \in Busy' /\ pc[d] \in ShutdownPCs => pc'[d] \in ShutdownPCs
      BY <2>4 DEF Busy, ShutdownPCs, Goto, TypeOK
    <3> QED
      BY <2>1, <2>2, <3>1, <3>2, <3>3 DEF ShutdownIsAlone, ClosedIsQuiet, NoneRelies, Busy
  <2> QED
    BY <2>3, <2>4 DEF Remove, Answer, After
<1>11. CASE \/ \E c \in Callers : SendOnClosed(c)
            \/ \E l \in Loops : Tick(l) \/ Updated(l) \/ Rewatch(l) \/ Watch(l)
            \/ Vanish
            \/ UNCHANGED vars
  BY <1>1, <1>11 DEF SendOnClosed, Tick, Updated, Rewatch, Watch, PlanHit, PlanEnds, Vanish,
                     vars, history
<1> QED
  BY <1>2, <1>3, <1>4, <1>5, <1>6, <1>7, <1>8, <1>9, <1>10, <1>11
     DEF Next, Call, Continue, Maintain, NewIsQuiet

LEMMA OrderlyInvariant == Spec => []Orderly
<1>1. Init => Orderly
  BY DEF Init, Orderly, ShutdownIsLast, ShutdownPCs, ShutdownIsAlone, ClosedIsQuiet,
         StoppedOnRequest, Stopping, NoneRelies
<1> QED
  BY <1>1, OrderlyStep, TypesInvariant, StopMeetsMaintainer, PTL DEF Spec, Types
-----------------------------------------------------------------------------
(***************************************************************************)
(* No panic and no ms.mu that stays locked.                                *)
(***************************************************************************)
\* The construction kills the process without locking anything for good.
OnlyWedgedBy == /\ panicked => state = "new" \/ misused
                /\ mu # Nil => misused

LEMMA WedgedStep ==
  Types /\ Orderly /\ OnlyWedgedBy /\ [Next]_vars => OnlyWedgedBy'
<1> SUFFICES ASSUME TypeOK, NewIsQuiet, Orderly, OnlyWedgedBy, [Next]_vars
             PROVE  OnlyWedgedBy'
  BY DEF Types
<1>1. ASSUME UNCHANGED <<panicked, mu>>, misused => misused', state = "new" => state' = "new"
      PROVE  OnlyWedgedBy'
  BY <1>1 DEF OnlyWedgedBy
<1>2. CASE New
  BY <1>2 DEF New, history, OnlyWedgedBy
<1>3. CASE \E c \in Callers : SendOnClosed(c)
  <2>1. closed /\ Busy # {}
    BY <1>3 DEF SendOnClosed, Busy
  <2> QED
    BY <1>3, <2>1 DEF SendOnClosed, history, Orderly, ClosedIsQuiet, OnlyWedgedBy
<1>4. CASE \E l \in Loops : ServeNobody(l)
  <2>1. closed /\ Selecting # {}
    BY <1>4 DEF ServeNobody, Selecting
  <2> QED
    BY <1>4, <2>1 DEF ServeNobody, history, Orderly, ClosedIsQuiet, OnlyWedgedBy
<1>5. CASE \E c \in Callers : (Register(c) \/ Deregister(c) \/ Shutdown(c)) /\ state # "new"
  <2> PICK c \in Callers : (Register(c) \/ Deregister(c) \/ Shutdown(c)) /\ state # "new"
    BY <1>5
  <2>1. UNCHANGED <<panicked, mu>>
    BY DEF Register, Deregister, Shutdown
  <2>2. misused => misused'
    BY Zenon DEF Register, Deregister, Shutdown
  <2> QED
    BY <1>1, <1>5, <2>1, <2>2
<1>6. CASE \/ \E c \in Callers : Close(c) \/ Retag(c) \/ ForceRefresh(c) \/ ChangeTags(c)
           \/ \E l \in Loops : \/ ServeRefresh(l) \/ Tick(l) \/ Updated(l) \/ Rewatch(l)
                               \/ Receive(l) \/ Remove(l) \/ Answer(l) \/ Watch(l)
           \/ Vanish
           \/ UNCHANGED vars
  BY <1>1, <1>6 DEF Close, Retag, ForceRefresh, ChangeTags, ServeRefresh, Tick, Updated, Rewatch,
                    Receive, Remove, Answer, Watch, PlanHit, PlanEnds, Vanish, vars, history
<1> QED
  BY <1>2, <1>3, <1>4, <1>5, <1>6 DEF Next, Call, Continue, Maintain

\* A send on a closed channel, and a refresh whose result nobody takes, need a
\* Shutdown() that overtook another call; otherwise only a first refresh that fails
\* kills the process, and ms.mu can always be locked again.
THEOREM NeverWedgedUnlessMisused == Spec => []NeverWedged
<1>1. Init => OnlyWedgedBy
  BY DEF Init, OnlyWedgedBy
<1>2. OnlyWedgedBy => NeverWedged
  BY DEF OnlyWedgedBy, NeverWedged
<1> QED
  BY <1>1, <1>2, WedgedStep, TypesInvariant, OrderlyInvariant, PTL DEF Spec
-----------------------------------------------------------------------------
(***************************************************************************)
(* What is stopped stays out of the agent.                                 *)
(***************************************************************************)
\* A service that is not running is in the agent only as long as a goroutine is there
\* that has yet to remove it.
GoneUnlessRemoving ==
  /\ ~misused /\ ~failed /\ state \in {"stopped", "shutdowned"}
  /\ \A l \in Loops : loop[l] \notin {"select", "draining"}
  => agent = Absent

LEMMA GoneStep ==
  /\ Types /\ Orderly /\ StopFindsMaintainer
  /\ GoneUnlessRemoving /\ [Next]_vars
  => GoneUnlessRemoving'
<1> SUFFICES ASSUME TypeOK, NewIsQuiet, Orderly, StopFindsMaintainer, GoneUnlessRemoving,
                    [Next]_vars,
                    ~misused', ~failed', state' \in {"stopped", "shutdowned"},
                    \A l \in Loops : loop'[l] \notin {"select", "draining"}
             PROVE  agent' = Absent
  BY DEF Types, GoneUnlessRemoving
<1> USE DEF history
<1>1. ASSUME ~misused, ~failed, state \in {"stopped", "shutdowned"}, UNCHANGED agent,
             \A l \in Loops : loop[l] \in {"select", "draining"} => loop'[l] = loop[l]
      PROVE  agent' = Absent
  BY <1>1 DEF GoneUnlessRemoving
<1>2. CASE New \/ \E c \in Callers : Register(c)
  BY <1>1, <1>2 DEF New, Register
<1>3. CASE \E c \in Callers : Deregister(c) \/ Shutdown(c)
  <2> PICK c \in Callers : Deregister(c) \/ Shutdown(c)
    BY <1>3
  <2>0. ~misused
    BY Zenon DEF Deregister, Shutdown
  <2>1. UNCHANGED <<agent, loop, failed>>
    BY DEF Deregister, Shutdown
  <2>2. state # "running"
    <3> SUFFICES ASSUME state = "running" PROVE FALSE
      OBVIOUS
    <3>1. Running = 1 /\ ~closed
      BY DEF Running, Orderly, ShutdownIsLast
    <3>2. Selecting # {}
      BY <3>1, FiniteCounts, FS_EmptySet DEF StopFindsMaintainer
    <3> QED
      BY <2>1, <3>2 DEF Selecting
  <2> QED
    BY <1>1, <2>0, <2>1, <2>2 DEF Deregister, Shutdown
<1>4. CASE \E c \in Callers : ChangeTags(c)
  <2>1. UNCHANGED <<state, misused>> /\ Relying # {}
    BY <1>4 DEF ChangeTags, Relying
  <2> QED
    BY <2>1 DEF Orderly, NoneRelies
<1>5. CASE \E l \in Loops : ServeRefresh(l) \/ Tick(l) \/ Updated(l)
  BY <1>5 DEF ServeRefresh, Tick, Updated
<1>6. CASE \E l \in Loops : ServeNobody(l)
  <2>1. closed /\ Selecting # {} /\ UNCHANGED misused
    BY <1>6 DEF ServeNobody, Selecting
  <2> QED
    BY <2>1 DEF Orderly, ClosedIsQuiet
<1>7. CASE \E l \in Loops : Receive(l)
  BY <1>7 DEF Receive, TypeOK
<1>8. CASE \E l \in Loops : Remove(l)
  <2> PICK l \in Loops : Remove(l)
    BY <1>8
  <2> PICK o \in DeregisterOutcomes(agent) : agent' = o.agent /\ failed' = (failed \/ ~o.ok)
    BY DEF Remove
  <2>1. o.ok
    BY Zenon
  <2> QED
    BY <2>1, DeregisterFacts
<1>9. CASE \E l \in Loops : Answer(l)
  <2> PICK l \in Loops : Answer(l)
    BY <1>9
  <2>1. \A k \in Loops : loop[k] \in {"select", "draining"} => loop'[k] = loop[k]
    BY DEF Answer, TypeOK
  <2> QED
    BY <1>1, <2>1 DEF Answer
<1>10. CASE Vanish
  BY <1>10 DEF Vanish
<1>11. CASE \/ \E c \in Callers : Close(c) \/ ForceRefresh(c) \/ Retag(c) \/ SendOnClosed(c)
            \/ \E l \in Loops : Rewatch(l) \/ Watch(l)
            \/ UNCHANGED vars
  <2>1. UNCHANGED <<agent, loop, failed, misused, state>>
    BY <1>11 DEF Close, ForceRefresh, Retag, SendOnClosed, Rewatch, Watch, PlanHit, PlanEnds, vars
  <2> QED
    BY <1>1, <2>1
<1> QED
  BY <1>2, <1>3, <1>4, <1>5, <1>6, <1>7, <1>8, <1>9, <1>10, <1>11
     DEF Next, Call, Continue, Maintain

\* Once every call has returned, a service that was deregistered or shut down is not in
\* the agent, however the calls raced, unless a request failed or a tag change was
\* overtaken: nothing that was under way puts it back.
THEOREM StaysGoneWhenStopped == Spec => []StaysGone
<1>1. Init => GoneUnlessRemoving
  BY DEF Init, GoneUnlessRemoving
<1>2. /\ Types /\ Orderly /\ StopFindsMaintainer /\ RepliesOwed /\ GoneUnlessRemoving
      => StaysGone
  <2> SUFFICES ASSUME TypeOK, Orderly, StopFindsMaintainer, RepliesOwed, GoneUnlessRemoving,
                      Busy = {}, state \in {"stopped", "shutdowned"}, ~failed, ~misused
               PROVE  agent = Absent
    BY DEF Types, StaysGone
  <2>1. Selecting = {}
    <3>1. Waiting = {} /\ Running = 0
      BY DEF Waiting, Running, Busy
    <3> QED
      BY <3>1, FiniteCounts, FS_EmptySet DEF StopFindsMaintainer, Orderly, ClosedIsQuiet
  <2>2. \A l \in Loops : loop[l] # "draining"
    <3> SUFFICES ASSUME NEW l \in Loops, loop[l] = "draining" PROVE FALSE
      OBVIOUS
    <3>1. drop[l] \in Callers /\ pc[drop[l]] \in Awaiting
      BY DEF Orderly, StoppedOnRequest, Stopping, RepliesOwed, TypeOK
    <3> QED
      BY <3>1 DEF Busy, Awaiting
  <2> QED
    BY <2>1, <2>2 DEF GoneUnlessRemoving, Selecting
<1> QED
  BY <1>1, <1>2, GoneStep, TypesInvariant, OrderlyInvariant, StopMeetsMaintainer,
     RepliesInvariant, PTL DEF Spec
-----------------------------------------------------------------------------
(***************************************************************************)
(* Tag changes.                                                            *)
(***************************************************************************)
\* The agent has the tags asked for if it has the service, and the copy has them if
\* it is all that is left of them, or when no change waits for its refresh.
TagsKept ==
  clean => /\ agent # Absent => agent.tags = want
           /\ state # "new" /\ (agent = Absent \/ ~Unsettled) => svc.tags = want

\* What the history of the tag changes is after one more of them.
LEMMA AskedFacts ==
  ASSUME NEW good, NEW tags, Asked(good, tags), clean'
  PROVE  clean /\ good /\ want' = tags
BY Zenon DEF Asked

\* A change that succeeds: the agent has what was asked for, the copy not yet.
LEMMA ChangeKeepsTags ==
  ASSUME TypeOK, NewIsQuiet, TagsKept, NEW c \in Callers, ChangeTags(c)
  PROVE  TagsKept'
<1>1. state # "new" /\ svc.tags \in SUBSET Tags /\ pc[c] = "retag"
  BY DEF ChangeTags, NewIsQuiet, TypeOK, Definition
<1>2. ASSUME UNCHANGED <<agent, asked>>, NEW p, Goto(c, p)
      PROVE  TagsKept'
  <2>1. Unsettled => Unsettled'
    BY <1>1, <1>2 DEF Unsettled, Goto, TypeOK
  <2> QED
    BY <1>1, <1>2, <2>1 DEF ChangeTags, TagsKept, asked
<1>3. ASSUME NEW given \in SUBSET Tags, NEW add \in BOOLEAN, NEW tags, NEW asks,
             tags = IF add THEN svc.tags \cup given ELSE svc.tags \ given,
             asks = IF add THEN want \cup given ELSE want \ given,
             NEW o \in RegisterOutcomes(Registration(tags), agent), agent' = o.agent,
             Goto(c, IF o.ok THEN AfterChange ELSE "idle"),
             Asked(o.ok /\ ~Unsettled, asks), clean'
      PROVE  TagsKept'
  <2>1. clean /\ o.ok /\ ~Unsettled /\ want' = asks
    BY <1>3, AskedFacts
  <2>2. svc.tags = want /\ tags \in SUBSET Tags
    BY <1>1, <1>3, <2>1 DEF TagsKept
  <2>3. agent'.tags = want' /\ agent' # Absent
    <3>1. agent' = Registration(tags)
      BY <1>3, <2>1, RegisterFacts
    <3> QED
      BY <1>3, <2>1, <2>2, <3>1, RegistrationFacts, ServiceAssumption DEF Definition
  <2>4. Unsettled'
    BY <1>3, <2>1 DEF Unsettled, AfterChange, Goto, TypeOK
  <2> QED
    BY <2>3, <2>4 DEF TagsKept
<1> QED
  <2> SUFFICES ASSUME clean' PROVE TagsKept'
    BY DEF TagsKept
  <2> QED
    BY <1>2, <1>3 DEF ChangeTags

\* A refresh carries tags from the agent to the copy, or back when the agent lost them.
LEMMA RefreshKeepsTags ==
  ASSUME TypeOK, state # "new", TagsKept, clean, UNCHANGED <<state, want>>,
         NEW ok \in BOOLEAN, Refresh(ok), ok \/ UNCHANGED pc
  PROVE  TagsKept'
<1>1. /\ svc' \in Definition
      /\ agent # Absent => agent' = agent
      /\ agent' # Absent => agent'.tags = IF agent # Absent THEN agent.tags ELSE svc.tags
      /\ svc' = svc \/ (svc' = agent' /\ agent' # Absent)
      /\ ok => svc' = agent'
  BY RefreshStep
<1>2. agent' # Absent => agent'.tags = want'
  BY <1>1 DEF TagsKept
<1>3. CASE ok
  BY <1>1, <1>2, <1>3, ServiceAssumption DEF TagsKept, Definition
<1>4. CASE UNCHANGED pc
  <2>1. Unsettled' = Unsettled
    BY <1>4 DEF Unsettled
  <2> QED
    BY <1>1, <1>2, <2>1 DEF TagsKept
<1> QED
  BY <1>3, <1>4

LEMMA TagsStep ==
  Types /\ RepliesOwed /\ TagsKept /\ [Next]_vars => TagsKept'
<1> SUFFICES ASSUME TypeOK, NewIsQuiet, RepliesOwed, TagsKept, [Next]_vars, clean'
             PROVE  TagsKept'
  BY DEF Types, TagsKept
<1> USE DEF asked, history
<1>1. ASSUME UNCHANGED <<svc, agent, asked>>, state' = "new" <=> state = "new",
             Unsettled => Unsettled'
      PROVE  TagsKept'
  BY <1>1 DEF TagsKept
<1>2. CASE New
  BY <1>2 DEF New, TagsKept
<1>3. CASE \E c \in Callers : (Register(c) \/ Deregister(c) \/ Shutdown(c)) /\ state # "new"
  <2> PICK c \in Callers : (Register(c) \/ Deregister(c) \/ Shutdown(c)) /\ state # "new"
    BY <1>3
  <2>1. UNCHANGED <<svc, agent, asked>> /\ state' # "new"
    BY DEF Register, Deregister, Shutdown
  <2>2. pc[c] = "idle" /\ (UNCHANGED pc \/ \E p : Goto(c, p))
    BY DEF Register, Deregister, Shutdown
  <2>3. Unsettled => Unsettled'
    BY <2>2 DEF Unsettled, Goto, TypeOK
  <2> QED
    BY <1>1, <2>1, <2>3
<1>4. CASE \E c \in Callers : Close(c) \/ Retag(c) \/ SendOnClosed(c)
  <2> PICK c \in Callers : Close(c) \/ Retag(c) \/ SendOnClosed(c)
    BY <1>4
  <2>1. UNCHANGED <<svc, agent, asked, state>>
    BY DEF Close, Retag, SendOnClosed
  <2>2. UNCHANGED pc \/ (pc[c] \in {"idle", "shutdown.close"} /\ \E p : Goto(c, p))
    BY DEF Close, Retag, SendOnClosed
  <2>3. Unsettled => Unsettled'
    BY <2>2 DEF Unsettled, Goto, TypeOK
  <2> QED
    BY <1>1, <2>1, <2>3
<1>5. CASE \E c \in Callers : ForceRefresh(c)
  <2> PICK c \in Callers : ForceRefresh(c)
    BY <1>5
  <2>1. clean /\ (pc[c] = "refresh" => state = "running") /\ want' = want
    BY AskedFacts DEF ForceRefresh
  <2>2. Unsettled => Unsettled'
    BY <2>1 DEF ForceRefresh, Unsettled, Goto, TypeOK
  <2> QED
    BY <2>1, <2>2 DEF ForceRefresh, TagsKept
<1>6. CASE \E c \in Callers : ChangeTags(c)
  BY <1>6, ChangeKeepsTags
<1>7. CASE \E l \in Loops : ServeRefresh(l)
  <2> PICK l \in Loops : ServeRefresh(l)
    BY <1>7
  <2> PICK ok \in BOOLEAN : Refresh(ok) /\ Asked(ok, want)
    BY DEF ServeRefresh
  <2>1. clean /\ ok /\ want' = want
    BY AskedFacts
  <2>2. state # "new" /\ UNCHANGED state
    BY DEF ServeRefresh, NewIsQuiet
  <2> QED
    BY <2>1, <2>2, RefreshKeepsTags
<1>8. CASE \E l \in Loops : ServeNobody(l) \/ Tick(l) \/ Updated(l)
  <2> PICK l \in Loops : ServeNobody(l) \/ Tick(l) \/ Updated(l)
    BY <1>8
  <2> PICK ok \in BOOLEAN : Refresh(ok)
    BY DEF ServeNobody, Tick, Updated
  <2>1. clean /\ UNCHANGED <<want, pc, state>> /\ state # "new"
    BY DEF ServeNobody, Tick, Updated, NewIsQuiet
  <2> QED
    BY <2>1, RefreshKeepsTags
<1>9. CASE \E l \in Loops : Receive(l) \/ Answer(l)
  <2> PICK l \in Loops : Receive(l) \/ Answer(l)
    BY <1>9
  <2>1. UNCHANGED <<svc, agent, asked, state>>
    BY DEF Receive, Answer
  <2>2. UNCHANGED pc \/ \E c \in Callers : /\ pc[c] \notin {"refresh", "refresh.send"}
                                           /\ \E p : Goto(c, p)
    BY DEF Receive, Answer, After, RepliesOwed, Awaiting, TypeOK
  <2>3. Unsettled => Unsettled'
    BY <2>2 DEF Unsettled, Goto, TypeOK
  <2> QED
    BY <1>1, <2>1, <2>3
<1>10. CASE \/ Vanish
            \/ \E l \in Loops : Remove(l)
  <2>1. Asked(~Unsettled, want) /\ UNCHANGED <<svc, pc, state>>
    BY <1>10 DEF Remove, Vanish
  <2>2. agent' \in {agent, Absent}
    BY <1>10, DeregisterFacts DEF Remove, Vanish
  <2>3. clean /\ ~Unsettled /\ want' = want
    BY <2>1, AskedFacts
  <2> QED
    BY <2>1, <2>2, <2>3 DEF TagsKept
<1>11. CASE \/ \E l \in Loops : Rewatch(l) \/ Watch(l)
            \/ UNCHANGED vars
  <2>1. UNCHANGED <<svc, agent, asked, state, pc>>
    BY <1>11 DEF Rewatch, Watch, PlanHit, PlanEnds, vars
  <2> QED
    BY <1>1, <2>1 DEF Unsettled
<1> QED
  BY <1>2, <1>3, <1>4, <1>5, <1>6, <1>7, <1>8, <1>9, <1>10, <1>11
     DEF Next, Call, Continue, Maintain

\* No tag is lost and none comes back, whatever is forgotten by the agent, refreshed,
\* stopped or started between two changes, as long as each change waits for the refresh
\* of the one before it.
THEOREM TagChangesAddUp == Spec => []ChangesAddUp
<1>1. Init => TagsKept
  BY DEF Init, TagsKept
<1>2. TagsKept => ChangesAddUp
  BY DEF TagsKept, ChangesAddUp
<1> QED
  BY <1>1, <1>2, TagsStep, TypesInvariant, RepliesInvariant, PTL DEF Spec
=============================================================================
