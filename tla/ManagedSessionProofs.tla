------------------------ MODULE ManagedSessionProofs ------------------------
(***************************************************************************)
(* Theorems about ManagedSession, for any number of callers, maintain()    *)
(* goroutines and sessions, however the calls race.                        *)
(***************************************************************************)
EXTENDS ManagedSession, ConsulSessionProofs, FiniteSetTheorems

\* Every goroutine's step keeps the fields, channels and program counters in
\* their ranges.
THEOREM TypeCorrect == Spec => []TypeOK
<1>1. Init => TypeOK
  <2> SUFFICES ASSUME Init PROVE TypeOK
    OBVIOUS
  <2>1. note \in Update
    BY DEF Init, Update, States
  <2>2. /\ pc \in [Callers -> CallPCs] /\ loop \in [Loops -> LoopPCs]
        /\ reply \in [Callers -> Results] /\ ret \in [Callers -> Results]
    BY DEF Init, CallPCs, Results, LoopPCs
  <2> QED
    BY <2>1, <2>2 DEF Init, TypeOK, States
<1>2. TypeOK /\ [Next]_vars => TypeOK'
  <2> SUFFICES ASSUME TypeOK, [Next]_vars
               PROVE  TypeOK'
    OBVIOUS
  <2> USE DEF fields, channels, notes
  <2>0. /\ upstream \in SUBSET Sessions /\ id \in Sessions \cup {NoSession}
        /\ note \in Update
    BY DEF TypeOK
  <2>1. ASSUME state' \in States, id' \in Sessions \cup {NoSession},
               Push, UNCHANGED attached
        PROVE  note' \in Update
    BY <2>0, <2>1 DEF Push, Update
  <2>2. CASE \E c \in Callers : Run(c)
    <3> PICK c \in Callers : Run(c)
      BY <2>2
    <3>1. \A o \in CreateOutcomes(id, upstream) : Created(o) =>
            id' \in Sessions \cup {NoSession} /\ upstream' \in SUBSET Sessions
            /\ lastRenewed' \in {"zero", "fresh", "overdue"}
      BY <2>0, CreateFacts DEF Created, TypeOK
    <3>2. CASE UNCHANGED <<fields, note, loop, upstream>>
      BY <3>2 DEF Run, Return, TypeOK, CallPCs, Results
    <3>3. CASE /\ state' = "running"
               /\ \E o \in CreateOutcomes(id, upstream) : Created(o)
               /\ \E l \in Loops : Spawn(l)
               /\ Push
      <4>1. note' \in Update
        BY <2>1, <3>1, <3>3 DEF Run, States
      <4>2. loop' \in [Loops -> LoopPCs]
        BY <3>3 DEF Spawn, TypeOK, LoopPCs
      <4>3. pc' \in [Callers -> CallPCs] /\ ret' \in [Callers -> Results]
        BY DEF Run, Return, TypeOK, CallPCs, Results
      <4> QED
        BY <3>1, <3>3, <4>1, <4>2, <4>3 DEF Run, TypeOK, States
    <3> QED
      BY <3>2, <3>3 DEF Run
  <2>3. CASE \E c \in Callers : Stop(c)
    BY <2>3 DEF Stop, Return, TypeOK, States, CallPCs, Results, Update
  <2>4. CASE \E c \in Callers : Shutdown(c)
    BY <2>4 DEF Shutdown, Return, TypeOK, States, CallPCs, Results, Update
  <2>5. CASE \E c \in Callers : Continue(c)
    BY <2>5 DEF Continue, Send, Await, Detach, Close, TypeOK, CallPCs, Results
  <2>6. CASE \E l \in Loops : Tick(l)
    <3> PICK l \in Loops : Tick(l)
      BY <2>6
    <3>1. \A r \in Refreshed : r.id \in Sessions \cup {NoSession} /\ r.up \in SUBSET Sessions
      BY <2>0, RenewFacts, DestroyFacts DEF Refreshed
    <3>2. /\ id' \in Sessions \cup {NoSession} /\ upstream' \in SUBSET Sessions
          /\ lastRenewed' \in {"zero", "fresh", "overdue"}
      BY <2>0, <3>1, CreateFacts DEF Tick, Created, TypeOK
    <3>3. note' \in Update
      BY <2>1, <3>2 DEF Tick, TypeOK
    <3> QED
      BY <3>2, <3>3 DEF Tick, TypeOK
  <2>7. CASE \E l \in Loops : Receive(l)
    BY <2>7 DEF Receive, TypeOK, LoopPCs
  <2>8. CASE \E l \in Loops : DoStop(l)
    <3> PICK l \in Loops : DoStop(l)
      BY <2>8
    <3>1. /\ id' \in Sessions \cup {NoSession} /\ upstream' \in SUBSET Sessions
          /\ lastRenewed' \in {"zero", "fresh", "overdue"}
      BY <2>0, DestroyFacts DEF DoStop, TypeOK
    <3>2. state' \in States /\ note' \in Update
      BY <2>1, <3>1 DEF DoStop, States
    <3>3. \A e \in Results : Answer(l, e) =>
            /\ mu' \in Loops \cup {Nil} /\ loop' \in [Loops -> LoopPCs]
            /\ reply' \in [Callers -> Results] /\ drop' \in [Loops -> Callers \cup {Nil}]
      BY DEF Answer, TypeOK, LoopPCs
    <3>4. \E e \in Results : Answer(l, e)
      BY DEF DoStop, Results
    <3> QED
      BY <3>1, <3>2, <3>3, <3>4 DEF DoStop, TypeOK
  <2>9. CASE Elapse \/ \E s \in Sessions : Expire(s)
    BY <2>9 DEF Elapse, Expire, TypeOK
  <2>10. CASE UNCHANGED vars
    BY <2>10 DEF vars, TypeOK
  <2> QED
    BY <2>2, <2>3, <2>4, <2>5, <2>6, <2>7, <2>8, <2>9, <2>10
       DEF Next, Background, Maintain
<1> QED
  BY <1>1, <1>2, PTL DEF Spec
-----------------------------------------------------------------------------
(***************************************************************************)
(* A held session has a keeper, and the contract.                          *)
(***************************************************************************)
\* A maintain() goroutine that enters its loop, ticks, or stops for good: what
\* each step does to the set of live ones.
LEMMA StopLeavesNoSession ==
  ASSUME TypeOK, NEW l \in Loops, DoStop(l)
  PROVE  id' = NoSession /\ upstream \ {id} \subseteq upstream' /\ upstream' \subseteq upstream
BY DestroyFacts DEF DoStop, TypeOK

LEMMA TickKeepsLoops ==
  ASSUME TypeOK, NEW l \in Loops, Tick(l)
  PROVE  Live(l) /\ \A k \in Loops : Live(k)' <=> Live(k)
BY DEF Tick, Live

LEMMA RunStartsLoop ==
  ASSUME TypeOK, NEW c \in Callers, Run(c)
  PROVE  /\ \A k \in Loops : Live(k) => Live(k)'
         /\ \/ UNCHANGED <<id, upstream, loop>>
            \/ /\ \E o \in CreateOutcomes(id, upstream) : Created(o)
               /\ \E l \in Loops : Live(l)'
BY DEF Run, Spawn, Live, TypeOK, fields

\* The steps that leave id, and whether a goroutine is live, as they are.
LEMMA OtherStepsKeepLive ==
  ASSUME TypeOK,
         \/ \E c \in Callers : Stop(c) \/ Shutdown(c) \/ Continue(c)
         \/ \E l \in Loops : Receive(l)
         \/ Elapse
         \/ \E s \in Sessions : Expire(s)
         \/ UNCHANGED vars
  PROVE  /\ id' = id /\ upstream' \subseteq upstream
         /\ \A k \in Loops : Live(k)' <=> Live(k)
<1>1. CASE \E c \in Callers : Stop(c) \/ Shutdown(c) \/ Continue(c)
  BY <1>1 DEF Stop, Shutdown, Continue, Send, Await, Detach, Close, Live, fields
<1>2. CASE \E l \in Loops : Receive(l)
  BY <1>2 DEF Receive, Live, fields, TypeOK
<1>3. CASE Elapse \/ (\E s \in Sessions : Expire(s)) \/ UNCHANGED vars
  BY <1>3 DEF Elapse, Expire, vars, Live, fields
<1> QED
  BY <1>1, <1>2, <1>3

\* Whoever holds a session has a live maintain() goroutine behind it: a step
\* that ends one goroutine, doStop(), also gives the session up.
LEMMA KeeperStep == TypeOK /\ SessionHasKeeper /\ [Next]_vars => SessionHasKeeper'
<1> SUFFICES ASSUME TypeOK, SessionHasKeeper, [Next]_vars
             PROVE  SessionHasKeeper'
  OBVIOUS
<1>1. CASE \E c \in Callers : Run(c)
  BY <1>1, RunStartsLoop DEF SessionHasKeeper
<1>2. CASE \E l \in Loops : Tick(l)
  BY <1>2, TickKeepsLoops DEF SessionHasKeeper
<1>3. CASE \E l \in Loops : DoStop(l)
  BY <1>3, StopLeavesNoSession DEF SessionHasKeeper
<1>4. CASE \/ \E c \in Callers : Stop(c) \/ Shutdown(c) \/ Continue(c)
           \/ \E l \in Loops : Receive(l)
           \/ Elapse
           \/ \E s \in Sessions : Expire(s)
           \/ UNCHANGED vars
  BY <1>4, OtherStepsKeepLive DEF SessionHasKeeper
<1> QED
  BY <1>1, <1>2, <1>3, <1>4 DEF Next, Background, Maintain

\* A session held by ms.id always has a live maintain() goroutine, for any
\* number of goroutines that race Run(), Stop() and Shutdown().
THEOREM SessionKept == Spec => []SessionHasKeeper
<1>1. Init => SessionHasKeeper
  BY DEF Init, SessionHasKeeper
<1> QED
  BY <1>1, KeeperStep, TypeCorrect, PTL DEF Spec

\* What a tick does to the held session: kept, lost, destroyed or replaced by a
\* session that did not exist before.
LEMMA TickFacts ==
  ASSUME TypeOK, NEW l \in Loops, Tick(l)
  PROVE  /\ upstream \ {id} \subseteq upstream'
         /\ \A s, t \in upstream' \ upstream : s = t
         /\ id' \in (upstream' \ upstream) \cup {id, NoSession}
<1>0. upstream \in SUBSET Sessions
  BY DEF TypeOK
<1>1. CASE /\ id = NoSession
           /\ \E o \in CreateOutcomes(id, upstream) : Created(o)
  BY <1>0, <1>1, CreateFacts DEF Created
<1>2. \A r \in Refreshed :
        /\ r.id \in {id, NoSession}
        /\ upstream \ {id} \subseteq r.up /\ r.up \subseteq upstream
  BY <1>0, RenewFacts, DestroyFacts DEF Refreshed
<1>3. CASE \E r \in Refreshed : id' = r.id /\ upstream' = r.up
  BY <1>2, <1>3
<1>4. CASE \E r \in Refreshed :
             \E o \in CreateOutcomes(id, r.up) : id' = o.id /\ upstream' = o.up
  <2> PICK r \in Refreshed :
        \E o \in CreateOutcomes(id, r.up) : id' = o.id /\ upstream' = o.up
    BY <1>4
  <2> PICK o \in CreateOutcomes(id, r.up) : id' = o.id /\ upstream' = o.up
    OBVIOUS
  <2>1. r.up \in SUBSET Sessions
    BY <1>0, <1>2
  <2>2. /\ o.id \in (o.up \ r.up) \cup {NoSession}
        /\ r.up \subseteq o.up
        /\ \A s, t \in o.up \ r.up : s = t
    BY <2>1, CreateFacts
  <2>3. id \notin o.up \ r.up
    BY DEF CreateOutcomes
  <2> QED
    BY <1>2, <2>2, <2>3
<1> QED
  BY <1>1, <1>3, <1>4 DEF Tick
\* Every step of ManagedSession is a step of the contract or invisible to it.
LEMMA ContractStep ==
  TypeOK /\ SessionHasKeeper' /\ [Next]_vars => [Contract!Next]_(Contract!cvars)
<1> SUFFICES ASSUME TypeOK, SessionHasKeeper', [Next]_vars
             PROVE  [Contract!Next]_(Contract!cvars)
  OBVIOUS
<1> DEFINE act == \E l \in Loops : Live(l)
<1> USE DEF Contract!Next, Contract!cvars
<1>1. CASE \E c \in Callers : Run(c)
  <2> PICK c \in Callers : Run(c)
    BY <1>1
  <2>1. CASE UNCHANGED <<id, upstream, loop>>
    BY <2>1 DEF Live
  <2>2. CASE (\E o \in CreateOutcomes(id, upstream) : Created(o)) /\ act'
    <3>1. /\ upstream \subseteq upstream'
          /\ \A s, t \in upstream' \ upstream : s = t
          /\ id' \in (upstream' \ upstream) \cup {NoSession}
      BY <2>2, CreateFacts DEF Created, TypeOK
    <3>2. CASE act
      BY <2>2, <3>1, <3>2 DEF Contract!Keep, Contract!Added, Contract!AtMostOneAdded
    <3>3. CASE ~act
      BY <2>2, <3>1, <3>3 DEF Contract!Open, Contract!Added, Contract!AtMostOneAdded
    <3> QED
      BY <3>2, <3>3
  <2> QED
    BY <2>1, <2>2, RunStartsLoop
<1>2. CASE \E l \in Loops : Tick(l)
  <2> PICK l \in Loops : Tick(l)
    BY <1>2
  <2>1. act /\ act'
    BY TickKeepsLoops
  <2> QED
    BY <2>1, TickFacts DEF Contract!Keep, Contract!Added, Contract!AtMostOneAdded
<1>3. CASE \E l \in Loops : DoStop(l)
  <2> PICK l \in Loops : DoStop(l)
    BY <1>3
  <2>1. id' = NoSession /\ upstream \ {id} \subseteq upstream' /\ upstream' \subseteq upstream
    BY StopLeavesNoSession
  <2>2. act
    BY DEF DoStop, Live
  <2>3. CASE act'
    BY <2>1, <2>2, <2>3 DEF Contract!Keep, Contract!Added, Contract!AtMostOneAdded
  <2>4. CASE ~act'
    BY <2>1, <2>2, <2>4 DEF Contract!Close
  <2> QED
    BY <2>3, <2>4
<1>4. CASE \/ \E c \in Callers : Stop(c) \/ Shutdown(c) \/ Continue(c)
           \/ \E l \in Loops : Receive(l)
           \/ Elapse
           \/ \E s \in Sessions : Expire(s)
           \/ UNCHANGED vars
  <2>1. id' = id /\ upstream' \subseteq upstream
    BY <1>4, OtherStepsKeepLive
  <2>2. act' <=> act
    BY <1>4, OtherStepsKeepLive
  <2> QED
    BY <2>1, <2>2 DEF Contract!Lose
<1> QED
  BY <1>1, <1>2, <1>3, <1>4 DEF Next, Background, Maintain

\* A ManagedSession implements its contract, for any number of goroutines that
\* call it and whatever Consul answers.
THEOREM ContractImplemented == Spec => ImplementsContract
<1>1. Init => Contract!Init
  BY DEF Init, Contract!Init, Live
<1> QED
  BY <1>1, ContractStep, SessionKept, TypeCorrect, PTL
     DEF Spec, ImplementsContract, Contract!Spec
-----------------------------------------------------------------------------
(***************************************************************************)
(* The stop protocol: a request is neither lost nor served twice, and it   *)
(* always finds a maintain() goroutine.                                    *)
(***************************************************************************)
\* Only a goroutine on its way out of maintain() holds a reply channel ...
DropWhileStopping == \A l \in Loops : drop[l] # Nil => loop[l] = "stopping"

\* ... and it does hold one unless ms.stop was closed.
DropUnlessClosed == \A l \in Loops : ~closed /\ loop[l] = "stopping" => drop[l] # Nil

Channels == DropWhileStopping /\ DropUnlessClosed /\ ReplyInOnePlace /\ LockIsReleased

\* The steps that leave the channels, the lock and the program counters that
\* matter for them alone.
LEMMA ChannelsUntouched ==
  ASSUME TypeOK, Channels, UNCHANGED <<channels, mu>>,
         \A c \in Callers : pc'[c] \in {"stop.await", "shutdown.await"}
                             <=> pc[c] \in {"stop.await", "shutdown.await"},
         \A l \in Loops : loop[l] = "stopping" <=> loop'[l] = "stopping"
  PROVE  Channels'
BY DEF Channels, DropWhileStopping, DropUnlessClosed, ReplyInOnePlace, LockIsReleased,
       Holders, channels

LEMMA ChannelsStep == TypeOK /\ Channels /\ [Next]_vars => Channels'
<1> SUFFICES ASSUME TypeOK, Channels, [Next]_vars
             PROVE  Channels'
  OBVIOUS
<1> USE DEF Channels, DropWhileStopping, DropUnlessClosed, LockIsReleased
<1>0. Nil \notin Callers \cup Loops
  BY ProcessAssumption
<1>1. CASE \/ \E c \in Callers : Run(c) \/ Stop(c) \/ Shutdown(c) \/ Detach(c)
           \/ \E l \in Loops : Tick(l)
           \/ Elapse
           \/ \E s \in Sessions : Expire(s)
           \/ UNCHANGED vars
  <2>1. UNCHANGED <<channels, mu>>
    BY <1>1 DEF Run, Stop, Shutdown, Detach, Tick, Elapse, Expire, vars
  <2>2. \A c \in Callers : pc'[c] \in {"stop.await", "shutdown.await"}
                            <=> pc[c] \in {"stop.await", "shutdown.await"}
    BY <1>1 DEF Run, Stop, Shutdown, Detach, Tick, Elapse, Expire, vars, Return, TypeOK
  <2>3. \A l \in Loops : loop[l] = "stopping" <=> loop'[l] = "stopping"
    BY <1>1 DEF Run, Spawn, Stop, Shutdown, Detach, Tick, Elapse, Expire, vars, TypeOK
  <2> QED
    BY <2>1, <2>2, <2>3, ChannelsUntouched
<1>2. CASE \E c \in Callers : Send(c)
  <2> PICK c \in Callers : Send(c)
    BY <1>2
  <2>1. ReplyInOnePlace'
    BY <1>0 DEF Send, ReplyInOnePlace, Holders, TypeOK
  <2> QED
    BY <2>1 DEF Send
<1>3. CASE \E c \in Callers : Await(c)
  <2> PICK c \in Callers : Await(c)
    BY <1>3
  <2>1. ReplyInOnePlace'
    BY <1>0 DEF Await, ReplyInOnePlace, Holders, TypeOK
  <2> QED
    BY <2>1 DEF Await
<1>4. CASE \E c \in Callers : Close(c)
  <2> PICK c \in Callers : Close(c)
    BY <1>4
  <2>1. ReplyInOnePlace'
    BY <1>0 DEF Close, ReplyInOnePlace, Holders, TypeOK
  <2> QED
    BY <2>1 DEF Close, TypeOK
<1>5. CASE \E l \in Loops : Receive(l)
  <2> PICK l \in Loops : Receive(l)
    BY <1>5
  <2>1. drop[l] = Nil
    BY DEF Receive
  <2>2. \A c \in Callers : Holders(c)' = IF slot = c THEN {l} ELSE Holders(c)
    BY <1>0, <2>1 DEF Receive, Holders, ReplyInOnePlace, TypeOK
  <2>3. ReplyInOnePlace'
    BY <1>0, <2>2 DEF Receive, ReplyInOnePlace, TypeOK
  <2> QED
    BY <2>3 DEF Receive, TypeOK
<1>6. CASE \E l \in Loops : DoStop(l)
  <2> PICK l \in Loops : DoStop(l)
    BY <1>6
  <2>0. PICK e \in {"nil", "err"} : Answer(l, e)
    BY DEF DoStop
  <2>1. UNCHANGED <<slot, closed, pc>> /\ loop[l] = "stopping"
    BY DEF DoStop
  <2>2. CASE drop[l] = Nil
    BY <2>0, <2>1, <2>2 DEF Answer, ReplyInOnePlace, Holders, TypeOK
  <2>3. CASE drop[l] # Nil
    <3>1. \A c \in Callers : Holders(c)' = Holders(c) \ {l}
      BY <1>0, <2>0, <2>3 DEF Answer, Holders, TypeOK
    <3>2. ReplyInOnePlace'
      BY <1>0, <2>0, <2>1, <2>3, <3>1 DEF Answer, ReplyInOnePlace, Holders, TypeOK
    <3> QED
      BY <2>0, <2>1, <2>3, <3>2 DEF Answer, TypeOK
  <2> QED
    BY <2>2, <2>3
<1> QED
  BY <1>1, <1>2, <1>3, <1>4, <1>5, <1>6 DEF Next, Background, Continue, Maintain
LEMMA ChannelsInvariant == Spec => []Channels
<1>1. Init => Channels
  BY ProcessAssumption DEF Init, Channels, DropWhileStopping, DropUnlessClosed, ReplyInOnePlace,
         LockIsReleased, Holders
<1> QED
  BY <1>1, ChannelsStep, TypeCorrect, PTL DEF Spec

\* No stop request is lost or answered twice, however many callers race.
THEOREM RequestsNotLost == Spec => []ReplyInOnePlace
BY ChannelsInvariant, PTL DEF Channels

\* ms.mu is held for good only by a goroutine that found ms.stop closed.
THEOREM LockReleased == Spec => []LockIsReleased
BY ChannelsInvariant, PTL DEF Channels

\* The counting invariant.  Every stop request that is on its way and the
\* running state each have a maintain() goroutine of their own.
LEMMA FiniteCounts ==
  /\ IsFiniteSet(Waiting) /\ Cardinality(Waiting) \in Nat
  /\ IsFiniteSet(Selecting) /\ Cardinality(Selecting) \in Nat
<1>1. Waiting \in SUBSET Callers /\ Selecting \in SUBSET Loops
  BY DEF Waiting, Selecting
<1> QED
  BY <1>1, ProcessAssumption, FS_Subset, FS_CardinalityType

LEMMA FiniteCountsNext ==
  /\ IsFiniteSet(Waiting') /\ Cardinality(Waiting') \in Nat
  /\ IsFiniteSet(Selecting') /\ Cardinality(Selecting') \in Nat
<1>1. Waiting' \in SUBSET Callers /\ Selecting' \in SUBSET Loops
  BY DEF Waiting, Selecting
<1> QED
  BY <1>1, ProcessAssumption, FS_Subset, FS_CardinalityType

LEMMA CountingStep ==
  TypeOK /\ Channels /\ StopFindsMaintainer /\ [Next]_vars => StopFindsMaintainer'
<1> SUFFICES ASSUME TypeOK, Channels, StopFindsMaintainer, [Next]_vars, ~closed'
             PROVE  Cardinality(Waiting') + Running' <= Cardinality(Selecting')
  BY DEF StopFindsMaintainer
<1> USE FiniteCounts, FiniteCountsNext
<1>0. /\ Nil \notin Callers \cup Loops
      /\ ~closed
      /\ Cardinality(Waiting) + Running <= Cardinality(Selecting)
      /\ Running \in {0, 1} /\ Running' \in {0, 1}
  <2>1. ~closed
    BY DEF Next, Background, Continue, Maintain, Run, Stop, Shutdown, Send, Await, Detach,
           Close, Tick, Receive, DoStop, Elapse, Expire, vars, channels
  <2> QED
    BY <2>1, ProcessAssumption DEF StopFindsMaintainer, Running
<1>1. \A c \in Callers : slot = c => pc[c] \in {"stop.await", "shutdown.await"}
  BY DEF Channels, ReplyInOnePlace
<1>2. CASE Waiting' = Waiting /\ Selecting' = Selecting /\ Running' <= Running
  BY <1>0, <1>2
<1>3. CASE \E c \in Callers : Run(c)
  <2> PICK c \in Callers : Run(c)
    BY <1>3
  <2>1. Waiting' = Waiting
    BY DEF Run, Return, Waiting, TypeOK, channels
  <2>2. CASE UNCHANGED <<fields, note, loop, upstream>>
    BY <1>2, <2>1, <2>2 DEF Selecting, Running, fields
  <2>3. CASE \E l \in Loops : Spawn(l) /\ state = "stopped"
    <3> PICK l \in Loops : Spawn(l) /\ state = "stopped"
      BY <2>3
    <3>1. Selecting' = Selecting \cup {l} /\ l \notin Selecting
      BY DEF Spawn, Selecting, TypeOK
    <3>2. Cardinality(Selecting') = Cardinality(Selecting) + 1
      BY <3>1, FS_AddElement
    <3>3. Running = 0
      BY DEF Running
    <3> QED
      BY <1>0, <2>1, <3>2, <3>3
  <2> QED
    BY <2>2, <2>3 DEF Run
<1>4. CASE \E c \in Callers : Stop(c) \/ Shutdown(c)
  <2> PICK c \in Callers : Stop(c) \/ Shutdown(c)
    BY <1>4
  <2>1. Selecting' = Selecting
    BY DEF Stop, Shutdown, Selecting
  <2>2. CASE /\ state = "running" /\ state' # "running"
             /\ pc[c] = "idle" /\ slot' = slot
             /\ \E p \in {"stop.send", "shutdown.send"} : pc' = [pc EXCEPT ![c] = p]
    <3>1. Waiting' = Waiting \cup {c} /\ c \notin Waiting
      BY <1>1, <2>2 DEF Waiting, TypeOK
    <3>2. Cardinality(Waiting') = Cardinality(Waiting) + 1
      BY <3>1, FS_AddElement
    <3>3. Running = 1 /\ Running' = 0
      BY <2>2 DEF Running
    <3> QED
      BY <1>0, <2>1, <3>2, <3>3
  <2>3. CASE /\ state # "running" /\ state' # "running" /\ slot' = slot
             /\ \A d \in Callers : pc'[d] \in {"stop.send", "shutdown.send"}
                                    <=> pc[d] \in {"stop.send", "shutdown.send"}
    BY <1>2, <2>1, <2>3 DEF Waiting, Running
  <2>4. CASE state = "running"
    BY <2>2, <2>4 DEF Stop, Shutdown, RequiresStop, channels, TypeOK
  <2>5. CASE state # "running"
    BY <2>3, <2>5 DEF Stop, Shutdown, Return, RequiresStop, channels, TypeOK
  <2> QED
    BY <2>4, <2>5
<1>5. CASE \E c \in Callers : Send(c)
  <2> PICK c \in Callers : Send(c)
    BY <1>5
  <2>1. Waiting' = Waiting
    BY <1>0 DEF Send, Waiting, TypeOK
  <2> QED
    BY <1>2, <2>1 DEF Send, Selecting, Running, fields
<1>6. CASE \E c \in Callers : Await(c) \/ Detach(c) \/ Close(c)
  <2>1. Waiting' = Waiting
    BY <1>6 DEF Await, Detach, Close, Waiting, TypeOK, channels
  <2> QED
    BY <1>2, <1>6, <2>1 DEF Await, Detach, Close, Selecting, Running, fields
<1>7. CASE \E l \in Loops : Receive(l)
  <2> PICK l \in Loops : Receive(l)
    BY <1>7
  <2>1. slot \in Callers /\ slot' = Nil
    BY <1>0 DEF Receive, TypeOK
  <2>2. Waiting' = Waiting \ {slot} /\ slot \in Waiting
    BY <1>0, <1>1, <2>1 DEF Receive, Waiting
  <2>3. Selecting' = Selecting \ {l} /\ l \in Selecting
    BY DEF Receive, Selecting, TypeOK
  <2>4. /\ Cardinality(Waiting') = Cardinality(Waiting) - 1
        /\ Cardinality(Selecting') = Cardinality(Selecting) - 1
    BY <2>2, <2>3, FS_RemoveElement
  <2>5. Running' = Running
    BY DEF Receive, Running, fields
  <2> QED
    BY <1>0, <2>4, <2>5
<1>8. CASE \E l \in Loops : DoStop(l)
  <2> PICK l \in Loops : DoStop(l)
    BY <1>8
  <2>1. Waiting' = Waiting /\ Running' <= Running
    BY <1>0 DEF DoStop, Waiting, Running
  <2>2. Selecting' = Selecting
    BY DEF DoStop, Answer, Selecting, TypeOK
  <2> QED
    BY <1>2, <2>1, <2>2
<1>9. CASE (\E l \in Loops : Tick(l)) \/ Elapse \/ (\E s \in Sessions : Expire(s)) \/ UNCHANGED vars
  <2>1. UNCHANGED <<state, slot, pc, loop>>
    BY <1>9 DEF Tick, Elapse, Expire, vars, fields, channels
  <2> QED
    BY <1>2, <2>1 DEF Waiting, Selecting, Running
<1> QED
  BY <1>3, <1>4, <1>5, <1>6, <1>7, <1>8, <1>9 DEF Next, Background, Continue, Maintain

\* A Stop() or Shutdown() of a session that was not shut down never waits for a
\* goroutine that is not there, and a running session is always maintained.
THEOREM StopMeetsMaintainer == Spec => []StopFindsMaintainer
<1>1. Init => StopFindsMaintainer
  <2> SUFFICES ASSUME Init PROVE StopFindsMaintainer
    OBVIOUS
  <2>1. Waiting = {} /\ Selecting = {} /\ Running = 0
    BY ProcessAssumption DEF Init, Waiting, Selecting, Running
  <2> QED
    BY <2>1, FS_EmptySet DEF StopFindsMaintainer
<1> QED
  BY <1>1, CountingStep, TypeCorrect, ChannelsInvariant, PTL DEF Spec
-----------------------------------------------------------------------------
\* As long as recipients are attached, every step that changes ms.id pushes it.
LEMMA PushedIsHeld == Spec => [](attached => note.id = id)
<1>1. Init => (attached => note.id = id)
  BY DEF Init
<1>2. (attached => note.id = id) /\ [Next]_vars => (attached => note.id = id)'
  <2> SUFFICES ASSUME attached => note.id = id, [Next]_vars, attached'
               PROVE  note'.id = id'
    OBVIOUS
  <2> USE DEF fields, channels, notes
  <2>1. CASE Push /\ UNCHANGED attached
    BY <2>1 DEF Push
  <2>2. CASE UNCHANGED <<id, attached, note>>
    BY <2>2
  <2>3. CASE \E c \in Callers : Run(c)
    BY <2>1, <2>2, <2>3 DEF Run
  <2>4. CASE \E c \in Callers : Stop(c) \/ Shutdown(c)
    <3>1. UNCHANGED <<id, attached>>
      BY <2>4 DEF Stop, Shutdown
    <3>2. UNCHANGED note \/ \E s : note' = IF attached THEN [state |-> s, id |-> id] ELSE note
      BY <2>4 DEF Stop, Shutdown
    <3> QED
      BY <3>1, <3>2
  <2>5. CASE \E c \in Callers : Detach(c)
    BY <2>5 DEF Detach
  <2>6. CASE \E l \in Loops : Tick(l) \/ DoStop(l)
    BY <2>1, <2>6 DEF Tick, DoStop
  <2>7. CASE \/ \E c \in Callers : Send(c) \/ Await(c) \/ Close(c)
             \/ \E l \in Loops : Receive(l)
             \/ Elapse
             \/ \E s \in Sessions : Expire(s)
             \/ UNCHANGED vars
    BY <2>2, <2>7 DEF Send, Await, Close, Receive, Elapse, Expire, vars
  <2> QED
    BY <2>3, <2>4, <2>5, <2>6, <2>7 DEF Next, Background, Continue, Maintain
<1> QED
  BY <1>1, <1>2, PTL DEF Spec

\* A session that is held, or that the last update pushed names, has a goroutine that
\* renews or destroys it, however Run(), Stop() and Shutdown() race.
THEOREM HeldIsKept == Spec => []HeldSessionIsKept
<1>1. SessionHasKeeper /\ (attached => note.id = id) => HeldSessionIsKept
  BY DEF SessionHasKeeper, PushedSessionHasKeeper, HeldSessionIsKept
<1> QED
  BY <1>1, SessionKept, PushedIsHeld, PTL
=============================================================================
