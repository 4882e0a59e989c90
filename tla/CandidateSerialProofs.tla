----------------------- MODULE CandidateSerialProofs -----------------------
(***************************************************************************)
(* Theorems about Candidate for users who make one call at a time: what a  *)
(* call that has returned leaves behind, whatever the timers, the updates  *)
(* of the session, Consul and the rivals do meanwhile.                     *)
(***************************************************************************)
EXTENDS CandidateProofs

NoneLive == \A l \in Loops : ~Live(l)

\* The call in progress has made its state change.
CallsAreSerial ==
  /\ \A u, v \in Users : pc[u] # "idle" /\ pc[v] # "idle" => u = v
  /\ state = "new" => Quiet
  /\ closed => state = "shutdowned" /\ Quiet
  /\ \A u \in Users :
       /\ pc[u] = "run" => state = "running"
       /\ pc[u] \in {"resign.send", "resign.await"} => state = "resigned"
       /\ pc[u] \in {"shutdown.send", "shutdown.await", "shutdown.close"} => state = "shutdowned"

\* One maintainLock() goroutine at most: it selects as long as the candidate is in the
\* pool or the resignation is on its way, stops for a caller who waits for it, and is
\* gone when that caller has been answered.
LoopIsAlone ==
  /\ \A l, k \in Loops : Live(l) /\ Live(k) => l = k
  /\ \A l \in Loops :
       /\ loop[l] # "stuck"
       /\ loop[l] = "stopping" => drop[l] # Nil
       /\ loop[l] = "select" => state = "running" \/ Waiting # {}
  /\ closed \/ reply # {} \/ (\E u \in Users : pc[u] = "shutdown.close") => NoneLive

Serial == CallsAreSerial /\ LoopIsAlone /\ ~panicked

\* What every step may use.
Known == Types /\ RepliesOwed /\ ResignFindsMaintainer

\* Between the calls, a candidate that is not in the pool has no goroutine.
LEMMA OutOfPoolIsQuiet ==
  ASSUME Known, Serial, Quiet, state # "running"
  PROVE  NoneLive
<1>1. Waiting = {}
  BY CandidateAssumption DEF Known, Types, TypeOK, RepliesOwed, Awaiting, Quiet, Waiting
<1>2. \A l \in Loops : drop[l] = Nil
  BY CandidateAssumption DEF Known, Types, TypeOK, RepliesOwed, Awaiting, Quiet
<1> QED
  BY <1>1, <1>2 DEF NoneLive, Live, Serial, LoopIsAlone

LEMMA SerialStep == Known /\ Serial /\ [SerialNext]_vars => Serial'
<1> SUFFICES ASSUME Known, Serial, [SerialNext]_vars
             PROVE  CallsAreSerial' /\ LoopIsAlone' /\ ~panicked'
  BY DEF Serial
<1> USE DEF channels
<1>0. TypeOK /\ Sections /\ RepliesOwed /\ CallsAreSerial /\ LoopIsAlone /\ ~panicked
  BY DEF Known, Types, Serial
<1>1. ASSUME UNCHANGED <<pc, state, closed>>
      PROVE  CallsAreSerial'
  BY <1>0, <1>1 DEF CallsAreSerial, Quiet
<1>2. ASSUME UNCHANGED <<pc, state, channels, loop>>
      PROVE  LoopIsAlone'
  BY <1>0, <1>2 DEF LoopIsAlone, NoneLive, Live, Waiting
<1>3. CASE Look \/ Acquire \/ Assign
  <2>1. UNCHANGED <<state, channels, loop, panicked>> /\ (UNCHANGED pc \/ Leave)
    BY <1>3 DEF Look, Acquire, Assign
  <2>2. CASE UNCHANGED pc
    BY <1>0, <1>1, <1>2, <2>1, <2>2
  <2>3. CASE Leave
    <3>1. /\ \A u \in Users : pc'[u] = pc[u] \/ pc'[u] = "idle"
          /\ \A u \in Users : pc[u] \in {"resign.send", "shutdown.send"} => pc'[u] = pc[u]
      BY <1>0, <2>3 DEF Leave, Goto, Sections, TypeOK
    <3>2. CallsAreSerial'
      BY <1>0, <2>1, <3>1 DEF CallsAreSerial, Quiet
    <3>3. Waiting \subseteq Waiting'
      BY <2>1, <3>1 DEF Waiting
    <3>4. LoopIsAlone'
      BY <1>0, <2>1, <3>1, <3>3 DEF LoopIsAlone, NoneLive, Live
    <3> QED
      BY <1>0, <2>1, <3>2, <3>4
  <2> QED
    BY <2>1, <2>2, <2>3
<1>4. CASE Quiet /\ \E u \in Users : Run(u)
  <2> PICK u \in Users : Run(u)
    BY <1>4
  <2>1. UNCHANGED <<channels, panicked>>
    BY DEF Run
  <2>2. CASE UNCHANGED <<state, pc, loop>>
    BY <1>0, <1>1, <1>2, <2>1, <2>2
  <2>3. CASE /\ state \in {"new", "resigned"} /\ state' = "running" /\ Goto(u, "run")
             /\ \E l \in Loops : loop[l] = "none" /\ loop' = [loop EXCEPT ![l] = "select"]
    <3>1. NoneLive /\ ~closed
      BY <1>0, <1>4, <2>3, OutOfPoolIsQuiet DEF CallsAreSerial
    <3>2. reply = {}
      BY <1>0, <1>4 DEF RepliesOwed, Awaiting, Quiet, TypeOK
    <3>3. \A v \in Users : pc'[v] = IF v = u THEN "run" ELSE "idle"
      BY <1>0, <1>4, <2>3 DEF Goto, Quiet, TypeOK
    <3>4. CallsAreSerial'
      BY <2>1, <2>3, <3>1, <3>3 DEF CallsAreSerial
    <3>5. LoopIsAlone'
      BY <1>0, <2>1, <2>3, <3>1, <3>2, <3>3 DEF LoopIsAlone, NoneLive, Live, TypeOK
    <3> QED
      BY <1>0, <2>1, <3>4, <3>5
  <2> QED
    BY <2>2, <2>3 DEF Run
<1>5. CASE Quiet /\ \E u \in Users : (Entered /\ Resign(u)) \/ Shutdown(u)
  <2> PICK u \in Users : (Entered /\ Resign(u)) \/ Shutdown(u)
    BY <1>5
  <2>1. UNCHANGED <<channels, loop, panicked>>
    BY DEF Resign, Shutdown
  <2>2. CASE UNCHANGED <<state, pc>>
    BY <1>0, <1>1, <1>2, <2>1, <2>2
  <2>3. CASE \/ state' = "resigned" /\ Goto(u, "resign.send") /\ state = "running"
             \/ state' = "shutdowned" /\ Goto(u, "shutdown.send") /\ state = "running"
             \/ state' = "shutdowned" /\ Goto(u, "shutdown.close")
                /\ state \notin {"running", "shutdowned"}
    <3>1. ~closed
      BY <1>0, <2>3 DEF CallsAreSerial
    <3>2. \A v \in Users \ {u} : pc'[v] = "idle"
      BY <1>0, <1>5, <2>3 DEF Goto, Quiet, TypeOK
    <3>3. pc'[u] = IF state' = "resigned" THEN "resign.send" ELSE
                   IF state = "running" THEN "shutdown.send" ELSE "shutdown.close"
      BY <1>0, <2>3 DEF Goto, TypeOK
    <3>4. CallsAreSerial'
      BY <2>1, <2>3, <3>1, <3>2, <3>3 DEF CallsAreSerial
    <3>5. state # "running" => NoneLive
      BY <1>5, OutOfPoolIsQuiet
    <3>6. state = "running" => Waiting' # {}
      BY <2>3, <3>3 DEF Waiting
    <3>7. LoopIsAlone'
      BY <1>0, <2>1, <2>3, <3>2, <3>3, <3>5, <3>6 DEF LoopIsAlone, NoneLive, Live
    <3> QED
      BY <1>0, <2>1, <3>4, <3>7
  <2> QED
    BY <1>0, <2>2, <2>3 DEF Resign, Shutdown, RequiresStop, Entered, TypeOK, States
<1>6. CASE \E u \in Users : Send(u)
  <2> PICK u \in Users : Send(u)
    BY <1>6
  <2>0. ~closed
    BY <1>0 DEF Send, CallsAreSerial, Quiet
  <2>1. UNCHANGED <<state, closed, reply, drop, loop, panicked>> /\ slot' = u
    BY <2>0 DEF Send
  <2>2. \/ pc[u] = "resign.send" /\ pc'[u] = "resign.await"
        \/ pc[u] = "shutdown.send" /\ pc'[u] = "shutdown.await"
    BY <1>0, <2>0 DEF Send, Goto, TypeOK
  <2>3. \A v \in Users \ {u} : pc'[v] = pc[v]
    BY <1>0, <2>0 DEF Send, Goto, TypeOK
  <2>4. CallsAreSerial'
    BY <1>0, <2>0, <2>1, <2>2, <2>3 DEF CallsAreSerial, Quiet
  <2>5. Waiting' # {}
    BY <2>1 DEF Waiting
  <2>6. LoopIsAlone'
    BY <1>0, <2>1, <2>2, <2>3, <2>5 DEF LoopIsAlone, NoneLive, Live
  <2> QED
    BY <1>0, <2>1, <2>4, <2>6
<1>7. CASE \E u \in Users : Await(u)
  <2> PICK u \in Users : Await(u)
    BY <1>7
  <2>1. UNCHANGED <<state, slot, closed, drop, loop, panicked>> /\ u \in reply
    BY DEF Await
  <2>2. \/ pc[u] = "resign.await" /\ pc'[u] = "idle"
        \/ pc[u] = "shutdown.await" /\ pc'[u] = "shutdown.close"
    BY <1>0 DEF Await, Goto, TypeOK
  <2>3. \A v \in Users \ {u} : pc'[v] = pc[v]
    BY <1>0 DEF Await, Goto, TypeOK
  <2>4. CallsAreSerial'
    BY <1>0, <2>1, <2>2, <2>3 DEF CallsAreSerial, Quiet
  <2>5. NoneLive /\ NoneLive'
    BY <1>0, <2>1 DEF LoopIsAlone, NoneLive, Live
  <2>6. LoopIsAlone'
    BY <1>0, <2>1, <2>5 DEF LoopIsAlone, NoneLive, Live
  <2> QED
    BY <1>0, <2>1, <2>4, <2>6
<1>8. CASE \E u \in Users : Close(u)
  <2> PICK u \in Users : Close(u)
    BY <1>8
  <2>1. UNCHANGED <<state, slot, reply, drop, loop>> /\ pc[u] = "shutdown.close" /\ panicked' = closed
    BY DEF Close
  <2>2. ~closed
    BY <1>0, <2>1 DEF CallsAreSerial, Quiet
  <2>3. \A v \in Users : pc'[v] = "idle"
    BY <1>0, <2>1 DEF Close, Goto, CallsAreSerial, TypeOK
  <2>4. CallsAreSerial'
    BY <1>0, <2>1, <2>3 DEF CallsAreSerial, Quiet
  <2>5. NoneLive /\ NoneLive'
    BY <1>0, <2>1 DEF LoopIsAlone, NoneLive, Live
  <2>6. LoopIsAlone'
    BY <1>0, <2>1, <2>5 DEF LoopIsAlone, NoneLive, Live
  <2> QED
    BY <2>1, <2>2, <2>4, <2>6
<1>9. CASE \E l \in Loops : Receive(l)
  <2> PICK l \in Loops : Receive(l)
    BY <1>9
  <2>1. UNCHANGED <<state, closed, reply, pc, panicked>> /\ loop[l] = "select"
    BY DEF Receive
  <2>2. Live(l) /\ ~closed /\ slot # Nil
    BY <1>0, <2>1 DEF Receive, LoopIsAlone, NoneLive, Live
  <2>3. \A k \in Loops \ {l} : loop'[k] = loop[k] /\ ~Live(k)
    BY <1>0, <2>2 DEF Receive, LoopIsAlone, TypeOK
  <2>4. loop'[l] = "stopping" /\ drop'[l] # Nil
    BY <1>0, <2>2 DEF Receive, TypeOK
  <2>5. LoopIsAlone'
    BY <1>0, <2>1, <2>2, <2>3, <2>4 DEF LoopIsAlone, NoneLive, Live
  <2> QED
    BY <1>0, <1>1, <2>1, <2>5
<1>10. CASE \E l \in Loops : DoStop(l)
  <2> PICK l \in Loops : DoStop(l)
    BY <1>10
  <2>1. UNCHANGED <<state, slot, closed, pc, panicked>> /\ loop[l] = "stopping" /\ drop[l] # Nil
    BY <1>0 DEF DoStop, LoopIsAlone
  <2>2. \A k \in Loops : loop'[k] = IF k = l THEN "none" ELSE loop[k]
    BY <1>0, <2>1 DEF DoStop, Answer, TypeOK
  <2>3. NoneLive'
    BY <1>0, <2>1, <2>2 DEF LoopIsAlone, NoneLive, Live
  <2>4. LoopIsAlone'
    BY <1>0, <2>2, <2>3 DEF LoopIsAlone, NoneLive, Live
  <2> QED
    BY <1>0, <1>1, <2>1, <2>4
<1>11. CASE \/ \E l \in Loops : Tick(l)
            \/ Deliver \/ Discard \/ Process \/ SessionTick \/ Environment \/ UNCHANGED vars
  <2>1. UNCHANGED <<pc, state, channels, loop, panicked>>
    BY <1>11 DEF Tick, Deliver, Discard, Process, SessionTick, Environment, Expire, Locks, vars
  <2> QED
    BY <1>0, <1>1, <1>2, <2>1
<1> QED
  BY <1>3, <1>4, <1>5, <1>6, <1>7, <1>8, <1>9, <1>10, <1>11
     DEF SerialNext, Background, Activity, Maintain, Continue

LEMMA KnownInvariant == SerialSpec => []Known
BY SerialUsers, OpenUsers, TypesInvariant, RepliesInvariant, ResignMeetsMaintainer, PTL DEF Known

LEMMA SerialInvariant == SerialSpec => []Serial
<1>1. Init => Serial
  BY DEF Init, Serial, CallsAreSerial, LoopIsAlone, NoneLive, Live, Quiet
<1> QED
  BY <1>1, SerialStep, KnownInvariant, PTL DEF SerialSpec

\* One call at a time never sends on a closed channel nor closes it twice, and no
\* maintainLock() goroutine is left with a nil channel to answer.
THEOREM NeverWedgedSerially == SerialSpec => []NeverWedged
<1>1. Serial => NeverWedged
  BY DEF Serial, LoopIsAlone, NeverWedged
<1> QED
  BY <1>1, SerialInvariant, PTL
-----------------------------------------------------------------------------
(***************************************************************************)
(* The session, the lock and what the recipients are told.                 *)
(***************************************************************************)
\* While a maintainLock() goroutine lives the session runs, except between the two
\* halves of a restart, which is the handler's.
SessionIsRun == \A l \in Loops : Live(l) => running \/ (cs.by = Handler /\ cs.at = "look")

\* Without one nothing can acquire the lock: all that is left is an old update, which
\* finds the session stopped.
LeftBehind ==
  NoneLive => /\ ~elected /\ cs.by \in {Nil, Handler} /\ cs.at \in {"free", "look"}
              /\ update # Nil \/ cs.at = "look" => ~running

\* In the pool every election that is noticed is told.
ToldInPool == state = "running" => told = elected

Kempt == SessionIsRun /\ LeftBehind /\ ToldInPool

\* Somebody lives as long as the candidate is in the pool.
LEMMA PoolIsKept ==
  ASSUME Known, Serial, state = "running"
  PROVE  ~NoneLive
<1>1. ~closed
  BY DEF Serial, CallsAreSerial
<1>2. Selecting # {}
  <2> SUFFICES ASSUME Selecting = {} PROVE FALSE
    OBVIOUS
  <2> QED
    BY <1>1, FiniteCounts, FS_EmptySet DEF Known, ResignFindsMaintainer, Entrant
<1> QED
  BY <1>2 DEF NoneLive, Live, Selecting

LEMMA KemptStep == Known /\ Serial /\ Serial' /\ Kempt /\ [SerialNext]_vars => Kempt'
<1> SUFFICES ASSUME Known, Serial, Serial', Kempt, [SerialNext]_vars
             PROVE  SessionIsRun' /\ LeftBehind' /\ ToldInPool'
  BY DEF Kempt
<1> USE DEF leader, channels, session, lock
<1>0. /\ TypeOK /\ Sections /\ RepliesOwed /\ CallsAreSerial /\ LoopIsAlone /\ ~panicked
      /\ SessionIsRun /\ LeftBehind /\ ToldInPool
  BY DEF Known, Types, Serial, Kempt
<1>1. ASSUME UNCHANGED <<loop, running, cs, elected, told, state>>,
             update' = update \/ update' = Nil
      PROVE  Kempt'
  BY <1>1 DEF Kempt, SessionIsRun, LeftBehind, ToldInPool, NoneLive, Live
<1>2. CASE Look
  <2>1. UNCHANGED <<loop, state, update>> /\ cs.at = "look" /\ cs.by # Nil
    BY <1>0, <1>2 DEF Look, Sections
  <2>2. CASE /\ running /\ sid # NoSession
             /\ cs' = [cs EXCEPT !.at = "acquire", !.sid = sid]
             /\ UNCHANGED <<leader, session>>
    <3>1. ~NoneLive
      BY <1>0, <2>1, <2>2 DEF LeftBehind
    <3> QED
      BY <1>0, <2>1, <2>2, <3>1 DEF SessionIsRun, LeftBehind, ToldInPool, NoneLive, Live
  <2>3. CASE Elect(FALSE) /\ Leave /\ (running \/ SessionRun)
    <3>1. running'
      BY <1>0, <1>2, <2>3, SessionRunFacts DEF Look
    <3>2. ~elected' /\ cs' = Free
      BY <2>3 DEF Elect, Leave
    <3>3. ToldInPool'
      BY <1>0, <2>1, <2>3 DEF Elect, ToldInPool, TypeOK
    <3>4. NoneLive' => update' = Nil
      BY <1>0, <2>1 DEF LeftBehind, Sections, NoneLive, Live
    <3> QED
      BY <3>1, <3>2, <3>3, <3>4 DEF SessionIsRun, LeftBehind, Free
  <2> QED
    BY <1>2, <2>2, <2>3 DEF Look
<1>3. CASE Acquire
  <2>1. UNCHANGED <<loop, state, update, running, leader>> /\ cs.at = "acquire"
    BY <1>3 DEF Acquire
  <2>2. ~NoneLive /\ ~NoneLive'
    BY <1>0, <2>1 DEF LeftBehind, NoneLive, Live
  <2>3. running
    BY <1>0, <2>1, <2>2 DEF SessionIsRun, NoneLive
  <2> QED
    BY <1>0, <2>1, <2>2, <2>3 DEF SessionIsRun, LeftBehind, ToldInPool, Live
<1>12. CASE Assign
  <2>1. UNCHANGED <<loop, state, update, running>> /\ cs' = Free /\ cs.at = "assign"
    BY <1>12 DEF Assign, Leave
  <2>2. PICK e : Elect(e) /\ e \in BOOLEAN
    BY <1>0, <1>12 DEF Assign, TypeOK, Section
  <2>3. ~NoneLive /\ ~NoneLive'
    BY <1>0, <2>1 DEF LeftBehind, NoneLive, Live
  <2>4. ToldInPool'
    BY <1>0, <2>1, <2>2 DEF Elect, ToldInPool, TypeOK
  <2> QED
    BY <1>0, <2>1, <2>3, <2>4 DEF SessionIsRun, LeftBehind, Live
<1>4. CASE Quiet /\ \E u \in Users : Run(u)
  <2> PICK u \in Users : Run(u)
    BY <1>4
  <2>1. CASE UNCHANGED <<state, told, cs, pc, loop, session, lock>>
    BY <1>1, <2>1 DEF Run, Kempt
  <2>2. CASE /\ told' = elected /\ SessionRun
             /\ \E l \in Loops : loop' = [loop EXCEPT ![l] = "select"]
    <3>1. running' /\ elected' = elected
      BY <1>0, <2>2, SessionRunFacts DEF Run
    <3>2. ~NoneLive'
      BY <1>0, <2>2 DEF NoneLive, Live, TypeOK
    <3> QED
      BY <2>2, <3>1, <3>2 DEF SessionIsRun, LeftBehind, ToldInPool
  <2> QED
    BY <2>1, <2>2 DEF Run
<1>5. CASE \E u \in Users : Resign(u) \/ Shutdown(u)
  <2>1. UNCHANGED <<loop, running, cs, elected, update>>
    BY <1>5 DEF Resign, Shutdown
  <2>2. UNCHANGED <<told, state>> \/ state' \in {"resigned", "shutdowned"}
    BY <1>5 DEF Resign, Shutdown
  <2> QED
    BY <1>0, <2>1, <2>2 DEF SessionIsRun, LeftBehind, ToldInPool, NoneLive, Live
<1>6. CASE \E l \in Loops : Tick(l)
  <2> PICK l \in Loops : Tick(l)
    BY <1>6
  <2>1. UNCHANGED <<loop, running, elected, told, state, update>> /\ cs = Free /\ Live(l)
    BY DEF Tick, Unlocked, Live
  <2>2. \A k \in Loops : Live(k) => running
    BY <1>0, <2>1 DEF SessionIsRun, Free
  <2> QED
    BY <1>0, <2>1, <2>2 DEF SessionIsRun, LeftBehind, ToldInPool, NoneLive, Live
<1>7. CASE \E l \in Loops : Receive(l)
  <2> PICK l \in Loops : Receive(l)
    BY <1>7
  <2>1. UNCHANGED <<running, cs, elected, told, state, update>>
    BY DEF Receive
  <2>2. \A k \in Loops : Live(k)' <=> Live(k)
    BY <1>0 DEF Receive, Live, TypeOK
  <2> QED
    BY <1>0, <2>1, <2>2 DEF SessionIsRun, LeftBehind, ToldInPool, NoneLive
<1>8. CASE \E l \in Loops : DoStop(l)
  <2> PICK l \in Loops : DoStop(l)
    BY <1>8
  <2>1. ~elected' /\ cs' = Free /\ UNCHANGED <<state, told, update>>
    BY DEF DoStop, Unlocked
  <2>2. ~running'
    BY <1>0, DeleteFacts, SessionStopFacts DEF DoStop, TypeOK
  <2>3. state # "running"
    <3>1. drop[l] \in Users /\ pc[drop[l]] \in Awaiting
      BY <1>0 DEF DoStop, LoopIsAlone, RepliesOwed, TypeOK
    <3> QED
      BY <1>0, <3>1 DEF CallsAreSerial, Awaiting
  <2>4. NoneLive'
    <3>1. Live(l) /\ loop'[l] \notin {"select", "stopping"}
          /\ \A k \in Loops \ {l} : loop'[k] = loop[k]
      BY <1>0 DEF DoStop, Answer, Live, TypeOK
    <3> QED
      BY <1>0, <3>1 DEF LoopIsAlone, NoneLive, Live
  <2> QED
    BY <2>1, <2>2, <2>3, <2>4 DEF SessionIsRun, LeftBehind, ToldInPool, NoneLive, Free
<1>9. CASE Deliver
  <2>1. UNCHANGED <<loop, running, cs, elected, told, state>>
    BY <1>9 DEF Deliver
  <2>2. CASE state = "running"
    <3>1. ~NoneLive /\ ~NoneLive'
      BY <2>1, <2>2, PoolIsKept DEF NoneLive, Live
    <3> QED
      BY <1>0, <2>1, <3>1 DEF SessionIsRun, LeftBehind, ToldInPool, Live
  <2>3. CASE state # "running"
    BY <1>1, <1>9, <2>1, <2>3 DEF Deliver, Kempt
  <2> QED
    BY <2>2, <2>3
<1>10. CASE Process
  <2>1. UNCHANGED <<loop, elected, told, state>> /\ update' = Nil /\ update # Nil /\ cs = Free
    BY <1>10 DEF Process, Unlocked
  <2>2. CASE UNCHANGED <<cs, running>>
    BY <1>1, <2>1, <2>2 DEF Kempt
  <2>3. CASE Enter(Handler) /\ (UNCHANGED running \/ ~running')
    <3>1. cs'.by = Handler /\ cs'.at = "look"
      BY <2>3 DEF Enter
    <3>2. NoneLive' => ~running'
      BY <1>0, <2>1, <2>3 DEF LeftBehind, NoneLive, Live
    <3>3. NoneLive' => ~elected'
      BY <1>0, <2>1 DEF LeftBehind, NoneLive, Live
    <3> QED
      BY <1>0, <2>1, <3>1, <3>2, <3>3 DEF SessionIsRun, LeftBehind, ToldInPool
  <2> QED
    BY <1>0, <1>10, <2>2, <2>3, SessionStopFacts DEF Process, TypeOK
<1>11. CASE \/ \E u \in Users : Continue(u)
            \/ Discard \/ SessionTick \/ Environment \/ UNCHANGED vars
  <2>1. UNCHANGED <<loop, running, cs, elected, told, state, update>>
    BY <1>11 DEF Continue, Send, Await, Close, Discard, SessionTick, Environment, Expire, Locks, vars
  <2> QED
    BY <1>1, <2>1 DEF Kempt
<1> QED
  BY <1>2, <1>3, <1>4, <1>5, <1>6, <1>7, <1>8, <1>9, <1>10, <1>11,
     <1>12 DEF SerialNext, Background, Activity, Maintain, Kempt

LEMMA KemptInvariant == SerialSpec => []Kempt
<1>1. Init => Kempt
  BY DEF Init, Kempt, SessionIsRun, LeftBehind, ToldInPool, NoneLive, Live, Free
<1> QED
  BY <1>1, KemptStep, KnownInvariant, SerialInvariant, PTL DEF SerialSpec

\* Between the calls, a candidate in the pool has a running session, which no restart
\* left stopped, and exactly one goroutine that keeps it in the pool.
THEOREM PoolHasSession == SerialSpec => []RunningHasSession
<1>1. Known /\ Serial /\ Kempt => RunningHasSession
  <2> SUFFICES ASSUME Known, Serial, Kempt, cs = Free, state = "running"
               PROVE  running /\ Cardinality({l \in Loops : Live(l)}) = 1
    BY DEF RunningHasSession
  <2>1. PICK l \in Loops : Live(l)
    BY PoolIsKept DEF NoneLive
  <2>2. {k \in Loops : Live(k)} = {l}
    BY <2>1 DEF Serial, LoopIsAlone
  <2>3. Cardinality({l}) = 1
    BY FS_Singleton
  <2> QED
    BY <2>1, <2>2, <2>3 DEF Kempt, SessionIsRun, Free
<1> QED
  BY <1>1, KnownInvariant, SerialInvariant, KemptInvariant, PTL

\* Once a candidate has left the pool it is not the leader, and nothing that was under
\* way when it left makes it the leader again.
THEOREM OutOfPoolIsNotElected == SerialSpec => []OutIsNotElected
<1>1. Known /\ Serial /\ Kempt => OutIsNotElected
  BY OutOfPoolIsQuiet DEF Kempt, LeftBehind, NoneLive, OutIsNotElected, Out
<1> QED
  BY <1>1, KnownInvariant, SerialInvariant, KemptInvariant, PTL

\* As long as a candidate is in the pool, the last update pushed to its recipients says
\* whether it leads.
THEOREM PoolIsTold == SerialSpec => []ToldWhileRunning
<1>1. Kempt => ToldWhileRunning
  BY DEF Kempt, ToldInPool, ToldWhileRunning
<1> QED
  BY <1>1, KemptInvariant, PTL

\* A session is started outside the pool by an old update only.
THEOREM OnlyOldUpdatesStart == SerialSpec => StartsOnlyByOldUpdate
<1>1. /\ Known /\ Serial /\ Kempt /\ [SerialNext]_vars
      => [state' \notin {"new", "running"} /\ ~running /\ running' => cs.by = Handler]_vars
  <2> SUFFICES ASSUME Known, Serial, Kempt, [SerialNext]_vars,
                      state' \notin {"new", "running"}, ~running, running'
               PROVE  cs.by = Handler
    OBVIOUS
  <2> USE DEF session
  <2>0. TypeOK /\ Sections /\ SessionIsRun /\ LeftBehind
    BY DEF Known, Types, Kempt
  <2>1. CASE Look
    <3>1. cs.by \in Users \cup Loops \cup {Handler}
      BY <2>0, <2>1 DEF Look, Sections, TypeOK, Section
    <3>2. cs.by \notin Loops
      BY <2>0, CandidateAssumption DEF Sections, SessionIsRun, Live
    <3>3. cs.by \notin Users
      BY <2>0, <2>1 DEF Look, Sections, Serial, CallsAreSerial
    <3> QED
      BY <3>1, <3>2, <3>3
  <2>2. CASE \E u \in Users : Run(u)
    BY <2>2 DEF Run
  <2>3. CASE \E l \in Loops : DoStop(l)
    BY <2>0, <2>3, DeleteFacts, SessionStopFacts DEF DoStop, TypeOK
  <2>4. CASE Process
    BY <2>0, <2>4, SessionStopFacts DEF Process, TypeOK
  <2>5. CASE UNCHANGED running
    BY <2>5
  <2> QED
    BY <2>1, <2>2, <2>3, <2>4, <2>5
       DEF SerialNext, Background, Activity, Maintain, Acquire, Assign, Resign, Shutdown, Continue,
           Send, Await, Close, Tick, Receive, Deliver, Discard, SessionTick, Environment, Expire, Locks,
           vars
<1> QED
  BY <1>1, KnownInvariant, SerialInvariant, KemptInvariant, PTL DEF SerialSpec, StartsOnlyByOldUpdate
=============================================================================
