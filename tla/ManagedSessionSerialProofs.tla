--------------------- MODULE ManagedSessionSerialProofs ---------------------
(***************************************************************************)
(* Theorems about ManagedSession for a user who makes one call at a time,  *)
(* as Candidate does: what a call that has returned leaves behind.         *)
(***************************************************************************)
EXTENDS ManagedSessionProofs, Sequences

NoneLive == \A l \in Loops : ~Live(l)

\* The call in progress has made its state change: only Run() returns while the
\* session is running.
CallsAreSerial ==
  /\ \A c, d \in Callers : pc[c] # "idle" /\ pc[d] # "idle" => c = d
  /\ closed => Quiet
  /\ closed \/ ~Quiet => state # "running"

\* The maintain() goroutine has answered, or there was none to ask.
Answered ==
  \/ closed
  \/ \E c \in Callers : reply[c] # "none" \/ pc[c] \in {"shutdown.detach", "shutdown.close"}

\* One maintain() goroutine at most: it selects as long as the session is running or
\* the stop request is on its way, stops for a caller who waits for it, and is gone
\* when that caller has been answered.
LoopIsAlone ==
  /\ \A k, l \in Loops : Live(k) /\ Live(l) => k = l
  /\ \A l \in Loops :
       /\ loop[l] = "stopping" => drop[l] # Nil
       /\ loop[l] = "select" => state = "running" \/ Waiting # {}
  /\ Answered => NoneLive

Serial == CallsAreSerial /\ LoopIsAlone /\ NeverWedged

\* What every step may use.
Known == TypeOK /\ Channels /\ StopFindsMaintainer /\ SessionHasKeeper

\* A serial user is a user, so everything proved of the racing ones holds.
LEMMA SerialUsers == SerialSpec => Spec
<1>1. [SerialNext]_vars => [Next]_vars
  BY DEF SerialNext, Next
<1> QED
  BY <1>1, PTL DEF SerialSpec, Spec

LEMMA KnownInvariant == SerialSpec => []Known
BY SerialUsers, TypeCorrect, ChannelsInvariant, StopMeetsMaintainer, SessionKept, PTL DEF Known

\* Between the calls, a session that is not running has no goroutine.
LEMMA StoppedIsQuiet ==
  ASSUME Known, Serial, Quiet, state # "running"
  PROVE  NoneLive
<1>1. Waiting = {}
  BY DEF Known, Channels, ReplyInOnePlace, Quiet, Waiting
<1>2. \A l \in Loops : drop[l] = Nil
  BY DEF Known, TypeOK, Channels, ReplyInOnePlace, Holders, Quiet
<1> QED
  BY <1>1, <1>2 DEF NoneLive, Live, Serial, LoopIsAlone

LEMMA SerialStep == Known /\ Serial /\ [SerialNext]_vars => Serial'
<1> SUFFICES ASSUME Known, Serial, [SerialNext]_vars
             PROVE  CallsAreSerial' /\ LoopIsAlone' /\ NeverWedged'
  BY DEF Serial
<1> USE DEF fields, channels
<1>0. /\ TypeOK /\ Channels /\ CallsAreSerial /\ LoopIsAlone
      /\ NeverWedged
  BY DEF Known, Serial
<1>1. ASSUME UNCHANGED <<pc, state, closed>>
      PROVE  CallsAreSerial'
  BY <1>0, <1>1 DEF CallsAreSerial, Quiet
<1>2. ASSUME UNCHANGED <<pc, state, channels, loop>>
      PROVE  LoopIsAlone'
  BY <1>0, <1>2 DEF LoopIsAlone, NoneLive, Live, Waiting, Answered
<1>3. CASE Quiet /\ ~closed /\ \E c \in Callers : Run(c)
  <2> PICK c \in Callers : Run(c)
    BY <1>3
  <2>1. UNCHANGED <<channels, mu, panicked, pc>> /\ Quiet /\ Quiet'
    BY <1>0, <1>3 DEF Run, Return, Quiet, TypeOK
  <2>2. CASE UNCHANGED <<state, loop>>
    BY <1>0, <1>1, <1>2, <2>1, <2>2 DEF NeverWedged
  <2>3. CASE state = "stopped" /\ state' = "running" /\ \E l \in Loops : Spawn(l)
    <3>1. NoneLive
      BY <1>3, <2>3, StoppedIsQuiet
    <3>2. CallsAreSerial'
      BY <1>0, <1>3, <2>1 DEF CallsAreSerial, Quiet
    <3>3. ~Answered'
      BY <1>0, <1>3, <2>1 DEF Answered, Channels, ReplyInOnePlace, Quiet
    <3>4. LoopIsAlone'
      BY <1>0, <2>1, <2>3, <3>1, <3>3 DEF LoopIsAlone, NoneLive, Live, Spawn, TypeOK
    <3> QED
      BY <1>0, <2>1, <3>2, <3>4 DEF NeverWedged
  <2> QED
    BY <2>2, <2>3 DEF Run
<1>4. CASE Quiet /\ ~closed /\ \E c \in Callers : Stop(c) \/ Shutdown(c)
  <2> PICK c \in Callers : Stop(c) \/ Shutdown(c)
    BY <1>4
  <2>1. UNCHANGED <<channels, loop, mu, panicked>>
    BY DEF Stop, Shutdown
  <2>2. CASE UNCHANGED <<state, pc>>
    BY <1>0, <1>1, <1>2, <2>1, <2>2 DEF NeverWedged
  <2>3. CASE /\ state' # "running"
             /\ \/ /\ state = "running"
                   /\ \E p \in {"stop.send", "shutdown.send"} : pc' = [pc EXCEPT ![c] = p]
                \/ /\ state # "running" /\ pc' = [pc EXCEPT ![c] = "shutdown.detach"]
    <3>1. \A d \in Callers \ {c} : pc'[d] = "idle"
      BY <1>0, <1>4, <2>3 DEF Quiet, TypeOK
    <3>2. CallsAreSerial'
      BY <1>4, <2>1, <2>3, <3>1 DEF CallsAreSerial
    <3>3. CASE state # "running"
      BY <1>0, <1>4, <2>1, <3>2, <3>3, StoppedIsQuiet DEF LoopIsAlone, NoneLive, Live, NeverWedged
    <3>4. CASE state = "running"
      <4>1. pc'[c] \in {"stop.send", "shutdown.send"}
        BY <1>0, <2>3, <3>4 DEF TypeOK
      <4>2. c \in Waiting'
        BY <4>1 DEF Waiting
      <4>3. Answered' => Answered
        BY <2>1, <3>1, <4>1 DEF Answered
      <4> QED
        BY <1>0, <2>1, <3>2, <4>2, <4>3 DEF LoopIsAlone, NoneLive, Live, NeverWedged
    <3> QED
      BY <3>3, <3>4
  <2>4. Return(c, "nil") \/ Return(c, "err") => UNCHANGED pc
    BY <1>0, <1>4 DEF Return, Quiet, TypeOK
  <2> QED
    BY <1>0, <2>2, <2>3, <2>4 DEF Stop, Shutdown, RequiresStop, TypeOK, States
<1>5. CASE \E c \in Callers : Send(c)
  <2> PICK c \in Callers : Send(c)
    BY <1>5
  <2>1. ~closed /\ ~Quiet
    BY <1>0 DEF Send, CallsAreSerial, Quiet
  <2>2. UNCHANGED <<state, closed, reply, drop, loop, mu, panicked>> /\ slot' = c
    BY <2>1 DEF Send
  <2>3. /\ pc[c] # "idle" /\ pc'[c] \in {"stop.await", "shutdown.await"}
        /\ \A d \in Callers \ {c} : pc'[d] = pc[d]
    BY <1>0, <2>1 DEF Send, TypeOK
  <2>4. CallsAreSerial'
    BY <1>0, <2>1, <2>2, <2>3 DEF CallsAreSerial, Quiet
  <2>5. c \in Waiting'
    BY <2>2 DEF Waiting
  <2>6. Answered' => Answered
    BY <2>2, <2>3 DEF Answered
  <2>7. LoopIsAlone'
    BY <1>0, <2>2, <2>5, <2>6 DEF LoopIsAlone, NoneLive, Live
  <2> QED
    BY <1>0, <2>2, <2>4, <2>7 DEF NeverWedged
<1>6. CASE \E c \in Callers : Await(c)
  <2> PICK c \in Callers : Await(c)
    BY <1>6
  <2>1. UNCHANGED <<state, slot, closed, drop, loop, mu, panicked>> /\ Answered
    BY DEF Await, Answered
  <2>2. /\ pc[c] # "idle" /\ \A d \in Callers \ {c} : pc'[d] = pc[d]
    BY <1>0 DEF Await, TypeOK
  <2>3. CallsAreSerial'
    BY <1>0, <2>1, <2>2 DEF CallsAreSerial, Quiet
  <2>4. LoopIsAlone'
    BY <1>0, <2>1 DEF LoopIsAlone, NoneLive, Live
  <2> QED
    BY <1>0, <2>1, <2>3, <2>4 DEF NeverWedged
<1>7. CASE \E c \in Callers : Detach(c) \/ Close(c)
  <2> PICK c \in Callers : Detach(c) \/ Close(c)
    BY <1>7
  <2>1. UNCHANGED <<state, slot, reply, drop, loop, mu>> /\ Answered
    BY DEF Detach, Close, Answered
  <2>2. ~closed /\ ~Quiet /\ pc[c] # "idle"
    BY <1>0 DEF Detach, Close, CallsAreSerial, Quiet
  <2>3. /\ ~panicked'
        /\ \/ closed' = closed /\ pc'[c] # "idle"
           \/ pc'[c] = "idle"
        /\ \A d \in Callers \ {c} : pc'[d] = pc[d]
    BY <1>0, <2>2 DEF Detach, Close, NeverWedged, TypeOK
  <2>4. CallsAreSerial'
    BY <1>0, <2>1, <2>2, <2>3 DEF CallsAreSerial, Quiet
  <2>5. LoopIsAlone'
    BY <1>0, <2>1 DEF LoopIsAlone, NoneLive, Live
  <2> QED
    BY <1>0, <2>1, <2>3, <2>4, <2>5 DEF NeverWedged
<1>8. CASE \E l \in Loops : Receive(l)
  <2> PICK l \in Loops : Receive(l)
    BY <1>8
  <2>1. UNCHANGED <<state, closed, reply, pc, mu, panicked>> /\ loop[l] = "select"
    BY DEF Receive
  <2>2. Live(l) /\ ~Answered /\ slot # Nil
    BY <1>0, <2>1 DEF Receive, LoopIsAlone, NoneLive, Live, Answered
  <2>3. \A k \in Loops \ {l} : loop'[k] = loop[k] /\ ~Live(k)
    BY <1>0, <2>2 DEF Receive, LoopIsAlone, TypeOK
  <2>4. loop'[l] = "stopping" /\ drop'[l] # Nil
    BY <1>0, <2>2 DEF Receive, TypeOK
  <2>5. ~Answered'
    BY <2>1, <2>2 DEF Answered
  <2>6. LoopIsAlone'
    BY <2>3, <2>4, <2>5 DEF LoopIsAlone, Live
  <2> QED
    BY <1>0, <1>1, <2>1, <2>6 DEF NeverWedged
<1>9. CASE \E l \in Loops : DoStop(l)
  <2> PICK l \in Loops : DoStop(l)
    BY <1>9
  <2>1. UNCHANGED <<slot, closed, pc, panicked>> /\ loop[l] = "stopping" /\ state' # "running"
    BY DEF DoStop
  <2>2. drop[l] # Nil
    BY <1>0, <2>1 DEF LoopIsAlone
  <2>3. PICK e : Answer(l, e)
    BY DEF DoStop
  <2>4. mu' = mu /\ \A k \in Loops : loop'[k] = IF k = l THEN "none" ELSE loop[k]
    BY <1>0, <2>2, <2>3 DEF Answer, TypeOK
  <2>5. NoneLive'
    BY <1>0, <2>1, <2>4 DEF LoopIsAlone, NoneLive, Live
  <2>6. LoopIsAlone'
    BY <2>5 DEF LoopIsAlone, NoneLive, Live
  <2>7. CallsAreSerial'
    BY <1>0, <2>1 DEF CallsAreSerial, Quiet
  <2> QED
    BY <1>0, <2>1, <2>4, <2>6, <2>7 DEF NeverWedged
<1>10. CASE \/ \E l \in Loops : Tick(l)
            \/ Elapse
            \/ \E s \in Sessions : Expire(s)
            \/ UNCHANGED vars
  <2>1. UNCHANGED <<pc, state, channels, loop, mu, panicked>>
    BY <1>10 DEF Tick, Elapse, Expire, vars
  <2> QED
    BY <1>0, <1>1, <1>2, <2>1 DEF NeverWedged
<1> QED
  BY <1>3, <1>4, <1>5, <1>6, <1>7, <1>8, <1>9, <1>10
     DEF SerialNext, Background, Continue, Maintain

LEMMA SerialInvariant == SerialSpec => []Serial
<1>1. Init => Serial
  BY DEF Init, Serial, CallsAreSerial, LoopIsAlone, NeverWedged, Answered, NoneLive, Live, Quiet
<1> QED
  BY <1>1, SerialStep, KnownInvariant, PTL DEF SerialSpec

\* One call at a time never sends on a closed channel nor closes it twice, and never
\* leaves a maintain() goroutine with a nil channel to answer, holding ms.mu.
THEOREM NeverWedgedSerially == SerialSpec => []NeverWedged
BY SerialInvariant, PTL DEF Serial
-----------------------------------------------------------------------------
\* When no call is in progress exactly one maintain() goroutine lives if the session is
\* running, and neither a goroutine nor a session is left behind if it is not.
THEOREM StoppedHoldsNothing == SerialSpec => []QuietWhenStopped
<1>1. Known /\ Serial => QuietWhenStopped
  <2> SUFFICES ASSUME Known, Serial, Quiet
               PROVE  /\ Cardinality({l \in Loops : Live(l)}) = Running
                      /\ state # "running" => id = NoSession
    BY DEF QuietWhenStopped
  <2>1. CASE state # "running"
    <3>1. NoneLive
      BY <2>1, StoppedIsQuiet
    <3>2. {l \in Loops : Live(l)} = {} /\ id = NoSession
      BY <3>1 DEF NoneLive, Known, SessionHasKeeper
    <3> QED
      BY <2>1, <3>2, FS_EmptySet DEF Running
  <2>2. CASE state = "running"
    <3>1. ~closed
      BY <2>2 DEF Serial, CallsAreSerial
    <3>2. Selecting # {}
      <4> SUFFICES ASSUME Selecting = {} PROVE FALSE
        OBVIOUS
      <4> QED
        BY <2>2, <3>1, FiniteCounts, FS_EmptySet DEF Known, StopFindsMaintainer, Running
    <3>3. PICK l \in Loops : Live(l)
      BY <3>2 DEF Selecting, Live
    <3>4. {k \in Loops : Live(k)} = {l}
      BY <3>3 DEF Serial, LoopIsAlone
    <3> QED
      BY <2>2, <3>4, FS_Singleton DEF Running
  <2> QED
    BY <2>1, <2>2
<1> QED
  BY <1>1, KnownInvariant, SerialInvariant, PTL
-----------------------------------------------------------------------------
(***************************************************************************)
(* The session of a serial user.                                           *)
(***************************************************************************)
LEMMA SameAnswers ==
  /\ \A s, up : Plain!CreateOutcomes(s, up) = CreateOutcomes(s, up)
  /\ \A s, up : Plain!RenewOutcomes(s, up) = RenewOutcomes(s, up)
  /\ \A s, up : Plain!DestroyOutcomes(s, up) = DestroyOutcomes(s, up)
BY DEF Plain!CreateOutcomes, CreateOutcomes, Plain!RenewOutcomes, RenewOutcomes,
       Plain!DestroyOutcomes, DestroyOutcomes, Plain!Outcome, Outcome

\* An answer becomes an outcome of SerialSession, whatever results it tells.
LEMMA AnswerBecomes ==
  ASSUME NEW o, NEW oks, id' = o.id, upstream' = o.up,
         NEW outcomes, Plain!Telling(o, oks) \in outcomes
  PROVE  Plain!Becomes(outcomes)
BY DEF Plain!Telling, Plain!Becomes

LEMMA RunIsSerial ==
  ASSUME NEW o \in CreateOutcomes(id, upstream), id' = o.id, upstream' = o.up
  PROVE  Plain!Becomes(Plain!Started(id, upstream))
<1>1. Plain!Telling(o, <<TRUE, o.ok>>) \in Plain!Started(id, upstream)
  BY SameAnswers DEF Plain!Started
<1> QED
  BY <1>1, AnswerBecomes

LEMMA StopIsSerial ==
  ASSUME NEW l \in Loops, DoStop(l)
  PROVE  Plain!Becomes(Plain!Stopped(id, upstream))
<1>1. Plain!Ended(id, upstream, <<TRUE>>) \subseteq Plain!Stopped(id, upstream)
  BY DEF Plain!Stopped
<1>2. CASE id = NoSession
  <2>1. [id |-> id, up |-> upstream, oks |-> <<TRUE>>] \in Plain!Ended(id, upstream, <<TRUE>>)
    BY <1>2 DEF Plain!Ended
  <2> QED
    BY <1>1, <1>2, <2>1 DEF Plain!Becomes, DoStop
<1>3. CASE id # NoSession
  <2> PICK o \in DestroyOutcomes(id, upstream) : id' = o.id /\ upstream' = o.up
    BY <1>3 DEF DoStop
  <2>1. Plain!Telling(o, Append(<<TRUE>>, o.ok)) \in Plain!Ended(id, upstream, <<TRUE>>)
    BY <1>3, SameAnswers DEF Plain!Ended
  <2> QED
    BY <1>1, <2>1, AnswerBecomes
<1> QED
  BY <1>2, <1>3

\* A tick renews, or destroys and creates: which of them it tries depends on the renewal
\* time, but all it may come to is in Ticked.
LEMMA TickIsSerial ==
  ASSUME NEW l \in Loops, Tick(l)
  PROVE  Plain!Becomes(Plain!Ticked(id, upstream))
<1> DEFINE renewed == Plain!RenewOutcomes(id, upstream)
           gone    == Plain!DestroyOutcomes(id, upstream)
           kept    == {r \in renewed : r.id # NoSession}
           lost    == {r \in renewed \cup gone : r.id = NoSession}
           Again(r) == {Plain!Telling(o, <<r.ok, o.ok>>) : o \in Plain!CreateOutcomes(id, r.up)}
<1>1. CASE id = NoSession
  <2> PICK o \in CreateOutcomes(id, upstream) : id' = o.id /\ upstream' = o.up
    BY <1>1 DEF Tick, Created, Refreshed
  <2>1. Plain!Telling(o, <<o.ok>>) \in Plain!Ticked(id, upstream)
    BY <1>1, SameAnswers DEF Plain!Ticked
  <2> QED
    BY <2>1, AnswerBecomes
<1>2. CASE id # NoSession
  <2>1. Plain!Ticked(id, upstream) =
          {Plain!Telling(r, <<r.ok>>) : r \in kept} \cup UNION {Again(r) : r \in lost}
    BY <1>2 DEF Plain!Ticked
  <2>2. CASE \E r \in Refreshed : r.id # NoSession /\ id' = r.id /\ upstream' = r.up
    <3> PICK r \in Refreshed : r.id # NoSession /\ id' = r.id /\ upstream' = r.up
      BY <2>2
    <3>1. r \in kept
      BY <1>2, SameAnswers DEF Refreshed, DestroyOutcomes
    <3>2. Plain!Telling(r, <<r.ok>>) \in Plain!Ticked(id, upstream)
      BY <2>1, <3>1
    <3> QED
      BY <3>2, AnswerBecomes
  <2>3. CASE \E r \in Refreshed : /\ r.id = NoSession
                                  /\ \E o \in CreateOutcomes(id, r.up) :
                                       id' = o.id /\ upstream' = o.up
    <3> PICK r \in Refreshed : /\ r.id = NoSession
                               /\ \E o \in CreateOutcomes(id, r.up) :
                                    id' = o.id /\ upstream' = o.up
      BY <2>3
    <3> PICK o \in CreateOutcomes(id, r.up) : id' = o.id /\ upstream' = o.up
      OBVIOUS
    <3>1. r \in lost
      BY <1>2, SameAnswers DEF Refreshed
    <3>2. Plain!Telling(o, <<r.ok, o.ok>>) \in Again(r)
      BY SameAnswers
    <3> HIDE DEF lost, Again
    <3>3. Again(r) \in {Again(q) : q \in lost}
      BY <3>1
    <3>4. Plain!Telling(o, <<r.ok, o.ok>>) \in Plain!Ticked(id, upstream)
      BY <2>1, <3>2, <3>3
    <3> QED
      BY <3>4, AnswerBecomes
  <2> QED
    BY <1>2, <2>2, <2>3 DEF Tick
<1> QED
  BY <1>1, <1>2

\* Every step of ManagedSession is a step that SerialSession knows, or invisible to it.
LEMMA SerialSessionStep ==
  Known /\ Serial /\ QuietWhenStopped /\ [SerialNext]_vars => [Plain!Next]_(Plain!svars)
<1> SUFFICES ASSUME Known, Serial, QuietWhenStopped, [SerialNext]_vars
             PROVE  [Plain!Next]_(Plain!svars)
  OBVIOUS
<1> DEFINE act == \E l \in Loops : Live(l)
<1> USE DEF Plain!Next, Plain!svars
<1>1. CASE \E c \in Callers : Quiet /\ Run(c)
  <2> PICK c \in Callers : Quiet /\ Run(c)
    BY <1>1
  <2>1. CASE state = "stopped"
    <3>1. ~act
      BY <2>1, StoppedIsQuiet DEF NoneLive
    <3>2. act'
      BY <2>1 DEF Run, Spawn, Live, Known, TypeOK
    <3>3. PICK o \in CreateOutcomes(id, upstream) : id' = o.id /\ upstream' = o.up
      BY <2>1 DEF Run, Created
    <3> QED
      BY <3>1, <3>2, <3>3, RunIsSerial DEF Plain!Run
  <2>2. CASE state # "stopped"
    BY <2>2 DEF Run, fields, Live
  <2> QED
    BY <2>1, <2>2
<1>2. CASE \E l \in Loops : Tick(l)
  <2> PICK l \in Loops : Tick(l)
    BY <1>2
  <2>1. act /\ act'
    BY TickKeepsLoops DEF Known
  <2> QED
    BY <2>1, TickIsSerial DEF Plain!Tick
<1>3. CASE \E l \in Loops : DoStop(l)
  <2> PICK l \in Loops : DoStop(l)
    BY <1>3
  <2>1. act /\ drop[l] # Nil
    BY DEF DoStop, Live, Serial, LoopIsAlone
  <2>2. loop' = [loop EXCEPT ![l] = "none"]
    BY <2>1 DEF DoStop, Answer
  <2>3. ~act'
    BY <2>2 DEF DoStop, Live, Serial, LoopIsAlone, Known, TypeOK
  <2> QED
    BY <2>1, <2>3, StopIsSerial DEF Plain!Stop
<1>4. CASE \/ \E c \in Callers : Stop(c) \/ Shutdown(c) \/ Continue(c)
           \/ \E l \in Loops : Receive(l)
           \/ Elapse
           \/ UNCHANGED vars
  <2>1. act' <=> act
    BY <1>4, OtherStepsKeepLive DEF Known
  <2>2. UNCHANGED <<id, upstream>>
    BY <1>4 DEF Stop, Shutdown, Continue, Send, Await, Detach, Close, Receive, Elapse, fields, vars
  <2> QED
    BY <2>1, <2>2
<1>5. CASE \E s \in Sessions : Expire(s)
  <2>1. UNCHANGED <<id, loop>> /\ \E s \in upstream : upstream' = upstream \ {s}
    BY <1>5 DEF Expire, fields
  <2> QED
    BY <2>1 DEF Plain!Lose, Live
<1> QED
  BY <1>1, <1>2, <1>3, <1>4, <1>5 DEF SerialNext, Background, Maintain

\* To a user who makes one call at a time a ManagedSession is a SerialSession, for any
\* number of goroutines that take turns, any sessions, and whatever Consul answers.
THEOREM SerialSessionImplemented == SerialSpec => ImplementsSerialSession
<1>1. Init => Plain!Init
  BY DEF Init, Plain!Init, Live
<1> QED
  BY <1>1, SerialSessionStep, KnownInvariant, SerialInvariant, StoppedHoldsNothing, PTL
     DEF SerialSpec, ImplementsSerialSession, Plain!Spec
=============================================================================
