--------------------------- MODULE ManagedSession ---------------------------
(***************************************************************************)
(* session.go: one ManagedSession, the goroutines that call it, and the    *)
(* maintain() goroutines it starts.                                        *)
(*                                                                         *)
(* A step is a stretch of code between two points at which another         *)
(* goroutine can interfere: one critical section of ms.mu, one channel     *)
(* operation, or the environment.  Inside a critical section nobody else   *)
(* touches the fields, so a critical section is one action; its calls to   *)
(* Consul are chosen among the outcomes of module ConsulSession.           *)
(***************************************************************************)
EXTENDS ConsulSession, FiniteSets, Naturals

CONSTANTS
  Callers,   \* goroutines that call Run, Stop and Shutdown
  Loops,     \* names for maintain() goroutines: a bound on those alive at once
  Nil        \* no goroutine, no reply channel

ASSUME ProcessAssumption ==
  /\ Nil \notin Callers \cup Loops
  /\ IsFiniteSet(Callers) /\ IsFiniteSet(Loops)

VARIABLES
  state,        \* ms.state
  id,           \* ms.id
  lastRenewed,  \* ms.lastRenewed: zero, within the TTL, or beyond it
  mu,           \* the goroutine that will never release ms.mu, or Nil
  slot,         \* ms.stop, a channel of capacity 1: the reply channel in it
  closed,       \* ms.stop has been closed
  pc,           \* pc[c]: where caller c is
  reply,        \* reply[c]: what is in c's reply channel
  ret,          \* ret[c]: what c's last call returned
  loop,         \* loop[l]: where maintain goroutine l is
  drop,         \* drop[l]: the reply channel l took from ms.stop
  panicked,     \* the process died of a panic
  note,         \* the last update pushed to the notification recipients
  attached,     \* recipients are attached
  upstream      \* the sessions that exist in Consul

fields   == <<state, id, lastRenewed>>
channels == <<slot, closed, reply, drop>>
notes    == <<note, attached>>
vars     == <<fields, channels, notes, mu, pc, ret, loop, panicked, upstream>>

States  == {"stopped", "running", "shutdowned"}
CallPCs == {"idle", "stop.send", "stop.await",
            "shutdown.send", "shutdown.await", "shutdown.detach", "shutdown.close"}
Results == {"none", "nil", "err"}
LoopPCs == {"none", "select", "stopping", "stuck"}
Update  == [state : States, id : Sessions \cup {NoSession}]

TypeOK ==
  /\ state \in States
  /\ id \in Sessions \cup {NoSession}
  /\ lastRenewed \in {"zero", "fresh", "overdue"}
  /\ mu \in Loops \cup {Nil}
  /\ slot \in Callers \cup {Nil}
  /\ closed \in BOOLEAN
  /\ pc \in [Callers -> CallPCs]
  /\ reply \in [Callers -> Results]
  /\ ret \in [Callers -> Results]
  /\ loop \in [Loops -> LoopPCs]
  /\ drop \in [Loops -> Callers \cup {Nil}]
  /\ panicked \in BOOLEAN
  /\ note \in Update
  /\ attached \in BOOLEAN
  /\ upstream \in SUBSET Sessions

\* Mutation of Init: stopped is not the zero value of the state, as in Candidate.
InitUnset ==
  /\ state = "unset" /\ id = NoSession /\ lastRenewed = "zero"
  /\ mu = Nil
  /\ slot = Nil /\ closed = FALSE
  /\ pc = [c \in Callers |-> "idle"]
  /\ reply = [c \in Callers |-> "none"] /\ ret = reply
  /\ loop = [l \in Loops |-> "none"] /\ drop = [l \in Loops |-> Nil]
  /\ panicked = FALSE
  /\ note = [state |-> "stopped", id |-> NoSession] /\ attached = TRUE
  /\ upstream = {}

Init ==
  /\ state = "stopped" /\ id = NoSession /\ lastRenewed = "zero"
  /\ mu = Nil
  /\ slot = Nil /\ closed = FALSE
  /\ pc = [c \in Callers |-> "idle"]
  /\ reply = [c \in Callers |-> "none"]
  /\ ret = [c \in Callers |-> "none"]
  /\ loop = [l \in Loops |-> "none"]
  /\ drop = [l \in Loops |-> Nil]
  /\ panicked = FALSE
  /\ note = [state |-> "stopped", id |-> NoSession]
  /\ attached = TRUE
  /\ upstream = {}
-----------------------------------------------------------------------------
\* ms.mu can be locked now: no goroutine is blocked for good while holding it.
Unlocked == ~panicked /\ mu = Nil

Live(l) == loop[l] \in {"select", "stopping"}

\* Mutation of Push: the update is built before the id changes.
PushStale == note' = IF attached THEN [state |-> state', id |-> id] ELSE note

\* buildUpdate and pushNotification at the end of a critical section: what is pushed
\* to the recipients, while there are any, says what that section leaves behind.
\* (The pushes made on the way are superseded within the same step.)
Push == note' = IF attached THEN [state |-> state', id |-> id'] ELSE note

Return(c, r) == pc' = [pc EXCEPT ![c] = "idle"] /\ ret' = [ret EXCEPT ![c] = r]

\* The fields after create(): lastRenewed moves only on success.
Created(o) ==
  /\ id' = o.id /\ upstream' = o.up
  /\ lastRenewed' = IF o.ok THEN "fresh" ELSE lastRenewed

\* Mutation of Spawn: Run() returns before it starts maintain().
SpawnNever(l) == loop[l] = "none" /\ UNCHANGED loop

\* A new maintain() goroutine enters its select loop.
Spawn(l) ==
  /\ loop[l] = "none"
  /\ loop' = [loop EXCEPT ![l] = "select"]

(***************************************************************************)
(* Run(), all under ms.mu: refused once shut down, a no-op when running;   *)
(* otherwise create() is tried once, whatever id is still set, and a       *)
(* maintain() goroutine is started even if it failed.                      *)
(***************************************************************************)
Run(c) ==
  /\ Unlocked /\ pc[c] = "idle"
  /\ \/ /\ state = "shutdowned" /\ Return(c, "err")
        /\ UNCHANGED <<fields, note, loop, upstream>>
     \/ /\ state = "running" /\ Return(c, "nil")
        /\ UNCHANGED <<fields, note, loop, upstream>>
     \/ /\ state = "stopped" /\ state' = "running"
        /\ \E o \in CreateOutcomes(id, upstream) : Created(o)
        /\ \E l \in Loops : Spawn(l)
        /\ Push
        /\ Return(c, "nil")
  /\ UNCHANGED <<channels, attached, mu, panicked>>

\* Stop() up to its unlock: the state changes before anything is stopped.
Stop(c) ==
  /\ Unlocked /\ pc[c] = "idle"
  /\ \/ /\ state = "shutdowned" /\ Return(c, "err")
        /\ UNCHANGED <<state, note>>
     \/ /\ state = "stopped" /\ Return(c, "nil")
        /\ UNCHANGED <<state, note>>
     \/ /\ state = "running" /\ state' = "stopped"
        /\ pc' = [pc EXCEPT ![c] = "stop.send"]
        /\ note' = IF attached THEN [state |-> "stopped", id |-> id] ELSE note
        /\ UNCHANGED ret
  /\ UNCHANGED <<id, lastRenewed, channels, attached, mu, loop, panicked, upstream>>

\* Mutation of RequiresStop: read after the state was set to shutdowned.
RequiresStopLate == FALSE

\* Read before Shutdown() changes the state.
RequiresStop == state = "running"

\* Shutdown() up to its first unlock.
Shutdown(c) ==
  /\ Unlocked /\ pc[c] = "idle"
  /\ \/ /\ state = "shutdowned" /\ Return(c, "nil")
        /\ UNCHANGED <<state, note>>
     \/ /\ state # "shutdowned" /\ state' = "shutdowned"
        /\ pc' = [pc EXCEPT ![c] = IF RequiresStop THEN "shutdown.send"
                                                   ELSE "shutdown.detach"]
        /\ note' = IF attached THEN [state |-> "shutdowned", id |-> id] ELSE note
        /\ ret' = [ret EXCEPT ![c] = IF RequiresStop THEN @ ELSE "nil"]
  /\ UNCHANGED <<id, lastRenewed, channels, attached, mu, loop, panicked, upstream>>

\* waitForStop(), ms.stop <- stopped: a send on a closed channel panics.
Send(c) ==
  /\ ~panicked /\ pc[c] \in {"stop.send", "shutdown.send"}
  /\ \/ /\ closed /\ panicked' = TRUE
        /\ UNCHANGED <<slot, pc>>
     \/ /\ ~closed /\ slot = Nil /\ slot' = c
        /\ pc' = [pc EXCEPT ![c] = IF @ = "stop.send" THEN "stop.await"
                                                      ELSE "shutdown.await"]
        /\ UNCHANGED panicked
  /\ UNCHANGED <<fields, closed, reply, drop, notes, mu, ret, loop, upstream>>

\* waitForStop(), err := <-stopped: Stop() returns err, Shutdown() goes on.
Await(c) ==
  /\ ~panicked /\ pc[c] \in {"stop.await", "shutdown.await"} /\ reply[c] # "none"
  /\ pc' = [pc EXCEPT ![c] = IF @ = "stop.await" THEN "idle" ELSE "shutdown.detach"]
  /\ ret' = [ret EXCEPT ![c] = reply[c]]
  /\ reply' = [reply EXCEPT ![c] = "none"]
  /\ UNCHANGED <<fields, slot, closed, drop, notes, mu, loop, panicked, upstream>>

\* Shutdown(), DetachAllNotificationRecipients(true): nothing is pushed any more, and
\* what was pushed and not delivered yet is thrown away, as module Notifier says.
Detach(c) ==
  /\ ~panicked /\ pc[c] = "shutdown.detach"
  /\ attached' = FALSE
  /\ pc' = [pc EXCEPT ![c] = "shutdown.close"]
  /\ UNCHANGED <<fields, channels, note, mu, ret, loop, panicked, upstream>>

\* Shutdown(), close(ms.stop): closing a closed channel panics.
Close(c) ==
  /\ Unlocked /\ pc[c] = "shutdown.close"
  /\ \/ closed /\ panicked' = TRUE /\ UNCHANGED <<closed, pc>>
     \/ /\ ~closed /\ closed' = TRUE
        /\ pc' = [pc EXCEPT ![c] = "idle"]
        /\ UNCHANGED panicked
  /\ UNCHANGED <<fields, slot, reply, drop, notes, mu, ret, loop, upstream>>
-----------------------------------------------------------------------------
(***************************************************************************)
(* maintain(), a timer tick: maintainTick() looks at id and lastRenewed    *)
(* but not at state.  A session overdue beyond its TTL is destroyed, any   *)
(* other is renewed; if that leaves no session a new one is created.       *)
(***************************************************************************)
Refreshed ==
  IF id = NoSession THEN {}
  ELSE IF lastRenewed = "overdue" THEN DestroyOutcomes(id, upstream)
  ELSE RenewOutcomes(id, upstream)

\* Mutation of Tick: create() is left to Run(), a tick only renews.
TickRenews(l) ==
  /\ Unlocked /\ loop[l] = "select"
  /\ \E r \in Refreshed :
       id' = r.id /\ upstream' = r.up /\ lastRenewed' = IF r.ok THEN "fresh" ELSE lastRenewed
  /\ UNCHANGED state
  /\ Push
  /\ UNCHANGED <<channels, attached, mu, pc, ret, loop, panicked>>

Tick(l) ==
  /\ Unlocked /\ loop[l] = "select"
  /\ \/ /\ id = NoSession
        /\ \E o \in CreateOutcomes(id, upstream) : Created(o)
     \/ \E r \in Refreshed :
          /\ r.id # NoSession
          /\ id' = r.id /\ upstream' = r.up /\ lastRenewed' = "fresh"
     \/ \E r \in Refreshed :
          /\ r.id = NoSession
          /\ \E o \in CreateOutcomes(id, r.up) :
               /\ id' = o.id /\ upstream' = o.up
               /\ lastRenewed' = IF o.ok THEN "fresh"
                                 ELSE IF lastRenewed = "overdue" THEN "zero"
                                 ELSE lastRenewed
  /\ UNCHANGED state
  /\ Push
  /\ UNCHANGED <<channels, attached, mu, pc, ret, loop, panicked>>

\* Mutation of Receive: drop is shadowed, the deferred function sees nil.
ReceiveShadowed(l) ==
  /\ ~panicked /\ loop[l] = "select" /\ (slot # Nil \/ closed)
  /\ slot' = Nil
  /\ loop' = [loop EXCEPT ![l] = "stopping"]
  /\ UNCHANGED <<fields, closed, reply, drop, notes, mu, pc, ret, panicked, upstream>>

\* maintain(), drop = <-ms.stop: what is buffered first, then, once the
\* channel is closed, nil.
Receive(l) ==
  /\ ~panicked /\ loop[l] = "select" /\ (slot # Nil \/ closed)
  /\ drop' = [drop EXCEPT ![l] = slot]
  /\ slot' = Nil
  /\ loop' = [loop EXCEPT ![l] = "stopping"]
  /\ UNCHANGED <<fields, closed, reply, notes, mu, pc, ret, panicked, upstream>>

\* Mutation of Answer: the goroutine answers but goes on selecting.
AnswerContinues(l, err) ==
  /\ reply' = [c \in Callers |-> IF c = drop[l] THEN err ELSE reply[c]]
  /\ loop' = [loop EXCEPT ![l] = "select"]
  /\ UNCHANGED <<drop, mu>>

\* Mutation of Answer: only success is answered.
AnswerOnSuccess(l, err) ==
  /\ reply' = [c \in Callers |-> IF c = drop[l] /\ err = "nil" THEN err ELSE reply[c]]
  /\ drop' = [drop EXCEPT ![l] = Nil]
  /\ loop' = [loop EXCEPT ![l] = "none"]
  /\ UNCHANGED mu

\* Sending the result of doStop(): with a nil reply channel the send blocks
\* for ever, and the deferred unlock of ms.mu is never reached.
Answer(l, err) ==
  IF drop[l] = Nil
    THEN /\ mu' = l
         /\ loop' = [loop EXCEPT ![l] = "stuck"]
         /\ UNCHANGED <<reply, drop>>
    ELSE /\ reply' = [reply EXCEPT ![drop[l]] = err]
         /\ drop' = [drop EXCEPT ![l] = Nil]
         /\ loop' = [loop EXCEPT ![l] = "none"]
         /\ UNCHANGED mu

\* Mutation of DoStop: the id of the destroyed session is kept.
DoStopKeepsId(l) ==
  /\ Unlocked /\ loop[l] = "stopping"
  /\ state' = "stopped"
  /\ \/ /\ id = NoSession /\ Answer(l, "nil")
        /\ UNCHANGED upstream
     \/ /\ id # NoSession
        /\ \E o \in DestroyOutcomes(id, upstream) :
             upstream' = o.up /\ Answer(l, IF o.ok THEN "nil" ELSE "err")
  /\ UNCHANGED <<id, lastRenewed>>
  /\ Push
  /\ UNCHANGED <<slot, closed, attached, pc, ret, panicked>>

\* maintain(), the deferred function: doStop() under ms.mu destroys the
\* session if there is one and sets the state to stopped, whatever it was.
DoStop(l) ==
  /\ Unlocked /\ loop[l] = "stopping"
  /\ state' = "stopped"
  /\ \/ /\ id = NoSession /\ Answer(l, "nil")
        /\ UNCHANGED <<id, lastRenewed, upstream>>
     \/ /\ id # NoSession
        /\ \E o \in DestroyOutcomes(id, upstream) :
             /\ id' = o.id /\ upstream' = o.up /\ lastRenewed' = "zero"
             /\ Answer(l, IF o.ok THEN "nil" ELSE "err")
  /\ Push
  /\ UNCHANGED <<slot, closed, attached, pc, ret, panicked>>
-----------------------------------------------------------------------------
\* Consul invalidates a session: its TTL ran out, its node failed a health
\* check, or an operator destroyed it.
Expire(s) ==
  /\ s \in upstream
  /\ upstream' = upstream \ {s}
  /\ UNCHANGED <<fields, channels, notes, mu, pc, ret, loop, panicked>>

\* More than a TTL passes without a successful renewal.
Elapse ==
  /\ lastRenewed = "fresh" /\ lastRenewed' = "overdue"
  /\ UNCHANGED <<state, id, channels, notes, mu, pc, ret, loop, panicked, upstream>>

Continue(c) == Send(c) \/ Await(c) \/ Detach(c) \/ Close(c)
Maintain(l) == Tick(l) \/ Receive(l) \/ DoStop(l)
Background  == (\E c \in Callers : Continue(c)) \/ (\E l \in Loops : Maintain(l))
               \/ Elapse \/ (\E s \in Sessions : Expire(s))

\* Any goroutine calls anything at any time.
Next == (\E c \in Callers : Run(c) \/ Stop(c) \/ Shutdown(c)) \/ Background
Spec == Init /\ [][Next]_vars

\* Run() and Stop() race freely; Shutdown() is the last call: it is made when no
\* other is in progress, and none is made after it.
Quiet == \A c \in Callers : pc[c] = "idle"
ShuttingDown ==
  closed \/ \E c \in Callers : pc[c] \in {"shutdown.send", "shutdown.await",
                                        "shutdown.detach", "shutdown.close"}
OpenCalls ==
  \/ \E c \in Callers : Run(c) \/ Stop(c)
  \/ Quiet /\ \E c \in Callers : Shutdown(c)
OpenNext == (~ShuttingDown /\ OpenCalls) \/ Background
OpenSpec == Init /\ [][OpenNext]_vars

\* A serial user: a call is made only when the previous one has returned, and
\* none is made after a Shutdown().  Candidate uses its session this way: all
\* its calls are made under its own mutex.
SerialNext ==
  \/ Quiet /\ ~closed /\ \E c \in Callers : Run(c) \/ Stop(c) \/ Shutdown(c)
  \/ Background
SerialSpec == Init /\ [][SerialNext]_vars

\* What the runtime guarantees (a runnable goroutine runs, a channel serves its
\* blocked senders in order, a critical section ends because every request has a
\* timeout), and what Consul does: it expires a session nobody renews, and it
\* does not refuse every request for ever.
Fairness ==
  /\ \A c \in Callers : WF_vars(Continue(c)) /\ SF_vars(Send(c))
  /\ \A l \in Loops : WF_vars(Receive(l)) /\ WF_vars(DoStop(l))
  /\ SF_vars(id \notin upstream /\ \E l \in Loops : Tick(l) /\ id' \in upstream')
  /\ \A s \in Sessions : WF_vars(s # id /\ Expire(s))

FairOpenSpec == OpenSpec /\ Fairness
-----------------------------------------------------------------------------
(***************************************************************************)
(* Safety, however the calls race.                                         *)
(***************************************************************************)
\* Callers whose stop request no maintain() goroutine has taken yet.
Waiting  == {c \in Callers : pc[c] \in {"stop.send", "shutdown.send"} \/ slot = c}
Selecting == {l \in Loops : loop[l] = "select"}
Running  == IF state = "running" THEN 1 ELSE 0

\* Until ms.stop is closed there is a maintain() goroutine for every stop
\* request that is on its way, and one more while the session is running: a
\* Stop() never waits for a goroutine that is not there (waitForStop has no
\* timeout), and a running session is always maintained.
StopFindsMaintainer ==
  ~closed => Cardinality(Waiting) + Running <= Cardinality(Selecting)

\* A session held by ms.id has a live maintain() goroutine that will renew or
\* destroy it, so it is never kept by nobody after Run() and Stop() raced.
SessionHasKeeper == id # NoSession => \E l \in Loops : Live(l)

\* So has a session that the last update pushed to the recipients names: no goroutine
\* gives a session up without pushing an update that says so.  (Whether a recipient
\* receives that update is another matter: module Notifier.)
PushedSessionHasKeeper == attached /\ note.id # NoSession => \E l \in Loops : Live(l)

\* A session that is held, or was last announced, is kept by a goroutine.
HeldSessionIsKept == SessionHasKeeper /\ PushedSessionHasKeeper

\* The reply channel of a waiting caller is in exactly one place: buffered in
\* ms.stop, taken by one maintain() goroutine, or answered.  No stop request is
\* lost or served twice.
Holders(c) == {l \in Loops : drop[l] = c}
ReplyInOnePlace ==
  \A c \in Callers :
    LET inSlot == slot = c
        taken  == Holders(c) # {}
        back   == reply[c] # "none"
    IN  /\ pc[c] \in {"stop.await", "shutdown.await"} <=> inSlot \/ taken \/ back
        /\ ~(inSlot /\ taken) /\ ~(inSlot /\ back) /\ ~(taken /\ back)
        /\ \A k, l \in Holders(c) : k = l

\* ms.mu is held for ever only after ms.stop was closed, that is, by misuse of a
\* session that was shut down.
LockIsReleased == ~closed => mu = Nil

(***************************************************************************)
(* Safety, for a serial user.                                              *)
(***************************************************************************)
\* When no call is in progress, one maintain() goroutine lives if the session is running:
\* a second would renew and recreate behind the first.  Otherwise none does, which could
\* still create a session, and none is held.
QuietWhenStopped ==
  Quiet =>
    /\ Cardinality({l \in Loops : Live(l)}) = Running
    /\ state # "running" => id = NoSession

\* Neither a panic nor a ms.mu that nobody can lock again.
NeverWedged == ~panicked /\ mu = Nil

(***************************************************************************)
(* The contract, however the calls race.                                   *)
(***************************************************************************)
Contract == INSTANCE SessionContract
  WITH active <- \E l \in Loops : Live(l), sid <- id, up <- upstream

\* Seen from outside, a ManagedSession is a SessionContract: it holds a session
\* only while a maintain() goroutine lives, creates at most one in a step, and
\* never replaces or destroys any other session than its own.
ImplementsContract == Contract!Spec

\* A serial user gets all of its calls and the ticks in one step each: nothing of the
\* goroutines, the channel and the renewal times can be seen through them.
Plain == INSTANCE SerialSession
  WITH active <- \E l \in Loops : Live(l), sid <- id, up <- upstream
ImplementsSerialSession == Plain!Spec

(***************************************************************************)
(* Liveness.                                                               *)
(***************************************************************************)
\* Every call returns: no Stop() or Shutdown() waits for ever.
CallsReturn == \A c \in Callers : pc[c] # "idle" ~> pc[c] = "idle"

\* A running session that is missing in Consul (not created yet, expired, or
\* destroyed by somebody else) is created again, unless it is stopped first.
SessionRecreated ==
  (state = "running" /\ id \notin upstream) ~> (id \in upstream \/ state # "running")
=============================================================================
