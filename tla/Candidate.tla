----------------------------- MODULE Candidate -----------------------------
(***************************************************************************)
(* candidate.go: one Candidate with the goroutines that touch it - the     *)
(* ones that call Run, Resign and Shutdown, the maintainLock() goroutines  *)
(* it starts, and the one that delivers the updates of its session to      *)
(* sessionUpdate() - against rivals for the same key.                      *)
(*                                                                         *)
(* The candidate's own session is a SerialSession: every call to it is     *)
(* made while c.mu is held, so the candidate is a serial user of it, and   *)
(* only the session's own ticks run beside the candidate.                  *)
(***************************************************************************)
EXTENDS ConsulLock, FiniteSets, Naturals, Sequences

CONSTANTS
  Users,      \* goroutines that call Run, Resign and Shutdown
  Loops,      \* names for maintainLock() goroutines: a bound on those alive
  Handler,    \* the goroutine that runs sessionUpdate()
  Nil,        \* no goroutine, no reply channel, no update
  MaxQueue    \* session updates that may wait for the handler (100 in the code)

ASSUME CandidateAssumption ==
  /\ IsFiniteSet(Users) /\ IsFiniteSet(Loops)
  /\ Users \cap Loops = {}
  /\ Nil \notin Users \cup Loops \cup {Handler}
  /\ Handler \notin Users \cup Loops
  /\ Nil \notin [stopped : BOOLEAN, err : BOOLEAN]
  /\ MaxQueue \in Nat

VARIABLES
  state,      \* c.state: "new" stands for its zero value, which has no name
  elected,    \* *c.elected
  errs,       \* *c.consecutiveSessionErrors, up to the first value above 2
  told,       \* Elected in the last update pushed to the recipients
  cs,         \* the critical section of c.mu in progress: who, where, with what
  slot,       \* c.stop, a channel of capacity 1: the reply channel in it
  closed,     \* c.stop has been closed
  pc,         \* pc[u]: where user u is
  reply,      \* the users whose reply channel holds an answer
  loop,       \* loop[l]: where maintainLock goroutine l is
  drop,       \* drop[l]: the reply channel l took from c.stop
  panicked,   \* the process died of a panic
  running,    \* c.ms is running
  sid,        \* c.ms.id
  queue,      \* updates of the session on their way to sessionUpdate()
  update,     \* the update sessionUpdate() holds while it waits for c.mu
  upstream,   \* the candidate's sessions that exist in Consul
  holder,     \* who locks the key
  delay       \* the lock-delay runs

leader   == <<elected, told>>
channels == <<slot, closed, reply, drop>>
session  == <<running, sid, queue, upstream>>
lock     == <<holder, delay>>
vars     == <<state, leader, errs, cs, channels, pc, loop, panicked, session, update, lock>>

States  == {"new", "running", "resigned", "shutdowned"}
UserPCs == {"idle", "run", "resign.send", "resign.await",
            "shutdown.send", "shutdown.await", "shutdown.close"}
LoopPCs == {"none", "select", "stopping", "stuck"}
\* An update of the session: its state, and whether it carries an error.
Updates == [stopped : BOOLEAN, err : BOOLEAN]

Section == [by : Users \cup Loops \cup {Handler, Nil},
            at : {"free", "look", "acquire", "assign"},
            sid : Sessions \cup {NoSession},
            won : BOOLEAN]
Free == [by |-> Nil, at |-> "free", sid |-> NoSession, won |-> FALSE]

TypeOK ==
  /\ state \in States
  /\ elected \in BOOLEAN /\ told \in BOOLEAN
  /\ errs \in 0..3
  /\ cs \in Section
  /\ slot \in Users \cup {Nil} /\ closed \in BOOLEAN
  /\ pc \in [Users -> UserPCs]
  /\ reply \in SUBSET Users
  /\ loop \in [Loops -> LoopPCs]
  /\ drop \in [Loops -> Users \cup {Nil}]
  /\ panicked \in BOOLEAN
  /\ running \in BOOLEAN /\ sid \in Sessions \cup {NoSession}
  /\ queue \in Seq(Updates) /\ Len(queue) <= MaxQueue
  /\ update \in Updates \cup {Nil}
  /\ upstream \in SUBSET Sessions
  /\ holder \in Holders /\ delay \in BOOLEAN

Init ==
  /\ state = "new" /\ elected = FALSE /\ told = FALSE /\ errs = 0
  /\ cs = Free
  /\ slot = Nil /\ closed = FALSE
  /\ pc = [u \in Users |-> "idle"] /\ reply = {}
  /\ loop = [l \in Loops |-> "none"] /\ drop = [l \in Loops |-> Nil]
  /\ panicked = FALSE
  /\ running = FALSE /\ sid = NoSession /\ queue = <<>> /\ update = Nil
  /\ upstream = {} /\ holder = Nobody /\ delay = FALSE
-----------------------------------------------------------------------------
\* c.mu can be locked now.
Unlocked == ~panicked /\ cs = Free
Enter(g) == cs' = [Free EXCEPT !.by = g, !.at = "look"]
Goto(u, p) == pc' = [pc EXCEPT ![u] = p]

\* Mutations of Elect: once the leader, always the leader; a lost election is not
\* pushed to the recipients.
ElectSticky(e) == elected' = (elected \/ e) /\ told' = elected'
ElectQuietly(e) == elected' = e /\ told' = (told \/ e)

\* At the end of refreshLock(): the recipients are told unless the candidate was
\* not the leader and still is not.
Elect(e) ==
  /\ elected' = e
  /\ told' = IF e = elected /\ ~e THEN told ELSE e

\* The end of a critical section that ran refreshLock(); Run() returns with it.
Leave ==
  /\ cs' = Free
  /\ IF cs.by \in Users THEN Goto(cs.by, "idle") ELSE UNCHANGED pc
-----------------------------------------------------------------------------
(***************************************************************************)
(* The session, and what its life does to the lock.                        *)
(***************************************************************************)
Own == INSTANCE SerialSession WITH active <- running, up <- upstream

\* The updates that tell the results oks.
Notes(stopped, oks) == [i \in DOMAIN oks |-> [stopped |-> stopped, err |-> ~oks[i]]]

\* Mutation of Push: the buffer has no limit.
PushUnbounded(notes) == queue' = queue \o notes

\* Updates that find the buffer full are dropped.
Push(notes) ==
  LET q == queue \o notes
  IN  queue' = SubSeq(q, 1, IF Len(q) < MaxQueue THEN Len(q) ELSE MaxQueue)

\* Consul has the sessions up; h held the lock until now.
Upstream(up, h) ==
  /\ upstream' = up
  /\ holder' = Released(h, up)
  /\ delay' = Delayed(delay, h, up)

\* The session takes one of the outcomes, from a state in which h holds the lock.
Becomes(outcomes, stopped, h) ==
  \E o \in outcomes : sid' = o.id /\ Upstream(o.up, h) /\ Push(Notes(stopped, o.oks))

\* Mutation of SessionRun: a session that could not be created is not run.
SessionRunOnSuccess ==
  \/ running /\ UNCHANGED <<session, lock>>
  \/ /\ ~running /\ Becomes(Own!Started(sid, upstream), FALSE, holder)
     /\ running' = (sid' # NoSession)

\* c.ms.Run(), which only fails for a session that was shut down.
SessionRun ==
  /\ running' = TRUE
  /\ \/ running /\ UNCHANGED <<sid, queue, upstream, lock>>
     \/ ~running /\ Becomes(Own!Started(sid, upstream), FALSE, holder)

\* c.ms.Stop(), from a state in which h holds the lock: it returns after the
\* session's maintain() goroutine has destroyed the session.
SessionStop(h) ==
  /\ running' = FALSE
  /\ \/ ~running /\ Upstream(upstream, h) /\ UNCHANGED <<sid, queue>>
     \/ running /\ Becomes(Own!Stopped(sid, upstream), TRUE, h)

\* The session's own timer: renewed, or given up and created again.
SessionTick ==
  /\ ~panicked /\ running /\ Becomes(Own!Ticked(sid, upstream), FALSE, holder)
  /\ UNCHANGED <<running, state, leader, errs, cs, channels, pc, loop, panicked, update>>
-----------------------------------------------------------------------------
(***************************************************************************)
(* refreshLock(), in three steps: it looks at the session, acquires the    *)
(* key with the id it saw, and assigns Consul's answer to *c.elected.  In  *)
(* between the session may tick or expire, and a rival may act: none of    *)
(* them needs c.mu.                                                        *)
(***************************************************************************)
Look ==
  /\ ~panicked /\ cs.at = "look"
  /\ \/ /\ running /\ sid # NoSession
        /\ cs' = [cs EXCEPT !.at = "acquire", !.sid = sid]
        /\ UNCHANGED <<leader, pc, session, lock>>
     \/ /\ running /\ sid = NoSession
        /\ Elect(FALSE) /\ Leave
        /\ UNCHANGED <<session, lock>>
     \/ /\ ~running /\ SessionRun
        /\ Elect(FALSE) /\ Leave
  /\ UNCHANGED <<state, errs, channels, loop, panicked, update>>

\* acquire(): Consul decides.
Acquire ==
  /\ ~panicked /\ cs.at = "acquire"
  /\ \E a \in AcquireOutcomes(cs.sid, holder, delay, upstream) :
       holder' = a.holder /\ cs' = [cs EXCEPT !.at = "assign", !.won = a.won]
  /\ UNCHANGED <<state, leader, errs, channels, pc, loop, panicked, session, update, delay>>

\* The answer is believed and told.
Assign ==
  /\ ~panicked /\ cs.at = "assign"
  /\ Elect(cs.won) /\ Leave
  /\ UNCHANGED <<state, errs, channels, loop, panicked, session, update, lock>>
-----------------------------------------------------------------------------
(***************************************************************************)
(* The calls.                                                              *)
(***************************************************************************)
\* Run() up to refreshLock(): the session is started and a maintainLock()
\* goroutine, whether or not a session could be created.
Run(u) ==
  /\ Unlocked /\ pc[u] = "idle"
  /\ \/ /\ state \in {"running", "shutdowned"}
        /\ UNCHANGED <<state, told, cs, pc, loop, session, lock>>
     \/ /\ state \in {"new", "resigned"} /\ state' = "running" /\ told' = elected
        /\ SessionRun
        /\ \E l \in Loops : loop[l] = "none" /\ loop' = [loop EXCEPT ![l] = "select"]
        /\ Enter(u) /\ Goto(u, "run")
  /\ UNCHANGED <<elected, errs, channels, panicked, update>>

\* Resign() up to its unlock: the zero value of the state passes for running.
Resign(u) ==
  /\ Unlocked /\ pc[u] = "idle"
  /\ \/ state \in {"resigned", "shutdowned"} /\ UNCHANGED <<state, told, pc>>
     \/ /\ state \in {"new", "running"} /\ state' = "resigned" /\ told' = elected
        /\ Goto(u, "resign.send")
  /\ UNCHANGED <<elected, errs, cs, channels, loop, panicked, session, update, lock>>

\* Mutations of RequiresStop: read after the state was set; or decided like
\* Resign() does.
RequiresStopLate == FALSE
RequiresStopUnlessResigned == state # "resigned"

\* Read before Shutdown() changes the state.
RequiresStop == state = "running"

\* Shutdown() up to its first unlock.
Shutdown(u) ==
  /\ Unlocked /\ pc[u] = "idle"
  /\ \/ state = "shutdowned" /\ UNCHANGED <<state, told, pc>>
     \/ /\ state # "shutdowned" /\ state' = "shutdowned" /\ told' = elected
        /\ Goto(u, IF RequiresStop THEN "shutdown.send" ELSE "shutdown.close")
  /\ UNCHANGED <<elected, errs, cs, channels, loop, panicked, session, update, lock>>

\* waitForResign(), c.stop <- drop.
Send(u) ==
  /\ ~panicked /\ pc[u] \in {"resign.send", "shutdown.send"}
  /\ \/ closed /\ panicked' = TRUE /\ UNCHANGED <<slot, pc>>
     \/ /\ ~closed /\ slot = Nil /\ slot' = u
        /\ Goto(u, IF pc[u] = "resign.send" THEN "resign.await" ELSE "shutdown.await")
        /\ UNCHANGED panicked
  /\ UNCHANGED <<state, leader, errs, cs, closed, reply, drop, loop, session, update, lock>>

\* waitForResign(), err := <-drop.
Await(u) ==
  /\ ~panicked /\ pc[u] \in {"resign.await", "shutdown.await"} /\ u \in reply
  /\ reply' = reply \ {u}
  /\ Goto(u, IF pc[u] = "resign.await" THEN "idle" ELSE "shutdown.close")
  /\ UNCHANGED <<state, leader, errs, cs, slot, closed, drop, loop, panicked, session,
                 update, lock>>

\* Shutdown(), DetachAllNotificationRecipients(true) and close(c.stop): panics if the
\* channel is closed already.  The detach touches nothing here, and waiting for the
\* recipients is part of what delays this step.
Close(u) ==
  /\ Unlocked /\ pc[u] = "shutdown.close"
  /\ closed' = TRUE /\ panicked' = closed
  /\ Goto(u, "idle")
  /\ UNCHANGED <<state, leader, errs, cs, slot, reply, drop, loop, session, update, lock>>
-----------------------------------------------------------------------------
(***************************************************************************)
(* maintainLock().                                                         *)
(***************************************************************************)
\* Mutation of Tick: the timer only renews a lock that is already held.
TickIfElected(l) ==
  /\ Unlocked /\ loop[l] = "select" /\ elected
  /\ Enter(l)
  /\ UNCHANGED <<state, leader, errs, channels, pc, loop, panicked, session, update, lock>>

\* The timer: refreshLock(), whatever the state is.
Tick(l) ==
  /\ Unlocked /\ loop[l] = "select"
  /\ Enter(l)
  /\ UNCHANGED <<state, leader, errs, channels, pc, loop, panicked, session, update, lock>>

\* drop := <-c.stop: nil once the channel is closed and empty.
Receive(l) ==
  /\ ~panicked /\ loop[l] = "select" /\ cs.by # l /\ (slot # Nil \/ closed)
  /\ drop' = [drop EXCEPT ![l] = slot]
  /\ slot' = Nil
  /\ loop' = [loop EXCEPT ![l] = "stopping"]
  /\ UNCHANGED <<state, leader, errs, cs, closed, reply, pc, panicked, session, update, lock>>

\* Mutations of Answer: drop is shadowed and nil here; the goroutine does not
\* return after it answered.
AnswerShadowed(l) == loop' = [loop EXCEPT ![l] = "stuck"] /\ UNCHANGED <<reply, drop>>
AnswerContinues(l) ==
  /\ reply' = reply \cup ({drop[l]} \ {Nil})
  /\ drop' = [drop EXCEPT ![l] = Nil]
  /\ loop' = [loop EXCEPT ![l] = "select"]

\* drop <- err, after c.mu was unlocked: blocks for ever on a nil channel.
Answer(l) ==
  IF drop[l] = Nil
    THEN loop' = [loop EXCEPT ![l] = "stuck"] /\ UNCHANGED <<reply, drop>>
    ELSE /\ reply' = reply \cup {drop[l]}
         /\ drop' = [drop EXCEPT ![l] = Nil]
         /\ loop' = [loop EXCEPT ![l] = "none"]

\* Mutation of DoStop: the candidate goes on believing it leads.
DoStopElected(l) ==
  /\ Unlocked /\ loop[l] = "stopping"
  /\ \E d \in DeleteOutcomes(holder) : SessionStop(d.holder)
  /\ Answer(l)
  /\ UNCHANGED <<state, leader, errs, cs, slot, closed, pc, panicked, update>>

\* doStop(): the key is deleted, whoever locks it, and the session is stopped.
\* The recipients are not told.
DoStop(l) ==
  /\ Unlocked /\ loop[l] = "stopping"
  /\ elected' = FALSE
  /\ \E d \in DeleteOutcomes(holder) : SessionStop(d.holder)
  /\ Answer(l)
  /\ UNCHANGED <<state, told, errs, cs, slot, closed, pc, panicked, update>>
-----------------------------------------------------------------------------
(***************************************************************************)
(* sessionUpdate(): Running() is asked before c.mu is locked for the rest. *)
(***************************************************************************)
HandlerBusy == update # Nil \/ cs.by = Handler

Deliver ==
  /\ Unlocked /\ ~HandlerBusy /\ queue # <<>>
  /\ queue' = Tail(queue)
  /\ update' = IF state = "running" THEN Head(queue) ELSE Nil
  /\ UNCHANGED <<state, leader, errs, cs, channels, pc, loop, panicked, running, sid,
                 upstream, lock>>

\* The notifier drops an update that waited 5 seconds for the handler: the first one
\* in the queue, or the second while the handler, still inside Running(), has the first.
Discard ==
  /\ ~panicked
  /\ \/ HandlerBusy /\ queue # <<>> /\ queue' = Tail(queue)
     \/ ~HandlerBusy /\ Len(queue) > 1 /\ queue' = <<Head(queue)>> \o Tail(Tail(queue))
  /\ UNCHANGED <<state, leader, errs, cs, channels, pc, loop, panicked, running, sid,
                 upstream, update, lock>>

\* More than two errors in a row restart the session; so does, through
\* refreshLock(), the news that it was stopped.
Errors(u) == IF ~u.err THEN 0 ELSE IF errs < 3 THEN errs + 1 ELSE 3
Restart(u) == u.err /\ ~u.stopped /\ Errors(u) > 2

Process ==
  /\ Unlocked /\ update # Nil
  /\ errs' = Errors(update)
  /\ \/ /\ Restart(update)
        /\ SessionStop(holder) /\ Enter(Handler)
     \/ /\ ~update.err /\ update.stopped
        /\ Enter(Handler) /\ UNCHANGED <<session, lock>>
     \/ /\ ~Restart(update) /\ (update.err \/ ~update.stopped)
        /\ UNCHANGED <<cs, session, lock>>
  /\ update' = Nil
  /\ UNCHANGED <<state, leader, channels, pc, loop, panicked>>
-----------------------------------------------------------------------------
(***************************************************************************)
(* Consul and the rivals.                                                  *)
(***************************************************************************)
Expire(s) ==
  /\ s \in upstream
  /\ Upstream(upstream \ {s}, holder)
  /\ UNCHANGED <<state, leader, errs, cs, channels, pc, loop, panicked, running, sid, queue,
                 update>>

DelayEnds == delay /\ delay' = FALSE /\ UNCHANGED <<holder>>

\* A rival acquires the free key, loses its session while it is the leader, or
\* resigns: like doStop() above, it deletes the key whoever locks it.
RivalAcquires == holder = Nobody /\ ~delay /\ holder' = Rival /\ UNCHANGED delay
RivalFails    == holder = Rival /\ holder' = Nobody /\ delay' = TRUE
RivalResigns  == holder' = Nobody /\ holder # Nobody /\ UNCHANGED delay

Locks(A) == A /\ UNCHANGED <<state, leader, errs, cs, channels, pc, loop, panicked, session, update>>
-----------------------------------------------------------------------------
Continue(u) == Send(u) \/ Await(u) \/ Close(u)
Maintain(l) == Tick(l) \/ Receive(l) \/ DoStop(l)

Activity ==
  \/ Look \/ Acquire \/ Assign
  \/ \E u \in Users : Continue(u)
  \/ \E l \in Loops : Maintain(l)
  \/ Deliver \/ Discard \/ Process

Background == Activity \/ SessionTick
Environment ==
  \/ \E s \in Sessions : Expire(s)
  \/ Locks(DelayEnds \/ RivalAcquires \/ RivalFails \/ RivalResigns)

\* Any user calls anything at any time.
Next == (\E u \in Users : Run(u) \/ Resign(u) \/ Shutdown(u)) \/ Background \/ Environment
Spec == Init /\ [][Next]_vars

\* Nobody resigns before the first Run(); otherwise the calls race freely.
Entered == state # "new"
OpenNext ==
  \/ \E u \in Users : Run(u) \/ (Entered /\ Resign(u)) \/ Shutdown(u)
  \/ Background \/ Environment
OpenSpec == Init /\ [][OpenNext]_vars

\* One call at a time, and no Resign() before the first Run().
Quiet == \A u \in Users : pc[u] = "idle"
SerialNext ==
  \/ Quiet /\ \E u \in Users : Run(u) \/ (Entered /\ Resign(u)) \/ Shutdown(u)
  \/ Background \/ Environment
SerialSpec == Init /\ [][SerialNext]_vars

\* The same user where no session is lost, with rivals that resign at any time.
FollowersNext ==
  \/ Quiet /\ \E u \in Users : Run(u) \/ (Entered /\ Resign(u)) \/ Shutdown(u)
  \/ Activity
  \/ SessionTick /\ (sid = NoSession \/ sid' = sid)
  \/ Locks(DelayEnds \/ RivalAcquires \/ RivalResigns)
FollowersSpec == Init /\ [][FollowersNext]_vars

\* A user that enters and leaves the pool for ever.
CyclingNext ==
  \/ Quiet /\ \E u \in Users : Run(u) \/ (Entered /\ Resign(u))
  \/ Background \/ Environment

\* The runtime runs what can run and hands c.mu and the channels to their waiters
\* in order, a select does not prefer the timer over the channel, and timers fire;
\* Consul does not refuse every request, expires what nobody renews, and ends its
\* lock-delay.
Fairness ==
  /\ WF_vars(Look \/ Acquire \/ Assign)
  /\ \A u \in Users : SF_vars(Continue(u))
  /\ \A l \in Loops : SF_vars(Tick(l)) /\ SF_vars(Receive(l)) /\ SF_vars(DoStop(l))
  /\ SF_vars(Process)
  /\ SF_vars(sid \notin upstream /\ SessionTick /\ sid' \in upstream')
  /\ SF_vars(Acquire /\ cs'.won)
  /\ WF_vars(\E s \in Sessions \ {sid} : Expire(s))
  /\ WF_vars(Locks(DelayEnds))
FairSpec == Init /\ [][CyclingNext]_vars /\ Fairness

\* The session is neither lost nor restarted over and over again.
Keeps ==
  state = "running" /\ running =>
    running' /\ (sid \in upstream => sid' = sid /\ sid \in upstream')
Settles == <>[][Keeps]_vars
-----------------------------------------------------------------------------
(***************************************************************************)
(* Safety, however the calls race.                                         *)
(***************************************************************************)
Live(l)   == loop[l] \in {"select", "stopping"}
Waiting   == {u \in Users : pc[u] \in {"resign.send", "shutdown.send"} \/ slot = u}
Selecting == {l \in Loops : loop[l] = "select"}
Entrant   == IF state = "running" THEN 1 ELSE 0

\* Until c.stop is closed, and once the candidate has entered the pool, every
\* resignation on its way and the running state have a maintainLock() goroutine
\* each: waitForResign() has no timeout and relies on it.
ResignFindsMaintainer ==
  ~closed => Cardinality(Waiting) + Entrant <= Cardinality(Selecting)

(***************************************************************************)
(* Safety, for one call at a time.                                         *)
(***************************************************************************)
\* While the candidate is in the pool and c.mu is free its session is running (the
\* restart after errors never leaves it stopped), and one maintainLock() goroutine
\* lives: a second would outlive the next Resign().
RunningHasSession ==
  Quiet /\ cs = Free /\ state = "running" =>
    running /\ Cardinality({l \in Loops : Live(l)}) = 1

\* Once Resign() or Shutdown() has returned, the candidate is not the leader and
\* no late tick or update makes it the leader again.
Out == Quiet /\ cs = Free /\ state \in {"resigned", "shutdowned"}
OutIsNotElected == Out => ~elected /\ \A l \in Loops : ~Live(l)

\* While the candidate is in the pool, the last update pushed to its recipients says
\* whether it leads.
ToldWhileRunning == Quiet /\ cs = Free /\ state = "running" => told = elected

\* Nothing starts the session of a candidate that has left the pool, except an update
\* that passed the test of Running() before it left: not a tick that waited for
\* c.mu, and not the goroutine that ends.
StartsOnlyByOldUpdate ==
  [][state' \notin {"new", "running"} /\ ~running /\ running' => cs.by = Handler]_vars

\* Neither a panic nor a goroutine that waits on a nil channel.
NeverWedged == ~panicked /\ \A l \in Loops : loop[l] # "stuck"

\* The candidate believes that it leads, or is about to because Consul said so.
Believes == (cs = Free /\ elected) \/ (cs.at = "assign" /\ cs.won)
Deluded  == Believes /\ holder \notin Sessions

\* The candidate never talks itself into leading: it believes it only from the moment
\* Consul gave it the key, and what makes that untrue - also before the answer has
\* reached *c.elected, which is assigned all the same - is that the session ticked or
\* was lost or a rival acted.  No call, timer or update of its own does: none frees
\* the key and goes on believing, or believes a refused or failed request.
BelievesWhatItHeld == [][~Deluded /\ Deluded' => SessionTick \/ Environment]_vars

\* What c.ms does here, in calls, restarts and ticks, is what a ManagedSession does for
\* a serial user: the specification that the module ManagedSession implements.
UsesSerialSession == Own!Spec

(***************************************************************************)
(* Liveness.                                                               *)
(***************************************************************************)
\* Every call returns, although Run() keeps c.mu over its requests and Resign()
\* waits for a goroutine that needs c.mu.
CallsReturn == \A u \in Users : pc[u] # "idle" ~> pc[u] = "idle"

\* Once its session is no longer lost or restarted, a candidate in the pool
\* becomes the leader unless a rival does, even if the lock-delay or one of its own
\* lost sessions stands in the way at first.
WinsUnlessRival ==
  Settles => (state = "running" ~> (elected \/ state # "running" \/ holder = Rival))

\* A leader that lost the key to a rival notices.
StepsDown == elected /\ holder = Rival ~> (~elected \/ holder # Rival)

(***************************************************************************)
(* What the documentation says and the code does not do.                   *)
(***************************************************************************)
\* "Elected will return true if this candidate's session is locking the kv".
ElectedHoldsLock == elected /\ cs = Free => holder \in Sessions
=============================================================================
