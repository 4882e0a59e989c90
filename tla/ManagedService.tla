--------------------------- MODULE ManagedService ---------------------------
(***************************************************************************)
(* service.go: the life of one ManagedService - the goroutines that call   *)
(* it, the maintain() goroutines it starts, and the watch plan that each   *)
(* of those runs in a goroutine of its own - against an agent that may     *)
(* forget the service.                                                     *)
(*                                                                         *)
(* A definition of the service is reduced to its tags and to whether it is *)
(* open (EnableTagOverride).                                               *)
(*                                                                         *)
(* ms.stop and ms.forceRefresh have no buffer: a send and its receive are  *)
(* one step.  A critical section of ms.mu is one step, with the outcomes   *)
(* of its calls to the agent.                                              *)
(***************************************************************************)
EXTENDS ConsulAgent, FiniteSets, Naturals

CONSTANTS
  Tags,      \* the tags the service may have
  Callers,   \* goroutines that call the ManagedService
  Loops,     \* names for maintain() goroutines: a bound on those alive at once
  Nil        \* no goroutine, no reply channel

ASSUME ServiceAssumption ==
  /\ Absent \notin [tags : SUBSET Tags, open : BOOLEAN]
  /\ Nil \notin Callers \cup Loops
  /\ IsFiniteSet(Callers) /\ IsFiniteSet(Loops)

VARIABLES
  state,     \* ms.state: "new" stands for its zero value, which has no name
  svc,       \* ms.svc, Absent before the first refresh
  mu,        \* the goroutine that will never release ms.mu, or Nil
  closed,    \* ms.forceRefresh and ms.stop have been closed
  pc,        \* pc[c]: where caller c is
  loop,      \* loop[l]: where maintain goroutine l is
  drop,      \* drop[l]: the reply channel l took from ms.stop
  plan,      \* plan[l]: l's watch plan runs
  reported,  \* reported[l]: the end of the plan waits in wpStopped
  update,    \* update[l]: an update waits in wpUpdate
  panicked,  \* the process died of a panic
  agent,     \* what the agent holds
  misused,   \* history: a stop overtook a call that needs the maintain() it ends
  failed,    \* history: a ServiceDeregister failed since the last Register
  clean,     \* history: every tag change so far succeeded, one after the other
  want       \* history: the tags those changes add up to

watching == <<plan, reported, update>>
asked    == <<clean, want>>
history  == <<misused, failed, asked>>
vars     == <<state, svc, mu, closed, pc, loop, drop, watching, panicked, agent, history>>

CallPCs == {"idle", "deregister.send", "deregister.await",
            "shutdown.send", "shutdown.await", "shutdown.close",
            "retag", "refresh", "refresh.send"}
LoopPCs == {"none", "select", "draining", "answer.nil", "answer.err", "stuck"}

Definition == [tags : SUBSET Tags, open : BOOLEAN]

\* The types; and the copy, once fetched, is always defined ("svc MUST ALWAYS BE
\* DEFINED", service.go).
TypeOK ==
  /\ state \in {"new", "stopped", "running", "shutdowned"}
  /\ svc \in Definition \cup {Absent} /\ agent \in Definition \cup {Absent}
  /\ svc = Absent <=> state = "new"
  /\ mu \in Loops \cup {Nil}
  /\ pc \in [Callers -> CallPCs]
  /\ loop \in [Loops -> LoopPCs]
  /\ drop \in [Loops -> Callers \cup {Nil}]
  /\ plan \in [Loops -> BOOLEAN] /\ reported \in [Loops -> BOOLEAN]
  /\ update \in [Loops -> BOOLEAN]
  /\ closed \in BOOLEAN /\ panicked \in BOOLEAN
  /\ misused \in BOOLEAN /\ failed \in BOOLEAN
  /\ clean \in BOOLEAN /\ want \in SUBSET Tags

Init ==
  /\ state = "new" /\ svc = Absent
  /\ agent \in Definition \cup {Absent}
  /\ mu = Nil /\ closed = FALSE /\ panicked = FALSE
  /\ pc = [c \in Callers |-> "idle"]
  /\ loop = [l \in Loops |-> "none"] /\ drop = [l \in Loops |-> Nil]
  /\ plan = [l \in Loops |-> FALSE]
  /\ reported = [l \in Loops |-> FALSE] /\ update = [l \in Loops |-> FALSE]
  /\ misused = FALSE /\ failed = FALSE
  /\ clean = TRUE /\ want = IF agent = Absent THEN {} ELSE agent.tags
-----------------------------------------------------------------------------
\* ms.mu can be locked now: no goroutine is blocked for good while holding it.
Unlocked == ~panicked /\ mu = Nil

Goto(c, p) == pc' = [pc EXCEPT ![c] = p]

\* registerService(): the override is always enabled.  (A tag change leaves out Meta,
\* Weights, Kind and all else that the registration of a missing service repeats.)
Registration(tags) == [tags |-> tags, open |-> TRUE]

\* refreshService() under ms.mu; ok is what it returns.
Refresh(ok) ==
  \E o \in RefreshOutcomes(svc, agent, Registration(svc.tags)) :
    svc' = o.svc /\ agent' = o.agent /\ ok = o.ok

\* A new maintain() goroutine starts its watch plan and enters its select loop.
Spawn ==
  \E l \in Loops :
    /\ loop[l] = "none" /\ loop' = [loop EXCEPT ![l] = "select"]
    /\ plan' = [plan EXCEPT ![l] = TRUE]

\* History of what the tag changes ask for, while each comes after the refresh of the
\* one before it and nothing goes wrong.
Asked(good, tags) ==
  /\ clean' = (clean /\ good)
  /\ want' = IF clean' THEN tags ELSE {}
Unsettled == \E c \in Callers : pc[c] \in {"refresh", "refresh.send"}

(***************************************************************************)
(* Construction and the calls.                                             *)
(***************************************************************************)
\* NewManagedService(): the first refresh, then Register().  When the service is
\* not found or the request fails, buildUpdate() dereferences the missing copy.
New ==
  /\ state = "new" /\ ~panicked
  /\ \/ /\ agent # Absent /\ svc' = agent /\ state' = "running" /\ Spawn
        /\ UNCHANGED <<panicked, agent>>
     \/ /\ agent = Absent \/ ApiFaults
        /\ panicked' = TRUE
        /\ UNCHANGED <<state, svc, loop, plan, agent>>
  /\ UNCHANGED <<mu, closed, pc, drop, reported, update, history>>

\* Register(): a no-op when running, refused once shut down.
Register(c) ==
  /\ Unlocked /\ pc[c] = "idle"
  /\ \/ state \in {"running", "shutdowned"} /\ UNCHANGED <<state, loop, plan, failed>>
     \/ state = "stopped" /\ state' = "running" /\ Spawn /\ failed' = FALSE
  /\ UNCHANGED <<svc, mu, closed, pc, drop, reported, update, panicked, agent, misused, asked>>

\* Calls that count on the maintain() goroutine that was there when they began.
Relying == {c \in Callers : pc[c] \in {"retag", "refresh", "refresh.send"}}
Busy    == {c \in Callers : pc[c] # "idle"}

\* Deregister() up to its unlock.
Deregister(c) ==
  /\ Unlocked /\ pc[c] = "idle"
  /\ \/ state \in {"stopped", "shutdowned"} /\ UNCHANGED <<state, pc, misused>>
     \/ /\ state = "running" /\ state' = "stopped"
        /\ Goto(c, "deregister.send")
        /\ misused' = (misused \/ Relying # {})
  /\ UNCHANGED <<svc, mu, closed, loop, drop, watching, panicked, agent, failed, asked>>

\* Mutation of RequiresStop: read after the state was set to shutdowned.
RequiresStopLate == FALSE

\* Read before Shutdown() changes the state.
RequiresStop == state = "running"

\* Shutdown() up to its first unlock.
Shutdown(c) ==
  /\ Unlocked /\ pc[c] = "idle"
  /\ \/ state = "shutdowned" /\ UNCHANGED <<state, pc, misused>>
     \/ /\ state \in {"stopped", "running"} /\ state' = "shutdowned"
        /\ Goto(c, IF RequiresStop THEN "shutdown.send" ELSE "shutdown.close")
        /\ misused' = (misused \/ Busy # {})
  /\ UNCHANGED <<svc, mu, closed, loop, drop, watching, panicked, agent, failed, asked>>

\* Shutdown(), once the recipients are detached: both channels are closed.
Close(c) ==
  /\ Unlocked /\ pc[c] = "shutdown.close"
  /\ closed' = TRUE
  /\ Goto(c, "idle")
  /\ UNCHANGED <<state, svc, mu, loop, drop, watching, panicked, agent, history>>

\* ForceRefresh() up to its send, called by a user or at the end of a tag change:
\* refused unless running.
ForceRefresh(c) ==
  /\ Unlocked /\ pc[c] \in {"idle", "refresh"}
  /\ Goto(c, IF state = "running" THEN "refresh.send" ELSE "idle")
  /\ Asked(pc[c] = "refresh" => state = "running", want)
  /\ UNCHANGED <<state, svc, mu, closed, loop, drop, watching, panicked, agent, misused, failed>>

\* AddTags() and RemoveTags() ask Running() before they lock ms.mu.
Retag(c) ==
  /\ Unlocked /\ pc[c] = "idle" /\ state = "running"
  /\ Goto(c, "retag")
  /\ UNCHANGED <<state, svc, mu, closed, loop, drop, watching, panicked, agent, history>>

\* Mutation of AfterChange: the copy is not refreshed.
AfterChangeReturns == "idle"

\* After a tag change ForceRefresh() brings the copy up to date.
AfterChange == "refresh"

\* ... then, if the copy says that tags may be overridden, they register the service
\* with the tags of the copy, changed.  Nothing is registered for tags it has already,
\* or has not; without any tag given the call returns.
ChangeTags(c) ==
  /\ Unlocked /\ pc[c] = "retag"
  /\ \/ Goto(c, "idle") /\ UNCHANGED <<agent, asked>>
     \/ svc.open /\ Goto(c, AfterChange) /\ UNCHANGED <<agent, asked>>
     \/ \E given \in SUBSET Tags, add \in BOOLEAN :
          LET Changed(tags) == IF add THEN tags \cup given ELSE tags \ given
          IN  /\ svc.open /\ Changed(svc.tags) # svc.tags
              /\ \E o \in RegisterOutcomes(Registration(Changed(svc.tags)), agent) :
                   /\ agent' = o.agent
                   /\ Goto(c, IF o.ok THEN AfterChange ELSE "idle")
                   /\ Asked(o.ok /\ ~Unsettled, Changed(want))
  /\ UNCHANGED <<state, svc, mu, closed, loop, drop, watching, panicked, misused, failed>>

\* A send on a channel that Shutdown() has closed.
SendOnClosed(c) ==
  /\ ~panicked /\ closed
  /\ pc[c] \in {"deregister.send", "shutdown.send", "refresh.send"}
  /\ panicked' = TRUE
  /\ UNCHANGED <<state, svc, mu, closed, pc, loop, drop, watching, agent, history>>
-----------------------------------------------------------------------------
(***************************************************************************)
(* maintain(): the cases of its select.                                    *)
(***************************************************************************)
\* forceRefresh: the refresh a caller waits for, who gets its result.
ServeRefresh(l) ==
  /\ Unlocked /\ loop[l] = "select"
  /\ \E c \in Callers : pc[c] = "refresh.send" /\ Goto(c, "idle")
  /\ \E ok \in BOOLEAN : Refresh(ok) /\ Asked(ok, want)
  /\ UNCHANGED <<state, mu, closed, loop, drop, watching, panicked, misused, failed>>

\* forceRefresh, closed: the result is sent on a nil channel, with ms.mu locked.
ServeNobody(l) ==
  /\ Unlocked /\ closed /\ loop[l] = "select"
  /\ \E ok \in BOOLEAN : Refresh(ok)
  /\ mu' = l /\ loop' = [loop EXCEPT ![l] = "stuck"]
  /\ UNCHANGED <<state, closed, pc, drop, watching, panicked, history>>

\* refreshTimer: a refresh at any time.
Tick(l) ==
  /\ Unlocked /\ loop[l] = "select"
  /\ \E ok \in BOOLEAN : Refresh(ok)
  /\ UNCHANGED <<state, mu, closed, pc, loop, drop, watching, panicked, history>>

\* wpUpdate: a refresh because the watch plan saw a change.
Updated(l) ==
  /\ Unlocked /\ loop[l] = "select" /\ update[l]
  /\ update' = [update EXCEPT ![l] = FALSE]
  /\ \E ok \in BOOLEAN : Refresh(ok)
  /\ UNCHANGED <<state, mu, closed, pc, loop, drop, plan, reported, panicked, history>>

\* wpStopped: the plan ended by itself and is built again.
Rewatch(l) ==
  /\ ~panicked /\ loop[l] = "select" /\ reported[l]
  /\ plan' = [plan EXCEPT ![l] = TRUE]
  /\ reported' = [reported EXCEPT ![l] = FALSE]
  /\ UNCHANGED <<state, svc, mu, closed, pc, loop, drop, update, panicked, agent, history>>

\* ms.stop: a caller hands over its reply channel, or the channel is closed.  The
\* plan is told to stop, and its end awaited.
Receive(l) ==
  /\ ~panicked /\ loop[l] = "select"
  /\ \/ /\ closed /\ UNCHANGED <<pc, drop>>
     \/ \E c \in Callers :
          /\ ~closed /\ pc[c] \in {"deregister.send", "shutdown.send"}
          /\ Goto(c, IF pc[c] = "shutdown.send" THEN "shutdown.await" ELSE "deregister.await")
          /\ drop' = [drop EXCEPT ![l] = c]
  /\ loop' = [loop EXCEPT ![l] = "draining"]
  /\ UNCHANGED <<state, svc, mu, closed, watching, panicked, agent, history>>

\* Mutation of PlanHasEnded: the end of the plan is not awaited.
PlanNotAwaited(l) == TRUE

\* <-wpStopped.
PlanHasEnded(l) == reported[l]

\* Both watch channels are closed, and the service is removed from the agent, where a
\* Register() of meanwhile may have changed its tags.
Remove(l) ==
  /\ ~panicked /\ loop[l] = "draining" /\ PlanHasEnded(l)
  /\ reported' = [reported EXCEPT ![l] = FALSE]
  /\ update' = [update EXCEPT ![l] = FALSE]
  /\ \E o \in DeregisterOutcomes(agent) :
       /\ agent' = o.agent
       /\ loop' = [loop EXCEPT ![l] = IF o.ok THEN "answer.nil" ELSE "answer.err"]
       /\ failed' = (failed \/ ~o.ok)
  /\ Asked(~Unsettled, want)
  /\ UNCHANGED <<state, svc, mu, closed, pc, drop, plan, panicked, misused>>

\* Mutations of After: the goroutine goes on selecting; a failed request is not
\* answered.
AfterContinues(l) == "select"
AfterSuccess(l) == IF loop[l] = "answer.nil" THEN "none" ELSE "stuck"

\* Where maintain() goes after its answer: it ends.  (It waits for a timer that is
\* stopped already, which nobody else notices.)
After(l) == "none"

\* drop <- err, once ms.mu was locked for a last notification: blocks for ever on
\* a nil channel.
Answer(l) ==
  /\ Unlocked /\ loop[l] \in {"answer.nil", "answer.err"}
  /\ \/ /\ drop[l] = Nil /\ loop' = [loop EXCEPT ![l] = "stuck"]
        /\ UNCHANGED <<pc, drop>>
     \/ /\ drop[l] # Nil /\ loop' = [loop EXCEPT ![l] = After(l)]
        /\ drop' = [drop EXCEPT ![l] = Nil]
        /\ IF After(l) = "stuck" THEN UNCHANGED pc
           ELSE Goto(drop[l], IF pc[drop[l]] = "shutdown.await" THEN "shutdown.close" ELSE "idle")
  /\ UNCHANGED <<state, svc, mu, closed, watching, panicked, agent, history>>
-----------------------------------------------------------------------------
(***************************************************************************)
(* The watch plan's goroutine, and the agent.                              *)
(***************************************************************************)
\* The handler: an update is pushed unless one waits or the service is stopped.  The
\* test of Running() and the push, which never blocks, are one step: an update that
\* was tested before a stop waits in wpUpdate like one that was pushed before it.
PlanHit(l) ==
  /\ Unlocked /\ plan[l] /\ state = "running"
  /\ update' = [update EXCEPT ![l] = TRUE]
  /\ UNCHANGED <<state, svc, mu, closed, pc, loop, drop, plan, reported, panicked, agent,
                 history>>

\* runWatchPlan(): the plan ends, by itself or because it was stopped; the end is
\* pushed to the recipients and reported.
PlanEnds(l) ==
  /\ Unlocked /\ plan[l]
  /\ plan' = [plan EXCEPT ![l] = FALSE]
  /\ reported' = [reported EXCEPT ![l] = TRUE]
  /\ UNCHANGED <<state, svc, mu, closed, pc, loop, drop, update, panicked, agent, history>>

\* The agent forgets the service: an operator removed it, or the agent restarted.  A
\* tag change the copy does not have yet is lost with it: the service is registered
\* again from the copy, and AddTags() returns its count and no error.
Vanish ==
  /\ state # "new" /\ agent # Absent /\ agent' = Absent
  /\ Asked(~Unsettled, want)
  /\ UNCHANGED <<state, svc, mu, closed, pc, loop, drop, watching, panicked, misused, failed>>
-----------------------------------------------------------------------------
Call(c) ==
  Register(c) \/ Deregister(c) \/ Shutdown(c) \/ Retag(c) \/ (pc[c] = "idle" /\ ForceRefresh(c))
Continue(c) ==
  Close(c) \/ ChangeTags(c) \/ (pc[c] = "refresh" /\ ForceRefresh(c)) \/ SendOnClosed(c)
Maintain(l) ==
  \/ ServeRefresh(l) \/ ServeNobody(l) \/ Tick(l) \/ Updated(l) \/ Rewatch(l)
  \/ Receive(l) \/ Remove(l) \/ Answer(l)
Watch(l) == PlanHit(l) \/ PlanEnds(l)

Next ==
  \/ New
  \/ state # "new" /\ \E c \in Callers : Call(c)
  \/ \E c \in Callers : Continue(c)
  \/ \E l \in Loops : Maintain(l) \/ Watch(l)
  \/ Vanish
Spec == Init /\ [][Next]_vars

\* The runtime runs what can run and serves the senders of a channel and the waiters
\* of ms.mu in order, a select takes each case that stays ready, a stopped plan ends,
\* a timer fires; a request that is made again and again is not refused for ever.
Fairness ==
  /\ \A c \in Callers :
       /\ WF_vars(Continue(c))
       /\ SF_vars(\E l \in Loops : ServeRefresh(l) /\ Goto(c, "idle"))
       /\ SF_vars(\E l \in Loops : Receive(l) /\ drop' = [drop EXCEPT ![l] = c])
  /\ \A l \in Loops :
       /\ WF_vars(Remove(l)) /\ WF_vars(Answer(l))
       /\ WF_vars(loop[l] = "draining" /\ PlanEnds(l))
  /\ SF_vars(\E l \in Loops : Tick(l) /\ agent' # Absent)
FairSpec == Spec /\ Fairness
-----------------------------------------------------------------------------
(***************************************************************************)
(* Safety, however the calls race.                                         *)
(***************************************************************************)
\* Callers whose stop request no maintain() goroutine has taken yet.
Waiting   == {c \in Callers : pc[c] \in {"deregister.send", "shutdown.send"}}
Selecting == {l \in Loops : loop[l] = "select"}
Running   == IF state = "running" THEN 1 ELSE 0

\* Until the channels are closed there is exactly one maintain() goroutine for every
\* stop request on its way and one more while the service is running: no request
\* waits for nobody, and none ends the goroutine of a service that is running again.
StopFindsMaintainer ==
  ~closed => Cardinality(Waiting) + Running = Cardinality(Selecting)

\* A watch plan ends before the maintain() goroutine that closes its channels: the
\* handler never sends on a closed wpUpdate, and wpStopped holds at most one end.
PlanEndsFirst ==
  \A l \in Loops :
    /\ plan[l] => loop[l] \notin {"answer.nil", "answer.err", "none"}
    /\ ~(plan[l] /\ reported[l])

\* No panic and no ms.mu that nobody can lock again, unless the first refresh failed,
\* a Deregister() overtook a tag change or a ForceRefresh(), or a Shutdown() overtook
\* any call: what goes wrong then is not excluded here.
NeverWedged == panicked \/ mu # Nil => state = "new" \/ misused

\* When no call is in progress, a service that was deregistered or shut down stays out
\* of the agent, unless the request failed or a tag change was overtaken.
StaysGone ==
  Busy = {} /\ state \in {"stopped", "shutdowned"} /\ ~failed /\ ~misused => agent = Absent

\* While tag changes succeed one after the other, the copy and the agent have exactly
\* the tags they add up to, whatever is stopped and started, and whenever the service
\* vanishes and is registered again, unless that is between a change and its refresh.
ChangesAddUp ==
  clean /\ ~Unsettled /\ state # "new" =>
    svc.tags = want /\ (agent # Absent => agent.tags = want)

(***************************************************************************)
(* Liveness.                                                               *)
(***************************************************************************)
\* Every call returns, unless a stop overtook a call that needs its maintain().
CallsReturn ==
  \A c \in Callers : pc[c] # "idle" ~> pc[c] = "idle" \/ misused

\* A running service that the agent has forgotten is registered again.
Reregistered ==
  state = "running" /\ agent = Absent ~> agent # Absent \/ state # "running" \/ misused

(***************************************************************************)
(* What the documentation says and the code does not do.                   *)
(***************************************************************************)
\* "Deregister stops internal maintenance routines and removes the managed service
\* from the connected consul agent": when every call has returned and no request failed,
\* a stopped service is not there.
DeregisterRemoves ==
  Busy = {} /\ state = "stopped" /\ ~failed => agent = Absent
=============================================================================
