# A TLA+ model of consultant

consultant is a Go library on top of the Consul API client. This directory models the parts of
it that run concurrently: a session kept alive by a goroutine (`ManagedSession`), a leader
election built on it (`Candidate`), a service kept registered (`ManagedService`), the delivery of
notifications (`Notifier`), and the registrations and lookups of a `Client`. TLC checks the models on
small instances; TLAPS proves every safety property that the runs check, the three refinements included,
for any number of goroutines, sessions, workers, tags and requests (section 4).

## 1. Inventory

| Part | State | Operations | Works with |
|---|---|---|---|
| `ManagedSession` (`session.go`) | `state`, `id`, `lastRenewed`, `ms.mu`, the channel `ms.stop` of capacity 1 | `Run`, `Stop`, `Shutdown`; the goroutine `maintain()` with `maintainTick`, `create`, `renew`, `destroy`, `doStop` | Consul's session API; notifies its recipients |
| `Candidate` (`candidate.go`) | `state`, `elected`, `consecutiveSessionErrors`, `c.mu`, the channel `c.stop` | `Run`, `Resign`, `Shutdown`, `Elected`, `WaitUntil`; the goroutine `maintainLock()`; the handler `sessionUpdate()` | owns a `ManagedSession`, is a recipient of it, locks a key in Consul against other candidates |
| `Notifier` (`notifier.go`) | `nb.workers`, `nb.wg`, `nb.mu`; per worker `in`, `out`, `closed`, `nw.mu` | `Attach…`, `Detach…`, `DetachAll…(wait)`, `Push`; goroutines `publish()`, `process()`, `close()` | embedded in the three managed types; calls user code |
| `ManagedService` (`service.go`) | `state`, the local copy `svc`, `ms.mu`, the unbuffered channels `ms.stop` and `ms.forceRefresh`; per `maintain()` a watch plan with `wpUpdate` and `wpStopped` | `NewManagedService`, `Register`, `Deregister`, `Shutdown`, `ForceRefresh`, `AddTags`, `RemoveTags`; goroutines `maintain()` and `runWatchPlan()`, the plan's handler; `refreshService`, `registerService` | Consul's agent, `watch.Plan`; notifies its recipients |
| Client (`client.go`, the builder in `service.go`, `simpleToReg` in `util.go`) | the cached node name and its mutex | `LocalNodeName`, `SimpleServiceRegister`, `ManagedServiceRegister`, `Create`; `ServiceByTags`, `PickService`, `EnsureService` | Consul's agent and health API; makes a `ManagedService` |
| Other helpers of the client and of `util.go` | none | `EnsureKey`, `BuildServiceURL`, slugs, random strings, addresses | Consul, the network interfaces |
| Watch builders (`watch.go`), demo | none | parameter maps; an example program | |

What is hard, and what has to be true of each part:

* **ManagedSession.** `Stop()` and `Shutdown()` change the state under `ms.mu`, release it, and then
  hand a reply channel to `maintain()` through `ms.stop` without a timeout; anything can happen in
  between. A request to Consul may fail before or after it took effect. So: a stop request always
  finds a goroutine that answers it, and only one; a held session has a goroutine that keeps it; a
  session that disappeared in Consul comes back; a stopped session leaves nothing behind.
* **Candidate.** Calls, the timer, and session updates compete for `c.mu`; the session ticks on its
  own timer beside all of them; rivals take and delete the key; updates are late or lost. So:
  `Elected()` follows the lock, a candidate in the pool has a running session and is told of its
  role, one that left does not come back, calls return, somebody is elected.
* **Notifier.** Closing races with pushing and publishing; the handler may call the notifier that
  calls it. So: no send on a closed channel, bounded ordered delivery without duplicates, every call
  returns.
* **ManagedService.** `Deregister()` and `Shutdown()` release `ms.mu` before `maintain()` ends, tag
  changes ask for the state before they lock and refresh after they unlock, the end of the watch plan
  meets the end of `maintain()`, and `Shutdown()` closes channels others may be about to use; the agent
  forgets services and may obey a request that timed out. So: a stop request finds its goroutine and a
  plan ends before its channels are closed; a deregistered service stays away and a forgotten one comes
  back; tags that are changed one change after the other add up; calls return.
* **Client.** An error path of `LocalNodeName()` keeps its mutex; the id of a service comes from
  four places and what is registered again from three; the tag options treat no tags, repeated tags
  and their order differently. So: what was registered is found under its id as it was asked for,
  and the options answer consistently.

The hazards, each at its line, are in `PROJECT.json`.

## 2. Modules

| Module | Role |
|---|---|
| `ConsulSession` | Consul's session endpoint as sets of outcomes (`CreateOutcomes`, `RenewOutcomes`, `DestroyOutcomes`), failures included |
| `SessionContract` | what a session promises its owner: `Open`, `Keep`, `Close`, `Lose` |
| `SerialSession` | a session as a user sees it that makes one call at a time: `Run`, `Stop`, `Tick`, `Lose`, with the results it tells its recipients on the way |
| `ManagedSession` | `session.go`; implements `SessionContract`, and `SerialSession` for a serial user |
| `ConsulLock` | the locked key: `AcquireOutcomes`, `DeleteOutcomes`, release and lock-delay |
| `Candidate` | `candidate.go`, on the outcomes of `SerialSession`, against rivals |
| `Mailbox` | what a notifier promises each recipient |
| `Notifier` | `notifier.go`; implements `Mailbox` |
| `ConsulAgent` | the agent's service endpoint as sets of outcomes (`RegisterOutcomes`, `DeregisterOutcomes`), and `refreshService()` on top of it (`RefreshOutcomes`) |
| `ManagedService` | `service.go`: the calls, `maintain()`, the watch plans |
| `ServiceQuery` | the tag filter and the pick functions of `client.go`, as operators on what Consul returns |
| `Client` | registrations through one `Client`, on `ConsulAgent` and `ServiceQuery` |
| `MC…` | the instances for TLC: symmetry sets, and the requests of `Client` |
| `ConsulSessionProofs` | lemmas about Consul's answers, shared by the proofs of sessions and candidates |
| `ManagedSessionProofs`, `ManagedSessionSerialProofs` | theorems about `ManagedSession`: however calls race, and for calls that do not overlap |
| `CandidateProofs`, `CandidateSerialProofs` | the same for `Candidate` |
| `NotifierProofs`, `ManagedServiceProofs`, `ClientProofs` | theorems about `Notifier`, `ManagedService`, `Client` with `ServiceQuery` |

`SerialSession` is the joint between `ManagedSession` and `Candidate`: a candidate calls its
session only with `c.mu` held (`candidate.go:347, 509-529, 583, 625`), so it is a serial user of
it. `ManagedSession` takes, for such a user, no step that is not one of `SerialSession` or invisible to it
(`ImplementsSerialSession`). `Candidate` is written with the same operators: its `SessionRun`, `SessionStop` and
`SessionTick` try every outcome of `Started`, `Stopped` and `Ticked`, so nothing that a `ManagedSession`
may do to a candidate is left out, and it adds none of its own (`UsesSerialSession`). The one thing
folded together is a tick that waits for `ms.mu` when `Stop()` releases it: it is part of `Stopped`, with updates that
already say stopped, since the candidate waits for the stop with `c.mu` held. The results that an outcome tells
the recipients are read off the code and not part of the refinement: `ManagedSession` keeps only the last update. What a
session promises however its calls race is `SessionContract` (`ImplementsContract`).
`Mailbox` is the joint between `Notifier` and `Candidate`: `Push`, `Deliver` and `Discard` of
`Candidate` are `Put`, `Take` and `Drop` of `Mailbox`. `ConsulAgent` is shared by `ManagedService`,
which has one service and all of its calls, and `Client`, which has many services and, of a managed
one, only its creation and its refreshes.

### Steps

A step is a stretch of code between two points at which another goroutine can interfere: a whole
critical section, one channel operation, or a move of the environment. Calls to Consul made inside
a critical section belong to its step, with every outcome the API allows; where something else can
move meanwhile, the section is split. `refreshLock()` is split for that reason: `Look` reads the
session id, `Acquire` uses it and has Consul's answer, `Assign` makes that answer `*c.elected`. The session's
own timer, its expiry and the rivals do not take `c.mu`, so the key may be lost on the way.

* **ManagedSession**: `Run`, `Stop`, `Shutdown` are the critical sections of the calls; `Send` and
  `Await` are `waitForStop()`; `Detach` and `Close` end a `Shutdown`. `Tick`, `Receive`, `DoStop` are
  the `select` of `maintain()` and its deferred function. `mu` names the goroutine that will never
  release `ms.mu`; this happens when `drop` is nil and the deferred send blocks. `note` is
  the last update pushed, which is not yet an update received: `Detach` throws away what the recipients have in
  their queues. `lastRenewed` is abstracted to zero, within the TTL, beyond it.
* **Candidate**: the same shape, plus `Deliver` and `Process` for `sessionUpdate()` (the test of
  `Running()` is one step, the rest another, because `c.mu` is taken only then; while the handler waits inside
  `Running()` its update is still the head of `queue`, and `Discard` may take the one behind it), `SessionTick` for
  the session's own life, and `Expire`, `DelayEnds`, `RivalAcquires`, `RivalFails`, `RivalResigns` for
  the world. `state = "new"` is the zero value of the Go type, which equals no named state.
* **Notifier**: `Call` commits an actor to a call, so that a handler waiting for `nb.mu` does not
  return meanwhile; an actor in `push` holds `nb.mu` for reading, one in `replace` for writing.
  `Take`, `Offer`, `Hand`, `TimeOut`, `Leave` are `publish()`; `Handled` and `Done` are `process()`;
  `Close` is `close()`, whose body runs under `nw.mu`.
* **ManagedService**: the channels have no buffer, so a send and its receive are one step of
  `maintain()` that names the sender: `ServeRefresh` with a caller at `refresh.send`, `Receive` with one at
  `deregister.send` or `shutdown.send`. `Retag` is the test of `Running()` at the start of `AddTags()` and
  `RemoveTags()`, `ChangeTags` the section under `ms.mu`, and the end of a change is `ForceRefresh`; the
  section holds a read lock only, but `ms.svc` cannot change under it, so two of them that overlap are the
  same as one after the other. `Tick`, `Updated`, `Rewatch` are the other cases of the `select`; `Remove` and
  `Answer` end the goroutine: the request to the agent is made without `ms.mu`, the answer is given with
  it. `PlanHit` and `PlanEnds` are the watch plan's goroutine. The variables `misused`, `failed`, `clean`
  and `want` are history: they say in which behaviours a promise is owed and change nothing.
* **Client**: `Ask` is a call up to `LocalNodeName()`, whose result, empty after an error, goes into the
  id; `Register` is `simpleToReg()` or `Create()` with the request to the agent; `NewManagedService` fetches
  what was registered; `Refresh` and `Vanish` are the rest of its life. An id that is formed is a pair of
  the name and its tail; a random tail is the caller's own.

## 3. Runs

Every constant is a bound. Names of loops are used again when a goroutine has ended, so `Loops` bounds how
many live at once, not how many are started; a name in `Workers` is used once.

| Run | Bounds | Question and answer |
|---|---|---|
| `SessionRace` | 2 callers, 3 loops, 2 sessions, faults | Whatever calls race, even misuse after `Shutdown`: a stop request finds its goroutine (`StopFindsMaintainer`, a counting invariant), is answered once (`ReplyInOnePlace`), a session that is held, or named by the last update pushed, has a goroutine that keeps it (`HeldSessionIsKept`), `ms.mu` is lost only after a shutdown, and the session implements its contract. |
| `SessionSerial` | 2 callers, 2 loops, faults | Calls that do not overlap, up to a `Shutdown`: when no call is in progress there is one `maintain()` if the session runs and none if not, and then nothing is left of it (`QuietWhenStopped`); no panic; each step is one that `Candidate` reckons with (`ImplementsSerialSession`). |
| `SessionLive` | 2 callers, 2 loops, faults, fairness | `Run` and `Stop` race until a last `Shutdown`: calls return, a lost session is created again. |
| `CandidateSerial` | 1 user, 2 loops, 2 sessions, 2 updates in flight, faults | Calls one at a time: state, session, the one goroutine, lock, belief and what was pushed to the recipients agree. `BelievesWhatItHeld`: the candidate believes that it leads from Consul's grant of the key and from nothing else, and what makes that untrue, before or after the answer is assigned, is a tick of its session, an expiry or a rival, never a step of its own. `StartsOnlyByOldUpdate`: the session of a candidate that left starts again by nothing but an update whose `Running()` was asked before. |
| `CandidateRace` | 2 users, 3 loops | Racing calls: every resignation has its own goroutine to answer it. |
| `CandidateLive` | 1 user, 1 loop, 2 sessions, 1 update, fairness | `Run` and `Resign` return; in the pool the candidate wins unless a rival does; a deposed leader notices. |
| `Notifier` | 1 client and 2 handlers that call back, 2 workers, 1 id, buffer 1, 2 notifications, fairness | No send on a closed channel, no push to a closing worker, the wait group covers every recipient, each recipient is served as `Mailbox` says, calls return. |
| `ServiceRace` | 3 callers, 3 loops, 2 tags, faults | All calls race. `StopFindsMaintainer` is here an equation: exactly one `maintain()` for every stop request on its way and one for a running service. Plans end before their channels are closed (`PlanEndsFirst`); no panic and no lost mutex (`NeverWedged`); a stopped service is not in the agent (`StaysGone`); tag changes made one after the other, with the refresh of each, are all in the copy and in the agent (`ChangesAddUp`). |
| `ServiceLive` | 2 callers, 2 loops, no tags, faults, fairness | The same calls return, and a service that the agent forgot is registered again. |
| `Client` | 2 callers, 47 requests, faults, fairness | `OptionsAgree`: the answers of `ServiceByTags()` and `PickService()` to one query relate as their options say, for every list of tags, empty, repeated and in any order. `FoundAsRegistered`: a service is found under its id, with the tags, checks and override that were asked for, also when it was registered again. Registrations end. |
| `CandidateFollowerResigns`, `ServiceDeregister` | smaller | violated: see section 6 |

`misused` is the exception of `NeverWedged`, `StaysGone` and the two liveness properties of `ManagedService`: a stop overtook a call that counts on the
`maintain()` it ends. A `Deregister()` sets it when a tag change or a `ForceRefresh()` is under way, a
`Shutdown()` when any call is; section 6 says what goes wrong then. Without it
every property named above holds, races between `Register`, `Deregister`, the tag changes, and the environment
included; `StopFindsMaintainer`, `PlanEndsFirst` and `ChangesAddUp` hold with it. A process that died in
`NewManagedService` is excepted by `state = "new"`. In `Client` the exception of `CallsReturn` is `refused`:
from the first time that the node's name could not be had. `FoundAsRegistered` is about a service that is its
owner's alone (`Sole`): no other goroutine registers its id, or uses it as a tag.

Why the bounds are enough: two callers are the smallest race, and a third adds only another
copy of the same waiting; three loops let two orphans of a `Stop`/`Run` race live beside a third
`maintain()`. Two sessions are one that is held and one that Consul has not forgotten yet; if
none is free, `create` fails, so the bound shows up as failing requests and not as lost behaviour. A
candidate restarts its session at the third error in a row, so errors are counted to 3. The
100 slots of a worker's buffer become 1 or 2: full and not full are both reached. `MaxPushes` = 2 is
what order and duplication need; while one of the two waits, the handler is busy with the other.
`ServiceRace` has three callers because a stop, the `Register()` that overtakes it, and a third call meet in
one `select`; two tags tell "added", "removed" and "replaced by an older copy" apart. `ServiceLive` has no
tags, so a tag change changes nothing there, but goes through the same steps and its refresh; two callers are
one that waits and one that keeps getting in between. The requests of `Client` combine
kinds, ids (none, equal, different), random or not, checks (own, of the config, both), an address or
none, and six lists of two tags, which contain a repetition and a change of order.
`CHECK_DEADLOCK FALSE` is set throughout: a process whose sessions are stopped and whose
user makes no more calls rests, and `Notifier` has finitely many notifications and workers.
States are identified up to a renaming of callers, loops, sessions and tags in the safety runs, never in
the runs with liveness properties.

### Fairness

* Weak fairness of steps that stay possible once they are: receiving a reply, `doStop()`, a
  notification that can be handed over. The Go scheduler runs a runnable goroutine.
* Strong fairness where others get in between: a lock (a `sync.Mutex` hands itself to a waiter that
  starves for 1 ms, a `RWMutex` stops new readers for a writer), a send on `ms.stop` (blocked senders
  queue up), a `select` between timer and stop channel (Go picks at random).
* Consul: a session nobody renews expires, the lock-delay ends, and a request that is made again and
  again is not refused for ever (`SF_vars(… id' \in upstream')`, `SF_vars(Acquire /\ cs'.won)`).
  Without these the library can do nothing, and none of them says what the library does.
* `WinsUnlessRival` has an antecedent, `Settles`: from some time on a session is neither lost nor
  restarted. With failing requests for ever a candidate may be restarted for ever.
* `ManagedService`: strong fairness, for each caller, of the steps that serve it (the queue of a channel
  is served in order, and a `select` picks at random); weak fairness of `Remove`, `Answer` and of the end of a
  plan that was told to stop. The timer: a tick that finds or registers the service again happens if it
  is possible again and again.
* `Client`: weak fairness of each caller; a `sync.Mutex` nobody keeps comes free.
* Handlers make finitely many calls and return.
* User calls are never assumed to happen.

## 4. Proofs

Every invariant, every action property and all three refinements that a run checks are theorems, for all values
of the constants that satisfy the named assumptions: finite sets of goroutines of any size, any
sessions, any capacity of a queue, any tags and requests, with and without faults.

| Module | About | Theorem: property |
|---|---|---|
| `ManagedSessionProofs` | `Spec`: any call at any time | `TypeCorrect`: `TypeOK`; `RequestsNotLost`: `ReplyInOnePlace`; `LockReleased`: `LockIsReleased`; `StopMeetsMaintainer`: `StopFindsMaintainer`; `HeldIsKept`: `HeldSessionIsKept`; `ContractImplemented`: `ImplementsContract` |
| `ManagedSessionSerialProofs` | `SerialSpec`: calls do not overlap | `NeverWedgedSerially`: `NeverWedged`; `StoppedHoldsNothing`: `QuietWhenStopped`; `SerialSessionImplemented`: `ImplementsSerialSession` |
| `CandidateProofs` | `Spec` | `TypeCorrect`: `TypeOK`; `BelievesOnlyWhatItHeld`: `BelievesWhatItHeld`; `SessionIsSerial`: `UsesSerialSession` |
| | `OpenSpec`: no `Resign()` before the first `Run()` | `ResignMeetsMaintainer`: `ResignFindsMaintainer` |
| `CandidateSerialProofs` | `SerialSpec`: calls do not overlap | `NeverWedgedSerially`: `NeverWedged`; `PoolHasSession`: `RunningHasSession`; `OutOfPoolIsNotElected`: `OutIsNotElected`; `PoolIsTold`: `ToldWhileRunning`; `OnlyOldUpdatesStart`: `StartsOnlyByOldUpdate` |
| `NotifierProofs` | `Spec` | `TypeCorrect`: `TypeOK`; `PushersMeetOpenWorkers`: `PushMeetsOpenWorker`; `NobodyPanics`: `NeverPanics`; `EveryRecipientIsCounted`: `RecipientsAreCounted`; `NotifierIsAMailbox`: `ImplementsMailbox` |
| `ManagedServiceProofs` | `Spec` | `TypeCorrect`: `TypeOK`; `PlansEndFirst`: `PlanEndsFirst`; `StopMeetsMaintainer`: `StopFindsMaintainer`; `NeverWedgedUnlessMisused`: `NeverWedged`; `StaysGoneWhenStopped`: `StaysGone`; `TagChangesAddUp`: `ChangesAddUp` |
| `ClientProofs` | `Spec` | `QueriesAlwaysAgree`: `OptionsAgree`; `LookupFindsOwn`: `FoundAsRegistered` |

### Assumptions

They are in the modules that declare the constants, and TLC evaluates them in the runs.
`ProcessAssumption`, `CandidateAssumption`, `NotifierAssumption`, `ServiceAssumption`: the sets of goroutines are
finite and do not overlap, `Nil` or `None` is none of their members, `MaxQueue` and `MaxPushes` are natural numbers and
`Capacity` a positive one. `SessionAssumption`, `HolderAssumption`, `AgentAssumption`: `NoSession` is no session, the key
is held by nobody, the candidate or a rival, faults are on or off. `ClientAssumption`: the agent's node has an address, a formed
id is not the empty one, the nil entry is no entry, and a request is of a known kind with a sequence of tags. None
of them says how the code behaves.

### Arguments

**ManagedSession, racing calls.** `TypeOK` is inductive. Next the channels: a caller waits if and only if
its reply channel is in the slot, with exactly one loop, or back; a loop that holds a reply channel is
stopping. From them, counting: `Cardinality(Waiting) + Running <= Cardinality(Selecting)` until the channel
is closed. `Run` adds one to both sides, `Stop` and `Shutdown` move one from `Running` to `Waiting`, `Receive`
takes one from both. The delicate step is `DoStop` of one goroutine while another `Run` has set the state
to running again: it lowers `Running`, so the inequality is not an equality, and this is how an orphan
`maintain()` comes to be. `HeldSessionIsKept` has two parts. That a held session has a keeper,
`SessionHasKeeper`, does not follow from the count: it is inductive by
itself, because `DoStop` is the only step that ends a loop and it always forgets the id, whatever
Consul answers. The session that the last update pushed names has one because it is the one that is held
(`PushedIsHeld`): while recipients are attached, a step that changes the id pushes it. The refinement uses it: the abstract `active` is "some loop is live", each step is mapped to one
of `Open`, `Keep`, `Close`, `Lose` or to a stutter.

**ManagedSession, serial calls.** What is added is `CallsAreSerial` (one caller is away from
`idle` at most, its place in the code fixes the state, and the channel is closed only when all is over) and
`LoopIsAlone` (one live loop; it selects while the session runs or a request is on its way, and it stops only
with a reply channel, until the caller is answered). With the count above they leave exactly one place for the loop in every
state, so nothing is stuck, and `QuietWhenStopped` is what they say when all callers are idle. `ImplementsSerialSession` maps "some loop is live" to `active`: `QuietWhenStopped` makes every `Run`
of a stopped session a start, and `LoopIsAlone` makes every `DoStop` the end; with an orphan neither would be.

**Candidate, racing calls.** The types include `Sections`: who holds `c.mu` in the middle of a section is
where the section says, and the session id it read is one. `ResignFindsMaintainer` counts as above, with `RepliesOwed` for
the channels; `OpenSpec` is needed because a new candidate that resigns has no goroutine. `BelievesWhatItHeld`
needs no invariant but the types. The belief counts from Consul's grant (`cs.won` in the middle of a section), at
which the key is locked; `Assign` changes the belief no more, whatever happened since; every other step
of the candidate's own leaves the key and the belief alone, or, like `DoStop`, gives up the belief with the
key. What is left are steps of the session and the environment.
`UsesSerialSession` maps each step to `Run`, `Stop`, `Tick`, `Lose` or a stutter; the lemmas before it bound the
updates that an outcome brings.

**Candidate, serial calls.** `Serial` is as for the session. `Kempt` relates goroutine and session:
`SessionIsRun` (while `maintainLock()` lives the session runs, but for the middle of a restart by the
handler), `LeftBehind` (without it nobody believes to lead, nobody acquires, and an update that passed its test
finds the session stopped) and `ToldInPool`. `StartsOnlyByOldUpdate` follows: outside the pool no goroutine
is left to start the session but the handler.

**Notifier.** `PushersRead` says that an actor in `Push` meets a table nobody changes. `RecipientsOpen` and `WorkersAgree`
are inductive together: a worker in the table was started, serves one recipient and has not been told to
close; after `close()` its inbox is empty and its publisher offers nothing. From them follow `PushMeetsOpenWorker` and
`NeverPanics`, and the refinement, which maps a worker's inbox and the notification its publisher holds to the
queue of a `Mailbox`. `Take` moves a notification from one to the other and is a stutter; `TimeOut` drops the
first, `Close` all that is left.

**ManagedService.** `PlansEnded` makes `PlanEndsFirst` inductive: a name that is free for a new goroutine has no plan
of an old one. `StopFindsMaintainer` is an equation here, since the channels have no buffer and `maintain()` does not touch the
state. `Orderly` says what a stop that overtook nothing can count on: only `Shutdown()` closes, alone and last,
when no goroutine is left to receive; who stops was asked to; no tag change meets a stopped service. `NeverWedged`
and `StaysGone` rest on it, `StaysGone` with `GoneUnlessRemoving`: what is not running is in the agent only while a goroutine has yet to
remove it. `TagsKept` splits `ChangesAddUp` in two: the agent has the tags asked for whenever it has the service,
the copy whenever it is all that is left of them or no change waits for its refresh. It does not need
`Orderly`, so tag changes add up even in a service that is misused otherwise.

**Client.** The lemmas `EqualIfPermuted` and `PermutedIfEqual` show that `strSlicesEqual()`, modelled by the number of
occurrences of each tag, is the same as "one is a permutation of the other", for sequences of any length. With
them each option of `ServiceByTags()` implies what `OptionsAgree` says. `FoundAsRegistered` needs `NothingUnasked` (under an id, and
among the tags, there is nothing that nobody asked for, so the id is nobody else's tag) and `OwnIsAsked` (while it is its owner's alone, the
definition in the agent, and the copy that is registered again, are what the owner asked for).

### Only model-checked

* Liveness: `CallsReturn` (of four modules), `SessionRecreated`, `WinsUnlessRival`, `StepsDown`, `Reregistered`. TLAPS does not
  reason about fairness.
* The two violations of section 6: counterexamples.

`UsesSerialSession` is the one property of a theorem that no run checks; `CandidateSerial` reaches every
outcome it speaks of.

## 5. Not modelled

* Construction of sessions, candidates and services: defaults, the clamping of the TTL to [10 s, 24 h] with
  the renew interval at half of it, request timeouts.
* Of a service's definition everything but tags, override, name, address and checks: Meta, Weights, Kind,
  Proxy, Connect, TaggedAddresses (see section 6).
* The notifications of a `ManagedService`: they are pushed under `ms.mu` to a `Notifier`, which never waits
  for a recipient there. Its reads (`ServiceEntry`, `CatalogService`, `Checks`, `AgentService`).
* A watch plan that cannot be built: its parameters are the name of a service that was fetched, which
  the watch package accepts. What a plan sees: any hit may come at any time.
* The health filter of lookups (`passingOnly`), which Consul applies.
* `EnsureKey` and its variants (one request each), `BuildServiceURL`, slugs, random strings, ports, interface
  addresses, the maps of `watch.go`, the demo: formatting and I/O without state. A random string is
  assumed to be nobody else's.
* That `simpleToReg()` appends to the caller's slice of tags (`util.go`), which two registrations may share.
* Time itself: a timer may fire at any moment, and a TTL may pass at any moment.
* Users that call a candidate's session behind its back (`Candidate.Session()`): then `ms.Run()` can
  fail and `Candidate.Run()` returns with the state running and no goroutine (`candidate.go:347`).
* `KVDataProvider` and handlers that call back into the object that calls them with its mutex held
  (`candidate.go:491`): they wait for themselves.
* A handler that calls `DetachAllNotificationRecipients(true)`: it waits for its own return.
* Which of its updates a recipient of a session or a candidate receives: `note` and `told` are what was pushed. What
  becomes of it is `Mailbox`, which may drop it.
* Delivery of one notification to several recipients attached at the same time: `Push` goes through
  `nb.workers` one by one, and the run has one id.
* `WaitUntil` and `LeaderSession`: a loop of reads with a sleep; wording, logging, event names.

## 6. Where the code and its documentation disagree

Shown by a run that finds the violation:

* `CandidateFollowerResigns`: `doStop()` deletes the key whoever locks it (`candidate.go:620`), so
  "`Elected` will return true if this candidate's session is \"locking\" the kv" (`candidate.go:196`) is not so.
* `ServiceDeregister`: `AddTags()` and `RemoveTags()` ask `Running()` before they lock `ms.mu`; a
  `Deregister()` in between removes the service, and the tag change registers it again, with nobody to maintain
  or remove it. "Deregister … removes the managed service from the connected consul agent"
  (`service.go:294`).

Met while modelling, visible in the models but without a run of their own. Sessions and candidates:

* `doStop()` writes `stopped` over `shutdowned` (`session.go:599`). A session that was running when it was shut
  down accepts `Run()` again; its `maintain()` then reads nil from the closed channel and blocks for ever with
  `ms.mu` locked. A second `Shutdown()` closes the channel a second time and panics (`session.go:391`).
* `Shutdown()` detaches the recipients right after the last updates were pushed (`session.go:384`,
  `candidate.go:408`), and `close()` throws away what is queued (`notifier.go:217`): a recipient may
  never be told that the session or the candidate is gone. The event that is "sent after the managed session has been
  closed" (`notifier.go:53`) is pushed before that (`session.go:379`).
* Consul's grant of the key and the assignment of `*c.elected` are apart (`candidate.go:516`, `candidate.go:537`): a
  candidate whose key is lost in between says that it leads until its next tick.
* A `Run()` between `Stop()`'s unlock and the end of `maintain()` leaves an orphan that goes on renewing
  a session whose state is `stopped` (`session.go:357`).
* `sessionUpdate()` tests `Running()` before it locks `c.mu`; an update delayed past a `Resign()` starts the
  session again (`candidate.go:562`). `StartsOnlyByOldUpdate` says that nothing else does.
* A new candidate is in no named state, so `Resign()` before `Run()` waits for a goroutine that does not
  exist (`candidate.go:377`). The specifications that are run exclude it (`Entered`).
* `Resign()` pushes its update before `doStop()` clears `elected`, and no `LostElection` follows
  (`candidate.go:614`): `told` stays true after a leader resigned.
* `doStop()` does not retry: when its requests fail, the session of a candidate that left may go on locking
  the key until it expires.

Notifier:

* The deferred function of `publish()` waits for a timer that was stopped before (`notifier.go:227`): the
  goroutine of every detached recipient that got a notification stays (`pub[w] = "stuck"`). The same happens to
  the goroutine of every `Deregister()`, which stops its timer twice (`service.go:962`).
* `nw.out` is closed by `close()`, not "once the publish() loop breaks" (`notifier.go:264`); that this is
  harmless is `NeverPanics`.

Services:

* When the first refresh fails, `buildUpdate()` uses the missing copy: `NewManagedService` panics where it
  means to return an error (`service.go:212`).
* Of two concurrent tag changes one is lost, and both calls report success: the tags are those of the copy,
  which the other change has not reached yet (`service.go:426`). `ChangesAddUp` is about changes that
  come one after the other.
* A service that vanishes between a tag change and its refresh is registered again from the old copy
  (`service.go:644`): the change is lost, and the call returns its count and a nil error.
* A tag change registers the service without Meta, Weights, Kind, Proxy, Connect and TaggedAddresses
  (`service.go:678`); the agent replaces what it had.
* A `ForceRefresh()` overtaken by `Deregister()` waits until somebody registers again; one overtaken by
  `Shutdown()` panics, or leaves `ms.mu` locked (`service.go:501`, `service.go:349`).
* `fetchChecks()` returns a nil error when its request failed (`service.go:609`).
* The comment on `NewManagedAgentServiceRegistration` promises slices and maps that are not nil
  (`service.go:983`); they are left nil.

Client:

* `LocalNodeName()` returns on an error without unlocking (`client.go:130`): every later registration waits
  for ever. Its callers ignore the error, so that one registers the service as `name-`.
* Without an id and a random one, two services of one name on one node have the same id (`util.go:290`).
* `TagsAll` returns Consul's answer without the node's address for services that have none; the other
  options fill it in (`client.go:260`).
* `LocalAddressIP` looks for 172, 10, 192 in this order, its comment says otherwise (`util.go:99`, `util.go:126`).

## 7. Plan

1. `Election`: several detailed candidates on one key: at most one is elected while no session is lost and
   only the leader resigns; the candidate seen by the others is `Rival`. To be proved from the invariants of
   `CandidateProofs`.
2. `SessionConfig`: TTL clamping and renew interval; `WaitUntil`.
3. Proofs: lemmas on `WF` and `SF` are out of reach, but the safety part of the liveness arguments is not: that a
   waiting caller always has a step of somebody that serves it (no deadlock).
