------------------------------ MODULE Notifier ------------------------------
(***************************************************************************)
(* notifier.go: a notifierBase, its workers, and the goroutines that call  *)
(* it.  Each recipient is served by a worker of two goroutines, publish()  *)
(* and process(); the handler that process() calls is user code, and may   *)
(* call the notifier itself.                                               *)
(*                                                                         *)
(* nb.mu is read-locked by an actor in "push" and write-locked by one in   *)
(* "replace"; the other critical sections are single steps.  nw.mu of a    *)
(* worker is read-locked by publish() in "offer".                          *)
(***************************************************************************)
EXTENDS FiniteSets, Naturals, Sequences

CONSTANTS
  Clients,    \* goroutines that call the notifier
  Workers,    \* names for workers; each serves one attached recipient, once
  Ids,        \* the ids recipients are attached under
  None,       \* no worker, no notification
  Capacity,   \* the length of nw.in (100 in the code)
  MaxPushes   \* how many notifications are pushed in a behaviour: a bound

ASSUME NotifierAssumption ==
  /\ IsFiniteSet(Workers)
  /\ Clients \cap Workers = {}
  /\ None \notin Workers /\ None \notin Nat
  /\ Capacity \in Nat \ {0} /\ MaxPushes \in Nat

VARIABLES
  recipients,   \* nb.workers
  group,        \* the workers counted in the current nb.wg
  pc,           \* pc[a]: where actor a is in a call
  todo,         \* todo[a]: the workers that call still has to deal with
  pushed,       \* the notifications pushed so far are 1..pushed
  note,         \* note[a]: the one actor a is pushing
  inbox,        \* nw.in
  closer,       \* nw.close(): not called, called, done
  pub,          \* where publish() is
  held,         \* the notification publish() took from nw.in
  timed,        \* publish() has created its timer
  proc,         \* where process() is
  panicked      \* a send on a closed channel killed the program

calls   == <<pc, todo, note>>
members == <<recipients, group>>
worker  == <<inbox, closer, pub, held, timed, proc>>
vars    == <<members, calls, pushed, worker, panicked>>

\* A handler acts on the goroutine of process(), under its worker's name.
Actors == Clients \cup Workers
Notes  == 1..MaxPushes

TypeOK ==
  /\ recipients \in [Ids -> Workers \cup {None}]
  /\ group \in SUBSET Workers
  /\ pc \in [Actors -> {"idle", "call", "push", "replace", "wait"}]
  /\ todo \in [Actors -> SUBSET Workers]
  /\ pushed \in 0..MaxPushes
  /\ note \in [Actors -> Notes \cup {None}]
  /\ inbox \in [Workers -> Seq(Notes)]
  /\ \A w \in Workers : Len(inbox[w]) <= Capacity
  /\ closer \in [Workers -> {"none", "called", "done"}]
  /\ pub \in [Workers -> {"none", "range", "taken", "offer", "stuck", "ended"}]
  /\ held \in [Workers -> Notes \cup {None}]
  /\ timed \in [Workers -> BOOLEAN]
  /\ proc \in [Workers -> {"none", "range", "handle", "done"}]
  /\ panicked \in BOOLEAN

Init ==
  /\ recipients = [i \in Ids |-> None] /\ group = {}
  /\ pc = [a \in Actors |-> "idle"] /\ todo = [a \in Actors |-> {}]
  /\ pushed = 0 /\ note = [a \in Actors |-> None]
  /\ inbox = [w \in Workers |-> <<>>]
  /\ closer = [w \in Workers |-> "none"]
  /\ pub = [w \in Workers |-> "none"] /\ held = [w \in Workers |-> None]
  /\ timed = [w \in Workers |-> FALSE]
  /\ proc = [w \in Workers |-> "none"]
  /\ panicked = FALSE
-----------------------------------------------------------------------------
Registered == {recipients[i] : i \in Ids} \ {None}

\* Nobody write-locks nb.mu; nobody locks it at all.
Readable == ~panicked /\ \A a \in Actors : pc[a] # "replace"
Writable == Readable /\ \A a \in Actors : pc[a] # "push"

Goto(a, p, S) == pc' = [pc EXCEPT ![a] = p] /\ todo' = [todo EXCEPT ![a] = S]

\* The workers of S are told to close, each in a goroutine or by the caller.
CallClose(S) == closer' = [w \in Workers |-> IF w \in S THEN "called" ELSE closer[w]]

\* An actor makes a call: it will not do anything else until it has returned.
Call(a) ==
  /\ ~panicked /\ pc[a] = "idle"
  /\ a \in Workers => proc[a] = "handle"
  /\ Goto(a, "call", {})
  /\ UNCHANGED <<members, note, pushed, worker, panicked>>

\* sendNotification() up to nb.mu.RLock(): who is registered now gets it.
Push(a) ==
  /\ Readable /\ pc[a] = "call" /\ pushed < MaxPushes
  /\ pushed' = pushed + 1
  /\ note' = [note EXCEPT ![a] = pushed + 1]
  /\ Goto(a, "push", Registered)
  /\ UNCHANGED <<members, worker, panicked>>

\* Mutation of Post: the channel is not bounded.
PostUnbounded(a, w) ==
  /\ ~panicked /\ pc[a] = "push" /\ w \in todo[a]
  /\ inbox' = IF closer[w] # "done" THEN [inbox EXCEPT ![w] = Append(@, note[a])] ELSE inbox
  /\ todo' = [todo EXCEPT ![a] = @ \ {w}]
  /\ UNCHANGED <<members, pc, note, pushed, closer, pub, held, timed, proc, panicked>>

\* w.push(): dropped by a closed worker and by a full channel.
Post(a, w) ==
  /\ ~panicked /\ pc[a] = "push" /\ w \in todo[a]
  /\ inbox' = IF closer[w] # "done" /\ Len(inbox[w]) < Capacity
                THEN [inbox EXCEPT ![w] = Append(@, note[a])] ELSE inbox
  /\ todo' = [todo EXCEPT ![a] = @ \ {w}]
  /\ UNCHANGED <<members, pc, note, pushed, closer, pub, held, timed, proc, panicked>>

\* A call that has nothing left to do returns.
Return(a) ==
  /\ ~panicked
  /\ \/ pc[a] = "push" /\ todo[a] = {}
     \/ pc[a] = "replace" /\ \A w \in todo[a] : closer[w] = "done"
     \/ pc[a] = "wait" /\ \A w \in todo[a] : proc[w] = "done"
  /\ Goto(a, "idle", {})
  /\ note' = [note EXCEPT ![a] = None]
  /\ UNCHANGED <<members, pushed, worker, panicked>>

\* Mutation of Count: the new worker is not added to nb.wg.
CountNever(w) == UNCHANGED group

Count(w) == group' = group \cup {w}

\* AttachNotificationHandler(): a new worker; the one it replaces is closed by
\* the caller, who waits for it with nb.mu locked.
Attach(a, i, w) ==
  /\ Writable /\ pc[a] = "call" /\ proc[w] = "none"
  /\ recipients' = [recipients EXCEPT ![i] = w]
  /\ Count(w)
  /\ pub' = [pub EXCEPT ![w] = "range"] /\ proc' = [proc EXCEPT ![w] = "range"]
  /\ LET old == {recipients[i]} \ {None}
     IN  CallClose(old) /\ Goto(a, IF old = {} THEN "idle" ELSE "replace", old)
  /\ UNCHANGED <<note, pushed, inbox, held, timed, panicked>>

\* Mutation of Detach: nb.mu is only read-locked.
DetachShared(a, i) ==
  /\ Readable /\ pc[a] = "call"
  /\ CallClose({recipients[i]} \ {None})
  /\ recipients' = [recipients EXCEPT ![i] = None]
  /\ Goto(a, "idle", {})
  /\ UNCHANGED <<group, note, pushed, inbox, pub, held, timed, proc, panicked>>

\* DetachNotificationRecipient(): the worker is closed in the background.
Detach(a, i) ==
  /\ Writable /\ pc[a] = "call"
  /\ CallClose({recipients[i]} \ {None})
  /\ recipients' = [recipients EXCEPT ![i] = None]
  /\ Goto(a, "idle", {})
  /\ UNCHANGED <<group, note, pushed, inbox, pub, held, timed, proc, panicked>>

\* DetachAllNotificationRecipients(wait): what is waited for is the wait group
\* that every worker since the last such call was added to.
DetachAll(a, wait) ==
  /\ Writable /\ pc[a] = "call"
  /\ CallClose(Registered)
  /\ recipients' = [i \in Ids |-> None]
  /\ group' = {}
  /\ Goto(a, IF wait THEN "wait" ELSE "idle", IF wait THEN group ELSE {})
  /\ UNCHANGED <<note, pushed, inbox, pub, held, timed, proc, panicked>>
-----------------------------------------------------------------------------
\* Mutation of Close: nw.mu is not locked.
CloseUnlocked(w) ==
  /\ ~panicked /\ closer[w] = "called"
  /\ closer' = [closer EXCEPT ![w] = "done"]
  /\ inbox' = [inbox EXCEPT ![w] = <<>>]
  /\ UNCHANGED <<members, calls, pushed, pub, held, timed, proc, panicked>>

\* close(): nw.in and nw.out are closed, and what is left in nw.in is discarded.
Close(w) ==
  /\ ~panicked /\ closer[w] = "called" /\ pub[w] # "offer"
  /\ closer' = [closer EXCEPT ![w] = "done"]
  /\ inbox' = [inbox EXCEPT ![w] = <<>>]
  /\ UNCHANGED <<members, calls, pushed, pub, held, timed, proc, panicked>>

\* publish(), the next round of range nw.in.
Take(w) ==
  /\ ~panicked /\ pub[w] = "range" /\ inbox[w] # <<>>
  /\ held' = [held EXCEPT ![w] = Head(inbox[w])]
  /\ inbox' = [inbox EXCEPT ![w] = Tail(@)]
  /\ pub' = [pub EXCEPT ![w] = "taken"]
  /\ UNCHANGED <<members, calls, pushed, closer, timed, proc, panicked>>

\* publish(), nw.mu is read-locked and the timer armed.
Offer(w) ==
  /\ ~panicked /\ pub[w] = "taken" /\ closer[w] # "done"
  /\ pub' = [pub EXCEPT ![w] = "offer"]
  /\ timed' = [timed EXCEPT ![w] = TRUE]
  /\ UNCHANGED <<members, calls, pushed, inbox, closer, held, proc, panicked>>

\* publish(), nw.out <- n: process() calls the handler with it.
Hand(w) ==
  /\ ~panicked /\ pub[w] = "offer" /\ (closer[w] = "done" \/ proc[w] = "range")
  /\ panicked' = (closer[w] = "done")
  /\ pub' = [pub EXCEPT ![w] = "range"] /\ held' = [held EXCEPT ![w] = None]
  /\ proc' = [proc EXCEPT ![w] = "handle"]
  /\ UNCHANGED <<members, calls, pushed, inbox, closer, timed>>

\* Mutation of TimeOut: publish() waits for the handler as long as it takes.
TimeOutNever(w) == FALSE /\ UNCHANGED vars

\* publish(), <-wait.C: the handler was busy for 5 seconds.
TimeOut(w) ==
  /\ ~panicked /\ pub[w] = "offer" /\ proc[w] # "range"
  /\ pub' = [pub EXCEPT ![w] = "range"] /\ held' = [held EXCEPT ![w] = None]
  /\ UNCHANGED <<members, calls, pushed, inbox, closer, timed, proc, panicked>>

\* publish() returns through its deferred function, which waits for ever on the
\* timer it created: it was stopped, or its value was received, before.
Leave(w) ==
  /\ ~panicked /\ closer[w] = "done"
  /\ \/ pub[w] = "range" /\ inbox[w] = <<>>
     \/ pub[w] = "taken"
  /\ pub' = [pub EXCEPT ![w] = IF timed[w] THEN "stuck" ELSE "ended"]
  /\ held' = [held EXCEPT ![w] = None]
  /\ UNCHANGED <<members, calls, pushed, inbox, closer, timed, proc, panicked>>

\* process(): the handler returns; nw.out is closed and nw.wg is told.
Handled(w) ==
  /\ ~panicked /\ proc[w] = "handle" /\ pc[w] = "idle"
  /\ proc' = [proc EXCEPT ![w] = "range"]
  /\ UNCHANGED <<members, calls, pushed, inbox, closer, pub, held, timed, panicked>>

\* Mutation of Done: nw.wg is told only if a notification was ever handled.
DoneIfUsed(w) ==
  /\ ~panicked /\ proc[w] = "range" /\ closer[w] = "done" /\ timed[w]
  /\ proc' = [proc EXCEPT ![w] = "done"]
  /\ UNCHANGED <<members, calls, pushed, inbox, closer, pub, held, timed, panicked>>

Done(w) ==
  /\ ~panicked /\ proc[w] = "range" /\ closer[w] = "done"
  /\ proc' = [proc EXCEPT ![w] = "done"]
  /\ UNCHANGED <<members, calls, pushed, inbox, closer, pub, held, timed, panicked>>
-----------------------------------------------------------------------------
Operate(a) ==
  \/ Push(a)
  \/ \E i \in Ids : Detach(a, i) \/ \E w \in Workers : Attach(a, i, w)
  \/ DetachAll(a, FALSE)
Proceed(a) == Return(a) \/ \E w \in Workers : Post(a, w)
Publish(w) == Take(w) \/ Offer(w) \/ Hand(w) \/ TimeOut(w) \/ Leave(w)
Process(w) == Handled(w) \/ Done(w)

\* Anybody calls anything, except that no handler waits for the handlers to end:
\* DetachAllNotificationRecipients(true) in a handler waits for its own return.
Next ==
  \/ \E a \in Actors : Call(a) \/ Operate(a) \/ Proceed(a)
  \/ \E c \in Clients : DetachAll(c, TRUE)
  \/ \E w \in Workers : Close(w) \/ Publish(w) \/ Process(w)
Spec == Init /\ [][Next]_vars

\* The runtime runs what can run and hands each mutex to its waiters, timers fire,
\* and a handler makes only so many calls before it returns.
Fairness ==
  /\ \A a \in Actors : SF_vars(Operate(a)) /\ WF_vars(Proceed(a))
  /\ \A w \in Workers : SF_vars(Close(w)) /\ WF_vars(Publish(w)) /\ SF_vars(Process(w))
FairSpec == Spec /\ Fairness
-----------------------------------------------------------------------------
\* No send meets a closed channel: push() on nw.in, publish() on nw.out.
NeverPanics == ~panicked

\* "it is removed from the map of available workers to push to before close ==
\* true": no push is on its way to a worker that was told to close.
PushMeetsOpenWorker ==
  \A a \in Actors : pc[a] = "push" => \A w \in todo[a] : closer[w] = "none"

\* DetachAllNotificationRecipients(true), called now, would wait for every handler
\* that is registered: although attaching, replacing and detaching change nb.workers
\* and nb.wg separately, each registered worker is counted in the current wait group.
RecipientsAreCounted == Registered \subseteq group

\* Every call returns if the handlers do, although an Attach that replaces holds
\* nb.mu while it waits for publish(), publish() waits for the handler, and the
\* handler may wait for nb.mu: the 5 seconds of publish() end that.
CallsReturn == \A a \in Actors : pc[a] # "idle" ~> pc[a] = "idle"

\* Every recipient is served as the Mailbox promises.
Box == INSTANCE Mailbox WITH
  Boxes <- Workers, Letters <- Notes,
  open <- {w \in Workers : proc[w] # "none" /\ closer[w] # "done"},
  queue <- [w \in Workers |->
             IF closer[w] = "done" \/ held[w] = None THEN inbox[w]
             ELSE <<held[w]>> \o inbox[w]],
  reading <- {w \in Workers : proc[w] = "handle"}
ImplementsMailbox == Box!Spec
=============================================================================
