--------------------------- MODULE NotifierProofs ---------------------------
(***************************************************************************)
(* Theorems about Notifier, for any number of clients, recipients and      *)
(* workers, any length of their channels, and however the calls, the       *)
(* workers' goroutines and their handlers are interleaved; and the proof   *)
(* that it implements Mailbox.                                             *)
(***************************************************************************)
EXTENDS Notifier, SequenceTheorems, TLAPS

(***************************************************************************)
(* Types.  That a call has a notification to push is part of them: it is   *)
(* what the channels of the workers hold.                                  *)
(***************************************************************************)
\* While nb.mu is read-locked nobody is attached or detached: a push goes to workers
\* that are registered.
PushersRead ==
  \A a \in Actors : pc[a] = "push" => note[a] \in Notes /\ todo[a] \subseteq Registered

Types == TypeOK /\ PushersRead

LEMMA PushersStep == TypeOK /\ PushersRead /\ [Next]_vars => PushersRead'
<1> SUFFICES ASSUME TypeOK, PushersRead, [Next]_vars
             PROVE  PushersRead'
  OBVIOUS
<1> USE DEF PushersRead, members, calls
<1>1. CASE \E a \in Actors : Call(a) \/ Return(a)
  BY <1>1 DEF Call, Return, Goto, Registered, TypeOK
<1>2. CASE \E a \in Actors : Push(a)
  <2> PICK a \in Actors : Push(a)
    BY <1>2
  <2>1. note'[a] \in Notes /\ todo'[a] = Registered /\ Registered' = Registered
    BY NotifierAssumption DEF Push, Goto, Registered, Notes, TypeOK
  <2>2. \A b \in Actors \ {a} : pc'[b] = pc[b] /\ note'[b] = note[b] /\ todo'[b] = todo[b]
    BY DEF Push, Goto, TypeOK
  <2> QED
    BY <2>1, <2>2
<1>3. CASE \E a \in Actors, w \in Workers : Post(a, w)
  BY <1>3 DEF Post, Registered, TypeOK
<1>4. CASE \E a \in Actors : \/ \E i \in Ids : Detach(a, i)
                             \/ \E i \in Ids, w \in Workers : Attach(a, i, w)
                             \/ \E wait \in BOOLEAN : DetachAll(a, wait)
  <2> PICK a \in Actors : \/ \E i \in Ids : Detach(a, i)
                          \/ \E i \in Ids, w \in Workers : Attach(a, i, w)
                          \/ \E wait \in BOOLEAN : DetachAll(a, wait)
    BY <1>4
  <2>1. \A b \in Actors : pc[b] # "push"
    BY DEF Detach, Attach, DetachAll, Writable
  <2>2. \E p \in {"idle", "replace", "wait"} : \E S : Goto(a, p, S)
    BY DEF Detach, Attach, DetachAll
  <2> QED
    BY <2>1, <2>2 DEF Goto, TypeOK
<1>5. CASE (\E w \in Workers : Close(w) \/ Publish(w) \/ Process(w)) \/ UNCHANGED vars
  <2>1. UNCHANGED <<members, calls>>
    BY <1>5 DEF Close, Publish, Take, Offer, Hand, TimeOut, Leave, Process, Handled, Done, vars
  <2> QED
    BY <2>1 DEF Registered
<1> QED
  BY <1>1, <1>2, <1>3, <1>4, <1>5 DEF Next, Operate, Proceed, Actors

LEMMA TypesStep == Types /\ [Next]_vars => Types'
<1> SUFFICES ASSUME TypeOK, PushersRead, [Next]_vars
             PROVE  TypeOK'
  BY PushersStep DEF Types
<1> USE DEF TypeOK, members, calls, worker
<1> DEFINE Queues == /\ inbox \in [Workers -> Seq(Notes)]
                     /\ \A w \in Workers : Len(inbox[w]) <= Capacity
<1>1. CASE \E a \in Actors : Call(a) \/ Return(a)
  BY <1>1 DEF Call, Return, Goto
<1>2. CASE \E a \in Actors : Push(a)
  <2> PICK a \in Actors : Push(a)
    BY <1>2
  <2>1. pushed' \in 0..MaxPushes /\ pushed' \in Notes
    BY NotifierAssumption DEF Push, Notes
  <2>2. Registered \in SUBSET Workers
    BY DEF Registered
  <2> QED
    BY <2>1, <2>2 DEF Push, Goto
<1>3. CASE \E a \in Actors, w \in Workers : Post(a, w)
  <2> PICK a \in Actors, w \in Workers : Post(a, w)
    BY <1>3
  <2>1. note[a] \in Notes /\ inbox[w] \in Seq(Notes)
    BY DEF Post, PushersRead
  <2>2. Append(inbox[w], note[a]) \in Seq(Notes)
        /\ Len(Append(inbox[w], note[a])) = Len(inbox[w]) + 1
    BY <2>1, AppendProperties
  <2>3. Queues'
    BY <2>1, <2>2, NotifierAssumption, LenProperties DEF Post
  <2>4. todo' \in [Actors -> SUBSET Workers]
    BY DEF Post
  <2> HIDE DEF Queues
  <2> QED
    BY <2>3, <2>4 DEF Post, Queues
<1>4. CASE \E a \in Actors, i \in Ids, w \in Workers : Attach(a, i, w)
  BY <1>4 DEF Attach, Count, CallClose, Goto
<1>5. CASE \E a \in Actors, i \in Ids : Detach(a, i)
  BY <1>5 DEF Detach, CallClose, Goto
<1>6. CASE \E a \in Actors, wait \in BOOLEAN : DetachAll(a, wait)
  BY <1>6 DEF DetachAll, CallClose, Goto
<1>7. CASE \E w \in Workers : Close(w)
  BY <1>7, NotifierAssumption DEF Close
<1>8. CASE \E w \in Workers : Take(w)
  <2> PICK w \in Workers : Take(w)
    BY <1>8
  <2>1. Head(inbox[w]) \in Notes /\ Tail(inbox[w]) \in Seq(Notes)
        /\ Len(Tail(inbox[w])) = Len(inbox[w]) - 1
    BY HeadTailProperties DEF Take
  <2>2. Queues'
    BY <2>1, NotifierAssumption, LenProperties DEF Take
  <2>3. held' \in [Workers -> Notes \cup {None}]
        /\ pub' \in [Workers -> {"none", "range", "taken", "offer", "stuck", "ended"}]
    BY <2>1 DEF Take
  <2> HIDE DEF Queues
  <2> QED
    BY <2>2, <2>3 DEF Take, Queues
<1>9. CASE \E w \in Workers : Publish(w) /\ ~Take(w)
  <2> PICK w \in Workers : Publish(w) /\ ~Take(w)
    BY <1>9
  <2>1. /\ UNCHANGED <<members, calls, pushed, inbox, closer>>
        /\ \E p \in {"range", "offer", "stuck", "ended"} : pub' = [pub EXCEPT ![w] = p]
        /\ held' = held \/ held' = [held EXCEPT ![w] = None]
        /\ timed' = timed \/ timed' = [timed EXCEPT ![w] = TRUE]
        /\ proc' = proc \/ proc' = [proc EXCEPT ![w] = "handle"]
    BY DEF Publish, Offer, Hand, TimeOut, Leave
  <2>2. panicked' \in BOOLEAN
    BY DEF Publish, Offer, Hand, TimeOut, Leave
  <2>3. pub' \in [Workers -> {"none", "range", "taken", "offer", "stuck", "ended"}]
    BY <2>1
  <2>4. /\ held' \in [Workers -> Notes \cup {None}] /\ timed' \in [Workers -> BOOLEAN]
        /\ proc' \in [Workers -> {"none", "range", "handle", "done"}]
    BY <2>1
  <2> QED
    BY <2>1, <2>2, <2>3, <2>4
<1>10. CASE \E w \in Workers : Process(w)
  <2> PICK w \in Workers : Process(w)
    BY <1>10
  <2>1. /\ UNCHANGED <<members, calls, pushed, inbox, closer, pub, held, timed, panicked>>
        /\ \E p \in {"range", "done"} : proc' = [proc EXCEPT ![w] = p]
    BY DEF Process, Handled, Done
  <2> QED
    BY <2>1
<1>11. CASE UNCHANGED vars
  BY <1>11 DEF vars
<1> QED
  BY <1>1, <1>2, <1>3, <1>4, <1>5, <1>6, <1>7, <1>8, <1>9, <1>10, <1>11
     DEF Next, Operate, Proceed, Actors

LEMMA TypesInvariant == Spec => []Types
<1>1. Init => Types
  <2>1. <<>> \in Seq(Notes) /\ Len(<<>>) = 0
    BY EmptySeq
  <2> SUFFICES ASSUME Init PROVE Types
    OBVIOUS
  <2>2. inbox \in [Workers -> Seq(Notes)] /\ \A w \in Workers : Len(inbox[w]) <= Capacity
    BY <2>1, NotifierAssumption DEF Init
  <2>3. pushed \in 0..MaxPushes
    BY NotifierAssumption DEF Init
  <2> QED
    BY <2>2, <2>3 DEF Init, Types, TypeOK, PushersRead
<1> QED
  BY <1>1, TypesStep, PTL DEF Spec

\* The maps, channels and program counters stay in their ranges; no channel holds more
\* than its capacity.
THEOREM TypeCorrect == Spec => []TypeOK
BY TypesInvariant, PTL DEF Types
-----------------------------------------------------------------------------
(***************************************************************************)
(* Closing.                                                                *)
(***************************************************************************)
\* A worker that can be looked up in nb.workers was started, has not been told to close,
\* and serves one recipient only.
RecipientsOpen ==
  /\ \A i \in Ids : recipients[i] # None =>
       closer[recipients[i]] = "none" /\ proc[recipients[i]] # "none"
  /\ \A i, j \in Ids : recipients[i] = recipients[j] /\ recipients[i] # None => i = j

\* The two goroutines of a worker and the one that closes it.
WorkersAgree ==
  \A w \in Workers :
    /\ proc[w] = "none" =>
         closer[w] = "none" /\ pub[w] = "none" /\ inbox[w] = <<>> /\ held[w] = None
    /\ pub[w] \in {"taken", "offer"} <=> held[w] # None
    /\ closer[w] = "done" => inbox[w] = <<>> /\ pub[w] # "offer"
    /\ proc[w] = "done" => closer[w] = "done"

\* A worker that is taken out of nb.workers is told to close, and no other is.
LEMMA ClosingStep ==
  ASSUME TypeOK, RecipientsOpen, WorkersAgree,
         NEW S \in SUBSET Ids, UNCHANGED <<inbox, held>>,
         NEW V \in SUBSET Workers,
         \A w \in V : proc[w] = "none",
         pub' = [w \in Workers |-> IF w \in V THEN "range" ELSE pub[w]],
         proc' = [w \in Workers |-> IF w \in V THEN "range" ELSE proc[w]],
         CallClose({recipients[i] : i \in S} \ {None})
  PROVE  /\ WorkersAgree'
         /\ \A i \in Ids \ S : recipients[i] # None =>
              closer'[recipients[i]] = "none" /\ proc'[recipients[i]] # "none"
         /\ \A w \in V : closer'[w] = "none" /\ proc'[w] # "none"
<1> DEFINE R == {recipients[i] : i \in S} \ {None}
<1>1. \A w \in R : w \in Workers /\ closer[w] = "none" /\ proc[w] # "none"
  BY DEF TypeOK, RecipientsOpen
<1>2. \A w \in Workers : /\ closer'[w] = IF w \in R THEN "called" ELSE closer[w]
                         /\ pub'[w] = IF w \in V THEN "range" ELSE pub[w]
                         /\ proc'[w] = IF w \in V THEN "range" ELSE proc[w]
  BY DEF CallClose
<1>3. \A i \in Ids \ S : recipients[i] \notin R
  BY DEF RecipientsOpen
<1> HIDE DEF R
<1>4. WorkersAgree'
  BY <1>1, <1>2 DEF WorkersAgree
<1>5. \A i \in Ids \ S : recipients[i] # None =>
        closer'[recipients[i]] = "none" /\ proc'[recipients[i]] # "none"
  BY <1>2, <1>3 DEF TypeOK, RecipientsOpen
<1>6. \A w \in V : closer'[w] = "none" /\ proc'[w] # "none"
  BY <1>1, <1>2 DEF WorkersAgree
<1> QED
  BY <1>4, <1>5, <1>6

LEMMA WorkersStep ==
  Types /\ RecipientsOpen /\ WorkersAgree /\ [Next]_vars => RecipientsOpen' /\ WorkersAgree'
<1> SUFFICES ASSUME TypeOK, PushersRead, RecipientsOpen, WorkersAgree, [Next]_vars
             PROVE  RecipientsOpen' /\ WorkersAgree'
  BY DEF Types
<1> USE DEF members, calls, worker
<1>1. ASSUME UNCHANGED <<recipients, worker>>
      PROVE  RecipientsOpen' /\ WorkersAgree'
  BY <1>1 DEF RecipientsOpen, WorkersAgree
<1>2. ASSUME NEW w \in Workers, UNCHANGED recipients, WorkersAgree',
             \A v \in Workers : /\ closer'[v] = closer[v] \/ closer[v] # "none"
                                /\ proc'[v] = proc[v] \/ proc'[v] # "none"
      PROVE  RecipientsOpen' /\ WorkersAgree'
  BY <1>2 DEF RecipientsOpen, TypeOK
<1>3. CASE \E a \in Actors : Call(a) \/ Push(a) \/ Return(a)
  BY <1>1, <1>3 DEF Call, Push, Return
<1>4. CASE \E a \in Actors, w \in Workers : Post(a, w)
  <2> PICK a \in Actors, w \in Workers : Post(a, w)
    BY <1>4
  <2>1. closer[w] = "none" /\ proc[w] # "none"
    BY DEF Post, PushersRead, Registered, RecipientsOpen
  <2>2. WorkersAgree'
    BY <2>1 DEF Post, WorkersAgree, TypeOK
  <2> QED
    BY <1>2, <2>2 DEF Post
<1>5. CASE \E a \in Actors, i \in Ids, w \in Workers : Attach(a, i, w)
  <2> PICK a \in Actors, i \in Ids, w \in Workers : Attach(a, i, w)
    BY <1>5
  <2>1. /\ proc[w] = "none" /\ UNCHANGED <<inbox, held>>
        /\ CallClose({recipients[j] : j \in {i}} \ {None})
        /\ recipients' = [recipients EXCEPT ![i] = w]
    BY DEF Attach
  <2>2. /\ pub' = [v \in Workers |-> IF v \in {w} THEN "range" ELSE pub[v]]
        /\ proc' = [v \in Workers |-> IF v \in {w} THEN "range" ELSE proc[v]]
    BY DEF Attach, TypeOK
  <2>3. /\ WorkersAgree' /\ closer'[w] = "none" /\ proc'[w] # "none"
        /\ \A j \in Ids \ {i} : recipients[j] # None =>
             closer'[recipients[j]] = "none" /\ proc'[recipients[j]] # "none"
    BY <2>1, <2>2, ClosingStep
  <2>4. \A j \in Ids : recipients[j] # w
    BY <2>1, NotifierAssumption DEF RecipientsOpen
  <2> QED
    BY <2>1, <2>3, <2>4 DEF RecipientsOpen, TypeOK
<1>6. CASE \E a \in Actors : \/ \E i \in Ids : Detach(a, i)
                             \/ \E wait \in BOOLEAN : DetachAll(a, wait)
  <2> PICK S \in SUBSET Ids :
        /\ CallClose({recipients[j] : j \in S} \ {None})
        /\ recipients' = [i \in Ids |-> IF i \in S THEN None ELSE recipients[i]]
    <3>1. CASE \E a \in Actors, i \in Ids : Detach(a, i)
      <4> PICK a \in Actors, i \in Ids : Detach(a, i)
        BY <3>1
      <4>1. {recipients[j] : j \in {i}} = {recipients[i]}
        OBVIOUS
      <4>2. recipients' = [j \in Ids |-> IF j \in {i} THEN None ELSE recipients[j]]
        BY DEF Detach, TypeOK
      <4> QED
        BY <4>1, <4>2 DEF Detach
    <3>2. CASE \E a \in Actors, wait \in BOOLEAN : DetachAll(a, wait)
      <4>1. recipients' = [j \in Ids |-> IF j \in Ids THEN None ELSE recipients[j]]
        BY <3>2 DEF DetachAll
      <4> QED
        BY <3>2, <4>1 DEF DetachAll, Registered
    <3> QED
      BY <1>6, <3>1, <3>2
  <2>1. UNCHANGED <<inbox, held, pub, proc>>
    BY <1>6 DEF Detach, DetachAll
  <2> DEFINE nobody == {}
  <2>2. /\ pub' = [v \in Workers |-> IF v \in nobody THEN "range" ELSE pub[v]]
        /\ proc' = [v \in Workers |-> IF v \in nobody THEN "range" ELSE proc[v]]
    BY <2>1 DEF TypeOK
  <2>3. nobody \in SUBSET Workers /\ \A w \in nobody : proc[w] = "none"
    OBVIOUS
  <2>4. UNCHANGED <<inbox, held>>
    BY <2>1
  <2> HIDE DEF nobody
  <2>5. /\ WorkersAgree'
        /\ \A j \in Ids \ S : recipients[j] # None =>
             closer'[recipients[j]] = "none" /\ proc'[recipients[j]] # "none"
    BY <2>2, <2>3, <2>4, ClosingStep
  <2> QED
    BY <2>5 DEF RecipientsOpen
<1>7. CASE \E w \in Workers : Close(w)
  <2> PICK w \in Workers : Close(w)
    BY <1>7
  <2>1. WorkersAgree'
    BY DEF Close, WorkersAgree, TypeOK
  <2> QED
    BY <1>2, <2>1 DEF Close, TypeOK
<1>8. CASE \E w \in Workers : Take(w)
  <2> PICK w \in Workers : Take(w)
    BY <1>8
  <2>1. Head(inbox[w]) # None
    <3>1. Head(inbox[w]) \in Notes
      BY HeadTailProperties DEF Take, TypeOK
    <3> QED
      BY <3>1, NotifierAssumption DEF Notes
  <2>2. WorkersAgree'
    BY <2>1 DEF Take, WorkersAgree, TypeOK
  <2> QED
    BY <1>2, <2>2 DEF Take
<1>9. CASE \E w \in Workers : (Publish(w) /\ ~Take(w)) \/ Process(w)
  <2> PICK w \in Workers : (Publish(w) /\ ~Take(w)) \/ Process(w)
    BY <1>9
  <2>1. WorkersAgree'
    <3>1. CASE Offer(w)
      BY <3>1 DEF Offer, WorkersAgree, TypeOK
    <3>2. CASE Hand(w)
      BY <3>2 DEF Hand, WorkersAgree, TypeOK
    <3>3. CASE TimeOut(w)
      BY <3>3 DEF TimeOut, WorkersAgree, TypeOK
    <3>4. CASE Leave(w)
      BY <3>4 DEF Leave, WorkersAgree, TypeOK
    <3>5. CASE Process(w)
      BY <3>5 DEF Process, Handled, Done, WorkersAgree, TypeOK
    <3> QED
      BY <3>1, <3>2, <3>3, <3>4, <3>5 DEF Publish
  <2>2. /\ UNCHANGED <<recipients, closer>>
        /\ proc' = proc \/ \E p \in {"range", "handle", "done"} : proc' = [proc EXCEPT ![w] = p]
    BY DEF Publish, Offer, Hand, TimeOut, Leave, Process, Handled, Done
  <2> QED
    BY <1>2, <2>1, <2>2 DEF TypeOK
<1>10. CASE UNCHANGED vars
  BY <1>1, <1>10 DEF vars
<1> QED
  BY <1>3, <1>4, <1>5, <1>6, <1>7, <1>8, <1>9, <1>10 DEF Next, Operate, Proceed, Actors

LEMMA WorkersInvariant == Spec => [](RecipientsOpen /\ WorkersAgree)
<1>1. Init => RecipientsOpen /\ WorkersAgree
  BY DEF Init, RecipientsOpen, WorkersAgree
<1> QED
  BY <1>1, WorkersStep, TypesInvariant, PTL DEF Spec

\* Everybody who pushes meets workers that nobody has told to close, although closing
\* one is left to a goroutine of its own.
THEOREM PushersMeetOpenWorkers == Spec => []PushMeetsOpenWorker
<1>1. Types /\ RecipientsOpen => PushMeetsOpenWorker
  BY DEF Types, PushersRead, Registered, RecipientsOpen, PushMeetsOpenWorker
<1> QED
  BY <1>1, TypesInvariant, WorkersInvariant, PTL

\* Neither channel of a worker is closed while something is sent on it, however many
\* workers are attached, replaced and detached while others push.
THEOREM NobodyPanics == Spec => []NeverPanics
<1>1. Init => NeverPanics
  BY DEF Init, NeverPanics
<1>2. WorkersAgree /\ NeverPanics /\ [Next]_vars => NeverPanics'
  <2> SUFFICES ASSUME WorkersAgree, NeverPanics, [Next]_vars
               PROVE  NeverPanics'
    OBVIOUS
  <2>1. CASE \E w \in Workers : Hand(w)
    BY <2>1 DEF Hand, WorkersAgree, NeverPanics
  <2>2. CASE UNCHANGED panicked
    BY <2>2 DEF NeverPanics
  <2> QED
    BY <2>1, <2>2 DEF Next, Call, Operate, Push, Detach, Attach, DetachAll, Proceed, Return, Post,
                      Close, Publish, Take, Offer, TimeOut, Leave, Process, Handled, Done, vars
<1> QED
  BY <1>1, <1>2, WorkersInvariant, PTL DEF Spec

\* The wait group that DetachAllNotificationRecipients() would wait for counts every
\* recipient there is.
THEOREM EveryRecipientIsCounted == Spec => []RecipientsAreCounted
<1>1. Init => RecipientsAreCounted
  BY DEF Init, RecipientsAreCounted, Registered
<1>2. TypeOK /\ RecipientsAreCounted /\ [Next]_vars => RecipientsAreCounted'
  <2> SUFFICES ASSUME TypeOK, RecipientsAreCounted, [Next]_vars
               PROVE  RecipientsAreCounted'
    OBVIOUS
  <2> USE DEF RecipientsAreCounted, Registered, TypeOK
  <2>1. CASE \E a \in Actors, i \in Ids, w \in Workers : Attach(a, i, w)
    BY <2>1 DEF Attach, Count
  <2>2. CASE \E a \in Actors, i \in Ids : Detach(a, i)
    BY <2>2 DEF Detach
  <2>3. CASE \E a \in Actors, wait \in BOOLEAN : DetachAll(a, wait)
    BY <2>3 DEF DetachAll
  <2>4. CASE UNCHANGED members
    BY <2>4 DEF members
  <2> QED
    BY <2>1, <2>2, <2>3, <2>4
       DEF Next, Call, Operate, Push, Proceed, Return, Post, Close, Publish, Take, Offer, Hand,
           TimeOut, Leave, Process, Handled, Done, vars, Actors, members
<1> QED
  BY <1>1, <1>2, TypeCorrect, PTL DEF Spec
-----------------------------------------------------------------------------
(***************************************************************************)
(* Every recipient is served as the Mailbox promises.  A box holds what    *)
(* publish() has in hand and what is in nw.in.                             *)
(***************************************************************************)
Opened  == {w \in Workers : proc[w] # "none" /\ closer[w] # "done"}
Handles == {w \in Workers : proc[w] = "handle"}
Mails   == [w \in Workers |->
             IF closer[w] = "done" \/ held[w] = None THEN inbox[w]
             ELSE <<held[w]>> \o inbox[w]]

\* A letter in hand is the head of the queue.
LEMMA InHand ==
  ASSUME NEW h \in Notes, NEW s \in Seq(Notes)
  PROVE  /\ <<h>> \o s # <<>> /\ Tail(<<h>> \o s) = s /\ Len(<<h>> \o s) = Len(s) + 1
         /\ \A n \in Notes : Append(<<h>> \o s, n) = <<h>> \o Append(s, n)
<1>1. <<h>> \in Seq(Notes) /\ Len(<<h>>) = 1
  OBVIOUS
<1>2. Len(<<h>> \o s) = Len(s) + 1 /\ <<h>> \o s \in Seq(Notes)
  BY <1>1, ConcatProperties, LenProperties
<1>3. <<h>> \o s # <<>>
  BY <1>2, LenProperties, EmptySeq
<1>4. Tail(<<h>> \o s) = s
  OBVIOUS
<1>5. \A n \in Notes : Append(<<h>> \o s, n) = <<h>> \o Append(s, n)
  OBVIOUS
<1> QED
  BY <1>2, <1>3, <1>4, <1>5

LEMMA TookInHand ==
  ASSUME NEW s \in Seq(Notes), s # <<>>
  PROVE  Head(s) \in Notes /\ <<Head(s)>> \o Tail(s) = s
<1>1. Head(s) \in Notes
  BY HeadTailProperties
<1>2. <<Head(s)>> \o Tail(s) = s
  OBVIOUS
<1> QED
  BY <1>1, <1>2

\* The actions of the Mailbox, seen through the refinement.
LEMMA BoxStutters ==
  ASSUME UNCHANGED <<Opened, Mails, Handles>>
  PROVE  UNCHANGED Box!vars
BY DEF Box!vars, Opened, Mails, Handles

LEMMA BoxOpens ==
  ASSUME NEW w \in Workers, Opened' = Opened \cup {w}, UNCHANGED <<Mails, Handles>>
  PROVE  Box!Next
BY DEF Box!Next, Box!Open, Opened, Mails, Handles

LEMMA BoxIsPut ==
  ASSUME NEW w \in Opened, NEW n \in Notes, Len(Mails[w]) <= Capacity,
         Mails' = [Mails EXCEPT ![w] = Append(@, n)], UNCHANGED <<Opened, Handles>>
  PROVE  Box!Next
BY DEF Box!Next, Box!Put, Opened, Mails, Handles

LEMMA BoxTakes ==
  ASSUME NEW w \in Opened \ Handles, Mails[w] # <<>>, Mails' = [Mails EXCEPT ![w] = Tail(@)],
         Handles' = Handles \cup {w}, UNCHANGED Opened
  PROVE  Box!Next
BY DEF Box!Next, Box!Take, Opened, Mails, Handles

LEMMA BoxDrops ==
  ASSUME NEW w \in Handles, Mails[w] # <<>>, Mails' = [Mails EXCEPT ![w] = Tail(@)],
         UNCHANGED <<Opened, Handles>>
  PROVE  Box!Next
BY DEF Box!Next, Box!Drop, Opened, Mails, Handles

LEMMA BoxFinishes ==
  ASSUME NEW w \in Handles, Handles' = Handles \ {w}, UNCHANGED <<Opened, Mails>>
  PROVE  Box!Next
BY DEF Box!Next, Box!Finish, Opened, Mails, Handles

LEMMA BoxShuts ==
  ASSUME NEW w \in Opened, Opened' = Opened \ {w}, UNCHANGED Handles,
         Mails' = [Mails EXCEPT ![w] = <<>>]
  PROVE  Box!Next
<1>1. /\ {w} \in SUBSET Opened
      /\ Mails' = [v \in Workers |-> IF v \in {w} THEN <<>> ELSE Mails[v]]
  BY DEF Mails
<1> QED
  BY <1>1 DEF Box!Next, Box!Shut, Opened, Mails, Handles

\* One step of the notifier is one step of the mailbox, or none.
LEMMA RefinementStep ==
  Types /\ RecipientsOpen /\ WorkersAgree /\ [Next]_vars => [Box!Next]_(Box!vars)
<1> SUFFICES ASSUME TypeOK, PushersRead, RecipientsOpen, WorkersAgree, [Next]_vars
             PROVE  Box!Next \/ UNCHANGED Box!vars
  BY DEF Types
<1> USE DEF members, calls, worker
<1>0. \A w \in Workers :
        /\ inbox[w] \in Seq(Notes) /\ held[w] \in Notes \cup {None} /\ None \notin Notes
        /\ Mails[w] = IF held[w] = None THEN inbox[w] ELSE
                      IF closer[w] = "done" THEN <<>> ELSE <<held[w]>> \o inbox[w]
  BY NotifierAssumption DEF TypeOK, Notes, Mails, WorkersAgree
<1>1. ASSUME UNCHANGED <<inbox, held, proc>>,
             \A w \in Workers : closer'[w] = "done" <=> closer[w] = "done"
      PROVE  UNCHANGED Box!vars
  <2>1. UNCHANGED <<Opened, Mails, Handles>>
    BY <1>1 DEF Opened, Mails, Handles
  <2> QED
    BY <2>1, BoxStutters
<1>2. CASE (\E a \in Actors : Call(a) \/ Push(a) \/ Return(a)) \/ UNCHANGED vars
  BY <1>1, <1>2 DEF Call, Push, Return, vars
<1>3. CASE \E a \in Actors, w \in Workers : Post(a, w)
  <2> PICK a \in Actors, w \in Workers : Post(a, w)
    BY <1>3
  <2>1. w \in Opened /\ note[a] \in Notes
    BY DEF Post, PushersRead, Registered, RecipientsOpen, Opened
  <2>2. UNCHANGED <<Opened, Handles>>
    BY DEF Post, Opened, Handles
  <2>3. CASE Len(inbox[w]) < Capacity
    <3>1. inbox' = [inbox EXCEPT ![w] = Append(@, note[a])]
      BY <2>1, <2>3 DEF Post, Opened
    <3>2. Len(Mails[w]) <= Capacity
      <4>1. Len(inbox[w]) \in Nat /\ Len(<<>>) = 0
        BY <1>0, LenProperties
      <4>2. held[w] # None => Len(<<held[w]>> \o inbox[w]) = Len(inbox[w]) + 1
        BY <1>0, InHand
      <4> QED
        <5>1. Mails[w] = inbox[w] \/ (held[w] # None /\ Mails[w] = <<held[w]>> \o inbox[w])
          BY <1>0, <2>1 DEF Opened
        <5>2. Len(Mails[w]) \in {Len(inbox[w]), Len(inbox[w]) + 1}
          BY <4>2, <5>1
        <5> QED
          BY <2>3, <4>1, <5>2, NotifierAssumption
    <3>3. Mails' = [Mails EXCEPT ![w] = Append(@, note[a])]
      <4>1. Mails'[w] = Append(Mails[w], note[a])
        <5>1. held[w] # None => Append(<<held[w]>> \o inbox[w], note[a])
                                = <<held[w]>> \o Append(inbox[w], note[a])
          BY <1>0, <2>1, InHand
        <5>2. inbox'[w] = Append(inbox[w], note[a]) /\ UNCHANGED <<held, closer>>
          BY <3>1 DEF Post, TypeOK
        <5> QED
          BY <2>1, <5>1, <5>2 DEF Mails, Opened
      <4>2. \A v \in Workers \ {w} : Mails'[v] = Mails[v]
        BY <3>1 DEF Post, Mails, TypeOK
      <4> QED
        BY <4>1, <4>2 DEF Mails
    <3> QED
      BY <2>1, <2>2, <3>2, <3>3, BoxIsPut
  <2>4. CASE ~(Len(inbox[w]) < Capacity)
    BY <1>1, <2>4 DEF Post
  <2> QED
    BY <2>3, <2>4
<1>4. CASE \E a \in Actors, i \in Ids, w \in Workers : Attach(a, i, w)
  <2> PICK a \in Actors, i \in Ids, w \in Workers : Attach(a, i, w)
    BY <1>4
  <2>1. UNCHANGED <<inbox, held>> /\ closer[w] = "none"
        /\ \A v \in Workers : closer'[v] = "done" <=> closer[v] = "done"
    BY DEF Attach, CallClose, RecipientsOpen, WorkersAgree, TypeOK
  <2>2. UNCHANGED <<Mails, Handles>>
    BY <2>1 DEF Attach, Mails, Handles, TypeOK
  <2>3. Opened' = Opened \cup {w}
    BY <2>1 DEF Attach, Opened, TypeOK
  <2> QED
    BY <2>2, <2>3, BoxOpens
<1>5. CASE \E a \in Actors : \/ \E i \in Ids : Detach(a, i)
                             \/ \E wait \in BOOLEAN : DetachAll(a, wait)
  <2>1. \A v \in Workers : closer'[v] = "done" <=> closer[v] = "done"
    BY <1>5 DEF Detach, DetachAll, CallClose, Registered, RecipientsOpen
  <2> QED
    BY <1>1, <1>5, <2>1 DEF Detach, DetachAll
<1>6. CASE \E w \in Workers : Close(w)
  <2> PICK w \in Workers : Close(w)
    BY <1>6
  <2>1. w \in Opened /\ Opened' = Opened \ {w} /\ UNCHANGED Handles
    BY DEF Close, WorkersAgree, Opened, Handles, TypeOK
  <2>2. Mails' = [Mails EXCEPT ![w] = <<>>]
    BY DEF Close, Mails, TypeOK
  <2> QED
    BY <2>1, <2>2, BoxShuts
<1>7. CASE \E w \in Workers : Take(w)
  <2> PICK w \in Workers : Take(w)
    BY <1>7
  <2>1. held[w] = None /\ closer[w] # "done"
    BY DEF Take, WorkersAgree
  <2>2. UNCHANGED <<Opened, Handles>>
    BY DEF Take, Opened, Handles
  <2>3. Head(inbox[w]) # None /\ <<Head(inbox[w])>> \o Tail(inbox[w]) = inbox[w]
    <3>1. inbox[w] \in Seq(Notes) /\ inbox[w] # <<>>
      BY <1>0 DEF Take
    <3> QED
      BY <1>0, <3>1, TookInHand
  <2>4. Mails' = Mails
    <3>1. Mails'[w] = Mails[w]
      BY <2>1, <2>3 DEF Take, Mails, TypeOK
    <3>2. \A v \in Workers \ {w} : Mails'[v] = Mails[v]
      BY DEF Take, Mails, TypeOK
    <3> QED
      BY <3>1, <3>2 DEF Mails
  <2> QED
    BY <2>2, <2>4, BoxStutters
<1>8. CASE \E w \in Workers : Hand(w) \/ TimeOut(w)
  <2> PICK w \in Workers : Hand(w) \/ TimeOut(w)
    BY <1>8
  <2>1. held[w] \in Notes /\ closer[w] # "done"
    BY <1>0 DEF Hand, TimeOut, WorkersAgree
  <2>2. Mails[w] # <<>> /\ Mails' = [Mails EXCEPT ![w] = Tail(@)]
    <3>1. Mails[w] # <<>> /\ Tail(Mails[w]) = inbox[w]
      <4>1. Mails[w] = <<held[w]>> \o inbox[w] /\ inbox[w] \in Seq(Notes)
        BY <1>0, <2>1
      <4> QED
        BY <2>1, <4>1, InHand
    <3>2. Mails'[w] = inbox[w]
      BY DEF Hand, TimeOut, Mails, TypeOK
    <3>3. \A v \in Workers \ {w} : Mails'[v] = Mails[v]
      BY DEF Hand, TimeOut, Mails, TypeOK
    <3> QED
      BY <3>1, <3>2, <3>3 DEF Mails
  <2>3. CASE Hand(w)
    <3>1. w \in Opened \ Handles /\ Handles' = Handles \cup {w} /\ UNCHANGED Opened
      BY <2>1, <2>3 DEF Hand, Opened, Handles, TypeOK
    <3> QED
      BY <2>2, <3>1, BoxTakes
  <2>4. CASE TimeOut(w)
    <3>1. w \in Handles /\ UNCHANGED <<Opened, Handles>>
      BY <2>1, <2>4 DEF TimeOut, WorkersAgree, Opened, Handles, TypeOK
    <3> QED
      BY <2>2, <3>1, BoxDrops
  <2> QED
    BY <2>3, <2>4
<1>9. CASE \E w \in Workers : Offer(w)
  BY <1>1, <1>9 DEF Offer
<1>10. CASE \E w \in Workers : Leave(w)
  <2> PICK w \in Workers : Leave(w)
    BY <1>10
  <2>1. UNCHANGED <<Opened, Handles>>
    BY DEF Leave, Opened, Handles
  <2>2. Mails' = Mails
    BY DEF Leave, Mails, TypeOK
  <2> QED
    BY <2>1, <2>2, BoxStutters
<1>11. CASE \E w \in Workers : Handled(w)
  <2> PICK w \in Workers : Handled(w)
    BY <1>11
  <2>1. w \in Handles /\ Handles' = Handles \ {w} /\ UNCHANGED <<Opened, Mails>>
    BY DEF Handled, Handles, Opened, Mails, TypeOK
  <2> QED
    BY <2>1, BoxFinishes
<1>12. CASE \E w \in Workers : Done(w)
  <2> PICK w \in Workers : Done(w)
    BY <1>12
  <2>1. UNCHANGED <<Handles, Opened, Mails>>
    BY DEF Done, Handles, Opened, Mails, TypeOK
  <2> QED
    BY <2>1, BoxStutters
<1> QED
  BY <1>2, <1>3, <1>4, <1>5, <1>6, <1>7, <1>8, <1>9, <1>10, <1>11, <1>12
     DEF Next, Operate, Proceed, Publish, Process, Actors

\* Every recipient has a queue of its own, of bounded length, whose notifications are
\* handled one at a time and in order, each at most once and none after its removal:
\* what is refused, dropped or discarded is all that is lost.
THEOREM NotifierIsAMailbox == Spec => ImplementsMailbox
<1>1. Init => Box!Init
  <2> SUFFICES ASSUME Init PROVE Box!Init
    OBVIOUS
  <2> QED
    BY DEF Init, Box!Init
<1> QED
  BY <1>1, RefinementStep, TypesInvariant, WorkersInvariant, PTL
     DEF Spec, ImplementsMailbox, Box!Spec
=============================================================================
