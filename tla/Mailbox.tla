------------------------------ MODULE Mailbox ------------------------------
(***************************************************************************)
(* What a Notifier promises each of its recipients: a queue of bounded     *)
(* length, served one notification at a time.  A notification may be       *)
(* refused, lost while the recipient is busy with another one, or lost     *)
(* when the recipient is removed; none is delivered twice or out of order, *)
(* and none after the removal.  This is the channel a Candidate relies on  *)
(* for the updates of its session (Push, Deliver and Discard there).       *)
(***************************************************************************)
EXTENDS Naturals, Sequences

CONSTANTS
  Boxes,      \* the recipients
  Letters,    \* the notifications
  Capacity    \* one less than the longest queue

VARIABLES
  open,     \* the recipients that are attached
  queue,    \* queue[b]: the notifications on their way to b
  reading   \* reading[b]: the recipients that handle a notification now

vars == <<open, queue, reading>>

Init ==
  /\ open = {}
  /\ queue = [b \in Boxes |-> <<>>]
  /\ reading = {}

Open(b) ==
  /\ open' = open \cup {b}
  /\ UNCHANGED <<queue, reading>>

Put(b, n) ==
  /\ b \in open
  /\ queue' = [queue EXCEPT ![b] = Append(@, n)]
  /\ Len(queue[b]) <= Capacity
  /\ UNCHANGED <<open, reading>>

Take(b) ==
  /\ b \in open \ reading /\ queue[b] # <<>>
  /\ queue' = [queue EXCEPT ![b] = Tail(@)]
  /\ reading' = reading \cup {b}
  /\ UNCHANGED open

Drop(b) ==
  /\ b \in reading /\ queue[b] # <<>>
  /\ queue' = [queue EXCEPT ![b] = Tail(@)]
  /\ UNCHANGED <<open, reading>>

Finish(b) ==
  /\ b \in reading
  /\ reading' = reading \ {b}
  /\ UNCHANGED <<open, queue>>

Shut(S) ==
  /\ open' = open \ S
  /\ queue' = [b \in Boxes |-> IF b \in S THEN <<>> ELSE queue[b]]
  /\ UNCHANGED reading

Next ==
  \/ \E b \in Boxes : Open(b) \/ Take(b) \/ Drop(b) \/ Finish(b)
                      \/ \E n \in Letters : Put(b, n)
  \/ \E S \in SUBSET open : Shut(S)

Spec == Init /\ [][Next]_vars
=============================================================================
