-------------------------- MODULE SessionContract --------------------------
(***************************************************************************)
(* What a ManagedSession promises to the code that uses it, however the    *)
(* calls race, with no goroutine, lock or channel left in it.              *)
(***************************************************************************)
CONSTANTS Sessions, NoSession

VARIABLES
  active,   \* somebody maintains the session
  sid,      \* the id the library holds
  up        \* the sessions that exist in Consul

cvars == <<active, sid, up>>

Init == active = FALSE /\ sid = NoSession /\ up = {}

\* At most one session is created in a step, and only an id that was just
\* created replaces the one that is held.
Added == up' \ up
AtMostOneAdded == \A s, t \in Added : s = t

\* Starting creates a session or fails to.
Open ==
  /\ ~active /\ active'
  /\ up \subseteq up' /\ AtMostOneAdded
  /\ sid' \in Added \cup {NoSession}

\* While active, the session is renewed, lost, destroyed or replaced; sessions
\* of other clients are never touched.
Keep ==
  /\ active /\ active'
  /\ up \ {sid} \subseteq up' /\ AtMostOneAdded
  /\ sid' \in Added \cup {sid, NoSession}

\* Stopping leaves no id behind and touches at most the session held.
Close ==
  /\ active /\ ~active'
  /\ sid' = NoSession
  /\ up \ {sid} \subseteq up' /\ up' \subseteq up

\* Consul drops a session by itself, and the library does not know.
Lose ==
  /\ up' \subseteq up
  /\ UNCHANGED <<active, sid>>

Next == Open \/ Keep \/ Close \/ Lose
Spec == Init /\ [][Next]_cvars
=============================================================================
