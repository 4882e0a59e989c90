--------------------------- MODULE SerialSession ---------------------------
(***************************************************************************)
(* A ManagedSession as one user sees it that makes one call at a time:     *)
(* Run(), Stop() and the ticks of the timer are a step each, and there is  *)
(* no goroutine, channel or renewal time left.  Candidate is built on      *)
(* these steps, and ManagedSession takes no others.                        *)
(*                                                                         *)
(* An outcome is one of ConsulSession with, in place of ok, the results    *)
(* that the recipients are told of on the way, in order.                   *)
(***************************************************************************)
EXTENDS ConsulSession, Sequences

VARIABLES
  active,   \* the session is maintained
  sid,      \* the id the library holds
  up        \* the sessions that exist in Consul

svars == <<active, sid, up>>

Init == active = FALSE /\ sid = NoSession /\ up = {}

Telling(o, oks) == [id |-> o.id, up |-> o.up, oks |-> oks]

\* Run(): the new state is told, then what became of the session.
Started(s, us) == {Telling(o, <<TRUE, o.ok>>) : o \in CreateOutcomes(s, us)}

\* maintainTick(): a session that is held is renewed, or, too old, destroyed; if none
\* is left a new one is created.
Ticked(s, us) ==
  IF s = NoSession THEN {Telling(o, <<o.ok>>) : o \in CreateOutcomes(s, us)}
  ELSE LET kept == {r \in RenewOutcomes(s, us) : r.id # NoSession}
           lost == {r \in RenewOutcomes(s, us) \cup DestroyOutcomes(s, us) : r.id = NoSession}
       IN  {Telling(r, <<r.ok>>) : r \in kept}
             \cup UNION {{Telling(o, <<r.ok, o.ok>>) : o \in CreateOutcomes(s, r.up)} : r \in lost}

\* doStop(), after the results oks: a session that is held is destroyed.
Ended(s, us, oks) ==
  IF s = NoSession THEN {[id |-> s, up |-> us, oks |-> oks]}
  ELSE {Telling(o, Append(oks, o.ok)) : o \in DestroyOutcomes(s, us)}

\* Stop(): the new state is told; before maintain() ends, a tick that was waiting for
\* ms.mu may come first.
Stopped(s, us) ==
  Ended(s, us, <<TRUE>>) \cup UNION {Ended(t.id, t.up, <<TRUE>> \o t.oks) : t \in Ticked(s, us)}
-----------------------------------------------------------------------------
Becomes(outcomes) == \E o \in outcomes : sid' = o.id /\ up' = o.up

Run  == ~active /\ active' /\ Becomes(Started(sid, up))
Stop == active /\ ~active' /\ Becomes(Stopped(sid, up))
Tick == active /\ active' /\ Becomes(Ticked(sid, up))

\* Consul drops a session by itself, and the library does not know.
Lose == (\E s \in up : up' = up \ {s}) /\ UNCHANGED <<active, sid>>

Next == Run \/ Stop \/ Tick \/ Lose
Spec == Init /\ [][Next]_svars
=============================================================================
