---------------------------- MODULE ConsulLock ----------------------------
(***************************************************************************)
(* The key that candidates lock in Consul, as candidate.go uses it.        *)
(*                                                                         *)
(* An outcome is a record                                                  *)
(*    holder : who holds the lock after the call                           *)
(*    won    : what Acquire answered                                       *)
(*    ok     : whether the call returned a nil error                       *)
(***************************************************************************)
EXTENDS ConsulSession

CONSTANTS
  Nobody,   \* the key does not exist or is not locked
  Rival     \* the key is locked by a session of another candidate

ASSUME HolderAssumption ==
  /\ Nobody \notin Sessions \cup {NoSession} /\ Rival \notin Sessions \cup {NoSession}
  /\ Nobody # Rival

Holders == Sessions \cup {Nobody, Rival}
Answers == [holder : Holders, won : BOOLEAN, ok : BOOLEAN]

\* KV().Acquire of the key with session s: refused with an error if Consul does
\* not know s, refused politely while somebody else holds the lock or its delay
\* runs.  A request that timed out may have locked the key.
AcquireOutcomes(s, holder, delay, up) ==
  LET free == s \in up /\ (holder = s \/ (holder = Nobody /\ ~delay))
  IN  {a \in Answers :
         \/ a.ok /\ s \in up /\ a.won = free /\ a.holder = (IF free THEN s ELSE holder)
         \/ /\ ApiFaults \/ s \notin up
            /\ ~a.ok /\ ~a.won
            /\ a.holder \in (IF free THEN {s, holder} ELSE {holder})}

\* KV().Delete of the key, whoever holds the lock.
DeleteOutcomes(holder) ==
  {a \in Answers :
     \/ a.ok /\ ~a.won /\ a.holder = Nobody
     \/ ApiFaults /\ ~a.ok /\ ~a.won /\ a.holder \in {holder, Nobody}}

\* Consul releases the lock of a session that no longer exists, and then does
\* not grant it to anybody for the lock-delay.
Released(holder, up) == IF holder \in Sessions \ up THEN Nobody ELSE holder
Delayed(delay, holder, up) == delay \/ holder \in Sessions \ up
=============================================================================
