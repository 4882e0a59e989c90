--------------------------- MODULE ConsulSession ---------------------------
(***************************************************************************)
(* The session endpoint of Consul, as the library's code uses it.          *)
(*                                                                         *)
(* A call is a set of possible outcomes.  An outcome is a record           *)
(*    id : the session the caller holds after the call (or NoSession)      *)
(*    up : the sessions that exist in Consul after the call                *)
(*    ok : whether the call returned a nil error                           *)
(* so that a caller picks one outcome with \E and can chain calls within   *)
(* one step.  Calls run under a request timeout: a failed call may have    *)
(* reached the server or not, and both are outcomes.                       *)
(***************************************************************************)

CONSTANTS
  Sessions,    \* the session ids Consul can issue
  NoSession,   \* the empty id
  ApiFaults    \* TRUE: a call may fail, before or after it reached the server

ASSUME SessionAssumption ==
  /\ NoSession \notin Sessions
  /\ ApiFaults \in BOOLEAN

Outcome == [id : Sessions \cup {NoSession}, up : SUBSET Sessions, ok : BOOLEAN]

\* Session().Create: a new id, or no id and an error.  After a timeout the
\* session may exist without anybody holding its id.
CreateOutcomes(old, up) ==
  LET fresh == Sessions \ (up \cup {old})
  IN  {o \in Outcome :
         \/ o.ok /\ o.id \in fresh /\ o.up = up \cup {o.id}
         \/ /\ ApiFaults \/ fresh = {}
            /\ ~o.ok /\ o.id = NoSession
            /\ o.up = up \/ \E s \in fresh : o.up = up \cup {s}}

\* Session().Renew of id: kept if it still exists, dropped by the caller if
\* Consul does not know it any more or if the call fails.
RenewOutcomes(id, up) ==
  {o \in Outcome :
     /\ o.up = up
     /\ \/ o.ok /\ id \in up /\ o.id = id
        \/ ~o.ok /\ o.id = NoSession /\ (ApiFaults \/ id \notin up)}

\* Mutation of DestroyOutcomes: the caller keeps the id when the call fails.
DestroyKeepsId(id, up) ==
  {o \in Outcome :
     \/ o.ok /\ o.id = NoSession /\ o.up = up \ {id}
     \/ ApiFaults /\ ~o.ok /\ o.id = id /\ o.up \in {up, up \ {id}}}

\* Session().Destroy of id: the caller forgets the id whatever the answer is.
DestroyOutcomes(id, up) ==
  {o \in Outcome :
     /\ o.id = NoSession
     /\ \/ o.ok /\ o.up = up \ {id}
        \/ ApiFaults /\ ~o.ok /\ o.up \in {up, up \ {id}}}
=============================================================================
