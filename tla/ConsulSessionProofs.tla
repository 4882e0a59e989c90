------------------------ MODULE ConsulSessionProofs ------------------------
(***************************************************************************)
(* What the calls to Consul's session endpoint leave behind: the facts     *)
(* that the proofs about a session and about its user have in common.      *)
(***************************************************************************)
EXTENDS ConsulSession, TLAPS

\* create(): at most one session more, and an id only if it is that session.
LEMMA CreateFacts ==
  ASSUME NEW old, NEW up \in SUBSET Sessions, NEW o \in CreateOutcomes(old, up)
  PROVE  /\ o.id \in Sessions \cup {NoSession} /\ o.up \in SUBSET Sessions
         /\ o.ok \in BOOLEAN
         /\ o.id # NoSession => o.ok
         /\ o.id \in (o.up \ up) \cup {NoSession}
         /\ up \subseteq o.up
         /\ \A s, t \in o.up \ up : s = t
BY SessionAssumption DEF CreateOutcomes, Outcome

\* renew(): the id is kept or dropped, and Consul's sessions stay as they are.
LEMMA RenewFacts ==
  ASSUME NEW sid, NEW up \in SUBSET Sessions, NEW o \in RenewOutcomes(sid, up)
  PROVE  /\ o.id \in {sid, NoSession} /\ o.id \in Sessions \cup {NoSession}
         /\ o.up = up /\ o.ok \in BOOLEAN
BY DEF RenewOutcomes, Outcome

\* destroy(): the id is dropped, and no other session disappears.
LEMMA DestroyFacts ==
  ASSUME NEW sid, NEW up \in SUBSET Sessions, NEW o \in DestroyOutcomes(sid, up)
  PROVE  /\ o.id = NoSession /\ up \ {sid} \subseteq o.up /\ o.up \subseteq up
         /\ o.ok \in BOOLEAN
BY DEF DestroyOutcomes, Outcome
=============================================================================
