---------------------------- MODULE ConsulAgent ----------------------------
(***************************************************************************)
(* The service endpoint of a Consul agent, as service.go uses it.          *)
(*                                                                         *)
(* The agent holds the definition of one service, or Absent.  A call is a  *)
(* set of possible outcomes [agent, ok]: what the agent holds afterwards,  *)
(* and whether the call returned a nil error.  A call that timed out may   *)
(* have reached the agent or not.                                          *)
(***************************************************************************)
CONSTANTS
  Absent,      \* the agent does not know the service
  ApiFaults    \* TRUE: a call may fail, before or after it reached the agent

ASSUME AgentAssumption == ApiFaults \in BOOLEAN

Faulty(outcomes) == IF ApiFaults THEN outcomes ELSE {}

\* Agent().ServiceRegister: what was registered before is replaced as a whole.
RegisterOutcomes(def, agent) ==
  {[agent |-> def, ok |-> TRUE]}
    \cup Faulty([agent : {agent, def}, ok : {FALSE}])

\* Agent().ServiceDeregister: agents differ in what they answer for a service
\* they do not know.
DeregisterOutcomes(agent) ==
  {[agent |-> Absent, ok |-> TRUE]}
    \cup (IF agent = Absent THEN {[agent |-> Absent, ok |-> FALSE]} ELSE {})
    \cup Faulty([agent : {agent, Absent}, ok : {FALSE}])

\* Mutations of RefreshOutcomes: the copy is replaced before the error is looked at; a
\* missing service is an error like any other.
RefreshLosesCopy(svc, agent, restored) ==
  {[svc |-> agent, agent |-> agent, ok |-> agent # Absent]}
RefreshNoRestore(svc, agent, restored) ==
  IF agent # Absent THEN {[svc |-> agent, agent |-> agent, ok |-> TRUE]}
                    ELSE {[svc |-> svc, agent |-> agent, ok |-> FALSE]}

(***************************************************************************)
(* refreshService(): the copy svc follows the agent.  A service the agent  *)
(* does not know is registered again, as restored, and looked up once      *)
(* more.  The copy is left alone on every error.                           *)
(***************************************************************************)
RefreshOutcomes(svc, agent, restored) ==
  LET Found(a)  == [svc |-> a, agent |-> a, ok |-> TRUE]
      Failed(a) == [svc |-> svc, agent |-> a, ok |-> FALSE]
      again     == RegisterOutcomes(restored, agent)
  IN  Faulty({Failed(agent)}) \cup
      IF agent # Absent THEN {Found(agent)}
      ELSE {Found(r.agent)  : r \in {o \in again : o.ok}} \cup
           {Failed(r.agent) : r \in {o \in again : ~o.ok}} \cup
           Faulty({Failed(r.agent) : r \in again})
=============================================================================
