------------------------------- MODULE Client -------------------------------
(***************************************************************************)
(* client.go, util.go and the registration builder of service.go: several  *)
(* goroutines register a service each through one Client, and others look  *)
(* services up.  A managed service keeps what it registered in the agent,  *)
(* which may forget it (ManagedService models the rest of its life).       *)
(*                                                                         *)
(* A request is a record: kind ("simple": SimpleServiceRegister,           *)
(* "managed": ManagedServiceRegister, "builder": Create of a               *)
(* ManagedAgentServiceRegistration), valid (name and port are), name, id   *)
(* (given or Blank), random (RandomID), tags, addr, checks, open           *)
(* (EnableTagOverride), and the config's cfgID and BaseChecks base.        *)
(***************************************************************************)
EXTENDS ConsulAgent, ServiceQuery

CONSTANTS
  Callers,     \* goroutines that register a service
  Requests,    \* the registrations they ask for
  NodeName,    \* the name of Consul's node
  LocalAddr    \* the Client's own address, Blank if it found none

VARIABLES
  agent,       \* agent[id]: the registered service, or Absent
  nodeName,    \* Client.localNodeName
  locked,      \* localNodeNameMu stays locked
  refused,     \* history: a request for the node's name failed
  panicked,    \* the process died of a panic
  pc,          \* pc[c]: where the registration of c is
  req,         \* req[c]: what c asked for
  node,        \* node[c]: the node name c was given, Blank after an error
  copy         \* copy[c]: the managed service's ms.svc

vars == <<agent, nodeName, locked, refused, panicked, pc, req, node, copy>>

Ended == {"returned", "kept", "failed"}

\* An id that was given, or name-tail: the tail is the node's name or random.  A random
\* tail is nobody else's.
ServiceIDs ==
  ({r.id : r \in Requests} \cup {r.cfgID : r \in Requests}
     \cup {<<r.name, tail>> : r \in Requests, tail \in {NodeName, Blank} \cup Callers}) \ {Blank}

Names     == {r.name : r \in Requests}
Tags      == ServiceIDs \cup UNION {ToSet(r.tags) : r \in Requests}
Addresses == {r.addr : r \in Requests} \cup {LocalAddr, NodeAddr}
Entry     == [id : ServiceIDs, name : Names, tags : Seq(Tags), addr : Addresses]

\* A node has an address, an id that is formed is not empty, and nil is no entry.
ASSUME ClientAssumption ==
  /\ NodeAddr # Blank
  /\ Blank \notin Names \X ({NodeName, Blank} \cup Callers)
  /\ NotFound \notin Entry
  /\ \A r \in Requests : /\ r.kind \in {"simple", "managed", "builder"}
                         /\ r.tags \in Seq(ToSet(r.tags))
                         /\ r.open \in BOOLEAN

Init ==
  /\ agent = [id \in ServiceIDs |-> Absent]
  /\ nodeName = Blank /\ locked = FALSE /\ refused = FALSE /\ panicked = FALSE
  /\ pc = [c \in Callers |-> "idle"]
  /\ req = [c \in Callers |-> Absent]
  /\ node = [c \in Callers |-> Blank]
  /\ copy = [c \in Callers |-> Absent]
-----------------------------------------------------------------------------
\* simpleToReg() forms the id from the name and a tail; the builder has the id it was
\* given, else Create() takes that of the config or a random one.  When Create() goes on
\* the builder and the config have the same id (SameID refuses the rest), so this is the
\* id that is registered and the id that NewManagedService() fetches.
ServiceID(c) ==
  LET r == req[c]
  IN  CASE r.id # Blank        -> r.id
        [] r.kind # "builder"  -> <<r.name, IF r.random THEN c ELSE node[c]>>
        [] r.cfgID # Blank     -> r.cfgID
        [] OTHER               -> <<r.name, c>>

\* Mutation of Registration: the id is not among the tags.
RegistrationUntagged(c) ==
  LET r      == req[c]
      simple == r.kind # "builder"
  IN  [name   |-> r.name,
       tags   |-> r.tags,
       addr   |-> IF simple /\ r.addr = Blank THEN LocalAddr ELSE r.addr,
       checks |-> r.checks,
       open   |-> r.open \/ r.kind # "simple"]

\* simpleToReg(): the id becomes a tag, and the client's address the default.  Create()
\* always enables the override of tags.
Registration(c) ==
  LET r      == req[c]
      simple == r.kind # "builder"
  IN  [name   |-> r.name,
       tags   |-> IF simple THEN Append(r.tags, ServiceID(c)) ELSE r.tags,
       addr   |-> IF simple /\ r.addr = Blank THEN LocalAddr ELSE r.addr,
       checks |-> r.checks,
       open   |-> r.open \/ r.kind # "simple"]

\* Create(): the config and the builder name the same service.
SameID(c) == req[c].cfgID \in {Blank, ServiceID(c)}

\* Mutation of BaseChecks: only those of the config.
BaseChecksOfConfig(c) == req[c].base

\* Create(): the checks of the builder, unless the config has some.
BaseChecks(c) == IF req[c].base = {} THEN req[c].checks ELSE req[c].base

\* registerService(true, ms.svc.Tags).
Restored(c) == [copy[c] EXCEPT !.checks = BaseChecks(c), !.open = TRUE]
-----------------------------------------------------------------------------
\* A goroutine asks for a registration.  Both of the Client's want to know the name of
\* the node first.
Ask(c) ==
  /\ ~panicked /\ pc[c] = "idle"
  /\ \E r \in Requests :
       /\ req' = [req EXCEPT ![c] = r]
       /\ pc' = [pc EXCEPT ![c] = IF r.kind = "builder" THEN "register" ELSE "name"]
  /\ UNCHANGED <<agent, nodeName, locked, refused, panicked, node, copy>>

\* Mutation of KeepsLock: a name that was found is returned without unlocking, too.
KeepsLockAlways(name) == TRUE

\* LocalNodeName() unlocks only when it has a name to return.
KeepsLock(name) == name = Blank

\* LocalNodeName(): asked for once.  Its callers ignore the error.
LocalNodeName(c) ==
  /\ ~panicked /\ ~locked /\ pc[c] = "name"
  /\ \E name \in IF nodeName # Blank THEN {nodeName} ELSE {NodeName} \cup Faulty({Blank}) :
       /\ nodeName' = name /\ node' = [node EXCEPT ![c] = name]
       /\ locked' = KeepsLock(name)
       /\ refused' = (refused \/ name = Blank)
  /\ pc' = [pc EXCEPT ![c] = "register"]
  /\ UNCHANGED <<agent, panicked, req, copy>>

\* simpleToReg() refuses a bad name or port, Create() two different ids.
Refused(c) ==
  \/ req[c].kind # "builder" /\ ~req[c].valid
  \/ req[c].kind # "simple" /\ ~SameID(c)

\* Unless the request is refused the service is registered.
Register(c) ==
  /\ ~panicked /\ pc[c] = "register"
  /\ \/ Refused(c) /\ pc' = [pc EXCEPT ![c] = "failed"] /\ UNCHANGED agent
     \/ /\ ~Refused(c)
        /\ \E o \in RegisterOutcomes(Registration(c), agent[ServiceID(c)]) :
             /\ agent' = [agent EXCEPT ![ServiceID(c)] = o.agent]
             /\ pc' = [pc EXCEPT ![c] = CASE ~o.ok                   -> "failed"
                                          [] req[c].kind = "simple" -> "returned"
                                          [] OTHER                  -> "manage"]
  /\ UNCHANGED <<nodeName, locked, refused, panicked, req, node, copy>>

\* NewManagedService() fetches the service, and panics if it cannot.
NewManagedService(c) ==
  /\ ~panicked /\ pc[c] = "manage"
  /\ \/ /\ agent[ServiceID(c)] # Absent
        /\ copy' = [copy EXCEPT ![c] = agent[ServiceID(c)]]
        /\ pc' = [pc EXCEPT ![c] = "kept"] /\ UNCHANGED panicked
     \/ /\ agent[ServiceID(c)] = Absent \/ ApiFaults
        /\ panicked' = TRUE /\ UNCHANGED <<pc, copy>>
  /\ UNCHANGED <<agent, nodeName, locked, refused, req, node>>

\* A refresh by the maintain() goroutine of a managed service.
Refresh(c) ==
  /\ ~panicked /\ pc[c] = "kept"
  /\ \E o \in RefreshOutcomes(copy[c], agent[ServiceID(c)], Restored(c)) :
       /\ agent' = [agent EXCEPT ![ServiceID(c)] = o.agent]
       /\ copy' = [copy EXCEPT ![c] = o.svc]
  /\ UNCHANGED <<nodeName, locked, refused, panicked, pc, req, node>>

\* The agent forgets a service.
Vanish(id) ==
  /\ agent[id] # Absent /\ agent' = [agent EXCEPT ![id] = Absent]
  /\ UNCHANGED <<nodeName, locked, refused, panicked, pc, req, node, copy>>

Step(c) == LocalNodeName(c) \/ Register(c) \/ NewManagedService(c)

Next ==
  \/ \E c \in Callers : Ask(c) \/ Step(c) \/ Refresh(c)
  \/ \E id \in ServiceIDs : Vanish(id)
Spec == Init /\ [][Next]_vars

\* The goroutines run, and sync.Mutex lets everyone in in turn.
Fairness == \A c \in Callers : WF_vars(Step(c))
FairSpec == Spec /\ Fairness
-----------------------------------------------------------------------------
Entries ==
  {[id |-> id, name |-> agent[id].name, tags |-> agent[id].tags, addr |-> agent[id].addr] :
     id \in {i \in ServiceIDs : agent[i] # Absent}}

\* ServiceByTags() and the Pick functions agree about what is registered, whatever the
\* tags, their order and repetitions are.
OptionsAgree ==
  \A service \in Names, tags \in {r.tags : r \in Requests} : Agree(Entries, service, tags)

\* The id of d is settled.
Named(d) == pc[d] \notin {"idle", "name"}

\* No other goroutine registers the service of c (the same name on the same node, or the
\* same id given twice) or tags its own with the id of c.
Sole(c) ==
  \A d \in Callers \ {c} :
    Named(d) => ServiceID(d) # ServiceID(c) /\ ServiceID(c) \notin ToSet(req[d].tags)

\* Once a registration has succeeded, a lookup of its id as a tag finds that service and
\* no other, and the agent has the tags and the checks that were asked for, also
\* when it has forgotten the service and a managed service has registered it again.
FoundAsRegistered ==
  \A c \in Callers :
    LET id == ServiceID(c)  r == req[c]
    IN  pc[c] \in {"returned", "kept"} /\ Sole(c) /\ agent[id] # Absent =>
          /\ r.kind # "builder" =>
               \A e \in EnsureService(Entries, r.name, id) : e.ok /\ e.svc.id = id
          /\ ToSet(r.tags) \subseteq ToSet(agent[id].tags)
          /\ r.base = {} => agent[id].checks = r.checks
          /\ r.kind # "simple" => agent[id].open

\* Every registration ends, unless LocalNodeName() failed once.
CallsReturn ==
  \A c \in Callers : pc[c] # "idle" ~> pc[c] \in Ended \/ panicked \/ refused
=============================================================================
