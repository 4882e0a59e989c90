---------------------------- MODULE ClientProofs ----------------------------
(***************************************************************************)
(* Theorems about Client and the queries of ServiceQuery, for any number   *)
(* of goroutines, whatever they register and whatever the tags are.        *)
(***************************************************************************)
EXTENDS Client, FiniteSetTheorems, FunctionTheorems, TLAPS

(***************************************************************************)
(* Two lists hold the same strings equally often just when one is the      *)
(* other in another order.                                                 *)
(***************************************************************************)
At(s, v) == {i \in DOMAIN s : s[i] = v}

LEMMA FiniteSequences ==
  ASSUME NEW S, NEW s \in Seq(S)
  PROVE  /\ Len(s) \in Nat /\ DOMAIN s = 1 .. Len(s)
         /\ IsFiniteSet(DOMAIN s) /\ Cardinality(DOMAIN s) = Len(s)
         /\ \A v : IsFiniteSet(At(s, v)) /\ Occurrences(s, v) = Cardinality(At(s, v))
<1>1. Len(s) \in Nat /\ DOMAIN s = 1 .. Len(s)
  OBVIOUS
<1>2. IsFiniteSet(DOMAIN s) /\ Cardinality(DOMAIN s) = Len(s)
  BY <1>1, FS_Interval
<1>3. \A v : At(s, v) \in SUBSET DOMAIN s
  BY DEF At
<1>4. \A v : IsFiniteSet(At(s, v))
  BY <1>2, <1>3, FS_Subset
<1> QED
  BY <1>1, <1>2, <1>4 DEF Occurrences, At

\* strSlicesEqual() sorts both lists and compares them: it does not depend on the order.
LEMMA EqualIfPermuted ==
  ASSUME NEW S, NEW a \in Seq(S), NEW b \in Seq(S), IsPermutation(a, b)
  PROVE  strSlicesEqual(a, b)
<1> USE FiniteSequences
<1>1. PICK p \in [DOMAIN a -> DOMAIN b] :
        /\ \A i, j \in DOMAIN a : p[i] = p[j] => i = j
        /\ DOMAIN b = {p[i] : i \in DOMAIN a}
        /\ \A i \in DOMAIN a : b[p[i]] = a[i]
  BY DEF IsPermutation
<1>2. Len(a) = Len(b)
  <2>1. p \in Bijection(DOMAIN a, DOMAIN b)
    BY <1>1, Fun_IsBij
  <2>2. ExistsBijection(DOMAIN a, DOMAIN b)
    BY <2>1 DEF ExistsBijection
  <2> QED
    BY <2>2, FS_Bijection
<1>3. ASSUME NEW v
      PROVE  Occurrences(a, v) = Occurrences(b, v)
  <2> DEFINE q == [i \in At(a, v) |-> p[i]]
  <2>1. q \in [At(a, v) -> At(b, v)]
    BY <1>1 DEF At
  <2>2. \A i, j \in At(a, v) : q[i] = q[j] => i = j
    BY <1>1 DEF At
  <2>3. \A k \in At(b, v) : \E i \in At(a, v) : q[i] = k
    BY <1>1 DEF At
  <2>4. q \in Bijection(At(a, v), At(b, v))
    <3> HIDE DEF q
    <3> QED
      BY <2>1, <2>2, <2>3, Fun_IsBij
  <2>5. ExistsBijection(At(a, v), At(b, v))
    BY <2>4 DEF ExistsBijection
  <2>6. Cardinality(At(a, v)) = Cardinality(At(b, v))
    BY <2>5, FS_Bijection
  <2> QED
    BY <2>6
<1> QED
  BY <1>2, <1>3 DEF strSlicesEqual

\* What is used of a bijection below, apart from every other fact.
LEMMA BijectionIsInjective ==
  ASSUME NEW A, NEW B, NEW f \in Bijection(A, B)
  PROVE  /\ f \in [A -> B]
         /\ \A i, j \in A : f[i] = f[j] => i = j
<1>1. f \in [A -> B]
  BY Fun_BijectionProperties
<1>2. \A i, j \in A : f[i] = f[j] => i = j
  BY Fun_BijectionProperties
<1> QED
  BY <1>1, <1>2

LEMMA PermutedIfEqual ==
  ASSUME NEW S, NEW a \in Seq(S), NEW b \in Seq(S), strSlicesEqual(a, b)
  PROVE  IsPermutation(a, b)
<1> USE FiniteSequences
<1> DEFINE match(v) == CHOOSE f : f \in Bijection(At(a, v), At(b, v))
           p        == [i \in DOMAIN a |-> match(a[i])[i]]
<1>1. ASSUME NEW v \in ToSet(a)
      PROVE  /\ match(v) \in [At(a, v) -> At(b, v)]
             /\ \A i, j \in At(a, v) : match(v)[i] = match(v)[j] => i = j
  <2>1. ExistsBijection(At(a, v), At(b, v))
    <3>1. Cardinality(At(a, v)) = Cardinality(At(b, v))
      BY DEF strSlicesEqual
    <3> QED
      BY <3>1, FS_SameCardinalityBij
  <2>2. match(v) \in Bijection(At(a, v), At(b, v))
    BY <2>1 DEF ExistsBijection
  <2> HIDE DEF match
  <2>3. match(v) \in [At(a, v) -> At(b, v)]
    BY <2>2, BijectionIsInjective
  <2>4. \A i, j \in At(a, v) : match(v)[i] = match(v)[j] => i = j
    BY <2>2, BijectionIsInjective
  <2> QED
    BY <2>3, <2>4
<1>2. \A i \in DOMAIN a : a[i] \in ToSet(a) /\ i \in At(a, a[i])
  BY DEF ToSet, At
<1> HIDE DEF match
<1>3. \A i \in DOMAIN a : p[i] \in DOMAIN b /\ b[p[i]] = a[i]
  <2> TAKE i \in DOMAIN a
  <2>1. match(a[i]) \in [At(a, a[i]) -> At(b, a[i])] /\ i \in At(a, a[i])
    BY <1>1, <1>2
  <2>2. match(a[i])[i] \in At(b, a[i])
    BY <2>1
  <2> QED
    BY <2>2 DEF At
<1>4. ASSUME NEW i \in DOMAIN a, NEW j \in DOMAIN a, p[i] = p[j]
      PROVE  i = j
  <2>1. a[i] = a[j]
    BY <1>3, <1>4
  <2>2. match(a[i])[i] = match(a[i])[j] /\ i \in At(a, a[i]) /\ j \in At(a, a[i])
    BY <1>2, <1>4, <2>1 DEF At
  <2> QED
    BY <1>1, <1>2, <2>2
<1>5. DOMAIN b = {p[i] : i \in DOMAIN a}
  <2>1. p \in [DOMAIN a -> DOMAIN b]
    BY <1>3
  <2> HIDE DEF p
  <2>2. p \in Injection(DOMAIN a, DOMAIN b)
    BY <1>4, <2>1, Fun_IsInj
  <2>3. Cardinality(DOMAIN a) = Cardinality(DOMAIN b)
    BY DEF strSlicesEqual
  <2>4. p \in Surjection(DOMAIN a, DOMAIN b)
    BY <2>2, <2>3, FS_Injection
  <2>5. \A k \in DOMAIN b : \E i \in DOMAIN a : p[i] = k
    BY <2>4, Fun_SurjectionProperties
  <2> QED
    BY <2>1, <2>5
<1> QED
  <2>1. p \in [DOMAIN a -> DOMAIN b]
    BY <1>3
  <2> HIDE DEF p
  <2> QED
    BY <1>3, <1>4, <1>5, <2>1 DEF IsPermutation
-----------------------------------------------------------------------------
(***************************************************************************)
(* How the answers to one query with different options relate.             *)
(***************************************************************************)
\* What Consul may have registered: ids are unique.
Registry(entries) == entries \subseteq Entry /\ \A e, f \in entries : e.id = f.id => e = f

LEMMA TagSets ==
  /\ ToSet(<<>>) = {}
  /\ \A t : ToSet(<<t>>) = {t} /\ <<t>> # <<>>
BY DEF ToSet

LEMMA AddressFacts ==
  ASSUME NEW e \in Entry
  PROVE  /\ WithAddress(e) \in Entry /\ WithAddress(e) # NotFound
         /\ WithAddress(e).id = e.id /\ WithAddress(e).tags = e.tags
         /\ WithAddress(e).addr # Blank
BY ClientAssumption DEF WithAddress, Entry, Addresses

\* The entries that ServiceByTags() returns for an option it filters by itself.
Chosen(entries, service, tags, option) ==
  {e \in entries : /\ e.name = service /\ Kept(e, tags, option)
                   /\ option = "exactly" => ToSet(tags) \subseteq ToSet(e.tags)}

LEMMA ChosenFacts ==
  ASSUME NEW entries, Registry(entries), NEW service, NEW tags,
         NEW option \in TagsOptions \ {"all"}
  PROVE  LET Q      == ServiceByTags(entries, service, tags, option)
             chosen == Chosen(entries, service, tags, option)
         IN  /\ Q = {WithAddress(e) : e \in chosen}
             /\ Ids(Q) = Ids(chosen)
             /\ \A e \in entries : e.id \in Ids(Q) <=> e \in chosen
             /\ \A e \in Q : e.addr # Blank
<1> DEFINE Q      == ServiceByTags(entries, service, tags, option)
           chosen == Chosen(entries, service, tags, option)
           limit  == IF option = "exactly" THEN tags ELSE <<>>
<1>1. {f \in ServiceMultipleTags(entries, service, limit) : Kept(f, tags, option)} = chosen
  BY TagSets DEF ServiceMultipleTags, Chosen
<1>2. Q = {WithAddress(e) : e \in chosen}
  <2> HIDE DEF chosen
  <2> QED
    BY <1>1 DEF ServiceByTags
<1>3. chosen \subseteq entries /\ entries \subseteq Entry
  BY DEF Chosen, Registry
<1> HIDE DEF Q, chosen
<1>4. Ids(Q) = Ids(chosen)
  BY <1>2, <1>3, AddressFacts DEF Ids
<1>5. \A e \in entries : e.id \in Ids(Q) <=> e \in chosen
  BY <1>3, <1>4 DEF Ids, Registry
<1>6. \A e \in Q : e.addr # Blank
  BY <1>2, <1>3, AddressFacts
<1> QED
  BY <1>2, <1>4, <1>5, <1>6 DEF Q, chosen

\* Whatever is registered, ServiceByTags() and the Pick functions agree.
LEMMA QueriesAgree ==
  ASSUME NEW entries, Registry(entries), NEW service, NEW T, NEW tags \in Seq(T)
  PROVE  Agree(entries, service, tags)
<1> DEFINE Query(option) == ServiceByTags(entries, service, tags, option)
           One(tag)      == Ids(ServiceByTags(entries, service, <<tag>>, "any"))
           of            == {e \in entries : e.name = service}
           Picks         == PickServiceMultipleTags(entries, service, tags)
           In(option)    == Chosen(entries, service, tags, option)
<1>1. /\ "any" \in TagsOptions \ {"all"} /\ "exclude" \in TagsOptions \ {"all"}
      /\ "exactly" \in TagsOptions \ {"all"}
  BY DEF TagsOptions
<1>2. \A option \in TagsOptions \ {"all"} :
        /\ Query(option) = {WithAddress(e) : e \in In(option)}
        /\ Ids(Query(option)) = Ids(In(option))
        /\ \A e \in entries : e.id \in Ids(Query(option)) <=> e \in In(option)
        /\ \A e \in Query(option) : e.addr # Blank
  BY ChosenFacts
<1>3. \A t : \A e \in entries : e.id \in One(t) <=> e.name = service /\ t \in ToSet(e.tags)
  <2> TAKE t
  <2>1. \A e \in entries : e.id \in One(t) <=> e \in Chosen(entries, service, <<t>>, "any")
    BY <1>1, ChosenFacts
  <2> QED
    BY <2>1, TagSets DEF Chosen, Kept
<1>4. entries \subseteq Entry /\ \A e, f \in entries : e.id = f.id => e = f
  BY DEF Registry
<1>5. /\ In("any") = {e \in of : ToSet(e.tags) \cap ToSet(tags) # {} \/ tags = <<>>}
      /\ In("exclude") = {e \in of : ToSet(e.tags) \cap ToSet(tags) = {}}
      /\ In("exactly") = {e \in of : strSlicesEqual(tags, e.tags)
                                    /\ ToSet(tags) \subseteq ToSet(e.tags)}
  BY DEF Chosen, Kept
<1>6. Query("all") = {e \in of : ToSet(tags) \subseteq ToSet(e.tags)}
  BY DEF ServiceByTags, ServiceMultipleTags
<1> HIDE DEF Query, One, In
<1>7. Ids(Query("any")) \cup Ids(Query("exclude")) = Ids(of)
  <2>1. In("any") \cup In("exclude") = of
    BY <1>5, TagSets
  <2>2. Ids(In("any")) \cup Ids(In("exclude")) = Ids(of)
    BY <2>1 DEF Ids
  <2> QED
    BY <1>1, <1>2, <2>2
<1>8. IF tags = <<>> THEN Query("any") = Query("exclude")
                     ELSE Query("any") \cap Query("exclude") = {}
  <2>1. CASE tags = <<>>
    <3>1. In("any") = In("exclude")
      BY <1>5, <2>1, TagSets
    <3> QED
      BY <1>1, <1>2, <2>1, <3>1
  <2>2. CASE tags # <<>>
    <3> SUFFICES ASSUME NEW x \in Query("any"), x \in Query("exclude") PROVE FALSE
      BY <2>2
    <3>1. PICK e \in In("any"), f \in In("exclude") : x = WithAddress(e) /\ x = WithAddress(f)
      BY <1>1, <1>2
    <3>2. e \in Entry /\ f \in Entry
      BY <1>4, <1>5
    <3>3. WithAddress(e).tags = e.tags /\ WithAddress(f).tags = f.tags
      BY <3>2, AddressFacts
    <3>4. e.tags = f.tags
      BY <3>1, <3>3
    <3> QED
      BY <1>5, <2>2, <3>4
  <2> QED
    BY <2>1, <2>2
<1>9. ASSUME NEW e \in of
      PROVE  /\ e.id \in Ids(Query("all")) <=> \A t \in ToSet(tags) : e.id \in One(t)
             /\ tags # <<>> =>
                  (e.id \in Ids(Query("any")) <=> \E t \in ToSet(tags) : e.id \in One(t))
  <2>1. e.id \in Ids(Query("all")) <=> ToSet(tags) \subseteq ToSet(e.tags)
    BY <1>4, <1>6 DEF Ids
  <2>2. \A t : e.id \in One(t) <=> t \in ToSet(e.tags)
    BY <1>3
  <2>3. tags # <<>> =>
          (e.id \in Ids(Query("any")) <=> ToSet(e.tags) \cap ToSet(tags) # {})
    BY <1>1, <1>2, <1>5
  <2> QED
    BY <2>1, <2>2, <2>3
<1>10. Ids(Query("exactly")) = {e.id : e \in {f \in of : IsPermutation(tags, f.tags)}}
  <2>1. ASSUME NEW e \in of
        PROVE  e \in In("exactly") <=> IsPermutation(tags, e.tags)
    <3>1. e.tags \in Seq(Tags \cup T) /\ tags \in Seq(Tags \cup T)
      BY <1>4 DEF Entry
    <3>2. strSlicesEqual(tags, e.tags) <=> IsPermutation(tags, e.tags)
      BY <3>1, EqualIfPermuted, PermutedIfEqual
    <3>3. IsPermutation(tags, e.tags) => ToSet(tags) \subseteq ToSet(e.tags)
      BY DEF IsPermutation, ToSet
    <3> QED
      BY <1>5, <3>2, <3>3
  <2>2. In("exactly") = {f \in of : IsPermutation(tags, f.tags)}
    BY <1>5, <2>1
  <2> QED
    BY <1>1, <1>2, <2>2 DEF Ids
<1>11. /\ Query("all") = {} <=> NotFound \in Picks
       /\ \A e \in Picks \ {NotFound} : e.addr # Blank /\ e.id \in Ids(Query("all"))
  <2>1. Picks = IF Query("all") = {} THEN {NotFound} ELSE {WithAddress(e) : e \in Query("all")}
    BY <1>6 DEF PickServiceMultipleTags, ServiceMultipleTags
  <2>2. \A e \in Query("all") :
          /\ WithAddress(e) # NotFound
          /\ WithAddress(e).addr # Blank /\ WithAddress(e).id \in Ids(Query("all"))
    BY <1>4, <1>6, AddressFacts DEF Ids
  <2> HIDE DEF Picks
  <2> QED
    BY <2>1, <2>2
<1> QED
  BY <1>2, <1>7, <1>8, <1>9, <1>10, <1>11 DEF Agree, Query, One, Picks
-----------------------------------------------------------------------------
(***************************************************************************)
(* What the agent knows of the services that were asked for.               *)
(***************************************************************************)
Checks     == {r.checks : r \in Requests} \cup {r.base : r \in Requests}
Definition == [name : Names, tags : Seq(Tags), addr : Addresses, checks : Checks, open : BOOLEAN]
PCs        == {"idle", "name", "register", "manage"} \cup Ended

TypeOK ==
  /\ agent \in [ServiceIDs -> Definition \cup {Absent}]
  /\ nodeName \in {NodeName, Blank}
  /\ locked \in BOOLEAN /\ refused \in BOOLEAN /\ panicked \in BOOLEAN
  /\ pc \in [Callers -> PCs]
  /\ req \in [Callers -> Requests \cup {Absent}]
  /\ node \in [Callers -> {NodeName, Blank}]
  /\ copy \in [Callers -> Definition \cup {Absent}]

\* A goroutine at work has a request, and a managed service a copy.
Working ==
  \A c \in Callers :
    /\ pc[c] # "idle" => req[c] \in Requests
    /\ pc[c] \in {"manage", "kept"} => req[c].kind # "simple"
    /\ pc[c] = "kept" => copy[c] \in Definition

\* A definition under an id was asked for under this id, its tags too.
Given(id, x) ==
  /\ \E d \in Callers : Named(d) /\ ServiceID(d) = id
  /\ \A t \in ToSet(x.tags) :
       t = id \/ \E d \in Callers : Named(d) /\ ServiceID(d) = id /\ t \in ToSet(req[d].tags)

NothingUnasked ==
  /\ \A id \in ServiceIDs : agent[id] # Absent => Given(id, agent[id])
  /\ \A c \in Callers : pc[c] = "kept" => Given(ServiceID(c), copy[c])

\* A definition is what c asked for, in all that FoundAsRegistered looks at.
Asked(c, x) ==
  LET r == req[c]
  IN  /\ x.name = r.name
      /\ ToSet(r.tags) \subseteq ToSet(x.tags)
      /\ r.kind # "builder" => ServiceID(c) \in ToSet(x.tags)
      /\ r.base = {} => x.checks = r.checks
      /\ r.kind # "simple" => x.open

\* Nobody but c has a hand in the service of c, as long as nobody else asks for it.
OwnIsAsked ==
  \A c \in Callers :
    Named(c) /\ Sole(c) =>
      /\ agent[ServiceID(c)] # Absent => Asked(c, agent[ServiceID(c)])
      /\ pc[c] = "kept" => Asked(c, copy[c])

\* The agent's answers: a service stays as it is or becomes what was sent.
LEMMA RegisterFacts ==
  ASSUME NEW def, NEW a, NEW o \in RegisterOutcomes(def, a)
  PROVE  o.agent \in {def, a} /\ (o.ok => o.agent = def)
<1>1. CASE o = [agent |-> def, ok |-> TRUE]
  BY <1>1
<1>2. CASE o \in [agent : {a, def}, ok : {FALSE}]
  BY <1>2
<1> QED
  BY <1>1, <1>2 DEF RegisterOutcomes, Faulty

LEMMA RefreshFacts ==
  ASSUME NEW s, NEW a, NEW r, NEW o \in RefreshOutcomes(s, a, r)
  PROVE  /\ o.agent \in {a, r}
         /\ o.svc \in {s, r} \/ (a # Absent /\ o.svc = a)
<1>1. \A q \in RegisterOutcomes(r, a) : q.agent \in {r, a} /\ (q.ok => q.agent = r)
  BY RegisterFacts
<1> DEFINE again == RegisterOutcomes(r, a)
           Found(x) == [svc |-> x, agent |-> x, ok |-> TRUE]
           Failed(x) == [svc |-> s, agent |-> x, ok |-> FALSE]
<1>2. \/ o = Failed(a)
      \/ a # Absent /\ o = Found(a)
      \/ \E q \in again : q.ok /\ o = Found(q.agent)
      \/ \E q \in again : o = Failed(q.agent)
  <2> HIDE DEF again
  <2>1. RefreshOutcomes(s, a, r) \subseteq
          {Failed(a)} \cup {Failed(q.agent) : q \in again} \cup
          (IF a # Absent THEN {Found(a)} ELSE {Found(q.agent) : q \in {p \in again : p.ok}})
    BY DEF RefreshOutcomes, Faulty, again
  <2> QED
    BY <2>1
<1> QED
  BY <1>1, <1>2

\* An id that is settled stays so, and so does what was asked for.
LEMMA Settled ==
  ASSUME TypeOK, [Next]_vars, NEW c \in Callers, Named(c)
  PROVE  Named(c)' /\ req'[c] = req[c] /\ node'[c] = node[c] /\ ServiceID(c)' = ServiceID(c)
<1>1. Named(c)' /\ req'[c] = req[c] /\ node'[c] = node[c]
  BY DEF Next, Ask, Step, LocalNodeName, Register, NewManagedService, Refresh, Vanish, vars,
         Named, TypeOK
<1> QED
  BY <1>1 DEF ServiceID

\* The id of a request is one of the ids, and not empty.
LEMMA IdFacts ==
  ASSUME TypeOK, Working, NEW c \in Callers, Named(c)
  PROVE  ServiceID(c) \in ServiceIDs /\ ServiceID(c) # Blank
<1>1. req[c] \in Requests /\ node[c] \in {NodeName, Blank}
  BY DEF TypeOK, Working, Named
<1>2. \A tail \in {NodeName, Blank} \cup Callers : <<req[c].name, tail>> \in ServiceIDs
  BY <1>1, ClientAssumption DEF ServiceIDs, Names
<1>3. \/ ServiceID(c) \in {req[c].id, req[c].cfgID} \ {Blank}
      \/ \E tail \in {NodeName, Blank} \cup Callers : ServiceID(c) = <<req[c].name, tail>>
  BY <1>1 DEF ServiceID
<1>4. ServiceID(c) \in ServiceIDs
  BY <1>1, <1>2, <1>3 DEF ServiceIDs
<1> QED
  BY <1>4 DEF ServiceIDs

IdsInRange == \A c \in Callers : Named(c) => ServiceID(c) \in ServiceIDs

LEMMA IdsStayInRange == TypeOK' /\ Working' => IdsInRange'
<1>1. TypeOK /\ Working => IdsInRange
  BY IdFacts DEF IdsInRange
<1> QED
  BY <1>1, PTL

\* What simpleToReg() and the builder send is what was asked for.
LEMMA RegistrationFacts ==
  ASSUME TypeOK, Working, NEW c \in Callers, Named(c)
  PROVE  /\ Registration(c) \in Definition
         /\ Asked(c, Registration(c))
         /\ ToSet(Registration(c).tags) \subseteq ToSet(req[c].tags) \cup {ServiceID(c)}
<1>1. req[c] \in Requests /\ ServiceID(c) \in ServiceIDs
  BY IdFacts DEF TypeOK, Working, Named
<1> DEFINE tags == req[c].tags
           more == Append(tags, ServiceID(c))
<1>2. tags \in Seq(ToSet(tags)) /\ ToSet(tags) \subseteq Tags /\ req[c].open \in BOOLEAN
  BY <1>1, ClientAssumption DEF Tags
<1>3. tags \in Seq(Tags) /\ more \in Seq(Tags)
  BY <1>1, <1>2 DEF Tags
<1>4. ToSet(more) = ToSet(tags) \cup {ServiceID(c)}
  <2>1. /\ Len(more) = Len(tags) + 1 /\ more[Len(more)] = ServiceID(c)
        /\ \A i \in 1 .. Len(tags) : more[i] = tags[i]
    BY <1>2
  <2>2. DOMAIN more = 1 .. Len(more) /\ DOMAIN tags = 1 .. Len(tags) /\ Len(tags) \in Nat
    BY <1>2, <1>3
  <2> HIDE DEF more, tags
  <2>3. DOMAIN more = DOMAIN tags \cup {Len(more)}
    BY <2>1, <2>2
  <2> QED
    BY <2>1, <2>2, <2>3 DEF ToSet
<1>5. Registration(c).tags = IF req[c].kind # "builder" THEN more ELSE tags
  BY DEF Registration
<1>6. /\ req[c].name \in Names /\ req[c].checks \in Checks
      /\ {req[c].addr, LocalAddr} \subseteq Addresses
  BY <1>1 DEF Names, Checks, Addresses
<1> HIDE DEF more, tags
<1>7. Registration(c) \in Definition
  BY <1>2, <1>3, <1>5, <1>6 DEF Registration, Definition
<1>8. Asked(c, Registration(c))
  <2>1. /\ Registration(c).name = req[c].name /\ Registration(c).checks = req[c].checks
        /\ req[c].kind # "simple" => Registration(c).open
    BY DEF Registration
  <2> QED
    BY <1>4, <1>5, <2>1 DEF Asked, tags
<1> QED
  BY <1>4, <1>5, <1>7, <1>8 DEF tags

\* What a managed service registers again is its copy, with the checks it was given.
LEMMA RestoredFacts ==
  ASSUME TypeOK, Working, NEW c \in Callers, pc[c] = "kept"
  PROVE  /\ Restored(c) \in Definition
         /\ Restored(c).tags = copy[c].tags
         /\ Asked(c, copy[c]) => Asked(c, Restored(c))
<1>1. copy[c] \in Definition /\ req[c] \in Requests
  BY DEF Working
<1>2. BaseChecks(c) \in Checks /\ (req[c].base = {} => BaseChecks(c) = req[c].checks)
  BY <1>1 DEF BaseChecks, Checks
<1> QED
  BY <1>1, <1>2 DEF Restored, Definition, Asked
-----------------------------------------------------------------------------
LEMMA TypeStep == TypeOK /\ Working /\ [Next]_vars => TypeOK' /\ Working'
<1> SUFFICES ASSUME TypeOK, Working, [Next]_vars
             PROVE  TypeOK' /\ Working'
  OBVIOUS
<1>1. CASE \E c \in Callers : Ask(c)
  BY <1>1, ClientAssumption DEF Ask, TypeOK, Working, PCs, Ended
<1>2. CASE \E c \in Callers : LocalNodeName(c)
  <2> PICK c \in Callers : LocalNodeName(c)
    BY <1>2
  <2>1. nodeName' \in {NodeName, Blank} /\ node' = [node EXCEPT ![c] = nodeName']
    BY DEF LocalNodeName, TypeOK, Faulty
  <2>2. locked' \in BOOLEAN /\ refused' \in BOOLEAN
    BY DEF LocalNodeName, KeepsLock, TypeOK
  <2> QED
    BY <2>1, <2>2 DEF LocalNodeName, TypeOK, Working, PCs
<1>3. CASE \E c \in Callers : Register(c)
  <2> PICK c \in Callers : Register(c)
    BY <1>3
  <2>1. Named(c) /\ pc[c] = "register"
    BY DEF Register, Named
  <2>2. \A o \in RegisterOutcomes(Registration(c), agent[ServiceID(c)]) :
          o.agent \in Definition \cup {Absent}
    BY <2>1, IdFacts, RegistrationFacts, RegisterFacts DEF TypeOK
  <2>3. agent' \in [ServiceIDs -> Definition \cup {Absent}]
    BY <2>1, <2>2 DEF Register, TypeOK
  <2>4. \/ pc' = [pc EXCEPT ![c] = "failed"] \/ pc' = [pc EXCEPT ![c] = "returned"]
        \/ req[c].kind # "simple" /\ pc' = [pc EXCEPT ![c] = "manage"]
    BY DEF Register
  <2> QED
    BY <2>1, <2>3, <2>4 DEF Register, TypeOK, Working, PCs, Ended
<1>4. CASE \E c \in Callers : NewManagedService(c)
  <2> PICK c \in Callers : NewManagedService(c)
    BY <1>4
  <2>1. agent[ServiceID(c)] \in Definition \cup {Absent}
    BY IdFacts DEF NewManagedService, Named, TypeOK
  <2> QED
    BY <2>1 DEF NewManagedService, TypeOK, Working, PCs, Ended
<1>5. CASE \E c \in Callers : Refresh(c)
  <2> PICK c \in Callers : Refresh(c)
    BY <1>5
  <2>0. pc[c] = "kept" /\ Named(c)
    BY DEF Refresh, Named
  <2>1. agent[ServiceID(c)] \in Definition \cup {Absent} /\ copy[c] \in Definition
    BY <2>0, IdFacts DEF TypeOK, Working
  <2>2. \A o \in RefreshOutcomes(copy[c], agent[ServiceID(c)], Restored(c)) :
          o.agent \in Definition \cup {Absent} /\ o.svc \in Definition
    BY <2>0, <2>1, RestoredFacts, RefreshFacts
  <2>3. PICK o \in RefreshOutcomes(copy[c], agent[ServiceID(c)], Restored(c)) :
          agent' = [agent EXCEPT ![ServiceID(c)] = o.agent] /\ copy' = [copy EXCEPT ![c] = o.svc]
    BY DEF Refresh
  <2> QED
    BY <2>2, <2>3 DEF Refresh, TypeOK, Working
<1>6. CASE (\E id \in ServiceIDs : Vanish(id)) \/ UNCHANGED vars
  BY <1>6 DEF Vanish, vars, TypeOK, Working
<1> QED
  BY <1>1, <1>2, <1>3, <1>4, <1>5, <1>6 DEF Next, Step

\* Where the definitions in the agent and in the copies come from.
LEMMA AgentSteps ==
  ASSUME TypeOK, Working, [Next]_vars, NEW id \in ServiceIDs, agent'[id] # Absent
  PROVE  \/ agent'[id] = agent[id]
         \/ \E c \in Callers : /\ Named(c) /\ ServiceID(c) = id
                              /\ \/ agent'[id] = Registration(c)
                                 \/ pc[c] = "kept" /\ agent'[id] = Restored(c)
<1>1. ASSUME NEW c \in Callers, Register(c)
      PROVE  agent'[id] = agent[id] \/ (/\ Named(c) /\ ServiceID(c) = id
                                       /\ agent'[id] = Registration(c))
  <2>1. Named(c)
    BY <1>1 DEF Register, Named
  <2>2. \A o \in RegisterOutcomes(Registration(c), agent[ServiceID(c)]) :
          o.agent \in {Registration(c), agent[ServiceID(c)]}
    BY RegisterFacts
  <2> QED
    BY <1>1, <2>1, <2>2 DEF Register, TypeOK
<1>2. ASSUME NEW c \in Callers, Refresh(c)
      PROVE  agent'[id] = agent[id] \/ (/\ Named(c) /\ ServiceID(c) = id
                                       /\ pc[c] = "kept" /\ agent'[id] = Restored(c))
  <2>1. Named(c) /\ pc[c] = "kept"
    BY <1>2 DEF Refresh, Named
  <2>2. \A o \in RefreshOutcomes(copy[c], agent[ServiceID(c)], Restored(c)) :
          o.agent \in {agent[ServiceID(c)], Restored(c)}
    BY RefreshFacts
  <2> QED
    BY <1>2, <2>1, <2>2 DEF Refresh, TypeOK
<1>3. CASE \/ \E c \in Callers : Ask(c) \/ LocalNodeName(c) \/ NewManagedService(c)
           \/ \E i \in ServiceIDs : Vanish(i)
           \/ UNCHANGED vars
  BY <1>3 DEF Ask, LocalNodeName, NewManagedService, Vanish, vars, TypeOK
<1> QED
  BY <1>1, <1>2, <1>3 DEF Next, Step

LEMMA CopySteps ==
  ASSUME TypeOK, Working, [Next]_vars, NEW c \in Callers, pc'[c] = "kept"
  PROVE  \/ pc[c] = "kept" /\ copy'[c] \in {copy[c], Restored(c)}
         \/ /\ Named(c) /\ agent[ServiceID(c)] # Absent
            /\ copy'[c] = agent[ServiceID(c)]
<1>1. CASE \E d \in Callers : NewManagedService(d)
  BY <1>1 DEF NewManagedService, Named, TypeOK
<1>2. CASE \E d \in Callers : Refresh(d)
  <2> PICK d \in Callers : Refresh(d)
    BY <1>2
  <2>1. pc[c] = "kept" /\ Named(c)
    BY DEF Refresh, Named
  <2>2. PICK o \in RefreshOutcomes(copy[d], agent[ServiceID(d)], Restored(d)) :
          copy' = [copy EXCEPT ![d] = o.svc]
    BY DEF Refresh
  <2>3. o.svc \in {copy[d], Restored(d)} \/ (agent[ServiceID(d)] # Absent /\ o.svc = agent[ServiceID(d)])
    BY RefreshFacts
  <2> QED
    BY <2>1, <2>2, <2>3 DEF TypeOK
<1>3. CASE \/ \E d \in Callers : Ask(d) \/ LocalNodeName(d) \/ Register(d)
           \/ \E i \in ServiceIDs : Vanish(i)
           \/ UNCHANGED vars
  BY <1>3 DEF Ask, LocalNodeName, Register, Vanish, vars, TypeOK
<1> QED
  BY <1>1, <1>2, <1>3 DEF Next, Step

LEMMA UnaskedStep == TypeOK /\ Working /\ NothingUnasked /\ [Next]_vars => NothingUnasked'
<1> SUFFICES ASSUME TypeOK, Working, NothingUnasked, [Next]_vars
             PROVE  NothingUnasked'
  OBVIOUS
<1>1. ASSUME NEW c \in Callers, Named(c)
      PROVE  Given(ServiceID(c), Registration(c))
  BY <1>1, RegistrationFacts DEF Given
<1>2. ASSUME NEW c \in Callers, pc[c] = "kept"
      PROVE  Given(ServiceID(c), copy[c]) /\ Given(ServiceID(c), Restored(c))
  BY <1>2, RestoredFacts DEF NothingUnasked, Given
<1>3. ASSUME NEW id \in ServiceIDs, agent'[id] # Absent
      PROVE  Given(id, agent[id])'
  <2>1. Given(id, agent'[id])
    BY <1>1, <1>2, <1>3, AgentSteps DEF NothingUnasked
  <2> QED
    BY <2>1, Settled DEF Given
<1>4. ASSUME NEW c \in Callers, pc'[c] = "kept"
      PROVE  Given(ServiceID(c), copy[c])'
  <2>1. Named(c) /\ Given(ServiceID(c), copy'[c])
    BY <1>2, <1>4, CopySteps, IdFacts DEF NothingUnasked, Named
  <2> QED
    BY <2>1, Settled DEF Given
<1> QED
  BY <1>3, <1>4 DEF NothingUnasked

\* Nobody else has asked for the service of c if nobody has after the step.
LEMMA SoleBefore ==
  ASSUME TypeOK, [Next]_vars, NEW c \in Callers, Named(c), Sole(c)'
  PROVE  Sole(c)
BY Settled DEF Sole

LEMMA OwnStep ==
  TypeOK /\ Working /\ NothingUnasked /\ OwnIsAsked /\ [Next]_vars => OwnIsAsked'
<1> SUFFICES ASSUME TypeOK, Working, NothingUnasked, OwnIsAsked, [Next]_vars,
                    NEW c \in Callers, Named(c)', Sole(c)'
             PROVE  /\ agent'[ServiceID(c)'] # Absent => Asked(c, agent[ServiceID(c)])'
                    /\ pc'[c] = "kept" => Asked(c, copy[c])'
  BY DEF OwnIsAsked
<1>0. TypeOK' /\ Working' /\ NothingUnasked'
  BY TypeStep, UnaskedStep
<1>1. CASE ~Named(c)
  <2>1. UNCHANGED agent /\ pc'[c] # "kept" /\ \A d \in Callers \ {c} : Named(d)' => Named(d)
    BY <1>1 DEF Next, Ask, Step, LocalNodeName, Register, NewManagedService, Refresh, Vanish,
                vars, Named, TypeOK
  <2>2. \A d \in Callers \ {c} : Named(d) => Named(d)' /\ ServiceID(d)' = ServiceID(d)
    BY Settled
  <2>3. ServiceID(c)' \in ServiceIDs
    BY <1>0, IdsStayInRange DEF IdsInRange
  <2>4. agent[ServiceID(c)'] = Absent
    BY <1>1, <2>2, <2>3 DEF NothingUnasked, Given, Sole
  <2> QED
    BY <2>1, <2>4
<1>2. CASE Named(c)
  <2>1. Sole(c) /\ ServiceID(c)' = ServiceID(c) /\ req'[c] = req[c]
    BY <1>2, SoleBefore, Settled
  <2>2. ServiceID(c) \in ServiceIDs
    BY <1>2, IdFacts
  <2>3. \A d \in Callers : Named(d) /\ ServiceID(d) = ServiceID(c) => d = c
    BY <2>1 DEF Sole
  <2>4. Asked(c, Registration(c)) /\ (pc[c] = "kept" => Asked(c, copy[c]) /\ Asked(c, Restored(c)))
    BY <1>2, <2>1, RegistrationFacts, RestoredFacts DEF OwnIsAsked
  <2>5. agent'[ServiceID(c)] # Absent => Asked(c, agent'[ServiceID(c)])
    BY <1>2, <2>1, <2>2, <2>3, <2>4, AgentSteps DEF OwnIsAsked
  <2>6. pc'[c] = "kept" => Asked(c, copy'[c])
    BY <1>2, <2>1, <2>4, CopySteps DEF OwnIsAsked
  <2> QED
    BY <2>1, <2>5, <2>6 DEF Asked
<1> QED
  BY <1>1, <1>2

Known == TypeOK /\ Working /\ NothingUnasked /\ OwnIsAsked

LEMMA KnownInvariant == Spec => []Known
<1>1. Init => Known
  BY DEF Init, Known, TypeOK, Working, NothingUnasked, OwnIsAsked, Named, PCs
<1>2. Known /\ [Next]_vars => Known'
  BY TypeStep, UnaskedStep, OwnStep DEF Known
<1> QED
  BY <1>1, <1>2, PTL DEF Spec
-----------------------------------------------------------------------------
\* The agent is a registry: what a query sees are entries with different ids.
LEMMA EntryFacts ==
  ASSUME TypeOK
  PROVE  /\ Registry(Entries)
         /\ \A e \in Entries :
              /\ e.id \in ServiceIDs /\ agent[e.id] # Absent
              /\ e.name = agent[e.id].name /\ e.tags = agent[e.id].tags
         /\ \A id \in ServiceIDs : agent[id] # Absent => \E e \in Entries : e.id = id
<1> DEFINE entry(id) == [id |-> id, name |-> agent[id].name, tags |-> agent[id].tags,
                         addr |-> agent[id].addr]
<1>1. Entries = {entry(id) : id \in {i \in ServiceIDs : agent[i] # Absent}}
  BY DEF Entries
<1>2. \A id \in ServiceIDs : agent[id] # Absent => entry(id) \in Entry
  BY DEF TypeOK, Definition, Entry
<1>3. \A id : /\ entry(id).id = id /\ entry(id).name = agent[id].name
              /\ entry(id).tags = agent[id].tags
  OBVIOUS
<1> HIDE DEF entry
<1> QED
  BY <1>1, <1>2, <1>3 DEF Registry

\* Whatever the goroutines have registered, ServiceByTags() with every option and the Pick
\* functions agree about it, for tags in any order and with repetitions.
THEOREM QueriesAlwaysAgree == Spec => []OptionsAgree
<1>1. TypeOK => OptionsAgree
  <2> SUFFICES ASSUME TypeOK, NEW service \in Names, NEW r \in Requests
               PROVE  Agree(Entries, service, r.tags)
    BY DEF OptionsAgree
  <2>1. r.tags \in Seq(ToSet(r.tags))
    BY ClientAssumption
  <2> QED
    BY <2>1, EntryFacts, QueriesAgree
<1> QED
  BY <1>1, KnownInvariant, PTL DEF Known

\* A lookup of its id as a tag finds the service of c and no other, and the agent has it as
\* c asked for it.
THEOREM LookupFindsOwn == Spec => []FoundAsRegistered
<1>1. Known => FoundAsRegistered
  <2> SUFFICES ASSUME Known, NEW c \in Callers, pc[c] \in {"returned", "kept"}, Sole(c),
                      agent[ServiceID(c)] # Absent
               PROVE  /\ req[c].kind # "builder" =>
                            \A e \in EnsureService(Entries, req[c].name, ServiceID(c)) :
                              e.ok /\ e.svc.id = ServiceID(c)
                      /\ ToSet(req[c].tags) \subseteq ToSet(agent[ServiceID(c)].tags)
                      /\ req[c].base = {} => agent[ServiceID(c)].checks = req[c].checks
                      /\ req[c].kind # "simple" => agent[ServiceID(c)].open
    BY DEF FoundAsRegistered
  <2>1. Named(c) /\ Asked(c, agent[ServiceID(c)])
    BY DEF Named, Known, OwnIsAsked
  <2>2. ServiceID(c) \in ServiceIDs /\ ServiceID(c) # Blank
    BY <2>1, IdFacts DEF Known
  <2>3. ASSUME req[c].kind # "builder",
               NEW e \in EnsureService(Entries, req[c].name, ServiceID(c))
        PROVE  e.ok /\ e.svc.id = ServiceID(c)
    <3> DEFINE found == ServiceMultipleTags(Entries, req[c].name, <<ServiceID(c)>>)
    <3>1. found = {f \in Entries : f.name = req[c].name /\ ServiceID(c) \in ToSet(f.tags)}
      BY TagSets DEF ServiceMultipleTags
    <3>2. found # {}
      BY <2>1, <2>2, <2>3, <3>1, EntryFacts DEF Asked, Known
    <3>3. ASSUME NEW f \in found
          PROVE  f \in Entry /\ f.id = ServiceID(c)
      <4>1. f \in Entries /\ ServiceID(c) \in ToSet(f.tags)
        BY <3>1
      <4>2. /\ f \in Entry /\ f.id \in ServiceIDs
            /\ agent[f.id] # Absent /\ f.tags = agent[f.id].tags
        BY <4>1, EntryFacts DEF Registry, Known
      <4>3. \/ ServiceID(c) = f.id
            \/ \E d \in Callers : /\ Named(d) /\ ServiceID(d) = f.id
                                 /\ ServiceID(c) \in ToSet(req[d].tags)
        BY <4>1, <4>2 DEF Known, NothingUnasked, Given
      <4> QED
        BY <4>2, <4>3 DEF Sole
    <3> HIDE DEF found
    <3>4. PickService(Entries, req[c].name, ServiceID(c)) = {WithAddress(f) : f \in found}
      BY <2>2, <3>2 DEF PickService, PickServiceMultipleTags, found
    <3>5. PICK f \in found : e = [svc |-> WithAddress(f), ok |-> WithAddress(f) # NotFound]
      BY <2>3, <3>4 DEF EnsureService
    <3>6. WithAddress(f).id = f.id /\ WithAddress(f) # NotFound
      BY <3>3, AddressFacts
    <3> QED
      BY <3>3, <3>5, <3>6
  <2> QED
    BY <2>1, <2>3 DEF Asked
<1> QED
  BY <1>1, KnownInvariant, PTL
=============================================================================
