---------------------------- MODULE ServiceQuery ----------------------------
(***************************************************************************)
(* client.go: finding services by their tags.                              *)
(*                                                                         *)
(* An entry is what Consul's health endpoint returns for one service: a    *)
(* record with at least the fields id, name, tags (a sequence) and addr.   *)
(* The order of a result is that of Consul's answer: a set is enough.  The *)
(* filter by health (passingOnly) is Consul's own.                         *)
(***************************************************************************)
EXTENDS FiniteSets, Integers, SequencesExt

CONSTANTS
  Blank,      \* the empty string
  NodeAddr,   \* the address of the node the services are on
  NotFound    \* no entry

\* TagsOption.
TagsOptions == {"all", "any", "exactly", "exclude"}

\* Health().ServiceMultipleTags: the instances of a service that have all the tags.
\* Health().Service without a tag is the same query without tags.
ServiceMultipleTags(entries, service, tags) ==
  {e \in entries : e.name = service /\ ToSet(tags) \subseteq ToSet(e.tags)}

\* An entry without an address has that of its node.
WithAddress(e) == IF e.addr = Blank THEN [e EXCEPT !.addr = NodeAddr] ELSE e

Occurrences(s, v) == Cardinality({i \in DOMAIN s : s[i] = v})

\* The same strings in any order: equal when both are sorted.
strSlicesEqual(a, b) ==
  /\ Len(a) = Len(b)
  /\ \A v \in ToSet(a) : Occurrences(a, v) = Occurrences(b, v)

\* Mutations of Kept: the case of no tags is forgotten; exactly compares sets.
KeptIfAny(e, tags, tagsOption) ==
  LET found == ToSet(e.tags) \cap ToSet(tags) # {}
  IN  CASE tagsOption = "exactly" -> strSlicesEqual(tags, e.tags)
        [] tagsOption = "any"     -> found
        [] OTHER                  -> ~found
KeptAsSets(e, tags, tagsOption) ==
  LET found == ToSet(e.tags) \cap ToSet(tags) # {}
  IN  CASE tagsOption = "exactly" -> ToSet(tags) = ToSet(e.tags)
        [] tagsOption = "any"     -> found \/ tags = <<>>
        [] OTHER                  -> ~found

\* The filter of ServiceByTags() over what Consul returned.
Kept(e, tags, tagsOption) ==
  LET found == ToSet(e.tags) \cap ToSet(tags) # {}
  IN  CASE tagsOption = "exactly" -> strSlicesEqual(tags, e.tags)
        [] tagsOption = "any"     -> found \/ tags = <<>>
        [] OTHER                  -> ~found

\* ServiceByTags(): TagsAll passes Consul's answer on as it is.
ServiceByTags(entries, service, tags, tagsOption) ==
  IF tagsOption = "all" THEN ServiceMultipleTags(entries, service, tags)
  ELSE LET limit == IF tagsOption = "exactly" THEN tags ELSE <<>>
       IN  {WithAddress(e) : e \in
              {f \in ServiceMultipleTags(entries, service, limit) : Kept(f, tags, tagsOption)}}

\* PickServiceMultipleTags(): any of the entries found, or nil.
PickServiceMultipleTags(entries, service, tags) ==
  LET found == ServiceMultipleTags(entries, service, tags)
  IN  IF found = {} THEN {NotFound} ELSE {WithAddress(e) : e \in found}

\* PickService(): with one tag or, when it is blank, without.
PickService(entries, service, tag) ==
  PickServiceMultipleTags(entries, service, IF tag = Blank THEN <<>> ELSE <<tag>>)

\* EnsureService(): nil is an error.
EnsureService(entries, service, tag) ==
  {[svc |-> e, ok |-> e # NotFound] : e \in PickService(entries, service, tag)}
-----------------------------------------------------------------------------
Ids(entries) == {e.id : e \in entries}
IsPermutation(a, b) ==
  \E p \in [DOMAIN a -> DOMAIN b] :
    /\ \A i, j \in DOMAIN a : p[i] = p[j] => i = j
    /\ DOMAIN b = {p[i] : i \in DOMAIN a}
    /\ \A i \in DOMAIN a : b[p[i]] = a[i]

(***************************************************************************)
(* How the answers to one query with different options relate.             *)
(***************************************************************************)
Agree(entries, service, tags) ==
  LET Query(option) == ServiceByTags(entries, service, tags, option)
      One(tag)      == Ids(ServiceByTags(entries, service, <<tag>>, "any"))
      of            == {e \in entries : e.name = service}
  IN  \* Any and Exclude split the instances, and without tags all are in both.
      /\ Ids(Query("any")) \cup Ids(Query("exclude")) = Ids(of)
      /\ IF tags = <<>> THEN Query("any") = Query("exclude")
                        ELSE Query("any") \cap Query("exclude") = {}
      \* All is in every one-tag query, Any in some.
      /\ \A e \in of :
           /\ e.id \in Ids(Query("all")) <=> \A t \in ToSet(tags) : e.id \in One(t)
           /\ tags # <<>> =>
                (e.id \in Ids(Query("any")) <=> \E t \in ToSet(tags) : e.id \in One(t))
      \* Exactly: the service's tags are those of the query, in some order.
      /\ Ids(Query("exactly")) = {e.id : e \in {f \in of : IsPermutation(tags, f.tags)}}
      \* Pick finds an instance just when All does, and knows where it is.
      /\ Query("all") = {} <=> NotFound \in PickServiceMultipleTags(entries, service, tags)
      /\ \A e \in PickServiceMultipleTags(entries, service, tags) \ {NotFound} :
           e.addr # Blank /\ e.id \in Ids(Query("all"))
      /\ \A option \in TagsOptions \ {"all"} : \A e \in Query(option) : e.addr # Blank
=============================================================================
