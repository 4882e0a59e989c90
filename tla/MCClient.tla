------------------------------ MODULE MCClient ------------------------------
(* Instances of Client for TLC. *)
EXTENDS Client

CONSTANTS web, db, s1, s2, t1, t2, addr

Request(kind, name, id, random, tags, checks, base, cfgID) ==
  [kind |-> kind, valid |-> TRUE, name |-> name, id |-> id, random |-> random, tags |-> tags,
   addr |-> Blank, checks |-> checks, open |-> FALSE, base |-> base, cfgID |-> cfgID]

TagLists == {<<>>, <<t1>>, <<t1, t1>>, <<t2, t1>>, <<t1, t2>>, <<t1, t2, t1>>}

\* Services that differ in their tags; ids that are given, formed, equal and different;
\* checks of the service and of the config; a request that is refused.
SomeRequests ==
  {Request("builder", web, Blank, FALSE, tags, {}, {}, Blank) : tags \in TagLists} \cup
  {[Request("simple", name, id, random, <<t1>>, {}, {}, Blank) EXCEPT !.addr = a] :
     name \in {web, db}, id \in {Blank, s1}, random \in BOOLEAN, a \in {Blank, addr}} \cup
  {Request(kind, web, id, FALSE, <<t2>>, {"http", "tcp"}, base, cfgID) :
     kind \in {"managed", "builder"}, id \in {Blank, s1}, base \in {{}, {"ttl"}},
     cfgID \in {Blank, s1, s2}} \cup
  {[Request("managed", web, s1, FALSE, <<>>, {}, {}, Blank) EXCEPT !.valid = FALSE]}
=============================================================================
