SPECIFICATION FairSpec
CONSTANTS
  Callers = {c1, c2}
  Requests <- SomeRequests
  web = web
  db = db
  s1 = s1
  s2 = s2
  t1 = t1
  t2 = t2
  addr = addr
  NodeName = NodeName
  LocalAddr = LocalAddr
  NodeAddr = NodeAddr
  Blank = Blank
  Absent = Absent
  NotFound = NotFound
  ApiFaults = TRUE
CHECK_DEADLOCK FALSE
INVARIANTS
  OptionsAgree
  FoundAsRegistered
PROPERTIES
  CallsReturn
